----------------------------- MODULE ClientsProofs -----------------------------
(***************************************************************************)
(* The lock, and the lock and the sessions together, for any number of     *)
(* clients and any backlog.                                                *)
(*                                                                         *)
(* That two clients are not past the lock at once is not inductive: it     *)
(* does not say that a client that binds is the first.  The kernel's name  *)
(* does, as long as every client past the lock owns it.                    *)
(*                                                                         *)
(* What the clients do to the lock are steps of SingleInstance, so its     *)
(* lemmas carry over.  That sessions only exist under the lock needs to be *)
(* strengthened by where a client in its event loop is, and by who can be  *)
(* moved by somebody else: only those who wait for an answer are, and they *)
(* have no session.                                                        *)
(***************************************************************************)
EXTENDS Clients, SequenceTheorems, TLAPS

(***************************************************************************)
(* The lock (SingleInstance).                                              *)
(***************************************************************************)

\* Whoever is past the lock has the name, from bind to the end of the process.
HoldersHaveTheName == \A p \in Processes : Holds(p) => name = p

IInv == TypeOK /\ HoldersHaveTheName

-----------------------------------------------------------------------------
\* The backlog stays one when everyone in it is replaced (End), or one more
\* comes to it (ConnectToHolder).
LEMMA BacklogReplaced ==
  ASSUME NEW S, NEW s \in Seq(S), NEW f, DOMAIN f = DOMAIN s,
         \A i \in DOMAIN s : f[i] \in S, f = [i \in DOMAIN s |-> f[i]]
  PROVE  f \in Seq(S) /\ Len(f) = Len(s)
<1>1. Len(s) \in Nat /\ DOMAIN s = 1..Len(s)
  BY LenProperties
<1>2. f \in [1..Len(s) -> S]
  BY <1>1
<1>3. f \in Seq(S)
  BY <1>1, <1>2, SeqDef
<1> QED  BY <1>1, <1>3, LenProperties

\* Nobody waits at first, and after the holder has ended.
LEMMA BacklogEmpty ==
  ASSUME InstanceAssumption
  PROVE  <<>> \in Seq(Processes \cup {Nobody}) /\ Len(<<>>) <= Backlog
<1>1. <<>> \in Seq(Processes \cup {Nobody}) /\ Len(<<>>) = 0
  BY EmptySeq
<1> QED  BY <1>1 DEF InstanceAssumption

\* Closing a client's sockets leaves everything well typed, owner or not.
LEMMA CloseTypes ==
  ASSUME InstanceAssumption, TypeOK, NEW p \in Processes, NEW next \in ProcessAt,
         Close(p, next)
  PROVE  TypeOK'
<1>1. CASE name = p
  <2>1. backlog' \in Seq(Processes \cup {Nobody}) /\ Len(backlog') <= Backlog
    BY <1>1, BacklogEmpty DEF Close
  <2>2. at' \in [Processes -> ProcessAt]
    BY <1>1 DEF Close, TypeOK, ProcessAt
  <2>3. name' = Nobody /\ listening' = FALSE
    BY <1>1 DEF Close
  <2> QED  BY <2>1, <2>2, <2>3 DEF TypeOK
<1>2. CASE name # p
  <2>1. backlog' = [i \in DOMAIN backlog |->
                      IF backlog[i] = p THEN Nobody ELSE backlog[i]]
    BY <1>2 DEF Close
  <2>2. \A i \in DOMAIN backlog : backlog[i] \in Processes \cup {Nobody}
    BY ElementOfSeq, LenProperties DEF TypeOK
  <2>3. /\ backlog' \in Seq(Processes \cup {Nobody})
        /\ Len(backlog') = Len(backlog)
    BY <2>1, <2>2, BacklogReplaced DEF TypeOK
  <2> QED  BY <1>2, <2>3 DEF Close, TypeOK, ProcessAt
<1> QED  BY <1>1, <1>2

\* Each step leaves the client's positions, the lock and its backlog well typed.
LEMMA StepTypes ==
  ASSUME InstanceAssumption, TypeOK, Next
  PROVE  TypeOK'
<1>1. PICK p \in Processes :
        \/ Start(p) \/ Acquire(p) \/ EnterEventLoop(p) \/ ServePending(p)
        \/ Release(p) \/ End(p)
  BY DEF Next
<1>2. CASE Start(p) \/ EnterEventLoop(p) \/ FailOpen(p) \/ Bind(p)
           \/ FindInUse(p) \/ Listen(p) \/ ConnectFails(p)
  BY <1>2 DEF Start, EnterEventLoop, FailOpen, Bind, FindInUse, Listen,
     ConnectFails, Go, TypeOK, ProcessAt
<1>3. CASE ConnectToHolder(p)
  <2>1. /\ backlog' \in Seq(Processes \cup {Nobody})
        /\ Len(backlog') = Len(backlog) + 1
    BY <1>3, AppendProperties DEF ConnectToHolder, TypeOK
  <2>2. Len(backlog') <= Backlog
    BY <1>3, <2>1, LenProperties DEF ConnectToHolder, TypeOK, InstanceAssumption
  <2> QED  BY <1>3, <2>1, <2>2 DEF ConnectToHolder, Go, TypeOK, ProcessAt
<1>4. CASE ServePending(p)
  BY <1>4 DEF ServePending, Answer, TypeOK, ProcessAt, InstanceAssumption
<1>5. CASE Release(p) \/ End(p)
  BY <1>5, CloseTypes DEF Release, End, ProcessAt
<1> QED  BY <1>1, <1>2, <1>3, <1>4, <1>5 DEF Acquire

\* Only Bind lets a client past the lock, and only one whose name is free; only
\* its owner's end frees the name.
LEMMA StepHoldersHaveTheName ==
  ASSUME InstanceAssumption, TypeOK, HoldersHaveTheName, Next
  PROVE  HoldersHaveTheName'
<1> USE DEF HoldersHaveTheName, Holds, TypeOK
<1>1. PICK p \in Processes :
        \/ Start(p) \/ Acquire(p) \/ EnterEventLoop(p) \/ ServePending(p)
        \/ Release(p) \/ End(p)
  BY DEF Next
<1>2. CASE Start(p) \/ FailOpen(p) \/ FindInUse(p) \/ ConnectToHolder(p)
           \/ ConnectFails(p)
  BY <1>2 DEF Start, FailOpen, FindInUse, ConnectToHolder, ConnectFails, Go
<1>3. CASE Bind(p)
  <2>1. \A q \in Processes : ~Holds(q)
    BY <1>3 DEF Bind, InstanceAssumption
  <2> QED  BY <1>3, <2>1 DEF Bind, Go
<1>4. CASE Listen(p) \/ EnterEventLoop(p)
  BY <1>4 DEF Listen, EnterEventLoop, Go
<1>5. CASE ServePending(p)
  BY <1>5 DEF ServePending, Answer
<1>6. CASE Release(p) \/ End(p)
  <2>1. CASE name = p
    <3>1. \A q \in Processes : q # p => ~Holds(q)
      BY <2>1
    <3> QED  BY <1>6, <2>1, <3>1 DEF Release, End, Close
  <2>2. CASE name # p
    BY <1>6, <2>2 DEF Release, End, Close
  <2> QED  BY <2>1, <2>2
<1> QED  BY <1>1, <1>2, <1>3, <1>4, <1>5, <1>6 DEF Acquire

-----------------------------------------------------------------------------
\* The lock's invariant: every client past the lock owns the socket's name, from
\* bind(2) until its process ends (single_instance.hpp:51-64 and 150-157).
THEOREM Invariance == Spec => []IInv
<1>1. Init => IInv
  <2>1. Init => TypeOK
    BY InstanceAssumption, BacklogEmpty DEF Init, TypeOK, ProcessAt
  <2>2. Init => HoldersHaveTheName
    BY DEF Init, HoldersHaveTheName, Holds
  <2> QED  BY <2>1, <2>2 DEF IInv
<1>2. IInv /\ [Next]_vars => IInv'
  <2>1. CASE Next
    BY <2>1, InstanceAssumption, StepTypes, StepHoldersHaveTheName DEF IInv
  <2>2. CASE UNCHANGED vars
    BY <2>2 DEF vars, IInv, TypeOK, HoldersHaveTheName, Holds
  <2> QED  BY <2>1, <2>2
<1> QED  BY <1>1, <1>2, PTL DEF Spec

\* Every state of the lock and of those who ask is well typed; the backlog is
\* within its bound (single_instance.hpp:40-72).
THEOREM TypeCorrect == Spec => []TypeOK
<1>1. IInv => TypeOK
  BY DEF IInv
<1> QED  BY <1>1, Invariance, PTL

\* No two clients are past the lock at once, however their starts, questions and
\* ends interleave (single_instance.hpp:13-17 and 40-72).
THEOREM OneTunnel == Spec => []OneTunnelAtATime
<1>1. IInv => OneTunnelAtATime
  BY DEF IInv, HoldersHaveTheName, OneTunnelAtATime
<1> QED  BY <1>1, Invariance, PTL

-----------------------------------------------------------------------------
(***************************************************************************)
(* The clients.                                                            *)
(***************************************************************************)


\* Whoever is in the backlog waits there, and nowhere else.
BacklogWaits == \A i \in DOMAIN backlog : backlog[i] # Nobody => at[backlog[i]] = "waiting"

\* A session, and a window from which one can be made, is of a client that was
\* admitted.
SessionsAdmitted ==
    \A p \in Processes : main[p] = "window" \/ ~SessionGone(p) => Admitted(p)

\* The console client's session is not over before it has left the mainloop.
LivesInMainloop ==
    \A p \in Processes :
        /\ main[p] = "made" => session[p].phase = "connecting"
        /\ main[p] = "mainloop" => session[p].phase \in {"up", "ending"}

\* Nothing stays of a session that was not to be helped.
NothingForgotten == remains # "forgotten"

ClientsInv ==
    /\ ClientsTypeOK /\ HoldersHaveTheName /\ BacklogWaits /\ SessionsAdmitted
    /\ LivesInMainloop /\ NothingForgotten

-----------------------------------------------------------------------------
\* What a step makes of a life is a life, and a life that is over has no next one.
LEMMA ConnectingLives ==
  ASSUME NEW l \in Lives
  PROVE  Connecting(l) \subseteq Lives /\ (l.phase = "over" => Connecting(l) = {})
<1> USE DEF Lives, If
<1>1. StartHearing(l) \subseteq Lives /\ (l.phase = "over" => StartHearing(l) = {})
  BY DEF StartHearing
<1>2. Configure(l) \subseteq Lives /\ (l.phase = "over" => Configure(l) = {})
  BY DEF Configure
<1>3. ComeUp(l) \subseteq Lives /\ (l.phase = "over" => ComeUp(l) = {})
  BY DEF ComeUp
<1>4. FailToConnect(l) \subseteq Lives /\ (l.phase = "over" => FailToConnect(l) = {})
  BY DEF FailToConnect
<1> HIDE DEF Lives, If
<1> QED  BY <1>1, <1>2, <1>3, <1>4 DEF Connecting

LEMMA LaterLives ==
  ASSUME NEW l \in Lives
  PROVE  LET later == GoDown(l) \cup Destruction(l) \cup LoseHelper(l) \cup Cancel(l) IN
         later \subseteq Lives /\ (l.phase = "over" => later = {})
<1> USE DEF Lives, If
<1>1. GoDown(l) \subseteq Lives /\ (l.phase = "over" => GoDown(l) = {})
  <2>1. Ending(l) \in Lives
    BY DEF Ending
  <2>2. GoDown(l) \subseteq {Ending(l)} /\ (l.phase = "over" => GoDown(l) = {})
    BY DEF GoDown
  <2>3. QED
    BY <2>1, <2>2
<1>2. Undo(l) \subseteq Lives /\ (l.phase = "over" => Undo(l) = {})
  BY DEF Undo
<1>3. Leave(l) \subseteq Lives /\ (l.phase = "over" => Leave(l) = {})
  BY DEF Leave
<1>4. LoseHelper(l) \subseteq Lives /\ (l.phase = "over" => LoseHelper(l) = {})
  BY DEF LoseHelper
<1>5. Cancel(l) \subseteq Lives /\ (l.phase = "over" => Cancel(l) = {})
  BY DEF Cancel
<1> HIDE DEF Lives, If
<1> QED  BY <1>1, <1>2, <1>3, <1>4, <1>5 DEF Destruction

-----------------------------------------------------------------------------
\* Whatever the clients do is a step of the lock, or leaves it alone.
LEMMA LockSteps ==
  ASSUME ClientsNext
  PROVE  Next \/ UNCHANGED vars
<1>1. PICK p \in Processes :
        \/ LockStep(p) \/ OpenWindow(p) \/ ServeFromWindow(p)
        \/ MakeSession(p) \/ InstallHandlers(p) \/ RunMainLoop(p)
        \/ ForgetSession(p) \/ Signal(p)
        \/ ConnectFromWindow(p) \/ Quit(p)
        \/ SessionStep(p) \/ ReleaseLast(p) \/ Gone(p)
  BY DEF ClientsNext
<1>2. CASE LockStep(p) \/ OpenWindow(p) \/ ServeFromWindow(p) \/ ReleaseLast(p)
           \/ Gone(p)
  BY <1>2 DEF LockStep, OpenWindow, ServeFromWindow, ReleaseLast, Gone, Next
<1>3. CASE \/ MakeSession(p) \/ InstallHandlers(p) \/ RunMainLoop(p)
           \/ ForgetSession(p) \/ Signal(p) \/ ConnectFromWindow(p) \/ Quit(p)
           \/ SessionStep(p)
  BY <1>3 DEF MakeSession, InstallHandlers, RunMainLoop, ForgetSession, Signal,
     ConnectFromWindow, Quit, SessionStep
<1> QED  BY <1>1, <1>2, <1>3

\* Where a client's session goes is a life, and one that is over stays over.
LEMMA SessionSteps ==
  ASSUME NEW p \in Processes, session \in [Processes -> Lives],
         NEW life \in ConsoleSession(p) \cup WindowSession(p)
  PROVE  life \in Lives /\ ~SessionGone(p)
<1>1. session[p] \in Lives
  OBVIOUS
<1>2. life \in Connecting(session[p]) \cup GoDown(session[p])
                 \cup Destruction(session[p]) \cup LoseHelper(session[p])
                 \cup Cancel(session[p])
  BY DEF ConsoleSession, WindowSession, If
<1> QED  BY <1>1, <1>2, ConnectingLives, LaterLives DEF SessionGone

\* Of the ways a life goes on, only leaving ends it, and that is after an attempt
\* to take the routes and DNS back, or with what does so out of reach.
LEMMA LastStep ==
  ASSUME NEW l \in Lives,
         NEW m \in Connecting(l) \cup GoDown(l) \cup Destruction(l)
                     \cup LoseHelper(l) \cup Cancel(l),
         m.phase = "over"
  PROVE  m.network \in {"clean", "stuck"} \/ ~l.reachable
<1>1. m \notin Connecting(l)
  BY DEF Connecting, StartHearing, Configure, ComeUp, FailToConnect, If, Lives
<1>2. m \notin LoseHelper(l) \cup Cancel(l) \cup Undo(l)
  BY DEF LoseHelper, Cancel, Undo, If, Lives
<1>3. m \notin GoDown(l)
  BY DEF GoDown, Ending, If
<1>4. m \in Leave(l)
  BY <1>1, <1>2, <1>3 DEF Destruction
<1> QED  BY <1>4 DEF Leave, If, Lives

LEMMA NoSessionIsALife == NoSession \in Lives /\ NewLife \in Lives /\ NoSession.phase = "over"
  BY DEF NoSession, NewLife, Lives

LEMMA ClientTypes ==
  ASSUME InstanceAssumption, ClientsTypeOK, ClientsNext
  PROVE  ClientsTypeOK'
<1>1. TypeOK'
  <2>1. CASE Next
    BY <2>1, StepTypes DEF ClientsTypeOK
  <2>2. CASE UNCHANGED vars
    BY <2>2 DEF ClientsTypeOK, TypeOK, vars
  <2> QED  BY <2>1, <2>2, LockSteps
<1>2. PICK p \in Processes :
        \/ LockStep(p) \/ OpenWindow(p) \/ ServeFromWindow(p)
        \/ MakeSession(p) \/ InstallHandlers(p) \/ RunMainLoop(p)
        \/ ForgetSession(p) \/ Signal(p)
        \/ ConnectFromWindow(p) \/ Quit(p)
        \/ SessionStep(p) \/ ReleaseLast(p) \/ Gone(p)
  BY DEF ClientsNext
<1> USE NoSessionIsALife DEF ClientsTypeOK, MainAt, Enter
<1>3. CASE LockStep(p) \/ ServeFromWindow(p) \/ ReleaseLast(p)
  BY <1>1, <1>3 DEF LockStep, ServeFromWindow, ReleaseLast, clientVars
<1>4. CASE OpenWindow(p) \/ InstallHandlers(p) \/ RunMainLoop(p) \/ ForgetSession(p)
  BY <1>1, <1>4 DEF OpenWindow, InstallHandlers, RunMainLoop, ForgetSession
<1>5. CASE MakeSession(p) \/ ConnectFromWindow(p)
  BY <1>1, <1>5 DEF MakeSession, ConnectFromWindow
<1>6. CASE Signal(p) \/ Quit(p)
  BY <1>1, <1>6 DEF Signal, Quit, Lives
<1>7. CASE Gone(p)
  <2>1. remains' \in Remains
    BY <1>7 DEF Gone, Remaining, Remains
  <2>2. /\ main' \in [Processes -> MainAt]
        /\ session' \in [Processes -> Lives]
        /\ signalled' \in [Processes -> BOOLEAN]
    BY <1>7 DEF Gone
  <2> QED  BY <1>1, <2>1, <2>2
<1>8. CASE SessionStep(p)
  <2>1. remains' \in Remains
    BY <1>8 DEF SessionStep, Remaining, Remains
  <2>2. session' \in [Processes -> Lives] /\ main' = main
    BY <1>8, SessionSteps DEF SessionStep
  <2>3. signalled' \in [Processes -> BOOLEAN]
    BY <1>8 DEF SessionStep
  <2> QED  BY <1>1, <2>1, <2>2, <2>3
<1> QED  BY <1>2, <1>3, <1>4, <1>5, <1>6, <1>7, <1>8

\* Only who waits is in the backlog: it is emptied when the waiting end.
LEMMA StepBacklogWaits ==
  ASSUME InstanceAssumption, TypeOK, BacklogWaits, Next \/ UNCHANGED vars
  PROVE  BacklogWaits'
<1> USE DEF BacklogWaits
<1>1. CASE UNCHANGED vars
  BY <1>1 DEF vars
<1>2. ASSUME NEW p \in Processes,
             \/ Start(p) \/ Acquire(p) \/ EnterEventLoop(p) \/ ServePending(p)
             \/ Release(p) \/ End(p)
      PROVE  BacklogWaits'
  <2>1. CASE \/ Start(p) \/ EnterEventLoop(p) \/ FailOpen(p) \/ Bind(p)
             \/ FindInUse(p) \/ Listen(p) \/ ConnectFails(p)
    BY <2>1 DEF Start, EnterEventLoop, FailOpen, Bind, FindInUse, Listen,
       ConnectFails, Go, TypeOK
  <2>2. CASE ConnectToHolder(p)
    <3>1. /\ Len(backlog) \in Nat /\ DOMAIN backlog = 1..Len(backlog)
          /\ backlog' = Append(backlog, p)
      BY <2>2, LenProperties DEF ConnectToHolder, TypeOK
    <3>2. /\ DOMAIN backlog' = 1..(Len(backlog) + 1)
          /\ \A i \in 1..Len(backlog) : backlog'[i] = backlog[i]
          /\ backlog'[Len(backlog) + 1] = p
      BY <3>1, AppendProperties, LenProperties DEF TypeOK
    <3>3. \A i \in DOMAIN backlog' : i \in DOMAIN backlog \/ backlog'[i] = p
      BY <3>1, <3>2
    <3>4. at' = [at EXCEPT ![p] = "waiting"]
      BY <2>2 DEF ConnectToHolder, Go
    <3> QED  BY <3>1, <3>2, <3>3, <3>4 DEF TypeOK
  <2>3. CASE ServePending(p)
    BY <2>3 DEF ServePending, Answer
  <2>4. CASE Release(p) \/ End(p)
    BY <2>4 DEF Release, End, Close, TypeOK, InstanceAssumption
  <2> QED  BY <1>2, <2>1, <2>2, <2>3, <2>4 DEF Acquire
<1> QED  BY <1>1, <1>2 DEF Next

\* Nobody else takes a client out of the states in which it may have a session.
LEMMA OthersStayAdmitted ==
  ASSUME TypeOK, BacklogWaits, NEW p \in Processes, NEW q \in Processes, p # q,
         \/ Start(p) \/ Acquire(p) \/ EnterEventLoop(p) \/ ServePending(p)
         \/ Release(p) \/ End(p),
         Admitted(q)
  PROVE  Admitted(q)'
<1> USE DEF Admitted, TypeOK
<1>1. CASE Start(p) \/ Acquire(p) \/ EnterEventLoop(p)
  BY <1>1 DEF Start, Acquire, FailOpen, Bind, FindInUse, Listen, ConnectToHolder,
     ConnectFails, EnterEventLoop, Go
<1>2. CASE ServePending(p)
  <2>1. q \notin ToSet(backlog) \ {Nobody}
    BY DEF BacklogWaits, ToSet
  <2> QED  BY <1>2, <2>1 DEF ServePending, Answer
<1>3. CASE Release(p) \/ End(p)
  BY <1>3 DEF Release, End, Close
<1> QED  BY <1>1, <1>2, <1>3

LEMMA StepSessionsAdmitted ==
  ASSUME InstanceAssumption, ClientsInv, ClientsNext
  PROVE  SessionsAdmitted'
<1> USE DEF ClientsInv, ClientsTypeOK
<1>1. PICK p \in Processes :
        \/ LockStep(p) \/ OpenWindow(p) \/ ServeFromWindow(p)
        \/ MakeSession(p) \/ InstallHandlers(p) \/ RunMainLoop(p)
        \/ ForgetSession(p) \/ Signal(p)
        \/ ConnectFromWindow(p) \/ Quit(p)
        \/ SessionStep(p) \/ ReleaseLast(p) \/ Gone(p)
  BY DEF ClientsNext
<1>2. ASSUME NEW q \in Processes, q # p, main'[q] = "window" \/ ~SessionGone(q)'
      PROVE  Admitted(q)'
  <2>1. main'[q] = main[q] /\ session'[q] = session[q]
    BY <1>1, <1>2 DEF LockStep, OpenWindow, ServeFromWindow, MakeSession,
       InstallHandlers, RunMainLoop, ForgetSession, Signal, ConnectFromWindow, Quit,
       SessionStep, ReleaseLast, Gone, clientVars, Enter
  <2>2. Admitted(q)
    BY <1>2, <2>1 DEF SessionsAdmitted, SessionGone
  <2>3. CASE UNCHANGED vars
    BY <2>2, <2>3 DEF Admitted, vars
  <2>4. CASE \/ Start(p) \/ Acquire(p) \/ EnterEventLoop(p) \/ ServePending(p)
             \/ Release(p) \/ End(p)
    BY <1>2, <2>2, <2>4, OthersStayAdmitted
  <2> QED  BY <1>1, <2>3, <2>4 DEF LockStep, OpenWindow, ServeFromWindow, MakeSession,
           InstallHandlers, RunMainLoop, ForgetSession, Signal, ConnectFromWindow,
           Quit, SessionStep, ReleaseLast, Gone
<1>3. ASSUME main'[p] = "window" \/ ~SessionGone(p)'
      PROVE  Admitted(p)'
  <2> USE <1>3 DEF SessionsAdmitted, SessionGone, Enter
  <2>1. CASE LockStep(p)
    BY <2>1 DEF LockStep, Start, Acquire, FailOpen, Bind, FindInUse, Listen,
       ConnectToHolder, ConnectFails, Go, Admitted, clientVars, TypeOK
  <2>2. CASE OpenWindow(p)
    BY <2>2 DEF OpenWindow, EnterEventLoop, Go, Admitted, TypeOK, vars
  <2>3. CASE ServeFromWindow(p)
    <3>1. at[p] = "serving" /\ p \notin ToSet(backlog) \ {Nobody}
      BY <2>3 DEF ServeFromWindow, ServePending, BacklogWaits, ToSet
    <3> QED  BY <2>3, <3>1 DEF ServeFromWindow, ServePending, Answer, Admitted, TypeOK
  <2>4. CASE MakeSession(p) \/ ConnectFromWindow(p)
    BY <2>4 DEF MakeSession, ConnectFromWindow, Admitted, vars
  <2>5. CASE InstallHandlers(p) \/ RunMainLoop(p) \/ ForgetSession(p)
    BY <2>5 DEF InstallHandlers, RunMainLoop, ForgetSession, Admitted, vars
  <2>6. CASE Signal(p) \/ Quit(p)
    BY <2>6 DEF Signal, Quit, Admitted, vars, Lives
  <2>7. CASE SessionStep(p)
    BY <2>7, SessionSteps DEF SessionStep, Admitted, vars
  <2>8. CASE ReleaseLast(p)
    BY <2>8 DEF ReleaseLast, Returns, clientVars
  <2>9. CASE Gone(p)
    BY <2>9, NoSessionIsALife DEF Gone
  <2> QED  BY <1>1, <2>1, <2>2, <2>3, <2>4, <2>5, <2>6, <2>7, <2>8, <2>9
<1> QED  BY <1>2, <1>3 DEF SessionsAdmitted

LEMMA StepLivesInMainloop ==
  ASSUME ClientsTypeOK, LivesInMainloop, ClientsNext
  PROVE  LivesInMainloop'
<1> USE DEF ClientsTypeOK, LivesInMainloop, Enter
<1>1. PICK p \in Processes :
        \/ LockStep(p) \/ OpenWindow(p) \/ ServeFromWindow(p)
        \/ MakeSession(p) \/ InstallHandlers(p) \/ RunMainLoop(p)
        \/ ForgetSession(p) \/ Signal(p)
        \/ ConnectFromWindow(p) \/ Quit(p)
        \/ SessionStep(p) \/ ReleaseLast(p) \/ Gone(p)
  BY DEF ClientsNext
<1>2. CASE LockStep(p) \/ ServeFromWindow(p) \/ ReleaseLast(p)
  BY <1>2 DEF LockStep, ServeFromWindow, ReleaseLast, clientVars
<1>3. CASE OpenWindow(p) \/ InstallHandlers(p) \/ RunMainLoop(p) \/ ForgetSession(p)
  BY <1>3 DEF OpenWindow, InstallHandlers, RunMainLoop, ForgetSession
<1>4. CASE MakeSession(p) \/ ConnectFromWindow(p) \/ Gone(p)
  <2>1. NewLife.phase = "connecting"
    BY DEF NewLife
  <2>2. CASE MakeSession(p) \/ ConnectFromWindow(p)
    BY <2>1, <2>2 DEF MakeSession, ConnectFromWindow
  <2>3. CASE Gone(p)
    <3>1. /\ main' = [main EXCEPT ![p] = "none"]
          /\ session' = [session EXCEPT ![p] = NoSession]
      BY <2>3 DEF Gone
    <3> QED  BY <3>1
  <2> QED  BY <1>4, <2>2, <2>3
<1>5. CASE Signal(p) \/ Quit(p)
  BY <1>5 DEF Signal, Quit, Lives
<1>6. CASE SessionStep(p)
  <2>1. PICK life \in ConsoleSession(p) \cup WindowSession(p) :
          IF life.phase = "over"
            THEN session' = [session EXCEPT ![p] = NoSession]
            ELSE session' = [session EXCEPT ![p] = life]
    BY <1>6 DEF SessionStep
  <2>2. main[p] # "made"
    BY <2>1 DEF ConsoleSession, WindowSession, If
  <2>3. main[p] = "mainloop" => life \in GoDown(session[p])
    BY <2>1 DEF ConsoleSession, WindowSession, If
  <2>4. main[p] = "mainloop" => life.phase = "ending"
    BY <2>3, session[p] \in Lives DEF GoDown, Ending, If, Lives
  <2> QED  BY <1>6, <2>1, <2>2, <2>4 DEF SessionStep
<1> QED  BY <1>1, <1>2, <1>3, <1>4, <1>5, <1>6

LEMMA StepNothingForgotten ==
  ASSUME ClientsTypeOK, NothingForgotten, ClientsNext
  PROVE  NothingForgotten'
<1> USE DEF ClientsTypeOK, NothingForgotten
<1>1. PICK p \in Processes :
        \/ LockStep(p) \/ OpenWindow(p) \/ ServeFromWindow(p)
        \/ MakeSession(p) \/ InstallHandlers(p) \/ RunMainLoop(p)
        \/ ForgetSession(p) \/ Signal(p)
        \/ ConnectFromWindow(p) \/ Quit(p)
        \/ SessionStep(p) \/ ReleaseLast(p) \/ Gone(p)
  BY DEF ClientsNext
<1>2. CASE UNCHANGED remains
  BY <1>2
<1>3. CASE Gone(p)
  BY <1>3 DEF Gone, Remaining
<1>4. CASE SessionStep(p)
  <2>1. PICK life \in ConsoleSession(p) \cup WindowSession(p) :
          IF life.phase = "over"
            THEN remains' = Remaining(life.network, ~session[p].reachable)
            ELSE UNCHANGED remains
    BY <1>4 DEF SessionStep
  <2>2. life \in Connecting(session[p]) \cup GoDown(session[p])
                   \cup Destruction(session[p]) \cup LoseHelper(session[p])
                   \cup Cancel(session[p])
    BY <2>1 DEF ConsoleSession, WindowSession, If
  <2>3. life.phase = "over" =>
          life.network \in {"clean", "stuck"} \/ ~session[p].reachable
    BY <2>2, LastStep
  <2> QED  BY <2>1, <2>3 DEF Remaining
<1> QED  BY <1>1, <1>2, <1>3, <1>4 DEF LockStep, OpenWindow, ServeFromWindow, MakeSession,
         InstallHandlers, RunMainLoop, ForgetSession, Signal, ConnectFromWindow, Quit,
         ReleaseLast, clientVars

-----------------------------------------------------------------------------
\* The invariant of the clients: their lock's, and that a session is only made by
\* an admitted client, whom nobody moves as long as the session lives
\* (main_cli.cpp:253-311, main_gui.cpp:73-173).
THEOREM ClientsInvariance == ClientsSpec => []ClientsInv
<1> USE InstanceAssumption
<1>1. ClientsInit => ClientsInv
  <2> SUFFICES ASSUME ClientsInit PROVE ClientsInv
    OBVIOUS
  <2>1. TypeOK
    BY BacklogEmpty DEF ClientsInit, Init, TypeOK, ProcessAt
  <2>2. ClientsTypeOK
    BY <2>1, NoSessionIsALife DEF ClientsInit, ClientsTypeOK, MainAt, Remains
  <2>3. HoldersHaveTheName /\ BacklogWaits
    BY DEF ClientsInit, Init, HoldersHaveTheName, Holds, BacklogWaits
  <2>4. SessionsAdmitted
    BY NoSessionIsALife DEF ClientsInit, SessionsAdmitted, SessionGone
  <2>5. LivesInMainloop /\ NothingForgotten
    BY DEF ClientsInit, LivesInMainloop, NothingForgotten
  <2> QED  BY <2>2, <2>3, <2>4, <2>5 DEF ClientsInv
<1>2. ClientsInv /\ [ClientsNext]_allVars => ClientsInv'
  <2> SUFFICES ASSUME ClientsInv, [ClientsNext]_allVars PROVE ClientsInv'
    OBVIOUS
  <2>1. CASE ClientsNext
    <3>1. HoldersHaveTheName'
      <4>1. CASE Next
        BY <4>1, StepHoldersHaveTheName DEF ClientsInv, ClientsTypeOK
      <4>2. CASE UNCHANGED vars
        BY <4>2 DEF ClientsInv, HoldersHaveTheName, Holds, vars
      <4> QED  BY <2>1, <4>1, <4>2, LockSteps
    <3>2. BacklogWaits'
      BY <2>1, LockSteps, StepBacklogWaits DEF ClientsInv, ClientsTypeOK
    <3> QED  BY <2>1, <3>1, <3>2, ClientTypes, StepSessionsAdmitted,
             StepLivesInMainloop, StepNothingForgotten DEF ClientsInv
  <2>2. CASE UNCHANGED allVars
    BY <2>2 DEF allVars, vars, clientVars, ClientsInv, ClientsTypeOK, TypeOK,
       HoldersHaveTheName, Holds, BacklogWaits, SessionsAdmitted, SessionGone, Admitted,
       LivesInMainloop, NothingForgotten
  <2> QED  BY <2>1, <2>2
<1> QED  BY <1>1, <1>2, PTL DEF ClientsSpec

\* Every state of the clients is well typed (main_cli.cpp:177-311).
THEOREM ClientsTypeCorrect == ClientsSpec => []ClientsTypeOK
<1>1. ClientsInv => ClientsTypeOK
  BY DEF ClientsInv
<1> QED  BY <1>1, ClientsInvariance, PTL

\* No two clients are past the lock at once, with everything they do between
\* taking and leaving it (single_instance.hpp:13-17 and 40-72).
THEOREM ClientsOneTunnel == ClientsSpec => []OneTunnelAtATime
<1>1. ClientsInv => OneTunnelAtATime
  BY DEF ClientsInv, HoldersHaveTheName, OneTunnelAtATime
<1> QED  BY <1>1, ClientsInvariance, PTL

\* A client with a session has the lock until the session is destroyed, or could
\* not ask for it; and the session has taken its routes and DNS back by then, unless
\* its client was killed, its helper lost or the script failed
\* (main_cli.cpp:253-267, main_gui.cpp:73-117).
THEOREM SessionUnderLock == ClientsSpec => []TunnelUnderLock
<1>1. ClientsInv => TunnelUnderLock
  BY DEF ClientsInv, SessionsAdmitted, NothingForgotten, TunnelUnderLock, Admitted,
     Holds
<1> QED  BY <1>1, ClientsInvariance, PTL

\* A signal finds the session alive, or no session, unless Connect has failed
\* (main_cli.cpp:30-38 and 267-308).
THEOREM SignalsFindSessions == ClientsSpec => []HandlerFindsSession
<1>1. InstanceAssumption /\ ClientsInv => HandlerFindsSession
  BY DEF ClientsInv, LivesInMainloop, HandlerFindsSession, ActiveSession, SessionGone,
     InstanceAssumption
<1> QED  BY <1>1, InstanceAssumption, ClientsInvariance, PTL

-----------------------------------------------------------------------------
(***************************************************************************)
(* Who asks, and who is told to stop.                                      *)
(***************************************************************************)

\* Whoever listens has the lock.
HolderListens ==
    listening => \E q \in Processes : name = q /\ at[q] \in {"holding", "serving"}

\* A client that waits for an answer is in the backlog of one who listens: neither
\* the end of the holder, nor the end of another that asks, nor an answer to others
\* leaves it waiting for nobody (single_instance.hpp:74-148).
WaitersAreQueued ==
    \A p \in Processes :
        at[p] = "waiting" => listening /\ \E i \in DOMAIN backlog : backlog[i] = p

\* A signal that was handled when the session could hear it has cancelled the
\* session, for as long as this has not ended (main_cli.cpp:32-38 and 267-304).
HandledIsCancelled ==
    \A p \in Consoles :
        /\ main[p] = "none" \/ main[p] = "made" => ~signalled[p]
        /\ /\ signalled[p] /\ main[p] \in {"connect", "mainloop"}
           /\ session[p].phase \in {"connecting", "up"}
           => session[p].cancelled

\* Only the owner of the name listens, and its end frees both at once.
LEMMA StepHolderListens ==
  ASSUME InstanceAssumption, TypeOK, HoldersHaveTheName, BacklogWaits, HolderListens,
         Next \/ UNCHANGED vars
  PROVE  HolderListens'
<1> USE DEF HolderListens, HoldersHaveTheName, Holds, TypeOK, InstanceAssumption
<1>1. CASE UNCHANGED vars
  BY <1>1 DEF vars
<1>2. ASSUME NEW p \in Processes,
             \/ Start(p) \/ Acquire(p) \/ EnterEventLoop(p) \/ ServePending(p)
             \/ Release(p) \/ End(p)
      PROVE  HolderListens'
  <2>1. CASE \/ Start(p) \/ FailOpen(p) \/ FindInUse(p) \/ ConnectToHolder(p)
             \/ ConnectFails(p)
    BY <2>1 DEF Start, FailOpen, FindInUse, ConnectToHolder, ConnectFails, Go
  <2>2. CASE Bind(p)
    <3>1. ~listening
      BY <2>2 DEF Bind
    <3> QED  BY <2>2, <3>1 DEF Bind
  <2>3. CASE Listen(p) \/ EnterEventLoop(p)
    BY <2>3 DEF Listen, EnterEventLoop, Go
  <2>4. CASE ServePending(p)
    <3>1. SUFFICES ASSUME listening PROVE HolderListens'
      BY <2>4 DEF ServePending, Answer
    <3>2. PICK q \in Processes : name = q /\ at[q] \in {"holding", "serving"}
      BY <3>1
    <3>3. q \notin ToSet(backlog)
      BY <3>2 DEF BacklogWaits, ToSet
    <3> QED  BY <2>4, <3>2, <3>3 DEF ServePending, Answer
  <2>5. CASE Release(p) \/ End(p)
    BY <2>5 DEF Release, End, Close
  <2> QED  BY <1>2, <2>1, <2>2, <2>3, <2>4, <2>5 DEF Acquire
<1> QED  BY <1>1, <1>2 DEF Next

\* Whoever is taken off the backlog has been answered, or is gone.
LEMMA StepWaitersAreQueued ==
  ASSUME InstanceAssumption, TypeOK, WaitersAreQueued, Next \/ UNCHANGED vars
  PROVE  WaitersAreQueued'
<1> USE DEF WaitersAreQueued, TypeOK
<1>1. CASE UNCHANGED vars
  BY <1>1 DEF vars
<1>2. ASSUME NEW p \in Processes,
             \/ Start(p) \/ Acquire(p) \/ EnterEventLoop(p) \/ ServePending(p)
             \/ Release(p) \/ End(p)
      PROVE  WaitersAreQueued'
  <2>1. CASE \/ Start(p) \/ FailOpen(p) \/ Bind(p) \/ FindInUse(p) \/ Listen(p)
             \/ ConnectFails(p) \/ EnterEventLoop(p)
    BY <2>1 DEF Start, FailOpen, Bind, FindInUse, Listen, ConnectFails, EnterEventLoop, Go
  <2>2. CASE ConnectToHolder(p)
    <3>1. /\ Len(backlog) \in Nat /\ DOMAIN backlog = 1..Len(backlog)
          /\ DOMAIN backlog' = 1..(Len(backlog) + 1)
          /\ \A i \in 1..Len(backlog) : backlog'[i] = backlog[i]
          /\ backlog'[Len(backlog) + 1] = p
      BY <2>2, AppendProperties, LenProperties DEF ConnectToHolder
    <3>2. listening' /\ Len(backlog) + 1 \in DOMAIN backlog'
          /\ DOMAIN backlog \subseteq DOMAIN backlog'
      BY <2>2, <3>1 DEF ConnectToHolder
    <3>3. \A q \in Processes : q # p => at'[q] = at[q]
      BY <2>2 DEF ConnectToHolder, Go
    <3> QED  BY <2>2, <3>1, <3>2, <3>3 DEF ConnectToHolder
  <2>3. CASE ServePending(p)
    <3>1. \A q \in Processes : at[q] = "waiting" => q \in ToSet(backlog)
      BY DEF ToSet
    <3>2. \A q \in Processes : at'[q] # "waiting"
      BY <2>3, <3>1 DEF ServePending, Answer, InstanceAssumption
    <3> QED  BY <3>2
  <2>4. CASE Release(p) \/ End(p)
    <3>1. PICK next \in {"released", "off"} : Close(p, next)
      BY <2>4 DEF Release, End
    <3>2. CASE name = p
      <4>1. \A q \in Processes : at'[q] # "waiting"
        BY <3>1, <3>2 DEF Close
      <4> QED  BY <4>1
    <3>3. CASE name # p
      BY <3>1, <3>3 DEF Close
    <3> QED  BY <3>2, <3>3
  <2> QED  BY <1>2, <2>1, <2>2, <2>3, <2>4 DEF Acquire
<1> QED  BY <1>1, <1>2 DEF Next

\* What a cancelled session does next, it does cancelled, until it ends.
LEMMA CancelledStays ==
  ASSUME NEW l \in Lives, NEW m \in Connecting(l) \cup GoDown(l) \cup Destruction(l),
         m.phase \in {"connecting", "up"}
  PROVE  l.phase \in {"connecting", "up"} /\ m.cancelled = l.cancelled
<1> USE DEF Lives, If
<1>1. CASE m \in StartHearing(l) \cup Configure(l) \cup ComeUp(l)
  BY <1>1 DEF StartHearing, Configure, ComeUp
<1>2. CASE m \in FailToConnect(l) \cup GoDown(l)
  <2>1. m.phase = "ending"
    <3>1. CASE m \in FailToConnect(l)
      BY <3>1 DEF FailToConnect
    <3>2. CASE m \in GoDown(l)
      BY <3>2 DEF GoDown, Ending
    <3> QED  BY <1>2, <3>1, <3>2
  <2> QED  BY <2>1
<1>3. CASE m \in Destruction(l)
  BY <1>3 DEF Destruction, Undo, Leave
<1> QED  BY <1>1, <1>2, <1>3 DEF Connecting

\* Between the signal and the end of its session no step takes the cancellation back.
LEMMA StepHandledIsCancelled ==
  ASSUME InstanceAssumption, ClientsTypeOK, LivesInMainloop, HandledIsCancelled, ClientsNext
  PROVE  HandledIsCancelled'
<1> USE DEF ClientsTypeOK, HandledIsCancelled, Enter, InstanceAssumption
<1>1. PICK p \in Processes :
        \/ LockStep(p) \/ OpenWindow(p) \/ ServeFromWindow(p)
        \/ MakeSession(p) \/ InstallHandlers(p) \/ RunMainLoop(p)
        \/ ForgetSession(p) \/ Signal(p)
        \/ ConnectFromWindow(p) \/ Quit(p)
        \/ SessionStep(p) \/ ReleaseLast(p) \/ Gone(p)
  BY DEF ClientsNext
<1>2. CASE LockStep(p) \/ ServeFromWindow(p) \/ ReleaseLast(p)
  BY <1>2 DEF LockStep, ServeFromWindow, ReleaseLast, clientVars
<1>3. CASE OpenWindow(p) \/ InstallHandlers(p) \/ RunMainLoop(p) \/ ForgetSession(p)
  BY <1>3 DEF OpenWindow, InstallHandlers, RunMainLoop, ForgetSession
<1>4. CASE MakeSession(p) \/ ConnectFromWindow(p) \/ Gone(p)
  BY <1>4 DEF MakeSession, ConnectFromWindow, Gone
<1>5. CASE Signal(p)
  BY <1>5 DEF Signal, Handles, ActiveSession, Lives
<1>6. CASE Quit(p)
  BY <1>6 DEF Quit, Lives
<1>7. CASE SessionStep(p)
  <2>1. PICK life \in ConsoleSession(p) \cup WindowSession(p) :
          IF life.phase = "over"
            THEN session' = [session EXCEPT ![p] = NoSession]
            ELSE session' = [session EXCEPT ![p] = life]
    BY <1>7 DEF SessionStep
  <2>2. /\ UNCHANGED main /\ session[p] \in Lives
        /\ \A q \in Processes : signalled'[q] => signalled[q]
    BY <1>7 DEF SessionStep
  <2>3. SUFFICES ASSUME p \in Consoles, main[p] \in {"connect", "mainloop"}, signalled[p],
                        session'[p].phase \in {"connecting", "up"}
                 PROVE  session'[p].cancelled
    BY <2>1, <2>2
  <2>4. session'[p] = life /\ life.phase \in {"connecting", "up"}
    BY <2>1, <2>3, NoSessionIsALife
  <2>5. life \in Connecting(session[p]) \cup GoDown(session[p]) \cup Destruction(session[p])
    BY <2>3 DEF ConsoleSession, WindowSession, If
  <2> QED  BY <2>2, <2>3, <2>4, <2>5, CancelledStays
<1> QED  BY <1>1, <1>2, <1>3, <1>4, <1>5, <1>6, <1>7

AskersInv == HolderListens /\ WaitersAreQueued /\ HandledIsCancelled

\* The clients' waits have somebody to end them: who asks is in the backlog of one
\* that listens and has the lock, and who was told to stop has a session that was
\* (single_instance.hpp:40-148, main_cli.cpp:32-38 and 267-304).
THEOREM AskersInvariance == ClientsSpec => []AskersInv
<1> USE InstanceAssumption
<1>1. ClientsInit => AskersInv
  BY DEF ClientsInit, Init, AskersInv, HolderListens, WaitersAreQueued, HandledIsCancelled,
     InstanceAssumption
<1>2. ClientsInv /\ AskersInv /\ [ClientsNext]_allVars => AskersInv'
  <2> SUFFICES ASSUME ClientsInv, AskersInv, [ClientsNext]_allVars PROVE AskersInv'
    OBVIOUS
  <2>1. CASE ClientsNext
    BY <2>1, LockSteps, StepHolderListens, StepWaitersAreQueued, StepHandledIsCancelled
    DEF ClientsInv, ClientsTypeOK, AskersInv
  <2>2. CASE UNCHANGED allVars
    BY <2>2 DEF allVars, vars, clientVars, AskersInv, HolderListens, WaitersAreQueued,
       HandledIsCancelled
  <2> QED  BY <2>1, <2>2
<1> QED  BY <1>1, <1>2, ClientsInvariance, PTL DEF ClientsSpec

\* A client that waits for an answer waits in the backlog of a client that listens
\* and has the lock, whoever else starts, asks and ends meanwhile; AskIsAnswered
\* rests on it (single_instance.hpp:74-148).
THEOREM NobodyAsksInVain == ClientsSpec => [](HolderListens /\ WaitersAreQueued)
<1>1. AskersInv => HolderListens /\ WaitersAreQueued
  BY DEF AskersInv
<1> QED  BY <1>1, AskersInvariance, PTL

\* A signal handled in time is never undone: the session is cancelled until it is
\* over; SignalEndsConsole rests on it (main_cli.cpp:32-38 and 267-304).
THEOREM SignalNotLost == ClientsSpec => []HandledIsCancelled
<1>1. AskersInv => HandledIsCancelled
  BY DEF AskersInv
<1> QED  BY <1>1, AskersInvariance, PTL

=============================================================================
