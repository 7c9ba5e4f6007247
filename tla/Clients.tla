-------------------------------- MODULE Clients --------------------------------
(***************************************************************************)
(* The client programs around their parts: main() of the console client    *)
(* (main_cli.cpp) and of the window (main_gui.cpp with VpnController), each*)
(* with the lock it takes and the VPN session it makes.  A session is      *)
(* taken from SessionLifecycle, which VpnSession implements; what a signal *)
(* does depends on how far the console client has come.                    *)
(***************************************************************************)
EXTENDS SingleInstance, SessionLives

VARIABLES
    main,       \* where a client that may have a tunnel is in its main()
    session,    \* its session, "over" when there is none
    signalled,  \* history: it handled a signal that its session can still hear
    remains     \* history: why routes or DNS of a session that is gone are there

clientVars == <<main, session, signalled, remains>>
allVars == <<vars, clientVars>>

NoSession == [NewLife EXCEPT !.phase = "over"]

Windows == Processes \ Consoles

\* Not taken back since its client was killed, or the helper was lost, or the
\* script failed; "forgotten" if for no such reason.
Remains == {"none", "unavoidable", "forgotten"}

MainAt == {"none", "made", "connect", "mainloop", "leave", "window", "quit"}

ClientsTypeOK ==
    /\ TypeOK
    /\ main \in [Processes -> MainAt]
    /\ session \in [Processes -> Lives]
    /\ signalled \in [Processes -> BOOLEAN]
    /\ remains \in Remains

ClientsInit ==
    /\ Init
    /\ main = [p \in Processes |-> "none"]
    /\ session = [p \in Processes |-> NoSession]
    /\ signalled = [p \in Processes |-> FALSE]
    /\ remains = "none"

Enter(p, from, to) == main[p] = from /\ main' = [main EXCEPT ![p] = to]

\* Past the lock, or without one.
Admitted(p) == at[p] \in {"holding", "serving", "unguarded"}

SessionGone(p) == session[p].phase = "over"

-----------------------------------------------------------------------------
(***************************************************************************)
(* The console client.                                                     *)
(***************************************************************************)

\* The session object, and activeSession with it.
MakeSession(p) ==
    /\ p \in Consoles /\ Admitted(p)
    /\ Enter(p, "none", "made")
    /\ session' = [session EXCEPT ![p] = NewLife]
    /\ UNCHANGED <<vars, signalled, remains>>

\* The handlers of SIGINT and SIGTERM; then Connect begins.
InstallHandlers(p) ==
    /\ Enter(p, "made", "connect")
    /\ UNCHANGED <<vars, session, signalled, remains>>

\* Connect succeeded: the report is printed, and the mainloop runs.
RunMainLoop(p) ==
    /\ session[p].phase = "up"
    /\ Enter(p, "connect", "mainloop")
    /\ UNCHANGED <<vars, session, signalled, remains>>

\* activeSession = nullptr, after RunMainLoop.
ForgetSession(p) ==
    /\ session[p].phase = "ending"
    /\ Enter(p, "mainloop", "leave")
    /\ UNCHANGED <<vars, session, signalled, remains>>

\* A slip: the pointer stays when the session is destroyed after the mainloop.
KeepActiveSession(p) ==
    LET l == session[p] IN
    {m \in UNION {If(main[p] = "connect", Connecting(l)),
                  If(main[p] = "mainloop", GoDown(l) \cup Destruction(l)),
                  If(main[p] \in {"connect", "leave"}, Destruction(l))} :
       m.reachable}

\* Where the console client's thread is, its session may take these steps: it is
\* in Connect or in RunMainLoop, or main returns and destroys it.  As root the
\* client needs no helper, so nothing is ever out of its reach.
ConsoleSession(p) ==
    LET l == session[p] IN
    {m \in UNION {If(main[p] = "connect", Connecting(l)),
                  If(main[p] = "mainloop", GoDown(l)),
                  If(main[p] \in {"connect", "leave"}, Destruction(l))} :
       m.reachable}

-----------------------------------------------------------------------------
(***************************************************************************)
(* The window.                                                             *)
(***************************************************************************)

OpenWindow(p) ==
    /\ \/ EnterEventLoop(p)
       \/ p \in Windows /\ at[p] = "unguarded" /\ UNCHANGED vars
    /\ Enter(p, "none", "window")
    /\ UNCHANGED <<session, signalled, remains>>

\* The controller's worker makes a session, once the one before is gone.
ConnectFromWindow(p) ==
    /\ main[p] = "window"
    /\ SessionGone(p)
    /\ session' = [session EXCEPT ![p] = NewLife]
    /\ UNCHANGED <<vars, main, signalled, remains>>

\* The event loop is left, and the controller's destructor cancels the session
\* and joins the worker.
Quit(p) ==
    /\ Enter(p, "window", "quit")
    /\ session' = [session EXCEPT ![p].cancelled = @ \/ session[p].hears]
    /\ UNCHANGED <<vars, signalled, remains>>

\* The worker takes the session through its life in its own thread, the helper
\* may be lost, and the user may cancel.
WindowSession(p) ==
    LET l == session[p] IN
    If(main[p] \in {"window", "quit"},
       Connecting(l) \cup GoDown(l) \cup Destruction(l) \cup LoseHelper(l))
    \cup If(main[p] = "window", Cancel(l))

-----------------------------------------------------------------------------
\* What stays in the system's routes and DNS of a session that goes with its
\* network so, taken back when nothing excuses it.
Remaining(network, excused) ==
    IF network = "clean" \/ remains = "forgotten" THEN remains
    ELSE IF excused \/ network = "stuck" THEN "unavoidable" ELSE "forgotten"

\* The steps of a session that its program takes or sees.  What one that is over
\* left behind stays.
SessionStep(p) ==
    /\ \E life \in ConsoleSession(p) \cup WindowSession(p) :
         IF life.phase = "over"
           THEN /\ session' = [session EXCEPT ![p] = NoSession]
                /\ remains' = Remaining(life.network, ~session[p].reachable)
           ELSE /\ session' = [session EXCEPT ![p] = life]
                /\ UNCHANGED remains
    /\ signalled' = [signalled EXCEPT ![p] =
                       @ /\ session'[p].phase \in {"connecting", "up"}]
    /\ UNCHANGED <<vars, main>>

\* main() returns from where it may, a window that finds no display included.
Returns(p) ==
    \/ main[p] \in {"connect", "leave"} /\ session[p].phase \in {"ending", "over"}
    \/ main[p] = "quit"
    \/ main[p] = "none" /\ p \in Windows

\* A slip: the lock goes out of scope before the session.
ReleaseFirst(p) ==
    /\ Returns(p)
    /\ Release(p)
    /\ UNCHANGED clientVars

\* What main() made last is destroyed first: the lock outlives the session.
ReleaseLast(p) ==
    /\ Returns(p)
    /\ SessionGone(p)
    /\ Release(p)
    /\ UNCHANGED clientVars

\* The process ends by itself, or is killed with whatever it was doing: then
\* nobody takes its session's routes and DNS back.
Gone(p) ==
    /\ End(p)
    /\ remains' = IF SessionGone(p) THEN remains
                  ELSE Remaining(session[p].network, TRUE)
    /\ main' = [main EXCEPT ![p] = "none"]
    /\ session' = [session EXCEPT ![p] = NoSession]
    /\ signalled' = [signalled EXCEPT ![p] = FALSE]

Handles(p) == main[p] \in {"connect", "mainloop", "leave"}

\* A slip: the pointer is only set for the time of Connect.
ActiveWhileConnecting(p) == main[p] \in {"made", "connect"}

\* activeSession is set from before the handlers are there until RunMainLoop has
\* returned; a Connect that fails leaves it set.
ActiveSession(p) == main[p] \in {"made", "connect", "mainloop"}

\* SIGINT and SIGTERM, once there is a handler; before, they are a Gone.  On a
\* session that is destroyed Cancel's write goes nowhere, or it is a Gone too.
Signal(p) ==
    /\ p \in Consoles
    /\ Handles(p)
    /\ signalled' = [signalled EXCEPT ![p] = @ \/ session[p].hears]
    /\ session' = [session EXCEPT ![p].cancelled =
                     @ \/ (session[p].hears /\ ActiveSession(p))]
    /\ UNCHANGED <<vars, main, remains>>

-----------------------------------------------------------------------------
LockStep(p) == (Start(p) \/ Acquire(p)) /\ UNCHANGED clientVars

ServeFromWindow(p) ==
    main[p] = "window" /\ ServePending(p) /\ UNCHANGED clientVars

ClientsNext ==
    \E p \in Processes :
        \/ LockStep(p) \/ OpenWindow(p) \/ ServeFromWindow(p)
        \/ MakeSession(p) \/ InstallHandlers(p) \/ RunMainLoop(p)
        \/ ForgetSession(p) \/ Signal(p)
        \/ ConnectFromWindow(p) \/ Quit(p)
        \/ SessionStep(p) \/ ReleaseLast(p) \/ Gone(p)

ClientsSpec == ClientsInit /\ [][ClientsNext]_allVars

\* A window's worker may be at a prompt of the gateway, or in accept(2) until the
\* helper that polkit was asked for calls: nothing but the user ends these.
AtThePrompt(p) ==
    /\ p \in Windows
    /\ session[p].phase = "connecting" /\ session[p].network = "clean"

\* A session that was cancelled goes on to its end, and one that is ending gets
\* there, as VpnSession does.
SessionEnds(p) ==
    /\ ~AtThePrompt(p)
    /\ session[p].cancelled \/ session[p].phase = "ending"
    /\ SessionStep(p)
    /\ \/ session'[p].phase # session[p].phase
       \/ session[p].phase = "ending" /\ session'[p].network # session[p].network

Exit(p) == Returns(p) /\ SessionGone(p) /\ ~Holds(p) /\ Gone(p)

\* What the thread in main() does next, once the process has been started.
MainThread(p) ==
    \/ at[p] # "off" /\ LockStep(p)
    \/ OpenWindow(p) \/ ServeFromWindow(p)
    \/ InstallHandlers(p) \/ RunMainLoop(p) \/ ForgetSession(p)
    \/ ReleaseLast(p) \/ Exit(p)

\* Who waits for room in the backlog gets its turn.
AskHolder(p) == (ConnectToHolder(p) \/ ConnectFails(p)) /\ UNCHANGED clientVars

\* A started client goes on, and so does its session's worker where it does not
\* wait for the user; the window opens once the user has dismissed its start-up
\* warnings.
ClientsFairness ==
    \A p \in Processes :
        /\ WF_allVars(MainThread(p))
        /\ SF_allVars(AskHolder(p))
        /\ WF_allVars(SessionEnds(p))

ClientsFairSpec == ClientsSpec /\ ClientsFairness

-----------------------------------------------------------------------------
\* A client whose session may change the system's routes and DNS has the lock as
\* long as the session lives, and the session takes them back before: so the next
\* client finds them as they were, unless one before was killed, lost its helper
\* or had vpnc-script fail (main_cli.cpp:253-267, main_gui.cpp:73-117).
TunnelUnderLock ==
    /\ \A p \in Processes :
         ~SessionGone(p) => Holds(p) \/ at[p] = "unguarded"
    /\ remains # "forgotten"

\* A signal finds the session alive or none, except after a Connect that failed,
\* when activeSession points to a destroyed object until the process ends
\* (main_cli.cpp:30-38 and 267-308).
HandlerFindsSession ==
    \A p \in Consoles :
        Handles(p) /\ ActiveSession(p) /\ SessionGone(p) => main[p] = "connect"

\* A SIGINT or SIGTERM that is handled when the session can hear it ends the
\* console client, wherever it is (main_cli.cpp:32-38 and 304-311).
SignalEndsConsole ==
    \A p \in Consoles : signalled[p] ~> at[p] = "off"

\* The destructor of a quit window's controller has cancelled in vain: the session had
\* no pipe yet, and goes on.
CancelLost(q) ==
    /\ session[q].phase \in {"connecting", "up"} /\ ~session[q].cancelled

\* A second client that asks is answered, or finds that it cannot be, unless the
\* lock is held by the console client, which never answers, or by a window that
\* was quit just after Connect, or with its worker at a prompt that nobody answers
\* any more (single_instance.hpp:16-17, main_gui.cpp:133-140).
AskIsAnswered ==
    \A p \in Processes :
        at[p] \in {"ask", "waiting"} ~>
            \/ at[p] \notin {"ask", "waiting"}
            \/ name \in Consoles
            \/ \E q \in Windows :
                 /\ name = q /\ main[q] = "quit"
                 /\ CancelLost(q) \/ AtThePrompt(q)

=============================================================================
