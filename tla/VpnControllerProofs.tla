------------------------- MODULE VpnControllerProofs -------------------------
(***************************************************************************)
(* What the two threads of the GUI promise each other, whatever the bounds *)
(* on the event queue and the timers.                                      *)
(*                                                                         *)
(* Neither property is inductive.  That Connect joins a finished worker    *)
(* depends on what a state of Disconnected says about the worker, and this *)
(* on the worker not being moved by a dialog it does not wait for.  That   *)
(* no tunnel is shown after Disconnected depends on the order of events in *)
(* the queue, and on what a worker that is not finished may still post.    *)
(***************************************************************************)
EXTENDS VpnController, SequenceTheorems, TLAPS

\* The parts of TypeOK, which different provers handle.
BooleansOK ==
    /\ cancelRead \in BOOLEAN
    /\ dialogOpen \in BOOLEAN
    /\ timerOn \in BOOLEAN
    /\ crashed \in BOOLEAN
    /\ overtaken \in BOOLEAN

QueueOK == queue \in Seq(Events)

ControlOK ==
    /\ state \in VpnState
    /\ worker \in WorkerAt
    /\ commands \subseteq {"CANCEL", "STATS"}
    /\ gui \in GuiAt
    /\ after \in {"idle", "quitJoin"}
    /\ shown \in VpnState
    /\ offered \in VpnState
    /\ panel \in {"empty", "tunnel"}
    /\ shots \in 0..MaxShots

\* The worker has made its last store to the state, or there is none.
WorkerDone == worker \in {"none", "post", "finished"}

\* Only a worker that is done leaves the state Disconnected, and the GUI thread
\* relies on it from its check to the new worker's start.
StateTellsWorker ==
    /\ state = "Disconnected" => WorkerDone
    /\ gui \in {"join", "start"} => state = "Disconnected"

\* A prompt, queued or on the screen, is the one its worker waits for.
PromptIsAwaited ==
    /\ dialogOpen => worker = "prompting"
    /\ \A i \in 1..Len(queue) : queue[i].event = "prompt" =>
         /\ worker = "prompting"
         /\ ~dialogOpen
         /\ \A j \in 1..Len(queue) : queue[j].event = "prompt" => i = j

\* The queue from the event that turns the panel off to those that fill it:
\* position 0 stands for the state shown.
IsOff(e) == e = StateEvent("Disconnected")
IsOn(e) == e.event = "state" /\ ~IsOff(e)
Fills(e) == e.event \in {"connected", "update"}
OffAt(k) == IF k = 0 THEN shown = "Disconnected" ELSE IsOff(queue[k])

MayPost == worker \notin {"none", "finished"}

\* Between Disconnected and an event that fills the panel there is another state;
\* and a worker that may still post such an event has been announced.
PanelFollowsState ==
    /\ \A k \in 0..Len(queue), i \in 1..Len(queue) :
         k < i /\ OffAt(k) /\ Fills(queue[i]) =>
             \E j \in 1..Len(queue) : k < j /\ j < i /\ IsOn(queue[j])
    /\ MayPost => \A k \in 0..Len(queue) : OffAt(k) =>
                      \E j \in 1..Len(queue) : k < j /\ IsOn(queue[j])

TypeInv == BooleansOK /\ QueueOK /\ ControlOK

IInv ==
    /\ TypeInv
    /\ StateTellsWorker
    /\ PromptIsAwaited
    /\ PanelFollowsState
    /\ NoTunnelWhenDisconnected

-----------------------------------------------------------------------------
\* The parts make up the component's own type invariant.
LEMMA TypeInvIsTypeOK == TypeInv <=> TypeOK
BY DEF TypeInv, BooleansOK, QueueOK, ControlOK, TypeOK

\* What the two ends of the queue do to its elements (PostToGui, and Qt's loop).
LEMMA QueueAppend ==
  ASSUME QueueOK, NEW e \in Events, PostToGui(e)
  PROVE  /\ QueueOK'
         /\ Len(queue) \in Nat
         /\ Len(queue') = Len(queue) + 1
         /\ \A i \in 1..Len(queue) : queue'[i] = queue[i]
         /\ queue'[Len(queue) + 1] = e
BY AppendProperties DEF QueueOK, PostToGui

LEMMA QueueTail ==
  ASSUME QueueOK, queue # <<>>, queue' = Tail(queue)
  PROVE  /\ QueueOK'
         /\ Head(queue) \in Events
         /\ Head(queue) = queue[1]
         /\ Len(queue) \in Nat \ {0}
         /\ Len(queue') = Len(queue) - 1
         /\ \A i \in 1..Len(queue') : queue'[i] = queue[i + 1]
BY HeadTailProperties, EmptySeq, LenProperties DEF QueueOK

\* Events hold what their names say.
LEMMA EventTypes ==
  /\ \A s \in VpnState : StateEvent(s) \in Events /\ StateEvent(s).event = "state"
  /\ \A e \in {"connected", "update", "stopTimer", "prompt"} :
       Event(e) \in Events /\ Event(e).event = e
  /\ \A e \in Events : e.event = "state" => e.state \in VpnState
                                             /\ e = StateEvent(e.state)
BY DEF Events, StateEvent, Event

-----------------------------------------------------------------------------
(***************************************************************************)
(* Type correctness.                                                       *)
(***************************************************************************)

LEMMA WorkerKeepsTypes ==
  ASSUME TypeInv, Worker
  PROVE  TypeInv'
<1> USE DEF TypeInv, Step
<1>1. BooleansOK'
  BY Zenon DEF BooleansOK, Worker, MakeSession, OpenPipe, Prompt, Authenticated,
     ConnectFails, ConnectSucceeds, StoreConnected, PostConnected, ReadCancel,
     ReadStats, MainloopReturns, PostStopTimer, ResetSession, DestroySession,
     StoreDisconnected, PostDisconnected, guiVars, endVars
<1>2. QueueOK'
  <2>1. CASE UNCHANGED queue
    BY <2>1 DEF QueueOK
  <2>2. CASE \E e \in Events : PostToGui(e)
    BY <2>2, QueueAppend
  <2> QED
    BY <2>1, <2>2, EventTypes DEF Worker, MakeSession, OpenPipe, Prompt,
       Authenticated, ConnectFails, ConnectSucceeds, StoreConnected,
       PostConnected, ReadCancel, ReadStats, MainloopReturns, PostStopTimer,
       ResetSession, DestroySession, StoreDisconnected, PostDisconnected, VpnState
<1>3. ControlOK'
  <2>1. CASE MakeSession
    BY <2>1 DEF MakeSession, ControlOK, guiVars, WorkerAt, VpnState
  <2>2. CASE OpenPipe
    BY <2>2 DEF OpenPipe, ControlOK, guiVars, WorkerAt, VpnState
  <2>3. CASE Prompt
    BY <2>3 DEF Prompt, ControlOK, guiVars, WorkerAt, VpnState
  <2>4. CASE Authenticated
    BY <2>4 DEF Authenticated, ControlOK, guiVars, WorkerAt, VpnState
  <2>5. CASE ConnectFails
    BY <2>5 DEF ConnectFails, ControlOK, guiVars, WorkerAt, VpnState
  <2>6. CASE ConnectSucceeds
    BY <2>6 DEF ConnectSucceeds, ControlOK, guiVars, WorkerAt, VpnState
  <2>7. CASE StoreConnected
    BY <2>7 DEF StoreConnected, ControlOK, guiVars, WorkerAt, VpnState
  <2>8. CASE PostConnected
    BY <2>8 DEF PostConnected, ControlOK, guiVars, WorkerAt, VpnState
  <2>9. CASE ReadCancel
    BY <2>9 DEF ReadCancel, ControlOK, guiVars, WorkerAt, VpnState
  <2>10. CASE ReadStats
    BY <2>10 DEF ReadStats, ControlOK, guiVars, WorkerAt, VpnState
  <2>11. CASE MainloopReturns
    BY <2>11 DEF MainloopReturns, ControlOK, guiVars, WorkerAt, VpnState
  <2>12. CASE PostStopTimer
    BY <2>12 DEF PostStopTimer, ControlOK, guiVars, WorkerAt, VpnState
  <2>13. CASE ResetSession
    BY <2>13 DEF ResetSession, ControlOK, guiVars, WorkerAt, VpnState
  <2>14. CASE DestroySession
    BY <2>14 DEF DestroySession, ControlOK, guiVars, WorkerAt, VpnState
  <2>15. CASE StoreDisconnected
    BY <2>15 DEF StoreDisconnected, ControlOK, guiVars, WorkerAt, VpnState
  <2>16. CASE PostDisconnected
    BY <2>16 DEF PostDisconnected, ControlOK, guiVars, WorkerAt, VpnState
  <2> QED
    BY <2>1, <2>2, <2>3, <2>4, <2>5, <2>6, <2>7, <2>8, <2>9, <2>10, <2>11, <2>12, <2>13, <2>14, <2>15, <2>16 DEF Worker
<1> QED
  BY <1>1, <1>2, <1>3

LEMMA UserKeepsTypes ==
  ASSUME TypeInv, User \/ TimerFires
  PROVE  TypeInv'
<1> USE DEF TypeInv, Go, workerVars, endVars
<1>1. BooleansOK'
  BY Zenon DEF BooleansOK, User, ToggleConnection, TrayAction, Quit, AnswerDialog,
     TimerFires
<1>2. QueueOK'
  BY DEF QueueOK, User, ToggleConnection, TrayAction, Quit, AnswerDialog, TimerFires
<1>3. ControlOK'
  <2>1. CASE ToggleConnection
    BY <2>1, ControllerAssumption DEF ToggleConnection, ControlOK, GuiAt, WorkerAt
  <2>2. CASE TrayAction
    BY <2>2, ControllerAssumption DEF TrayAction, ControlOK, GuiAt, WorkerAt
  <2>3. CASE Quit
    BY <2>3, ControllerAssumption DEF Quit, ControlOK, GuiAt, WorkerAt
  <2>4. CASE AnswerDialog
    BY <2>4, ControllerAssumption DEF AnswerDialog, ControlOK, GuiAt, WorkerAt
  <2>5. CASE TimerFires
    BY <2>5, ControllerAssumption DEF TimerFires, ControlOK, GuiAt, WorkerAt
  <2> QED
    BY <2>1, <2>2, <2>3, <2>4, <2>5 DEF User
<1> QED
  BY <1>1, <1>2, <1>3

LEMMA OperationKeepsTypes ==
  ASSUME TypeInv, Operation
  PROVE  TypeInv'
<1> USE DEF TypeInv, Go, workerVars, endVars
<1>1. BooleansOK'
  <2>1. CASE SendCancel \/ SendRefresh
    BY <2>1, Zenon DEF BooleansOK, SendCancel, SendRefresh, UseSession
  <2>2. CASE StoreDisconnecting \/ PostDisconnecting
    BY <2>2, Zenon DEF BooleansOK, StoreDisconnecting, PostDisconnecting
  <2>3. CASE BeginConnect \/ JoinWorker \/ StartWorker \/ CheckSession \/ CheckState
    BY <2>3, Zenon DEF BooleansOK, BeginConnect, JoinWorker, StartWorker,
       CheckSession, CheckState
  <2> QED
    BY <2>1, <2>2, <2>3, Zenon DEF Operation
<1>2. QueueOK'
  <2>1. CASE UNCHANGED queue
    BY <2>1 DEF QueueOK
  <2>2. CASE \E e \in Events : PostToGui(e)
    BY <2>2, QueueAppend
  <2> QED
    BY <2>1, <2>2, EventTypes DEF Operation, BeginConnect, JoinWorker,
       StartWorker, CheckSession, CheckState, StoreDisconnecting,
       PostDisconnecting, SendCancel, SendRefresh, VpnState
<1>3. ControlOK'
  <2>1. CASE BeginConnect
    BY <2>1 DEF BeginConnect, ControlOK, GuiAt, WorkerAt, VpnState
  <2>2. CASE JoinWorker
    BY <2>2 DEF JoinWorker, ControlOK, GuiAt, WorkerAt, VpnState
  <2>3. CASE StartWorker
    BY <2>3 DEF StartWorker, ControlOK, GuiAt, WorkerAt, VpnState
  <2>4. CASE CheckSession
    BY <2>4 DEF CheckSession, ControlOK, GuiAt, WorkerAt, VpnState
  <2>5. CASE CheckState
    BY <2>5 DEF CheckState, ControlOK, GuiAt, WorkerAt, VpnState
  <2>6. CASE StoreDisconnecting
    BY <2>6 DEF StoreDisconnecting, ControlOK, GuiAt, WorkerAt, VpnState
  <2>7. CASE PostDisconnecting
    BY <2>7 DEF PostDisconnecting, ControlOK, GuiAt, WorkerAt, VpnState
  <2>8. CASE SendCancel
    <3>1. commands' \subseteq {"CANCEL", "STATS"}
      BY <2>8 DEF SendCancel, ControlOK, UseSession
    <3> QED
      BY <2>8, <3>1 DEF SendCancel, ControlOK, GuiAt
  <2>9. CASE SendRefresh
    <3>1. commands' \subseteq {"CANCEL", "STATS"}
      BY <2>9 DEF SendRefresh, ControlOK, UseSession
    <3> QED
      BY <2>9, <3>1 DEF SendRefresh, ControlOK, GuiAt
  <2> QED
    BY <2>1, <2>2, <2>3, <2>4, <2>5, <2>6, <2>7, <2>8, <2>9 DEF Operation
<1> QED
  BY <1>1, <1>2, <1>3

LEMMA HandlersKeepTypes ==
  ASSUME TypeInv, HandleEvent
  PROVE  TypeInv'
<1> USE DEF TypeInv, Go, NextEvent, workerVars, endVars
<1>1. BooleansOK'
  BY Zenon DEF BooleansOK, HandleEvent, HandleState, HandleConnected, HandleUpdate,
     HandleStopTimer, OpenDialog
<1>2. queue # <<>> /\ queue' = Tail(queue)
  BY DEF HandleEvent, HandleState, HandleConnected, HandleUpdate, HandleStopTimer,
     OpenDialog
<1>3. QueueOK' /\ Head(queue) \in Events
  BY <1>2, QueueTail
<1>4. ControlOK'
  <2>1. CASE HandleState
    BY <2>1, <1>3, EventTypes, ControllerAssumption DEF HandleState, ControlOK, GuiAt, VpnState
  <2>2. CASE HandleConnected
    BY <2>2, <1>3, EventTypes, ControllerAssumption DEF HandleConnected, ControlOK, GuiAt, VpnState
  <2>3. CASE HandleUpdate
    BY <2>3, <1>3, EventTypes, ControllerAssumption DEF HandleUpdate, ControlOK, GuiAt, VpnState
  <2>4. CASE HandleStopTimer
    BY <2>4, <1>3, EventTypes, ControllerAssumption DEF HandleStopTimer, ControlOK, GuiAt, VpnState
  <2>5. CASE OpenDialog
    BY <2>5, <1>3, EventTypes, ControllerAssumption DEF OpenDialog, ControlOK, GuiAt, VpnState
  <2> QED
    BY <2>1, <2>2, <2>3, <2>4, <2>5 DEF HandleEvent
<1> QED
  BY <1>1, <1>3, <1>4

LEMMA InitTypes == Init => TypeInv
<1> SUFFICES ASSUME Init PROVE TypeInv
  OBVIOUS
<1>1. BooleansOK
  BY Zenon DEF Init, BooleansOK
<1>2. QueueOK
  BY EmptySeq DEF Init, QueueOK
<1>3. ControlOK
  BY ControllerAssumption DEF Init, ControlOK, VpnState, WorkerAt, GuiAt
<1> QED
  BY <1>1, <1>2, <1>3 DEF TypeInv

LEMMA StepTypes == TypeInv /\ [Next]_vars => TypeInv'
<1> SUFFICES ASSUME TypeInv, [Next]_vars PROVE TypeInv'
  OBVIOUS
<1>1. CASE Next
  BY <1>1, WorkerKeepsTypes, UserKeepsTypes, OperationKeepsTypes,
     HandlersKeepTypes DEF Next
<1>2. CASE UNCHANGED vars
  <2>1. BooleansOK'
    BY <1>2, Zenon DEF TypeInv, BooleansOK, vars, workerVars, guiVars, endVars
  <2>2. QueueOK' /\ ControlOK'
    BY <1>2 DEF TypeInv, QueueOK, ControlOK, vars, workerVars, guiVars, endVars
  <2> QED
    BY <2>1, <2>2 DEF TypeInv
<1> QED
  BY <1>1, <1>2

\* Every state the two threads reach is well typed, the events in the queue
\* included (vpn_controller.hpp:43-238).
THEOREM TypeCorrect == Spec => []TypeOK
<1> QED
  BY InitTypes, StepTypes, TypeInvIsTypeOK, PTL DEF Spec

-----------------------------------------------------------------------------
(***************************************************************************)
(* What the state says about the worker, and the dialog about its prompt.  *)
(***************************************************************************)

\* Once the state is Disconnected, only the GUI thread changes it, and the worker
\* comes to life only where the GUI thread has stored Connecting.
LEMMA StepStateTellsWorker ==
  ASSUME TypeInv, StateTellsWorker, PromptIsAwaited, Next
  PROVE  StateTellsWorker'
<1> USE DEF StateTellsWorker, WorkerDone
<1>1. CASE Worker
  BY <1>1 DEF Worker, MakeSession, OpenPipe, Prompt, Authenticated, ConnectFails,
     ConnectSucceeds, StoreConnected, PostConnected, ReadCancel, ReadStats,
     MainloopReturns, PostStopTimer, ResetSession, DestroySession,
     StoreDisconnected, PostDisconnected, Step, guiVars
<1>2. CASE Quit \/ AnswerDialog
  BY <1>2 DEF Quit, AnswerDialog, Go, PromptIsAwaited
<1>3. CASE ToggleConnection \/ TrayAction \/ TimerFires
  BY <1>3 DEF ToggleConnection, TrayAction, TimerFires, Go, workerVars
<1>4. CASE Operation
  BY <1>4 DEF Operation, BeginConnect, JoinWorker, StartWorker, CheckSession,
     CheckState, StoreDisconnecting, PostDisconnecting, SendCancel, SendRefresh,
     Go, workerVars, TypeInv, ControlOK
<1>5. CASE HandleEvent
  BY <1>5 DEF HandleEvent, HandleState, HandleConnected, HandleUpdate,
     HandleStopTimer, OpenDialog, NextEvent, Go, workerVars
<1> QED
  BY <1>1, <1>2, <1>3, <1>4, <1>5 DEF Next, User

\* Steps that neither ask nor answer: the queue as it was, one event longer, or
\* one shorter.
LEMMA PromptStays ==
  ASSUME PromptIsAwaited, UNCHANGED <<queue, dialogOpen>>,
         worker = "prompting" => worker' = worker
  PROVE  PromptIsAwaited'
BY DEF PromptIsAwaited

LEMMA PromptStaysOnAppend ==
  ASSUME QueueOK, PromptIsAwaited, NEW e \in Events, e.event # "prompt",
         PostToGui(e), UNCHANGED dialogOpen,
         worker = "prompting" => worker' = worker
  PROVE  PromptIsAwaited'
BY QueueAppend DEF PromptIsAwaited

LEMMA PromptStaysOnTail ==
  ASSUME QueueOK, PromptIsAwaited, queue # <<>>, queue' = Tail(queue),
         UNCHANGED <<worker, dialogOpen>>
  PROVE  PromptIsAwaited'
BY QueueTail DEF PromptIsAwaited

LEMMA StepPromptIsAwaited ==
  ASSUME TypeInv, StateTellsWorker, PromptIsAwaited, Next
  PROVE  PromptIsAwaited'
<1> USE DEF TypeInv
<1>1. CASE Prompt
  <2>1. ~dialogOpen /\ \A i \in 1..Len(queue) : queue[i].event # "prompt"
    BY <1>1 DEF Prompt, Step, PromptIsAwaited
  <2>2. worker' = "prompting" /\ ~dialogOpen' /\ PostToGui(Event("prompt"))
    BY <1>1, <2>1 DEF Prompt, Step, guiVars
  <2>3. Event("prompt") \in Events
    BY EventTypes
  <2> QED
    BY <2>1, <2>2, <2>3, QueueAppend DEF PromptIsAwaited
<1>2. CASE Worker /\ UNCHANGED queue
  BY <1>2, PromptStays DEF Worker, MakeSession, OpenPipe, Prompt, Authenticated,
     ConnectFails, ConnectSucceeds, StoreConnected, PostConnected, ReadCancel,
     ReadStats, MainloopReturns, PostStopTimer, ResetSession, DestroySession,
     StoreDisconnected, PostDisconnected, Step, guiVars
<1>3. CASE PostConnected \/ ReadStats \/ PostStopTimer \/ PostDisconnected
  <2>1. PICK e \in Events : e.event # "prompt" /\ PostToGui(e)
    BY <1>3, EventTypes DEF PostConnected, ReadStats, PostStopTimer,
       PostDisconnected, VpnState
  <2>2. UNCHANGED dialogOpen /\ (worker = "prompting" => worker' = worker)
    BY <1>3 DEF PostConnected, ReadStats, PostStopTimer, PostDisconnected, Step,
       guiVars
  <2> QED
    BY <2>1, <2>2, PromptStaysOnAppend
<1>4. CASE Quit \/ AnswerDialog
  <2>1. CASE dialogOpen
    <3>1. \A i \in 1..Len(queue) : queue[i].event # "prompt"
      BY <2>1 DEF PromptIsAwaited
    <3>2. ~dialogOpen' /\ UNCHANGED queue
      BY <1>4 DEF Quit, AnswerDialog
    <3> QED
      BY <3>1, <3>2 DEF PromptIsAwaited
  <2>2. CASE ~dialogOpen
    BY <1>4, <2>2 DEF Quit, AnswerDialog, PromptIsAwaited
  <2> QED
    BY <2>1, <2>2
<1>5. CASE ToggleConnection \/ TrayAction \/ TimerFires
  BY <1>5, PromptStays DEF ToggleConnection, TrayAction, TimerFires, workerVars
<1>6. CASE StartWorker \/ PostDisconnecting
  <2>1. PICK e \in Events : e.event # "prompt" /\ PostToGui(e)
    BY <1>6, EventTypes DEF StartWorker, PostDisconnecting, VpnState
  <2>2. UNCHANGED dialogOpen /\ (worker = "prompting" => worker' = worker)
    BY <1>6 DEF StartWorker, PostDisconnecting, Go, workerVars, StateTellsWorker,
       WorkerDone
  <2> QED
    BY <2>1, <2>2, PromptStaysOnAppend
<1>7. CASE Operation /\ UNCHANGED <<queue, worker>>
  BY <1>7, PromptStays DEF Operation, BeginConnect, JoinWorker, StartWorker,
     CheckSession, CheckState, StoreDisconnecting, PostDisconnecting, SendCancel,
     SendRefresh
<1>8. CASE OpenDialog
  <2>1. queue # <<>> /\ queue' = Tail(queue) /\ Head(queue).event = "prompt"
    BY <1>8 DEF OpenDialog, NextEvent
  <2>2. worker = "prompting" /\ \A i \in 1..Len(queue') : queue'[i].event # "prompt"
    BY <2>1, QueueTail DEF PromptIsAwaited
  <2> QED
    BY <1>8, <2>2 DEF OpenDialog, workerVars, PromptIsAwaited
<1>9. CASE HandleState \/ HandleConnected \/ HandleUpdate \/ HandleStopTimer
  BY <1>9, PromptStaysOnTail DEF HandleState, HandleConnected, HandleUpdate,
     HandleStopTimer, NextEvent, workerVars
<1> QED
  BY <1>1, <1>2, <1>3, <1>4, <1>5, <1>6, <1>7, <1>8, <1>9
  DEF Next, Worker, User, Operation, HandleEvent, MakeSession, OpenPipe,
      Authenticated, ConnectFails, ConnectSucceeds, StoreConnected, ReadCancel,
      MainloopReturns, ResetSession, DestroySession, StoreDisconnected,
      BeginConnect, JoinWorker, CheckSession, CheckState, StoreDisconnecting,
      SendCancel, SendRefresh, workerVars

-----------------------------------------------------------------------------
(***************************************************************************)
(* The order of the events that fill the panel and of those that empty it. *)
(***************************************************************************)

\* A worker that could not post before cannot now; nothing is queued or handled.
LEMMA OrderStays ==
  ASSUME PanelFollowsState, UNCHANGED <<queue, shown>>, MayPost' => MayPost
  PROVE  PanelFollowsState'
BY DEF PanelFollowsState, OffAt

\* An event may be queued that empties no panel, and fills one only if the worker
\* may still post.
LEMMA OrderStaysOnAppend ==
  ASSUME QueueOK, PanelFollowsState, NEW e \in Events, PostToGui(e),
         UNCHANGED shown, ~IsOff(e),
         Fills(e) => MayPost,
         MayPost' => MayPost \/ IsOn(e)
  PROVE  PanelFollowsState'
<1>0. PICK n \in Nat : n = Len(queue)
  BY QueueAppend
<1>1. /\ n \in Nat /\ Len(queue') = n + 1 /\ queue'[n + 1] = e
      /\ \A i \in 1..n : queue'[i] = queue[i]
  BY <1>0, QueueAppend
<1>2. ~OffAt(n + 1)' /\ \A k \in 0..n : OffAt(k)' <=> OffAt(k)
  BY <1>1 DEF OffAt, IsOff, StateEvent
<1>3. ASSUME NEW k \in 0..n, NEW i \in 1..(n + 1), k < i, OffAt(k), Fills(queue'[i])
      PROVE  \E j \in 1..(n + 1) : k < j /\ j < i /\ IsOn(queue'[j])
  <2>1. CASE i \in 1..n
    BY <1>0, <1>1, <1>3, <2>1 DEF PanelFollowsState
  <2>2. CASE i = n + 1
    <3>1. MayPost
      BY <1>1, <1>3, <2>2
    <3>2. PICK j \in 1..n : k < j /\ IsOn(queue[j])
      BY <1>0, <1>3, <3>1 DEF PanelFollowsState
    <3> QED
      BY <1>1, <2>2, <3>2
  <2> QED
    BY <1>1, <2>1, <2>2
<1>4. ASSUME MayPost', NEW k \in 0..n, OffAt(k)
      PROVE  \E j \in 1..(n + 1) : k < j /\ IsOn(queue'[j])
  <2>1. CASE IsOn(e)
    BY <1>1, <2>1
  <2>2. CASE MayPost
    <3>1. PICK j \in 1..n : k < j /\ IsOn(queue[j])
      BY <1>0, <1>4, <2>2 DEF PanelFollowsState
    <3> QED
      BY <1>1, <3>1
  <2> QED
    BY <1>4, <2>1, <2>2
<1>5. ASSUME NEW k \in 0..(n + 1), OffAt(k)'
      PROVE  k \in 0..n /\ OffAt(k)
  <2>1. k # n + 1
    BY <1>2, <1>5
  <2> QED
    BY <1>1, <1>2, <1>5, <2>1
<1> QED
  BY <1>0, <1>1, <1>3, <1>4, <1>5 DEF PanelFollowsState

\* The worker's last event empties the panel, and nothing can follow it.
LEMMA OrderStaysOnLast ==
  ASSUME QueueOK, PanelFollowsState, NEW e \in Events, PostToGui(e),
         UNCHANGED shown, ~Fills(e), ~MayPost'
  PROVE  PanelFollowsState'
<1>0. PICK n \in Nat : n = Len(queue)
  BY QueueAppend
<1>1. /\ n \in Nat /\ Len(queue') = n + 1 /\ queue'[n + 1] = e
      /\ \A i \in 1..n : queue'[i] = queue[i]
  BY <1>0, QueueAppend
<1>2. \A k \in 0..n : OffAt(k)' <=> OffAt(k)
  BY <1>1 DEF OffAt, IsOff
<1>3. ASSUME NEW k \in 0..(n + 1), NEW i \in 1..(n + 1), k < i, OffAt(k)',
             Fills(queue'[i])
      PROVE  \E j \in 1..(n + 1) : k < j /\ j < i /\ IsOn(queue'[j])
  <2>1. i \in 1..n /\ k \in 0..n
    BY <1>1, <1>3
  <2>2. OffAt(k) /\ Fills(queue[i])
    BY <1>1, <1>2, <1>3, <2>1
  <2>3. PICK j \in 1..n : k < j /\ j < i /\ IsOn(queue[j])
    BY <1>0, <1>3, <2>1, <2>2 DEF PanelFollowsState
  <2> QED
    BY <1>1, <2>3
<1> QED
  BY <1>0, <1>1, <1>3 DEF PanelFollowsState

\* The event that is handled takes the place of the state shown if it is one.
LEMMA OrderStaysOnTail ==
  ASSUME QueueOK, PanelFollowsState, queue # <<>>, queue' = Tail(queue),
         UNCHANGED worker,
         shown' = IF Head(queue).event = "state" THEN Head(queue).state ELSE shown
  PROVE  PanelFollowsState'
<1> DEFINE n == Len(queue')
<1>1. /\ n \in Nat /\ Len(queue) = n + 1
      /\ Head(queue) = queue[1] /\ Head(queue) \in Events
      /\ \A i \in 1..n : queue'[i] = queue[i + 1]
  BY QueueTail
<1>2. \A k \in 1..n : OffAt(k)' => OffAt(k + 1)
  BY <1>1 DEF OffAt
<1>3. OffAt(0)' => OffAt(1) \/ (OffAt(0) /\ ~IsOn(queue[1]))
  BY <1>1, EventTypes DEF OffAt, IsOff, IsOn
<1> HIDE DEF n
\* Position k of the shorter queue was at `was`, and no state came in between.
<1>4. ASSUME NEW k \in 0..n, OffAt(k)'
      PROVE  \E was \in 0..(k + 1) :
               /\ OffAt(was)
               /\ \A j \in 1..(n + 1) :
                    was < j /\ IsOn(queue[j]) => j - 1 \in 1..n /\ k < j - 1
  <2>1. CASE k \in 1..n
    BY <1>1, <1>2, <1>4, <2>1
  <2>2. CASE k = 0 /\ OffAt(1)
    BY <1>1, <2>2
  <2>3. CASE k = 0 /\ OffAt(0) /\ ~IsOn(queue[1])
    <3>1. \A j \in 1..(n + 1) : IsOn(queue[j]) => j - 1 \in 1..n /\ 0 < j - 1
      BY <1>1, <2>3
    <3> QED
      BY <2>3, <3>1
  <2> QED
    BY <1>1, <1>3, <1>4, <2>1, <2>2, <2>3
<1>5. ASSUME NEW k \in 0..n, NEW i \in 1..n, k < i, OffAt(k)', Fills(queue'[i])
      PROVE  \E j \in 1..n : k < j /\ j < i /\ IsOn(queue'[j])
  <2>1. PICK was \in 0..(k + 1) :
          /\ OffAt(was)
          /\ \A j \in 1..(n + 1) :
               was < j /\ IsOn(queue[j]) => j - 1 \in 1..n /\ k < j - 1
    BY <1>4, <1>5
  <2>2. i + 1 \in 1..(n + 1) /\ was \in 0..(n + 1) /\ was < i + 1 /\ Fills(queue[i + 1])
    BY <1>1, <1>5, <2>1
  <2>3. PICK j \in 1..(n + 1) : was < j /\ j < i + 1 /\ IsOn(queue[j])
    BY <1>1, <2>1, <2>2 DEF PanelFollowsState
  <2>4. j - 1 \in 1..n /\ k < j - 1 /\ j - 1 < i /\ queue'[j - 1] = queue[j]
    BY <1>1, <2>1, <2>2, <2>3
  <2> QED
    BY <2>3, <2>4
<1>6. ASSUME MayPost', NEW k \in 0..n, OffAt(k)'
      PROVE  \E j \in 1..n : k < j /\ IsOn(queue'[j])
  <2>1. PICK was \in 0..(k + 1) :
          /\ OffAt(was)
          /\ \A j \in 1..(n + 1) :
               was < j /\ IsOn(queue[j]) => j - 1 \in 1..n /\ k < j - 1
    BY <1>4, <1>6
  <2>2. PICK j \in 1..(n + 1) : was < j /\ IsOn(queue[j])
    BY <1>1, <1>6, <2>1 DEF PanelFollowsState, MayPost
  <2>3. j - 1 \in 1..n /\ k < j - 1 /\ queue'[j - 1] = queue[j]
    BY <1>1, <2>1, <2>2
  <2> QED
    BY <2>2, <2>3
<1> QED
  BY <1>5, <1>6 DEF PanelFollowsState, n

LEMMA StepPanelFollowsState ==
  ASSUME TypeInv, StateTellsWorker, PromptIsAwaited, PanelFollowsState, Next
  PROVE  PanelFollowsState'
<1> USE DEF TypeInv, MayPost
<1>1. CASE Worker /\ UNCHANGED queue
  BY <1>1, OrderStays DEF Worker, MakeSession, OpenPipe, Prompt, Authenticated,
     ConnectFails, ConnectSucceeds, StoreConnected, PostConnected, ReadCancel,
     ReadStats, MainloopReturns, PostStopTimer, ResetSession, DestroySession,
     StoreDisconnected, PostDisconnected, Step, guiVars
<1>2. CASE Prompt \/ PostConnected \/ ReadStats \/ PostStopTimer
  <2>1. PICK e \in Events : PostToGui(e) /\ ~IsOff(e)
    BY <1>2, EventTypes DEF Prompt, PostConnected, ReadStats, PostStopTimer,
       VpnState, IsOff, StateEvent, Event
  <2>2. UNCHANGED shown /\ MayPost
    BY <1>2 DEF Prompt, PostConnected, ReadStats, PostStopTimer, Step,
       ReadsCommands, guiVars
  <2> QED
    BY <2>1, <2>2, OrderStaysOnAppend
<1>3. CASE PostDisconnected
  <2>1. ~MayPost' /\ UNCHANGED shown /\ PostToGui(StateEvent("Disconnected"))
    BY <1>3 DEF PostDisconnected, Step, guiVars
  <2>2. StateEvent("Disconnected") \in Events /\ ~Fills(StateEvent("Disconnected"))
    BY EventTypes DEF VpnState, Fills
  <2> QED
    BY <2>1, <2>2, OrderStaysOnLast
<1>4. CASE Quit \/ AnswerDialog
  BY <1>4, OrderStays DEF Quit, AnswerDialog, PromptIsAwaited
<1>5. CASE ToggleConnection \/ TrayAction \/ TimerFires
  BY <1>5, OrderStays DEF ToggleConnection, TrayAction, TimerFires, workerVars
<1>6. CASE StartWorker \/ PostDisconnecting
  <2>1. PICK e \in Events : PostToGui(e) /\ IsOn(e) /\ ~Fills(e)
    BY <1>6, EventTypes DEF StartWorker, PostDisconnecting, VpnState, IsOn, IsOff,
       Fills, StateEvent
  <2>2. UNCHANGED shown
    BY <1>6 DEF StartWorker, PostDisconnecting
  <2>3. ~IsOff(e)
    BY <2>1 DEF IsOn
  <2> QED
    BY <2>1, <2>2, <2>3, OrderStaysOnAppend
<1>7. CASE Operation /\ UNCHANGED <<queue, worker>>
  BY <1>7, OrderStays DEF Operation, BeginConnect, JoinWorker, StartWorker,
     CheckSession, CheckState, StoreDisconnecting, PostDisconnecting, SendCancel,
     SendRefresh
<1>8. CASE HandleEvent
  BY <1>8, OrderStaysOnTail DEF HandleEvent, HandleState, HandleConnected,
     HandleUpdate, HandleStopTimer, OpenDialog, NextEvent, workerVars
<1> QED
  BY <1>1, <1>2, <1>3, <1>4, <1>5, <1>6, <1>7, <1>8
  DEF Next, Worker, User, Operation, MakeSession, OpenPipe, Authenticated,
      ConnectFails, ConnectSucceeds, StoreConnected, ReadCancel, MainloopReturns,
      ResetSession, DestroySession, StoreDisconnected, BeginConnect, JoinWorker,
      CheckSession, CheckState, StoreDisconnecting, SendCancel, SendRefresh,
      workerVars

\* An event that fills the panel is not handled while Disconnected is shown.
LEMMA StepNoTunnel ==
  ASSUME TypeInv, PanelFollowsState, NoTunnelWhenDisconnected, Next
  PROVE  NoTunnelWhenDisconnected'
<1> USE DEF TypeInv, NoTunnelWhenDisconnected
<1>1. CASE HandleConnected \/ HandleUpdate
  <2>1. queue # <<>> /\ Fills(queue[1]) /\ UNCHANGED shown /\ Len(queue) \in Nat \ {0}
    BY <1>1, QueueTail DEF HandleConnected, HandleUpdate, NextEvent, Fills
  <2>2. ~OffAt(0)
    BY <2>1 DEF PanelFollowsState
  <2> QED
    BY <2>1, <2>2 DEF OffAt
<1>2. CASE HandleState
  BY <1>2 DEF HandleState
<1>3. CASE Worker \/ User \/ Operation \/ TimerFires \/ HandleStopTimer \/ OpenDialog
  <2>1. UNCHANGED <<shown, panel>>
    BY <1>3 DEF Worker, MakeSession, OpenPipe, Prompt, Authenticated, ConnectFails,
       ConnectSucceeds, StoreConnected, PostConnected, ReadCancel, ReadStats,
       MainloopReturns, PostStopTimer, ResetSession, DestroySession,
       StoreDisconnected, PostDisconnected, guiVars, User, ToggleConnection,
       TrayAction, Quit, AnswerDialog, Operation, BeginConnect, JoinWorker,
       StartWorker, CheckSession, CheckState, StoreDisconnecting,
       PostDisconnecting, SendCancel, SendRefresh, TimerFires, HandleStopTimer,
       OpenDialog
  <2> QED
    BY <2>1
<1> QED
  BY <1>1, <1>2, <1>3 DEF Next, HandleEvent

-----------------------------------------------------------------------------
(***************************************************************************)
(* The theorems.                                                           *)
(***************************************************************************)

\* The inductive invariant: the state tells where the worker is, a prompt is
\* awaited, and the events in the queue come in an order that never fills the
\* panel after it was emptied (vpn_controller.hpp:132-175 and 226-238).
THEOREM Invariance == Spec => []IInv
<1>1. Init => IInv
  <2> SUFFICES ASSUME Init PROVE IInv
    OBVIOUS
  <2>1. TypeInv
    BY InitTypes
  <2>2. queue = <<>> /\ Len(queue) = 0 /\ worker = "none" /\ ~dialogOpen /\ gui = "idle"
    BY EmptySeq DEF Init
  <2>3. StateTellsWorker
    BY <2>2 DEF StateTellsWorker, WorkerDone
  <2>4. PromptIsAwaited
    BY <2>2 DEF PromptIsAwaited
  <2>5. PanelFollowsState
    BY <2>2 DEF PanelFollowsState, MayPost
  <2>6. NoTunnelWhenDisconnected
    BY DEF Init, NoTunnelWhenDisconnected
  <2> QED
    BY <2>1, <2>3, <2>4, <2>5, <2>6 DEF IInv
<1>2. IInv /\ [Next]_vars => IInv'
  <2> SUFFICES ASSUME IInv, [Next]_vars PROVE IInv'
    OBVIOUS
  <2>1. CASE Next
    BY <2>1, StepTypes, StepStateTellsWorker, StepPromptIsAwaited,
       StepPanelFollowsState, StepNoTunnel DEF IInv
  <2>2. CASE UNCHANGED vars
    <3>1. TypeInv'
      BY <2>2, StepTypes DEF IInv
    <3>2. UNCHANGED <<state, worker, gui, queue, dialogOpen, shown, panel>>
      BY <2>2 DEF vars, workerVars, guiVars
    <3>3. StateTellsWorker' /\ NoTunnelWhenDisconnected'
      BY <3>2 DEF IInv, StateTellsWorker, WorkerDone, NoTunnelWhenDisconnected
    <3>4. PromptIsAwaited' /\ PanelFollowsState'
      BY <3>2, PromptStays, OrderStays DEF IInv, MayPost
    <3> QED
      BY <3>1, <3>3, <3>4 DEF IInv
  <2> QED
    BY <2>1, <2>2
<1> QED
  BY <1>1, <1>2, PTL DEF Spec

\* Connect() never joins a worker that may still need the GUI thread
\* (vpn_controller.hpp:91-97).
THEOREM JoinsFinishedWorker == Spec => []ConnectJoinsFinishedWorker
<1>1. IInv => ConnectJoinsFinishedWorker
  BY DEF IInv, StateTellsWorker, WorkerDone, ConnectJoinsFinishedWorker
<1> QED
  BY <1>1, Invariance, PTL

\* No update and no connected event of a session that ended is handled after its
\* Disconnected (vpn_controller.hpp:166-175, main_window.hpp:171-186).
THEOREM NoStaleTunnel == Spec => []NoTunnelWhenDisconnected
<1>1. IInv => NoTunnelWhenDisconnected
  BY DEF IInv
<1> QED
  BY <1>1, Invariance, PTL

-----------------------------------------------------------------------------
(***************************************************************************)
(* What is left when a session is over: no timer, and Disconnected.        *)
(***************************************************************************)

\* The worker is where its connected handler is posted and the end of its timer
\* is not.
TimerDue == worker \in {"mainloop", "stopTimer"}

\* Position 0 stands for the timer as it is.
StartsTimer(k) == IF k = 0 THEN timerOn ELSE queue[k].event = "connected"

\* Whatever starts the timer is followed by the event that stops it, or will be.
TimerIsStopped ==
    ~TimerDue =>
        \A k \in 0..Len(queue) : StartsTimer(k) =>
            \E j \in 1..Len(queue) : k < j /\ queue[j].event = "stopTimer"

\* The latest state to be shown is Disconnected: no other is queued after it, and
\* if it is shown already, the menu was built from it.
DisconnectedIsLast ==
    \E k \in 0..Len(queue) :
        /\ OffAt(k)
        /\ k = 0 => offered = "Disconnected"
        /\ \A j \in 1..Len(queue) : k < j => queue[j].event # "state"

SessionIsOver ==
    /\ worker \in {"post", "finished"} /\ ~overtaken => state = "Disconnected"
    /\ worker = "finished" /\ ~overtaken => DisconnectedIsLast

LEMMA TimerStays ==
  ASSUME TimerIsStopped, UNCHANGED <<queue, timerOn>>, ~TimerDue' => ~TimerDue
  PROVE  TimerIsStopped'
BY DEF TimerIsStopped, StartsTimer

\* An event that starts the timer is only posted where its end is due.
LEMMA TimerStaysOnAppend ==
  ASSUME QueueOK, TimerIsStopped, NEW e \in Events, PostToGui(e), UNCHANGED timerOn,
         ~TimerDue' => e.event = "stopTimer" \/ (e.event # "connected" /\ ~TimerDue)
  PROVE  TimerIsStopped'
<1> SUFFICES ASSUME ~TimerDue', NEW k \in 0..Len(queue'), StartsTimer(k)'
             PROVE  \E j \in 1..Len(queue') : k < j /\ queue'[j].event = "stopTimer"
  BY DEF TimerIsStopped
<1>0. PICK n \in Nat : n = Len(queue)
  BY QueueAppend
<1>1. /\ Len(queue') = n + 1 /\ queue'[n + 1] = e
      /\ \A i \in 1..n : queue'[i] = queue[i]
  BY <1>0, QueueAppend
<1>2. k \in 0..n /\ StartsTimer(k)
  BY <1>0, <1>1 DEF StartsTimer
<1>3. CASE e.event = "stopTimer"
  BY <1>1, <1>2, <1>3
<1>4. CASE ~TimerDue
  <2>1. PICK j \in 1..n : k < j /\ queue[j].event = "stopTimer"
    BY <1>0, <1>2, <1>4 DEF TimerIsStopped
  <2> QED  BY <1>1, <2>1
<1> QED  BY <1>3, <1>4

LEMMA TimerStaysOnTail ==
  ASSUME QueueOK, TimerIsStopped, queue # <<>>, queue' = Tail(queue), UNCHANGED worker,
         timerOn' = IF Head(queue).event = "connected" THEN TRUE
                    ELSE IF Head(queue).event = "stopTimer" THEN FALSE ELSE timerOn
  PROVE  TimerIsStopped'
<1> DEFINE n == Len(queue')
<1>1. /\ n \in Nat /\ Len(queue) = n + 1 /\ Head(queue) = queue[1]
      /\ \A i \in 1..n : queue'[i] = queue[i + 1]
  BY QueueTail
<1> HIDE DEF n
<1> SUFFICES ASSUME ~TimerDue', NEW k \in 0..n, StartsTimer(k)'
             PROVE  \E j \in 1..n : k < j /\ queue'[j].event = "stopTimer"
  BY DEF TimerIsStopped, n
<1>2. PICK was \in 0..(n + 1) :
        /\ StartsTimer(was)
        /\ \A j \in 1..(n + 1) :
             was < j /\ queue[j].event = "stopTimer" => j - 1 \in 1..n /\ k < j - 1
  <2>1. CASE k \in 1..n
    <3>1. StartsTimer(k + 1)
      BY <1>1, <2>1 DEF StartsTimer
    <3>2. \A j \in 1..(n + 1) : k + 1 < j => j - 1 \in 1..n /\ k < j - 1
      BY <1>1, <2>1
    <3> QED  BY <1>1, <2>1, <3>1, <3>2
  <2>2. CASE k = 0
    <3>1. timerOn'
      BY <2>2 DEF StartsTimer
    <3>2. CASE queue[1].event = "connected"
      <4>1. \A j \in 1..(n + 1) : 1 < j => j - 1 \in 1..n /\ 0 < j - 1
        BY <1>1
      <4> QED  BY <1>1, <2>2, <3>2, <4>1 DEF StartsTimer
    <3>3. CASE queue[1].event \notin {"connected", "stopTimer"}
      <4>1. StartsTimer(0)
        BY <1>1, <3>1, <3>3 DEF StartsTimer
      <4>2. \A j \in 1..(n + 1) : j # 1 => j - 1 \in 1..n /\ 0 < j - 1
        BY <1>1
      <4> QED  BY <1>1, <2>2, <3>3, <4>1, <4>2
    <3> QED  BY <1>1, <3>1, <3>2, <3>3
  <2> QED  BY <2>1, <2>2
<1>3. PICK j \in 1..(n + 1) : was < j /\ queue[j].event = "stopTimer"
  BY <1>1, <1>2 DEF TimerIsStopped, TimerDue
<1>4. j - 1 \in 1..n /\ k < j - 1 /\ queue'[j - 1] = queue[j]
  BY <1>1, <1>2, <1>3
<1> QED  BY <1>3, <1>4

LEMMA StepTimer ==
  ASSUME TypeInv, StateTellsWorker, PromptIsAwaited, TimerIsStopped, Next
  PROVE  TimerIsStopped'
<1> USE DEF TypeInv, TimerDue
<1>1. CASE Worker /\ UNCHANGED queue
  BY <1>1, TimerStays DEF Worker, MakeSession, OpenPipe, Prompt, Authenticated,
     ConnectFails, ConnectSucceeds, StoreConnected, PostConnected, ReadCancel,
     ReadStats, MainloopReturns, PostStopTimer, ResetSession, DestroySession,
     StoreDisconnected, PostDisconnected, Step, guiVars, PostToGui
<1>2. CASE Prompt \/ PostConnected \/ ReadStats \/ PostStopTimer \/ PostDisconnected
  <2>1. UNCHANGED timerOn
    BY <1>2 DEF Prompt, PostConnected, ReadStats, PostStopTimer, PostDisconnected, guiVars
  <2>2. PICK e \in Events :
          /\ PostToGui(e)
          /\ ~TimerDue' => e.event = "stopTimer" \/ (e.event # "connected" /\ ~TimerDue)
    BY <1>2, EventTypes DEF Prompt, PostConnected, ReadStats, PostStopTimer,
       PostDisconnected, Step, VpnState
  <2> QED  BY <2>1, <2>2, TimerStaysOnAppend
<1>3. CASE Quit \/ AnswerDialog
  BY <1>3, TimerStays DEF Quit, AnswerDialog, PromptIsAwaited
<1>4. CASE ToggleConnection \/ TrayAction \/ TimerFires
  BY <1>4, TimerStays DEF ToggleConnection, TrayAction, TimerFires, workerVars
<1>5. CASE StartWorker \/ PostDisconnecting
  <2>1. PICK e \in Events : PostToGui(e) /\ e.event = "state"
    BY <1>5, EventTypes DEF StartWorker, PostDisconnecting, VpnState
  <2>2. UNCHANGED timerOn /\ (~TimerDue' => ~TimerDue)
    BY <1>5 DEF StartWorker, PostDisconnecting, workerVars, StateTellsWorker,
       WorkerDone, Go
  <2> QED  BY <2>1, <2>2, TimerStaysOnAppend
<1>6. CASE Operation /\ UNCHANGED <<queue, worker>>
  BY <1>6, TimerStays DEF Operation, BeginConnect, JoinWorker, StartWorker,
     CheckSession, CheckState, StoreDisconnecting, PostDisconnecting, SendCancel,
     SendRefresh
<1>7. CASE HandleEvent
  BY <1>7, TimerStaysOnTail DEF HandleEvent, HandleState, HandleConnected,
     HandleUpdate, HandleStopTimer, OpenDialog, NextEvent, workerVars
<1> QED
  BY <1>1, <1>2, <1>3, <1>4, <1>5, <1>6, <1>7
  DEF Next, Worker, User, Operation, MakeSession, OpenPipe, Authenticated,
      ConnectFails, ConnectSucceeds, StoreConnected, ReadCancel, MainloopReturns,
      ResetSession, DestroySession, StoreDisconnected, BeginConnect, JoinWorker,
      CheckSession, CheckState, StoreDisconnecting, SendCancel, SendRefresh,
      workerVars

\* A finished worker's last event stays the last state.
LEMMA LastOnTail ==
  ASSUME QueueOK, DisconnectedIsLast, state = "Disconnected", queue # <<>>,
         queue' = Tail(queue),
         IF Head(queue).event = "state"
           THEN shown' = Head(queue).state /\ offered' = state
           ELSE UNCHANGED <<shown, offered>>
  PROVE  DisconnectedIsLast'
<1> DEFINE n == Len(queue')
<1>1. /\ n \in Nat /\ Len(queue) = n + 1 /\ Head(queue) = queue[1]
      /\ Head(queue) \in Events /\ \A i \in 1..n : queue'[i] = queue[i + 1]
  BY QueueTail
<1> HIDE DEF n
<1>2. PICK k \in 0..(n + 1) :
        /\ OffAt(k)
        /\ k = 0 => offered = "Disconnected"
        /\ \A j \in 1..(n + 1) : k < j => queue[j].event # "state"
  BY <1>1 DEF DisconnectedIsLast
<1> SUFFICES \E m \in 0..n :
               /\ OffAt(m)'
               /\ m = 0 => offered' = "Disconnected"
               /\ \A j \in 1..n : m < j => queue'[j].event # "state"
  BY DEF DisconnectedIsLast, n
<1>3. CASE k = 0
  <2>1. queue[1].event # "state" /\ \A j \in 1..n : queue'[j].event # "state"
    BY <1>1, <1>2, <1>3
  <2>2. OffAt(0)'
    BY <1>1, <1>2, <1>3, <2>1 DEF OffAt
  <2> QED  BY <1>1, <1>2, <1>3, <2>1, <2>2
<1>4. CASE k = 1
  <2>1. queue[1] = StateEvent("Disconnected")
    BY <1>2, <1>4 DEF OffAt, IsOff
  <2>2. shown' = "Disconnected" /\ offered' = "Disconnected"
    BY <1>1, <2>1 DEF StateEvent
  <2>3. \A j \in 1..n : queue'[j].event # "state"
    BY <1>1, <1>2, <1>4
  <2> QED  BY <1>1, <2>2, <2>3 DEF OffAt
<1>5. CASE k > 1
  <2>1. k - 1 \in 1..n /\ queue'[k - 1] = queue[k]
    BY <1>1, <1>5
  <2>2. OffAt(k - 1)'
    BY <1>1, <1>2, <1>5, <2>1 DEF OffAt, IsOff
  <2>3. \A j \in 1..n : k - 1 < j => queue'[j].event # "state"
    BY <1>1, <1>2, <2>1
  <2>4. k - 1 \in 0..n /\ k - 1 # 0
    BY <1>1, <1>5, <2>1
  <2> QED
    <3>1. PICK m \in 0..n : m = k - 1
      BY <2>4
    <3>2. OffAt(m)' /\ m # 0 /\ \A j \in 1..n : m < j => queue'[j].event # "state"
      BY <2>2, <2>3, <2>4, <3>1
    <3> QED  BY <3>2
<1> QED  BY <1>1, <1>2, <1>3, <1>4, <1>5

LEMMA OverStays ==
  ASSUME SessionIsOver, UNCHANGED <<queue, shown, offered, state>>,
         worker' \in {"post", "finished"} => worker' = worker,
         ~overtaken' => ~overtaken
  PROVE  SessionIsOver'
BY DEF SessionIsOver, DisconnectedIsLast, OffAt

LEMMA StepSessionIsOver ==
  ASSUME TypeInv, PromptIsAwaited, SessionIsOver, Next
  PROVE  SessionIsOver'
<1> USE DEF TypeInv
<1>1. CASE PostDisconnected
  <2>1. /\ worker = "post" /\ worker' = "finished" /\ UNCHANGED <<state, overtaken>>
        /\ PostToGui(StateEvent("Disconnected"))
    BY <1>1 DEF PostDisconnected, Step, endVars
  <2>2. DisconnectedIsLast'
    <3>1. StateEvent("Disconnected") \in Events
      BY EventTypes DEF VpnState
    <3>2. PICK last \in Nat \ {0} :
            Len(queue') = last /\ queue'[last] = StateEvent("Disconnected")
      BY <2>1, <3>1, QueueAppend
    <3>3. OffAt(last)'
      BY <3>2 DEF OffAt, IsOff
    <3> QED  BY <3>2, <3>3 DEF DisconnectedIsLast
  <2> QED  BY <2>1, <2>2 DEF SessionIsOver
<1>2. CASE StoreDisconnected
  BY <1>2 DEF StoreDisconnected, Step, SessionIsOver
<1>3. CASE Worker /\ ~PostDisconnected /\ ~StoreDisconnected
  <2>1. worker' \notin {"post", "finished"}
    BY <1>3 DEF Worker, MakeSession, OpenPipe, Prompt, Authenticated, ConnectFails,
       ConnectSucceeds, StoreConnected, PostConnected, ReadCancel, ReadStats,
       MainloopReturns, PostStopTimer, ResetSession, DestroySession, Step,
       ReadsCommands
  <2> QED  BY <2>1 DEF SessionIsOver
<1>4. CASE Quit \/ AnswerDialog
  BY <1>4, OverStays DEF Quit, AnswerDialog, PromptIsAwaited, endVars
<1>5. CASE ToggleConnection \/ TrayAction \/ TimerFires
  BY <1>5, OverStays DEF ToggleConnection, TrayAction, TimerFires, workerVars, endVars
<1>6. CASE StartWorker
  BY <1>6 DEF StartWorker, SessionIsOver
<1>7. CASE StoreDisconnecting
  BY <1>7 DEF StoreDisconnecting, workerVars, SessionIsOver
<1>8. CASE PostDisconnecting
  BY <1>8 DEF PostDisconnecting, workerVars, SessionIsOver
<1>9. CASE BeginConnect \/ JoinWorker \/ CheckSession \/ CheckState
  BY <1>9, OverStays DEF BeginConnect, JoinWorker, CheckSession, CheckState,
     workerVars, endVars
<1>10. CASE SendCancel \/ SendRefresh
  BY <1>10, OverStays DEF SendCancel, SendRefresh
<1>11. CASE HandleEvent
  <2>1. /\ queue # <<>> /\ queue' = Tail(queue)
        /\ UNCHANGED <<state, worker, overtaken>>
        /\ IF Head(queue).event = "state"
             THEN shown' = Head(queue).state /\ offered' = state
             ELSE UNCHANGED <<shown, offered>>
    BY <1>11 DEF HandleEvent, HandleState, HandleConnected, HandleUpdate,
       HandleStopTimer, OpenDialog, NextEvent, workerVars, endVars
  <2> QED  BY <2>1, LastOnTail DEF SessionIsOver
<1> QED
  BY <1>1, <1>2, <1>3, <1>4, <1>5, <1>6, <1>7, <1>8, <1>9, <1>10, <1>11
  DEF Next, User, Operation

\* Of a session that is over, the queue holds all that stops its timer and shows
\* its end (vpn_controller.hpp:132-175 and 191-238).
THEOREM EndsInvariance == Spec => [](TimerIsStopped /\ SessionIsOver)
<1>1. Init => TimerIsStopped /\ SessionIsOver
  <2> SUFFICES ASSUME Init PROVE TimerIsStopped /\ SessionIsOver
    OBVIOUS
  <2>1. queue = <<>> /\ Len(queue) = 0 /\ worker = "none" /\ ~timerOn
    BY EmptySeq DEF Init
  <2> QED  BY <2>1 DEF TimerIsStopped, StartsTimer, SessionIsOver
<1>2. IInv /\ TimerIsStopped /\ SessionIsOver /\ [Next]_vars
        => TimerIsStopped' /\ SessionIsOver'
  <2> SUFFICES ASSUME IInv, TimerIsStopped, SessionIsOver, [Next]_vars
               PROVE  TimerIsStopped' /\ SessionIsOver'
    OBVIOUS
  <2>1. CASE Next
    BY <2>1, StepTimer, StepSessionIsOver DEF IInv
  <2>2. CASE UNCHANGED vars
    <3>1. UNCHANGED <<queue, shown, offered, state, worker, overtaken, timerOn>>
      BY <2>2 DEF vars, workerVars, guiVars, endVars
    <3> QED  BY <3>1, TimerStays, OverStays DEF TimerDue
  <2> QED  BY <2>1, <2>2
<1> QED  BY <1>1, <1>2, Invariance, PTL DEF Spec

\* The refresh timer does not outlive the session whose events are handled
\* (vpn_controller.hpp:166-170 and 191-224).
THEOREM TimerStops == Spec => []TimerStopsWithSession
<1>1. TimerIsStopped => TimerStopsWithSession
  <2> SUFFICES ASSUME TimerIsStopped, worker \in {"none", "finished"}, queue = <<>>
               PROVE  ~timerOn
    BY DEF TimerStopsWithSession
  <2>1. Len(queue) = 0
    BY EmptySeq
  <2> QED  BY <2>1 DEF TimerIsStopped, TimerDue, StartsTimer
<1> QED  BY <1>1, EndsInvariance, PTL

\* A session whose events are handled leaves the client Disconnected and saying
\* so, unless Disconnect() overtook its end (vpn_controller.hpp:112-124 and
\* 226-238).
THEOREM Settles == Spec => []SettlesDisconnected
<1>1. SessionIsOver => SettlesDisconnected
  <2> SUFFICES ASSUME SessionIsOver, worker = "finished", queue = <<>>, ~overtaken
               PROVE  state = "Disconnected" /\ shown = state /\ offered = state
    BY DEF SettlesDisconnected
  <2>1. Len(queue) = 0
    BY EmptySeq
  <2> QED  BY <2>1 DEF SessionIsOver, DisconnectedIsLast, OffAt
<1> QED  BY <1>1, EndsInvariance, PTL

-----------------------------------------------------------------------------
(***************************************************************************)
(* A disconnection on its way.                                             *)
(***************************************************************************)

\* The worker has stored Connected and has not stored Disconnected; up to its
\* mainloop, and after it.
Announced == worker \in {"announce", "announceTunnel", "mainloop"}
Leaving == worker \in {"stopTimer", "reset", "destroying", "report"}

\* A cancellation is about to be written, is in the pipe, or has been read.
CancelIsOnItsWay ==
    gui \in {"postState", "cancel"} \/ "CANCEL" \in commands \/ cancelRead

\* While the client is Disconnecting there is always a worker that will report the
\* end, and if it has not left its mainloop, a cancellation that takes it there:
\* nobody can be left in Disconnecting with nothing to wait for
\* (vpn_controller.hpp:112-124).
DisconnectIsUnderWay ==
    state = "Disconnecting" /\ ~overtaken /\ ~crashed =>
        Leaving \/ (Announced /\ CancelIsOnItsWay)

\* What Disconnect() knows of the worker at its store.
ConnectedIsAnnounced ==
    /\ state = "Connected" => Announced \/ Leaving
    /\ gui = "setState" => Announced \/ Leaving \/ worker \in {"post", "finished"}

DisconnectInv == ConnectedIsAnnounced /\ DisconnectIsUnderWay

\* Neither thread takes the other's half away: the worker leaves its mainloop only
\* to end, and Disconnect() does not return before it has written.
LEMMA StepDisconnect ==
  ASSUME TypeInv, StateTellsWorker, PromptIsAwaited, DisconnectInv, Next
  PROVE  DisconnectInv'
<1> USE DEF DisconnectInv, ConnectedIsAnnounced, DisconnectIsUnderWay, CancelIsOnItsWay,
            Announced, Leaving
<1>1. CASE \/ MakeSession \/ OpenPipe \/ Prompt \/ Authenticated \/ ConnectFails
           \/ ConnectSucceeds
  BY <1>1 DEF MakeSession, OpenPipe, Prompt, Authenticated, ConnectFails,
     ConnectSucceeds, Step, guiVars, endVars
<1>2. CASE StoreConnected \/ StoreDisconnected
  BY <1>2 DEF StoreConnected, StoreDisconnected, Step, guiVars, endVars
<1>3. CASE PostConnected \/ MainloopReturns \/ PostStopTimer
  BY <1>3 DEF PostConnected, MainloopReturns, PostStopTimer, Step, guiVars, endVars
<1>4. CASE ReadCancel \/ ReadStats
  BY <1>4 DEF ReadCancel, ReadStats, guiVars, endVars
<1>5. CASE ResetSession \/ DestroySession \/ PostDisconnected
  BY <1>5 DEF ResetSession, DestroySession, PostDisconnected, Step, guiVars, endVars
<1>6. CASE ToggleConnection \/ TrayAction \/ TimerFires
  BY <1>6 DEF ToggleConnection, TrayAction, TimerFires, Go, workerVars, endVars
<1>7. CASE Quit \/ AnswerDialog
  BY <1>7 DEF Quit, AnswerDialog, PromptIsAwaited, Go, endVars
<1>8. CASE BeginConnect \/ JoinWorker \/ CheckSession \/ CheckState
  BY <1>8 DEF BeginConnect, JoinWorker, CheckSession, CheckState, Go, workerVars, endVars,
     TypeInv, ControlOK
<1>9. CASE StartWorker
  BY <1>9 DEF StartWorker, Go
<1>10. CASE StoreDisconnecting \/ PostDisconnecting
  BY <1>10 DEF StoreDisconnecting, PostDisconnecting, Go, workerVars
<1>11. CASE SendCancel
  BY <1>11 DEF SendCancel, UseSession, PipeOpen, SessionAlive, Go, TypeInv, ControlOK
<1>12. CASE SendRefresh
  BY <1>12 DEF SendRefresh, UseSession, Go
<1>13. CASE HandleEvent
  BY <1>13 DEF HandleEvent, HandleState, HandleConnected, HandleUpdate, HandleStopTimer,
     OpenDialog, NextEvent, Go, workerVars, endVars
<1> QED
  BY <1>1, <1>2, <1>3, <1>4, <1>5, <1>6, <1>7, <1>8, <1>9, <1>10, <1>11, <1>12, <1>13
  DEF Next, Worker, User, Operation

\* What DisconnectFinishes rests on, for all bounds and every interleaving: whoever
\* is Disconnecting has a worker that is told, or on its way out
\* (vpn_controller.hpp:112-124 and 132-175).
THEOREM DisconnectNotForgotten == Spec => []DisconnectIsUnderWay
<1>1. Init => DisconnectInv
  BY DEF Init, DisconnectInv, ConnectedIsAnnounced, DisconnectIsUnderWay
<1>2. IInv /\ DisconnectInv /\ [Next]_vars => DisconnectInv'
  <2> SUFFICES ASSUME IInv, DisconnectInv, [Next]_vars PROVE DisconnectInv'
    OBVIOUS
  <2>1. CASE Next
    BY <2>1, StepDisconnect DEF IInv
  <2>2. CASE UNCHANGED vars
    BY <2>2 DEF vars, workerVars, guiVars, endVars, DisconnectInv, ConnectedIsAnnounced,
       DisconnectIsUnderWay, CancelIsOnItsWay, Announced, Leaving
  <2> QED  BY <2>1, <2>2
<1>3. DisconnectInv => DisconnectIsUnderWay
  BY DEF DisconnectInv
<1> QED  BY <1>1, <1>2, <1>3, Invariance, PTL DEF Spec

=============================================================================
