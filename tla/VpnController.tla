---------------------------- MODULE VpnController ----------------------------
(***************************************************************************)
(* The GUI process: the GUI thread with its Qt event queue, and the worker *)
(* thread that VpnController::Connect starts and that runs one VpnSession  *)
(* from construction to destruction (ui/qt/vpn_controller.hpp, with the    *)
(* callers and handlers of main_window.hpp, tray_icon.hpp and              *)
(* qt_prompter.hpp).  The session is reduced to what its two users can     *)
(* tell apart: whether it exists, whether its command pipe does, and       *)
(* whether openconnect is in a wait that reads the pipe.                   *)
(*                                                                         *)
(* `state` is atomic; the unique_ptr `session` is not, and both threads    *)
(* use it, so each of its uses is a step of its own.                       *)
(***************************************************************************)
EXTENDS Naturals, Sequences

CONSTANTS
    PeerMayDrop,   \* the tunnel may end by itself, without a Cancel()
    MayQuit,       \* the user may quit the application
    MaxBacklog,    \* the user acts while at most so many events are queued
    MaxQueue,      \* updates wait while so many events are queued
    MaxShots       \* single-shot refreshes that may be pending

ASSUME ControllerAssumption ==
    /\ PeerMayDrop \in BOOLEAN
    /\ MayQuit \in BOOLEAN
    /\ MaxBacklog \in Nat
    /\ MaxQueue \in Nat \ {0}
    /\ MaxShots \in Nat \ {0}

VARIABLES
    state,       \* the atomic VpnState
    worker,      \* where the worker thread is, "none" before the first
    commands,    \* what openconnect has not read yet from the command pipe
    cancelRead,  \* openconnect read OC_CMD_CANCEL
    gui,         \* where the GUI thread is; "idle" is its event loop
    after,       \* where it goes when Disconnect() is done
    queue,       \* the functors posted to the GUI thread
    dialogOpen,  \* a prompt's dialog runs a nested event loop
    shown,       \* the latest state handled by HandleStateChange
    offered,     \* the state the tray menu and the buttons were built from
    panel,       \* "empty" or "tunnel": what the detail panel shows
    timerOn,     \* refreshTimer is running
    shots,       \* single-shot refreshes not fired yet
    crashed,     \* a use of a session that was gone brought the process down
    overtaken    \* history: Disconnect() found the session up, and its store or
                 \* its event came after the worker's last

workerVars == <<worker, commands, cancelRead>>
guiVars == <<gui, after, dialogOpen, shown, offered, panel, timerOn, shots>>
endVars == <<crashed, overtaken>>
vars == <<state, workerVars, guiVars, queue, endVars>>

VpnState == {"Disconnected", "Connecting", "Connected", "Disconnecting"}

\* The worker from Run to its end: the session is made, connects (opening the
\* pipe, waiting for the network or for a prompt, setting the tunnel up), is
\* announced, runs its mainloop, is reset, and Disconnected is reported.
WorkerAt ==
    {"none", "start", "noPipe", "network", "prompting", "setup", "up",
     "announce", "announceTunnel", "mainloop", "stopTimer", "reset",
     "destroying", "report", "post", "finished"}

\* The GUI thread: in its event loop, in Connect, in Disconnect, about to send
\* a refresh, or past the end of main().
GuiAt ==
    {"idle", "connect", "join", "start", "checkSession", "checkState",
     "setState", "postState", "cancel", "refresh", "quitJoin", "exited"}

Events == [event : {"state"}, state : VpnState]
          \cup [event : {"connected", "update", "stopTimer", "prompt"}]

StateEvent(s) == [event |-> "state", state |-> s]
Event(e) == [event |-> e]

TypeOK ==
    /\ state \in VpnState
    /\ worker \in WorkerAt
    /\ commands \subseteq {"CANCEL", "STATS"}
    /\ cancelRead \in BOOLEAN
    /\ gui \in GuiAt
    /\ after \in {"idle", "quitJoin"}
    /\ queue \in Seq(Events)
    /\ dialogOpen \in BOOLEAN
    /\ shown \in VpnState
    /\ offered \in VpnState
    /\ panel \in {"empty", "tunnel"}
    /\ timerOn \in BOOLEAN
    /\ shots \in 0..MaxShots
    /\ crashed \in BOOLEAN
    /\ overtaken \in BOOLEAN

Init ==
    /\ state = "Disconnected"
    /\ worker = "none"
    /\ commands = {}
    /\ cancelRead = FALSE
    /\ gui = "idle"
    /\ after = "idle"
    /\ queue = <<>>
    /\ dialogOpen = FALSE
    /\ shown = "Disconnected"
    /\ offered = "Disconnected"
    /\ panel = "empty"
    /\ timerOn = FALSE
    /\ shots = 0
    /\ crashed = FALSE
    /\ overtaken = FALSE

-----------------------------------------------------------------------------
(***************************************************************************)
(* The session pointer, as either thread finds it.                         *)
(***************************************************************************)

\* The object behind the pointer is whole.
SessionAlive ==
    worker \in {"noPipe", "network", "prompting", "setup", "up", "announce",
                "announceTunnel", "mainloop", "stopTimer", "reset"}

\* `session != nullptr`: reset() clears the pointer before the destructor runs.
HasSession == SessionAlive

PipeOpen == SessionAlive /\ worker # "noPipe"

\* PostToGui: queued, never blocking.
PostToGui(event) == queue' = Append(queue, event)

-----------------------------------------------------------------------------
(***************************************************************************)
(* The worker: VpnController::Run.                                         *)
(***************************************************************************)

Step(from, to) == ~crashed /\ worker = from /\ worker' = to

MakeSession ==
    /\ Step("start", "noPipe")
    /\ UNCHANGED <<state, commands, cancelRead, guiVars, queue, endVars>>

\* VpnSession::Connect up to the command pipe, or an early failure.
OpenPipe ==
    /\ Step("noPipe", "network") \/ Step("noPipe", "reset")
    /\ UNCHANGED <<state, commands, cancelRead, guiVars, queue, endVars>>

\* openconnect calls the auth form's prompt: RunOnGuiThread blocks the worker.
Prompt ==
    /\ ~cancelRead
    /\ Step("network", "prompting")
    /\ PostToGui(Event("prompt"))
    /\ UNCHANGED <<state, commands, cancelRead, guiVars, endVars>>

\* Authenticated: the helper, the tun device and vpnc-script read no commands.
Authenticated ==
    /\ ~cancelRead
    /\ Step("network", "setup")
    /\ UNCHANGED <<state, commands, cancelRead, guiVars, queue, endVars>>

\* Connect fails: cancelled, or at any of its own failures.
ConnectFails ==
    /\ Step("network", "reset") \/ Step("setup", "reset")
    /\ UNCHANGED <<state, commands, cancelRead, guiVars, queue, endVars>>

ConnectSucceeds ==
    /\ Step("setup", "up")
    /\ UNCHANGED <<state, commands, cancelRead, guiVars, queue, endVars>>

\* SetState(Connected) stores, then posts; the connected handler is posted next.
StoreConnected ==
    /\ Step("up", "announce")
    /\ state' = "Connected"
    /\ UNCHANGED <<commands, cancelRead, guiVars, queue, endVars>>

PostConnected ==
    /\ \/ Step("announce", "announceTunnel") /\ PostToGui(StateEvent("Connected"))
       \/ Step("announceTunnel", "mainloop") /\ PostToGui(Event("connected"))
    /\ UNCHANGED <<state, commands, cancelRead, guiVars, endVars>>

ReadsCommands == ~crashed /\ worker \in {"network", "mainloop"} /\ ~cancelRead

ReadCancel ==
    /\ ReadsCommands
    /\ "CANCEL" \in commands
    /\ commands' = commands \ {"CANCEL"}
    /\ cancelRead' = TRUE
    /\ UNCHANGED <<state, worker, guiVars, queue, endVars>>

\* The statistics handler posts an update to the GUI.
ReadStats ==
    /\ ReadsCommands
    /\ "STATS" \in commands
    /\ Len(queue) < MaxQueue
    /\ commands' = commands \ {"STATS"}
    /\ PostToGui(Event("update"))
    /\ UNCHANGED <<state, worker, cancelRead, guiVars, endVars>>

MainloopReturns ==
    /\ cancelRead \/ PeerMayDrop
    /\ Step("mainloop", "stopTimer")
    /\ UNCHANGED <<state, commands, cancelRead, guiVars, queue, endVars>>

\* A slip: the timer is left to run out.
ForgetStopTimer ==
    /\ Step("stopTimer", "reset")
    /\ UNCHANGED <<state, commands, cancelRead, guiVars, queue, endVars>>

PostStopTimer ==
    /\ Step("stopTimer", "reset")
    /\ PostToGui(Event("stopTimer"))
    /\ UNCHANGED <<state, commands, cancelRead, guiVars, endVars>>

\* session.reset(): the pointer goes first, the object after it.
ResetSession ==
    /\ Step("reset", "destroying")
    /\ UNCHANGED <<state, commands, cancelRead, guiVars, queue, endVars>>

DestroySession ==
    /\ Step("destroying", "report")
    /\ commands' = {}
    /\ cancelRead' = FALSE
    /\ UNCHANGED <<state, guiVars, queue, endVars>>

StoreDisconnected ==
    /\ Step("report", "post")
    /\ state' = "Disconnected"
    /\ UNCHANGED <<commands, cancelRead, guiVars, queue, endVars>>

\* Slips: an event without the state it reports; no event at all.
PostBareState ==
    /\ Step("post", "finished")
    /\ PostToGui(Event("state"))
    /\ UNCHANGED <<state, commands, cancelRead, guiVars, endVars>>

EndSilently ==
    /\ Step("post", "finished")
    /\ UNCHANGED <<state, commands, cancelRead, guiVars, queue, endVars>>

PostDisconnected ==
    /\ Step("post", "finished")
    /\ PostToGui(StateEvent("Disconnected"))
    /\ UNCHANGED <<state, commands, cancelRead, guiVars, endVars>>

Worker ==
    \/ MakeSession \/ OpenPipe \/ Prompt \/ Authenticated \/ ConnectFails
    \/ ConnectSucceeds \/ StoreConnected \/ PostConnected \/ ReadCancel
    \/ ReadStats \/ MainloopReturns \/ PostStopTimer \/ ResetSession
    \/ DestroySession \/ StoreDisconnected \/ PostDisconnected

-----------------------------------------------------------------------------
(***************************************************************************)
(* The GUI thread: the user, and the public operations.                    *)
(***************************************************************************)

Go(from, to) == ~crashed /\ gui = from /\ gui' = to

\* What the user does is bounded by the events the GUI thread is behind with.
UserActs == Len(queue) <= MaxBacklog

\* The window's button: busy, or it disconnects, or it connects.
ToggleConnection ==
    /\ UserActs
    /\ ~dialogOpen
    /\ \/ state = "Connected" /\ Go("idle", "checkSession")
       \/ state = "Disconnected" /\ Go("idle", "connect")
    /\ UNCHANGED <<state, workerVars, after, dialogOpen, shown, offered, panel,
                   timerOn, shots, queue, endVars>>

\* The tray's menu, built when the latest state event was handled.
TrayAction ==
    /\ UserActs
    /\ \/ offered = "Connected" /\ Go("idle", "checkSession")
       \/ offered = "Disconnected" /\ Go("idle", "connect")
    /\ UNCHANGED <<state, workerVars, after, dialogOpen, shown, offered, panel,
                   timerOn, shots, queue, endVars>>

\* A slip: Connect does not look at the state.
BeginConnectAlways ==
    /\ Go("connect", "join")
    /\ UNCHANGED <<state, workerVars, after, dialogOpen, shown, offered, panel,
                   timerOn, shots, queue, endVars>>

\* Connect: not unless Disconnected, then JoinWorker.
BeginConnect ==
    /\ Go("connect", IF state = "Disconnected" THEN "join" ELSE "idle")
    /\ UNCHANGED <<state, workerVars, after, dialogOpen, shown, offered, panel,
                   timerOn, shots, queue, endVars>>

WorkerJoinable == worker \in {"none", "finished"}

JoinWorker ==
    /\ WorkerJoinable
    /\ Go("join", "start") \/ Go("quitJoin", "exited")
    /\ UNCHANGED <<state, workerVars, after, dialogOpen, shown, offered, panel,
                   timerOn, shots, queue, endVars>>

StartWorker ==
    /\ Go("start", "idle")
    /\ state' = "Connecting"
    /\ PostToGui(StateEvent("Connecting"))
    /\ worker' = "start"
    /\ overtaken' = FALSE
    /\ UNCHANGED <<commands, cancelRead, after, dialogOpen, shown, offered,
                   panel, timerOn, shots, crashed>>

\* Disconnect: look at the pointer, look at the state, set the state, cancel.
CheckSession ==
    /\ Go("checkSession", IF HasSession THEN "checkState" ELSE after)
    /\ UNCHANGED <<state, workerVars, after, dialogOpen, shown, offered, panel,
                   timerOn, shots, queue, endVars>>

CheckState ==
    /\ Go("checkState", IF state = "Connected" THEN "setState" ELSE "cancel")
    /\ UNCHANGED <<state, workerVars, after, dialogOpen, shown, offered, panel,
                   timerOn, shots, queue, endVars>>

StoreDisconnecting ==
    /\ Go("setState", "postState")
    /\ state' = "Disconnecting"
    /\ overtaken' = (worker = "post" \/ worker = "finished")
    /\ UNCHANGED <<workerVars, after, dialogOpen, shown, offered, panel,
                   timerOn, shots, queue, crashed>>

PostDisconnecting ==
    /\ Go("postState", "cancel")
    /\ PostToGui(StateEvent("Disconnecting"))
    /\ overtaken' = (overtaken \/ worker = "finished")
    /\ UNCHANGED <<state, workerVars, after, dialogOpen, shown, offered, panel,
                   timerOn, shots, crashed>>

\* session->Cancel() and session->RequestRefresh() through a pointer that was
\* tested a step ago.  On a session that is gone the write goes nowhere, or the
\* process comes down.
UseSession(command) ==
    \/ /\ commands' = IF PipeOpen THEN commands \cup {command} ELSE commands
       /\ UNCHANGED crashed
    \/ /\ ~SessionAlive
       /\ crashed' = TRUE
       /\ UNCHANGED commands

\* A slip: a session that is up is not cancelled, only its state is set.
CancelOnlyUnlessConnected ==
    /\ Go("cancel", after)
    /\ IF state = "Disconnecting" THEN UNCHANGED <<commands, crashed>>
                                  ELSE UseSession("CANCEL")
    /\ UNCHANGED <<state, worker, cancelRead, after, dialogOpen, shown, offered,
                   panel, timerOn, shots, queue, overtaken>>

SendCancel ==
    /\ Go("cancel", after)
    /\ UseSession("CANCEL")
    /\ UNCHANGED <<state, worker, cancelRead, after, dialogOpen, shown, offered,
                   panel, timerOn, shots, queue, overtaken>>

SendRefresh ==
    /\ Go("refresh", "idle")
    /\ UseSession("STATS")
    /\ UNCHANGED <<state, worker, cancelRead, after, dialogOpen, shown, offered,
                   panel, timerOn, shots, queue, overtaken>>

\* A timeout of the refresh timer, or of a single shot.
TimerFires ==
    /\ Go("idle", IF HasSession THEN "refresh" ELSE "idle")
    /\ \/ timerOn /\ UNCHANGED shots
       \/ shots > 0 /\ shots' = shots - 1
    /\ UNCHANGED <<state, workerVars, after, dialogOpen, shown, offered, panel,
                   timerOn, queue, endVars>>

\* Quit ends the event loops, a dialog's included, which answers its prompt with
\* a cancellation; the controller's destructor disconnects and joins.
Quit ==
    /\ MayQuit
    /\ UserActs
    /\ Go("idle", "checkSession")
    /\ after' = "quitJoin"
    /\ dialogOpen' = FALSE
    /\ worker' = IF dialogOpen THEN "reset" ELSE worker
    /\ UNCHANGED <<state, commands, cancelRead, shown, offered, panel, timerOn, shots,
                   queue, endVars>>

-----------------------------------------------------------------------------
(***************************************************************************)
(* The GUI thread: what the worker posted.                                 *)
(***************************************************************************)

NextEvent(e) ==
    /\ Go("idle", "idle")
    /\ queue # <<>>
    /\ Head(queue).event = e
    /\ queue' = Tail(queue)

\* A slip: the panel is cleared while disconnecting instead of afterwards.
HandleStateClearsEarly ==
    /\ NextEvent("state")
    /\ shown' = Head(queue).state
    /\ panel' = IF shown' = "Disconnecting" THEN "empty" ELSE panel
    /\ offered' = state
    /\ UNCHANGED <<state, workerVars, after, dialogOpen, timerOn, shots, endVars>>

\* HandleStateChange: clear the panel, rebuild buttons and menu from State().
HandleState ==
    /\ NextEvent("state")
    /\ shown' = Head(queue).state
    /\ panel' = IF shown' = "Disconnected" THEN "empty" ELSE panel
    /\ offered' = state
    /\ UNCHANGED <<state, workerVars, after, dialogOpen, timerOn, shots, endVars>>

\* The connected handler shows the tunnel and starts the timer and a shot.
HandleConnected ==
    /\ NextEvent("connected")
    /\ panel' = "tunnel"
    /\ timerOn' = TRUE
    /\ shots' = IF shots < MaxShots THEN shots + 1 ELSE shots
    /\ UNCHANGED <<state, workerVars, after, dialogOpen, shown, offered, endVars>>

HandleUpdate ==
    /\ NextEvent("update")
    /\ panel' = "tunnel"
    /\ UNCHANGED <<state, workerVars, after, dialogOpen, shown, offered, timerOn,
                   shots, endVars>>

HandleStopTimer ==
    /\ NextEvent("stopTimer")
    /\ timerOn' = FALSE
    /\ UNCHANGED <<state, workerVars, after, dialogOpen, shown, offered, panel,
                   shots, endVars>>

\* The dialog is opened on the GUI thread and runs its own event loop.
OpenDialog ==
    /\ NextEvent("prompt")
    /\ dialogOpen' = TRUE
    /\ UNCHANGED <<state, workerVars, after, shown, offered, panel, timerOn,
                   shots, endVars>>

\* The user answers, or cancels, which fails the authentication.
AnswerDialog ==
    /\ Go("idle", "idle")
    /\ dialogOpen
    /\ dialogOpen' = FALSE
    /\ worker' \in {"network", "reset"}
    /\ UNCHANGED <<state, commands, cancelRead, after, shown, offered, panel,
                   timerOn, shots, queue, endVars>>

HandleEvent ==
    \/ HandleState \/ HandleConnected \/ HandleUpdate \/ HandleStopTimer
    \/ OpenDialog

Operation ==
    \/ BeginConnect \/ JoinWorker \/ StartWorker \/ CheckSession \/ CheckState
    \/ StoreDisconnecting \/ PostDisconnecting \/ SendCancel \/ SendRefresh

User == ToggleConnection \/ TrayAction \/ Quit \/ AnswerDialog

Next == Worker \/ User \/ Operation \/ HandleEvent \/ TimerFires

Spec == Init /\ [][Next]_vars

\* Both threads run, the user answers a dialog, and openconnect, which polls the
\* command pipe in each of its waits, reads a cancellation.
Fairness ==
    /\ WF_vars(Worker)
    /\ WF_vars(Operation)
    /\ WF_vars(HandleEvent)
    /\ WF_vars(AnswerDialog)
    /\ SF_vars(ReadCancel)

FairSpec == Spec /\ Fairness

-----------------------------------------------------------------------------
(***************************************************************************)
(* What the controller promises its window and its user.                   *)
(***************************************************************************)

\* Once the window has been told Disconnected, it shows no tunnel: no update
\* or connected event of the session that ended comes after it
\* (vpn_controller.hpp:166-175, main_window.hpp:171-186 and 267-274).
NoTunnelWhenDisconnected == shown = "Disconnected" => panel = "empty"

\* Connect() joins only a worker with nothing left to do but return, so the GUI
\* thread never waits there for one that may wait for it
\* (vpn_controller.hpp:91-97, qt_prompter.hpp:20-23).
ConnectJoinsFinishedWorker ==
    gui = "join" => worker \in {"none", "post", "finished"}

\* When the session is over and its events are handled, the refresh timer is
\* stopped (vpn_controller.hpp:166-170 and 191-224).
TimerStopsWithSession ==
    worker \in {"none", "finished"} /\ queue = <<>> => ~timerOn

\* When everything a session did has been handled, the client is Disconnected,
\* and says and offers so: a new connection can be made.  Excepted is the session
\* that ended between Disconnect()'s check and its store, after which Disconnecting
\* stays (vpn_controller.hpp:112-124 and 226-238).
SettlesDisconnected ==
    worker = "finished" /\ queue = <<>> /\ gui = "idle" /\ ~overtaken =>
        state = "Disconnected" /\ shown = state /\ offered = state

\* A disconnection the user asked for comes to an end, with the same exception
\* (vpn_controller.hpp:112-113).
DisconnectFinishes ==
    state = "Disconnecting" ~> (state = "Disconnected" \/ crashed \/ overtaken)

\* The GUI thread does not wait for a worker that waits for a dialog
\* (qt_prompter.hpp:20-23, vpn_controller.hpp:43-47).
NoMutualWait == ~(gui \in {"join", "quitJoin"} /\ worker = "prompting")

=============================================================================
