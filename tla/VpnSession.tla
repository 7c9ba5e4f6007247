----------------------------- MODULE VpnSession -----------------------------
(***************************************************************************)
(* One VpnSession object (core/vpn_session.hpp): the worker thread takes   *)
(* it through Connect, RunMainLoop and the destructor, while a controlling *)
(* thread (the GUI, or a signal handler of the console client) writes      *)
(* commands to the pipe openconnect reads.  libopenconnect, the kernel's   *)
(* network configuration and the privileged helper process are the         *)
(* environment, modelled from the way this code drives them.               *)
(***************************************************************************)
EXTENDS DtlsWatchdog, Sequences

CONSTANTS
    FrontEnds,     \* "gui": unprivileged, with a refresh timer; "console": root
    PolkitAnswers, \* what the polkit prompt may come to: granted, dismissed
    Mtus,          \* the path MTUs openconnect may probe
    AdvertisedMtu, \* the one the gateway advertises at CONNECT
    MaxPipe,       \* commands the controlling thread lets pile up in the pipe
    Horizon        \* how long the mainloop is followed, in polls

ASSUME SessionAssumption ==
    /\ FrontEnds \subseteq {"gui", "console"} /\ FrontEnds # {}
    /\ PolkitAnswers \subseteq {"granted", "dismissed"}
    /\ AdvertisedMtu \in Mtus
    /\ Mtus \subseteq Nat \ {0}
    /\ MaxPipe \in Nat \ {0}
    /\ Horizon \in Nat

VARIABLES
    stage,             \* where the worker is
    result,            \* what the latest openconnect_mainloop returned
    commandFd,         \* the write end of the command pipe: "open" or "none"
    pipe,              \* the commands openconnect has not read yet
    cancelRead,        \* openconnect read OC_CMD_CANCEL
    reconnectPending,  \* the watchdog asked for the pause that is coming
    resolvedInterface, \* a tun device was handed to openconnect
    appliedMtu,        \* the MTU this session last set, 0 for none
    info,              \* the snapshot published under infoMutex
    helperFd,          \* PrivilegedClient's peerFd >= 0
    helperProcess,     \* "unused" in the console client, where root needs none,
                       \* "none" until it is started, then "asking" polkit,
                       \* "running" and "exited"
    network,           \* routes and DNS: "clean", "configured" by vpnc-script,
                       \* or "stuck" when it failed to take them back
    deviceMtu,         \* the MTU of the tun device, 0 before vpnc-script
    probedMtu,         \* the MTU openconnect reports
    dtls,              \* DTLS in openconnect: "none", "down" or "up"
    now                \* what time(nullptr) returns

sessionVars == <<stage, result, commandFd, pipe, cancelRead,
                 reconnectPending, resolvedInterface, appliedMtu, info>>
helperVars == <<helperFd, helperProcess>>
kernelVars == <<network, deviceMtu>>
openconnectVars == <<probedMtu, dtls>>

\* History: what the properties compare the code's behaviour with.
VARIABLES
    refreshed,      \* the statistics handler ran since the last tick
    upFor,          \* the polls DTLS has been up for, two at most
    lossAt,         \* since when a DTLS that lasted has been gone unanswered
    probedFor,      \* the polls the device has not had the probed MTU for, and
                    \* no SetMtu that failed explains it
    mtuFailed,      \* the latest refresh asked for the probed MTU in vain
    cancelWritten   \* Cancel() was called while the pipe was open

historyVars == <<refreshed, upFor, lossAt, probedFor, mtuFailed, cancelWritten>>

vars == <<watchdogVars, sessionVars, helperVars, kernelVars, openconnectVars,
          now, historyVars>>

Stages == {"new", "auth", "prompt", "helper", "cstp", "tun", "script", "ready",
           "mainloop", "paused", "failed", "returned", "stopping", "gone",
           "killed"}

Commands == {"CANCEL", "PAUSE", "STATS"}

\* 0 is a pause; EINTR, EPERM and EIO stand for the ways a mainloop ends.
Results == {"0", "EINTR", "EPERM", "EIO"}

TypeOK ==
    /\ WatchdogTypeOK
    /\ stage \in Stages
    /\ result \in Results \cup {"none"}
    /\ commandFd \in {"open", "none"}
    /\ pipe \in Seq(Commands)
    /\ cancelRead \in BOOLEAN
    /\ reconnectPending \in BOOLEAN
    /\ resolvedInterface \in BOOLEAN
    /\ appliedMtu \in Mtus \cup {0}
    /\ info \in [dtlsUp : BOOLEAN, dtlsDisabled : BOOLEAN]
    /\ helperFd \in BOOLEAN
    /\ helperProcess \in {"unused", "none", "asking", "running", "exited"}
    /\ network \in {"clean", "configured", "stuck"}
    /\ deviceMtu \in Mtus \cup {0}
    /\ probedMtu \in Mtus \cup {0}
    /\ dtls \in {"none", "down", "up"}
    /\ now \in Nat
    /\ refreshed \in BOOLEAN
    /\ upFor \in 0..2
    /\ lossAt \in Nat \cup {NotLost}
    /\ probedFor \in 0..2
    /\ mtuFailed \in BOOLEAN
    /\ cancelWritten \in BOOLEAN

Init ==
    /\ WatchdogInit
    /\ stage = "new"
    /\ result = "none"
    /\ commandFd = "none"
    /\ pipe = <<>>
    /\ cancelRead = FALSE
    /\ reconnectPending = FALSE
    /\ resolvedInterface = FALSE
    /\ appliedMtu = 0
    /\ info = [dtlsUp |-> FALSE, dtlsDisabled |-> FALSE]
    /\ helperFd = FALSE
    /\ \E frontEnd \in FrontEnds :
         helperProcess = IF frontEnd = "gui" THEN "none" ELSE "unused"
    /\ network = "clean"
    /\ deviceMtu = 0
    /\ probedMtu = 0
    /\ dtls = "none"
    /\ now = 0
    /\ refreshed = FALSE
    /\ upFor = 0
    /\ lossAt = NotLost
    /\ probedFor = 0
    /\ mtuFailed = FALSE
    /\ cancelWritten = FALSE

-----------------------------------------------------------------------------
(***************************************************************************)
(* Connect.                                                                *)
(***************************************************************************)

UseHelper == helperProcess # "unused"

WorkerGoesTo(next) ==
    /\ stage' = next
    /\ UNCHANGED <<result, cancelRead, reconnectPending, info>>

\* No gateway, no vpnc-script, no vpninfo: Connect fails before the pipe exists.
RefuseOptions ==
    /\ stage = "new"
    /\ WorkerGoesTo("failed")
    /\ UNCHANGED <<commandFd, pipe, resolvedInterface, appliedMtu, watchdogVars,
                   helperVars, kernelVars, openconnectVars, now, historyVars>>

\* A slip: the error openconnect_setup_cmd_pipe returned is kept as descriptor.
KeepPipeError ==
    /\ stage = "new"
    /\ commandFd' \in {"open", "error"}
    /\ \E next \in {"auth", "failed"} : WorkerGoesTo(next)
    /\ UNCHANGED <<pipe, resolvedInterface, appliedMtu, watchdogVars,
                   helperVars, kernelVars, openconnectVars, now, historyVars>>

\* The command pipe is created, unless openconnect cannot, and the protocol is
\* accepted or refused.
OpenCommandPipe ==
    /\ stage = "new"
    /\ commandFd' \in {"open", "none"}
    /\ \E next \in {"auth", "failed"} : WorkerGoesTo(next)
    /\ UNCHANGED <<pipe, resolvedInterface, appliedMtu, watchdogVars,
                   helperVars, kernelVars, openconnectVars, now, historyVars>>

\* Inside openconnect_obtain_cookie an auth form calls back and waits for the
\* user; openconnect reads no command meanwhile.
PromptUser ==
    /\ stage = "auth"
    /\ ~cancelRead
    /\ WorkerGoesTo("prompt")
    /\ UNCHANGED <<commandFd, pipe, resolvedInterface, appliedMtu, watchdogVars,
                   helperVars, kernelVars, openconnectVars, now, historyVars>>

AnswerPrompt ==
    /\ stage = "prompt"
    /\ \E next \in {"auth", "failed"} : WorkerGoesTo(next)
    /\ UNCHANGED <<commandFd, pipe, resolvedInterface, appliedMtu, watchdogVars,
                   helperVars, kernelVars, openconnectVars, now, historyVars>>

\* openconnect_obtain_cookie or openconnect_make_cstp_connection fails, for its
\* own reasons or because it read OC_CMD_CANCEL.
FailInOpenconnect ==
    /\ stage \in {"auth", "cstp"}
    /\ WorkerGoesTo("failed")
    /\ UNCHANGED <<commandFd, pipe, resolvedInterface, appliedMtu, watchdogVars,
                   helperVars, kernelVars, openconnectVars, now, historyVars>>

\* The cookie is there.  With a helper, helper.Start comes next: it forks
\* pkexec, or fails before that.
ObtainCookie ==
    /\ stage = "auth"
    /\ ~cancelRead
    /\ \/ ~UseHelper /\ WorkerGoesTo("cstp") /\ UNCHANGED helperProcess
       \/ UseHelper /\ WorkerGoesTo("failed") /\ UNCHANGED helperProcess
       \/ UseHelper /\ WorkerGoesTo("helper") /\ helperProcess' = "asking"
    /\ UNCHANGED <<commandFd, pipe, resolvedInterface, appliedMtu, watchdogVars,
                   helperFd, kernelVars, openconnectVars, now, historyVars>>

\* The accept(2) in PrivilegedClient::Start: it returns when a helper connects,
\* and only then.  A helper that is not root is refused.
AcceptHelper ==
    /\ stage = "helper"
    /\ helperProcess = "running"
    /\ \/ helperFd' = TRUE /\ WorkerGoesTo("cstp") /\ UNCHANGED helperProcess
       \/ helperProcess' = "exited" /\ WorkerGoesTo("failed") /\ UNCHANGED helperFd
    /\ UNCHANGED <<commandFd, pipe, resolvedInterface, appliedMtu, watchdogVars,
                   kernelVars, openconnectVars, now, historyVars>>

MakeCstpConnection ==
    /\ stage = "cstp"
    /\ ~cancelRead
    /\ WorkerGoesTo("tun")
    /\ probedMtu' = AdvertisedMtu
    /\ UNCHANGED <<commandFd, pipe, resolvedInterface, appliedMtu, watchdogVars,
                   helperVars, kernelVars, dtls, now, historyVars>>

HelperAnswers == UseHelper => helperFd /\ helperProcess = "running"

\* SetupTun up to the script: the device is created and openconnect takes it,
\* or one of the two fails.
SetupTun ==
    /\ stage = "tun"
    /\ \/ /\ HelperAnswers
          /\ WorkerGoesTo("script")
          /\ resolvedInterface' = TRUE
          /\ appliedMtu' = 0
       \/ /\ WorkerGoesTo("failed")
          /\ UNCHANGED <<resolvedInterface, appliedMtu>>
    /\ UNCHANGED <<commandFd, pipe, watchdogVars, helperVars, kernelVars,
                   openconnectVars, now, historyVars>>

\* RunVpncScript("connect"): a script that fails may have done part of its work.
RunConnectScript ==
    /\ stage = "script"
    /\ \/ /\ HelperAnswers
          /\ WorkerGoesTo("ready")
          /\ network' = "configured"
          /\ deviceMtu' = AdvertisedMtu
       \/ /\ WorkerGoesTo("failed")
          /\ network' \in IF HelperAnswers THEN {"clean", "configured"}
                                           ELSE {"clean"}
          /\ UNCHANGED deviceMtu
    /\ UNCHANGED <<commandFd, pipe, resolvedInterface, appliedMtu, watchdogVars,
                   helperVars, openconnectVars, now, historyVars>>

\* DTLS is set up unless the profile turns it off; Connect publishes a snapshot
\* and returns, and the front end enters RunMainLoop.
EnterMainLoop ==
    /\ stage = "ready"
    /\ WorkerGoesTo("mainloop")
    /\ dtls' \in {"none", "down"}
    /\ UNCHANGED <<commandFd, pipe, resolvedInterface, appliedMtu, watchdogVars,
                   helperVars, kernelVars, probedMtu, now, historyVars>>

-----------------------------------------------------------------------------
(***************************************************************************)
(* The command pipe.                                                       *)
(***************************************************************************)

\* SendCommand: a write, as long as the descriptor is there.
SendCommand(command) ==
    pipe' = IF commandFd = "open" THEN Append(pipe, command) ELSE pipe

\* Cancel() may be called whenever the session exists.
Cancel ==
    /\ stage \notin {"gone", "killed"}
    /\ Len(pipe) < MaxPipe
    /\ SendCommand("CANCEL")
    /\ cancelWritten' = (cancelWritten \/ commandFd = "open")
    /\ UNCHANGED <<watchdogVars, stage, result, commandFd, cancelRead,
                   reconnectPending, resolvedInterface, appliedMtu, info,
                   helperVars, kernelVars, openconnectVars, now, refreshed,
                   upFor, lossAt, probedFor, mtuFailed>>

\* RequestRefresh() comes from the GUI's timer; the console client never calls it.
RequestRefresh ==
    /\ UseHelper
    /\ stage \notin {"gone", "killed"}
    /\ Len(pipe) < MaxPipe
    /\ SendCommand("STATS")
    /\ UNCHANGED <<watchdogVars, stage, result, commandFd, cancelRead,
                   reconnectPending, resolvedInterface, appliedMtu, info,
                   helperVars, kernelVars, openconnectVars, now, historyVars>>

\* openconnect reads a command while it waits for the network, and none after
\* it has read a cancellation.
ReadsCommands == stage \in {"auth", "cstp", "mainloop"} /\ ~cancelRead

ReadCancel ==
    /\ ReadsCommands
    /\ pipe # <<>> /\ Head(pipe) = "CANCEL"
    /\ pipe' = Tail(pipe)
    /\ cancelRead' = TRUE
    /\ UNCHANGED <<watchdogVars, stage, result, commandFd, reconnectPending,
                   resolvedInterface, appliedMtu, info, helperVars, kernelVars,
                   openconnectVars, now, historyVars>>

\* A slip: what vpnc-script did is taken back for the time of the reconnect.
ReadPauseAndUndo ==
    /\ ReadsCommands
    /\ pipe # <<>> /\ Head(pipe) = "PAUSE"
    /\ pipe' = Tail(pipe)
    /\ stage' = "paused"
    /\ result' = "0"
    /\ network' = "clean"
    /\ dtls' = IF dtls = "none" THEN "none" ELSE "down"
    /\ upFor' = 0
    /\ UNCHANGED <<watchdogVars, commandFd, cancelRead, reconnectPending,
                   resolvedInterface, appliedMtu, info, helperVars, deviceMtu,
                   probedMtu, now, refreshed, lossAt, probedFor,
                   mtuFailed, cancelWritten>>

\* OC_CMD_PAUSE closes the connections and makes the mainloop return 0.
ReadPause ==
    /\ ReadsCommands
    /\ pipe # <<>> /\ Head(pipe) = "PAUSE"
    /\ pipe' = Tail(pipe)
    /\ stage' = "paused"
    /\ result' = "0"
    /\ dtls' = IF dtls = "none" THEN "none" ELSE "down"
    /\ upFor' = 0
    /\ UNCHANGED <<watchdogVars, commandFd, cancelRead, reconnectPending,
                   resolvedInterface, appliedMtu, info, helperVars, kernelVars,
                   probedMtu, now, refreshed, lossAt, probedFor,
                   mtuFailed, cancelWritten>>

\* openconnect reports an MTU this session has not applied yet.
MtuToCorrect == probedMtu > 0 /\ probedMtu # appliedMtu /\ resolvedInterface

\* A slip: the answer to SetMtu is not looked at.
CorrectMtuUnchecked ==
    /\ appliedMtu' = IF MtuToCorrect THEN probedMtu ELSE appliedMtu
    /\ \/ MtuToCorrect /\ HelperAnswers /\ deviceMtu' = probedMtu /\ mtuFailed' = FALSE
       \/ deviceMtu' = deviceMtu /\ mtuFailed' = MtuToCorrect

\* RefreshFromMainloop asks for an MTU it has not applied yet.  SetMtu may fail: the
\* helper is gone or answers ERR, for an MTU outside its bounds or a device the
\* kernel refuses it for.  Then nothing is noted, and the next refresh tries again.
CorrectMtu ==
    \/ /\ MtuToCorrect /\ HelperAnswers
       /\ deviceMtu' = probedMtu
       /\ appliedMtu' = probedMtu
       /\ mtuFailed' = FALSE
    \/ /\ mtuFailed' = MtuToCorrect
       /\ UNCHANGED <<deviceMtu, appliedMtu>>

\* Slips: the pause is noted and not sent; sent and not noted.
WatchDtlsWithoutPause ==
    /\ Observe(dtls = "up", now)
    /\ reconnectPending' = (reconnectPending \/ verdict' = "Reconnect")
    /\ pipe' = Tail(pipe)
    /\ dtls' = IF verdict' = "Disable" THEN "none" ELSE dtls

WatchDtlsUnannounced ==
    /\ Observe(dtls = "up", now)
    /\ pipe' = IF verdict' = "Reconnect" /\ commandFd = "open"
                 THEN Append(Tail(pipe), "PAUSE")
                 ELSE Tail(pipe)
    /\ dtls' = IF verdict' = "Disable" THEN "none" ELSE dtls
    /\ UNCHANGED reconnectPending

\* WatchDtls: what the session does with the watchdog's verdict.
WatchDtls ==
    /\ Observe(dtls = "up", now)
    /\ reconnectPending' = (reconnectPending \/ verdict' = "Reconnect")
    /\ pipe' = IF verdict' = "Reconnect" /\ commandFd = "open"
                 THEN Append(Tail(pipe), "PAUSE")
                 ELSE Tail(pipe)
    /\ dtls' = IF verdict' = "Disable" THEN "none" ELSE dtls

\* OC_CMD_STATS runs the statistics handler, RefreshFromMainloop.
ReadStats ==
    /\ ReadsCommands
    /\ pipe # <<>> /\ Head(pipe) = "STATS"
    /\ WatchDtls
    /\ info' = [dtlsUp |-> dtls = "up", dtlsDisabled |-> disabled']
    /\ CorrectMtu
    /\ refreshed' = TRUE
    /\ lossAt' = IF verdict' = "Disable" THEN NotLost ELSE lossAt
    /\ UNCHANGED <<stage, result, commandFd, cancelRead, resolvedInterface,
                   helperVars, network, probedMtu, now, upFor,
                   probedFor, cancelWritten>>

-----------------------------------------------------------------------------
(***************************************************************************)
(* RunMainLoop and the destructor.                                         *)
(***************************************************************************)

\* The history of what polls saw ends with the mainloop.
PollsEnd == upFor' = 0 /\ lossAt' = NotLost /\ probedFor' = 0 /\ mtuFailed' = FALSE

\* openconnect_mainloop ends: cancelled, or for a reason of its own.
MainloopEnds ==
    /\ stage = "mainloop"
    /\ result' \in IF cancelRead THEN {"EINTR"} ELSE {"EPERM", "EIO"}
    /\ stage' = "returned"
    /\ UNCHANGED <<watchdogVars, commandFd, pipe, cancelRead, reconnectPending,
                   resolvedInterface, appliedMtu, info, helperVars, kernelVars,
                   openconnectVars, now, refreshed, cancelWritten>>
    /\ PollsEnd

\* A slip: the mainloop is re-entered with an empty pipe.
LeavePauseWithNewPipe ==
    /\ stage = "paused"
    /\ stage' = IF reconnectPending THEN "mainloop" ELSE "returned"
    /\ reconnectPending' = FALSE
    /\ pipe' = <<>>
    /\ lossAt' = IF reconnectPending THEN NotLost ELSE lossAt
    /\ UNCHANGED <<watchdogVars, result, commandFd, cancelRead,
                   resolvedInterface, appliedMtu, info, helperVars, kernelVars,
                   openconnectVars, now, refreshed, upFor, probedFor,
                   mtuFailed, cancelWritten>>

\* The loop of RunMainLoop: after the watchdog's pause it re-enters
\* openconnect_mainloop, which makes a new CONNECT; any other ends the loop.
LeavePause ==
    /\ stage = "paused"
    /\ stage' = IF reconnectPending THEN "mainloop" ELSE "returned"
    /\ reconnectPending' = FALSE
    /\ lossAt' = IF reconnectPending THEN NotLost ELSE lossAt
    /\ UNCHANGED <<watchdogVars, result, commandFd, pipe, cancelRead,
                   resolvedInterface, appliedMtu, info, helperVars, kernelVars,
                   openconnectVars, now, refreshed, upFor, probedFor,
                   mtuFailed, cancelWritten>>

\* RunVpncScript("disconnect"), whose result is not looked at.
UndoConfiguration ==
    network' \in IF HelperAnswers
                    THEN {"clean"} \cup {c \in {"stuck"} : network = "configured"}
                    ELSE {network}

\* A slip: nothing is undone after a Connect that failed.
UndoOnlyAfterMainloop ==
    /\ stage \in {"failed", "returned"}
    /\ WorkerGoesTo("stopping")
    /\ IF resolvedInterface /\ stage = "returned" /\ (UseHelper => helperFd)
         THEN UndoConfiguration /\ resolvedInterface' = FALSE
         ELSE UNCHANGED <<network, resolvedInterface>>
    /\ UNCHANGED <<commandFd, pipe, appliedMtu, watchdogVars, helperVars,
                   deviceMtu, openconnectVars, now, historyVars>>

\* Destroy() first undoes what vpnc-script did, if the helper is thought to be
\* there; IsRunning() does not notice that it died.
RunDisconnectScript ==
    /\ stage \in {"failed", "returned"}
    /\ WorkerGoesTo("stopping")
    /\ IF resolvedInterface /\ (UseHelper => helperFd)
         THEN UndoConfiguration /\ resolvedInterface' = FALSE
         ELSE UNCHANGED <<network, resolvedInterface>>
    /\ UNCHANGED <<commandFd, pipe, appliedMtu, watchdogVars, helperVars,
                   deviceMtu, openconnectVars, now, historyVars>>

\* The requests PrivilegedClient writes to the helper's socket.
WritesToHelper ==
    \/ stage \in {"tun", "script", "stopping"}
    \/ stage \in {"failed", "returned"} /\ resolvedInterface
    \/ /\ ReadsCommands
       /\ pipe # <<>> /\ Head(pipe) = "STATS"
       /\ probedMtu # appliedMtu

\* Writing to a helper that died fails, as the actions above and below have it, or
\* kills the process: nothing in this code handles or ignores SIGPIPE.
KilledBySigpipe ==
    /\ helperFd /\ helperProcess = "exited"
    /\ WritesToHelper
    /\ WorkerGoesTo("killed")
    /\ helperFd' = FALSE
    /\ commandFd' = "none"
    /\ pipe' = <<>>
    /\ deviceMtu' = 0
    /\ UNCHANGED <<resolvedInterface, appliedMtu, watchdogVars, helperProcess,
                   network, openconnectVars, now, historyVars>>

\* Then it says BYE to the helper, forgets the pipe and frees openconnect.
FreeSession ==
    /\ stage = "stopping"
    /\ WorkerGoesTo("gone")
    /\ helperFd' = FALSE
    /\ helperProcess' = IF helperFd /\ helperProcess = "running"
                          THEN "exited" ELSE helperProcess
    /\ commandFd' = "none"
    /\ pipe' = <<>>
    /\ deviceMtu' = 0
    /\ UNCHANGED <<resolvedInterface, appliedMtu, watchdogVars, network,
                   openconnectVars, now, historyVars>>

-----------------------------------------------------------------------------
(***************************************************************************)
(* The environment.                                                        *)
(***************************************************************************)

AnswerPolkit ==
    /\ helperProcess = "asking"
    /\ \E answer \in PolkitAnswers :
         helperProcess' = IF answer = "granted" THEN "running" ELSE "exited"
    /\ UNCHANGED <<watchdogVars, sessionVars, helperFd, kernelVars,
                   openconnectVars, now, historyVars>>

\* A helper may crash or be killed while the tunnel is up.
HelperDies ==
    /\ helperFd /\ helperProcess = "running"
    /\ helperProcess' = "exited"
    /\ UNCHANGED <<watchdogVars, sessionVars, helperFd, kernelVars,
                   openconnectVars, now, historyVars>>

DtlsComesUp ==
    /\ stage = "mainloop"
    /\ dtls = "down"
    /\ dtls' = "up"
    /\ upFor' = 0
    /\ lossAt' = NotLost
    /\ UNCHANGED <<watchdogVars, sessionVars, helperVars, kernelVars, probedMtu,
                   now, refreshed, probedFor, mtuFailed, cancelWritten>>

\* A loss counts when DTLS had been up for two polls, so that any front end that
\* polls has reported it; of a shorter one the session need not know.
DtlsDrops ==
    /\ stage = "mainloop"
    /\ dtls = "up"
    /\ dtls' = "down"
    /\ lossAt' = IF upFor = 2 THEN now ELSE NotLost
    /\ upFor' = 0
    /\ UNCHANGED <<watchdogVars, sessionVars, helperVars, kernelVars, probedMtu,
                   now, refreshed, probedFor, mtuFailed, cancelWritten>>

ProbeMtu ==
    /\ stage = "mainloop"
    /\ \E mtu \in Mtus \ {probedMtu} : probedMtu' = mtu
    /\ probedFor' = 0
    /\ mtuFailed' = FALSE
    /\ UNCHANGED <<watchdogVars, sessionVars, helperVars, kernelVars, dtls, now,
                   refreshed, upFor, lossAt, cancelWritten>>

OneMore(polls) == IF polls < 2 THEN polls + 1 ELSE polls

\* Time is only looked at in the mainloop.  A tick is one poll: openconnect
\* reads what is in the pipe before the next, and a front end that polls has
\* had its refresh by then.
Tick ==
    /\ stage = "mainloop" /\ ~cancelRead
    /\ now < Horizon
    /\ pipe = <<>>
    /\ UseHelper /\ commandFd = "open" => refreshed
    /\ now' = now + 1
    /\ refreshed' = FALSE
    /\ upFor' = IF dtls = "up" THEN OneMore(upFor) ELSE 0
    /\ probedFor' = IF deviceMtu # probedMtu /\ ~mtuFailed
                      THEN OneMore(probedFor) ELSE 0
    /\ UNCHANGED <<watchdogVars, sessionVars, helperVars, kernelVars,
                   openconnectVars, lossAt, mtuFailed, cancelWritten>>

-----------------------------------------------------------------------------
Connecting ==
    \/ RefuseOptions \/ OpenCommandPipe \/ PromptUser \/ ObtainCookie
    \/ AcceptHelper \/ MakeCstpConnection \/ SetupTun \/ RunConnectScript
    \/ EnterMainLoop \/ FailInOpenconnect

ReadCommand == ReadCancel \/ ReadPause \/ ReadStats

Ending ==
    \/ MainloopEnds \/ LeavePause \/ RunDisconnectScript \/ FreeSession
    \/ KilledBySigpipe

Environment ==
    \/ AnswerPrompt \/ AnswerPolkit \/ HelperDies
    \/ DtlsComesUp \/ DtlsDrops \/ ProbeMtu \/ Tick

Next == Connecting \/ Cancel \/ RequestRefresh \/ ReadCommand \/ Ending
        \/ Environment

Spec == Init /\ [][Next]_vars

\* The worker runs and openconnect's calls return once they are cancelled; the
\* user and polkit answer; a pipe that is polled in every network wait is read.
Fairness ==
    /\ WF_vars(RefuseOptions \/ OpenCommandPipe)
    /\ WF_vars(AnswerPrompt)
    /\ WF_vars(AnswerPolkit)
    /\ WF_vars(AcceptHelper \/ SetupTun \/ RunConnectScript \/ EnterMainLoop)
    /\ WF_vars(cancelRead /\ (FailInOpenconnect \/ MainloopEnds))
    /\ WF_vars(LeavePause)
    /\ WF_vars(RunDisconnectScript \/ FreeSession)
    /\ SF_vars(ReadCommand)

FairSpec == Spec /\ Fairness

-----------------------------------------------------------------------------
(***************************************************************************)
(* What the session promises.                                              *)
(***************************************************************************)

\* With the GUI, a DTLS that lasted and went away is answered within the grace
\* plus one poll: DTLS returned, the mainloop was re-entered, or DTLS was given
\* up (docs/CLAVISTER.md:84 and 97, vpn_session.hpp:433-497).
LossAnsweredInTime ==
    UseHelper /\ stage = "mainloop" /\ commandFd = "open" /\ lossAt # NotLost =>
        now - lossAt <= LostGraceSeconds + 1

\* With the GUI, the tun device follows a probed MTU by the next poll, or the
\* latest refresh asked for that MTU and SetMtu failed: a failure is never taken for
\* a correction, and is tried again at every refresh (vpn_session.hpp:456-469,
\* main_helper.cpp:127-137).
MtuCorrectedInTime ==
    UseHelper /\ stage = "mainloop" /\ commandFd = "open" =>
        deviceMtu = probedMtu \/ probedFor <= 1 \/ mtuFailed

\* The watchdog's pause is never taken for the end of the session: RunMainLoop
\* does not return 0 (vpn_session.hpp:231-249).
PauseNeverEndsSession ==
    stage \in {"returned", "stopping", "gone"} => result # "0"

\* Whatever way the session ends, vpnc-script is run again for the routes and DNS
\* it installed, unless the helper that could do it is dead
\* (vpn_session.hpp:393-402, the failed SetupTun of 337-340 included).
NoConfigLeftBehind ==
    stage \in {"stopping", "gone", "killed"} /\ network = "configured" =>
        UseHelper /\ helperProcess = "exited"

\* A Cancel() that reached the pipe ends the session, whatever the worker was
\* doing: no prompt, pause or re-entry swallows it (vpn_session.hpp:254-257).
CancelEndsSession == cancelWritten ~> stage \in {"gone", "killed"}

\* PrivilegedClient::Start returns once polkit has been answered, a dismissed
\* prompt included (privileged_client.hpp:44-45).
HelperStartReturns == stage = "helper" ~> stage # "helper"

\* The session as its front ends see it.
Phase ==
    CASE stage \in {"mainloop", "paused"} -> "up"
      [] stage \in {"failed", "returned", "stopping"} -> "ending"
      [] stage \in {"gone", "killed"} -> "over"
      [] OTHER -> "connecting"

CanEnd == Phase \in {"connecting", "up"}

Life ==
    [phase |-> Phase, network |-> network, reachable |-> helperProcess # "exited",
     hears |-> CanEnd /\ commandFd # "none", cancelled |-> CanEnd /\ cancelWritten]

Lifecycle == INSTANCE SessionLifecycle WITH life <- Life

\* Whatever openconnect, the helper, the user and the network do, the session is
\* one its front ends can rely on: routes and DNS are its own exactly from
\* vpnc-script's run in Connect to the destructor's, and it only hears a Cancel()
\* after its pipe was made (vpn_session.hpp:84-264 and 393-411).
ImplementsLifecycle == Lifecycle!Spec

=============================================================================
