--------------------------- MODULE VpnSessionProofs ---------------------------
(***************************************************************************)
(* Proofs about VpnSession for any spans, MTUs, horizon and bound of the   *)
(* pipe: types, the pauses the watchdog asks for, what is left of routes   *)
(* and DNS, what becomes of a cancellation, how long losses and MTUs wait, *)
(* and that a session lives a life of SessionLifecycle.                    *)
(***************************************************************************)
EXTENDS VpnSession, SequenceTheorems, TLAPS

\* The types in two halves: where everybody is, and what they hold.
WorkerTypes ==
    /\ stage \in Stages
    /\ result \in Results \cup {"none"}
    /\ commandFd \in {"open", "none"}
    /\ {cancelRead, reconnectPending, resolvedInterface, helperFd} \subseteq BOOLEAN
    /\ helperProcess \in {"unused", "none", "asking", "running", "exited"}
    /\ network \in {"clean", "configured", "stuck"}
    /\ dtls \in {"none", "down", "up"}

DataTypes ==
    /\ WatchdogTypeOK
    /\ pipe \in Seq(Commands)
    /\ info \in [dtlsUp : BOOLEAN, dtlsDisabled : BOOLEAN]
    /\ {appliedMtu, deviceMtu, probedMtu} \subseteq Mtus \cup {0}
    /\ now \in Nat /\ lossAt \in Nat \cup {NotLost}
    /\ upFor \in 0..2 /\ probedFor \in 0..2
    /\ {refreshed, cancelWritten} \subseteq BOOLEAN /\ mtuFailed \in BOOLEAN

\* Together the halves are the type invariant.
LEMMA TypesInHalves == TypeOK <=> WorkerTypes /\ DataTypes
BY DEF TypeOK, WorkerTypes, DataTypes

\* The watchdog keeps its types whatever it observes.
LEMMA WatchdogTypes ==
    ASSUME WatchdogTypeOK, now \in Nat, NEW e \in BOOLEAN, Observe(e, now)
    PROVE  WatchdogTypeOK'
BY DEF WatchdogTypeOK, Observe, ObserveDisabled, ObserveUp, ObserveDown,
       ObserveNothingToRecover, ObserveLossBegins, ObserveWithinGrace, ObserveGiveUp,
       ObserveReconnect, LossOutlastsGrace, NotLost, DtlsAction

\* A new session has the types.
LEMMA InitTypes == Init => TypeOK
<1> SUFFICES ASSUME Init PROVE TypeOK
  OBVIOUS
<1>1. WatchdogTypeOK
  BY DEF Init, WatchdogInit, WatchdogTypeOK, DtlsAction
<1>2. pipe \in Seq(Commands)
  BY DEF Init
<1>3. helperProcess \in {"unused", "none", "asking", "running", "exited"}
  BY DEF Init
<1>4. info \in [dtlsUp : BOOLEAN, dtlsDisabled : BOOLEAN]
  BY DEF Init
<1>5. stage \in Stages /\ result \in Results \cup {"none"}
  BY DEF Init, Stages
<1>6. {appliedMtu, deviceMtu, probedMtu} \subseteq Mtus \cup {0}
  BY DEF Init
<1>7. /\ commandFd \in {"open", "none"} /\ network \in {"clean", "configured", "stuck"}
      /\ dtls \in {"none", "down", "up"} /\ helperFd \in BOOLEAN
      /\ {cancelRead, reconnectPending, resolvedInterface, refreshed, cancelWritten}
           \subseteq BOOLEAN
  BY DEF Init
<1>8. /\ now \in Nat /\ upFor \in 0..2 /\ probedFor \in 0..2
      /\ lossAt \in Nat \cup {NotLost}
  BY DEF Init
<1>9. mtuFailed \in BOOLEAN
  BY Zenon DEF Init
<1>10. QED
  BY <1>1, <1>2, <1>3, <1>4, <1>5, <1>6, <1>7, <1>8, <1>9 DEF TypeOK

\* Every step keeps where everybody is in its types.
LEMMA StepWorkerTypes ==
    ASSUME WorkerTypes, Next
    PROVE  WorkerTypes'
<1> USE DEF WorkerTypes, WorkerGoesTo, Stages, Results, sessionVars, helperVars, kernelVars,
        openconnectVars, historyVars
<1>1. CASE RefuseOptions
  BY <1>1 DEF RefuseOptions
<1>2. CASE OpenCommandPipe
  BY <1>2 DEF OpenCommandPipe
<1>3. CASE PromptUser
  BY <1>3 DEF PromptUser
<1>4. CASE ObtainCookie
  BY <1>4 DEF ObtainCookie
<1>5. CASE AcceptHelper
  BY <1>5 DEF AcceptHelper
<1>6. CASE MakeCstpConnection
  BY <1>6 DEF MakeCstpConnection
<1>7. CASE SetupTun
  BY <1>7 DEF SetupTun
<1>8. CASE RunConnectScript
  BY <1>8 DEF RunConnectScript
<1>9. CASE EnterMainLoop
  BY <1>9 DEF EnterMainLoop
<1>10. CASE FailInOpenconnect
  BY <1>10 DEF FailInOpenconnect
<1>11. CASE Cancel
  BY <1>11 DEF Cancel, SendCommand
<1>12. CASE RequestRefresh
  BY <1>12 DEF RequestRefresh, SendCommand
<1>13. CASE ReadCancel
  BY <1>13 DEF ReadCancel
<1>14. CASE ReadPause
  BY <1>14 DEF ReadPause
<1>15. CASE ReadStats
  BY <1>15 DEF ReadStats, WatchDtls
<1>16. CASE MainloopEnds
  BY <1>16 DEF MainloopEnds, PollsEnd
<1>17. CASE LeavePause
  BY <1>17 DEF LeavePause
<1>18. CASE RunDisconnectScript
  BY <1>18 DEF RunDisconnectScript, UndoConfiguration
<1>19. CASE FreeSession
  BY <1>19 DEF FreeSession
<1>20. CASE KilledBySigpipe
  BY <1>20 DEF KilledBySigpipe
<1>21. CASE AnswerPrompt
  BY <1>21 DEF AnswerPrompt
<1>22. CASE AnswerPolkit
  BY <1>22 DEF AnswerPolkit
<1>23. CASE HelperDies
  BY <1>23 DEF HelperDies
<1>24. CASE DtlsComesUp
  BY <1>24 DEF DtlsComesUp
<1>25. CASE DtlsDrops
  BY <1>25 DEF DtlsDrops
<1>26. CASE ProbeMtu
  BY <1>26 DEF ProbeMtu
<1>27. CASE Tick
  BY <1>27 DEF Tick
<1>28. QED
  BY <1>1, <1>2, <1>3, <1>4, <1>5, <1>6, <1>7, <1>8, <1>9, <1>10, <1>11, <1>12, <1>13,
     <1>14, <1>15, <1>16, <1>17, <1>18, <1>19, <1>20, <1>21, <1>22, <1>23, <1>24,
     <1>25, <1>26, <1>27
     DEF Next, Connecting, ReadCommand, Ending, Environment

\* Every step keeps what the worker and openconnect hold in its types.
LEMMA StepDataTypes ==
    ASSUME SessionAssumption, WorkerTypes, DataTypes, Next
    PROVE  DataTypes'
<1> USE DEF DataTypes, WatchdogTypeOK, WorkerGoesTo, watchdogVars, sessionVars,
        helperVars, kernelVars, openconnectVars, historyVars
<1>1. CASE RefuseOptions
  BY <1>1 DEF RefuseOptions
<1>2. CASE OpenCommandPipe
  BY <1>2 DEF OpenCommandPipe
<1>3. CASE PromptUser
  BY <1>3 DEF PromptUser
<1>4. CASE ObtainCookie
  BY <1>4 DEF ObtainCookie
<1>5. CASE AcceptHelper
  BY <1>5 DEF AcceptHelper
<1>6. CASE MakeCstpConnection
  BY <1>6, SessionAssumption DEF MakeCstpConnection, SessionAssumption
<1>7. CASE SetupTun
  BY <1>7 DEF SetupTun
<1>8. CASE RunConnectScript
  BY <1>8, SessionAssumption DEF RunConnectScript, SessionAssumption
<1>9. CASE EnterMainLoop
  BY <1>9 DEF EnterMainLoop
<1>10. CASE FailInOpenconnect
  BY <1>10 DEF FailInOpenconnect
<1>11. CASE Cancel
  <2>1. pipe' \in Seq(Commands)
    BY <1>11 DEF Cancel, SendCommand, Commands
  <2>2. QED
    BY <1>11, <2>1 DEF Cancel
<1>12. CASE RequestRefresh
  <2>1. pipe' \in Seq(Commands)
    BY <1>12 DEF RequestRefresh, SendCommand, Commands
  <2>2. QED
    BY <1>12, <2>1 DEF RequestRefresh
<1>13. CASE ReadCancel
  <2>1. pipe' \in Seq(Commands)
    BY <1>13 DEF ReadCancel
  <2>2. QED
    BY <1>13, <2>1 DEF ReadCancel
<1>14. CASE ReadPause
  <2>1. pipe' \in Seq(Commands)
    BY <1>14 DEF ReadPause
  <2>2. QED
    BY <1>14, <2>1 DEF ReadPause
<1>15. CASE ReadStats
  <2>1. pipe' \in Seq(Commands)
    BY <1>15 DEF ReadStats, WatchDtls, Commands
  <2>2. WatchdogTypeOK'
    <3>1. WatchdogTypeOK /\ now \in Nat /\ Observe(dtls = "up", now)
      BY <1>15 DEF ReadStats, WatchDtls
    <3>2. QED
      BY <3>1, WatchdogTypes
  <2>3. {appliedMtu, deviceMtu, probedMtu}' \subseteq Mtus \cup {0}
    BY <1>15 DEF ReadStats, CorrectMtu
  <2>4. info' \in [dtlsUp : BOOLEAN, dtlsDisabled : BOOLEAN]
    BY <1>15, <2>2 DEF ReadStats
  <2>5. /\ lossAt' \in Nat \cup {NotLost} /\ refreshed' \in BOOLEAN
        /\ now' = now /\ upFor' = upFor /\ probedFor' = probedFor
        /\ cancelWritten' = cancelWritten /\ mtuFailed' \in BOOLEAN
    BY <1>15 DEF ReadStats, CorrectMtu, MtuToCorrect
  <2>6. QED
    BY <2>1, <2>2, <2>3, <2>4, <2>5 DEF WatchdogTypeOK
<1>16. CASE MainloopEnds
  <2>1. mtuFailed' \in BOOLEAN
    BY <1>16, Zenon DEF MainloopEnds, PollsEnd
  <2>2. QED
    BY <1>16, <2>1 DEF MainloopEnds, PollsEnd
<1>17. CASE LeavePause
  BY <1>17 DEF LeavePause
<1>18. CASE RunDisconnectScript
  BY <1>18 DEF RunDisconnectScript
<1>19. CASE FreeSession
  BY <1>19 DEF FreeSession
<1>20. CASE KilledBySigpipe
  BY <1>20 DEF KilledBySigpipe
<1>21. CASE AnswerPrompt
  BY <1>21 DEF AnswerPrompt
<1>22. CASE AnswerPolkit
  BY <1>22 DEF AnswerPolkit
<1>23. CASE HelperDies
  BY <1>23 DEF HelperDies
<1>24. CASE DtlsComesUp
  BY <1>24 DEF DtlsComesUp
<1>25. CASE DtlsDrops
  BY <1>25 DEF DtlsDrops
<1>26. CASE ProbeMtu
  <2>1. mtuFailed' \in BOOLEAN
    BY <1>26, Zenon DEF ProbeMtu
  <2>2. QED
    BY <1>26, <2>1 DEF ProbeMtu
<1>27. CASE Tick
  <2>1. upFor' \in 0..2 /\ probedFor' \in 0..2 /\ now' \in Nat
    BY <1>27 DEF Tick, OneMore
  <2>2. QED
    BY <1>27, <2>1 DEF Tick
<1>28. QED
  BY <1>1, <1>2, <1>3, <1>4, <1>5, <1>6, <1>7, <1>8, <1>9, <1>10, <1>11, <1>12, <1>13,
     <1>14, <1>15, <1>16, <1>17, <1>18, <1>19, <1>20, <1>21, <1>22, <1>23, <1>24,
     <1>25, <1>26, <1>27
     DEF Next, Connecting, ReadCommand, Ending, Environment

\* The type invariant of the session (vpn_session.hpp:84-411), for every MTU, span
\* and bound.
THEOREM TypeCorrect == Spec => []TypeOK
<1>1. TypeOK /\ [Next]_vars => TypeOK'
  <2> SUFFICES ASSUME TypeOK, [Next]_vars
               PROVE  WorkerTypes' /\ DataTypes'
    BY DEF TypeOK, WorkerTypes, DataTypes
  <2>1. CASE Next
    BY <2>1, TypesInHalves, StepWorkerTypes, StepDataTypes, SessionAssumption
  <2>2. CASE UNCHANGED vars
    BY <2>2, TypesInHalves DEF WorkerTypes, DataTypes, WatchdogTypeOK, vars, watchdogVars,
       sessionVars, helperVars, kernelVars, openconnectVars, historyVars
  <2>3. QED
    BY <2>1, <2>2
<1>2. QED
  BY <1>1, InitTypes, PTL DEF Spec

-----------------------------------------------------------------------------
(***************************************************************************)
(* Where the routes and DNS are configured, and by whom.                   *)
(***************************************************************************)

Unconfigured == {"new", "auth", "prompt", "helper", "cstp", "tun", "script"}
Configured == {"ready", "mainloop", "paused", "returned"}

NetworkInv ==
    /\ stage = "new" => commandFd = "none"
    /\ stage \in Unconfigured => network = "clean"
    /\ stage \in Configured =>
         network = "configured" /\ resolvedInterface /\ (UseHelper => helperFd)
    /\ stage = "script" => resolvedInterface
    /\ stage = "failed" /\ network # "clean" =>
         network = "configured" /\ resolvedInterface /\ (UseHelper => helperFd)
    /\ stage \in {"stopping", "gone", "killed"} /\ network = "configured" =>
         helperProcess = "exited"
    /\ helperFd => helperProcess \in {"running", "exited"} /\ stage \notin {"gone", "killed"}
    /\ helperProcess = "asking" => stage = "helper"
    /\ stage \in {"new", "auth", "prompt", "helper"} => ~helperFd
    /\ stage \in {"new", "auth", "prompt"} => helperProcess \in {"unused", "none"}

-----------------------------------------------------------------------------
(***************************************************************************)
(* The watchdog's pauses.                                                  *)
(***************************************************************************)

HasPause(commands) == \E i \in 1..Len(commands) : commands[i] = "PAUSE"
OnePause(commands) ==
    \A i, j \in 1..Len(commands) : commands[i] = "PAUSE" /\ commands[j] = "PAUSE" => i = j

BeforeMainloop == Unconfigured \cup {"ready"}

PauseInv ==
    /\ stage \in BeforeMainloop \cup {"failed"} => result = "none"
    /\ stage \in BeforeMainloop => dtls = "none" /\ ~seenUp /\ ~HasPause(pipe)
    /\ HasPause(pipe) => reconnectPending /\ lastReconnect = now
    /\ OnePause(pipe)
    /\ stage = "paused" => reconnectPending /\ ~HasPause(pipe)
    /\ stage \in {"returned", "stopping", "gone"} => result # "0"

\* Only the mainloop reads a pause.
LEMMA PauseReadInMainloop ==
    ASSUME DataTypes, PauseInv, ReadPause
    PROVE  HasPause(pipe) /\ stage = "mainloop"
<1>1. HasPause(pipe)
  <2>1. Len(pipe) \in Nat /\ Len(pipe) > 0 /\ pipe[1] = "PAUSE"
    BY DEF ReadPause, DataTypes
  <2>2. 1 \in 1..Len(pipe)
    BY <2>1
  <2>3. QED
    BY <2>1, <2>2 DEF HasPause
<1>2. QED
  BY <1>1 DEF ReadPause, ReadsCommands, PauseInv, BeforeMainloop, Unconfigured

\* Every step keeps what is known of the routes, the helper and the stage.
LEMMA StepNetwork ==
    ASSUME WorkerTypes, DataTypes, NetworkInv, PauseInv, Next
    PROVE  NetworkInv'
<1> USE DEF WorkerTypes, Stages, NetworkInv, Unconfigured, Configured, UseHelper,
        WorkerGoesTo, sessionVars, helperVars, kernelVars, openconnectVars, historyVars
<1>1. CASE RefuseOptions
  BY <1>1 DEF RefuseOptions
<1>2. CASE OpenCommandPipe
  BY <1>2 DEF OpenCommandPipe
<1>3. CASE PromptUser
  BY <1>3 DEF PromptUser
<1>4. CASE ObtainCookie
  BY <1>4 DEF ObtainCookie
<1>5. CASE AcceptHelper
  BY <1>5 DEF AcceptHelper
<1>6. CASE MakeCstpConnection
  BY <1>6 DEF MakeCstpConnection
<1>7. CASE SetupTun
  BY <1>7 DEF SetupTun, HelperAnswers
<1>8. CASE RunConnectScript
  BY <1>8 DEF RunConnectScript, HelperAnswers
<1>9. CASE EnterMainLoop
  BY <1>9 DEF EnterMainLoop
<1>10. CASE FailInOpenconnect
  BY <1>10 DEF FailInOpenconnect
<1>11. CASE Cancel
  BY <1>11 DEF Cancel
<1>12. CASE RequestRefresh
  BY <1>12 DEF RequestRefresh
<1>13. CASE ReadCancel
  BY <1>13 DEF ReadCancel
<1>14. CASE ReadPause
  BY <1>14, PauseReadInMainloop DEF ReadPause
<1>15. CASE ReadStats
  BY <1>15 DEF ReadStats, WatchDtls
<1>16. CASE MainloopEnds
  BY <1>16 DEF MainloopEnds, PollsEnd
<1>17. CASE LeavePause
  BY <1>17 DEF LeavePause
<1>18. CASE RunDisconnectScript
  BY <1>18 DEF RunDisconnectScript, UndoConfiguration, HelperAnswers
<1>19. CASE FreeSession
  BY <1>19 DEF FreeSession
<1>20. CASE KilledBySigpipe
  BY <1>20 DEF KilledBySigpipe, WritesToHelper, ReadsCommands
<1>21. CASE AnswerPrompt
  BY <1>21 DEF AnswerPrompt
<1>22. CASE AnswerPolkit
  BY <1>22 DEF AnswerPolkit
<1>23. CASE HelperDies
  BY <1>23 DEF HelperDies
<1>24. CASE DtlsComesUp
  BY <1>24 DEF DtlsComesUp
<1>25. CASE DtlsDrops
  BY <1>25 DEF DtlsDrops
<1>26. CASE ProbeMtu
  BY <1>26 DEF ProbeMtu
<1>27. CASE Tick
  BY <1>27 DEF Tick
<1>28. QED
  BY <1>1, <1>2, <1>3, <1>4, <1>5, <1>6, <1>7, <1>8, <1>9, <1>10, <1>11, <1>12, <1>13,
     <1>14, <1>15, <1>16, <1>17, <1>18, <1>19, <1>20, <1>21, <1>22, <1>23, <1>24,
     <1>25, <1>26, <1>27
     DEF Next, Connecting, ReadCommand, Ending, Environment

\* What appending to the pipe and reading from it do to the pauses in it.
LEMMA EmptyPauses == ~HasPause(<<>>) /\ OnePause(<<>>)
BY DEF HasPause, OnePause

LEMMA OtherAppended ==
    ASSUME NEW q \in Seq(Commands), NEW c \in Commands \ {"PAUSE"}
    PROVE  /\ HasPause(Append(q, c)) => HasPause(q)
           /\ OnePause(q) => OnePause(Append(q, c))
BY DEF HasPause, OnePause

LEMMA PauseAppended ==
    ASSUME NEW q \in Seq(Commands), ~HasPause(q)
    PROVE  OnePause(Append(q, "PAUSE"))
BY DEF HasPause, OnePause

LEMMA FirstTaken ==
    ASSUME NEW q \in Seq(Commands), q # <<>>
    PROVE  /\ HasPause(Tail(q)) => HasPause(q)
           /\ OnePause(q) => OnePause(Tail(q))
           /\ OnePause(q) /\ Head(q) = "PAUSE" => ~HasPause(Tail(q))
BY DEF HasPause, OnePause

\* A reconnect is asked for when the last is not recent, and after a DTLS.
LEMMA Verdicts ==
    ASSUME SpansAssumption, WatchdogTypeOK, now \in Nat, NEW e \in BOOLEAN, Observe(e, now)
    PROVE  /\ verdict' = "Reconnect" => lastReconnect' = now /\ lastReconnect # now
           /\ verdict' # "Reconnect" => lastReconnect' = lastReconnect
           /\ ~seenUp /\ ~e => ~seenUp' /\ verdict' = "None"
BY DEF SpansAssumption, WatchdogTypeOK, Observe, ObserveDisabled, ObserveUp, ObserveDown,
       ObserveNothingToRecover, ObserveLossBegins, ObserveWithinGrace, ObserveGiveUp,
       ObserveReconnect, LossOutlastsGrace, ReconnectedRecently, RecoverableLoss, NotLost,
       DtlsAction

\* Every step keeps at most one pause in the pipe, announced by reconnectPending.
LEMMA StepPauses ==
    ASSUME SpansAssumption, WorkerTypes, DataTypes, NetworkInv, PauseInv, Next
    PROVE  PauseInv'
<1> USE DEF PauseInv, BeforeMainloop, Unconfigured, WorkerGoesTo, watchdogVars,
        sessionVars, helperVars, kernelVars, openconnectVars, historyVars
<1>1. CASE RefuseOptions
  BY <1>1 DEF RefuseOptions
<1>2. CASE OpenCommandPipe
  BY <1>2 DEF OpenCommandPipe
<1>3. CASE PromptUser
  BY <1>3 DEF PromptUser
<1>4. CASE ObtainCookie
  BY <1>4 DEF ObtainCookie
<1>5. CASE AcceptHelper
  BY <1>5 DEF AcceptHelper
<1>6. CASE MakeCstpConnection
  BY <1>6 DEF MakeCstpConnection
<1>7. CASE SetupTun
  BY <1>7 DEF SetupTun
<1>8. CASE RunConnectScript
  BY <1>8 DEF RunConnectScript
<1>9. CASE EnterMainLoop
  BY <1>9 DEF EnterMainLoop
<1>10. CASE FailInOpenconnect
  BY <1>10 DEF FailInOpenconnect
<1>11. CASE Cancel
  <2>1. pipe' = pipe \/ pipe' = Append(pipe, "CANCEL")
    BY <1>11 DEF Cancel, SendCommand
  <2>2. (HasPause(pipe') => HasPause(pipe)) /\ OnePause(pipe')
    <3>1. "CANCEL" \in Commands \ {"PAUSE"} /\ "STATS" \in Commands \ {"PAUSE"}
      BY DEF Commands
    <3>2. pipe \in Seq(Commands) /\ OnePause(pipe)
      BY DEF DataTypes
    <3>3. \A c \in Commands \ {"PAUSE"} :
            /\ HasPause(Append(pipe, c)) => HasPause(pipe)
            /\ OnePause(Append(pipe, c))
      BY <3>2, OtherAppended
    <3>4. QED
      BY <2>1, <3>1, <3>2, <3>3
  <2>3. QED
    BY <1>11, <2>2 DEF Cancel
<1>12. CASE RequestRefresh
  <2>1. pipe' = pipe \/ pipe' = Append(pipe, "STATS")
    BY <1>12 DEF RequestRefresh, SendCommand
  <2>2. (HasPause(pipe') => HasPause(pipe)) /\ OnePause(pipe')
    <3>1. "CANCEL" \in Commands \ {"PAUSE"} /\ "STATS" \in Commands \ {"PAUSE"}
      BY DEF Commands
    <3>2. pipe \in Seq(Commands) /\ OnePause(pipe)
      BY DEF DataTypes
    <3>3. \A c \in Commands \ {"PAUSE"} :
            /\ HasPause(Append(pipe, c)) => HasPause(pipe)
            /\ OnePause(Append(pipe, c))
      BY <3>2, OtherAppended
    <3>4. QED
      BY <2>1, <3>1, <3>2, <3>3
  <2>3. QED
    BY <1>12, <2>2 DEF RequestRefresh
<1>13. CASE ReadCancel
  <2>1. (HasPause(pipe') => HasPause(pipe)) /\ OnePause(pipe')
    BY <1>13, FirstTaken DEF ReadCancel, DataTypes
  <2>2. QED
    BY <1>13, <2>1 DEF ReadCancel
<1>14. CASE ReadPause
  <2>1. HasPause(pipe)
    BY <1>14, PauseReadInMainloop
  <2>2. ~HasPause(pipe') /\ OnePause(pipe')
    BY <1>14, FirstTaken DEF ReadPause, DataTypes
  <2>3. QED
    BY <1>14, <2>1, <2>2 DEF ReadPause
<1>15. CASE ReadStats
  <2>1. /\ WatchDtls /\ pipe # <<>>
        /\ UNCHANGED <<stage, result, commandFd, now>>
    BY <1>15 DEF ReadStats
  <2>2. /\ Observe(dtls = "up", now) /\ (dtls = "up") \in BOOLEAN
        /\ WatchdogTypeOK /\ now \in Nat /\ pipe \in Seq(Commands)
    BY <2>1 DEF WatchDtls, DataTypes
  <2>3. /\ verdict' = "Reconnect" => lastReconnect' = now /\ lastReconnect # now
        /\ verdict' # "Reconnect" => lastReconnect' = lastReconnect
        /\ ~seenUp /\ dtls # "up" => ~seenUp' /\ verdict' = "None"
    BY <2>2, Verdicts
  <2>4. (HasPause(Tail(pipe)) => HasPause(pipe)) /\ OnePause(Tail(pipe))
    BY <2>1, <2>2, FirstTaken
  <2>5. CASE verdict' = "Reconnect"
    <3>1. ~HasPause(Tail(pipe)) /\ stage \notin BeforeMainloop
      BY <2>3, <2>4, <2>5
    <3>2. OnePause(pipe')
      <4>1. Tail(pipe) \in Seq(Commands)
        BY <2>1, <2>2
      <4>2. OnePause(Append(Tail(pipe), "PAUSE"))
        BY <3>1, <4>1, PauseAppended
      <4>3. QED
        BY <2>1, <2>4, <4>2 DEF WatchDtls
    <3>3. reconnectPending' /\ lastReconnect' = now'
      BY <2>1, <2>3, <2>5 DEF WatchDtls
    <3>4. stage # "paused"
      BY <1>15 DEF ReadStats, ReadsCommands
    <3>5. QED
      BY <2>1, <3>1, <3>2, <3>3, <3>4
  <2>6. CASE verdict' # "Reconnect"
    <3>1. pipe' = Tail(pipe)
      BY <2>1, <2>6 DEF WatchDtls
    <3>2. reconnectPending => reconnectPending'
      BY <2>1 DEF WatchDtls
    <3>3. dtls = "none" => dtls' = "none"
      BY <2>1 DEF WatchDtls
    <3>4. QED
      BY <2>1, <2>3, <2>4, <2>6, <3>1, <3>2, <3>3
  <2>7. QED
    BY <2>5, <2>6
<1>16. CASE MainloopEnds
  BY <1>16 DEF MainloopEnds, PollsEnd
<1>17. CASE LeavePause
  BY <1>17 DEF LeavePause
<1>18. CASE RunDisconnectScript
  BY <1>18 DEF RunDisconnectScript
<1>19. CASE FreeSession
  BY <1>19, EmptyPauses DEF FreeSession
<1>20. CASE KilledBySigpipe
  BY <1>20, EmptyPauses DEF KilledBySigpipe
<1>21. CASE AnswerPrompt
  BY <1>21 DEF AnswerPrompt
<1>22. CASE AnswerPolkit
  BY <1>22 DEF AnswerPolkit
<1>23. CASE HelperDies
  BY <1>23 DEF HelperDies
<1>24. CASE DtlsComesUp
  BY <1>24 DEF DtlsComesUp
<1>25. CASE DtlsDrops
  BY <1>25 DEF DtlsDrops
<1>26. CASE ProbeMtu
  BY <1>26 DEF ProbeMtu
<1>27. CASE Tick
  <2>1. ~HasPause(pipe)
    BY <1>27, EmptyPauses DEF Tick
  <2>2. QED
    BY <1>27, <2>1 DEF Tick
<1>28. QED
  BY <1>1, <1>2, <1>3, <1>4, <1>5, <1>6, <1>7, <1>8, <1>9, <1>10, <1>11, <1>12, <1>13,
     <1>14, <1>15, <1>16, <1>17, <1>18, <1>19, <1>20, <1>21, <1>22, <1>23, <1>24,
     <1>25, <1>26, <1>27
     DEF Next, Connecting, ReadCommand, Ending, Environment

-----------------------------------------------------------------------------
(***************************************************************************)
(* The theorems.                                                           *)
(***************************************************************************)

SessionInv == TypeOK /\ NetworkInv /\ PauseInv

\* A new session satisfies the inductive invariant.
LEMMA InitSession == Init => SessionInv
<1> SUFFICES ASSUME Init PROVE SessionInv
  OBVIOUS
<1>1. NetworkInv
  BY DEF Init, NetworkInv, Unconfigured, Configured, UseHelper
<1>2. PauseInv
  BY EmptyPauses DEF Init, WatchdogInit, PauseInv, BeforeMainloop, Unconfigured
<1>3. QED
  BY <1>1, <1>2, InitTypes DEF SessionInv

\* What a session does keeps the inductive invariant, for every MTU, span and
\* bound: the types, where the configuration stands at each stage, and the
\* watchdog's pauses.
THEOREM Invariance == Spec => []SessionInv
<1>1. SessionInv /\ [Next]_vars => SessionInv'
  <2> SUFFICES ASSUME SessionInv, [Next]_vars
               PROVE  SessionInv'
    OBVIOUS
  <2>1. WorkerTypes /\ DataTypes /\ NetworkInv /\ PauseInv
    BY TypesInHalves DEF SessionInv
  <2>2. CASE Next
    <3>1. WorkerTypes' /\ DataTypes' /\ NetworkInv' /\ PauseInv'
      BY <2>1, <2>2, StepWorkerTypes, StepDataTypes, StepNetwork, StepPauses,
         SessionAssumption, SpansAssumption
    <3>2. TypeOK'
      BY <3>1 DEF TypeOK, WorkerTypes, DataTypes
    <3>3. QED
      BY <3>1, <3>2 DEF SessionInv
  <2>3. CASE UNCHANGED vars
    BY <2>3 DEF SessionInv, TypeOK, NetworkInv, PauseInv, HasPause, OnePause, UseHelper,
       WatchdogTypeOK, vars, watchdogVars, sessionVars, helperVars, kernelVars,
       openconnectVars, historyVars
  <2>4. QED
    BY <2>2, <2>3
<1>2. QED
  BY <1>1, InitSession, PTL DEF Spec

\* RunMainLoop never returns 0: the pause the watchdog asked for is the only one,
\* and it is announced (vpn_session.hpp:231-249).
THEOREM PausesAreAnnounced == Spec => []PauseNeverEndsSession
<1>1. SessionInv => PauseNeverEndsSession
  BY DEF SessionInv, PauseInv, PauseNeverEndsSession
<1>2. QED
  BY <1>1, Invariance, PTL

\* The destructor takes back what vpnc-script did, after a Connect that failed as
\* well, unless the helper is dead (vpn_session.hpp:393-402).
THEOREM ConfigurationTakenBack == Spec => []NoConfigLeftBehind
<1>1. SessionInv => NoConfigLeftBehind
  BY DEF SessionInv, NetworkInv, NoConfigLeftBehind, UseHelper
<1>2. QED
  BY <1>1, Invariance, PTL

-----------------------------------------------------------------------------
(***************************************************************************)
(* Cancellations.                                                          *)
(***************************************************************************)

HasCancel(commands) == \E i \in 1..Len(commands) : commands[i] = "CANCEL"

Over == {"gone", "killed"}

\* A Cancel() that was written is in the pipe or has been read, as long as the
\* session lives, and one that was read leaves the worker in the call that read it,
\* or ending: nothing is asked, configured or re-entered any more
\* (vpn_session.hpp:118-264).
CancelIsKept ==
    /\ cancelWritten /\ stage \notin Over => cancelRead \/ HasCancel(pipe)
    /\ cancelRead =>
         stage \in {"auth", "cstp", "mainloop", "failed", "returned", "stopping"} \cup Over

\* No command gets in front of a cancellation: each step leaves it where it is in
\* the pipe, or brings it one place nearer to being read, and then has it read
\* (vpn_session.hpp:384-391 and 477-497).
NothingOvertakesCancel ==
    [][stage' \notin Over =>
         \A i \in 1..Len(pipe) : pipe[i] = "CANCEL" =>
             \/ i <= Len(pipe') /\ pipe'[i] = "CANCEL"
             \/ i > 1 /\ i - 1 <= Len(pipe') /\ pipe'[i - 1] = "CANCEL"
             \/ i = 1 /\ cancelRead']_vars

\* What a step may do to the pipe: write to it, read from it, or both.
Writes(command) == pipe' = Append(pipe, command) /\ UNCHANGED cancelRead
Reads ==
    /\ pipe # <<>>
    /\ \/ pipe' = Tail(pipe) /\ cancelRead' = (cancelRead \/ Head(pipe) = "CANCEL")
       \/ /\ Head(pipe) = "STATS" /\ pipe' = Append(Tail(pipe), "PAUSE")
          /\ UNCHANGED cancelRead

LEMMA PipeSteps ==
    ASSUME WorkerTypes, DataTypes, Next
    PROVE  /\ \/ UNCHANGED <<pipe, cancelRead>>
              \/ \E command \in Commands : Writes(command)
              \/ Reads
              \/ stage' \in Over
           /\ \/ cancelWritten' = cancelWritten
              \/ Writes("CANCEL")
              \/ UNCHANGED <<cancelWritten, pipe, cancelRead>>
<1> USE DEF WorkerGoesTo, sessionVars, historyVars, Over
<1>1. CASE Connecting
  BY <1>1 DEF Connecting, RefuseOptions, OpenCommandPipe, PromptUser, ObtainCookie,
     AcceptHelper, MakeCstpConnection, SetupTun, RunConnectScript, EnterMainLoop,
     FailInOpenconnect
<1>2. CASE Cancel
  <2>1. pipe' = (IF commandFd = "open" THEN Append(pipe, "CANCEL") ELSE pipe)
        /\ UNCHANGED cancelRead /\ cancelWritten' = (cancelWritten \/ commandFd = "open")
    BY <1>2 DEF Cancel, SendCommand
  <2>2. CASE commandFd = "open"
    BY <2>1, <2>2 DEF Writes, Commands
  <2>3. CASE commandFd # "open"
    <3>1. cancelWritten' = cancelWritten
      BY <2>1, <2>3 DEF DataTypes
    <3> QED  BY <2>1, <2>3, <3>1
  <2> QED  BY <2>2, <2>3
<1>3. CASE RequestRefresh
  BY <1>3 DEF RequestRefresh, SendCommand, Writes, Commands
<1>4. CASE ReadCancel \/ ReadPause \/ ReadStats
  <2>1. cancelWritten' = cancelWritten
    BY <1>4 DEF ReadCancel, ReadPause, ReadStats
  <2>2. CASE ReadCancel
    BY <2>1, <2>2 DEF ReadCancel, Reads, WorkerTypes
  <2>3. CASE ReadPause
    BY <2>1, <2>3 DEF ReadPause, Reads, WorkerTypes
  <2>4. CASE ReadStats
    <3>1. /\ pipe # <<>> /\ Head(pipe) = "STATS" /\ UNCHANGED cancelRead
          /\ pipe' = Tail(pipe) \/ pipe' = Append(Tail(pipe), "PAUSE")
      BY <2>4 DEF ReadStats, WatchDtls
    <3> QED  BY <2>1, <3>1 DEF Reads, WorkerTypes
  <2> QED  BY <1>4, <2>2, <2>3, <2>4
<1>5. CASE Ending
  BY <1>5 DEF Ending, MainloopEnds, LeavePause, RunDisconnectScript, FreeSession,
     KilledBySigpipe
<1>6. CASE Environment
  BY <1>6 DEF Environment, AnswerPrompt, AnswerPolkit, HelperDies, DtlsComesUp, DtlsDrops,
     ProbeMtu, Tick
<1> QED  BY <1>1, <1>2, <1>3, <1>4, <1>5, <1>6 DEF Next, ReadCommand

\* Where a command is after a step of the pipe.
LEMMA AppendedStays ==
    ASSUME NEW q \in Seq(Commands), NEW c \in Commands, NEW i \in 1..Len(q)
    PROVE  i <= Len(Append(q, c)) /\ Append(q, c)[i] = q[i]
BY LenProperties

LEMMA TakenMovesUp ==
    ASSUME NEW q \in Seq(Commands), q # <<>>, NEW i \in 1..Len(q), i # 1
    PROVE  /\ i - 1 \in 1..Len(Tail(q)) /\ Tail(q)[i - 1] = q[i]
           /\ Tail(q) \in Seq(Commands)
BY LenProperties, HeadTailProperties

LEMMA CancelMovesUp ==
    ASSUME WorkerTypes, DataTypes, Next, stage' \notin Over,
           NEW i \in 1..Len(pipe), pipe[i] = "CANCEL"
    PROVE  \/ i <= Len(pipe') /\ pipe'[i] = "CANCEL"
           \/ i > 1 /\ i - 1 <= Len(pipe') /\ pipe'[i - 1] = "CANCEL"
           \/ i = 1 /\ cancelRead'
<1>1. pipe \in Seq(Commands) /\ Len(pipe) \in Nat
  BY LenProperties DEF DataTypes
<1>2. CASE UNCHANGED <<pipe, cancelRead>>
  BY <1>1, <1>2
<1>3. CASE \E command \in Commands : Writes(command)
  BY <1>1, <1>3, AppendedStays DEF Writes
<1>4. CASE Reads
  <2>1. CASE i = 1
    <3>1. Head(pipe) = "CANCEL"
      BY <1>1, <1>4, <2>1 DEF Reads
    <3> QED  BY <1>4, <2>1, <3>1 DEF Reads
  <2>2. CASE i # 1
    <3>1. /\ i - 1 \in 1..Len(Tail(pipe)) /\ Tail(pipe)[i - 1] = "CANCEL"
          /\ Tail(pipe) \in Seq(Commands)
      BY <1>1, <1>4, <2>2, TakenMovesUp DEF Reads
    <3>2. CASE pipe' = Tail(pipe)
      BY <1>1, <2>2, <3>1, <3>2
    <3>3. CASE pipe' = Append(Tail(pipe), "PAUSE")
      BY <1>1, <2>2, <3>1, <3>3, AppendedStays DEF Commands
    <3> QED  BY <1>4, <3>2, <3>3 DEF Reads
  <2> QED  BY <2>1, <2>2
<1> QED  BY <1>2, <1>3, <1>4, PipeSteps

\* A cancellation in the pipe is still there or read after any step.
LEMMA StepKeepsCancel ==
    ASSUME WorkerTypes, DataTypes, CancelIsKept, Next
    PROVE  CancelIsKept'
<1>1. ASSUME cancelWritten', stage' \notin Over
      PROVE  cancelRead' \/ HasCancel(pipe')
  <2>0. pipe \in Seq(Commands) /\ Len(pipe) \in Nat
    BY LenProperties DEF DataTypes
  <2>1. CASE Writes("CANCEL")
    <3>1. pipe'[Len(pipe')] = "CANCEL" /\ Len(pipe') \in 1..Len(pipe')
      BY <2>0, <2>1 DEF Writes, Commands
    <3> QED  BY <3>1 DEF HasCancel
  <2>2. CASE cancelWritten
    <3>1. stage \notin Over
      BY <1>1 DEF Next, Connecting, RefuseOptions, OpenCommandPipe, PromptUser,
         ObtainCookie, AcceptHelper, MakeCstpConnection, SetupTun, RunConnectScript,
         EnterMainLoop, FailInOpenconnect, Cancel, RequestRefresh, ReadCommand,
         ReadCancel, ReadPause, ReadStats, ReadsCommands, Ending, MainloopEnds,
         LeavePause, RunDisconnectScript, FreeSession, KilledBySigpipe, WritesToHelper,
         Environment, AnswerPrompt, AnswerPolkit, HelperDies, DtlsComesUp, DtlsDrops,
         ProbeMtu, Tick, WorkerGoesTo, sessionVars, Over
    <3>2. cancelRead \/ HasCancel(pipe)
      BY <2>2, <3>1 DEF CancelIsKept
    <3>3. CASE cancelRead
      BY <1>1, <3>3, PipeSteps DEF Writes, Reads
    <3>4. CASE HasCancel(pipe)
      <4>1. PICK i \in 1..Len(pipe) : pipe[i] = "CANCEL"
        BY <3>4 DEF HasCancel
      <4>2. \/ i <= Len(pipe') /\ pipe'[i] = "CANCEL"
            \/ i > 1 /\ i - 1 <= Len(pipe') /\ pipe'[i - 1] = "CANCEL"
            \/ i = 1 /\ cancelRead'
        BY <1>1, <4>1, CancelMovesUp
      <4> QED  BY <2>0, <4>2 DEF HasCancel
    <3> QED  BY <3>2, <3>3, <3>4
  <2> QED  BY <1>1, <2>1, <2>2, PipeSteps
<1>2. ASSUME cancelRead'
      PROVE  stage' \in {"auth", "cstp", "mainloop", "failed", "returned", "stopping"} \cup Over
  <2> USE DEF CancelIsKept, WorkerGoesTo, sessionVars, Over
  <2>1. CASE Connecting
    BY <1>2, <2>1 DEF Connecting, RefuseOptions, OpenCommandPipe, PromptUser, ObtainCookie,
       AcceptHelper, MakeCstpConnection, SetupTun, RunConnectScript, EnterMainLoop,
       FailInOpenconnect
  <2>2. CASE Cancel \/ RequestRefresh
    BY <1>2, <2>2 DEF Cancel, RequestRefresh
  <2>3. CASE ReadCommand
    BY <1>2, <2>3 DEF ReadCommand, ReadCancel, ReadPause, ReadStats, ReadsCommands
  <2>4. CASE Ending
    BY <1>2, <2>4 DEF Ending, MainloopEnds, LeavePause, RunDisconnectScript, FreeSession,
       KilledBySigpipe
  <2>5. CASE Environment
    BY <1>2, <2>5 DEF Environment, AnswerPrompt, AnswerPolkit, HelperDies, DtlsComesUp,
       DtlsDrops, ProbeMtu, Tick
  <2> QED  BY <2>1, <2>2, <2>3, <2>4, <2>5 DEF Next
<1> QED  BY <1>1, <1>2 DEF CancelIsKept

\* A cancellation that reached the pipe is not lost, for any bound of the pipe and
\* whatever the watchdog writes into it (vpn_session.hpp:253-264 and 384-391).
THEOREM CancelNotLost == Spec => []CancelIsKept
<1>1. Init => CancelIsKept
  BY DEF Init, CancelIsKept
<1>2. TypeOK /\ CancelIsKept /\ [Next]_vars => CancelIsKept'
  <2> SUFFICES ASSUME TypeOK, CancelIsKept, [Next]_vars
               PROVE  CancelIsKept'
    OBVIOUS
  <2>1. CASE Next
    BY <2>1, StepKeepsCancel, TypesInHalves
  <2>2. CASE UNCHANGED vars
    BY <2>2 DEF vars, sessionVars, historyVars, CancelIsKept, HasCancel
  <2> QED  BY <2>1, <2>2
<1> QED  BY <1>1, <1>2, TypeCorrect, PTL DEF Spec

\* It is the next to be read after at most the commands that were before it.
THEOREM CancelNotOvertaken == Spec => NothingOvertakesCancel
<1>1. TypeOK /\ [Next]_vars =>
        [stage' \notin Over =>
           \A i \in 1..Len(pipe) : pipe[i] = "CANCEL" =>
               \/ i <= Len(pipe') /\ pipe'[i] = "CANCEL"
               \/ i > 1 /\ i - 1 <= Len(pipe') /\ pipe'[i - 1] = "CANCEL"
               \/ i = 1 /\ cancelRead']_vars
  BY CancelMovesUp, TypesInHalves
<1> QED  BY <1>1, TypeCorrect, PTL DEF Spec, NothingOvertakesCancel

-----------------------------------------------------------------------------
(***************************************************************************)
(* In the mainloop: MTUs and losses, measured in polls.                    *)
(***************************************************************************)

InMainLoop == stage \in {"mainloop", "paused"}

\* The GUI polls, and its refreshes reach the session.
Watched == UseHelper /\ commandFd = "open"

\* The device has the MTU this session last set, or the advertised one; one that
\* was probed anew has been there for a poll at most, and since the last refresh
\* for none, unless that refresh asked for it in vain.
MtuInv ==
    /\ stage \in {"tun", "script", "ready"} => probedMtu = AdvertisedMtu
    /\ stage \in {"script", "ready"} => appliedMtu = 0
    /\ stage = "ready" \/ InMainLoop =>
         /\ probedMtu \in Mtus
         /\ deviceMtu = IF appliedMtu = 0 THEN AdvertisedMtu ELSE appliedMtu
    /\ Watched /\ InMainLoop /\ deviceMtu # probedMtu /\ ~mtuFailed =>
         probedFor <= 1 /\ (refreshed => probedFor = 0)

\* What the watchdog knows of a loss that counts: it saw DTLS up before, sees the
\* loss within a poll, and acts when the grace is over; then its pause is on
\* its way, and no poll comes before it.
LossInv ==
    /\ disabled => dtls = "none" /\ seenUp
    /\ lossAt # NotLost => dtls = "down"
    /\ Watched /\ InMainLoop /\ dtls = "up" /\ (upFor = 2 \/ (upFor = 1 /\ refreshed)) =>
         seenUp /\ lostSince = NotLost /\ ~actedOnThisLoss
    /\ Watched /\ InMainLoop /\ lossAt # NotLost =>
         /\ seenUp
         /\ lossAt <= now /\ now <= lossAt + LostGraceSeconds + 1
         /\ actedOnThisLoss => stage = "paused" \/ HasPause(pipe)
         /\ ~actedOnThisLoss /\ lostSince = NotLost =>
              now <= lossAt + 1 /\ (refreshed => now = lossAt)
         /\ ~actedOnThisLoss /\ lostSince # NotLost =>
              /\ lossAt <= lostSince /\ lostSince <= lossAt + 1
              /\ now <= lostSince + LostGraceSeconds
              /\ refreshed => now < lostSince + LostGraceSeconds

\* A pause stays in the pipe until it is read.
LEMMA PauseKept ==
    ASSUME NEW q \in Seq(Commands), NEW c \in Commands, HasPause(q)
    PROVE  HasPause(Append(q, c))
BY DEF HasPause

LEMMA PauseAdded ==
    ASSUME NEW q \in Seq(Commands)
    PROVE  HasPause(Append(q, "PAUSE"))
<1>1. Len(q) + 1 \in 1..Len(Append(q, "PAUSE")) /\ Append(q, "PAUSE")[Len(q) + 1] = "PAUSE"
  BY LenProperties, AppendProperties DEF Commands
<1>2. QED
  BY <1>1 DEF HasPause

LEMMA OtherTaken ==
    ASSUME NEW q \in Seq(Commands), q # <<>>, Head(q) # "PAUSE", HasPause(q)
    PROVE  HasPause(Tail(q))
<1>1. PICK i \in 1..Len(q) : q[i] = "PAUSE"
  BY DEF HasPause
<1>2. Len(q) \in Nat /\ Head(q) = q[1] /\ Len(Tail(q)) = Len(q) - 1
      /\ \A j \in 1..Len(q) - 1 : Tail(q)[j] = q[j + 1]
  BY HeadTailProperties, LenProperties
<1>3. i - 1 \in 1..Len(Tail(q)) /\ Tail(q)[i - 1] = "PAUSE"
  BY <1>1, <1>2
<1>4. QED
  BY <1>3 DEF HasPause

\* What an observation of DTLS up and one of its loss do to the watchdog.
LEMMA UpObserved ==
    ASSUME Observe(TRUE, now), ~disabled
    PROVE  /\ seenUp' /\ lostSince' = NotLost /\ ~actedOnThisLoss' /\ ~disabled'
           /\ verdict' = "None"
BY DEF Observe, ObserveDisabled, ObserveUp

LEMMA LossObserved ==
    ASSUME WatchdogTypeOK, Observe(FALSE, now)
    PROVE  /\ seenUp' = seenUp
           /\ disabled' => disabled \/ (verdict' = "Disable" /\ seenUp)
           /\ ~disabled /\ seenUp /\ ~actedOnThisLoss =>
                \/ /\ lostSince = NotLost /\ lostSince' = now /\ ~actedOnThisLoss'
                   /\ verdict' = "None"
                \/ /\ lostSince # NotLost /\ lostSince' = lostSince /\ ~actedOnThisLoss'
                   /\ verdict' = "None" /\ now - lostSince < LostGraceSeconds
                \/ /\ verdict' \in {"Disable", "Reconnect"} /\ lostSince' = lostSince
                   /\ actedOnThisLoss'
           /\ ~disabled /\ actedOnThisLoss => actedOnThisLoss' /\ verdict' = "None"
BY DEF WatchdogTypeOK, Observe, ObserveDisabled, ObserveDown, ObserveNothingToRecover,
       ObserveLossBegins, ObserveWithinGrace, ObserveGiveUp, ObserveReconnect,
       LossOutlastsGrace, RecoverableLoss

\* Every step keeps the device's MTU what was set last, and a late one watched.
LEMMA StepMtu ==
    ASSUME SessionAssumption, WorkerTypes, DataTypes, NetworkInv, PauseInv, MtuInv, Next
    PROVE  MtuInv'
<1> USE DEF MtuInv, InMainLoop, Watched, UseHelper, HelperAnswers, WorkerGoesTo, watchdogVars,
        sessionVars, helperVars, kernelVars, openconnectVars, historyVars
<1>1. CASE RefuseOptions
  BY <1>1 DEF RefuseOptions
<1>2. CASE OpenCommandPipe
  BY <1>2 DEF OpenCommandPipe
<1>3. CASE PromptUser
  BY <1>3 DEF PromptUser
<1>4. CASE ObtainCookie
  BY <1>4 DEF ObtainCookie
<1>5. CASE AcceptHelper
  BY <1>5 DEF AcceptHelper
<1>6. CASE MakeCstpConnection
  BY <1>6 DEF MakeCstpConnection, SessionAssumption
<1>7. CASE SetupTun
  BY <1>7 DEF SetupTun
<1>8. CASE RunConnectScript
  BY <1>8 DEF RunConnectScript, SessionAssumption
<1>9. CASE EnterMainLoop
  BY <1>9 DEF EnterMainLoop, SessionAssumption
<1>10. CASE FailInOpenconnect
  BY <1>10 DEF FailInOpenconnect
<1>11. CASE Cancel
  BY <1>11 DEF Cancel
<1>12. CASE RequestRefresh
  BY <1>12 DEF RequestRefresh
<1>13. CASE ReadCancel
  BY <1>13 DEF ReadCancel
<1>14. CASE ReadPause
  BY <1>14, PauseReadInMainloop DEF ReadPause
<1>15. CASE ReadStats
  <2>1. /\ UNCHANGED <<stage, commandFd, helperFd, helperProcess, probedMtu, probedFor>>
        /\ CorrectMtu
    BY <1>15 DEF ReadStats
  <2>2. CASE stage # "mainloop"
    BY <1>15, <2>1, <2>2 DEF ReadStats, ReadsCommands
  <2>3. CASE stage = "mainloop"
    <3>1. resolvedInterface /\ probedMtu \in Mtus /\ probedMtu \in Nat \ {0}
      BY <2>3 DEF NetworkInv, Configured, SessionAssumption
    <3>2. MtuToCorrect <=> probedMtu # appliedMtu
      BY <3>1 DEF MtuToCorrect
    <3>3. CASE deviceMtu' = probedMtu /\ appliedMtu' = probedMtu
      BY <2>1, <2>3, <3>1, <3>3
    <3>4. CASE mtuFailed' = MtuToCorrect /\ UNCHANGED <<deviceMtu, appliedMtu>>
      BY <2>1, <2>3, <3>1, <3>2, <3>4
    <3>5. QED
      BY <2>1, <3>3, <3>4 DEF CorrectMtu
  <2>4. QED
    BY <2>2, <2>3
<1>16. CASE MainloopEnds
  BY <1>16 DEF MainloopEnds, PollsEnd
<1>17. CASE LeavePause
  BY <1>17 DEF LeavePause
<1>18. CASE RunDisconnectScript
  BY <1>18 DEF RunDisconnectScript
<1>19. CASE FreeSession
  BY <1>19 DEF FreeSession
<1>20. CASE KilledBySigpipe
  BY <1>20 DEF KilledBySigpipe
<1>21. CASE AnswerPrompt
  BY <1>21 DEF AnswerPrompt
<1>22. CASE AnswerPolkit
  BY <1>22 DEF AnswerPolkit, NetworkInv
<1>23. CASE HelperDies
  BY <1>23 DEF HelperDies
<1>24. CASE DtlsComesUp
  BY <1>24 DEF DtlsComesUp
<1>25. CASE DtlsDrops
  BY <1>25 DEF DtlsDrops
<1>26. CASE ProbeMtu
  BY <1>26 DEF ProbeMtu
<1>27. CASE Tick
  BY <1>27 DEF Tick, OneMore, DataTypes
<1>28. QED
  BY <1>1, <1>2, <1>3, <1>4, <1>5, <1>6, <1>7, <1>8, <1>9, <1>10, <1>11, <1>12,
     <1>13, <1>14, <1>15, <1>16, <1>17, <1>18, <1>19, <1>20, <1>21, <1>22,
     <1>23, <1>24, <1>25, <1>26, <1>27
     DEF Next, Connecting, ReadCommand, Ending, Environment

\* Every step keeps a loss on its way to its answer.
LEMMA StepLoss ==
    ASSUME SpansAssumption, WorkerTypes, DataTypes, NetworkInv, PauseInv, LossInv, Next
    PROVE  LossInv'
<1> USE DEF LossInv, InMainLoop, Watched, UseHelper, WorkerGoesTo, watchdogVars,
        sessionVars, helperVars, kernelVars, openconnectVars, historyVars
<1>1. CASE RefuseOptions
  BY <1>1 DEF RefuseOptions
<1>2. CASE OpenCommandPipe
  BY <1>2 DEF OpenCommandPipe, PauseInv, BeforeMainloop, Unconfigured
<1>3. CASE PromptUser
  BY <1>3 DEF PromptUser
<1>4. CASE ObtainCookie
  BY <1>4 DEF ObtainCookie
<1>5. CASE AcceptHelper
  BY <1>5 DEF AcceptHelper
<1>6. CASE MakeCstpConnection
  BY <1>6 DEF MakeCstpConnection
<1>7. CASE SetupTun
  BY <1>7 DEF SetupTun
<1>8. CASE RunConnectScript
  BY <1>8 DEF RunConnectScript
<1>9. CASE EnterMainLoop
  BY <1>9 DEF EnterMainLoop, PauseInv, BeforeMainloop, Unconfigured
<1>10. CASE FailInOpenconnect
  BY <1>10 DEF FailInOpenconnect
<1>11. CASE Cancel
  <2>1. HasPause(pipe) => HasPause(pipe')
    BY <1>11, PauseKept DEF Cancel, SendCommand, DataTypes, Commands
  <2>2. QED
    BY <1>11, <2>1 DEF Cancel
<1>12. CASE RequestRefresh
  <2>1. HasPause(pipe) => HasPause(pipe')
    BY <1>12, PauseKept DEF RequestRefresh, SendCommand, DataTypes, Commands
  <2>2. QED
    BY <1>12, <2>1 DEF RequestRefresh
<1>13. CASE ReadCancel
  <2>1. HasPause(pipe) => HasPause(pipe')
    BY <1>13, OtherTaken DEF ReadCancel, DataTypes
  <2>2. QED
    BY <1>13, <2>1 DEF ReadCancel
<1>14. CASE ReadPause
  BY <1>14, PauseReadInMainloop DEF ReadPause, ReadPause
<1>15. CASE ReadStats
  <2>1. /\ Observe(dtls = "up", now) /\ now \in Nat /\ refreshed'
        /\ UNCHANGED <<stage, commandFd, helperProcess, now, upFor>>
        /\ lossAt' = IF verdict' = "Disable" THEN NotLost ELSE lossAt
        /\ dtls' = IF verdict' = "Disable" THEN "none" ELSE dtls
        /\ WatchdogTypeOK /\ lossAt \in Nat \cup {NotLost}
    BY <1>15 DEF ReadStats, WatchDtls, DataTypes
  <2>2. \/ verdict' = "Reconnect" /\ (commandFd = "open" => HasPause(pipe'))
        \/ verdict' # "Reconnect" /\ (HasPause(pipe) => HasPause(pipe'))
    <3>1. pipe \in Seq(Commands) /\ pipe # <<>> /\ Head(pipe) # "PAUSE"
          /\ Tail(pipe) \in Seq(Commands)
      BY <1>15 DEF ReadStats, DataTypes
    <3>2. pipe' = IF verdict' = "Reconnect" /\ commandFd = "open"
                    THEN Append(Tail(pipe), "PAUSE") ELSE Tail(pipe)
      BY <1>15 DEF ReadStats, WatchDtls
    <3>3. QED
      BY <3>1, <3>2, OtherTaken, PauseAdded
  <2>3. CASE dtls = "up"
    BY <2>1, <2>3, UpObserved DEF NotLost
  <2>4. CASE dtls # "up"
    <3>1. CASE lossAt = NotLost \/ ~Watched \/ ~InMainLoop
      BY <2>1, <2>4, <3>1, LossObserved
    <3>2. CASE lossAt # NotLost /\ Watched /\ InMainLoop
      <4>1. ~disabled /\ seenUp /\ lossAt \in Nat
        BY <2>1, <3>2 DEF NotLost
      <4>2. /\ LostGraceSeconds \in Nat \ {0} /\ lostSince \in Nat \cup {NotLost}
        BY <2>1 DEF SpansAssumption, WatchdogTypeOK
      <4>3. Observe(FALSE, now)
        BY <2>1, <2>4
      <4>4. CASE actedOnThisLoss
        <5>1. actedOnThisLoss' /\ verdict' = "None" /\ seenUp' = seenUp /\ ~disabled'
          BY <2>1, <4>1, <4>3, <4>4, LossObserved
        <5>2. QED
          BY <2>1, <2>2, <2>4, <3>2, <4>4, <5>1
      <4>5. CASE ~actedOnThisLoss /\ verdict' = "None"
        <5>1. /\ seenUp' = seenUp /\ ~disabled' /\ ~actedOnThisLoss'
              /\ \/ lostSince = NotLost /\ lostSince' = now
                 \/ /\ lostSince # NotLost /\ lostSince' = lostSince
                    /\ now - lostSince < LostGraceSeconds
          BY <2>1, <4>1, <4>3, <4>5, LossObserved
        <5>2. CASE lostSince = NotLost
          BY <2>1, <2>4, <3>2, <4>1, <4>2, <4>5, <5>1, <5>2 DEF NotLost
        <5>3. CASE lostSince # NotLost
          BY <2>1, <2>4, <3>2, <4>1, <4>2, <4>5, <5>1, <5>3 DEF NotLost
        <5>4. QED
          BY <5>2, <5>3
      <4>6. CASE ~actedOnThisLoss /\ verdict' = "Disable"
        <5>1. lossAt' = NotLost /\ dtls' = "none" /\ seenUp'
          BY <2>1, <4>1, <4>3, <4>6, LossObserved
        <5>2. QED
          BY <5>1
      <4>7. CASE ~actedOnThisLoss /\ verdict' = "Reconnect"
        <5>1. /\ seenUp' /\ ~disabled' /\ lossAt' = lossAt /\ dtls' = dtls
              /\ actedOnThisLoss'
          BY <2>1, <4>1, <4>3, <4>7, LossObserved
        <5>2. HasPause(pipe')
          BY <2>2, <3>2, <4>7 DEF Watched
        <5>3. QED
          BY <2>1, <2>4, <3>2, <5>1, <5>2
      <4>8. QED
        BY <2>1, <4>1, <4>3, <4>4, <4>5, <4>6, <4>7, LossObserved
    <3>3. QED
      BY <3>1, <3>2
  <2>5. QED
    BY <2>3, <2>4
<1>16. CASE MainloopEnds
  BY <1>16 DEF MainloopEnds, PollsEnd
<1>17. CASE LeavePause
  BY <1>17 DEF LeavePause
<1>18. CASE RunDisconnectScript
  BY <1>18 DEF RunDisconnectScript
<1>19. CASE FreeSession
  BY <1>19 DEF FreeSession
<1>20. CASE KilledBySigpipe
  BY <1>20 DEF KilledBySigpipe
<1>21. CASE AnswerPrompt
  BY <1>21 DEF AnswerPrompt
<1>22. CASE AnswerPolkit
  BY <1>22 DEF AnswerPolkit, NetworkInv
<1>23. CASE HelperDies
  BY <1>23 DEF HelperDies
<1>24. CASE DtlsComesUp
  BY <1>24 DEF DtlsComesUp
<1>25. CASE DtlsDrops
  BY <1>25 DEF DtlsDrops, DataTypes, SpansAssumption, NotLost
<1>26. CASE ProbeMtu
  BY <1>26 DEF ProbeMtu
<1>27. CASE Tick
  <2>1. ~HasPause(pipe) /\ now' = now + 1 /\ now \in Nat /\ stage = "mainloop"
        /\ UNCHANGED <<watchdogVars, sessionVars, helperVars, dtls, lossAt>>
        /\ ~refreshed' /\ (Watched => refreshed)
    BY <1>27, EmptyPauses DEF Tick, DataTypes
  <2>2. /\ upFor' = (IF dtls = "up" THEN OneMore(upFor) ELSE 0) /\ upFor \in 0..2
        /\ lossAt \in Nat \cup {NotLost} /\ lostSince \in Nat \cup {NotLost}
        /\ LostGraceSeconds \in Nat
    BY <1>27 DEF Tick, DataTypes, WatchdogTypeOK, SpansAssumption
  <2>3. QED
    BY <2>1, <2>2 DEF OneMore, NotLost
<1>28. QED
  BY <1>1, <1>2, <1>3, <1>4, <1>5, <1>6, <1>7, <1>8, <1>9, <1>10, <1>11, <1>12,
     <1>13, <1>14, <1>15, <1>16, <1>17, <1>18, <1>19, <1>20, <1>21, <1>22,
     <1>23, <1>24, <1>25, <1>26, <1>27
     DEF Next, Connecting, ReadCommand, Ending, Environment

\* Whatever the MTUs and the spans, a late MTU that no failed SetMtu explains and an
\* unanswered loss are on their way to the poll that ends them (vpn_session.hpp:433-497).
THEOREM TimingInvariance == Spec => [](MtuInv /\ LossInv)
<1>1. Init => MtuInv /\ LossInv
  BY DEF Init, WatchdogInit, MtuInv, LossInv, InMainLoop, Watched
<1>2. SessionInv /\ MtuInv /\ LossInv /\ [Next]_vars => MtuInv' /\ LossInv'
  <2> SUFFICES ASSUME SessionInv, MtuInv, LossInv, [Next]_vars
               PROVE  MtuInv' /\ LossInv'
    OBVIOUS
  <2>1. WorkerTypes /\ DataTypes /\ NetworkInv /\ PauseInv
    BY TypesInHalves DEF SessionInv
  <2>2. CASE Next
    BY <2>1, <2>2, StepMtu, StepLoss, SessionAssumption, SpansAssumption
  <2>3. CASE UNCHANGED vars
    BY <2>3 DEF MtuInv, LossInv, InMainLoop, Watched, UseHelper, HelperAnswers, HasPause,
       vars, watchdogVars, sessionVars, helperVars, kernelVars, openconnectVars,
       historyVars
  <2>4. QED
    BY <2>2, <2>3
<1>3. QED
  BY <1>1, <1>2, Invariance, PTL DEF Spec

\* A loss that counts is answered within the grace and one poll, for any spans
\* (docs/CLAVISTER.md:84 and 97, vpn_session.hpp:433-497).
THEOREM LossAnswered == Spec => []LossAnsweredInTime
<1>1. SessionInv /\ LossInv => LossAnsweredInTime
  BY SpansAssumption DEF SessionInv, TypeOK, LossInv, LossAnsweredInTime, InMainLoop, Watched,
     SpansAssumption, NotLost
<1>2. QED
  BY <1>1, Invariance, TimingInvariance, PTL

\* The device has the probed MTU by the next poll, or the latest refresh asked for it
\* in vain, for any MTUs (vpn_session.hpp:456-469).
THEOREM MtuCorrected == Spec => []MtuCorrectedInTime
<1>1. MtuInv => MtuCorrectedInTime
  BY DEF MtuInv, MtuCorrectedInTime, InMainLoop, Watched
<1>2. QED
  BY <1>1, TimingInvariance, PTL

-----------------------------------------------------------------------------
(***************************************************************************)
(* The session implements SessionLifecycle.                                *)
(***************************************************************************)

\* The fields of a life, and what a step does to them.
LivesOn == Lifecycle!Next
Reachable == helperProcess # "exited"
Hears == CanEnd /\ commandFd # "none"
Cancelled == CanEnd /\ cancelWritten

\* The phase of each stage.
PhaseTable ==
    /\ stage \in BeforeMainloop => Phase = "connecting"
    /\ stage \in {"mainloop", "paused"} => Phase = "up"
    /\ stage \in {"failed", "returned", "stopping"} => Phase = "ending"
    /\ stage \in {"gone", "killed"} => Phase = "over"

LEMMA Phases == PhaseTable
BY DEF PhaseTable, Phase, BeforeMainloop, Unconfigured

\* Lives that are equal field by field are equal.
LEMMA LifeStays ==
    Phase' = Phase /\ network' = network /\ Reachable' = Reachable
    /\ Hears' = Hears /\ Cancelled' = Cancelled => Life' = Life
BY DEF Life, Reachable, Hears, Cancelled

\* The lives that differ in one field, as the abstract steps have them.
LEMMA LifeHears ==
    Phase' = Phase /\ network' = network
    /\ Reachable' = Reachable /\ Hears' /\ Cancelled' = Cancelled =>
      Life' = [Life EXCEPT !.hears = TRUE]
<1> SUFFICES ASSUME Phase' = Phase, network' = network,
                    Reachable' = Reachable, Hears', Cancelled' = Cancelled
             PROVE  Life' = [Life EXCEPT !.hears = TRUE]
  OBVIOUS
<1> DEFINE S == [phase : {Phase}, network : {network}, reachable : {Reachable},
         hears : {TRUE}, cancelled : {Cancelled}]
<1>1. Life' \in S
  BY DEF Life, Reachable, Hears, Cancelled, CanEnd
<1>2. [Life EXCEPT !.hears = TRUE] \in S
  BY DEF Life, Reachable, Hears, Cancelled, CanEnd, Lifecycle!Ending
<1>3. QED
  BY <1>1, <1>2

LEMMA LifeCancelled ==
    Phase' = Phase /\ network' = network
    /\ Reachable' = Reachable /\ Hears' = Hears /\ Cancelled' = (Cancelled \/ Hears) =>
      Life' = [Life EXCEPT !.cancelled = Cancelled \/ Hears]
<1> SUFFICES ASSUME Phase' = Phase, network' = network,
                    Reachable' = Reachable, Hears' = Hears, Cancelled' = (Cancelled \/ Hears)
             PROVE  Life' = [Life EXCEPT !.cancelled = Cancelled \/ Hears]
  OBVIOUS
<1> DEFINE S == [phase : {Phase}, network : {network}, reachable : {Reachable},
         hears : {Hears}, cancelled : {Cancelled \/ Hears}]
<1>1. Life' \in S
  BY DEF Life, Reachable, Hears, Cancelled, CanEnd
<1>2. [Life EXCEPT !.cancelled = Cancelled \/ Hears] \in S
  BY DEF Life, Reachable, Hears, Cancelled, CanEnd, Lifecycle!Ending
<1>3. QED
  BY <1>1, <1>2

LEMMA LifeUnreachable ==
    Phase' = Phase /\ network' = network
    /\ ~Reachable' /\ Hears' = Hears /\ Cancelled' = Cancelled =>
      Life' = [Life EXCEPT !.reachable = FALSE]
<1> SUFFICES ASSUME Phase' = Phase, network' = network,
                    ~Reachable', Hears' = Hears, Cancelled' = Cancelled
             PROVE  Life' = [Life EXCEPT !.reachable = FALSE]
  OBVIOUS
<1> DEFINE S == [phase : {Phase}, network : {network}, reachable : {FALSE},
         hears : {Hears}, cancelled : {Cancelled}]
<1>1. Life' \in S
  BY DEF Life, Reachable, Hears, Cancelled, CanEnd
<1>2. [Life EXCEPT !.reachable = FALSE] \in S
  BY DEF Life, Reachable, Hears, Cancelled, CanEnd, Lifecycle!Ending
<1>3. QED
  BY <1>1, <1>2

LEMMA LifePerishes ==
    Phase' = "over" /\ network' = network
    /\ Reachable' = Reachable => Life' = [Lifecycle!Ending(Life) EXCEPT !.phase = "over"]
<1> SUFFICES ASSUME Phase' = "over", network' = network,
                    Reachable' = Reachable
             PROVE  Life' = [Lifecycle!Ending(Life) EXCEPT !.phase = "over"]
  OBVIOUS
<1> DEFINE S == [phase : {"over"}, network : {network}, reachable : {Reachable},
         hears : {FALSE}, cancelled : {FALSE}]
<1>1. Life' \in S
  BY DEF Life, Reachable, Hears, Cancelled, CanEnd
<1>2. [Lifecycle!Ending(Life) EXCEPT !.phase = "over"] \in S
  BY DEF Life, Reachable, Hears, Cancelled, CanEnd, Lifecycle!Ending
<1>3. QED
  BY <1>1, <1>2

\* A Connect that fails is an abstract step.
LEMMA LifeFails ==
    (/\ Phase = "connecting" /\ Phase' = "ending"
     /\ network' = network \/ (Reachable /\ network' = "configured")
     /\ (Reachable' => Reachable)) => LivesOn
<1> SUFFICES ASSUME Phase = "connecting" /\ Phase' = "ending",
                    network' = network \/ (Reachable /\ network' = "configured"),
                    (Reachable' => Reachable)
             PROVE  LivesOn
  OBVIOUS
<1>1. Life' \in [phase : {"ending"}, network : {network, network'},
                 reachable : {Reachable'}, hears : {FALSE}, cancelled : {FALSE}]
  BY DEF Life, Reachable, CanEnd
<1>2. Life.phase = "connecting" /\ Life.network = network /\ Life.reachable = Reachable
  BY DEF Life, Reachable
<1>3. Life' \in Lifecycle!FailToConnect(Life)
  BY <1>1, <1>2 DEF Lifecycle!FailToConnect, Lifecycle!If, Reachable
<1>4. QED
  BY <1>3 DEF LivesOn, Lifecycle!Next, Lifecycle!Connecting

\* So is a mainloop that ends.
LEMMA LifeGoesDown ==
    Phase = "up" /\ Phase' = "ending" /\ network' = network /\ Reachable' = Reachable
    => LivesOn
<1> SUFFICES ASSUME Phase = "up", Phase' = "ending", network' = network,
                    Reachable' = Reachable
             PROVE  LivesOn
  OBVIOUS
<1>1. Life' = Lifecycle!Ending(Life)
  BY DEF Life, Reachable, CanEnd, Lifecycle!Ending
<1>2. Life.phase = "up"
  BY DEF Life
<1>3. QED
  BY <1>1, <1>2 DEF LivesOn, Lifecycle!Next, Lifecycle!GoDown, Lifecycle!If

\* A step of the session is one of its abstract life, or none.
LEMMA StepLife ==
    ASSUME WorkerTypes, DataTypes, NetworkInv, PauseInv, Next
    PROVE  LivesOn \/ Life' = Life
<1> USE DEF WorkerTypes, NetworkInv, Unconfigured, Configured, UseHelper, WorkerGoesTo,
        sessionVars, helperVars, kernelVars, openconnectVars, historyVars, CanEnd,
        Reachable, Hears, Cancelled, BeforeMainloop, PhaseTable, Stages
<1> USE Phases
<1>0. PhaseTable'
  BY Phases, PTL
<1>1. CASE RefuseOptions
  BY <1>0, <1>1, LifeFails DEF RefuseOptions
<1>2. CASE OpenCommandPipe
  <2>1. CASE stage' = "failed"
    BY <1>0, <1>2, <2>1, LifeFails DEF OpenCommandPipe
  <2>2. CASE stage' = "auth" /\ commandFd' = "none"
    BY <1>0, <1>2, <2>2, LifeStays DEF OpenCommandPipe
  <2>3. CASE stage' = "auth" /\ commandFd' = "open"
    <3>1. Life' = [Life EXCEPT !.hears = TRUE]
      BY <1>0, <1>2, <2>3, LifeHears DEF OpenCommandPipe
    <3>2. Life.phase = "connecting" /\ Life.network = "clean"
      BY <1>0, <1>2 DEF OpenCommandPipe, Life
    <3>3. QED
      BY <3>1, <3>2 DEF LivesOn, Lifecycle!Next, Lifecycle!Connecting,
         Lifecycle!StartHearing,
         Lifecycle!If
  <2>4. QED
    BY <1>0, <1>2, <2>1, <2>2, <2>3 DEF OpenCommandPipe
<1>3. CASE PromptUser
  BY <1>0, <1>3, LifeStays DEF PromptUser
<1>4. CASE ObtainCookie
  BY <1>0, <1>4, LifeFails, LifeStays DEF ObtainCookie
<1>5. CASE AcceptHelper
  BY <1>0, <1>5, LifeFails, LifeStays DEF AcceptHelper
<1>6. CASE MakeCstpConnection
  BY <1>0, <1>6, LifeStays DEF MakeCstpConnection
<1>7. CASE SetupTun
  BY <1>0, <1>7, LifeFails, LifeStays DEF SetupTun
<1>8. CASE RunConnectScript
  <2>1. CASE stage' = "failed"
    BY <1>0, <1>8, <2>1, LifeFails DEF RunConnectScript, HelperAnswers
  <2>2. CASE stage' = "ready"
    <3>1. Life' = [Life EXCEPT !.network = "configured"]
      BY <1>0, <1>8, <2>2 DEF RunConnectScript, Life
    <3>2. Life.phase = "connecting" /\ Life.reachable
      BY <1>0, <1>8, <2>2 DEF RunConnectScript, HelperAnswers, Life
    <3>3. QED
      BY <3>1, <3>2 DEF LivesOn, Lifecycle!Next, Lifecycle!Connecting, Lifecycle!Configure,
         Lifecycle!If
  <2>3. QED
    BY <1>0, <1>8, <2>1, <2>2 DEF RunConnectScript
<1>9. CASE EnterMainLoop
  <2>1. Life' = [Life EXCEPT !.phase = "up"]
    BY <1>0, <1>9 DEF EnterMainLoop, Life
  <2>2. Life.phase = "connecting" /\ Life.network = "configured"
    BY <1>0, <1>9 DEF EnterMainLoop, Life
  <2>3. QED
    BY <2>1, <2>2 DEF LivesOn, Lifecycle!Next, Lifecycle!Connecting,
       Lifecycle!ComeUp, Lifecycle!If
<1>10. CASE FailInOpenconnect
  BY <1>0, <1>10, LifeFails DEF FailInOpenconnect
<1>11. CASE Cancel
  <2>1. Life' = [Life EXCEPT !.cancelled = Cancelled \/ Hears]
    BY <1>0, <1>11, LifeCancelled DEF Cancel
  <2>2. Life.phase # "over" /\ Life.cancelled = Cancelled /\ Life.hears = Hears
    BY <1>0, <1>11 DEF Cancel, Life
  <2>3. QED
    BY <2>1, <2>2 DEF LivesOn, Lifecycle!Next, Lifecycle!Cancel, Lifecycle!If
<1>12. CASE RequestRefresh
  BY <1>0, <1>12, LifeStays DEF RequestRefresh
<1>13. CASE ReadCancel
  BY <1>0, <1>13, LifeStays DEF ReadCancel
<1>14. CASE ReadPause
  BY <1>0, <1>14, PauseReadInMainloop, LifeStays DEF ReadPause
<1>15. CASE ReadStats
  BY <1>0, <1>15, LifeStays DEF ReadStats
<1>16. CASE MainloopEnds
  BY <1>0, <1>16, LifeGoesDown DEF MainloopEnds
<1>17. CASE LeavePause
  BY <1>0, <1>17, LifeGoesDown, LifeStays DEF LeavePause
<1>18. CASE RunDisconnectScript
  <2>1. Phase = "ending" /\ Phase' = "ending" /\ Reachable' = Reachable
    BY <1>0, <1>18 DEF RunDisconnectScript
  <2>2. CASE network' = network
    BY <2>1, <2>2, LifeStays
  <2>3. CASE network' # network
    <3>1. network = "configured" /\ network' \in {"clean", "stuck"} /\ Reachable
      BY <1>0, <1>18, <2>3 DEF RunDisconnectScript, UndoConfiguration, HelperAnswers
    <3>2. Life' = [Life EXCEPT !.network = network']
      BY <2>1 DEF Life
    <3>3. Life.phase = "ending" /\ Life.network = "configured" /\ Life.reachable
      BY <2>1, <3>1 DEF Life
    <3>4. QED
      BY <3>1, <3>2, <3>3 DEF LivesOn, Lifecycle!Next, Lifecycle!Destruction,
         Lifecycle!Undo,
         Lifecycle!If
  <2>4. QED
    BY <2>2, <2>3
<1>19. CASE FreeSession
  <2>1. Life' \in [phase : {"over"}, network : {network}, reachable : BOOLEAN,
                   hears : {FALSE}, cancelled : {FALSE}]
    BY <1>0, <1>19 DEF FreeSession, Life
  <2>2. /\ Life.phase = "ending" /\ Life.network = network
        /\ Life.network = "configured" => ~Life.reachable
    BY <1>0, <1>19 DEF FreeSession, Life
  <2>3. QED
    BY <2>1, <2>2 DEF LivesOn, Lifecycle!Next, Lifecycle!Destruction,
       Lifecycle!Leave, Lifecycle!If
<1>20. CASE KilledBySigpipe
  <2>1. Life' = [Lifecycle!Ending(Life) EXCEPT !.phase = "over"]
    BY <1>0, <1>20, LifePerishes DEF KilledBySigpipe, WritesToHelper, ReadsCommands
  <2>2. Life.phase # "over" /\ ~Life.reachable
    BY <1>0, <1>20 DEF KilledBySigpipe, WritesToHelper, ReadsCommands, Life
  <2>3. QED
    BY <2>1, <2>2 DEF LivesOn, Lifecycle!Next, Lifecycle!Perish, Lifecycle!If
<1>21. CASE AnswerPrompt
  BY <1>0, <1>21, LifeFails, LifeStays DEF AnswerPrompt
<1>22. CASE AnswerPolkit
  <2>1. CASE helperProcess' = "running"
    BY <1>0, <1>22, <2>1, LifeStays DEF AnswerPolkit
  <2>2. CASE helperProcess' = "exited"
    <3>1. Life' = [Life EXCEPT !.reachable = FALSE]
      BY <1>0, <1>22, <2>2, LifeUnreachable DEF AnswerPolkit
    <3>2. Life.phase # "over"
      BY <1>0, <1>22 DEF AnswerPolkit, Life
    <3>3. QED
      BY <3>1, <3>2 DEF LivesOn, Lifecycle!Next, Lifecycle!LoseHelper, Lifecycle!If
  <2>3. QED
    BY <1>0, <1>22, <2>1, <2>2 DEF AnswerPolkit
<1>23. CASE HelperDies
  <2>1. Life' = [Life EXCEPT !.reachable = FALSE]
    BY <1>0, <1>23, LifeUnreachable DEF HelperDies
  <2>2. Life.phase # "over"
    BY <1>0, <1>23 DEF HelperDies, Life
  <2>3. QED
    BY <2>1, <2>2 DEF LivesOn, Lifecycle!Next, Lifecycle!LoseHelper, Lifecycle!If
<1>24. CASE DtlsComesUp
  BY <1>0, <1>24, LifeStays DEF DtlsComesUp
<1>25. CASE DtlsDrops
  BY <1>0, <1>25, LifeStays DEF DtlsDrops
<1>26. CASE ProbeMtu
  BY <1>0, <1>26, LifeStays DEF ProbeMtu
<1>27. CASE Tick
  BY <1>0, <1>27, LifeStays DEF Tick
<1>28. QED
  BY <1>1, <1>2, <1>3, <1>4, <1>5, <1>6, <1>7, <1>8, <1>9, <1>10, <1>11, <1>12, <1>13,
     <1>14, <1>15, <1>16, <1>17, <1>18, <1>19, <1>20, <1>21, <1>22, <1>23, <1>24,
     <1>25, <1>26, <1>27
     DEF Next, Connecting, ReadCommand, Ending, Environment

\* Whatever openconnect, the helper, the user and the network do, a session is what
\* SessionLifecycle promises its front ends, for every MTU, span and bound.
THEOREM Implementation == Spec => ImplementsLifecycle
<1>1. Init => Lifecycle!Init
  BY DEF Init, Lifecycle!Init, Lifecycle!NewLife, Life, Phase, CanEnd
<1>2. SessionInv /\ [Next]_vars => [Lifecycle!Next]_Life
  <2> SUFFICES ASSUME SessionInv, [Next]_vars
               PROVE  LivesOn \/ Life' = Life
    BY DEF LivesOn
  <2>1. CASE Next
    BY <2>1, TypesInHalves, StepLife DEF SessionInv
  <2>2. CASE UNCHANGED vars
    BY <2>2 DEF Life, Phase, CanEnd, vars, sessionVars, helperVars, kernelVars, historyVars
  <2>3. QED
    BY <2>1, <2>2
<1>3. QED
  BY <1>1, <1>2, Invariance, PTL DEF Spec, ImplementsLifecycle, Lifecycle!Spec

=============================================================================
