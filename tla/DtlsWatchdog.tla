---------------------------- MODULE DtlsWatchdog ----------------------------
(***************************************************************************)
(* The class of core/dtls_watchdog.hpp: it is fed one observation of the   *)
(* DTLS cipher at a time and answers whether the session must reconnect,   *)
(* give DTLS up, or do nothing.  The clock is an argument, as in the code; *)
(* the modules that extend this one say who feeds it and when.             *)
(***************************************************************************)
EXTENDS Integers

CONSTANTS
    LostGraceSeconds,        \* how long an empty cipher may be a rekey in flight
    ReconnectWindowSeconds   \* a second loss this soon means flaky UDP

\* Both are positive spans of time; the code fixes them to 15 and 1800.
ASSUME SpansAssumption ==
    /\ LostGraceSeconds \in Nat \ {0}
    /\ ReconnectWindowSeconds \in Nat \ {0}

VARIABLES
    seenUp,            \* a DTLS cipher has been reported at least once
    actedOnThisLoss,   \* the present loss has already been answered
    disabled,          \* DTLS was given up for the rest of the session
    lostSince,         \* the clock at the first empty observation, or NotLost
    lastReconnect,     \* the clock at the last Reconnect, or NotLost
    verdict            \* the DtlsAction returned by the latest observation

watchdogVars ==
    <<seenUp, actedOnThisLoss, disabled, lostSince, lastReconnect, verdict>>

NotLost == -1

DtlsAction == {"None", "Reconnect", "Disable"}

WatchdogTypeOK ==
    /\ seenUp \in BOOLEAN
    /\ actedOnThisLoss \in BOOLEAN
    /\ disabled \in BOOLEAN
    /\ lostSince \in Nat \cup {NotLost}
    /\ lastReconnect \in Nat \cup {NotLost}
    /\ verdict \in DtlsAction

WatchdogInit ==
    /\ seenUp = FALSE
    /\ actedOnThisLoss = FALSE
    /\ disabled = FALSE
    /\ lostSince = NotLost
    /\ lastReconnect = NotLost
    /\ verdict = "None"

-----------------------------------------------------------------------------
(***************************************************************************)
(* Observe(established, now), one disjunct per way out of the function.    *)
(***************************************************************************)

\* Nothing is ever asked for again once DTLS was given up.
ObserveDisabled ==
    /\ disabled
    /\ verdict' = "None"
    /\ UNCHANGED <<seenUp, actedOnThisLoss, disabled, lostSince, lastReconnect>>

\* A slip: coming back up does not forget when the loss began.
ObserveUpKeepsLoss ==
    /\ ~disabled
    /\ seenUp' = TRUE
    /\ actedOnThisLoss' = FALSE
    /\ verdict' = "None"
    /\ UNCHANGED <<disabled, lostSince, lastReconnect>>

ObserveUp ==
    /\ ~disabled
    /\ seenUp' = TRUE
    /\ lostSince' = NotLost
    /\ actedOnThisLoss' = FALSE
    /\ verdict' = "None"
    /\ UNCHANGED <<disabled, lastReconnect>>

\* No DTLS to recover: it never came up, or this loss was already answered.
ObserveNothingToRecover ==
    /\ ~disabled
    /\ ~seenUp \/ actedOnThisLoss
    /\ verdict' = "None"
    /\ UNCHANGED <<seenUp, actedOnThisLoss, disabled, lostSince, lastReconnect>>

RecoverableLoss == ~disabled /\ seenUp /\ ~actedOnThisLoss

\* A slip: the grace is counted from before the loss.
ObserveLossBackdated(now) ==
    /\ RecoverableLoss
    /\ lostSince = NotLost
    /\ lostSince' = now - LostGraceSeconds
    /\ verdict' = "None"
    /\ UNCHANGED <<seenUp, actedOnThisLoss, disabled, lastReconnect>>

ObserveLossBegins(now) ==
    /\ RecoverableLoss
    /\ lostSince = NotLost
    /\ lostSince' = now
    /\ verdict' = "None"
    /\ UNCHANGED <<seenUp, actedOnThisLoss, disabled, lastReconnect>>

ObserveWithinGrace(now) ==
    /\ RecoverableLoss
    /\ lostSince # NotLost
    /\ now - lostSince < LostGraceSeconds
    /\ verdict' = "None"
    /\ UNCHANGED <<seenUp, actedOnThisLoss, disabled, lostSince, lastReconnect>>

LossOutlastsGrace(now) ==
    /\ RecoverableLoss
    /\ lostSince # NotLost
    /\ now - lostSince >= LostGraceSeconds

\* Slips: the grace instead of the window; the sentinel taken for a time.
ReconnectedWithinGrace(now) ==
    /\ lastReconnect # NotLost
    /\ now - lastReconnect < LostGraceSeconds

SentinelIsATime(now) == now - lastReconnect < ReconnectWindowSeconds

ReconnectedRecently(now) ==
    /\ lastReconnect # NotLost
    /\ now - lastReconnect < ReconnectWindowSeconds

ObserveGiveUp(now) ==
    /\ LossOutlastsGrace(now)
    /\ ReconnectedRecently(now)
    /\ actedOnThisLoss' = TRUE
    /\ disabled' = TRUE
    /\ verdict' = "Disable"
    /\ UNCHANGED <<seenUp, lostSince, lastReconnect>>

\* A slip: the loss is not marked as answered.
ObserveReconnectUnmarked(now) ==
    /\ LossOutlastsGrace(now)
    /\ ~ReconnectedRecently(now)
    /\ lastReconnect' = now
    /\ verdict' = "Reconnect"
    /\ UNCHANGED <<seenUp, actedOnThisLoss, disabled, lostSince>>

ObserveReconnect(now) ==
    /\ LossOutlastsGrace(now)
    /\ ~ReconnectedRecently(now)
    /\ actedOnThisLoss' = TRUE
    /\ lastReconnect' = now
    /\ verdict' = "Reconnect"
    /\ UNCHANGED <<seenUp, disabled, lostSince>>

ObserveDown(now) ==
    \/ ObserveNothingToRecover
    \/ ObserveLossBegins(now)
    \/ ObserveWithinGrace(now)
    \/ ObserveGiveUp(now)
    \/ ObserveReconnect(now)

Observe(established, now) ==
    \/ ObserveDisabled
    \/ established /\ ObserveUp
    \/ ~established /\ ObserveDown(now)

=============================================================================
