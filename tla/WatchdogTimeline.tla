-------------------------- MODULE WatchdogTimeline --------------------------
(***************************************************************************)
(* The watchdog under an arbitrary timeline: DTLS comes and goes, the      *)
(* mainloop observes it whenever it likes, and the clock the watchdog is   *)
(* given (time(nullptr) in VpnSession::WatchDtls) is the wall clock, which *)
(* an administrator or NTP may step back or forward while the session      *)
(* runs.  A step back costs the watchdog patience; a step forward it takes *)
(* for time that passed, so its promises hold of Elapsed below and, where  *)
(* no forward step lies in between, of real time.                          *)
(*                                                                         *)
(* realTime, setForward, observedDownAt, upSinceVerdict and reconnectedAt  *)
(* are history: nothing in the watchdog reads them.                        *)
(***************************************************************************)
EXTENDS DtlsWatchdog

CONSTANTS
    Horizon,        \* how long a session is followed, in ticks of real time
    MaxSetBack,     \* by how much the wall clock may be set back at once
    MaxSetForward   \* by how much it is set forward in a session, in all

ASSUME TimelineAssumption ==
    /\ Horizon \in Nat
    /\ MaxSetBack \in Nat
    /\ MaxSetForward \in Nat

VARIABLES
    wallClock,        \* what time(nullptr) returns
    realTime,         \* time that really passed since the session began
    setForward,       \* the sum of the forward steps of the wall clock so far
    observedDownAt,   \* Elapsed at the first of the present run of empty
                      \* observations, or NotLost
    upSinceVerdict,   \* DTLS was observed up since the watchdog last acted
    reconnectedAt,    \* Elapsed at each Reconnect that was returned
    lastReconnectAt   \* the latest of them, or NotLost

clockVars == <<wallClock, realTime, setForward>>
historyVars ==
    <<observedDownAt, upSinceVerdict, reconnectedAt, lastReconnectAt>>
vars == <<watchdogVars, clockVars, historyVars>>

\* The real time that passed, and the forward steps of the clock, which no
\* reader of time(nullptr) can tell from it: two moments with no forward step
\* between them are exactly as far apart in Elapsed as in real time.
Elapsed == realTime + setForward

TypeOK ==
    /\ WatchdogTypeOK
    /\ wallClock \in Nat
    /\ realTime \in Nat
    /\ setForward \in Nat
    /\ observedDownAt \in Nat \cup {NotLost}
    /\ upSinceVerdict \in BOOLEAN
    /\ reconnectedAt \subseteq Nat
    /\ lastReconnectAt \in Nat \cup {NotLost}

Init ==
    /\ WatchdogInit
    /\ wallClock \in 0..MaxSetBack
    /\ realTime = 0
    /\ setForward = 0
    /\ observedDownAt = NotLost
    /\ upSinceVerdict = FALSE
    /\ reconnectedAt = {}
    /\ lastReconnectAt = NotLost

-----------------------------------------------------------------------------
\* One observation, and what the history remembers of it.
FeedUp ==
    /\ Observe(TRUE, wallClock)
    /\ observedDownAt' = NotLost
    /\ upSinceVerdict' = TRUE
    /\ UNCHANGED <<clockVars, reconnectedAt, lastReconnectAt>>

FeedDown ==
    /\ Observe(FALSE, wallClock)
    /\ observedDownAt' = IF observedDownAt = NotLost THEN Elapsed
                                                     ELSE observedDownAt
    /\ upSinceVerdict' = (upSinceVerdict /\ verdict' = "None")
    /\ IF verdict' = "Reconnect"
         THEN /\ reconnectedAt' = reconnectedAt \cup {Elapsed}
              /\ lastReconnectAt' = Elapsed
         ELSE UNCHANGED <<reconnectedAt, lastReconnectAt>>
    /\ UNCHANGED clockVars

Tick ==
    /\ realTime < Horizon
    /\ realTime' = realTime + 1
    /\ wallClock' = wallClock + 1
    /\ UNCHANGED <<watchdogVars, setForward, historyVars>>

SetClockBack ==
    /\ \E back \in 1..MaxSetBack :
         /\ back <= wallClock
         /\ wallClock' = wallClock - back
    /\ UNCHANGED <<watchdogVars, realTime, setForward, historyVars>>

SetClockForward ==
    /\ \E ahead \in 1..MaxSetForward :
         /\ setForward + ahead <= MaxSetForward
         /\ wallClock' = wallClock + ahead
         /\ setForward' = setForward + ahead
    /\ UNCHANGED <<watchdogVars, realTime, historyVars>>

Next == FeedUp \/ FeedDown \/ Tick \/ SetClockBack \/ SetClockForward

Spec == Init /\ [][Next]_vars

-----------------------------------------------------------------------------
(***************************************************************************)
(* What the watchdog promises the tunnel.                                  *)
(***************************************************************************)

\* The tunnel is not flapped: any two reconnects of a session are at least
\* ReconnectWindowSeconds of real time apart, however the wall clock the code
\* compares with is set back in between, except for what it was stepped forward
\* between the two (dtls_watchdog.hpp:31-34 and 72-78, vpn_session.hpp:479).
ReconnectsSpaced ==
    \A s, t \in reconnectedAt : s < t => t - s >= ReconnectWindowSeconds

\* A rekey in flight is left alone: the watchdog only acts on a loss that every
\* observation since at least LostGraceSeconds of real time, less the forward
\* steps of the clock since then, has reported (dtls_watchdog.hpp:25-29 and
\* 59-68).
ActsOnlyOnSustainedLoss ==
    verdict # "None" =>
        /\ observedDownAt # NotLost
        /\ Elapsed - observedDownAt >= LostGraceSeconds

\* Between two interventions DTLS was seen up: a reconnect that did not bring
\* DTLS back is neither repeated nor taken for flaky UDP, and a session that
\* never had DTLS is never disturbed (dtls_watchdog.hpp:53-57, actedOnThisLoss).
ActsOncePerLoss ==
    [][(disabled' /\ ~disabled) \/ reconnectedAt' # reconnectedAt
         => upSinceVerdict]_vars

\* DTLS is given up only after a reconnect got its chance: the latest one is at
\* least LostGraceSeconds old, less the forward steps of the clock since, and
\* none ever follows (dtls_watchdog.hpp:40-43 and 70-76,
\* tst_dtls_watchdog.cpp:121-136).
GivesUpOnlyAfterReconnect ==
    disabled => /\ lastReconnectAt # NotLost
                /\ Elapsed - lastReconnectAt >= LostGraceSeconds

=============================================================================
