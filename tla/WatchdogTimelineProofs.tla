----------------------- MODULE WatchdogTimelineProofs -----------------------
(***************************************************************************)
(* What the watchdog promises holds for every grace, every window, every   *)
(* length of session and every way the wall clock is stepped.              *)
(*                                                                         *)
(* The properties are not inductive: they speak of real time and of the    *)
(* forward steps, the code of the wall clock.  The strengthening ties the  *)
(* two: since each mark the watchdog keeps, the wall clock has advanced by *)
(* at most the real time and the forward steps together.                   *)
(***************************************************************************)
EXTENDS WatchdogTimeline, TLAPS

\* The two halves of TypeOK, which different provers handle.
FlagsOK ==
    /\ seenUp \in BOOLEAN
    /\ actedOnThisLoss \in BOOLEAN
    /\ disabled \in BOOLEAN
    /\ verdict \in DtlsAction
    /\ upSinceVerdict \in BOOLEAN

TimesOK ==
    /\ lostSince \in Nat \cup {NotLost}
    /\ lastReconnect \in Nat \cup {NotLost}
    /\ wallClock \in Nat
    /\ realTime \in Nat
    /\ setForward \in Nat
    /\ observedDownAt \in Nat \cup {NotLost}
    /\ reconnectedAt \subseteq Nat
    /\ lastReconnectAt \in Nat \cup {NotLost}

\* A loss the watchdog is timing began, in its own observations, no later.
LossIsTracked ==
    /\ observedDownAt <= Elapsed
    /\ ~disabled /\ lostSince # NotLost =>
         /\ observedDownAt # NotLost
         /\ wallClock - lostSince <= Elapsed - observedDownAt

ReconnectIsTracked ==
    /\ lastReconnectAt <= Elapsed
    /\ lastReconnect # NotLost <=> lastReconnectAt # NotLost
    /\ lastReconnect # NotLost =>
         wallClock - lastReconnect <= Elapsed - lastReconnectAt
    /\ \A t \in reconnectedAt : t <= lastReconnectAt

\* A loss that may still be answered is one DTLS came up before, and it began
\* after the last reconnect.
UpIsTracked ==
    /\ ~disabled /\ seenUp /\ ~actedOnThisLoss => upSinceVerdict
    /\ upSinceVerdict /\ observedDownAt # NotLost =>
         observedDownAt >= lastReconnectAt

\* The parts that relate times, and the inductive invariant.
TimeInv ==
    /\ TimesOK
    /\ LossIsTracked
    /\ ReconnectIsTracked
    /\ UpIsTracked
    /\ ReconnectsSpaced
    /\ ActsOnlyOnSustainedLoss
    /\ GivesUpOnlyAfterReconnect

IInv == FlagsOK /\ TimeInv

-----------------------------------------------------------------------------
\* The invariant gives the component's own type invariant.
LEMMA IInvTypes == IInv => TypeOK
BY DEF IInv, TimeInv, FlagsOK, TimesOK, TypeOK, WatchdogTypeOK

\* The invariant holds when a session begins (dtls_watchdog.hpp:90-94).
LEMMA InitEstablishesIInv == Init => IInv
<1> SUFFICES ASSUME Init PROVE IInv
  OBVIOUS
<1>1. FlagsOK
  BY Zenon DEF Init, WatchdogInit, FlagsOK, DtlsAction
<1>2. TimesOK
  BY TimelineAssumption DEF Init, WatchdogInit, TimesOK, NotLost
<1>3. LossIsTracked /\ ReconnectIsTracked /\ UpIsTracked
  BY <1>2 DEF Init, WatchdogInit, TimesOK, LossIsTracked, ReconnectIsTracked,
     UpIsTracked, NotLost, Elapsed
<1>4. ReconnectsSpaced /\ ActsOnlyOnSustainedLoss /\ GivesUpOnlyAfterReconnect
  BY DEF Init, WatchdogInit, ReconnectsSpaced, ActsOnlyOnSustainedLoss,
     GivesUpOnlyAfterReconnect
<1>5. QED
  BY <1>1, <1>2, <1>3, <1>4 DEF IInv, TimeInv

\* Every step keeps the flags Boolean.
LEMMA StepKeepsFlags == ASSUME FlagsOK, [Next]_vars PROVE FlagsOK'
<1> USE DEF FlagsOK, DtlsAction
<1>1. CASE FeedUp
  BY <1>1, Zenon DEF FeedUp, Observe, ObserveDisabled, ObserveUp
<1>2. CASE FeedDown
  <2>1. upSinceVerdict' \in BOOLEAN
    BY <1>2, Zenon DEF FeedDown
  <2>2. CASE ObserveDisabled
    BY <2>1, <2>2, Zenon DEF ObserveDisabled
  <2>3. CASE ObserveDown(wallClock)
    BY <2>1, <2>3, Zenon DEF ObserveDown, ObserveNothingToRecover,
       ObserveLossBegins, ObserveWithinGrace, ObserveGiveUp, ObserveReconnect
  <2>4. QED
    BY <1>2, <2>2, <2>3 DEF FeedDown, Observe
<1>3. CASE \/ Tick \/ SetClockBack \/ SetClockForward
           \/ UNCHANGED vars
  BY <1>3, Zenon DEF Tick, SetClockBack, SetClockForward, vars, watchdogVars,
     clockVars, historyVars
<1>4. QED
  BY <1>1, <1>2, <1>3 DEF Next

\* An observation of an established cipher keeps the invariant.
LEMMA FeedUpKeepsTimeInv == ASSUME TimeInv, FeedUp PROVE TimeInv'
<1> USE SpansAssumption
    DEF FeedUp, TimeInv, TimesOK, LossIsTracked, ReconnectIsTracked,
        UpIsTracked, ReconnectsSpaced, ActsOnlyOnSustainedLoss,
        GivesUpOnlyAfterReconnect, NotLost, Elapsed, clockVars
<1>1. CASE ObserveDisabled
  BY <1>1 DEF ObserveDisabled
<1>2. CASE ObserveUp
  BY <1>2 DEF ObserveUp
<1>3. QED
  BY <1>1, <1>2 DEF Observe

\* An empty observation keeps the invariant, whichever way the function ends.
LEMMA FeedDownKeepsTimeInv == ASSUME TimeInv, FeedDown PROVE TimeInv'
<1> USE SpansAssumption DEF TimeInv, NotLost, Elapsed, clockVars
<1>1. CASE \/ ObserveDisabled
           \/ ObserveNothingToRecover
           \/ ObserveLossBegins(wallClock)
           \/ ObserveWithinGrace(wallClock)
  <2>1. /\ verdict' = "None"
        /\ UNCHANGED <<seenUp, actedOnThisLoss, disabled, lastReconnect>>
        /\ lostSince' = lostSince \/ lostSince' = wallClock
    BY <1>1 DEF ObserveDisabled, ObserveNothingToRecover, ObserveLossBegins,
       ObserveWithinGrace
  <2>2. /\ upSinceVerdict' = (upSinceVerdict /\ verdict' = "None")
        /\ UNCHANGED <<clockVars, reconnectedAt, lastReconnectAt>>
        /\ observedDownAt' = IF observedDownAt = NotLost THEN Elapsed
                                                         ELSE observedDownAt
    BY <2>1 DEF FeedDown
  <2>3. TimesOK' /\ LossIsTracked'
    BY <2>1, <2>2 DEF TimesOK, LossIsTracked
  <2>4. ReconnectIsTracked' /\ ReconnectsSpaced'
    BY <2>1, <2>2 DEF ReconnectIsTracked, ReconnectsSpaced
  <2>5. UpIsTracked'
    BY <2>1, <2>2 DEF TimesOK, ReconnectIsTracked, UpIsTracked
  <2>6. ActsOnlyOnSustainedLoss' /\ GivesUpOnlyAfterReconnect'
    BY <2>1, <2>2 DEF ActsOnlyOnSustainedLoss, GivesUpOnlyAfterReconnect
  <2>7. QED
    BY <2>3, <2>4, <2>5, <2>6
<1>2. CASE ObserveGiveUp(wallClock) \/ ObserveReconnect(wallClock)
  <2>1. LossOutlastsGrace(wallClock) /\ UNCHANGED <<seenUp, lostSince>>
    BY <1>2 DEF ObserveGiveUp, ObserveReconnect
  <2>2. /\ ~disabled /\ seenUp /\ ~actedOnThisLoss
        /\ lostSince # NotLost
        /\ wallClock - lostSince >= LostGraceSeconds
    BY <2>1 DEF LossOutlastsGrace, RecoverableLoss
  <2>3. /\ observedDownAt # NotLost
        /\ Elapsed - observedDownAt >= LostGraceSeconds
        /\ observedDownAt >= lastReconnectAt
    BY <2>2 DEF TimesOK, LossIsTracked, UpIsTracked
  <2>4. /\ UNCHANGED <<clockVars, observedDownAt>>
        /\ ~upSinceVerdict' /\ actedOnThisLoss'
    BY <1>2, <2>3 DEF FeedDown, ObserveGiveUp, ObserveReconnect
  <2>5. LossIsTracked' /\ UpIsTracked' /\ ActsOnlyOnSustainedLoss'
    BY <2>1, <2>2, <2>3, <2>4 DEF LossIsTracked, UpIsTracked,
       ActsOnlyOnSustainedLoss
  <2>6. CASE ObserveGiveUp(wallClock)
    <3>1. /\ disabled' /\ lastReconnect # NotLost
          /\ UNCHANGED <<lastReconnect, reconnectedAt, lastReconnectAt>>
      BY <2>6 DEF FeedDown, ObserveGiveUp, ReconnectedRecently
    <3>2. TimesOK' /\ ReconnectIsTracked' /\ ReconnectsSpaced'
      BY <2>1, <2>4, <3>1 DEF TimesOK, ReconnectIsTracked, ReconnectsSpaced
    <3>3. GivesUpOnlyAfterReconnect'
      BY <2>3, <2>4, <3>1 DEF TimesOK, ReconnectIsTracked,
         GivesUpOnlyAfterReconnect
    <3>4. QED
      BY <2>5, <3>2, <3>3
  <2>7. CASE ObserveReconnect(wallClock)
    <3>1. /\ ~disabled'
          /\ lastReconnect' = wallClock
          /\ reconnectedAt' = reconnectedAt \cup {Elapsed}
          /\ lastReconnectAt' = Elapsed
      BY <2>2, <2>7 DEF FeedDown, ObserveReconnect
    <3>2. TimesOK'
      BY <2>1, <2>4, <3>1 DEF TimesOK
    <3>3. ReconnectIsTracked'
      BY <2>4, <3>1 DEF TimesOK, ReconnectIsTracked
    <3>4. lastReconnect # NotLost =>
            wallClock - lastReconnect >= ReconnectWindowSeconds
      BY <2>7 DEF ObserveReconnect, ReconnectedRecently, TimesOK
    <3>5. \A t \in reconnectedAt : Elapsed - t >= ReconnectWindowSeconds
      BY <3>4 DEF TimesOK, ReconnectIsTracked
    <3>6. ReconnectsSpaced'
      BY <3>1, <3>5 DEF TimesOK, ReconnectsSpaced
    <3>7. GivesUpOnlyAfterReconnect'
      BY <3>1 DEF GivesUpOnlyAfterReconnect
    <3>8. QED
      BY <2>5, <3>2, <3>3, <3>6, <3>7
  <2>8. QED
    BY <1>2, <2>6, <2>7
<1>3. QED
  BY <1>1, <1>2 DEF FeedDown, Observe, ObserveDown

\* Neither the passing of time nor a step of the clock, back or forward,
\* breaks it: a forward step is counted like the time it pretends to be.
LEMMA ClockKeepsTimeInv ==
    ASSUME TimeInv, Tick \/ SetClockBack \/ SetClockForward PROVE TimeInv'
<1> USE SpansAssumption, TimelineAssumption DEF TimeInv, NotLost
<1>1. /\ UNCHANGED <<seenUp, actedOnThisLoss, disabled, verdict>>
      /\ UNCHANGED <<lostSince, lastReconnect>>
      /\ UNCHANGED <<observedDownAt, upSinceVerdict>>
      /\ UNCHANGED <<reconnectedAt, lastReconnectAt>>
  BY DEF Tick, SetClockBack, SetClockForward, watchdogVars, historyVars
<1>2. PICK passed \in Nat, back \in Nat :
        /\ Elapsed' = Elapsed + passed
        /\ wallClock' = wallClock + passed - back
        /\ wallClock' \in Nat
        /\ realTime' \in Nat /\ setForward' \in Nat
        /\ Elapsed \in Nat
  <2>1. CASE Tick
    BY <2>1 DEF Tick, TimesOK, Elapsed
  <2>2. CASE SetClockBack
    BY <2>2 DEF SetClockBack, TimesOK, Elapsed
  <2>3. CASE SetClockForward
    BY <2>3 DEF SetClockForward, TimesOK, Elapsed
  <2>4. QED
    BY <2>1, <2>2, <2>3
<1>3. TimesOK' /\ UpIsTracked' /\ ReconnectsSpaced'
  BY <1>1, <1>2 DEF TimesOK, UpIsTracked, ReconnectsSpaced
<1>4. LossIsTracked' /\ ReconnectIsTracked'
  BY <1>1, <1>2 DEF TimesOK, LossIsTracked, ReconnectIsTracked
<1>5. ActsOnlyOnSustainedLoss' /\ GivesUpOnlyAfterReconnect'
  BY <1>1, <1>2 DEF TimesOK, ActsOnlyOnSustainedLoss,
     GivesUpOnlyAfterReconnect
<1>6. QED
  BY <1>3, <1>4, <1>5

-----------------------------------------------------------------------------
\* The inductive invariant of the timeline.
THEOREM Invariance == Spec => []IInv
<1>1. Init => IInv
  BY InitEstablishesIInv
<1>2. IInv /\ [Next]_vars => IInv'
  <2> SUFFICES ASSUME IInv, [Next]_vars PROVE IInv'
    OBVIOUS
  <2>1. FlagsOK'
    BY StepKeepsFlags DEF IInv
  <2>2. CASE FeedUp
    BY <2>1, <2>2, FeedUpKeepsTimeInv DEF IInv
  <2>3. CASE FeedDown
    BY <2>1, <2>3, FeedDownKeepsTimeInv DEF IInv
  <2>4. CASE Tick \/ SetClockBack \/ SetClockForward
    BY <2>1, <2>4, ClockKeepsTimeInv DEF IInv
  <2>5. CASE UNCHANGED vars
    BY <2>1, <2>5 DEF vars, watchdogVars, clockVars, historyVars, Elapsed, IInv, TimeInv, TimesOK,
       LossIsTracked, ReconnectIsTracked, UpIsTracked, ReconnectsSpaced,
       ActsOnlyOnSustainedLoss, GivesUpOnlyAfterReconnect
  <2>6. QED
    BY <2>2, <2>3, <2>4, <2>5 DEF Next
<1>3. QED
  BY <1>1, <1>2, PTL DEF Spec

\* The variables keep their types, whatever the spans of time are.
THEOREM TypeCorrect == Spec => []TypeOK
BY Invariance, IInvTypes, PTL

\* The tunnel is not flapped: reconnects stay a window of real time apart, less
\* the forward steps of the wall clock in between (dtls_watchdog.hpp:31-34).
THEOREM Spacing == Spec => []ReconnectsSpaced
<1>1. IInv => ReconnectsSpaced
  BY DEF IInv, TimeInv
<1>2. QED
  BY <1>1, Invariance, PTL

\* A rekey in flight is left alone for the grace, less the forward steps of the
\* wall clock since the loss was first observed (dtls_watchdog.hpp:25-29).
THEOREM SustainedLoss == Spec => []ActsOnlyOnSustainedLoss
<1>1. IInv => ActsOnlyOnSustainedLoss
  BY DEF IInv, TimeInv
<1>2. QED
  BY <1>1, Invariance, PTL

\* DTLS is not given up before a reconnect got the grace, less the forward
\* steps of the wall clock since, and then for good (dtls_watchdog.hpp:40-43).
THEOREM GivingUp == Spec => []GivesUpOnlyAfterReconnect
<1>1. IInv => GivesUpOnlyAfterReconnect
  BY DEF IInv, TimeInv
<1>2. QED
  BY <1>1, Invariance, PTL

\* Every intervention answers a loss that DTLS came up before.
THEOREM OncePerLoss == Spec => ActsOncePerLoss
<1>1. IInv /\ [Next]_vars =>
        [(disabled' /\ ~disabled) \/ reconnectedAt' # reconnectedAt
            => upSinceVerdict]_vars
  <2> SUFFICES ASSUME IInv, Next,
                      (disabled' /\ ~disabled) \/ reconnectedAt' # reconnectedAt
               PROVE upSinceVerdict
    OBVIOUS
  <2>1. RecoverableLoss
    <3>1. CASE FeedUp
      BY <3>1 DEF FeedUp, Observe, ObserveUp, ObserveDisabled
    <3>2. CASE FeedDown
      BY <3>2 DEF FeedDown, Observe, ObserveDisabled, ObserveDown,
         ObserveNothingToRecover, ObserveLossBegins, ObserveWithinGrace,
         ObserveGiveUp, ObserveReconnect, LossOutlastsGrace
    <3>3. CASE Tick \/ SetClockBack \/ SetClockForward
      BY <3>3 DEF Tick, SetClockBack, SetClockForward, watchdogVars, historyVars
    <3>4. QED
      BY <3>1, <3>2, <3>3 DEF Next
  <2>2. QED
    BY <2>1 DEF IInv, TimeInv, UpIsTracked, RecoverableLoss
<1>2. QED
  BY <1>1, Invariance, PTL DEF Spec, ActsOncePerLoss

=============================================================================
