--------------------------- MODULE PrivilegedCalls ---------------------------
(***************************************************************************)
(* What PrivilegedClient promises VpnSession, with no sockets and no second *)
(* process: a call is performed or refused once, as it was asked for, and  *)
(* it returns success only if it was performed; once the helper is lost,   *)
(* every call fails.                                                       *)
(***************************************************************************)

VARIABLES
    call,     \* the call the session waits for, or "none"
    effect,   \* what became of it: "idle" when nothing is asked for
    lost,     \* the helper or its client is gone
    outcome   \* how the latest call returned: "none", "ok" or "failed"

vars == <<call, effect, lost, outcome>>

Calls == {"SETUP", "MTU", "connect", "disconnect"}

Init ==
    /\ call = "none"
    /\ effect = "idle"
    /\ lost \in BOOLEAN
    /\ outcome = "none"

Ask(c) ==
    /\ ~lost
    /\ call = "none"
    /\ effect = "idle"
    /\ call' = c
    /\ effect' = "asked"
    /\ UNCHANGED <<lost, outcome>>

\* A client that dies does not stop what it asked for.
Perform ==
    /\ effect = "asked"
    /\ effect' \in {"performed", "refused"}
    /\ UNCHANGED <<call, lost, outcome>>

\* The helper may be gone by the time its reply is read.
Return ==
    /\ ~lost
    /\ call # "none"
    /\ effect \in {"performed", "refused"}
    /\ call' = "none"
    /\ effect' = "idle"
    /\ outcome' = IF effect = "performed" THEN "ok" ELSE "failed"
    /\ lost' \in BOOLEAN

Lose ==
    /\ ~lost
    /\ lost' = TRUE
    /\ call' = "none"
    /\ effect' \in {effect, "idle"}
    /\ UNCHANGED outcome

FailLost ==
    /\ lost
    /\ outcome' \in {outcome, "failed"}
    /\ effect' \in {effect, "idle"}
    /\ UNCHANGED <<call, lost>>

Next == (\E c \in Calls : Ask(c)) \/ Perform \/ Return \/ Lose \/ FailLost

Spec == Init /\ [][Next]_vars

=============================================================================
