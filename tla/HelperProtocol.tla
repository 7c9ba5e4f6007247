--------------------------- MODULE HelperProtocol ---------------------------
(***************************************************************************)
(* The two ends of the helper's socket once it is accepted: the client     *)
(* (PrivilegedClient, called by VpnSession in the worker thread) and the   *)
(* helper process (main_helper.cpp), each blocking in read(2) on a stream  *)
(* that is reliable and ordered and ends when the peer is gone.  A stream  *)
(* is a sequence of lines (tun_protocol.hpp); either process may die.      *)
(*                                                                         *)
(* An environment block is a sequence of lines that fit ReadLine's limit   *)
(* and lines that do not, a long CISCO_SPLIT_DNS for one.                  *)
(***************************************************************************)
EXTENDS Naturals, Sequences

CONSTANTS
    MaxLines,      \* lines of the environment block, at most
    MayOverflow,   \* a line may be longer than ReadLine accepts
    MaxMtus,       \* MTU corrections in a session, at most
    ClientMayDie,
    HelperMayDie

ASSUME ProtocolAssumption ==
    /\ MaxLines \in Nat
    /\ MaxMtus \in Nat
    /\ {MayOverflow, ClientMayDie, HelperMayDie} \subseteq BOOLEAN

VARIABLES
    env,        \* the block VpncEnvironment::Build makes for this tunnel
    next,       \* the call VpnSession makes next, "BYE" for Stop()
    client,     \* "ready", "writing" a block, "waiting", "stopped" or "dead"
    call,       \* the call under way, or "none"
    unsent,     \* the lines of the block still to be written
    outcome,    \* how the latest call returned
    mtus,       \* corrections made so far
    toHelper,   \* lines on their way to the helper
    toClient,   \* replies, OK or not, on their way to the client
    helper,     \* where the helper is
    request,    \* the request it serves, or "none"
    kept,       \* environment lines it has read for it
    success     \* what its reply will say

clientVars == <<env, next, client, call, unsent, outcome, mtus>>
helperVars == <<helper, request, kept, success>>
vars == <<clientVars, toHelper, toClient, helperVars>>

Calls == {"SETUP", "MTU", "connect", "disconnect"}
EnvLine == {"fits", "overlong"}
Lines == Calls \cup {"BYE", "blank", "rest"} \cup EnvLine
HelperAt == {"command", "environment", "perform", "reply", "done"}

TypeOK ==
    /\ env \in Seq(EnvLine) /\ Len(env) <= MaxLines
    /\ next \in Calls \cup {"BYE"}
    /\ client \in {"ready", "writing", "waiting", "stopped", "dead"}
    /\ call \in Calls \cup {"none"}
    /\ unsent \in Seq(EnvLine \cup {"blank"})
    /\ outcome \in {"none", "ok", "failed"}
    /\ mtus \in 0..MaxMtus
    /\ toHelper \in Seq(Lines)
    /\ toClient \in Seq(BOOLEAN)
    /\ helper \in HelperAt
    /\ request \in Calls \cup {"none"}
    /\ kept \in 0..MaxLines
    /\ success \in BOOLEAN

Blocks ==
    UNION {[1..n -> IF MayOverflow THEN EnvLine ELSE {"fits"}] : n \in 0..MaxLines}

Init ==
    /\ env \in Blocks
    /\ next = "SETUP"
    /\ client = "ready"
    /\ call = "none"
    /\ unsent = <<>>
    /\ outcome = "none"
    /\ mtus = 0
    /\ toHelper = <<>>
    /\ toClient = <<>>
    /\ helper = "command"
    /\ request = "none"
    /\ kept = 0
    /\ success = FALSE

HelperGone == helper = "done"
ClientGone == client \in {"stopped", "dead"}

-----------------------------------------------------------------------------
(***************************************************************************)
(* The client.                                                             *)
(***************************************************************************)

\* What VpnSession calls once a call has returned: SetupTun goes on to the
\* script, Destroy undoes what was set up, the mainloop corrects the MTU.
NextCalls(c, ok) ==
    IF c = "SETUP" THEN IF ok THEN {"connect"} ELSE {"BYE"}
    ELSE IF c = "disconnect" THEN {"BYE"}
    ELSE IF c = "connect" /\ ~ok THEN {"disconnect"}
    ELSE IF mtus < MaxMtus THEN {"MTU", "disconnect"} ELSE {"disconnect"}

Return(c, ok) ==
    /\ client' = "ready"
    /\ call' = "none"
    /\ unsent' = <<>>
    /\ outcome' = IF ok THEN "ok" ELSE "failed"
    /\ next' \in NextCalls(c, ok)
    /\ mtus' = IF next' = "MTU" THEN mtus + 1 ELSE mtus

\* The first line of a call: SETUP and MTU then wait for the reply, SCRIPT is
\* followed by its block.
SendRequest ==
    /\ client = "ready"
    /\ next \in Calls
    /\ ~HelperGone
    /\ toHelper' = Append(toHelper, next)
    /\ call' = next
    /\ IF next \in {"connect", "disconnect"}
         THEN client' = "writing" /\ unsent' = Append(env, "blank")
         ELSE client' = "waiting" /\ UNCHANGED unsent
    /\ UNCHANGED <<env, next, outcome, mtus, toClient, helperVars>>

SendEnvLine ==
    /\ client = "writing"
    /\ ~HelperGone
    /\ toHelper' = Append(toHelper, Head(unsent))
    /\ unsent' = Tail(unsent)
    /\ client' = IF unsent' = <<>> THEN "waiting" ELSE "writing"
    /\ UNCHANGED <<env, next, call, outcome, mtus, toClient, helperVars>>

\* A write to a helper that is gone fails the call (the blank line's failure is
\* ignored), or raises SIGPIPE, which nothing in this code handles or ignores.
WriteFails ==
    /\ HelperGone
    /\ \/ client = "ready" /\ next \in Calls /\ Return(next, FALSE)
       \/ client = "writing" /\ unsent # <<"blank">> /\ Return(call, FALSE)
       \/ /\ client = "writing" /\ unsent = <<"blank">>
          /\ client' = "waiting"
          /\ unsent' = <<>>
          /\ UNCHANGED <<next, call, outcome, mtus>>
       \/ /\ client \in {"ready", "writing"}
          /\ client' = "dead"
          /\ UNCHANGED <<next, call, unsent, outcome, mtus>>
    /\ toClient' = IF client' = "dead" THEN <<>> ELSE toClient
    /\ UNCHANGED <<env, toHelper, helperVars>>

\* A reply, or the end of the stream.
TakeReply ==
    /\ client = "waiting"
    /\ toClient # <<>>
    /\ Return(call, Head(toClient))
    /\ toClient' = Tail(toClient)
    /\ UNCHANGED <<env, toHelper, helperVars>>

SeeEnd ==
    /\ client = "waiting"
    /\ toClient = <<>>
    /\ HelperGone
    /\ Return(call, FALSE)
    /\ UNCHANGED <<env, toHelper, toClient, helperVars>>

\* Stop(): BYE, and the socket is closed.
Stop ==
    /\ client = "ready"
    /\ next = "BYE"
    /\ client' = "stopped"
    /\ toHelper' = IF HelperGone THEN toHelper ELSE Append(toHelper, "BYE")
    /\ toClient' = <<>>
    /\ UNCHANGED <<env, next, call, unsent, outcome, mtus, helperVars>>

ClientDies ==
    /\ ClientMayDie
    /\ ~ClientGone
    /\ client' = "dead"
    /\ toClient' = <<>>
    /\ UNCHANGED <<env, next, call, unsent, outcome, mtus, toHelper, helperVars>>

-----------------------------------------------------------------------------
(***************************************************************************)
(* The helper.                                                             *)
(***************************************************************************)

\* The command loop; a line longer than the limit ends it, like BYE.
ReadCommand ==
    /\ helper = "command"
    /\ toHelper # <<>>
    /\ LET line == Head(toHelper) IN
         /\ helper' = IF line \in {"BYE", "overlong"} THEN "done"
                      ELSE IF line \in {"SETUP", "MTU"} THEN "perform"
                      ELSE IF line \in Calls THEN "environment"
                      ELSE "reply"
         /\ request' = IF line \in Calls THEN line ELSE "none"
         /\ toHelper' = IF helper' = "done" THEN <<>> ELSE Tail(toHelper)
    /\ kept' = 0
    /\ success' = FALSE
    /\ UNCHANGED <<clientVars, toClient>>

\* Slips: the block ends when no more of it has arrived; the blank line does not
\* end it.
ReadWhatArrived ==
    /\ helper = "environment"
    /\ toHelper # <<>>
    /\ helper' = IF Tail(toHelper) = <<>> THEN "perform" ELSE "environment"
    /\ kept' = IF Head(toHelper) = "fits" THEN kept + 1 ELSE kept
    /\ toHelper' = Tail(toHelper)
    /\ UNCHANGED <<clientVars, toClient, request, success>>

SkipBlankLine ==
    /\ helper = "environment"
    /\ toHelper # <<>>
    /\ kept' = IF Head(toHelper) = "fits" THEN kept + 1 ELSE kept
    /\ toHelper' = Tail(toHelper)
    /\ UNCHANGED <<clientVars, toClient, helper, request, success>>

\* HandleScript's loop ends at the blank line, and as well at a line ReadLine
\* does not take, whose rest stays in the stream.
ReadEnvLine ==
    /\ helper = "environment"
    /\ toHelper # <<>>
    /\ helper' = IF Head(toHelper) = "fits" THEN "environment" ELSE "perform"
    /\ kept' = IF Head(toHelper) = "fits" THEN kept + 1 ELSE kept
    /\ IF Head(toHelper) = "overlong"
         THEN \E rest \in {"rest", "overlong"} :
                toHelper' = <<rest>> \o Tail(toHelper)
         ELSE toHelper' = Tail(toHelper)
    /\ UNCHANGED <<clientVars, toClient, request, success>>

\* A slip: the command loop goes on reading after the stream ended.
IgnoreEndOfCommands ==
    /\ toHelper = <<>>
    /\ ClientGone
    /\ helper = "environment" /\ helper' = "perform"
    /\ UNCHANGED <<clientVars, toHelper, toClient, request, kept, success>>

\* ReadLine finds the stream ended: the command loop ends, the block as well.
HelperSeesEnd ==
    /\ toHelper = <<>>
    /\ ClientGone
    /\ \/ helper = "command" /\ helper' = "done"
       \/ helper = "environment" /\ helper' = "perform"
    /\ UNCHANGED <<clientVars, toHelper, toClient, request, kept, success>>

\* The tun device, the MTU or the script: it works or it does not.
Perform ==
    /\ helper = "perform"
    /\ helper' = "reply"
    /\ success' \in BOOLEAN
    /\ UNCHANGED <<clientVars, toHelper, toClient, request, kept>>

\* A slip: OK whatever became of the request.
AlwaysReplyOk ==
    /\ helper = "reply"
    /\ ~ClientGone
    /\ helper' = "command"
    /\ request' = "none"
    /\ toClient' = Append(toClient, TRUE)
    /\ UNCHANGED <<clientVars, toHelper, kept, success>>

\* A reply, to an unknown command as well.
SendReply ==
    /\ helper = "reply"
    /\ ~ClientGone
    /\ helper' = "command"
    /\ request' = "none"
    /\ toClient' = Append(toClient, success)
    /\ UNCHANGED <<clientVars, toHelper, kept, success>>

\* With the client gone the reply fails and ends the helper, unless SIGPIPE is
\* ignored and it was an error whose sending nobody checks.
ReplyFails ==
    /\ helper = "reply"
    /\ ClientGone
    /\ \/ helper' = "done"
       \/ ~success /\ request \in {"SETUP", "none"} /\ helper' = "command"
    /\ toHelper' = IF helper' = "done" THEN <<>> ELSE toHelper
    /\ request' = "none"
    /\ UNCHANGED <<clientVars, toClient, kept, success>>

HelperDies ==
    /\ HelperMayDie
    /\ ~HelperGone
    /\ helper' = "done"
    /\ toHelper' = <<>>
    /\ request' = "none"
    /\ UNCHANGED <<clientVars, toClient, kept, success>>

-----------------------------------------------------------------------------
Client == SendRequest \/ SendEnvLine \/ WriteFails \/ TakeReply \/ SeeEnd \/ Stop

Helper ==
    ReadCommand \/ ReadEnvLine \/ HelperSeesEnd \/ Perform \/ SendReply \/ ReplyFails

Next == Client \/ Helper \/ ClientDies \/ HelperDies

Spec == Init /\ [][Next]_vars

\* Both processes run; the system calls and the script they wait for return.
FairSpec == Spec /\ WF_vars(Client) /\ WF_vars(Helper)

-----------------------------------------------------------------------------
(***************************************************************************)
(* What the protocol promises.                                             *)
(***************************************************************************)

Lost == ClientGone \/ (HelperGone /\ toClient = <<>>)

\* ReadLine has a limit, which VpncEnvironment does not know of.
EveryLineFits == \A i \in DOMAIN env : env[i] = "fits"

\* What has become of the request under way, wherever it is.
Effect ==
    IF toClient # <<>> THEN IF Head(toClient) THEN "performed" ELSE "refused"
    ELSE IF helper = "reply" THEN IF success THEN "performed" ELSE "refused"
    ELSE IF request # "none" \/ (call # "none" /\ ~Lost)
            \/ \E i \in DOMAIN toHelper : toHelper[i] \in Calls
         THEN "asked"
    ELSE "idle"

\* A session with an overlong line counts as one that has no helper.
PC == INSTANCE PrivilegedCalls WITH
        call <- IF Lost \/ ~EveryLineFits THEN "none" ELSE call,
        effect <- IF EveryLineFits THEN Effect ELSE "idle",
        lost <- Lost \/ ~EveryLineFits,
        outcome <- IF EveryLineFits THEN outcome ELSE "none"

\* The protocol implements PrivilegedCalls: whatever the interleaving of the two
\* processes, and wherever one of them dies, a call returns what became of it, if
\* every line of the block fits (tun_protocol.hpp:9-17,
\* privileged_client.hpp:139-245).
ImplementsCalls == PC!Spec

\* vpnc-script runs with the whole block the client built, if every line of it
\* fits and unless the client dies (tun_protocol.hpp:14-15).
ScriptGetsWholeBlock ==
    /\ helper = "perform" /\ request \in {"connect", "disconnect"}
    /\ EveryLineFits /\ client # "dead"
    => kept = Len(env)

\* The helper does not outlive its client (docs/PRIVILEGE.md:3 and 16).
HelperEndsWithClient == ClientGone ~> HelperGone

\* Client and helper never wait for each other: every call returns, or one of
\* the processes is gone (privileged_client.hpp:141-245).
CallsReturn == client = "waiting" ~> client # "waiting"

=============================================================================
