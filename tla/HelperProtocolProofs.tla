------------------------- MODULE HelperProtocolProofs -------------------------
(***************************************************************************)
(* Proofs about HelperProtocol for blocks of any length.  If every line    *)
(* fits, vpnc-script gets the whole block, and the two processes implement *)
(* the calls of PrivilegedCalls.  Whether they fit or not, the processes   *)
(* do not wait for each other in vain, and what the helper has to do ends. *)
(***************************************************************************)
EXTENDS HelperProtocol, Integers, SequenceTheorems, TLAPS

Scripts == {"connect", "disconnect"}

\* What the client holds.
ClientTypes ==
    /\ next \in Calls \cup {"BYE"}
    /\ client \in {"ready", "writing", "waiting", "stopped", "dead"}
    /\ call \in Calls \cup {"none"}
    /\ client = "ready" => call = "none"
    /\ client = "writing" => call \in Scripts
    /\ client = "waiting" => call \in Calls
    /\ outcome \in {"none", "ok", "failed"}
    /\ unsent \in Seq(EnvLine \cup {"blank"})
    /\ client = "writing" =>
         /\ unsent # <<>>
         /\ \A i \in 1..Len(unsent) :
              unsent[i] = IF i = Len(unsent) THEN "blank" ELSE "fits"

\* What the helper holds, and the streams.
HelperTypes ==
    /\ helper \in HelperAt
    /\ helper \in {"command", "done"} => request = "none"
    /\ helper = "environment" => request \in Scripts
    /\ helper \in {"perform", "reply"} => request \in Calls
    /\ kept \in 0..Len(env)
    /\ success \in BOOLEAN
    /\ toHelper \in Seq(Lines)
    /\ toClient \in Seq(BOOLEAN)

\* The number of lines of the block before the first line in the stream.
Before == IF helper = "environment" THEN kept ELSE -1

\* The lines of the block that are written or read.
Written == Before + Len(toHelper)

\* In the stream are a command, unless the helper has read it, and then lines of
\* the block in their places.
StreamInv ==
    /\ helper \in {"perform", "reply", "done"} => toHelper = <<>>
    /\ \A i \in 1..Len(toHelper) :
         IF Before + i = 0 THEN toHelper[i] \in Calls \cup {"BYE"}
         ELSE toHelper[i] = IF Before + i = Len(env) + 1 THEN "blank" ELSE "fits"
    /\ helper = "command" /\ toHelper # <<>> /\ toHelper[1] \notin Scripts =>
         Len(toHelper) = 1
    /\ toHelper # <<>> => (toHelper[1] = "BYE" <=> client = "stopped")
    /\ helper \in {"command", "environment"} => Written <= Len(env) + 1

\* Where the call under way is, between a client and a helper that both live.
CallInv ==
    /\ client = "ready" =>
         helper \in {"command", "done"} /\ toHelper = <<>> /\ toClient = <<>>
    /\ client = "writing" =>
         /\ toClient = <<>>
         /\ \/ helper = "command" /\ toHelper # <<>> /\ toHelper[1] = call
            \/ helper = "environment" /\ request = call
            \/ helper = "done"
         /\ helper # "done" => Written + Len(unsent) = Len(env) + 1
    /\ client = "waiting" =>
         \/ /\ helper = "command" /\ toHelper # <<>> /\ toHelper[1] = call
            /\ toClient = <<>>
            /\ call \in Scripts => Written = Len(env) + 1
         \/ /\ helper = "environment" /\ request = call /\ toClient = <<>>
            /\ Written = Len(env) + 1
         \/ helper \in {"perform", "reply"} /\ request = call /\ toClient = <<>>
         \/ helper \in {"command", "done"} /\ toHelper = <<>> /\ Len(toClient) = 1
         \/ helper = "done" /\ toClient = <<>>
    /\ client = "stopped" => helper \in {"command", "done"}
    /\ client \in {"stopped", "dead"} => toClient = <<>>

BlockInv ==
    helper = "perform" /\ request \in Scripts /\ client # "dead" => kept = Len(env)

Conversation == ClientTypes /\ HelperTypes /\ StreamInv /\ CallInv /\ BlockInv

ProtocolInv == env \in Seq(EnvLine) /\ (EveryLineFits => Conversation)

-----------------------------------------------------------------------------
(***************************************************************************)
(* Streams of lines.                                                       *)
(***************************************************************************)

LEMMA Appended ==
    ASSUME NEW S, NEW s \in Seq(S), NEW x \in S
    PROVE  /\ Append(s, x) \in Seq(S) /\ Append(s, x) # <<>>
           /\ Len(Append(s, x)) = Len(s) + 1
           /\ \A i \in 1..Len(s) + 1 :
                Append(s, x)[i] = IF i = Len(s) + 1 THEN x ELSE s[i]
BY LenProperties

LEMMA Taken ==
    ASSUME NEW S, NEW s \in Seq(S), s # <<>>
    PROVE  /\ Len(s) \in Nat /\ Len(s) >= 1
           /\ Head(s) \in S /\ Head(s) = s[1]
           /\ Tail(s) \in Seq(S) /\ Len(Tail(s)) = Len(s) - 1
           /\ \A i \in 1..Len(s) - 1 : Tail(s)[i] = s[i + 1]
           /\ Tail(s) = <<>> <=> Len(s) = 1
<1>1. Len(s) \in Nat /\ Len(s) >= 1
  BY EmptySeq, LenProperties
<1>2. /\ Head(s) \in S /\ Tail(s) \in Seq(S) /\ Len(Tail(s)) = Len(s) - 1
      /\ \A i \in 1..Len(s) - 1 : Tail(s)[i] = s[i + 1]
  BY HeadTailProperties
<1>3. Tail(s) = <<>> <=> Len(s) = 1
  <2>1. Tail(s) # <<>> => Len(Tail(s)) # 0
    BY <1>2, EmptySeq
  <2>2. Len(<<>>) = 0
    OBVIOUS
  <2>3. Tail(s) = <<>> => Len(Tail(s)) = 0
    BY <2>2
  <2> QED  BY <1>1, <1>2, <2>1, <2>3
<1> QED  BY <1>1, <1>2, <1>3

\* A block's lines and the blank one after them.
LEMMA BlockLines ==
    ASSUME env \in Seq(EnvLine), EveryLineFits
    PROVE  LET block == Append(env, "blank") IN
           /\ block \in Seq(EnvLine \cup {"blank"}) /\ block # <<>>
           /\ Len(block) = Len(env) + 1
           /\ \A i \in 1..Len(block) : block[i] = IF i = Len(block) THEN "blank" ELSE "fits"
<1>1. env \in Seq(EnvLine \cup {"blank"})
  BY SeqMonotonic
<1>2. Len(env) \in Nat /\ DOMAIN env = 1..Len(env)
  BY LenProperties
<1> QED  BY <1>1, <1>2, Appended DEF EveryLineFits

-----------------------------------------------------------------------------
(***************************************************************************)
(* The client's actions keep the conversation.                             *)
(***************************************************************************)

Premise == env \in Seq(EnvLine) /\ EveryLineFits /\ Conversation

LEMMA RequestSent == Premise /\ SendRequest => Conversation'
<1> SUFFICES ASSUME Premise, SendRequest PROVE Conversation'
  OBVIOUS
<1> USE DEF Premise, Conversation
<1>1. /\ env' = env /\ helper = "command" /\ helper' = helper /\ request' = request
      /\ kept' = kept /\ success' = success /\ toClient' = toClient /\ toClient = <<>>
      /\ next' = next /\ outcome' = outcome /\ call' = next /\ next \in Calls
      /\ toHelper = <<>> /\ toHelper' = Append(<<>>, next)
  BY DEF SendRequest, CallInv, HelperGone, helperVars
<1>2. /\ toHelper' \in Seq(Lines) /\ toHelper' # <<>> /\ Len(toHelper') = 1
      /\ toHelper'[1] = next
  BY <1>1, EmptySeq, Appended DEF Lines
<1>3. CASE next \in Scripts
  <2>1. client' = "writing" /\ unsent' = Append(env, "blank")
    BY <1>3 DEF SendRequest, Scripts
  <2>2. ClientTypes'
    BY <1>1, <1>3, <2>1, BlockLines DEF ClientTypes
  <2>3. HelperTypes' /\ StreamInv' /\ BlockInv'
    BY <1>1, <1>2, <1>3, <2>1 DEF HelperTypes, StreamInv, Before, Written, BlockInv, Calls, Scripts
  <2>4. CallInv'
    BY <1>1, <1>2, <1>3, <2>1, BlockLines, LenProperties DEF CallInv, Written, Before
  <2> QED  BY <2>2, <2>3, <2>4
<1>4. CASE next \notin Scripts
  <2>1. client' = "waiting" /\ unsent' = unsent
    BY <1>4 DEF SendRequest, Scripts
  <2>2. ClientTypes'
    BY <1>1, <2>1 DEF ClientTypes
  <2>3. HelperTypes' /\ StreamInv' /\ BlockInv'
    BY <1>1, <1>2, <2>1, LenProperties DEF HelperTypes, StreamInv, Before, Written, BlockInv, Calls
  <2>4. CallInv'
    BY <1>1, <1>2, <1>4, <2>1 DEF CallInv
  <2> QED  BY <2>2, <2>3, <2>4
<1> QED  BY <1>3, <1>4

LEMMA LineSent == Premise /\ SendEnvLine => Conversation'
<1> SUFFICES ASSUME Premise, SendEnvLine PROVE Conversation'
  OBVIOUS
<1> USE DEF Premise, Conversation
<1>1. /\ env' = env /\ helper' = helper /\ request' = request
      /\ kept' = kept /\ success' = success /\ toClient' = toClient /\ toClient = <<>>
      /\ next' = next /\ outcome' = outcome /\ call' = call /\ call \in Scripts
      /\ client = "writing" /\ client' = IF unsent' = <<>> THEN "waiting" ELSE "writing"
      /\ unsent' = Tail(unsent) /\ toHelper' = Append(toHelper, Head(unsent))
  BY DEF SendEnvLine, CallInv, HelperGone, helperVars, ClientTypes
<1>2. /\ Len(unsent) \in Nat /\ Len(unsent) >= 1
      /\ Head(unsent) = IF Len(unsent) = 1 THEN "blank" ELSE "fits"
      /\ unsent' \in Seq(EnvLine \cup {"blank"}) /\ Len(unsent') = Len(unsent) - 1
      /\ \A i \in 1..Len(unsent') :
           unsent'[i] = IF i = Len(unsent') THEN "blank" ELSE "fits"
      /\ unsent' = <<>> <=> Len(unsent) = 1
  BY <1>1, Taken DEF ClientTypes
<1>3. Len(env) \in Nat /\ Len(toHelper) \in Nat /\ kept \in 0..Len(env)
  BY LenProperties DEF HelperTypes
<1>4. /\ toHelper' \in Seq(Lines) /\ toHelper' # <<>>
      /\ Len(toHelper') = Len(toHelper) + 1
      /\ \A i \in 1..Len(toHelper) + 1 :
           toHelper'[i] = IF i = Len(toHelper) + 1 THEN Head(unsent) ELSE toHelper[i]
  <2>1. Head(unsent) \in Lines
    BY <1>2 DEF Lines, EnvLine
  <2> QED  BY <1>1, <2>1, Appended DEF HelperTypes
<1>5. /\ Before' = Before /\ Before \in Int
      /\ Before + Len(toHelper) + Len(unsent) = Len(env) + 1
      /\ \/ helper = "command" /\ toHelper # <<>> /\ toHelper[1] = call
         \/ helper = "environment" /\ request = call
  BY <1>1, <1>3 DEF CallInv, Written, Before, SendEnvLine, HelperGone
<1>6. ClientTypes'
  BY <1>1, <1>2 DEF ClientTypes, Scripts, Calls
<1>7. HelperTypes' /\ BlockInv'
  BY <1>1, <1>4, <1>5 DEF HelperTypes, BlockInv
<1>8. toHelper # <<>> => Len(toHelper) >= 1 /\ toHelper'[1] = toHelper[1]
  BY <1>3, <1>4, EmptySeq DEF HelperTypes
<1>10. Written' \in Int /\ Written' + Len(unsent') = Len(env) + 1
  BY <1>2, <1>3, <1>4, <1>5 DEF Written
<1>9. StreamInv'
  <2>1. \A i \in 1..Len(toHelper') :
          IF Before' + i = 0 THEN toHelper'[i] \in Calls \cup {"BYE"}
          ELSE toHelper'[i] = IF Before' + i = Len(env') + 1 THEN "blank" ELSE "fits"
    <3> SUFFICES ASSUME NEW i \in 1..Len(toHelper) + 1
                 PROVE  IF Before + i = 0 THEN toHelper'[i] \in Calls \cup {"BYE"}
                        ELSE toHelper'[i] = IF Before + i = Len(env) + 1 THEN "blank"
                                            ELSE "fits"
      BY <1>1, <1>4, <1>5
    <3>1. CASE i = Len(toHelper) + 1
      <4>1. Before + i > 0
        BY <1>3, <1>5, <1>8, <3>1 DEF Before
      <4>2. Before + i = Len(env) + 1 <=> Len(unsent) = 1
        BY <1>2, <1>3, <1>5, <3>1
      <4> QED  BY <1>2, <1>4, <3>1, <4>1, <4>2
    <3>2. CASE i # Len(toHelper) + 1
      <4>1. i \in 1..Len(toHelper)
        BY <1>3, <3>2
      <4> QED  BY <1>4, <3>2, <4>1 DEF StreamInv
    <3> QED  BY <3>1, <3>2
  <2>2. helper' \notin {"perform", "reply", "done"}
    BY <1>1, <1>5
  <2>3. helper' = "environment" => toHelper'[1] # "BYE"
    <3> SUFFICES ASSUME helper = "environment" PROVE toHelper'[1] # "BYE"
      BY <1>1
    <3>1. Before' = kept /\ kept + 1 # 0 /\ 1 \in 1..Len(toHelper')
      BY <1>3, <1>4, <1>5 DEF Before
    <3> QED  BY <2>1, <3>1
  <2>4. helper' = "command" => toHelper'[1] \in Scripts
    BY <1>1, <1>5, <1>8
  <2>5. Written' <= Len(env') + 1
    <3>1. Len(unsent') \in Nat
      BY <1>2
    <3> QED  BY <1>1, <1>3, <1>10, <3>1
  <2> QED  BY <1>1, <1>5, <2>1, <2>2, <2>3, <2>4, <2>5 DEF StreamInv, Scripts
<1>11. CallInv'
  <2>1. CASE unsent' = <<>>
    <3>1. client' = "waiting" /\ Written' = Len(env') + 1
      <4>1. Len(unsent) = 1 /\ client' = "waiting"
        BY <1>1, <1>2, <2>1
      <4> QED  BY <1>1, <1>3, <1>4, <1>5, <4>1 DEF Written
    <3> QED  BY <1>1, <1>4, <1>5, <1>8, <3>1 DEF CallInv
  <2>2. CASE unsent' # <<>>
    BY <1>1, <1>4, <1>5, <1>8, <1>10, <2>2 DEF CallInv
  <2> QED  BY <2>1, <2>2
<1> QED  BY <1>6, <1>7, <1>9, <1>11

\* A call that returns leaves the client ready for the next one.
LEMMA Returned ==
    ASSUME NEW c \in Calls, NEW ok \in BOOLEAN, Premise, Return(c, ok)
    PROVE  ClientTypes' /\ client' = "ready"
<1>1. /\ client' = "ready" /\ call' = "none" /\ unsent' = <<>>
      /\ outcome' \in {"none", "ok", "failed"} /\ next' \in Calls \cup {"BYE"}
  BY DEF Return, NextCalls, Calls
<1> QED  BY <1>1, EmptySeq DEF ClientTypes

LEMMA FailedWrites == Premise /\ WriteFails => Conversation'
<1> SUFFICES ASSUME Premise, WriteFails PROVE Conversation'
  OBVIOUS
<1> USE DEF Premise, Conversation
<1>1. /\ env' = env /\ helper = "done" /\ helper' = helper /\ request' = request
      /\ kept' = kept /\ success' = success /\ toHelper' = toHelper /\ toHelper = <<>>
      /\ client \in {"ready", "writing"} /\ toClient = <<>> /\ toClient' = <<>>
  BY DEF WriteFails, CallInv, HelperGone, helperVars, StreamInv
<1>2. ClientTypes' /\ client' \in {"ready", "waiting", "dead"}
  <2>1. CASE Return(next, FALSE) /\ next \in Calls
    BY <2>1, Returned
  <2>2. CASE Return(call, FALSE) /\ client = "writing"
    BY <2>2, Returned DEF ClientTypes, Scripts, Calls
  <2>3. CASE /\ client = "writing" /\ client' = "waiting" /\ unsent' = <<>>
             /\ UNCHANGED <<next, call, outcome, mtus>>
    BY <2>3, EmptySeq DEF ClientTypes, Scripts, Calls
  <2>4. CASE client' = "dead" /\ UNCHANGED <<next, call, unsent, outcome, mtus>>
    BY <2>4 DEF ClientTypes
  <2> QED  BY <2>1, <2>2, <2>3, <2>4 DEF WriteFails
<1>3. HelperTypes' /\ StreamInv' /\ BlockInv'
  BY <1>1, EmptySeq DEF HelperTypes, StreamInv, BlockInv
<1>4. CallInv'
  BY <1>1, <1>2 DEF CallInv
<1> QED  BY <1>2, <1>3, <1>4

LEMMA ReplyTaken == Premise /\ TakeReply => Conversation'
<1> SUFFICES ASSUME Premise, TakeReply PROVE Conversation'
  OBVIOUS
<1> USE DEF Premise, Conversation
<1>1. /\ env' = env /\ helper \in {"command", "done"} /\ helper' = helper
      /\ request' = request /\ kept' = kept /\ success' = success
      /\ toHelper' = toHelper /\ toHelper = <<>>
      /\ toClient \in Seq(BOOLEAN) /\ toClient # <<>> /\ Len(toClient) = 1
      /\ toClient' = Tail(toClient) /\ Return(call, Head(toClient)) /\ call \in Calls
  BY DEF TakeReply, CallInv, helperVars, HelperTypes, ClientTypes
<1>2. Head(toClient) \in BOOLEAN /\ toClient' = <<>>
  BY <1>1, Taken
<1>3. ClientTypes' /\ client' = "ready"
  BY <1>1, <1>2, Returned
<1>4. HelperTypes' /\ StreamInv' /\ BlockInv'
  BY <1>1, <1>2, EmptySeq, LenProperties DEF HelperTypes, StreamInv, Before, Written, BlockInv
<1>5. CallInv'
  BY <1>1, <1>2, <1>3 DEF CallInv
<1> QED  BY <1>3, <1>4, <1>5

LEMMA EndSeen == Premise /\ SeeEnd => Conversation'
<1> SUFFICES ASSUME Premise, SeeEnd PROVE Conversation'
  OBVIOUS
<1> USE DEF Premise, Conversation
<1>1. /\ env' = env /\ helper = "done" /\ helper' = helper
      /\ request' = request /\ kept' = kept /\ success' = success
      /\ toHelper' = toHelper /\ toHelper = <<>>
      /\ toClient = <<>> /\ toClient' = toClient
      /\ Return(call, FALSE) /\ call \in Calls
  BY DEF SeeEnd, helperVars, HelperTypes, ClientTypes, HelperGone, StreamInv
<1>2. ClientTypes' /\ client' = "ready"
  BY <1>1, Returned
<1>3. HelperTypes' /\ StreamInv' /\ BlockInv'
  BY <1>1 DEF HelperTypes, StreamInv, BlockInv
<1>4. CallInv'
  BY <1>1, <1>2 DEF CallInv
<1> QED  BY <1>2, <1>3, <1>4

LEMMA Stopped == Premise /\ Stop => Conversation'
<1> SUFFICES ASSUME Premise, Stop PROVE Conversation'
  OBVIOUS
<1> USE DEF Premise, Conversation
<1>1. /\ env' = env /\ helper \in {"command", "done"} /\ helper' = helper
      /\ request' = request /\ kept' = kept /\ success' = success
      /\ toHelper = <<>> /\ toClient' = <<>> /\ client = "ready" /\ client' = "stopped"
      /\ toHelper' = IF helper = "done" THEN <<>> ELSE Append(<<>>, "BYE")
      /\ UNCHANGED <<next, call, unsent, outcome>>
  BY DEF Stop, CallInv, helperVars, HelperGone
<1>2. /\ Append(<<>>, "BYE") \in Seq(Lines) /\ Append(<<>>, "BYE") # <<>>
      /\ Len(Append(<<>>, "BYE")) = 1 /\ Append(<<>>, "BYE")[1] = "BYE"
  BY EmptySeq, Appended DEF Lines
<1>3. ClientTypes' /\ HelperTypes' /\ BlockInv'
  BY <1>1, <1>2, EmptySeq DEF ClientTypes, HelperTypes, BlockInv
<1>4. StreamInv' /\ CallInv'
  BY <1>1, <1>2, LenProperties DEF StreamInv, Before, Written, CallInv
<1> QED  BY <1>3, <1>4

LEMMA Died == Premise /\ ClientDies => Conversation'
<1> SUFFICES ASSUME Premise, ClientDies PROVE Conversation'
  OBVIOUS
<1> USE DEF Premise, Conversation
<1>1. /\ env' = env /\ helper' = helper /\ request' = request /\ kept' = kept
      /\ success' = success /\ toHelper' = toHelper /\ toClient' = <<>>
      /\ client # "stopped" /\ client' = "dead"
      /\ UNCHANGED <<next, call, unsent, outcome>>
  BY DEF ClientDies, ClientGone, helperVars
<1>2. ClientTypes' /\ HelperTypes' /\ BlockInv' /\ CallInv'
  BY <1>1, EmptySeq DEF ClientTypes, HelperTypes, BlockInv, CallInv
<1>3. StreamInv'
  BY <1>1 DEF StreamInv, Before, Written
<1> QED  BY <1>2, <1>3

-----------------------------------------------------------------------------
(***************************************************************************)
(* The helper's actions keep it.                                           *)
(***************************************************************************)

\* What the helper's actions leave alone.
LEMMA ClientKeeps ==
    ASSUME Premise, UNCHANGED clientVars
    PROVE  /\ ClientTypes' /\ Len(env') \in Nat /\ Len(env') = Len(env) /\ client' = client
           /\ call' = call /\ unsent' = unsent
BY LenProperties DEF Premise, Conversation, clientVars, ClientTypes

LEMMA CommandRead == Premise /\ ReadCommand => Conversation'
<1> SUFFICES ASSUME Premise, ReadCommand PROVE Conversation'
  OBVIOUS
<1> USE DEF Premise, Conversation
<1>1. /\ helper = "command" /\ toHelper \in Seq(Lines) /\ toHelper # <<>>
      /\ kept' = 0 /\ success' = FALSE /\ UNCHANGED clientVars
      /\ toClient' = toClient /\ toClient \in Seq(BOOLEAN) /\ request = "none"
  BY DEF ReadCommand, HelperTypes
<1>2. /\ Len(toHelper) \in Nat /\ Len(toHelper) >= 1 /\ Head(toHelper) = toHelper[1]
      /\ Tail(toHelper) \in Seq(Lines) /\ Len(Tail(toHelper)) = Len(toHelper) - 1
      /\ \A i \in 1..Len(toHelper) - 1 : Tail(toHelper)[i] = toHelper[i + 1]
      /\ Tail(toHelper) = <<>> <=> Len(toHelper) = 1
  BY <1>1, Taken
<1>3. toHelper[1] \in Calls \cup {"BYE"}
  BY <1>1, <1>2 DEF StreamInv, Before
<1>4. /\ ClientTypes' /\ Len(env') \in Nat /\ Len(env') = Len(env) /\ client' = client
      /\ call' = call /\ unsent' = unsent
  BY <1>1, ClientKeeps
<1>5. CASE toHelper[1] = "BYE"
  <2>1. client = "stopped"
    BY <1>1, <1>5 DEF StreamInv
  <2>2. helper' = "done" /\ toHelper' = <<>> /\ request' = "none"
    BY <1>2, <1>5 DEF ReadCommand, Calls
  <2>3. toHelper' \in Seq(Lines) /\ toClient' \in Seq(BOOLEAN) /\ kept' \in 0..Len(env')
    BY <1>1, <1>4, <2>2, EmptySeq
  <2>5. HelperTypes'
    BY <1>1, <2>2, <2>3 DEF HelperTypes, HelperAt
  <2>6. StreamInv'
    BY <2>2 DEF StreamInv
  <2>7. BlockInv'
    BY <2>2 DEF BlockInv
  <2>4. CallInv'
    BY <1>1, <1>4, <2>1, <2>2 DEF CallInv
  <2> QED  BY <1>4, <2>4, <2>5, <2>6, <2>7
<1>6. CASE toHelper[1] \in {"SETUP", "MTU"}
  <2>1. Len(toHelper) = 1
    BY <1>1, <1>6 DEF StreamInv, Scripts
  <2>2. /\ helper' = "perform" /\ toHelper' = <<>> /\ request' = toHelper[1]
        /\ request' \in Calls /\ request' \notin Scripts
    BY <1>2, <1>6, <2>1 DEF ReadCommand, Calls, Scripts
  <2>3. toHelper' \in Seq(Lines) /\ toClient' \in Seq(BOOLEAN) /\ kept' \in 0..Len(env')
    BY <1>1, <1>4, <2>2, EmptySeq
  <2>5. HelperTypes'
    BY <1>1, <2>2, <2>3 DEF HelperTypes, HelperAt
  <2>6. StreamInv'
    BY <2>2 DEF StreamInv
  <2>7. BlockInv'
    BY <2>2 DEF BlockInv
  <2>4. CallInv'
    <3>1. client # "ready" /\ client # "stopped"
      BY <1>1, <1>6 DEF CallInv, StreamInv
    <3>2. client = "writing" => FALSE
      BY <1>1, <1>6 DEF CallInv, ClientTypes, Scripts
    <3>3. client = "waiting" => request' = call /\ toClient = <<>>
      BY <1>1, <2>2 DEF CallInv
    <3> QED  BY <1>1, <1>4, <2>2, <3>1, <3>2, <3>3 DEF CallInv
  <2> QED  BY <1>4, <2>4, <2>5, <2>6, <2>7
<1>7. CASE toHelper[1] \in Scripts
  <2>1. /\ helper' = "environment" /\ toHelper' = Tail(toHelper)
        /\ request' = toHelper[1] /\ request' \in Scripts
    BY <1>2, <1>7 DEF ReadCommand, Calls, Scripts
  <2>2. HelperTypes' /\ BlockInv'
    <3>1. toHelper' \in Seq(Lines) /\ toClient' \in Seq(BOOLEAN) /\ kept' \in 0..Len(env')
      BY <1>1, <1>2, <1>4, <2>1
    <3>2. HelperTypes'
      BY <1>1, <2>1, <3>1 DEF HelperTypes, HelperAt
    <3> QED  BY <2>1, <3>2 DEF BlockInv
  <2>3. Before = -1 /\ Before' = 0
    BY <1>1, <2>1 DEF Before
  <2>4. \A i \in 1..Len(toHelper') :
          toHelper'[i] = IF i = Len(env) + 1 THEN "blank" ELSE "fits"
    <3> SUFFICES ASSUME NEW i \in 1..Len(toHelper) - 1
                 PROVE  toHelper[i + 1] = IF i = Len(env) + 1 THEN "blank" ELSE "fits"
      BY <1>2, <2>1
    <3>1. i + 1 \in 1..Len(toHelper) /\ Before + (i + 1) = i /\ i # 0
      BY <1>2, <2>3
    <3> QED  BY <3>1 DEF StreamInv
  <2>6. Written' = Written
    BY <1>2, <2>1, <2>3 DEF Written
  <2>5. StreamInv'
    <3>1. toHelper' # <<>> => toHelper'[1] # "BYE"
      BY <1>2, <2>1, <2>4
    <3>2. client' # "stopped"
      BY <1>1, <1>4, <1>7 DEF StreamInv, Scripts
    <3>3. Written' <= Len(env') + 1
      BY <1>1, <1>4, <2>6 DEF StreamInv
    <3> QED  BY <1>2, <1>4, <2>1, <2>3, <2>4, <3>1, <3>2, <3>3 DEF StreamInv
  <2>7. CallInv'
    <3>1. client # "ready" /\ client # "stopped"
      BY <1>1, <1>7 DEF CallInv, StreamInv, Scripts
    <3>2. client = "writing" =>
            toClient = <<>> /\ request' = call /\ Written + Len(unsent) = Len(env) + 1
      BY <1>1, <2>1 DEF CallInv
    <3>3. client = "waiting" =>
            toClient = <<>> /\ request' = call /\ Written = Len(env) + 1
      BY <1>1, <1>7, <2>1 DEF CallInv
    <3> QED  BY <1>1, <1>4, <2>1, <2>6, <3>1, <3>2, <3>3 DEF CallInv
  <2> QED  BY <1>4, <2>2, <2>5, <2>7
<1> QED  BY <1>3, <1>5, <1>6, <1>7 DEF Calls, Scripts

LEMMA EnvLineRead == Premise /\ ReadEnvLine => Conversation'
<1> SUFFICES ASSUME Premise, ReadEnvLine PROVE Conversation'
  OBVIOUS
<1> USE DEF Premise, Conversation
<1>1. /\ helper = "environment" /\ toHelper \in Seq(Lines) /\ toHelper # <<>>
      /\ UNCHANGED <<clientVars, toClient, request, success>>
      /\ toClient \in Seq(BOOLEAN) /\ request \in Scripts /\ kept \in 0..Len(env)
  BY DEF ReadEnvLine, HelperTypes
<1>2. /\ Len(toHelper) \in Nat /\ Len(toHelper) >= 1 /\ Head(toHelper) = toHelper[1]
      /\ Tail(toHelper) \in Seq(Lines) /\ Len(Tail(toHelper)) = Len(toHelper) - 1
      /\ \A i \in 1..Len(toHelper) - 1 : Tail(toHelper)[i] = toHelper[i + 1]
      /\ Tail(toHelper) = <<>> <=> Len(toHelper) = 1
  BY <1>1, Taken
<1>3. /\ ClientTypes' /\ Len(env') \in Nat /\ Len(env') = Len(env) /\ client' = client
      /\ call' = call /\ unsent' = unsent
  BY <1>1, ClientKeeps
<1>4. /\ Before = kept /\ Written <= Len(env) + 1
      /\ \A i \in 1..Len(toHelper) :
           toHelper[i] = IF kept + i = Len(env) + 1 THEN "blank" ELSE "fits"
  BY <1>1, <1>2, <1>3 DEF StreamInv, Before
<1>5. /\ client # "ready" /\ client # "stopped"
      /\ client = "writing" =>
           toClient = <<>> /\ request = call /\ Written + Len(unsent) = Len(env) + 1
      /\ client = "waiting" =>
           toClient = <<>> /\ request = call /\ Written = Len(env) + 1
      /\ client = "dead" => toClient = <<>>
  BY <1>1 DEF CallInv
<1>6. Head(toHelper) = IF kept = Len(env) THEN "blank" ELSE "fits"
  BY <1>1, <1>2, <1>3, <1>4
<1>7. toHelper' = Tail(toHelper)
  BY <1>6 DEF ReadEnvLine
<1>8. CASE kept = Len(env)
  <2>1. helper' = "perform" /\ kept' = kept
    BY <1>6, <1>8 DEF ReadEnvLine
  <2>2. toHelper' = <<>>
    BY <1>2, <1>3, <1>4, <1>7, <1>8 DEF Written
  <2>3. HelperTypes'
    BY <1>1, <1>2, <1>3, <1>7, <2>1 DEF HelperTypes, HelperAt, Scripts, Calls
  <2>4. StreamInv' /\ BlockInv'
    BY <1>1, <1>3, <1>8, <2>1, <2>2 DEF StreamInv, BlockInv
  <2>5. CallInv'
    <3>1. client # "writing"
      <4>1. Written = kept + Len(toHelper) /\ (client = "writing" => Len(unsent) >= 1)
        BY <1>4, Taken DEF Written, ClientTypes
      <4>2. client = "writing" => Len(unsent) \in Nat
        BY LenProperties DEF ClientTypes
      <4> QED  BY <1>1, <1>2, <1>3, <1>5, <1>8, <4>1, <4>2
    <3> QED  BY <1>1, <1>3, <1>5, <2>1, <3>1 DEF CallInv
  <2> QED  BY <1>3, <2>3, <2>4, <2>5
<1>9. CASE kept # Len(env)
  <2>1. helper' = "environment" /\ kept' = kept + 1 /\ kept' \in 0..Len(env')
    BY <1>1, <1>3, <1>6, <1>9 DEF ReadEnvLine
  <2>2. Before' = kept + 1 /\ Written' = Written
    BY <1>1, <1>2, <1>4, <1>7, <2>1 DEF Before, Written
  <2>3. HelperTypes' /\ BlockInv'
    BY <1>1, <1>2, <1>7, <2>1 DEF HelperTypes, HelperAt, BlockInv
  <2>4. \A i \in 1..Len(toHelper') :
          toHelper'[i] = IF Before' + i = Len(env') + 1 THEN "blank" ELSE "fits"
    <3> SUFFICES ASSUME NEW i \in 1..Len(toHelper) - 1
                 PROVE  toHelper[i + 1] =
                          IF kept + 1 + i = Len(env) + 1 THEN "blank" ELSE "fits"
      BY <1>2, <1>3, <1>7, <2>2
    <3>1. i + 1 \in 1..Len(toHelper) /\ kept + (i + 1) = kept + 1 + i
      BY <1>1, <1>2, <1>3
    <3> QED  BY <1>4, <3>1
  <2>5. StreamInv'
    <3>1. \A i \in 1..Len(toHelper') : Before' + i # 0
      BY <1>1, <1>2, <1>3, <1>7, <2>2
    <3>2. toHelper' # <<>> => toHelper'[1] # "BYE"
      BY <1>2, <1>7, <2>4
    <3> QED  BY <1>3, <1>4, <1>5, <2>1, <2>2, <2>4, <3>1, <3>2 DEF StreamInv
  <2>6. CallInv'
    BY <1>1, <1>3, <1>5, <2>1, <2>2 DEF CallInv
  <2> QED  BY <1>3, <2>3, <2>5, <2>6
<1> QED  BY <1>8, <1>9

LEMMA EndRead == Premise /\ HelperSeesEnd => Conversation'
<1> SUFFICES ASSUME Premise, HelperSeesEnd PROVE Conversation'
  OBVIOUS
<1> USE DEF Premise, Conversation
<1>1. /\ UNCHANGED <<clientVars, toHelper, toClient, request, kept, success>>
      /\ toHelper = <<>> /\ client \in {"stopped", "dead"} /\ toClient = <<>>
      /\ \/ helper = "command" /\ helper' = "done" /\ request = "none"
         \/ /\ helper = "environment" /\ helper' = "perform" /\ request \in Scripts
            /\ client = "dead"
  BY DEF HelperSeesEnd, ClientGone, CallInv, HelperTypes
<1>2. /\ ClientTypes' /\ Len(env') \in Nat /\ Len(env') = Len(env) /\ client' = client
      /\ call' = call /\ unsent' = unsent
  BY <1>1, ClientKeeps
<1>3. HelperTypes'
  BY <1>1, <1>2 DEF HelperTypes, HelperAt, Scripts, Calls
<1>4. StreamInv' /\ BlockInv'
  BY <1>1, <1>2 DEF StreamInv, BlockInv
<1>5. CallInv'
  BY <1>1, <1>2 DEF CallInv
<1> QED  BY <1>2, <1>3, <1>4, <1>5

LEMMA Performed == Premise /\ Perform => Conversation'
<1> SUFFICES ASSUME Premise, Perform PROVE Conversation'
  OBVIOUS
<1> USE DEF Premise, Conversation
<1>1. /\ UNCHANGED <<clientVars, toHelper, toClient, request, kept>>
      /\ helper = "perform" /\ helper' = "reply" /\ success' \in BOOLEAN
      /\ toHelper = <<>>
  BY DEF Perform, StreamInv
<1>2. /\ ClientTypes' /\ Len(env') \in Nat /\ Len(env') = Len(env) /\ client' = client
      /\ call' = call /\ unsent' = unsent
  BY <1>1, ClientKeeps
<1>3. HelperTypes'
  BY <1>1, <1>2 DEF HelperTypes, HelperAt
<1>4. StreamInv' /\ BlockInv'
  BY <1>1 DEF StreamInv, BlockInv
<1>5. CallInv'
  BY <1>1, <1>2 DEF CallInv
<1> QED  BY <1>2, <1>3, <1>4, <1>5

LEMMA ReplySent == Premise /\ SendReply => Conversation'
<1> SUFFICES ASSUME Premise, SendReply PROVE Conversation'
  OBVIOUS
<1> USE DEF Premise, Conversation
<1>1. /\ UNCHANGED <<clientVars, toHelper, kept, success>>
      /\ helper = "reply" /\ helper' = "command" /\ request' = "none"
      /\ toHelper = <<>> /\ client = "waiting" /\ toClient = <<>>
      /\ toClient' = Append(<<>>, success) /\ success \in BOOLEAN
  BY DEF SendReply, StreamInv, CallInv, ClientTypes, ClientGone, HelperTypes
<1>2. /\ ClientTypes' /\ Len(env') \in Nat /\ Len(env') = Len(env) /\ client' = client
      /\ call' = call /\ unsent' = unsent
  BY <1>1, ClientKeeps
<1>3. toClient' \in Seq(BOOLEAN) /\ Len(toClient') = 1
  BY <1>1, EmptySeq, Appended
<1>4. HelperTypes'
  BY <1>1, <1>2, <1>3 DEF HelperTypes, HelperAt
<1>5. StreamInv' /\ BlockInv'
  BY <1>1, <1>2 DEF StreamInv, Before, Written, BlockInv
<1>6. CallInv'
  BY <1>1, <1>2, <1>3 DEF CallInv
<1> QED  BY <1>2, <1>4, <1>5, <1>6

LEMMA ReplyLost == Premise /\ ReplyFails => Conversation'
<1> SUFFICES ASSUME Premise, ReplyFails PROVE Conversation'
  OBVIOUS
<1> USE DEF Premise, Conversation
<1>1. /\ UNCHANGED <<clientVars, toClient, kept, success>>
      /\ helper = "reply" /\ helper' \in {"command", "done"} /\ request' = "none"
      /\ toHelper = <<>> /\ toHelper' = <<>> /\ client \in {"stopped", "dead"}
      /\ toClient = <<>>
  BY DEF ReplyFails, StreamInv, CallInv, ClientGone
<1>2. /\ ClientTypes' /\ Len(env') \in Nat /\ Len(env') = Len(env) /\ client' = client
      /\ call' = call /\ unsent' = unsent
  BY <1>1, ClientKeeps
<1>3. HelperTypes'
  BY <1>1, <1>2 DEF HelperTypes, HelperAt
<1>4. StreamInv' /\ BlockInv'
  BY <1>1, <1>2 DEF StreamInv, Before, Written, BlockInv
<1>5. CallInv'
  BY <1>1, <1>2 DEF CallInv
<1> QED  BY <1>2, <1>3, <1>4, <1>5

LEMMA HelperDied == Premise /\ HelperDies => Conversation'
<1> SUFFICES ASSUME Premise, HelperDies PROVE Conversation'
  OBVIOUS
<1> USE DEF Premise, Conversation
<1>1. /\ UNCHANGED <<clientVars, toClient, kept, success>>
      /\ helper' = "done" /\ request' = "none" /\ toHelper' = <<>>
      /\ helper # "done"
  BY DEF HelperDies, HelperGone
<1>2. /\ ClientTypes' /\ Len(env') \in Nat /\ Len(env') = Len(env) /\ client' = client
      /\ call' = call /\ unsent' = unsent
  BY <1>1, ClientKeeps
<1>3. HelperTypes'
  BY <1>1, <1>2, EmptySeq DEF HelperTypes, HelperAt
<1>4. StreamInv' /\ BlockInv'
  BY <1>1 DEF StreamInv, BlockInv
<1>5. CallInv'
  BY <1>1, <1>2 DEF CallInv
<1> QED  BY <1>2, <1>3, <1>4, <1>5

-----------------------------------------------------------------------------
(***************************************************************************)
(* The invariant, and the block.                                           *)
(***************************************************************************)

LEMMA Started == Init => ProtocolInv
<1> SUFFICES ASSUME Init PROVE ProtocolInv
  OBVIOUS
<1>1. env \in Seq(EnvLine)
  <2>1. PICK n \in 0..MaxLines : env \in [1..n -> IF MayOverflow THEN EnvLine ELSE {"fits"}]
    BY DEF Init, Blocks
  <2>2. n \in Nat /\ env \in [1..n -> EnvLine]
    BY <2>1, ProtocolAssumption DEF EnvLine
  <2> QED  BY <2>2, SeqDef
<1>2. Len(env) \in Nat
  BY <1>1, LenProperties
<1>3. ClientTypes
  BY EmptySeq DEF Init, ClientTypes, Calls
<1>5. HelperTypes
  <2>1. /\ toHelper \in Seq(Lines) /\ toClient \in Seq(BOOLEAN)
        /\ kept \in 0..Len(env)
    BY <1>2, EmptySeq DEF Init
  <2> QED  BY <2>1 DEF Init, HelperTypes, HelperAt
<1>4. StreamInv /\ CallInv /\ BlockInv
  BY <1>2 DEF Init, StreamInv, Before, Written, CallInv, BlockInv
<1> QED  BY <1>1, <1>3, <1>4, <1>5 DEF ProtocolInv, Conversation

LEMMA BlockIsFixed ==
    Next => env' = env /\ (EveryLineFits' <=> EveryLineFits)
<1> USE DEF EveryLineFits, clientVars
<1>1. Client => env' = env
  BY DEF Client, SendRequest, SendEnvLine, WriteFails, TakeReply, SeeEnd, Stop
<1>2. Helper => env' = env
  BY DEF Helper, ReadCommand, ReadEnvLine, HelperSeesEnd, Perform, SendReply, ReplyFails
<1>3. ClientDies \/ HelperDies => env' = env
  BY DEF ClientDies, HelperDies
<1> QED  BY <1>1, <1>2, <1>3 DEF Next

LEMMA Kept == ProtocolInv /\ [Next]_vars => ProtocolInv'
<1> SUFFICES ASSUME ProtocolInv, [Next]_vars PROVE ProtocolInv'
  OBVIOUS
<1>1. CASE UNCHANGED vars
  BY <1>1 DEF ProtocolInv, vars, clientVars, helperVars, EveryLineFits, Conversation,
    ClientTypes, HelperTypes, StreamInv, Before, Written, CallInv, BlockInv
<1>2. CASE Next
  <2>1. env' \in Seq(EnvLine) /\ (EveryLineFits' <=> EveryLineFits)
    BY <1>2, BlockIsFixed DEF ProtocolInv
  <2>2. EveryLineFits => Conversation'
    <3> SUFFICES ASSUME Premise PROVE Conversation'
      BY DEF ProtocolInv, Premise
    <3>1. Client => Conversation'
      BY RequestSent, LineSent, FailedWrites, ReplyTaken, EndSeen, Stopped DEF Client
    <3>2. Helper => Conversation'
      BY CommandRead, EnvLineRead, EndRead, Performed, ReplySent, ReplyLost DEF Helper
    <3>3. ClientDies \/ HelperDies => Conversation'
      BY Died, HelperDied
    <3> QED  BY <1>2, <3>1, <3>2, <3>3 DEF Next
  <2> QED  BY <2>1, <2>2 DEF ProtocolInv
<1> QED  BY <1>1, <1>2

\* The lines of a conversation are where the two loops expect them, for a block
\* whose every line fits: the writes of PrivilegedClient::RunScript in order,
\* read by the command loop and HandleScript (privileged_client.hpp:209-245,
\* main_helper.cpp:164-192 and 281-309).
THEOREM Invariance == Spec => []ProtocolInv
BY Started, Kept, PTL DEF Spec

\* vpnc-script runs with the whole block, however long, if every line of it fits
\* and the client lives (tun_protocol.hpp:14-15).
THEOREM WholeBlock == Spec => []ScriptGetsWholeBlock
<1>1. ProtocolInv => ScriptGetsWholeBlock
  BY DEF ProtocolInv, ScriptGetsWholeBlock, Conversation, BlockInv, Scripts
<1> QED  BY <1>1, Invariance, PTL

-----------------------------------------------------------------------------
(***************************************************************************)
(* The steps of PrivilegedCalls.                                           *)
(***************************************************************************)

Verdict(ok) == IF ok THEN "performed" ELSE "refused"

\* Effect, told from where client and helper are.
Fate ==
    IF toClient # <<>> THEN Verdict(Head(toClient))
    ELSE IF helper = "reply" THEN Verdict(success)
    ELSE IF helper # "done" /\ client # "ready"
            /\ \/ client \in {"writing", "waiting"}
               \/ helper \in {"environment", "perform"}
               \/ toHelper # <<>> /\ toHelper[1] \in Calls
         THEN "asked"
    ELSE "idle"

LEMMA FateOfCall == Premise => Effect = Fate
<1> SUFFICES ASSUME Premise PROVE Effect = Fate
  OBVIOUS
<1> USE DEF Premise, Conversation
<1>1. (\E i \in DOMAIN toHelper : toHelper[i] \in Calls)
        <=> helper = "command" /\ toHelper # <<>> /\ toHelper[1] \in Calls
  <2>1. /\ DOMAIN toHelper = 1..Len(toHelper) /\ Len(toHelper) \in Nat /\ kept \in Nat
        /\ Len(env) \in Nat /\ toHelper # <<>> => Len(toHelper) >= 1
    BY LenProperties, EmptySeq DEF HelperTypes
  <2>2. /\ helper = "command" => Before = -1
        /\ helper = "environment" => Before = kept
    BY DEF Before
  <2>3. ASSUME NEW i \in 1..Len(toHelper), toHelper[i] \in Calls
        PROVE  helper = "command" /\ i = 1
    <3>1. Before + i = 0
      BY <2>1, <2>3 DEF StreamInv, Calls
    <3>2. helper \in {"command", "environment"}
      BY <2>1, <2>3 DEF StreamInv, HelperTypes, HelperAt
    <3> QED  BY <2>1, <2>2, <3>1, <3>2
  <2>4. (\E i \in 1..Len(toHelper) : toHelper[i] \in Calls)
          => helper = "command" /\ toHelper # <<>> /\ toHelper[1] \in Calls
    BY <2>1, <2>3
  <2>5. toHelper # <<>> => 1 \in 1..Len(toHelper)
    BY <2>1
  <2> QED  BY <2>1, <2>4, <2>5
<1>2. CASE client = "ready"
  BY <1>1, <1>2 DEF Effect, Fate, Verdict, CallInv, ClientTypes, HelperTypes
<1>3. CASE client \in {"writing", "waiting"}
  <2>1. call # "none" /\ ~ClientGone
    BY <1>3 DEF ClientTypes, Scripts, Calls, ClientGone
  <2>2. helper = "done" => request = "none" /\ toHelper = <<>>
    BY DEF HelperTypes, StreamInv
  <2> QED  BY <1>1, <1>3, <2>1, <2>2 DEF Effect, Fate, Verdict, Lost, HelperGone
<1>4. CASE client \in {"stopped", "dead"}
  <2>1. Lost /\ toClient = <<>>
    BY <1>4 DEF Lost, ClientGone, CallInv
  <2>2. /\ helper \in {"command", "done"} => request = "none"
        /\ helper \in {"environment", "perform"} => request # "none"
        /\ helper = "done" => toHelper = <<>>
    BY DEF HelperTypes, StreamInv, Scripts, Calls
  <2>3. helper \in HelperAt
    BY DEF HelperTypes
  <2> QED  BY <1>1, <1>4, <2>1, <2>2, <2>3 DEF Effect, Fate, Verdict, HelperAt
<1> QED  BY <1>2, <1>3, <1>4 DEF ClientTypes

Asks ==
    /\ ~Lost /\ ~Lost' /\ call = "none" /\ call' \in Calls
    /\ Fate = "idle" /\ Fate' = "asked" /\ outcome' = outcome

Performs ==
    /\ Lost' <=> Lost
    /\ call' = call /\ outcome' = outcome
    /\ Fate = "asked" /\ Fate' \in {"performed", "refused"}

Returns ==
    /\ ~Lost /\ call # "none" /\ call' = "none"
    /\ Fate \in {"performed", "refused"} /\ Fate' = "idle"
    /\ outcome' = IF Fate = "performed" THEN "ok" ELSE "failed"

Loses ==
    ~Lost /\ Lost' /\ Fate' \in {Fate, "idle"} /\ outcome' = outcome

FailsLost ==
    Lost /\ Lost' /\ Fate' \in {Fate, "idle"} /\ outcome' \in {outcome, "failed"}

Stutters ==
    /\ Lost' <=> Lost
    /\ call' = call /\ Fate' = Fate /\ outcome' = outcome

Step == Asks \/ Performs \/ Returns \/ Loses \/ FailsLost \/ Stutters

LEMMA ClientSteps ==
    Premise /\ (Client \/ ClientDies) => Step
<1> SUFFICES ASSUME Premise PROVE Client \/ ClientDies => Step
  OBVIOUS
<1> USE DEF Premise, Conversation, Fate, Verdict, Lost, ClientGone, HelperGone
<1>1. SendRequest => Asks
  BY DEF SendRequest, CallInv, ClientTypes, Asks, helperVars
<1>2. SendEnvLine => Stutters
  BY DEF SendEnvLine, CallInv, Stutters, helperVars
<1>3. WriteFails => FailsLost
  BY DEF WriteFails, Return, CallInv, StreamInv, FailsLost, helperVars
<1>4. TakeReply => Returns
  <2> SUFFICES ASSUME TakeReply PROVE Returns
    OBVIOUS
  <2>1. /\ toClient \in Seq(BOOLEAN) /\ Len(toClient) = 1 /\ helper \in {"command", "done"}
        /\ helper' = helper /\ toHelper = <<>> /\ toHelper' = toHelper
        /\ toClient' = Tail(toClient) /\ call \in Calls /\ toClient # <<>>
        /\ client = "waiting" /\ Return(call, Head(toClient))
    BY DEF TakeReply, CallInv, ClientTypes, HelperTypes, helperVars
  <2>2. toClient' = <<>> /\ Head(toClient) \in BOOLEAN
    BY <2>1, Taken
  <2> QED  BY <2>1, <2>2 DEF Returns, Return, Calls
<1>5. SeeEnd => FailsLost
  BY DEF SeeEnd, Return, StreamInv, FailsLost, helperVars
<1>6. Stop => Loses \/ FailsLost
  <2> SUFFICES ASSUME Stop PROVE Loses \/ FailsLost
    OBVIOUS
  <2>1. /\ helper \in {"command", "done"} /\ helper' = helper /\ client = "ready"
        /\ toHelper = <<>> /\ toClient = <<>> /\ toClient' = <<>> /\ client' = "stopped"
        /\ toHelper' = IF helper = "done" THEN <<>> ELSE Append(<<>>, "BYE")
        /\ outcome' = outcome
    BY DEF Stop, CallInv, helperVars
  <2>2. Append(<<>>, "BYE")[1] \notin Calls
    BY EmptySeq, Appended DEF Lines, Calls
  <2> QED  BY <2>1, <2>2 DEF Loses, FailsLost
<1>7. ClientDies => Loses \/ FailsLost
  <2> SUFFICES ASSUME ClientDies PROVE Loses \/ FailsLost
    OBVIOUS
  <2>1. /\ helper' = helper /\ success' = success /\ toHelper' = toHelper
        /\ client \in {"ready", "writing", "waiting"} /\ client' = "dead"
        /\ toClient' = <<>> /\ outcome' = outcome
    BY DEF ClientDies, ClientTypes, helperVars
  <2>2. /\ toClient # <<>> => helper \in {"command", "done"} /\ toHelper = <<>>
        /\ client = "ready" =>
             helper \in {"command", "done"} /\ toHelper = <<>> /\ toClient = <<>>
    BY <2>1 DEF CallInv
  <2>3. Lost'
    BY <2>1
  <2>4. Fate' \in {Fate, "idle"}
    BY <2>1, <2>2
  <2> QED  BY <2>1, <2>3, <2>4 DEF Loses, FailsLost
<1> QED  BY <1>1, <1>2, <1>3, <1>4, <1>5, <1>6, <1>7 DEF Client, Step

LEMMA HelperSteps ==
    Premise /\ (Helper \/ HelperDies) => Step
<1> SUFFICES ASSUME Premise PROVE Helper \/ HelperDies => Step
  OBVIOUS
<1> USE DEF Premise, Conversation, Fate, Verdict, Lost, ClientGone, HelperGone
<1>1. ReadCommand => Stutters
  <2> SUFFICES ASSUME ReadCommand PROVE Stutters
    OBVIOUS
  <2>1. /\ helper = "command" /\ toHelper # <<>> /\ toHelper \in Seq(Lines)
        /\ toClient' = toClient /\ client' = client /\ call' = call /\ outcome' = outcome
    BY DEF ReadCommand, HelperTypes, clientVars
  <2>2. /\ Len(toHelper) \in Nat /\ Len(toHelper) >= 1 /\ Head(toHelper) = toHelper[1]
    BY <2>1, Taken
  <2>3. toClient = <<>> /\ client # "ready"
    BY <2>1 DEF CallInv, ClientTypes
  <2>4. toHelper[1] \in Calls \cup {"BYE"} /\ (toHelper[1] = "BYE" <=> client = "stopped")
    BY <2>1, <2>2 DEF StreamInv, Before
  <2>5. CASE toHelper[1] = "BYE"
    BY <2>1, <2>2, <2>3, <2>4, <2>5 DEF ReadCommand, Stutters, Calls
  <2>6. CASE toHelper[1] \in Calls
    <3>1. helper' \in {"environment", "perform"}
      BY <2>2, <2>6 DEF ReadCommand, Calls
    <3> QED  BY <2>1, <2>3, <2>4, <2>6, <3>1 DEF Stutters
  <2> QED  BY <2>4, <2>5, <2>6
<1>2. ReadEnvLine => Stutters
  BY DEF ReadEnvLine, CallInv, ClientTypes, Stutters, clientVars
<1>3. HelperSeesEnd => Stutters
  BY DEF HelperSeesEnd, CallInv, Stutters, clientVars
<1>4. Perform => Performs
  BY DEF Perform, CallInv, ClientTypes, Performs, clientVars
<1>5. SendReply => Stutters
  <2> SUFFICES ASSUME SendReply PROVE Stutters
    OBVIOUS
  <2>1. /\ helper = "reply" /\ helper' = "command" /\ client = "waiting"
        /\ toClient = <<>> /\ toClient' = Append(<<>>, success) /\ success \in BOOLEAN
        /\ client' = client /\ call' = call /\ outcome' = outcome
    BY DEF SendReply, CallInv, ClientTypes, HelperTypes, clientVars
  <2>2. toClient' # <<>> /\ Head(toClient') = success
    BY <2>1
  <2> QED  BY <2>1, <2>2 DEF Stutters
<1>6. ReplyFails => FailsLost
  BY DEF ReplyFails, CallInv, StreamInv, FailsLost, clientVars
<1>7. HelperDies => Loses \/ FailsLost \/ Stutters
  BY DEF HelperDies, CallInv, ClientTypes, HelperTypes, Loses, FailsLost, Stutters, clientVars
<1> QED  BY <1>1, <1>2, <1>3, <1>4, <1>5, <1>6, <1>7 DEF Helper, Step

LEMMA AbstractStep ==
    ASSUME EveryLineFits, EveryLineFits', Effect = Fate, Effect' = Fate', Step
    PROVE  [PC!Next]_PC!vars
<1>1. CASE Asks
  BY <1>1 DEF Asks, PC!Next, PC!Ask, PC!Calls, Calls
<1>2. CASE Performs
  BY <1>2 DEF Performs, PC!Next, PC!Perform
<1>3. CASE Returns
  BY <1>3 DEF Returns, PC!Next, PC!Return
<1>4. CASE Loses
  BY <1>4 DEF Loses, PC!Next, PC!Lose
<1>5. CASE FailsLost
  BY <1>5 DEF FailsLost, PC!Next, PC!FailLost
<1>6. CASE Stutters
  BY <1>6 DEF Stutters, PC!vars
<1> QED  BY <1>1, <1>2, <1>3, <1>4, <1>5, <1>6 DEF Step

\* Every call of the session is performed or refused once, and succeeds only if
\* it was performed, whatever the interleaving and whichever process dies, if the
\* lines of the block fit (tun_protocol.hpp:9-17, privileged_client.hpp:139-245).
THEOREM Implementation == Spec => ImplementsCalls
<1>1. Init => PC!Init
  <2> SUFFICES ASSUME Init PROVE PC!Init
    OBVIOUS
  <2>1. ~Lost /\ call = "none" /\ outcome = "none"
    BY DEF Init, Lost, ClientGone, HelperGone
  <2>2. Effect = "idle"
    <3>1. DOMAIN toHelper = 1..0
      BY EmptySeq, LenProperties DEF Init
    <3>2. ~\E i \in DOMAIN toHelper : toHelper[i] \in Calls
      BY <3>1
    <3>3. toClient = <<>> /\ helper # "reply" /\ request = "none"
      BY DEF Init
    <3> QED  BY <2>1, <3>2, <3>3 DEF Effect
  <2>3. (Lost \/ ~EveryLineFits) \in BOOLEAN
    BY DEF EveryLineFits, Lost, ClientGone, HelperGone
  <2> QED  BY <2>1, <2>2, <2>3 DEF PC!Init
<1>2. ProtocolInv /\ ProtocolInv' /\ [Next]_vars => [PC!Next]_PC!vars
  <2> SUFFICES ASSUME ProtocolInv, ProtocolInv', [Next]_vars PROVE [PC!Next]_PC!vars
    OBVIOUS
  <2>1. CASE UNCHANGED vars
    BY <2>1 DEF vars, clientVars, helperVars, PC!vars, Effect, Lost, ClientGone,
      HelperGone, EveryLineFits
  <2>2. CASE Next /\ ~EveryLineFits
    BY <2>2, BlockIsFixed DEF PC!vars
  <2>3. CASE Next /\ EveryLineFits
    <3>1. EveryLineFits' /\ Premise /\ Premise'
      BY <2>3, BlockIsFixed DEF ProtocolInv, Premise
    <3>2. (Premise => Effect = Fate)'
      BY FateOfCall, PTL
    <3>3. Step
      BY <2>3, <3>1, ClientSteps, HelperSteps DEF Next
    <3> QED  BY <2>3, <3>1, <3>2, <3>3, FateOfCall, AbstractStep
  <2> QED  BY <2>1, <2>2, <2>3
<1> QED  BY <1>1, <1>2, Invariance, PTL DEF Spec, ImplementsCalls, PC!Spec

-----------------------------------------------------------------------------
(***************************************************************************)
(* Client and helper do not wait for each other, whether lines fit or not. *)
(***************************************************************************)

\* The lines that end the reading of a block.
BlockEnd == {"blank", "overlong"}

HasEnd(lines, first) == \E i \in first..Len(lines) : lines[i] \in BlockEnd
EveryBlockEnds(lines) ==
    \A i \in 1..Len(lines) : lines[i] \in Scripts => HasEnd(lines, i + 1)

LineTypes ==
    /\ env \in Seq(EnvLine)
    /\ unsent \in Seq(EnvLine \cup {"blank"})
    /\ toHelper \in Seq(Lines)
    /\ toClient \in Seq(BOOLEAN)
    /\ helper \in HelperAt
    /\ client \in {"ready", "writing", "waiting", "stopped", "dead"}
    /\ next \in Calls \cup {"BYE"}
    /\ success \in BOOLEAN

\* A client that does not write has written its blocks to their ends; one that
\* does has the blank line still to write.
BlocksEnd ==
    /\ client \in {"ready", "waiting"} =>
         /\ EveryBlockEnds(toHelper)
         /\ helper = "environment" => HasEnd(toHelper, 1)
    /\ client = "writing" => unsent # <<>> /\ unsent[Len(unsent)] = "blank"

\* A client that waits is owed an answer: it is there, or the helper is at it, or
\* has something to read, or is gone (privileged_client.hpp:141-245).
AnswerIsOwed ==
    client = "waiting" =>
        toClient # <<>> \/ toHelper # <<>> \/ helper \in {"perform", "reply", "done"}

LinesInv ==
    /\ LineTypes /\ BlocksEnd /\ AnswerIsOwed
    /\ helper = "done" => toHelper = <<>>

\* What the helper may still do without its client.
Position == [done |-> 0, command |-> 1, reply |-> 2, perform |-> 3, environment |-> 4]
Work == 5 * Len(toHelper) + Position[helper]

\* Another line behind the blocks leaves them ended; a line that ends blocks ends
\* the last.
LEMMA EndsAppended ==
  ASSUME NEW lines \in Seq(Lines), NEW line \in Lines \ Scripts
  PROVE  /\ EveryBlockEnds(lines) => EveryBlockEnds(Append(lines, line))
         /\ HasEnd(lines, 1) => HasEnd(Append(lines, line), 1)
         /\ line \in BlockEnd => /\ EveryBlockEnds(Append(lines, line))
                                 /\ HasEnd(Append(lines, line), 1)
<1>1. /\ Len(lines) \in Nat /\ Len(Append(lines, line)) = Len(lines) + 1
      /\ \A i \in 1..Len(lines) : Append(lines, line)[i] = lines[i]
      /\ Append(lines, line)[Len(lines) + 1] = line
  BY Appended, LenProperties
<1>2. \A k \in Nat \ {0} : HasEnd(lines, k) => HasEnd(Append(lines, line), k)
  BY <1>1 DEF HasEnd
<1>3. line \in BlockEnd =>
        \A k \in 1..Len(lines) + 1 : HasEnd(Append(lines, line), k)
  BY <1>1 DEF HasEnd
<1>4. \A i \in 1..Len(lines) + 1 : Append(lines, line)[i] \in Scripts =>
        i \in 1..Len(lines) /\ lines[i] \in Scripts
  BY <1>1
<1> QED  BY <1>1, <1>2, <1>3, <1>4 DEF EveryBlockEnds

\* Blocks stay ended when the first line is read, and the one that begins there or
\* has begun still has its end.
LEMMA EndsTaken ==
  ASSUME NEW lines \in Seq(Lines), lines # <<>>, EveryBlockEnds(lines)
  PROVE  /\ EveryBlockEnds(Tail(lines))
         /\ lines[1] \in Scripts => HasEnd(Tail(lines), 1)
         /\ HasEnd(lines, 1) /\ lines[1] \notin BlockEnd => HasEnd(Tail(lines), 1)
<1>1. /\ Len(lines) \in Nat /\ Len(lines) >= 1 /\ Len(Tail(lines)) = Len(lines) - 1
      /\ \A i \in 1..Len(lines) - 1 : Tail(lines)[i] = lines[i + 1]
  BY Taken
<1>2. ASSUME NEW k \in 1..Len(lines), HasEnd(lines, k + 1)
      PROVE  HasEnd(Tail(lines), k)
  <2>1. PICK i \in k + 1..Len(lines) : lines[i] \in BlockEnd
    BY <1>2 DEF HasEnd
  <2>2. i - 1 \in k..Len(lines) - 1 /\ Tail(lines)[i - 1] = lines[i]
    BY <1>1, <2>1
  <2> QED  BY <1>1, <2>1, <2>2 DEF HasEnd
<1>3. EveryBlockEnds(Tail(lines))
  <2> SUFFICES ASSUME NEW i \in 1..Len(Tail(lines)), Tail(lines)[i] \in Scripts
               PROVE  HasEnd(Tail(lines), i + 1)
    BY DEF EveryBlockEnds
  <2>1. lines[i + 1] \in Scripts /\ i + 1 \in 1..Len(lines)
    BY <1>1
  <2> QED  BY <1>2, <2>1 DEF EveryBlockEnds
<1>4. lines[1] \in Scripts => HasEnd(Tail(lines), 1)
  BY <1>1, <1>2 DEF EveryBlockEnds
<1>5. HasEnd(lines, 1) /\ lines[1] \notin BlockEnd => HasEnd(lines, 2)
  BY <1>1 DEF HasEnd
<1> QED  BY <1>1, <1>2, <1>3, <1>4, <1>5

\* The rest of a line that did not fit is no command.
LEMMA EndsReplaced ==
  ASSUME NEW lines \in Seq(Lines), NEW rest \in {"rest", "overlong"}, EveryBlockEnds(lines)
  PROVE  /\ EveryBlockEnds(<<rest>> \o lines)
         /\ <<rest>> \o lines \in Seq(Lines) /\ Len(<<rest>> \o lines) = Len(lines) + 1
<1> DEFINE all == <<rest>> \o lines
<1>1. /\ all \in Seq(Lines) /\ Len(lines) \in Nat /\ Len(all) = Len(lines) + 1
      /\ all[1] = rest /\ \A i \in 1..Len(lines) : all[i + 1] = lines[i]
  <2>1. <<rest>> \in Seq(Lines) /\ Len(<<rest>>) = 1 /\ <<rest>>[1] = rest
    BY DEF Lines, EnvLine
  <2>2. Len(lines) \in Nat
    BY LenProperties
  <2> QED  BY <2>1, <2>2, ConcatProperties
<1>2. ASSUME NEW k \in Nat \ {0}, HasEnd(lines, k)
      PROVE  HasEnd(all, k + 1)
  <2>1. PICK i \in k..Len(lines) : lines[i] \in BlockEnd
    BY <1>2 DEF HasEnd
  <2>2. i + 1 \in k + 1..Len(all) /\ all[i + 1] = lines[i]
    BY <1>1, <2>1
  <2> QED  BY <2>1, <2>2 DEF HasEnd
<1>3. EveryBlockEnds(all)
  <2> SUFFICES ASSUME NEW i \in 1..Len(all), all[i] \in Scripts
               PROVE  HasEnd(all, i + 1)
    BY DEF EveryBlockEnds
  <2>1. i # 1 /\ i - 1 \in 1..Len(lines) /\ lines[i - 1] \in Scripts
    <3>1. i # 1
      BY <1>1 DEF Scripts
    <3>2. i - 1 \in 1..Len(lines) /\ all[(i - 1) + 1] = lines[i - 1] /\ (i - 1) + 1 = i
      BY <1>1, <3>1
    <3> QED  BY <3>1, <3>2
  <2>2. HasEnd(lines, i)
    BY <2>1 DEF EveryBlockEnds
  <2> QED  BY <1>2, <2>2
<1> QED  BY <1>1, <1>3

\* The client writes.
LEMMA WritingOwes ==
  ASSUME LinesInv, SendRequest \/ SendEnvLine \/ WriteFails
  PROVE  LinesInv'
<1> USE DEF LinesInv
<1>1. CASE SendRequest
  <2>1. /\ toHelper' = Append(toHelper, next) /\ next \in Calls /\ client = "ready"
        /\ UNCHANGED <<env, next, toClient, helper, success>> /\ helper # "done"
    BY <1>1 DEF SendRequest, helperVars, HelperGone
  <2>2. toHelper' \in Seq(Lines) /\ toHelper' # <<>> /\ next \in Lines
    BY <2>1, Appended DEF LineTypes, Lines
  <2>3. CASE next \in Scripts
    <3>1. client' = "writing" /\ unsent' = Append(env, "blank")
      BY <1>1, <2>3 DEF SendRequest, Scripts
    <3>2. /\ unsent' \in Seq(EnvLine \cup {"blank"}) /\ unsent' # <<>>
          /\ unsent'[Len(unsent')] = "blank"
      <4>1. env \in Seq(EnvLine \cup {"blank"}) /\ Len(env) \in Nat
        BY SeqMonotonic, LenProperties DEF LineTypes
      <4> QED  BY <3>1, <4>1, Appended
    <3> QED  BY <2>1, <2>2, <3>1, <3>2 DEF LineTypes, BlocksEnd, AnswerIsOwed
  <2>4. CASE next \notin Scripts
    <3>1. client' = "waiting" /\ unsent' = unsent
      BY <1>1, <2>4 DEF SendRequest, Scripts
    <3>2. /\ EveryBlockEnds(toHelper')
          /\ helper = "environment" => HasEnd(toHelper', 1)
      BY <2>1, <2>2, <2>4, EndsAppended DEF BlocksEnd, LineTypes
    <3> QED  BY <2>1, <2>2, <3>1, <3>2 DEF LineTypes, BlocksEnd, AnswerIsOwed
  <2> QED  BY <2>3, <2>4
<1>2. CASE SendEnvLine
  <2>1. /\ client = "writing" /\ toHelper' = Append(toHelper, Head(unsent))
        /\ unsent' = Tail(unsent) /\ UNCHANGED <<env, next, toClient, helper, success>>
        /\ client' = IF unsent' = <<>> THEN "waiting" ELSE "writing"
        /\ helper # "done" /\ unsent # <<>> /\ unsent[Len(unsent)] = "blank"
    BY <1>2 DEF SendEnvLine, helperVars, HelperGone, BlocksEnd
  <2>2. /\ Len(unsent) \in Nat /\ Len(unsent) >= 1 /\ Head(unsent) = unsent[1]
        /\ Head(unsent) \in EnvLine \cup {"blank"}
        /\ unsent' \in Seq(EnvLine \cup {"blank"}) /\ Len(unsent') = Len(unsent) - 1
        /\ \A i \in 1..Len(unsent) - 1 : unsent'[i] = unsent[i + 1]
        /\ unsent' = <<>> <=> Len(unsent) = 1
    BY <2>1, Taken DEF LineTypes
  <2>3. Head(unsent) \in Lines \ Scripts
    BY <2>2 DEF Lines, Scripts, EnvLine
  <2>4. toHelper' \in Seq(Lines) /\ toHelper' # <<>>
    BY <2>1, <2>3, Appended DEF LineTypes
  <2>5. unsent' # <<>> => unsent'[Len(unsent')] = "blank"
    BY <2>1, <2>2
  <2>6. unsent' = <<>> => EveryBlockEnds(toHelper') /\ HasEnd(toHelper', 1)
    BY <2>1, <2>2, <2>3, EndsAppended DEF BlockEnd, LineTypes
  <2>7. LineTypes'
    BY <2>1, <2>2, <2>4 DEF LineTypes
  <2>8. BlocksEnd'
    BY <2>1, <2>5, <2>6 DEF BlocksEnd
  <2> QED  BY <2>1, <2>4, <2>7, <2>8 DEF AnswerIsOwed
<1>3. CASE WriteFails
  <2>1. helper = "done" /\ toHelper = <<>> /\ UNCHANGED <<env, toHelper, helper, success>>
    BY <1>3 DEF WriteFails, HelperGone, helperVars
  <2>2. /\ client' \in {"ready", "waiting", "dead"}
        /\ next' \in Calls \cup {"BYE"} /\ unsent' \in Seq(EnvLine \cup {"blank"})
        /\ toClient' \in Seq(BOOLEAN)
    <3>1. <<>> \in Seq(EnvLine \cup {"blank"}) /\ <<>> \in Seq(BOOLEAN)
      BY EmptySeq
    <3>2. next' \in Calls \cup {"BYE"}
      BY <1>3 DEF WriteFails, Return, NextCalls, Calls, LineTypes
    <3> QED  BY <1>3, <3>1, <3>2 DEF WriteFails, Return, LineTypes
  <2>3. EveryBlockEnds(toHelper')
    BY <2>1, EmptySeq DEF EveryBlockEnds
  <2> QED  BY <2>1, <2>2, <2>3 DEF LineTypes, BlocksEnd, AnswerIsOwed
<1> QED  BY <1>1, <1>2, <1>3

\* The client gets its answer, stops, or dies.
LEMMA AnsweredOwes ==
  ASSUME LinesInv, TakeReply \/ SeeEnd \/ Stop \/ ClientDies
  PROVE  LinesInv'
<1> USE DEF LinesInv
<1>1. /\ UNCHANGED <<env, helper, success>> /\ client' \in {"ready", "stopped", "dead"}
      /\ client' = "ready" => client = "waiting" /\ toHelper' = toHelper
  BY DEF TakeReply, SeeEnd, Stop, ClientDies, Return, helperVars
<1>2. next' \in Calls \cup {"BYE"}
  BY DEF TakeReply, SeeEnd, Stop, ClientDies, Return, NextCalls, Calls, LineTypes
<1>3. unsent' \in Seq(EnvLine \cup {"blank"})
  BY EmptySeq DEF TakeReply, SeeEnd, Stop, ClientDies, Return, LineTypes
<1>4. toClient' \in Seq(BOOLEAN)
  <2>1. CASE TakeReply
    BY <2>1, Taken DEF TakeReply, LineTypes
  <2>2. CASE SeeEnd \/ Stop \/ ClientDies
    BY <2>2, EmptySeq DEF SeeEnd, Stop, ClientDies, LineTypes
  <2> QED  BY <2>1, <2>2
<1>5. toHelper' \in Seq(Lines) /\ (helper = "done" => toHelper' = <<>>)
  <2>1. CASE Stop
    BY <2>1, Appended DEF Stop, HelperGone, LineTypes, Lines
  <2>2. CASE TakeReply \/ SeeEnd \/ ClientDies
    BY <2>2 DEF TakeReply, SeeEnd, ClientDies, LineTypes
  <2> QED  BY <2>1, <2>2
<1>6. LineTypes'
  BY <1>1, <1>2, <1>3, <1>4, <1>5 DEF LineTypes
<1>7. BlocksEnd' /\ AnswerIsOwed'
  BY <1>1 DEF BlocksEnd, AnswerIsOwed
<1> QED  BY <1>1, <1>5, <1>6, <1>7

\* The helper reads.
LEMMA ReadingOwes ==
  ASSUME LinesInv, ReadCommand \/ ReadEnvLine
  PROVE  LinesInv' /\ Work \in Nat /\ Work' < Work
<1> USE DEF LinesInv
<1>1. UNCHANGED <<env, unsent, client, next, toClient>> /\ toHelper # <<>>
  BY DEF ReadCommand, ReadEnvLine, clientVars
<1>2. /\ Len(toHelper) \in Nat /\ Len(toHelper) >= 1 /\ Head(toHelper) \in Lines
      /\ Head(toHelper) = toHelper[1]
      /\ Tail(toHelper) \in Seq(Lines) /\ Len(Tail(toHelper)) = Len(toHelper) - 1
  BY <1>1, Taken DEF LineTypes
<1>3. client \in {"ready", "waiting"} =>
        /\ EveryBlockEnds(Tail(toHelper))
        /\ Head(toHelper) \in Scripts => HasEnd(Tail(toHelper), 1)
        /\ helper = "environment" /\ Head(toHelper) \notin BlockEnd =>
             HasEnd(Tail(toHelper), 1)
  BY <1>1, <1>2, EndsTaken DEF BlocksEnd, LineTypes
<1>4. \A lines : Len(lines) \in Nat /\ HasEnd(lines, 1) => lines # <<>>
  BY EmptySeq DEF HasEnd
<1>5. CASE ReadCommand
  <2>1. /\ helper = "command" /\ helper' \in HelperAt \ {"command"} /\ success' \in BOOLEAN
        /\ helper' = "environment" => Head(toHelper) \in Scripts
        /\ toHelper' = IF helper' = "done" THEN <<>> ELSE Tail(toHelper)
    BY <1>5 DEF ReadCommand, HelperAt, Calls, Scripts
  <2>2. toHelper' \in Seq(Lines) /\ Len(toHelper') \in Nat /\ Len(toHelper') < Len(toHelper)
    BY <1>2, <2>1, EmptySeq
  <2>3. LineTypes'
    BY <1>1, <2>1, <2>2 DEF LineTypes
  <2>4. BlocksEnd'
    <3>1. EveryBlockEnds(<<>>)
      BY EmptySeq DEF EveryBlockEnds
    <3> QED  BY <1>1, <1>3, <2>1, <3>1 DEF BlocksEnd
  <2>5. AnswerIsOwed'
    <3>1. client = "waiting" /\ helper' = "environment" => toHelper' # <<>>
      BY <1>2, <1>3, <1>4, <2>1
    <3> QED  BY <1>1, <2>1, <3>1 DEF AnswerIsOwed, HelperAt
  <2>6. Position[helper] = 1 /\ Position[helper'] \in 0..4
    BY <2>1 DEF Position, HelperAt
  <2>7. Work \in Nat /\ Work' < Work
    BY <1>2, <2>2, <2>6 DEF Work
  <2> QED  BY <2>1, <2>3, <2>4, <2>5, <2>7
<1>6. CASE ReadEnvLine /\ Head(toHelper) = "fits"
  <2>1. /\ helper = "environment" /\ helper' = helper /\ toHelper' = Tail(toHelper)
        /\ success' = success
    BY <1>6 DEF ReadEnvLine
  <2>2. BlocksEnd'
    BY <1>1, <1>3, <1>6, <2>1 DEF BlocksEnd, BlockEnd
  <2>3. client = "waiting" => toHelper' # <<>>
    BY <1>1, <1>2, <1>4, <2>1, <2>2 DEF BlocksEnd
  <2>4. Work \in Nat /\ Work' < Work
    BY <1>2, <2>1 DEF Work, Position
  <2> QED  BY <1>1, <1>2, <2>1, <2>2, <2>3, <2>4 DEF LineTypes, AnswerIsOwed
<1>7. CASE ReadEnvLine /\ Head(toHelper) # "fits"
  <2>1. helper = "environment" /\ helper' = "perform" /\ success' = success
    BY <1>7 DEF ReadEnvLine
  <2>2. /\ toHelper' \in Seq(Lines) /\ Len(toHelper') \in Nat
        /\ Len(toHelper') <= Len(toHelper)
        /\ client \in {"ready", "waiting"} => EveryBlockEnds(toHelper')
    <3>1. CASE Head(toHelper) = "overlong"
      <4>1. PICK rest \in {"rest", "overlong"} : toHelper' = <<rest>> \o Tail(toHelper)
        BY <1>7, <3>1 DEF ReadEnvLine
      <4>2. toHelper' \in Seq(Lines) /\ Len(toHelper') = Len(toHelper)
        BY <1>2, <4>1, ConcatProperties DEF Lines, EnvLine
      <4>3. client \in {"ready", "waiting"} => EveryBlockEnds(toHelper')
        BY <1>2, <1>3, <4>1, EndsReplaced
      <4> QED  BY <1>2, <4>2, <4>3
    <3>2. CASE Head(toHelper) # "overlong"
      <4>1. toHelper' = Tail(toHelper)
        BY <1>7, <3>2 DEF ReadEnvLine
      <4> QED  BY <1>2, <1>3, <4>1
    <3> QED  BY <3>1, <3>2
  <2>3. Work \in Nat /\ Work' < Work
    BY <1>2, <2>1, <2>2 DEF Work, Position
  <2> QED  BY <1>1, <2>1, <2>2, <2>3 DEF LineTypes, BlocksEnd, AnswerIsOwed, HelperAt
<1> QED  BY <1>5, <1>6, <1>7

\* The helper works, replies, sees the end or dies.
LEMMA ReplyingOwes ==
  ASSUME LinesInv, HelperSeesEnd \/ Perform \/ SendReply \/ ReplyFails \/ HelperDies
  PROVE  LinesInv' /\ Work \in Nat /\ Work' < Work
<1> USE DEF LinesInv
<1>1. /\ UNCHANGED <<env, unsent, client, next>>
      /\ toHelper' = IF helper' = "done" THEN <<>> ELSE toHelper
      /\ helper' \in HelperAt \ {"environment"} /\ helper # "done"
      /\ helper' = "command" => helper = "reply"
      /\ success' \in BOOLEAN
  BY DEF HelperSeesEnd, Perform, SendReply, ReplyFails, HelperDies, clientVars,
     HelperGone, HelperAt, LineTypes
<1>2. toClient' \in Seq(BOOLEAN) /\ (client = "waiting" /\ helper' = "command" => toClient' # <<>>)
  <2>1. CASE SendReply
    BY <2>1, Appended DEF SendReply, LineTypes
  <2>2. CASE HelperSeesEnd \/ Perform \/ ReplyFails \/ HelperDies
    BY <2>2 DEF HelperSeesEnd, Perform, ReplyFails, HelperDies, ClientGone, LineTypes
  <2> QED  BY <2>1, <2>2
<1>3. toHelper' \in Seq(Lines) /\ Len(toHelper') \in Nat /\ Len(toHelper) \in Nat
      /\ Len(toHelper') <= Len(toHelper)
  BY <1>1, EmptySeq, LenProperties DEF LineTypes
<1>4. EveryBlockEnds(<<>>)
  BY EmptySeq DEF EveryBlockEnds
<1>5. LineTypes' /\ BlocksEnd'
  BY <1>1, <1>2, <1>3, <1>4 DEF LineTypes, BlocksEnd
<1>6. AnswerIsOwed'
  BY <1>1, <1>2 DEF AnswerIsOwed, HelperAt
<1>7. Position[helper] \in Nat /\ Position[helper'] < Position[helper]
  <2>1. helper' = "reply" => helper = "perform"
    BY <1>1 DEF HelperSeesEnd, Perform, SendReply, ReplyFails, HelperDies
  <2>2. helper' = "perform" => helper = "environment"
    BY <1>1 DEF HelperSeesEnd, Perform, SendReply, ReplyFails, HelperDies
  <2> QED  BY <1>1, <2>1, <2>2 DEF LineTypes, HelperAt, Position
<1>8. Work \in Nat /\ Work' < Work
  <2>1. Position[helper'] \in Nat
    BY <1>1 DEF Position, HelperAt
  <2> QED  BY <1>3, <1>7, <2>1 DEF Work
<1> QED  BY <1>1, <1>5, <1>6, <1>8

\* The invariant of streams with lines of any length, which fit or do not: every
\* block in them has its end (main_helper.cpp:164-193 and 281-317).
THEOREM LinesInvariance == Spec => []LinesInv
<1>1. Init => LinesInv
  <2> SUFFICES ASSUME Init PROVE LinesInv
    OBVIOUS
  <2>1. env \in Seq(EnvLine)
    BY Started DEF ProtocolInv
  <2>2. LineTypes
    BY <2>1, EmptySeq DEF Init, LineTypes, HelperAt, Calls
  <2> QED  BY <2>2, EmptySeq DEF Init, LinesInv, BlocksEnd, AnswerIsOwed, EveryBlockEnds
<1>2. LinesInv /\ [Next]_vars => LinesInv'
  <2> SUFFICES ASSUME LinesInv, [Next]_vars PROVE LinesInv'
    OBVIOUS
  <2>1. CASE Client
    BY <2>1, WritingOwes, AnsweredOwes DEF Client
  <2>2. CASE Helper \/ HelperDies
    BY <2>2, ReadingOwes, ReplyingOwes DEF Helper
  <2>3. CASE ClientDies
    BY <2>3, AnsweredOwes
  <2>4. CASE UNCHANGED vars
    BY <2>4 DEF vars, clientVars, helperVars, LinesInv, LineTypes, BlocksEnd, AnswerIsOwed
  <2> QED  BY <2>1, <2>2, <2>3, <2>4 DEF Next
<1> QED  BY <1>1, <1>2, PTL DEF Spec

\* Client and helper never wait for each other for lack of an answer, for blocks of
\* any length, lines that do not fit included, and whichever process dies
\* (privileged_client.hpp:141-245).
THEOREM NobodyWaitsInVain == Spec => []AnswerIsOwed
<1>1. LinesInv => AnswerIsOwed
  BY DEF LinesInv
<1> QED  BY <1>1, LinesInvariance, PTL

\* While the client waits, and once it is gone, every step takes the helper nearer
\* to the end of what it has to do, so that there are only finitely many: it works,
\* replies and ends, and reads nothing twice (main_helper.cpp:164-193 and 281-317).
WorkRunsOut ==
    [][(client = "waiting" /\ client' = "waiting") \/ ClientGone =>
         Work \in Nat /\ Work' < Work]_vars

\* So does a call of any session, and the helper after its client.
THEOREM CallsEnd == Spec => WorkRunsOut
<1>1. LinesInv /\ [Next]_vars =>
        [(client = "waiting" /\ client' = "waiting") \/ ClientGone =>
           Work \in Nat /\ Work' < Work]_vars
  <2> SUFFICES ASSUME LinesInv, Next,
                      (client = "waiting" /\ client' = "waiting") \/ ClientGone
               PROVE  Work \in Nat /\ Work' < Work
    OBVIOUS
  <2>1. CASE Helper \/ HelperDies
    BY <2>1, ReadingOwes, ReplyingOwes DEF Helper
  <2>2. ~Client /\ ~ClientDies
    BY DEF Client, ClientDies, SendRequest, SendEnvLine, WriteFails, TakeReply, SeeEnd,
       Stop, Return, ClientGone
  <2> QED  BY <2>1, <2>2 DEF Next
<1> QED  BY <1>1, LinesInvariance, PTL DEF Spec, WorkRunsOut

=============================================================================
