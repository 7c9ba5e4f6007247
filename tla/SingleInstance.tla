---------------------------- MODULE SingleInstance ----------------------------
(***************************************************************************)
(* SingleInstanceLock (platform/single_instance.hpp): the abstract unix    *)
(* socket whose name admits one client at a time, and over which a second  *)
(* one asks the holder for its pid.  The GUI answers from its event loop   *)
(* (main_gui.cpp), the console client never does (main_cli.cpp).  The      *)
(* kernel frees the name, and ends the connections, of a process that ends *)
(* in whatever way.                                                        *)
(***************************************************************************)
EXTENDS Naturals, Sequences, SequencesExt

CONSTANTS
    Processes,       \* the clients users start, again and again
    Consoles,        \* those of them that are the console client
    Nobody,
    Backlog,         \* connections the listening socket holds, listen()'s 4
    Unlucky          \* those whose socket(2) may fail: they go on without the guard

ASSUME InstanceAssumption ==
    /\ Consoles \subseteq Processes
    /\ Nobody \notin Processes
    /\ Backlog \in Nat \ {0}
    /\ Unlucky \subseteq Processes

VARIABLES
    at,         \* where each process is, "off" when it does not run
    name,       \* who has bound the name, or Nobody
    listening,  \* whether it listens already
    backlog     \* who waits to be accepted, Nobody for one that is gone

vars == <<at, name, listening, backlog>>

ProcessAt ==
    {"off", "acquire", "bound", "holding", "serving", "released", "ask",
     "waiting", "refused", "unguarded"}

TypeOK ==
    /\ at \in [Processes -> ProcessAt]
    /\ name \in Processes \cup {Nobody}
    /\ listening \in BOOLEAN
    /\ backlog \in Seq(Processes \cup {Nobody}) /\ Len(backlog) <= Backlog

Init ==
    /\ at = [p \in Processes |-> "off"]
    /\ name = Nobody
    /\ listening = FALSE
    /\ backlog = <<>>

Go(p, from, to) == at[p] = from /\ at' = [at EXCEPT ![p] = to]

-----------------------------------------------------------------------------
Start(p) ==
    /\ Go(p, "off", "acquire")
    /\ UNCHANGED <<name, listening, backlog>>

(***************************************************************************)
(* Acquire.                                                                *)
(***************************************************************************)

\* Without a socket the client runs all the same.
FailOpen(p) ==
    /\ p \in Unlucky
    /\ Go(p, "acquire", "unguarded")
    /\ UNCHANGED <<name, listening, backlog>>

Bind(p) ==
    /\ name = Nobody
    /\ Go(p, "acquire", "bound")
    /\ name' = p
    /\ UNCHANGED <<listening, backlog>>

FindInUse(p) ==
    /\ name # Nobody
    /\ Go(p, "acquire", "ask")
    /\ UNCHANGED <<name, listening, backlog>>

\* A slip: the result of Acquire is not the one the caller looks for.
ListenUnnoticed(p) ==
    /\ Go(p, "bound", "listening")
    /\ listening' = TRUE
    /\ UNCHANGED <<name, backlog>>

Listen(p) ==
    /\ Go(p, "bound", "holding")
    /\ listening' = TRUE
    /\ UNCHANGED <<name, backlog>>

\* AskHolder's connect(2) waits for room in the backlog.
ConnectToHolder(p) ==
    /\ listening
    /\ Len(backlog) < Backlog
    /\ Go(p, "ask", "waiting")
    /\ backlog' = Append(backlog, p)
    /\ UNCHANGED <<name, listening>>

\* A slip: a name whose holder does not answer is taken for a stale one.
TakeOver(p) ==
    /\ ~listening
    /\ Go(p, "ask", "holding")
    /\ name' = p
    /\ UNCHANGED <<listening, backlog>>

\* Nobody listens: the holder has not come to listen(2) yet, or is gone.
ConnectFails(p) ==
    /\ ~listening
    /\ Go(p, "ask", "refused")
    /\ UNCHANGED <<name, listening, backlog>>

-----------------------------------------------------------------------------
(***************************************************************************)
(* The holder.                                                             *)
(***************************************************************************)

EnterEventLoop(p) ==
    /\ p \notin Consoles
    /\ Go(p, "holding", "serving")
    /\ UNCHANGED <<name, listening, backlog>>

Answer(p) ==
    LET asking == ToSet(backlog) \ {Nobody} IN
    /\ at' = [q \in Processes |-> IF q \in asking THEN "refused" ELSE at[q]]
    /\ backlog' = <<>>
    /\ UNCHANGED <<name, listening>>

\* A slip: a connection whose other end is gone is never taken off.
ServeOnlyTheLiving(p) ==
    /\ at[p] = "serving"
    /\ Nobody \notin ToSet(backlog)
    /\ Answer(p)

\* The timer's ServePending takes everyone off the backlog and answers; read(2)
\* in AskHolder returns the pid even if the holder is gone by then.
ServePending(p) ==
    /\ at[p] = "serving"
    /\ Answer(p)

Holds(p) == at[p] \in {"bound", "holding", "serving"}

\* p's sockets are closed, and p goes on to be at next: the name is free and who
\* waits for its owner reads an end of file, or p only asked.
Close(p, next) ==
    IF name = p
      THEN /\ name' = Nobody
           /\ listening' = FALSE
           /\ backlog' = <<>>
           /\ at' = [q \in Processes |->
                       IF q = p THEN next
                       ELSE IF at[q] = "waiting" THEN "refused" ELSE at[q]]
      ELSE /\ at' = [at EXCEPT ![p] = next]
           /\ backlog' = [i \in DOMAIN backlog |->
                            IF backlog[i] = p THEN Nobody ELSE backlog[i]]
           /\ UNCHANGED <<name, listening>>

\* The lock's destructor, on the way out of main.
Release(p) ==
    /\ Holds(p)
    /\ Close(p, "released")

\* A process exits or is killed, also while it asks.
End(p) ==
    /\ at[p] # "off"
    /\ Close(p, "off")

-----------------------------------------------------------------------------
Acquire(p) ==
    \/ FailOpen(p) \/ Bind(p) \/ FindInUse(p) \/ Listen(p)
    \/ ConnectToHolder(p) \/ ConnectFails(p)

Next ==
    \E p \in Processes :
        \/ Start(p) \/ Acquire(p) \/ EnterEventLoop(p) \/ ServePending(p)
        \/ Release(p) \/ End(p)

Spec == Init /\ [][Next]_vars

-----------------------------------------------------------------------------
\* One tunnel at a time: however starts and ends interleave, no two clients are
\* past the lock at once, those apart that could not even ask for it
\* (single_instance.hpp:13-17 and 40-72).
OneTunnelAtATime == \A p, q \in Processes : Holds(p) /\ Holds(q) => p = q

=============================================================================
