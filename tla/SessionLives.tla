------------------------------ MODULE SessionLives ------------------------------
(***************************************************************************)
(* The life of a VpnSession (core/vpn_session.hpp) as its front ends see   *)
(* it, whatever happens inside: when the routes and DNS of the system are  *)
(* its own, and what a Cancel() comes to.  Each operator is the set of     *)
(* lives that one step may make of the life l, empty where it cannot be.   *)
(***************************************************************************)

Lives ==
    [phase : {"connecting", "up", "ending", "over"},
     \* The routes and DNS: the session's own when "configured", "stuck" when it
     \* tried to take them back in vain.
     network : {"clean", "configured", "stuck"},
     \* What configures them, root or the helper, is there.
     reachable : BOOLEAN,
     \* A cancellation would reach the session and end it; one did.
     hears : BOOLEAN,
     cancelled : BOOLEAN]

NewLife == [phase |-> "connecting", network |-> "clean", reachable |-> TRUE,
            hears |-> FALSE, cancelled |-> FALSE]

If(guard, lives) == IF guard THEN lives ELSE {}

\* The command pipe comes to be.
StartHearing(l) ==
    If(l.phase = "connecting" /\ l.network = "clean", {[l EXCEPT !.hears = TRUE]})

\* vpnc-script runs in Connect, before the session is up.
Configure(l) ==
    If(l.phase = "connecting" /\ l.reachable, {[l EXCEPT !.network = "configured"]})

ComeUp(l) ==
    If(l.phase = "connecting" /\ l.network = "configured", {[l EXCEPT !.phase = "up"]})

Ending(l) == [phase |-> "ending", network |-> l.network, reachable |-> l.reachable,
              hears |-> FALSE, cancelled |-> FALSE]

\* Connect fails, maybe in vpnc-script, or because the helper is refused.
FailToConnect(l) ==
    If(l.phase = "connecting",
       [phase : {"ending"},
        network : {l.network, IF l.reachable THEN "configured" ELSE l.network},
        reachable : {l.reachable, FALSE}, hears : {FALSE}, cancelled : {FALSE}])

\* The mainloop is over, for whatever reason.
GoDown(l) == If(l.phase = "up", {Ending(l)})

\* The destructor runs vpnc-script again, which may fail.
Undo(l) ==
    If(l.phase = "ending" /\ l.reachable /\ l.network = "configured",
       {[l EXCEPT !.network = n] : n \in {"clean", "stuck"}})

\* Nothing is left behind without an attempt to take it back; the helper is told
\* to go.
Leave(l) ==
    If(l.phase = "ending" /\ (l.network = "configured" => ~l.reachable),
       [phase : {"over"}, network : {l.network}, reachable : BOOLEAN,
        hears : {FALSE}, cancelled : {FALSE}])

\* A helper that refuses or dies, and what a write to it may do to the process.
LoseHelper(l) == If(l.phase # "over", {[l EXCEPT !.reachable = FALSE]})

Perish(l) ==
    If(l.phase # "over" /\ ~l.reachable,
       {[Ending(l) EXCEPT !.phase = "over"]})

\* Cancel(), which is lost on a session that does not hear yet.
Cancel(l) ==
    If(l.phase # "over", {[l EXCEPT !.cancelled = @ \/ l.hears]})

Connecting(l) ==
    StartHearing(l) \cup Configure(l) \cup ComeUp(l) \cup FailToConnect(l)

Destruction(l) == Undo(l) \cup Leave(l)

=============================================================================
