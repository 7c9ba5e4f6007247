--------------------------- MODULE SessionLifecycle ---------------------------
(***************************************************************************)
(* The abstract specification of a VpnSession: it lives one of SessionLives.*)
(***************************************************************************)
EXTENDS SessionLives

VARIABLE life

TypeOK == life \in Lives

Init == life = NewLife

Next ==
    \/ life' \in Connecting(life)
    \/ life' \in GoDown(life)
    \/ life' \in Destruction(life)
    \/ life' \in LoseHelper(life) \cup Perish(life)
    \/ life' \in Cancel(life)

Spec == Init /\ [][Next]_life

=============================================================================
