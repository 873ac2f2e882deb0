--------------------------- MODULE MCNetifEvent -----------------------------
(* Two interfaces for the races, one address or several.                   *)
EXTENDS NetifEvent, TLC

CONSTANTS eth0, eth1, a1, a2

OneIf == {eth0}
TwoIfs == {eth0, eth1}
TwoAddrs == {a1, a2}
=============================================================================
