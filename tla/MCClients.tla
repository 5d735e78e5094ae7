------------------------------ MODULE MCClients ------------------------------
(* Values of the constants of OafClients for TLC.                          *)
EXTENDS OafClients

CONSTANTS a1, b1, i1, i2

\* The bucket of a1 comes first.
WalkOrder == [m \in Mac |-> IF m = a1 THEN 0 ELSE 1]

\* One device changes its address, or each may have the other's.
OneMoves == [m \in Mac |-> IF m = a1 THEN {i1} ELSE {i1, i2}]
AnyAddress == [m \in Mac |-> Ip]
==============================================================================
