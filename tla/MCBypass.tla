------------------------------ MODULE MCBypass -------------------------------
(* Values of the constants of OafBypass for TLC.                           *)
EXTENDS OafBypass

CONSTANTS k1, x1

\* Reached only when af_conn_clean_timeout starts again.
FirstBucket == [k \in Conn |-> 0]
AllKnown == [k \in Conn |-> x1]

ListedOrNot == {[apps |-> {x1}, user |-> TRUE], [apps |-> {}, user |-> TRUE]}
==============================================================================
