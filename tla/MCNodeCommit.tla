---------------------------- MODULE MCNodeCommit ----------------------------
(***************************************************************************)
(* Small instances of NodeCommit for TLC.  The nodes are numbered by key   *)
(* and their addresses are in the opposite order, so that CFR and MCCFR    *)
(* threads lock the same nodes in conflicting orders.                      *)
(***************************************************************************)
EXTENDS NodeCommit, TLC

CONSTANTS n1, n2, c1, m1, p1, r1

KeyOrder == [n \in Nodes |-> IF n = n1 THEN 1 ELSE 2]
AddressOrder == [n \in Nodes |-> IF n = n1 THEN 2 ELSE 1]

Vec(x, y) == (1 :> x) @@ (2 :> y)

\* One delta that raises one regret and lowers the other: half-applied, it
\* differs from both whole vectors.  Applied twice it leaves the finite range
\* when MaxFinite is 2 or 3.
OneDelta == {[regret |-> Vec(2, -1), strategy |-> Vec(1, 0)]}
=============================================================================
