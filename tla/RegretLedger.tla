---------------------------- MODULE RegretLedger ----------------------------
(***************************************************************************)
(* What committing a traversal promises (include/cfr/mccfr.h, "Each        *)
(* successful traversal commits its deltas atomically and can observe an   *)
(* earlier concurrent commit at one information set than at another").     *)
(*                                                                         *)
(* A commit adds its deltas to all of its nodes in one step, or to none of *)
(* them.  A thread that locks a node sees every commit.  A lock-free       *)
(* reader sees a commit node by node, and always a whole one: the strategy *)
(* it is given comes from the regrets of a node before or after a commit,  *)
(* never from a mixture, and never from a regret that CFR+ has not yet     *)
(* clamped.                                                                *)
(***************************************************************************)
EXTENDS Integers

CONSTANTS
  Nodes, Actions, Readers, Lockers,
  MaxFinite,
  Changes,        \* the deltas one commit may have for a node
  Clamping,       \* whether some commits clamp negative regrets (CFR+)
  Nobody          \* the node of an answer not yet given

VARIABLES
  sums,      \* node |-> accumulated [regret, strategy]
  visible,   \* node |-> positive regrets a lock-free reader is given
  answer     \* thread |-> the last answer

ledgerVars == <<sums, visible, answer>>

None == [a \in Actions |-> 0]
Pos(v) == [a \in Actions |-> IF v[a] > 0 THEN v[a] ELSE 0]
Added(v, w) == [a \in Actions |-> v[a] + w[a]]
InRange(v) == \A a \in Actions : -MaxFinite <= v[a] /\ v[a] <= MaxFinite

Init ==
  /\ sums    = [n \in Nodes |-> [regret |-> None, strategy |-> None]]
  /\ visible = [n \in Nodes |-> None]
  /\ answer  = [x \in Readers \union Lockers |->
                  [node |-> Nobody, current |-> None]]

\* The nodes of S change together; clamping replaces the negative regrets
\* of their sums by zero.
Commit(S, d, clamp) ==
  /\ \A n \in S :
       /\ visible[n] = Pos(sums[n].regret)
       /\ InRange(Added(sums[n].regret, d[n].regret))
       /\ InRange(Added(sums[n].strategy, d[n].strategy))
  /\ sums' = [n \in Nodes |->
                IF n \notin S THEN sums[n]
                ELSE [regret |-> LET v == Added(sums[n].regret, d[n].regret)
                                 IN IF clamp THEN Pos(v) ELSE v,
                      strategy |-> Added(sums[n].strategy, d[n].strategy)]]
  /\ UNCHANGED <<visible, answer>>

\* A committed node becomes visible to the lock-free readers.
Expose(n) ==
  /\ visible' = [visible EXCEPT ![n] = Pos(sums[n].regret)]
  /\ UNCHANGED <<sums, answer>>

Give(x, n, v) ==
  /\ answer' = [answer EXCEPT ![x] = [node |-> n, current |-> v]]
  /\ UNCHANGED <<sums, visible>>

Next ==
  \/ \E S \in SUBSET Nodes, clamp \in {FALSE, Clamping} :
       \E d \in [S -> Changes] : Commit(S, d, clamp)
  \/ \E n \in Nodes : Expose(n)
  \/ \E r \in Readers, n \in Nodes : Give(r, n, visible[n])
  \/ \E t \in Lockers, n \in Nodes : Give(t, n, Pos(sums[n].regret))

Spec == Init /\ [][Next]_ledgerVars
=============================================================================
