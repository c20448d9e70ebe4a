---------------------------- MODULE FullTraversal ----------------------------
(***************************************************************************)
(* The traversal of CFR and CFR+ (src/traversal.c): one call as a function *)
(* of its arguments.  c holds them: the target player, the store as the    *)
(* strategies its nodes stand for, the weight of the iteration and the     *)
(* call that fails; w is the workspace and the game state, threaded        *)
(* through the recursion.  Reaches count in units of 1 / Unit.             *)
(***************************************************************************)
EXTENDS GameTree, TLC

\* Mutant: the reach of chance weighs the strategy too.
AccumulatedByChance(w, key, p, utilities, nodeUtility, reach) ==
    LET old == IF key \in DOMAIN w.deltas THEN w.deltas[key]
               ELSE [regret |-> [a \in DOMAIN p |-> 0], strategy |-> [a \in DOMAIN p |-> 0]]
        new == [regret |-> [a \in DOMAIN p |->
                    old.regret[a] + reach.external * reach.chance * (utilities[a] - nodeUtility)],
                strategy |-> [a \in DOMAIN p |-> old.strategy[a]
                    + ((reach.own * reach.chance * p[a]) \div (Scale * Unit)) * w.strategyWeight]]
    IN  [w EXCEPT !.deltas = (key :> new) @@ @]

\* find_or_create_entry, then the sums of a target node added to it.  The product
\* of the two reaches stays over Unit * Unit.
Accumulated(w, key, p, utilities, nodeUtility, reach) ==
    LET old == IF key \in DOMAIN w.deltas THEN w.deltas[key]
               ELSE [regret |-> [a \in DOMAIN p |-> 0], strategy |-> [a \in DOMAIN p |-> 0]]
        new == [regret |-> [a \in DOMAIN p |->
                    old.regret[a] + reach.external * reach.chance * (utilities[a] - nodeUtility)],
                strategy |-> [a \in DOMAIN p |->
                    old.strategy[a] + ((reach.own * p[a]) \div Scale) * w.strategyWeight]]
    IN  [w EXCEPT !.deltas = (key :> new) @@ @]

\* cfr_info_store_get_or_create
NodeOf(w, n) ==
    IF n.key \notin DOMAIN w.nodes
    THEN [w EXCEPT !.nodes = (n.key :> Uniform(Len(n.next))) @@ @]
    ELSE IF Len(w.nodes[n.key]) # Len(n.next) THEN [w EXCEPT !.status = Invalid] ELSE w

RECURSIVE CfrTraverseBranch(_, _, _, _), CfrTraversePlayer(_, _, _, _, _, _),
          CfrTraverseChance(_, _, _, _, _)

Below(g, c, w, a, reach) ==
    LET applied == ApplyAction(g, c, w, a)
    IN  IF applied.status # Success THEN applied
        ELSE UndoAction(c, CfrTraverseBranch(g, c, applied, reach))

\* Every action of every player is traversed; utilities: those seen so far.
CfrTraversePlayer(g, c, w, p, reach, utilities) ==
    LET n == Position(g, w.state)
        a == Len(utilities) + 1
        nodeUtility == SumFunction([b \in DOMAIN utilities |-> p[b] * utilities[b]]) \div Scale
        child == IF n.player = c.target
                 THEN [reach EXCEPT !.own = (@ * p[a]) \div Scale]
                 ELSE [reach EXCEPT !.external = (@ * p[a]) \div Scale]
        Continue(after) ==
            IF after.status # Success THEN after
            ELSE CfrTraversePlayer(g, c, after, p, reach, Append(utilities, after.utility))
    IN  IF a > Len(p)
        THEN [(IF n.player = c.target
               THEN Accumulated(w, n.key, p, utilities, nodeUtility, reach) ELSE w)
                 EXCEPT !.utility = nodeUtility]
        ELSE Continue(Below(g, c, w, a, child))

CfrTraverseChance(g, c, w, reach, utilities) ==
    LET n == Position(g, w.state)
        a == Len(utilities) + 1
        Continue(after) ==
            IF after.status # Success THEN after
            ELSE CfrTraverseChance(g, c, after, reach, Append(utilities, after.utility))
    IN  IF CollectChanceOutcomes(n) # Success THEN [w EXCEPT !.status = Invalid]
        ELSE IF a > Len(n.next)
        THEN [w EXCEPT !.utility =
                 SumFunction([b \in DOMAIN utilities |-> n.weight[b] * utilities[b]]) \div Scale]
        ELSE Continue(Below(g, c, w, a, [reach EXCEPT !.chance = (@ * n.weight[a]) \div Scale]))

CfrTraverseBranch(g, c, w, reach) ==
    LET visited == Query(c, [w EXCEPT !.visits = @ + 1])
        n == Position(g, w.state)
        node == NodeOf(visited, n)
    IN  IF visited.status # Success THEN visited
        ELSE IF n.kind = "terminal" THEN [visited EXCEPT !.utility = n.utility[c.target]]
        ELSE IF n.kind = "chance" THEN CfrTraverseChance(g, c, visited, reach, <<>>)
        ELSE IF ~PlayerIsValid(g, n.player) \/ ~ActionCountIsValid(n)
             THEN [visited EXCEPT !.status = Invalid]
        ELSE IF node.status # Success THEN node
        ELSE CfrTraversePlayer(g, c, node, node.nodes[n.key], reach, <<>>)

\* workspace_reset: the weight is the iteration in CFR+ and one in CFR.
ResetWorkspace(c) ==
    [status |-> Success, state |-> Root, calls |-> 0, visits |-> 0, deltas |-> <<>>,
     nodes |-> c.store, strategyWeight |-> IF c.plus THEN c.iteration ELSE 1, utility |-> 0]

\* The commit, whose own steps are those of NodeCommit, is the last call that can fail.
CommitDeltas(c, w) == IF w.status = Success THEN Query(c, w) ELSE w

CfrOutcome(c, w) ==
    IF w.status = Success
    THEN [status |-> Success, state |-> w.state, utility |-> w.utility,
          visited |-> w.visits, nodes |-> w.nodes, applied |-> w.deltas]
    ELSE [status |-> w.status, state |-> w.state, utility |-> c.utility,
          visited |-> c.visited, nodes |-> w.nodes, applied |-> <<>>]

FullTraverse(g, c) ==
    LET fresh == ResetWorkspace(c)
        one == [own |-> Unit, external |-> Unit, chance |-> Unit]
    IN  IF ~PlayerIsValid(g, c.target) \/ (c.plus /\ c.iteration = 0)
        THEN CfrOutcome(c, [fresh EXCEPT !.status = Invalid])
        ELSE CfrOutcome(c, CommitDeltas(c, CfrTraverseBranch(g, c, fresh, one)))

=============================================================================
