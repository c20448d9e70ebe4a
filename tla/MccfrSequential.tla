--------------------------- MODULE MccfrSequential ---------------------------
(***************************************************************************)
(* External-sampling MCCFR on a store nobody else uses                     *)
(* (src/mccfr_sequential.c): one call as a function of its arguments.  c   *)
(* holds them: the target player, the store as the strategies its nodes    *)
(* stand for, the random stream, the stream position and the call that     *)
(* fails; w is the workspace and the game state, threaded through the      *)
(* recursion.                                                              *)
(***************************************************************************)
EXTENDS GameTree, Sampler, TLC

-----------------------------------------------------------------------------
\* find_or_create_delta, then the sums added to the entry.
Added(deltas, key, regret, strategy) ==
    LET old == IF key \in DOMAIN deltas THEN deltas[key]
               ELSE [regret |-> [a \in DOMAIN regret |-> 0],
                     strategy |-> [a \in DOMAIN strategy |-> 0]]
    IN  (key :> [regret |-> [a \in DOMAIN regret |-> old.regret[a] + regret[a]],
                 strategy |-> [a \in DOMAIN strategy |-> old.strategy[a] + strategy[a]]])
        @@ deltas

RecordTargetDeltas(g, w, key, p, utilities, nodeUtility, ownReach) ==
    [w EXCEPT !.deltas = Added(@, key,
        [a \in DOMAIN p |-> utilities[a] - nodeUtility],
        [a \in DOMAIN p |-> IF g.players = 1 THEN (ownReach * p[a]) \div Scale ELSE 0])]

RecordSampledStrategy(w, key, p, weight) ==
    [w EXCEPT !.deltas = Added(@, key, [a \in DOMAIN p |-> 0],
                                       [a \in DOMAIN p |-> (weight * p[a]) \div Scale])]

\* The action sampled for an information set is kept for the whole traversal.
GetSampledAction(c, w, n, p) ==
    IF n.key \notin DOMAIN w.samples
    THEN [w EXCEPT !.samples = (n.key :> [actions |-> n.actions,
                                          index |-> SampleIndex(p, c.stream[w.rng + 1])]) @@ @,
                   !.rng = @ + 1]
    ELSE IF w.samples[n.key].actions # n.actions THEN [w EXCEPT !.status = Invalid] ELSE w

\* workspace_get_or_create_node: a new node plays uniformly.
GetOrCreateNode(w, n) ==
    IF n.key \notin DOMAIN w.nodes
    THEN [w EXCEPT !.nodes = (n.key :> Uniform(Len(n.next))) @@ @]
    ELSE IF Len(w.nodes[n.key]) # Len(n.next) THEN [w EXCEPT !.status = Invalid] ELSE w

-----------------------------------------------------------------------------
RECURSIVE TraverseBranch(_, _, _, _), TraverseTargetNode(_, _, _, _, _, _)

\* Mutant: the error of a branch is returned before the undo.
DescendEarlyReturn(g, c, w, a, reach) ==
    LET applied == ApplyAction(g, c, w, a)
        Back(after) == IF after.status # Success THEN after ELSE UndoAction(c, after)
    IN  IF applied.status # Success THEN applied
        ELSE Back(TraverseBranch(g, c, applied, reach))

\* Apply an action, traverse the branch below it, undo the action.
Descend(g, c, w, a, reach) ==
    LET applied == ApplyAction(g, c, w, a)
    IN  IF applied.status # Success THEN applied
        ELSE UndoAction(c, TraverseBranch(g, c, applied, reach))

\* utilities: those of the actions already traversed.
TraverseTargetNode(g, c, w, p, ownReach, utilities) ==
    LET n == Position(g, w.state)
        a == Len(utilities) + 1
        nodeUtility == SumFunction([b \in DOMAIN utilities |-> p[b] * utilities[b]]) \div Scale
        Continue(after) ==
            IF after.status # Success THEN after
            ELSE TraverseTargetNode(g, c, after, p, ownReach, Append(utilities, after.utility))
    IN  IF a > Len(p)
        THEN [RecordTargetDeltas(g, w, n.key, p, utilities, nodeUtility, ownReach)
                 EXCEPT !.utility = nodeUtility]
        ELSE Continue(Descend(g, c, w, a, (ownReach * p[a]) \div Scale))

TraverseOpponentNode(g, c, w, p, ownReach) ==
    LET n == Position(g, w.state)
        sampled == GetSampledAction(c, w, n, p)
        recorded == IF g.players <= 2 THEN RecordSampledStrategy(sampled, n.key, p, Unit)
                    ELSE sampled
    IN  IF sampled.status # Success THEN sampled
        ELSE Descend(g, c, recorded, sampled.samples[n.key].index, ownReach)

\* Mutant: the probabilities of the other players weigh in too.
TraverseAverageNodeByReach(g, c, w, p, weight) ==
    LET n == Position(g, w.state)
        recorded == IF n.player = c.target THEN RecordSampledStrategy(w, n.key, p, weight) ELSE w
        a == UniformIndex(Len(p), c.stream[w.rng + 1])
        drawn == [recorded EXCEPT !.rng = @ + 1]
        childWeight == ((weight * p[a]) \div Scale) * Len(p)
    IN  [(IF childWeight = 0 THEN drawn ELSE Descend(g, c, drawn, a, childWeight))
            EXCEPT !.utility = 0]

\* A weight of zero ends the pass: nothing below could receive a share.
TraverseAverageNode(g, c, w, p, weight) ==
    LET n == Position(g, w.state)
        mine == n.player = c.target
        recorded == IF mine THEN RecordSampledStrategy(w, n.key, p, weight) ELSE w
        a == UniformIndex(Len(p), c.stream[w.rng + 1])
        drawn == [recorded EXCEPT !.rng = @ + 1]
        childWeight == (IF mine THEN (weight * p[a]) \div Scale ELSE weight) * Len(p)
    IN  [(IF childWeight = 0 THEN drawn ELSE Descend(g, c, drawn, a, childWeight))
            EXCEPT !.utility = 0]

TraverseChanceNode(g, c, w, ownReach) ==
    LET n == Position(g, w.state)
        a == SampleIndex(n.weight, c.stream[w.rng + 1])
    IN  IF CollectChanceOutcomes(n) # Success THEN [w EXCEPT !.status = Invalid]
        ELSE Descend(g, c, [w EXCEPT !.rng = @ + 1], a, ownReach)

TraverseBranch(g, c, w, ownReach) ==
    LET visited == Query(c, [w EXCEPT !.visits = @ + 1])
        n == Position(g, w.state)
        node == GetOrCreateNode(visited, n)
        p == node.nodes[n.key]
    IN  IF visited.status # Success THEN visited
        ELSE IF n.kind = "terminal" THEN [visited EXCEPT !.utility = n.utility[c.target]]
        ELSE IF n.kind = "chance" THEN TraverseChanceNode(g, c, visited, ownReach)
        ELSE IF ~PlayerIsValid(g, n.player) \/ ~ActionCountIsValid(n)
             THEN [visited EXCEPT !.status = Invalid]
        ELSE IF node.status # Success THEN node
        ELSE IF node.averageOnly THEN TraverseAverageNode(g, c, node, p, ownReach)
        ELSE IF n.player = c.target THEN TraverseTargetNode(g, c, node, p, ownReach, <<>>)
        ELSE TraverseOpponentNode(g, c, node, p, ownReach)

-----------------------------------------------------------------------------
\* workspace_reset
FreshWorkspace(c) ==
    [status |-> Success, state |-> Root, calls |-> 0, visits |-> 0, rng |-> c.rng,
     samples |-> <<>>, deltas |-> <<>>, nodes |-> c.store, averageOnly |-> FALSE, utility |-> 0]

\* The second pass of a game with more than two strategic players.
AveragePass(g, c, w) ==
    IF w.status = Success /\ g.players > 2
    THEN [TraverseBranch(g, c, [w EXCEPT !.averageOnly = TRUE], Unit) EXCEPT !.utility = w.utility]
    ELSE w

\* The check of the deltas is the last thing that can fail.
CheckDeltas(c, w) == IF w.status = Success THEN Query(c, w) ELSE w

\* The deltas are applied and the outputs written only after everything succeeded.
Outcome(c, w) ==
    IF w.status = Success
    THEN [status |-> Success, state |-> w.state, rng |-> w.rng, utility |-> w.utility,
          visited |-> w.visits, nodes |-> w.nodes, applied |-> w.deltas]
    ELSE [status |-> w.status, state |-> w.state, rng |-> c.rng, utility |-> c.utility,
          visited |-> c.visited, nodes |-> w.nodes, applied |-> <<>>]

ExternalTraverse(g, c) ==
    LET fresh == FreshWorkspace(c)
    IN  IF ~PlayerIsValid(g, c.target) THEN Outcome(c, [fresh EXCEPT !.status = Invalid])
        ELSE Outcome(c, CheckDeltas(c, AveragePass(g, c, TraverseBranch(g, c, fresh, Unit))))

=============================================================================
