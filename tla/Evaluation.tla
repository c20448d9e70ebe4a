----------------------------- MODULE Evaluation -----------------------------
(***************************************************************************)
(* The evaluation of a stored average strategy (src/evaluation.c).  The    *)
(* game tree is copied into a snapshot with the strategy read at every     *)
(* position and the counterfactual reach of both players; the positions of *)
(* one policy node form a group.  A best response chooses one action per   *)
(* group, the groups below first, and remembers the value of every         *)
(* position.                                                               *)
(*                                                                         *)
(* c holds the arguments (the store as average strategies, the treatment   *)
(* of unvisited nodes, the call that fails), w the workspace and the game  *)
(* state; the snapshot names a position by its place in the tree.          *)
(***************************************************************************)
EXTENDS GameTree, TLC

NumericError == "CFR_STATUS_NUMERIC_ERROR"
Opponent(p) == 3 - p

-----------------------------------------------------------------------------
\* The policy of a position: a stored average, or a uniform stand-in kept in the
\* workspace's own store when unvisited nodes are accepted.
PolicyOf(c, w, n) ==
    IF n.key \in DOMAIN c.store
    THEN IF Len(c.store[n.key]) = Len(n.next) THEN [w EXCEPT !.policy = c.store[n.key]]
         ELSE [w EXCEPT !.status = Invalid]
    ELSE IF ~c.uniform THEN [w EXCEPT !.status = NotFound]
    ELSE IF n.key \in DOMAIN w.unvisited /\ w.unvisited[n.key] # Len(n.next)
    THEN [w EXCEPT !.status = Invalid]
    ELSE [w EXCEPT !.policy = Uniform(Len(n.next)),
                   !.unvisited = (n.key :> Len(n.next)) @@ @]

\* The positions of a policy node must offer the same player the same actions; the
\* newest position is the head of the group's list.
FindOrCreateGroup(g, w, at) ==
    LET n == g.nodes[at]
    IN  IF n.key \notin DOMAIN w.groups
        THEN [w EXCEPT !.groups = (n.key :> [player |-> n.player, positions |-> <<at>>,
                                             solving |-> FALSE, selected |-> 0]) @@ @]
        ELSE LET head == g.nodes[Head(w.groups[n.key].positions)]
             IN  IF head.player # n.player \/ head.actions # n.actions
                 THEN [w EXCEPT !.status = Invalid]
                 ELSE [w EXCEPT !.groups[n.key].positions = <<at>> \o @]

\* Mutant: a player's own probabilities count in its reach.
ChildReachWithOwn(n, reach, probability) ==
    [p \in 1..2 |-> (reach[p] * probability) \div Scale]

\* What an edge of position n does to the counterfactual reaches of the players.
ChildReach(n, reach, probability) ==
    [p \in 1..2 |-> IF n.kind = "player" /\ n.player = p THEN reach[p]
                    ELSE (reach[p] * probability) \div Scale]

RECURSIVE Build(_, _, _, _), BuildChildren(_, _, _, _, _)

BuildChildren(g, c, w, reach, a) ==
    LET at == Last(w.state)
        n == g.nodes[at]
        applied == ApplyAction(g, c, w, a)
        Continue(after) == IF after.status # Success THEN after
                           ELSE BuildChildren(g, c, after, reach, a + 1)
    IN  IF a > Len(n.next) THEN w
        ELSE IF applied.status # Success THEN applied
        ELSE Continue(UndoAction(c, Build(g, c, applied,
                                          ChildReach(n, reach, w.profile[at][a]))))

Build(g, c, w, reach) ==
    LET read == Query(c, w)
        at == Last(w.state)
        n == g.nodes[at]
        policy == PolicyOf(c, read, n)
        noted == [read EXCEPT !.reach = (at :> reach) @@ @]
        grouped == FindOrCreateGroup(g, [policy EXCEPT !.reach = (at :> reach) @@ @,
                                                       !.profile = (at :> policy.policy) @@ @], at)
        Refused == [read EXCEPT !.status = Invalid]
    IN  IF read.status # Success THEN read
        ELSE IF n.kind = "terminal"
             THEN IF n.utility[1] + n.utility[2] = 0 THEN noted ELSE Refused
        ELSE IF ~ActionCountIsValid(n) THEN Refused
        ELSE IF n.kind = "chance"
             THEN IF CollectChanceOutcomes(n) # Success THEN Refused
                  ELSE BuildChildren(g, c, [noted EXCEPT !.profile = (at :> n.weight) @@ @], reach, 1)
        ELSE IF n.player \notin 1..2 THEN Refused
        ELSE IF policy.status # Success THEN policy
        ELSE IF grouped.status # Success THEN grouped
        ELSE BuildChildren(g, c, grouped, reach, 1)

BuildSnapshot(g, c) ==
    LET w == [status |-> IF g.players <= 2 THEN Success ELSE Invalid, state |-> Root, calls |-> 0,
              policy |-> <<>>, unvisited |-> <<>>, groups |-> <<>>, profile |-> <<>>,
              reach |-> <<>>, cache |-> [p \in 1..2 |-> <<>>], value |-> 0]
    IN  IF w.status # Success THEN w ELSE Build(g, c, w, [p \in 1..2 |-> Unit])

-----------------------------------------------------------------------------
RECURSIVE ProfileValue(_, _, _, _)
ProfileValue(g, w, at, p) ==
    LET n == g.nodes[at]
    IN  IF n.kind = "terminal" THEN n.utility[p]
        ELSE SumFunction([a \in DOMAIN n.next |->
                 w.profile[at][a] * ProfileValue(g, w, n.next[a], p)]) \div Scale

RECURSIVE BestResponseValue(_, _, _, _), Expectation(_, _, _, _, _, _),
          ActionTotal(_, _, _, _, _, _), SolveGroup(_, _, _, _, _)

\* The total of one action over the positions of the group still listed.
ActionTotal(g, w, positions, a, p, total) ==
    LET at == Head(positions)
        Continue(child) ==
            IF child.status # Success THEN child
            ELSE ActionTotal(g, child, Tail(positions), a, p, total + w.reach[at][p] * child.value)
    IN  IF positions = <<>> THEN [w EXCEPT !.value = total]
        ELSE Continue(BestResponseValue(g, w, g.nodes[at].next[a], p))

\* totals: those of the actions already tried; the first of the greatest is selected.
SolveGroup(g, w, key, p, totals) ==
    LET group == w.groups[key]
        a == Len(totals) + 1
        Continue(tried) ==
            IF tried.status # Success THEN [tried EXCEPT !.groups[key].solving = FALSE]
            ELSE SolveGroup(g, tried, key, p, Append(totals, tried.value))
        best == Min({b \in DOMAIN totals : \A d \in DOMAIN totals : totals[d] <= totals[b]})
    IN  IF a > Len(g.nodes[Head(group.positions)].next)
        THEN [w EXCEPT !.groups[key].selected = best, !.groups[key].solving = FALSE]
        ELSE Continue(ActionTotal(g, w, group.positions, a, p, 0))

\* The expected value of a position somebody else moves from.
Expectation(g, w, at, p, a, sum) ==
    LET n == g.nodes[at]
        Continue(child) ==
            IF child.status # Success THEN child
            ELSE Expectation(g, child, at, p, a + 1, sum + w.profile[at][a] * child.value)
    IN  IF a > Len(n.next) THEN [w EXCEPT !.value = sum \div Scale]
        ELSE Continue(BestResponseValue(g, w, n.next[a], p))

BestResponseValue(g, w, at, p) ==
    LET n == g.nodes[at]
        group == w.groups[n.key]
        Follow(solved) == IF solved.status # Success THEN solved
                          ELSE BestResponseValue(g, solved,
                                   n.next[solved.groups[n.key].selected], p)
        Remember(result) == IF result.status # Success THEN result
                            ELSE [result EXCEPT !.cache[p] = (at :> result.value) @@ @]
        solved == IF group.player # p \/ (group.selected = 0 /\ group.solving)
                  THEN [w EXCEPT !.status = Invalid]
                  ELSE IF group.selected # 0 THEN w
                  ELSE SolveGroup(g, [w EXCEPT !.groups[n.key].solving = TRUE], n.key, p, <<>>)
        result == IF n.kind = "terminal" THEN [w EXCEPT !.value = n.utility[p]]
                  ELSE IF n.kind = "chance" \/ n.player # p THEN Expectation(g, w, at, p, 1, 0)
                  ELSE Follow(solved)
    IN  IF at \in DOMAIN w.cache[p] THEN [w EXCEPT !.value = w.cache[p][at]]
        ELSE Remember(result)

-----------------------------------------------------------------------------
\* A negative improvement is no rounding noise here: the arithmetic is exact.
MetricsFrom(profile, response) ==
    LET improvement == [p \in 1..2 |-> response[p] - profile[p]]
    IN  IF profile[1] + profile[2] # 0 THEN [status |-> Invalid]
        ELSE IF \E p \in 1..2 : improvement[p] < 0 THEN [status |-> NumericError]
        ELSE [status |-> Success, profile |-> profile, response |-> response,
              improvement |-> improvement, nashConv |-> improvement[1] + improvement[2]]

CalculateMetrics(g, w) ==
    LET profile == [p \in 1..2 |-> ProfileValue(g, w, 1, p)]
        Second(first, second) == IF second.status # Success THEN [status |-> second.status]
                                 ELSE MetricsFrom(profile, <<first.value, second.value>>)
        First(first) == IF first.status # Success THEN [status |-> first.status]
                        ELSE Second(first, BestResponseValue(g, first, 1, 2))
    IN  First(BestResponseValue(g, w, 1, 1))

\* cfr_evaluation_metrics and its variant for unvisited nodes: the outputs change
\* on success only, the game state is back where it was unless an undo failed.
Metrics(g, c) ==
    LET Outputs(w, m) == [status |-> m.status, state |-> w.state,
                          metrics |-> IF m.status = Success THEN m ELSE c.metrics]
        From(w) == Outputs(w, IF w.status = Success THEN CalculateMetrics(g, w)
                              ELSE [status |-> w.status])
    IN  From(BuildSnapshot(g, c))

=============================================================================
