----------------------------- MODULE Algorithms -----------------------------
(***************************************************************************)
(* The three tree algorithms of the library against what they compute: a   *)
(* caller makes one call at a time, on any game, any store, any player and *)
(* with any call of the adapter failing.  The references are sums over the *)
(* paths of the tree and maxima over all pure strategies, without the      *)
(* recursion, the threading and the caches of the code.                    *)
(***************************************************************************)
EXTENDS MccfrSequential, FullTraversal, Evaluation

CONSTANTS
    Games,          \* games that satisfy the library's preconditions
    Malformed,      \* games that do not: the calls must reject them
    Vectors,        \* the strategies a node may stand for
    Iterations,     \* the iterations a CFR+ traversal is given
    MaxFault,       \* bound: the calls of the adapter that may fail
    SampleWeights   \* distributions given to the sampler

VARIABLE call
vars == <<call>>

Idle == [op |-> "idle"]
None == "as before"                 \* what the caller's outputs held

AllGames == Games \union Malformed
Stores(g, K) == UNION {[L -> Vectors] : L \in K}

\* The arguments of a traversal; the evaluation reads store, uniform and fault.
Arguments(target, store, stream, plus, iteration, uniform, fault) ==
    [target |-> target, store |-> store, stream |-> stream, rng |-> 0, plus |-> plus,
     iteration |-> iteration, uniform |-> uniform, fault |-> fault,
     utility |-> None, visited |-> None, metrics |-> None]

Plain(target, store) == Arguments(target, store, <<>>, FALSE, 1, FALSE, 0)

-----------------------------------------------------------------------------
\* References: the edges <<position, action>> on the way to a position.
Into(g, m) == CHOOSE e \in {<<n, a>> : n \in DOMAIN g.nodes, a \in 1..MaxLegalActions} :
                  e[2] \in DOMAIN g.nodes[e[1]].next /\ g.nodes[e[1]].next[e[2]] = m
Path(g, m) ==
    LET path[k \in DOMAIN g.nodes] == IF k = 1 THEN {} ELSE {Into(g, k)} \union path[Into(g, k)[1]]
    IN  path[m]

Strategy(g, store, key) ==
    IF key \in DOMAIN store THEN store[key] ELSE Uniform(Scale)

EdgeProbability(g, store, e) ==
    LET n == g.nodes[e[1]]
    IN  IF n.kind = "chance" THEN n.weight[e[2]] ELSE Strategy(g, store, n.key)[e[2]]

\* amount times the probability of a set of edges.
Share(g, store, edges, amount) ==
    FoldSet(LAMBDA e, x : (x * EdgeProbability(g, store, e)) \div Scale, amount, edges)

Mover(g, e, p) == CASE g.nodes[e[1]].kind = "chance" -> "chance"
                    [] g.nodes[e[1]].player = p -> "own" [] OTHER -> "external"
Reach(g, store, m, p, mover) ==
    Share(g, store, {e \in Path(g, m) : Mover(g, e, p) = mover}, Unit)

Value(g, store, m, p) ==
    MapThenSumSet(LAMBDA z : Share(g, store, Path(g, z) \ Path(g, m), g.nodes[z].utility[p]),
                  {z \in DOMAIN g.nodes : g.nodes[z].kind = "terminal" /\ Path(g, m) \subseteq Path(g, z)})

PositionsOf(g, key) == {m \in DOMAIN g.nodes : g.nodes[m].kind = "player" /\ g.nodes[m].key = key}

CounterfactualRegret(g, store, p, key, a) ==
    MapThenSumSet(LAMBDA m : Reach(g, store, m, p, "external") * Reach(g, store, m, p, "chance")
                             * (Value(g, store, g.nodes[m].next[a], p) - Value(g, store, m, p)),
                  PositionsOf(g, key))

OwnReachStrategy(g, store, p, key, a) ==
    MapThenSumSet(LAMBDA m : (Reach(g, store, m, p, "own") * Strategy(g, store, key)[a]) \div Scale,
                  PositionsOf(g, key))

\* The best of all pure strategies of p against the store.
PureStrategies(g, p) == [PlayerKeys(g, p) -> {[a \in 1..Scale |-> IF a = b THEN Scale ELSE 0] : b \in 1..Scale}]
BestPureValue(g, store, p) == Max({Value(g, pure @@ store, 1, p) : pure \in PureStrategies(g, p)})

-----------------------------------------------------------------------------
\* All streams a traversal of g may draw from, and the total of one entry of its
\* deltas over them.
Streams(g) == [1..g.draws -> 0..Draws - 1]
Sampled(g, p, store) ==
    {[stream |-> s, applied |-> ExternalTraverse(g, Arguments(p, store, s, FALSE, 1, FALSE, 0)).applied]
        : s \in Streams(g)}
TotalRegret(runs, key, a) ==
    MapThenSumSet(LAMBDA r : IF key \in DOMAIN r.applied THEN r.applied[key].regret[a] ELSE 0, runs)
TotalStrategy(runs, key, a) ==
    MapThenSumSet(LAMBDA r : IF key \in DOMAIN r.applied THEN r.applied[key].strategy[a] ELSE 0, runs)

-----------------------------------------------------------------------------
Init == call = Idle

\* cfr_traverse, cfr_traverse_plus
CallTraverse ==
    /\ call = Idle
    /\ \E g \in Games, p \in 1..4, plus \in BOOLEAN, i \in Iterations \union {0, 1} :
           \E store \in Stores(g, {Keys(g), {}}) :
               /\ (plus \/ i = 1)
               /\ p \in Perspectives(g) \/ store = <<>>
               /\ call' = [op |-> "traverse", game |-> g,
                           args |-> Arguments(p, store, <<>>, plus, i, FALSE, 0)]

\* cfr_mccfr_sequential_external_traverse, over all its random streams
CallSample ==
    /\ call = Idle
    /\ \E g \in Games : \E p \in Perspectives(g), store \in Stores(g, {Keys(g)}) :
           call' = [op |-> "sample", game |-> g, args |-> Plain(p, store)]

\* cfr_evaluation_metrics and cfr_evaluation_metrics_with_unvisited_uniform
CallEvaluate ==
    /\ call = Idle
    /\ \E g \in AllGames, uniform \in BOOLEAN : \E store \in Stores(g, SUBSET Keys(g)) :
           call' = [op |-> "evaluate", game |-> g,
                    args |-> Arguments(1, store, <<>>, FALSE, 1, uniform, 0)]

\* Any of them, with a call of the adapter that fails.
CallFailing ==
    /\ call = Idle
    /\ \E g \in AllGames, fault \in 0..MaxFault, d \in 0..Draws - 1 : \E p \in Perspectives(g) :
           call' = [op |-> "failing", game |-> g,
                    args |-> Arguments(p, <<>>, [i \in 1..g.draws |-> d], FALSE, 1, TRUE, fault)]

\* sample_index alone
CallSampler ==
    /\ call = Idle
    /\ \E weights \in SampleWeights : call' = [op |-> "draw", weights |-> weights]

Return == call # Idle /\ call' = Idle

Next == CallTraverse \/ CallSample \/ CallEvaluate \/ CallFailing \/ CallSampler \/ Return
Spec == Init /\ [][Next]_vars

-----------------------------------------------------------------------------
\* A full traversal adds to every information set of the target player, and to no
\* other, its counterfactual regrets and its reach-weighted strategy, counted once
\* per position with the weight of the iteration; it returns the value of the game.
FullTraversalIsCounterfactual ==
    call.op = "traverse" =>
        LET g == call.game  p == call.args.target  store == call.args.store
            weight == IF call.args.plus THEN call.args.iteration ELSE 1
        IN  \A r \in {FullTraverse(g, call.args)} :
            IF p \notin Perspectives(g) \/ weight = 0 THEN r.status = Invalid /\ r.applied = <<>>
            ELSE /\ r.status = Success /\ r.state = Root
                 /\ DOMAIN r.applied = PlayerKeys(g, p)
                 /\ r.utility = Value(g, store, 1, p) /\ r.visited = Len(g.nodes)
                 /\ \A key \in PlayerKeys(g, p), a \in 1..Scale :
                        /\ r.applied[key].regret[a] = CounterfactualRegret(g, store, p, key, a)
                        /\ r.applied[key].strategy[a] =
                               weight * OwnReachStrategy(g, store, p, key, a)

\* Averaged over the random streams, a sampled traversal gives every information set
\* of the target player the regrets of the full traversal: no importance weight is
\* missing and none is too many.
SamplingIsUnbiased ==
    call.op = "sample" =>
        LET g == call.game  p == call.args.target
        IN  \A runs \in {Sampled(g, p, call.args.store)},
               full \in {FullTraverse(g, call.args).applied},
               key \in Keys(g), a \in 1..Scale :
                TotalRegret(runs, key, a) * Unit * Unit
                    = Cardinality(runs) * (IF key \in DOMAIN full THEN full[key].regret[a] ELSE 0)

\* The average strategies a sampled traversal accumulates, for the sampled player in a
\* game of two perspectives, for the target player otherwise, are in the mean those of the full
\* traversal times a constant of the information set: the same constant whatever the
\* current strategies are.
AveragesAreProportional ==
    call.op = "sample" =>
        LET g == call.game  p == call.args.target  store == call.args.store
            averaged == IF g.players = 2 \/ p > g.players THEN Opponent(p) ELSE p
            even == [key \in Keys(g) |-> Uniform(Scale)]
        IN  \A runs \in {Sampled(g, p, store)}, evenRuns \in {Sampled(g, p, even)},
               key \in Keys(g), a \in 1..Scale :
                IF key \notin PlayerKeys(g, averaged) THEN TotalStrategy(runs, key, a) = 0
                ELSE TotalStrategy(runs, key, a) * OwnReachStrategy(g, even, averaged, key, 1)
                     = OwnReachStrategy(g, store, averaged, key, a) * TotalStrategy(evenRuns, key, 1)

\* The evaluation succeeds exactly on a game that is zero-sum and consistent whose
\* information sets it finds, and then it reports the value of the profile and what
\* the best of all pure strategies of either player wins against it.
EvaluationIsBestResponse ==
    call.op = "evaluate" =>
        LET g == call.game  store == call.args.store
            accepted == /\ g \in Games /\ g.players <= 2
                        /\ call.args.uniform \/ DOMAIN store = Keys(g)
        IN  \A r \in {Metrics(g, call.args)} :
            /\ r.state = Root
            /\ (r.status = Success) = accepted
            /\ accepted => /\ \A p \in 1..2 :
                                  /\ r.metrics.profile[p] = Value(g, store, 1, p)
                                  /\ r.metrics.response[p] = BestPureValue(g, store, p)
                           /\ r.metrics.nashConv >= 0
            /\ ~accepted => r.metrics = None

\* Whatever call of the adapter fails, in whatever depth, and on games the code must
\* reject: no output of the caller changes, nothing is added to a node, the random
\* stream stays where it was, and every applied action is taken back unless an undo
\* is what failed.
FailureLeavesNoTrace ==
    call.op = "failing" =>
        \A full \in {FullTraverse(call.game, call.args)},
           sampled \in {ExternalTraverse(call.game, call.args)},
           evaluated \in {Metrics(call.game, call.args)} :
            /\ \A r \in {full, sampled} :
                  r.status # Success => r.utility = None /\ r.visited = None /\ r.applied = <<>>
            /\ sampled.status # Success => sampled.rng = 0
            /\ evaluated.status # Success => evaluated.metrics = None
            /\ \A r \in {full, sampled, evaluated} : r.status # UndoFailed => r.state = Root
            /\ call.game \in Games /\ call.args.fault = 0 =>
                  full.status = Success /\ sampled.status = Success

\* The sampler with more values per draw.
Wide == INSTANCE Sampler WITH Draws <- 8

\* Every action of positive probability owns at least one draw, no other owns any,
\* and an action gets its share of the draws to less than one draw when no action is
\* below the resolution of a draw (sample_index).
SamplerCoversPositiveActions ==
    call.op = "draw" => Wide!CoversPositiveActions(call.weights) /\ Wide!SharesDraws(call.weights)

=============================================================================
