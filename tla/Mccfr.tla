-------------------------------- MODULE Mccfr --------------------------------
(***************************************************************************)
(* External-sampling MCCFR on a shared store (src/mccfr.c): the recursion  *)
(* of one worker as a machine with a stack, while other workers commit to  *)
(* the nodes it reads.  A step runs from one recursive call to the next;   *)
(* in each, at most one node of the store is read.  The commit at the end  *)
(* is one step here: NodeCommit has its locks and its order, and shows it  *)
(* atomic.                                                                 *)
(*                                                                         *)
(* Any call of the adapter, any allocation and the commit may fail, within *)
(* MaxFaults.  The caller may call again, with the same workspace.         *)
(***************************************************************************)
EXTENDS GameTree, Sampler, TLC

CONSTANTS
    Games,          \* the games a behaviour may be about
    Vectors,        \* the strategies regret matching may give a node
    MaxCalls,       \* bound: traversals the worker starts
    MaxFaults,      \* bound: calls that fail
    MaxCommits      \* bound: commits of other workers

VARIABLES
    game,       \* the element of Games in use
    store,      \* key |-> current strategy of its node
    stream,     \* the values drawn so far: the random stream is a fixed sequence
    state,      \* the game state, lent by the caller
    pc,         \* "idle", "branch", "return" or "commit"
    target,     \* target_player
    arg,        \* own_reach or strategy_weight given to traverse_branch
    stack,      \* one frame for each applied action
    ret,        \* the status and the utility a branch returned
    ws,         \* the workspace
    caller,     \* what the caller owns: rng, utility, visited and the last status
    total,      \* key |-> what this worker has added to the node
    budget,     \* what is left of MaxCalls, MaxFaults and MaxCommits
    seen,       \* history: key |-> the strategies the node had during this call
    successes   \* history: the successful calls, with the sum of all so far

control == <<pc, arg, stack, ret>>
outside == <<game, caller, total, successes, target>>
vars == <<game, store, stream, state, pc, target, arg, stack, ret, ws, caller, total,
          budget, seen, successes>>

NoEntry == [regret |-> <<>>, strategy |-> <<>>]     \* delta_index = SIZE_MAX

Init ==
    /\ game \in Games
    /\ store = <<>> /\ stream = <<>> /\ state = Root
    /\ pc = "idle" /\ target = 1 /\ arg = 0 /\ stack = <<>>
    /\ ret = [status |-> Success, utility |-> 0]
    /\ ws = [snapshots |-> <<>>, visits |-> 0, averageOnly |-> FALSE, rng |-> 0, utility |-> 0]
    /\ caller = [rng |-> 0, utility |-> 0, visited |-> 0, status |-> Success]
    /\ total = <<>> /\ seen = <<>> /\ successes = <<>>
    /\ budget = [calls |-> MaxCalls, faults |-> MaxFaults, commits |-> MaxCommits]

-----------------------------------------------------------------------------
\* The workspace.
CurrentPosition == Position(game, state)

\* Mutant: the snapshots of the call before stay.
ResetWorkspaceKeepsSnapshots(w) ==
    [w EXCEPT !.visits = 0, !.averageOnly = FALSE, !.rng = caller.rng, !.utility = 0]

\* workspace_reset
ResetWorkspace(w) ==
    [w EXCEPT !.snapshots = <<>>, !.visits = 0, !.averageOnly = FALSE, !.rng = caller.rng,
              !.utility = 0]

\* A function with one more key.
With(f, key, value) == [k \in DOMAIN f \union {key} |-> IF k = key THEN value ELSE f[k]]

\* workspace_get_or_create_node, which the node cache only shortens.
StoreWith(n) == IF n.key \in DOMAIN store THEN store
                ELSE With(store, n.key, Uniform(Len(n.next)))

\* A snapshot of the node, without a drawn action and without deltas.
Snapshot(n) == [strategy |-> StoreWith(n)[n.key], actions |-> n.actions, sampled |-> 0,
                entry |-> NoEntry]

\* Mutant: the strategy is read again on every visit.
GetStrategySnapshotAgain(w, n) ==
    IF n.key \in DOMAIN w.snapshots
    THEN [w EXCEPT !.snapshots[n.key].strategy = StoreWith(n)[n.key]]
    ELSE [w EXCEPT !.snapshots = With(@, n.key, Snapshot(n))]

\* get_strategy_snapshot: an information set already met keeps what was read first.
GetStrategySnapshot(w, n) ==
    IF n.key \in DOMAIN w.snapshots THEN w
    ELSE [w EXCEPT !.snapshots = With(@, n.key, Snapshot(n))]

SnapshotStatus(w, n) ==
    IF \/ ~PlayerIsValid(game, n.player) \/ ~ActionCountIsValid(n)
       \/ n.key \in DOMAIN w.snapshots /\ w.snapshots[n.key].actions # n.actions
       \/ n.key \in DOMAIN store /\ Len(store[n.key]) # Len(n.next)
    THEN Invalid ELSE Success

\* get_or_create_snapshot_delta, then the sums added.
AddToEntry(w, key, regret, strategy) ==
    LET old == w.snapshots[key].entry
        base == IF old = NoEntry THEN [regret |-> [a \in DOMAIN regret |-> 0],
                                       strategy |-> [a \in DOMAIN regret |-> 0]]
                ELSE old
    IN  [w EXCEPT !.snapshots[key].entry =
            [regret |-> [a \in DOMAIN regret |-> base.regret[a] + regret[a]],
             strategy |-> [a \in DOMAIN regret |-> base.strategy[a] + strategy[a]]]]

RecordTargetDeltas(w, key, utilities, nodeUtility, ownReach) ==
    LET p == w.snapshots[key].strategy
    IN  AddToEntry(w, key, [a \in DOMAIN p |-> utilities[a] - nodeUtility],
            [a \in DOMAIN p |-> IF game.players = 1 THEN (ownReach * p[a]) \div Scale ELSE 0])

RecordSampledStrategy(w, key, weight) ==
    LET p == w.snapshots[key].strategy
    IN  AddToEntry(w, key, [a \in DOMAIN p |-> 0],
                           [a \in DOMAIN p |-> (weight * p[a]) \div Scale])

Deltas == LET keys == {k \in DOMAIN ws.snapshots : ws.snapshots[k].entry # NoEntry}
          IN  [k \in keys |-> ws.snapshots[k].entry]

-----------------------------------------------------------------------------
\* Steps of the recursion.

\* apply_action and the call of traverse_branch below it.
Enter(a, reach, frame) ==
    /\ state' = Child(game, state, a)
    /\ stack' = Append(stack, frame)
    /\ arg' = reach /\ pc' = "branch"
    /\ UNCHANGED ret

\* traverse_branch, or the function it calls, returns to its caller.
Leave(status, utility) ==
    /\ pc' = "return"
    /\ ret' = [status |-> status, utility |-> utility]
    /\ UNCHANGED <<state, stack, arg>>

SpendFault == budget.faults > 0 /\ budget' = [budget EXCEPT !.faults = @ - 1]

\* The value the stream has at the position after rng.
Drawn(d) ==
    IF ws.rng < Len(stream) THEN d = stream[ws.rng + 1] /\ UNCHANGED stream
    ELSE stream' = Append(stream, d)

Visited == [ws EXCEPT !.visits = @ + 1]

Begin ==
    /\ pc = "idle" /\ budget.calls > 0 /\ state = Root
    /\ \E p \in Perspectives(game) :
         /\ target' = p
         /\ ws' = ResetWorkspace(ws)
         /\ pc' = "branch" /\ arg' = Unit /\ stack' = <<>>
         /\ budget' = [budget EXCEPT !.calls = @ - 1]
         /\ seen' = [k \in DOMAIN store |-> {store[k]}]
         /\ UNCHANGED <<game, store, stream, state, ret, caller, total, successes>>

\* A query of the adapter or an allocation fails.
BranchFails ==
    /\ pc = "branch" /\ SpendFault
    /\ ws' = Visited
    /\ Leave(Failed, 0)
    /\ UNCHANGED <<outside, store, stream, seen>>

TerminalNode ==
    /\ pc = "branch" /\ CurrentPosition.kind = "terminal"
    /\ ws' = Visited
    /\ Leave(Success, CurrentPosition.utility[target])
    /\ UNCHANGED <<outside, store, stream, budget, seen>>

\* The action drawn is applied, or that fails.
ChanceNode ==
    LET n == CurrentPosition
    IN  /\ pc = "branch" /\ n.kind = "chance"
        /\ IF CollectChanceOutcomes(n) # Success
           THEN Leave(Invalid, 0) /\ ws' = Visited /\ UNCHANGED <<stream, budget>>
           ELSE \E d \in 0..Draws - 1 :
                  LET a == SampleIndex(n.weight, d)
                  IN  /\ Drawn(d)
                      /\ ws' = [Visited EXCEPT !.rng = @ + 1]
                      /\ \/ UNCHANGED budget
                            /\ Enter(a, arg, [kind |-> "chance"])
                         \/ SpendFault /\ Leave(Failed, 0)
        /\ UNCHANGED <<outside, store, seen>>

\* Reads the node of a player's position, in the step that begins the work on it.
ReadNode(n) ==
    /\ store' = StoreWith(n)
    /\ seen' = IF n.key \in DOMAIN seen THEN seen ELSE With(seen, n.key, {store'[n.key]})

\* A player or a number of actions out of range, or other actions than the
\* information set had before.
MismatchedNode ==
    LET n == CurrentPosition
    IN  /\ pc = "branch" /\ n.kind = "player"
        /\ SnapshotStatus(ws, n) # Success
        /\ ws' = Visited
        /\ Leave(Invalid, 0)
        /\ UNCHANGED <<outside, store, stream, budget, seen>>

PlayerNodeReady(n) ==
    pc = "branch" /\ n.kind = "player" /\ SnapshotStatus(ws, n) = Success

\* traverse_target_node, up to its first branch
TargetNode ==
    LET n == CurrentPosition
        w == GetStrategySnapshot(Visited, n)
        p == w.snapshots[n.key].strategy
    IN  /\ PlayerNodeReady(n) /\ ~ws.averageOnly /\ n.player = target
        /\ ReadNode(n)
        /\ ws' = w
        /\ \/ /\ Enter(1, (arg * p[1]) \div Scale,
                       [kind |-> "target", key |-> n.key, reach |-> arg, utilities |-> <<>>])
              /\ UNCHANGED budget
           \/ SpendFault /\ Leave(Failed, 0)
        /\ UNCHANGED <<outside, stream>>

\* traverse_opponent_node: the action is drawn on the first visit of the information set.
OpponentNode ==
    LET n == CurrentPosition
        w == GetStrategySnapshot(Visited, n)
        fresh == w.snapshots[n.key].sampled = 0
        Recorded(v) == IF game.players <= 2 THEN RecordSampledStrategy(v, n.key, Unit) ELSE v
    IN  /\ PlayerNodeReady(n) /\ ~ws.averageOnly /\ n.player # target
        /\ ReadNode(n)
        /\ \E d \in IF fresh THEN 0..Draws - 1 ELSE {0} :
              LET a == IF fresh THEN SampleIndex(w.snapshots[n.key].strategy, d)
                       ELSE w.snapshots[n.key].sampled
                  v == [w EXCEPT !.snapshots[n.key].sampled = a,
                                 !.rng = IF fresh THEN @ + 1 ELSE @]
              IN  /\ IF fresh THEN Drawn(d) ELSE UNCHANGED stream
                  /\ ws' = Recorded(v)
                  /\ \/ Enter(a, arg, [kind |-> "opponent"]) /\ UNCHANGED budget
                     \/ SpendFault /\ Leave(Failed, 0)
        /\ UNCHANGED outside

\* traverse_average_node: nothing is applied once the weight is zero.
AverageNode ==
    LET n == CurrentPosition
        w == GetStrategySnapshot(Visited, n)
        p == w.snapshots[n.key].strategy
        mine == n.player = target
        recorded == IF mine THEN RecordSampledStrategy(w, n.key, arg) ELSE w
    IN  /\ PlayerNodeReady(n) /\ ws.averageOnly
        /\ ReadNode(n)
        /\ ws' = [recorded EXCEPT !.rng = @ + 1]
        /\ \E d \in 0..Draws - 1 :
              LET a == UniformIndex(Len(p), d)
                  weight == (IF mine THEN (arg * p[a]) \div Scale ELSE arg) * Len(p)
              IN  /\ Drawn(d)
                  /\ \/ weight = 0 /\ Leave(Success, 0) /\ UNCHANGED budget
                     \/ weight # 0 /\ Enter(a, weight, [kind |-> "average"]) /\ UNCHANGED budget
                     \/ weight # 0 /\ SpendFault /\ Leave(Failed, 0)
        /\ UNCHANGED outside

\* What is applied is undone before anything else is looked at.
UndoFails ==
    /\ pc = "return" /\ stack # <<>> /\ SpendFault
    /\ stack' = Front(stack)
    /\ ret' = [status |-> UndoFailed, utility |-> 0]
    /\ UNCHANGED <<outside, store, stream, state, pc, arg, ws, seen>>

\* Back in a node that has nothing left to do: the branch's result is its own.
PopFrame ==
    LET frame == Last(stack)
    IN  /\ pc = "return" /\ stack # <<>>
        /\ ret.status # Success \/ frame.kind # "target"
        /\ state' = Front(state)
        /\ stack' = Front(stack)
        /\ ret' = [ret EXCEPT !.utility = IF frame.kind = "average" THEN 0 ELSE @]
        /\ UNCHANGED <<outside, store, stream, pc, arg, ws, budget, seen>>

\* Back in traverse_target_node: the next action, or the deltas after the last one; either may
\* fail.
TargetReturn ==
    LET frame == Last(stack)
        p == ws.snapshots[frame.key].strategy
        utilities == Append(frame.utilities, ret.utility)
        a == Len(utilities) + 1
        nodeUtility == SumFunction([b \in DOMAIN utilities |-> p[b] * utilities[b]]) \div Scale
        above == Front(state)
    IN  /\ pc = "return" /\ stack # <<>> /\ ret.status = Success /\ frame.kind = "target"
        /\ \/ /\ a <= Len(p)
              /\ state' = Child(game, above, a)
              /\ stack' = [stack EXCEPT ![Len(stack)].utilities = utilities]
              /\ arg' = (frame.reach * p[a]) \div Scale /\ pc' = "branch"
              /\ UNCHANGED <<ret, ws, budget>>
           \/ /\ SpendFault
              /\ state' = above /\ stack' = Front(stack)
              /\ ret' = [status |-> Failed, utility |-> 0]
              /\ UNCHANGED <<pc, arg, ws>>
           \/ /\ a > Len(p)
              /\ ws' = RecordTargetDeltas(ws, frame.key, utilities, nodeUtility, frame.reach)
              /\ state' = above /\ stack' = Front(stack)
              /\ ret' = [status |-> Success, utility |-> nodeUtility]
              /\ UNCHANGED <<pc, arg, budget>>
        /\ UNCHANGED <<outside, store, stream, seen>>

\* Between the passes of traverse_in_workspace.
EndPass ==
    /\ pc = "return" /\ stack = <<>> /\ ret.status = Success
    /\ IF game.players > 2 /\ ~ws.averageOnly
       THEN /\ ws' = [ws EXCEPT !.averageOnly = TRUE, !.utility = ret.utility]
            /\ pc' = "branch" /\ arg' = Unit
       ELSE /\ ws' = IF ws.averageOnly THEN ws ELSE [ws EXCEPT !.utility = ret.utility]
            /\ pc' = "commit" /\ UNCHANGED arg
    /\ UNCHANGED <<outside, store, stream, state, stack, ret, budget, seen>>

Sum(old, new) ==
    [k \in DOMAIN old \union DOMAIN new |->
        IF k \notin DOMAIN old THEN new[k] ELSE IF k \notin DOMAIN new THEN old[k]
        ELSE [f \in {"regret", "strategy"} |-> [a \in DOMAIN old[k][f] |-> old[k][f][a] + new[k][f][a]]]]

\* Mutant: the random stream advances whatever the outcome.
OutputsAfterErrorWithRng(status) == [caller EXCEPT !.status = status, !.rng = ws.rng]

\* The end of traverse_in_workspace after an error: the outputs stay.
OutputsAfterError(status) == [caller EXCEPT !.status = status]

FinishWithError(status) ==
    /\ pc' = "idle"
    /\ caller' = OutputsAfterError(status)
    /\ UNCHANGED <<game, store, stream, state, target, arg, stack, ret, ws, total, seen, successes>>

EndWithError ==
    /\ pc = "return" /\ stack = <<>> /\ ret.status # Success
    /\ FinishWithError(ret.status) /\ UNCHANGED budget

CommitFails == pc = "commit" /\ SpendFault /\ FinishWithError(Failed)

\* The commit changes the strategies of the nodes it touches; then the outputs.
Commit ==
    /\ pc = "commit" /\ pc' = "idle"
    /\ total' = Sum(total, Deltas)
    /\ caller' = [rng |-> ws.rng, utility |-> ws.utility, visited |-> ws.visits, status |-> Success]
    /\ successes' = Append(successes, [from |-> caller.rng, to |-> ws.rng, deltas |-> Deltas,
                                       sum |-> total'])
    /\ \E new \in [DOMAIN Deltas -> Vectors] : store' = new @@ store
    /\ UNCHANGED <<game, stream, state, target, arg, stack, ret, ws, budget, seen>>

\* Another worker commits to a node.
OthersCommit ==
    /\ pc \in {"branch", "return"} /\ budget.commits > 0
    /\ \E k \in DOMAIN store, v \in Vectors :
         /\ store' = [store EXCEPT ![k] = v]
         /\ seen' = [seen EXCEPT ![k] = @ \union {v}]
    /\ budget' = [budget EXCEPT !.commits = @ - 1]
    /\ UNCHANGED <<outside, control, stream, state, ws>>

\* The caller has finished, or has a state it cannot use.
Finished == pc = "idle" /\ (budget.calls = 0 \/ state # Root) /\ UNCHANGED vars

Next == \/ Begin \/ BranchFails \/ TerminalNode \/ ChanceNode \/ MismatchedNode
        \/ TargetNode \/ OpponentNode \/ AverageNode
        \/ UndoFails \/ PopFrame \/ TargetReturn
        \/ EndPass \/ EndWithError \/ CommitFails \/ Commit \/ OthersCommit \/ Finished

Spec == Init /\ [][Next]_vars

-----------------------------------------------------------------------------
\* A strategy the traversal uses is one its node had since the call began: the
\* workspace brings nothing over from the call before.
SnapshotIsFresh ==
    pc # "idle" => \A k \in DOMAIN ws.snapshots : ws.snapshots[k].strategy \in seen[k]

\* What reached the nodes and the random stream are the successful calls, one after
\* the other: a failed call adds nothing and takes no draw, and the game state is back
\* where it was unless an undo is what failed.
OnlySuccessesCount ==
    /\ pc = "idle" => IF caller.status = UndoFailed THEN Len(state) > 1 ELSE state = Root
    /\ \A i \in DOMAIN successes :
          /\ successes[i].from = IF i = 1 THEN 0 ELSE successes[i - 1].to
          /\ successes[i].sum = Sum(IF i = 1 THEN <<>> ELSE successes[i - 1].sum,
                                    successes[i].deltas)
    /\ IF successes = <<>> THEN caller.rng = 0 /\ total = <<>>
       ELSE caller.rng = Last(successes).to /\ total = Last(successes).sum

=============================================================================
