------------------------------ MODULE GameTree ------------------------------
(***************************************************************************)
(* The games the traversals and the evaluation walk, seen through the      *)
(* operations of include/cfr/game.h: a tree of terminal, chance and player *)
(* positions.  A game state is the path from the root; apply extends it    *)
(* and undo shortens it.                                                   *)
(*                                                                         *)
(* Probabilities are integers over Scale.  Utilities are multiples of a    *)
(* power of Scale high enough for every division below to be exact.        *)
(***************************************************************************)
EXTENDS Integers, Sequences, SequencesExt, FiniteSetsExt, Functions

CONSTANTS
    Scale,              \* one, as a probability
    Unit,               \* one, as a reach: a power of Scale
    MaxLegalActions     \* game->max_legal_actions

Success == "success"
Invalid == "CFR_STATUS_INVALID_ARGUMENT"
NotFound == "CFR_STATUS_NOT_FOUND"
Failed == "failed"              \* an operation of the adapter, or an allocation
UndoFailed == "undo failed"

\* A game is [nodes, players]: nodes a sequence of [kind, player, key, actions,
\* next, weight, utility], players the strategic_player_count.
Root == <<1>>
Position(g, state) == g.nodes[Last(state)]
Child(g, state, a) == Append(state, Position(g, state).next[a])

PlayerKeys(g, p) == {g.nodes[n].key : n \in {m \in DOMAIN g.nodes :
                        g.nodes[m].kind = "player" /\ g.nodes[m].player = p}}
Keys(g) == {g.nodes[n].key : n \in {m \in DOMAIN g.nodes : g.nodes[m].kind = "player"}}

Uniform(count) == [a \in 1..count |-> Scale \div count]

\* A game of one strategic player has a second perspective.
Perspectives(g) == 1..Max({g.players, 2})
PlayerIsValid(g, p) == p \in Perspectives(g)

-----------------------------------------------------------------------------
\* One call of an adapter: the arguments c hold the number of the call that
\* fails (none is 0), the workspace w counts the calls made so far.
CallFails(c, w) == w.calls + 1 = c.fault

\* The reads of a position (is_terminal, terminal_utility, current_actor,
\* legal_actions, information_set_key) and the allocations beside them: each of
\* them only returns its error.
Query(c, w) == [w EXCEPT !.calls = @ + 1,
                         !.status = IF CallFails(c, w) THEN Failed ELSE @]

\* An error leaves the state alone.
ApplyAction(g, c, w, a) ==
    IF CallFails(c, w)
    THEN [w EXCEPT !.calls = @ + 1, !.status = Failed]
    ELSE [w EXCEPT !.calls = @ + 1, !.state = Child(g, @, a)]

\* The error of an undo hides the status of the branch.
UndoAction(c, w) ==
    IF CallFails(c, w)
    THEN [w EXCEPT !.calls = @ + 1, !.status = UndoFailed]
    ELSE [w EXCEPT !.calls = @ + 1, !.state = Front(@)]

\* The distribution of a chance node is checked as a whole before it is used.
CollectChanceOutcomes(n) ==
    IF /\ Len(n.next) \in 1..MaxLegalActions
       /\ \A a \in DOMAIN n.weight : n.weight[a] >= 0
       /\ SumFunction(n.weight) = Scale
    THEN Success ELSE Invalid

ActionCountIsValid(n) == Len(n.next) \in 1..MaxLegalActions

=============================================================================
