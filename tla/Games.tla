------------------------------- MODULE Games -------------------------------
(***************************************************************************)
(* The game contract (include/cfr/game.h, src/game.c) and a walk over each *)
(* of its three implementations: a traversal holds one mutable state,      *)
(* applies legal actions to it and takes them back.  What the traversals,  *)
(* the evaluation and the checkpoints rely on is stated on every state the *)
(* walk reaches.                                                           *)
(***************************************************************************)
EXTENDS Integers, Sequences, SequencesExt, FiniteSetsExt

CONSTANTS
    Tables      \* what is walked: [game, ranks, plies]; ranks bounds the cards a
                \* blackjack table deals, plies the length of its history

K == INSTANCE KuhnPoker
L == INSTANCE LeducPoker
B == INSTANCE Blackjack

VARIABLES
    table,      \* the element of Tables in play, the Game descriptor
    s           \* the game state

vars == <<table, s>>

game == table.game

StateInit(g) == CASE g = "kuhn" -> K!StateInit [] g = "leduc" -> L!StateInit
                  [] g = "blackjack" -> B!StateInit

Valid(t) == CASE game = "kuhn" -> K!Valid(t) [] game = "leduc" -> L!Valid(t)
              [] game = "blackjack" -> B!Valid(t)

IsTerminal(t) == CASE game = "kuhn" -> K!IsTerminal(t) [] game = "leduc" -> L!IsTerminal(t)
                   [] game = "blackjack" -> B!IsTerminal(t)

TerminalUtility(t, p) ==
    CASE game = "kuhn" -> K!TerminalUtility(t, p) [] game = "leduc" -> L!TerminalUtility(t, p)
      [] game = "blackjack" -> B!TerminalUtility(t, p)

CurrentActor(t) ==
    CASE game = "kuhn" -> K!CurrentActor(t) [] game = "leduc" -> L!CurrentActor(t)
      [] game = "blackjack" -> B!CurrentActor(t)

LegalActions(t) ==
    CASE game = "kuhn" -> K!LegalActions(t) [] game = "leduc" -> L!LegalActions(t)
      [] game = "blackjack" -> B!LegalActions(t)

ApplyAction(t, a) ==
    CASE game = "kuhn" -> K!ApplyAction(t, a) [] game = "leduc" -> L!ApplyAction(t, a)
      [] game = "blackjack" -> B!ApplyAction(t, a)

UndoAction(t) ==
    CASE game = "kuhn" -> K!UndoAction(t) [] game = "leduc" -> L!UndoAction(t)
      [] game = "blackjack" -> B!UndoAction(t)

ChanceShare(t, a) ==
    CASE game = "kuhn" -> K!ChanceShare(t, a) [] game = "leduc" -> L!ChanceShare(t, a)
      [] game = "blackjack" -> B!ChanceShare(t, a)

ChanceTotal(t) ==
    CASE game = "kuhn" -> K!ChanceTotal(t) [] game = "leduc" -> L!ChanceTotal(t)
      [] game = "blackjack" -> B!ChanceTotal(t)

InformationSetKey(t) ==
    CASE game = "kuhn" -> K!InformationSetKey(t) [] game = "leduc" -> L!InformationSetKey(t)
      [] game = "blackjack" -> B!InformationSetKey(t)

KeyRadices == CASE game = "kuhn" -> K!KeyRadices [] game = "leduc" -> L!KeyRadices
                [] game = "blackjack" -> B!KeyRadices

AllActions == CASE game = "kuhn" -> K!AllActions [] game = "leduc" -> L!AllActions
                [] game = "blackjack" -> B!AllActions

-----------------------------------------------------------------------------
\* The walk

Legal(t) == ToSet(LegalActions(t))

\* The actions the walk explores: all of them, but for the cards a table leaves out.
Explored == IF CurrentActor(s) = -1 /\ game = "blackjack"
            THEN {B!DealActions[c] : c \in table.ranks}
            ELSE Legal(s)

Init == /\ table \in Tables
        /\ s = StateInit(game)

Play == /\ ~IsTerminal(s)
        /\ Len(s.undo_history) < table.plies
        /\ \E a \in Explored : s' = ApplyAction(s, a).state
        /\ UNCHANGED table

TakeBack == /\ s.undo_history # <<>>
            /\ s' = UndoAction(s).state
            /\ UNCHANGED table

Next == Play \/ TakeBack

Spec == Init /\ [][Next]_vars

-----------------------------------------------------------------------------
\* Properties

\* undo_action restores exactly the state before apply_action, the undo entries in use
\* included, from the little that each adapter saves (blackjack: one player hand, also when
\* hands were inserted by a split): a traversal goes on with its parent's state.
\* apply_action accepts exactly the actions that legal_actions lists, whatever is left of
\* the capacities of a history or a hand, and refuses the others without a change.
UndoInvertsApply ==
    /\ IsTerminal(s) <=> LegalActions(s) = <<>>
    /\ \A a \in AllActions :
          LET answer == ApplyAction(s, a)
          IN  IF a \in Legal(s)
              THEN /\ answer.status = "SUCCESS"
                   /\ UndoAction(answer.state) = [status |-> "SUCCESS", state |-> s]
              ELSE answer.status # "SUCCESS" /\ answer.state = s

\* What the player to act can see.
Seen(t) ==
    LET p == CurrentActor(t)
    IN  CASE game = "kuhn" -> <<p, t.cards[p + 1], t.public_actions>>
          [] game = "leduc" -> <<p, t.private_cards[p + 1], t.public_card, t.public_actions>>
          [] game = "blackjack" -> <<t.dealer_up_card, B!ActiveHand(t).is_soft,
                                     B!ActiveHand(t).total, LegalActions(t)>>

\* The same view, read back from the key alone.
SeenInKey(key) ==
    CASE game = "kuhn" ->
           LET history == <<<<"NONE", "NONE", "NONE">>, <<"CHECK", "NONE", "NONE">>,
                            <<"BET", "NONE", "NONE">>, <<"CHECK", "BET", "NONE">>>>
           IN  <<key[1], key[3] + 1, history[key[2] + 1]>>
      [] game = "leduc" ->
           LET name == <<"NONE", "CHECK", "BET", "FOLD", "CALL", "RAISE">>
           IN  <<key[1], key[2] + 1, key[3], [i \in 1 .. 8 |-> name[key[6 + i] + 1]]>>
      [] game = "blackjack" ->
           <<key[1] + 1, key[2] = 1, key[3],
             CASE key[4] = 0 -> <<"HIT", "STAND">>
               [] key[4] = 1 -> <<"HIT", "STAND", "DOUBLE_DOWN">>
               [] key[4] = 2 -> <<"HIT", "STAND", "DOUBLE_DOWN", "SPLIT">>>>

\* States that differ from t only in what the player to act cannot see.
HiddenVariants(t) ==
    CASE game = "kuhn" -> {[t EXCEPT !.cards[2 - CurrentActor(t)] = c] : c \in 1 .. 3}
      [] game = "leduc" -> {[t EXCEPT !.private_cards[2 - CurrentActor(t)] = c] : c \in 1 .. 3}
      [] game = "blackjack" -> {[t EXCEPT !.dealer_hand.total = c] : c \in 4 .. 20}

\* An information-set key is one player's view and nothing else: every digit is below its
\* radix, so that no two views share a number; the view, the legal actions included, can be
\* read back from it; a card the player has not seen does not change it.  A store keeps one
\* node per key with a fixed list of actions, and refuses a key whose list differs.
KeyIsTheView ==
    (~IsTerminal(s) /\ CurrentActor(s) # -1) =>
        LET key == InformationSetKey(s)
        IN  /\ \A i \in DOMAIN key : key[i] \in 0 .. KeyRadices[i] - 1
            /\ SeenInKey(key) = Seen(s)
            /\ \A t \in HiddenVariants(s) : InformationSetKey(t) = key

\* The chips player p has put into a poker pot, counted from the public actions alone: in a
\* betting round he pays one bet for each bet or raise up to the last action he paid for.
PaidByActions(p) ==
    LET count == s.public_action_count
        acted(i) == s.public_actions[i]
        paid(round, bet) ==
            LET mine == {i \in round : /\ acted(i) \in {"BET", "RAISE", "CALL"}
                                       /\ (i - Min(round)) % 2 = p}
            IN  IF mine = {} THEN 0
                ELSE bet * Cardinality({i \in round : acted(i) \in {"BET", "RAISE"} /\ i <= Max(mine)})
        first == IF game = "kuhn" \/ s.public_card = 0 THEN 1 .. count
                 ELSE 1 .. s.round_start_index
    IN  1 + paid(first, IF game = "kuhn" THEN 1 ELSE L!FirstRoundBet)
          + paid((1 .. count) \ first, L!SecondRoundBet)

\* Whether p folded, from the history.
Folded(p) ==
    IF game = "kuhn" THEN /\ s.public_actions[s.public_action_count] = "FOLD"
                          /\ s.public_action_count % 2 # p
    ELSE s.folded /\ s.folded_player = p

\* The value of p's cards at a showdown: a pair with the public card beats any rank.
Strength(p) == IF game = "kuhn" THEN s.cards[p + 1]
               ELSE s.private_cards[p + 1]
                      + (IF s.private_cards[p + 1] = s.public_card THEN 3 ELSE 0)

\* The outcomes of a chance node are distinct, none has probability zero, and together
\* they have probability one.
ChanceAddsUp ==
    (~IsTerminal(s) /\ CurrentActor(s) = -1) =>
        /\ IsInjective(LegalActions(s))
        /\ \A a \in Legal(s) : ChanceShare(s, a) > 0
        /\ MapThenSumSet(LAMBDA a : ChanceShare(s, a), Legal(s)) = ChanceTotal(s)

\* A poker hand settles its pot: the one who folds or has the weaker cards loses exactly
\* what he paid, at a showdown both paid the same, a tie costs nothing, and what one wins
\* the other loses.
PotIsSettled ==
    (game \in {"kuhn", "leduc"} /\ IsTerminal(s)) =>
        /\ TerminalUtility(s, 0) + TerminalUtility(s, 1) = 0
        /\ \A p \in {0, 1} :
              /\ Folded(p) => /\ TerminalUtility(s, p) = -PaidByActions(p)
                              /\ PaidByActions(p) < PaidByActions(1 - p)
              /\ (~Folded(0) /\ ~Folded(1)) =>
                    /\ PaidByActions(0) = PaidByActions(1)
                    /\ TerminalUtility(s, p) =
                         PaidByActions(p) * (IF Strength(p) > Strength(1 - p) THEN 1
                                             ELSE IF Strength(p) < Strength(1 - p) THEN -1 ELSE 0)

\* What a game gives the traversals and the evaluation adds up: the probabilities of a
\* chance node (collect_chance_outcomes refuses anything else), and the pot, which Leduc
\* pays from contributions kept by transition_model and Kuhn from a fixed table, counted
\* here from the public actions alone.
OutcomesAddUp == ChanceAddsUp /\ PotIsSettled

\* The cards dealt in the given phases, in order, from the undo history.
CardsDealt(phases) ==
    LET deals == SelectSeq(s.undo_history, LAMBDA e : e.phase \in phases)
    IN  [i \in DOMAIN deals |-> CHOOSE c \in 1 .. 10 : B!DealActions[c] = deals[i].applied_action]

\* The best total of some cards: an ace counts eleven when that does not bust the hand.
BestTotal(cards) ==
    LET hard == FoldSeq(+, 0, cards)
    IN  IF (\E i \in DOMAIN cards : cards[i] = 1) /\ hard + 10 <= 21 THEN hard + 10 ELSE hard

\* "total is the best current blackjack total: an ace counts as eleven exactly when doing so
\* does not bust the hand" (blackjack.h), although hand_add_card only knows the total so far;
\* the dealer never draws on 17 or more, and has 17 when a hand is compared with his.
TotalsAreBest ==
    game = "blackjack" =>
        LET dealer == CardsDealt({"DEAL_DEALER_UP_CARD", "DEAL_DEALER_HOLE_CARD", "DEAL_DEALER_HIT"})
            player == CardsDealt(B!DealsToPlayer)
        IN  /\ s.dealer_hand.total = BestTotal(dealer)
            /\ s.dealer_hand.is_soft <=> BestTotal(dealer) # FoldSeq(+, 0, dealer)
            /\ s.player_hand_count = 1 =>
                  /\ s.player_hands[1].total = BestTotal(player)
                  /\ s.player_hands[1].is_soft <=> BestTotal(player) # FoldSeq(+, 0, player)
            /\ Len(dealer) > 2 => BestTotal(SubSeq(dealer, 1, Len(dealer) - 1)) < 17
            /\ IsTerminal(s) => \/ s.dealer_hand.total >= 17
                                \/ B!AllPlayerHandsBust(s)
                                \/ B!HandIsBlackjack(s.player_hands[1])

\* States in which one field of s was overwritten.
Edited ==
    LET with(f, values) == {[s EXCEPT ![f] = v] : v \in values \ {s[f]}}
        cell(f, i, values) == {[s EXCEPT ![f][i] = v] : v \in values \ {s[f][i]}}
        shorter == IF s.undo_history = <<>> THEN {}
                   ELSE with("undo_history", {SubSeq(s.undo_history, 1, Len(s.undo_history) - 1)})
    IN  shorter \cup
        CASE game = "kuhn" ->
               with("phase", K!Phases) \cup with("public_action_count", 0 .. 3)
               \cup cell("cards", 1, 0 .. 3) \cup cell("cards", 2, 0 .. 3)
               \cup UNION {cell("public_actions", i, K!PlayerActions) : i \in 1 .. 3}
          [] game = "leduc" ->
               with("phase", {"FIRST_BETTING", "PUBLIC_DEAL", "SECOND_BETTING", "TERMINAL"})
               \cup with("current_player", {0, 1}) \cup with("folded", BOOLEAN)
               \cup with("aggressive_action_count", 0 .. 2)
               \cup with("round_start_index", 0 .. 3) \cup with("public_card", 0 .. 3)
               \cup cell("contributions", 1, {1, 3, 7}) \cup cell("private_cards", 1, 1 .. 3)
               \cup cell("public_actions", 2, {"NONE", "BET"})
          [] game = "blackjack" ->
               with("phase", B!Phases) \cup with("player_hand_count", 1 .. 4)
               \cup with("active_player_hand", 1 .. 4) \cup with("dealer_up_card", 0 .. 3)
               \cup {[s EXCEPT !.dealer_hand.total = @ + 1],
                     [s EXCEPT !.player_hands[1].is_soft = ~@],
                     [s EXCEPT !.player_hands[1].stake_multiplier = 3 - @],
                     [s EXCEPT !.player_hands[1].from_split = ~@]}

\* validate_state, which replays the undo history, accepts every state that legal play
\* reaches, so that checked and trusted operations agree (the trusted ones, which the
\* traversals use, check nothing), and refuses one in which a field was overwritten.
ReplayIsExact == Valid(s) /\ \A t \in Edited : ~Valid(t)

=============================================================================
