----------------------------- MODULE Blackjack -----------------------------
(***************************************************************************)
(* The blackjack adapter (src/blackjack.c) as operators on its state: the  *)
(* deals from an infinite deck, hit, stand, double down and split up to    *)
(* four hands, and the dealer's forced draws.  Hands are numbered from 1.  *)
(* Money is counted in half stakes, because a blackjack pays 3:2.          *)
(***************************************************************************)
EXTENDS Integers, Sequences

HandCapacity == 21
MaxPlayerHands == 4
UndoHistoryCapacity == 2 * HandCapacity * MaxPlayerHands + HandCapacity + 2 * MaxPlayerHands

Ace == 1
Ten == 10
NotDealt == 0
Cards == Ace .. Ten

\* card_to_action, by card.
DealActions == <<"DEAL_ACE", "DEAL_TWO", "DEAL_THREE", "DEAL_FOUR", "DEAL_FIVE",
                 "DEAL_SIX", "DEAL_SEVEN", "DEAL_EIGHT", "DEAL_NINE", "DEAL_TEN">>

\* action_to_card: the cards an action deals, none for a decision.
ActionToCard(a) == {c \in Cards : DealActions[c] = a}

PlayerActions == {"HIT", "STAND", "DOUBLE_DOWN", "SPLIT"}
AllActions == PlayerActions \cup {"NONE"} \cup {DealActions[c] : c \in Cards}

DealsToPlayer == {"DEAL_PLAYER_FIRST", "DEAL_PLAYER_SECOND", "DEAL_PLAYER_HIT",
                  "DEAL_PLAYER_DOUBLE", "DEAL_SPLIT_HAND"}
ChancePhases == DealsToPlayer \cup {"DEAL_DEALER_UP_CARD", "DEAL_DEALER_HOLE_CARD",
                                    "DEAL_DEALER_HIT"}
Phases == ChancePhases \cup {"PLAYER_TURN", "TERMINAL"}

EmptyHand == [total |-> 0, card_count |-> 0, is_soft |-> FALSE, can_split |-> FALSE,
              stake_multiplier |-> 0, from_split |-> FALSE]

\* Mutant: an ace counts eleven only below ten.
HandAddCardTight(hand, card) ==
    LET eleven == card = Ace /\ hand.total < 10
        total == hand.total + (IF eleven THEN 11 ELSE card)
        soft == hand.is_soft \/ eleven
    IN  [hand EXCEPT !.total = IF total > 21 /\ soft THEN total - 10 ELSE total,
                     !.is_soft = soft /\ total <= 21,
                     !.card_count = @ + 1,
                     !.can_split = /\ hand.card_count = 1
                                   /\ card = IF hand.is_soft THEN Ace ELSE hand.total]

HandAddCard(hand, card) ==
    LET first == IF hand.is_soft /\ hand.total = 11 THEN Ace ELSE hand.total
        eleven == card = Ace /\ hand.total <= 10
        total == hand.total + (IF eleven THEN 11 ELSE card)
        soft == hand.is_soft \/ eleven
        demoted == total > 21 /\ soft
    IN  [hand EXCEPT !.total = IF demoted THEN total - 10 ELSE total,
                     !.is_soft = soft /\ ~demoted,
                     !.card_count = @ + 1,
                     !.can_split = hand.card_count = 1 /\ first = card]

HandIsBlackjack(hand) == hand.card_count = 2 /\ hand.total = 21 /\ ~hand.from_split

StateInit ==
    [phase |-> "DEAL_PLAYER_FIRST",
     player_hands |-> [i \in 1 .. MaxPlayerHands |->
                          [EmptyHand EXCEPT !.stake_multiplier = IF i = 1 THEN 1 ELSE 0]],
     player_hand_count |-> 1, active_player_hand |-> 1,
     dealer_hand |-> EmptyHand, dealer_up_card |-> NotDealt, undo_history |-> <<>>]

ActiveHand(s) == s.player_hands[s.active_player_hand]

\* deal_card: the states after the deal, none when the action deals no card or
\* the hand is full.
DealCard(s, a) ==
    LET player == s.phase \in DealsToPlayer
        hand == IF player THEN ActiveHand(s) ELSE s.dealer_hand
        dealt(card) ==
            IF player
            THEN [s EXCEPT !.player_hands[s.active_player_hand] = HandAddCard(hand, card)]
            ELSE [s EXCEPT !.dealer_hand = HandAddCard(hand, card),
                           !.dealer_up_card = IF s.phase = "DEAL_DEALER_UP_CARD"
                                              THEN card ELSE @]
    IN  IF hand.card_count >= HandCapacity THEN {}
        ELSE {dealt(card) : card \in ActionToCard(a)}

AllPlayerHandsBust(s) == \A i \in 1 .. s.player_hand_count : s.player_hands[i].total > 21

FinishActiveHand(s) ==
    LET next == s.active_player_hand + 1
    IN  IF next <= s.player_hand_count
        THEN [s EXCEPT !.active_player_hand = next,
                       !.phase = IF s.player_hands[next].card_count = 1
                                 THEN "DEAL_SPLIT_HAND" ELSE "PLAYER_TURN"]
        ELSE [s EXCEPT !.phase = IF ~AllPlayerHandsBust(s) /\ s.dealer_hand.total < 17
                                 THEN "DEAL_DEALER_HIT" ELSE "TERMINAL"]

ActiveHandCanDouble(s) == ActiveHand(s).card_count = 2 /\ ActiveHand(s).stake_multiplier = 1

ActiveHandCanSplit(s) ==
    LET hand == ActiveHand(s)
    IN  /\ s.player_hand_count < MaxPlayerHands
        /\ hand.stake_multiplier = 1
        /\ hand.card_count = 2 /\ hand.can_split
        /\ ~(hand.from_split /\ hand.is_soft)

\* Two hands of one card take the place of the pair; the later hands move up.
SplitActiveHand(s) ==
    LET active == s.active_player_hand
        pair == IF ActiveHand(s).is_soft THEN Ace ELSE ActiveHand(s).total \div 2
        half == HandAddCard([EmptyHand EXCEPT !.stake_multiplier = 1, !.from_split = TRUE], pair)
    IN  [s EXCEPT !.player_hands = [i \in 1 .. MaxPlayerHands |->
                                       CASE i \in {active, active + 1} -> half
                                         [] i > active + 1 /\ i <= s.player_hand_count + 1
                                              -> s.player_hands[i - 1]
                                         [] OTHER -> s.player_hands[i]],
                  !.player_hand_count = @ + 1,
                  !.phase = "DEAL_SPLIT_HAND"]

Decide(s, a) ==
    CASE a = "HIT" -> {[s EXCEPT !.phase = "DEAL_PLAYER_HIT"]}
      [] a = "STAND" -> {FinishActiveHand(s)}
      [] a = "DOUBLE_DOWN" /\ ActiveHandCanDouble(s) ->
            {[s EXCEPT !.player_hands[s.active_player_hand].stake_multiplier = 2,
                       !.phase = "DEAL_PLAYER_DOUBLE"]}
      [] a = "SPLIT" /\ ActiveHandCanSplit(s) -> {SplitActiveHand(s)}
      [] OTHER -> {}

\* Where a dealt card leads; s is the state before the deal.
AfterDeal(s, dealt) ==
    LET turn(n, finished) == IF finished THEN FinishActiveHand(n)
                             ELSE [n EXCEPT !.phase = "PLAYER_TURN"]
        goto(phase) == [dealt EXCEPT !.phase = phase]
    IN  CASE s.phase = "DEAL_PLAYER_FIRST" -> goto("DEAL_DEALER_UP_CARD")
          [] s.phase = "DEAL_DEALER_UP_CARD" -> goto("DEAL_PLAYER_SECOND")
          [] s.phase = "DEAL_PLAYER_SECOND" -> goto("DEAL_DEALER_HOLE_CARD")
          [] s.phase = "DEAL_DEALER_HOLE_CARD" ->
                IF HandIsBlackjack(dealt.player_hands[1]) \/ HandIsBlackjack(dealt.dealer_hand)
                THEN goto("TERMINAL") ELSE goto("PLAYER_TURN")
          [] s.phase = "DEAL_PLAYER_HIT" -> turn(dealt, ActiveHand(dealt).total >= 21)
          [] s.phase = "DEAL_PLAYER_DOUBLE" -> turn(dealt, TRUE)
          [] s.phase = "DEAL_SPLIT_HAND" ->
                turn(dealt, \/ ActiveHand(s).is_soft /\ ActiveHand(s).total = 11
                            \/ ActiveHand(dealt).total = 21)
          [] s.phase = "DEAL_DEALER_HIT" ->
                IF dealt.dealer_hand.total < 17 THEN goto("DEAL_DEALER_HIT") ELSE goto("TERMINAL")

\* advance_state: the successors of s, none when the action is refused.
AdvanceState(s, a) ==
    CASE s.phase = "PLAYER_TURN" -> Decide(s, a)
      [] s.phase = "TERMINAL" -> {}
      [] OTHER -> {AfterDeal(s, dealt) : dealt \in DealCard(s, a)}

HandHasValidShape(hand) ==
    /\ hand.card_count <= HandCapacity
    /\ CASE hand.card_count = 0 -> hand.total = 0 /\ ~hand.is_soft /\ ~hand.can_split
         [] hand.card_count = 1 ->
              /\ ~hand.can_split
              /\ IF hand.is_soft THEN hand.total = 11 ELSE hand.total \in 2 .. 10
         [] OTHER ->
              /\ hand.total > 0
              /\ hand.card_count > 2 => ~hand.can_split
              /\ hand.is_soft => hand.total \in 12 .. 21
              /\ hand.can_split => IF hand.is_soft THEN hand.total = 12
                                   ELSE hand.total \in 4 .. 20 /\ hand.total % 2 = 0

PhaseHasValidShape(s) ==
    LET hand == ActiveHand(s)
        dealer == s.dealer_hand
        dealing(mine, dealers) == /\ s.player_hand_count = 1 /\ s.active_player_hand = 1
                                  /\ hand.card_count = mine /\ dealer.card_count = dealers
    IN  CASE s.phase = "DEAL_PLAYER_FIRST" ->
               dealing(0, 0) /\ hand.stake_multiplier = 1 /\ ~hand.from_split
                             /\ s.undo_history = <<>>
          [] s.phase = "DEAL_DEALER_UP_CARD" -> dealing(1, 0)
          [] s.phase = "DEAL_PLAYER_SECOND" -> dealing(1, 1)
          [] s.phase = "DEAL_DEALER_HOLE_CARD" -> dealing(2, 1)
          [] s.phase \in {"PLAYER_TURN", "DEAL_PLAYER_HIT"} ->
               /\ hand.card_count >= 2 /\ dealer.card_count >= 2 /\ hand.total <= 21
               /\ ~HandIsBlackjack(hand) /\ ~HandIsBlackjack(dealer)
          [] s.phase = "DEAL_PLAYER_DOUBLE" ->
               /\ hand.card_count = 2 /\ hand.stake_multiplier = 2
               /\ hand.total <= 21 /\ dealer.card_count >= 2
          [] s.phase = "DEAL_SPLIT_HAND" ->
               /\ s.player_hand_count >= 2 /\ hand.card_count = 1
               /\ hand.from_split /\ dealer.card_count >= 2
          [] s.phase = "DEAL_DEALER_HIT" ->
               dealer.card_count >= 2 /\ ~AllPlayerHandsBust(s) /\ dealer.total < 17
          [] s.phase = "TERMINAL" -> s.player_hands[1].card_count >= 2 /\ dealer.card_count >= 2

\* state_has_valid_shape: what every public operation checks first.
ValidShape(s) ==
    /\ s.phase \in Phases
    /\ HandHasValidShape(s.dealer_hand)
    /\ s.dealer_hand.stake_multiplier = 0 /\ ~s.dealer_hand.from_split
    /\ s.player_hand_count \in 1 .. MaxPlayerHands
    /\ s.active_player_hand \in 1 .. s.player_hand_count
    /\ Len(s.undo_history) <= UndoHistoryCapacity
    /\ \A i \in 1 .. s.player_hand_count :
          HandHasValidShape(s.player_hands[i]) /\ s.player_hands[i].stake_multiplier \in {1, 2}
    /\ \A i \in s.player_hand_count + 1 .. MaxPlayerHands : s.player_hands[i] = EmptyHand
    /\ IF s.dealer_hand.card_count = 0 THEN s.dealer_up_card = NotDealt
       ELSE s.dealer_up_card \in Cards
    /\ PhaseHasValidShape(s)

\* What apply_action saves: the hand in play and the dealer's, no other hand.
UndoEntry(s, a) ==
    [phase |-> s.phase, applied_action |-> a, active_player_hand |-> s.active_player_hand,
     player_hand_count |-> s.player_hand_count, active_hand |-> ActiveHand(s),
     dealer_hand |-> s.dealer_hand, dealer_up_card |-> s.dealer_up_card]

\* The states the undo history replays to, undo entries left aside.
Replay(s) ==
    LET states[n \in 0 .. Len(s.undo_history)] ==
            IF n = 0 THEN {StateInit}
            ELSE LET entry == s.undo_history[n]
                 IN  UNION {AdvanceState(r, entry.applied_action) :
                              r \in {t \in states[n - 1] :
                                        entry = UndoEntry(t, entry.applied_action)}}
    IN  states[Len(s.undo_history)]

\* validate_state
Valid(s) == ValidShape(s) /\ Replay(s) = {[s EXCEPT !.undo_history = <<>>]}

IsTerminal(s) == s.phase = "TERMINAL"

\* player_utility, in half stakes, summed over the hands.
UtilityZero(s) ==
    LET dealer == s.dealer_hand
        pays(hand) ==
            CASE HandIsBlackjack(hand) /\ HandIsBlackjack(dealer) -> 0
              [] HandIsBlackjack(hand) /\ ~HandIsBlackjack(dealer) -> 3
              [] ~HandIsBlackjack(hand) /\ (HandIsBlackjack(dealer) \/ hand.total > 21) -> -2
              [] OTHER -> IF dealer.total > 21 \/ hand.total > dealer.total THEN 2
                          ELSE IF hand.total < dealer.total THEN -2 ELSE 0
        sum[n \in 0 .. s.player_hand_count] ==
            IF n = 0 THEN 0
            ELSE sum[n - 1] + s.player_hands[n].stake_multiplier * pays(s.player_hands[n])
    IN  sum[s.player_hand_count]

TerminalUtility(s, player) == IF player = 0 THEN UtilityZero(s) ELSE -UtilityZero(s)

\* Chance is -1; the dealer never decides.
CurrentActor(s) == IF s.phase \in ChancePhases THEN -1 ELSE 0

LegalActions(s) ==
    CASE s.phase = "PLAYER_TURN" ->
           <<"HIT", "STAND">> \o (IF ActiveHandCanDouble(s) THEN <<"DOUBLE_DOWN">> ELSE <<>>)
                              \o (IF ActiveHandCanSplit(s) THEN <<"SPLIT">> ELSE <<>>)
      [] s.phase \in ChancePhases -> DealActions
      [] OTHER -> <<>>

Refused(s, status) == [status |-> status, state |-> s]

ApplyAction(s, a) ==
    LET next == AdvanceState(s, a)
    IN  CASE Len(s.undo_history) >= UndoHistoryCapacity -> Refused(s, "BUFFER_TOO_SMALL")
          [] Len(s.undo_history) < UndoHistoryCapacity /\ next = {} ->
                Refused(s, IF ActionToCard(a) # {} /\ s.phase \in ChancePhases
                           THEN "BUFFER_TOO_SMALL" ELSE "ILLEGAL_ACTION")
          [] OTHER -> [status |-> "SUCCESS",
                       state |-> [(CHOOSE n \in next : TRUE) EXCEPT
                                     !.undo_history = Append(@, UndoEntry(s, a))]]

\* Mutant: the hands after a split pair stay where the split moved them.
UndoActionInPlace(s) ==
    LET n == Len(s.undo_history)
        entry == s.undo_history[n]
    IN  IF n = 0 THEN Refused(s, "INVALID_ARGUMENT")
        ELSE [status |-> "SUCCESS",
              state |-> [phase |-> entry.phase,
                         player_hands |-> [s.player_hands EXCEPT
                                              ![entry.active_player_hand] = entry.active_hand],
                         player_hand_count |-> entry.player_hand_count,
                         active_player_hand |-> entry.active_player_hand,
                         dealer_hand |-> entry.dealer_hand,
                         dealer_up_card |-> entry.dealer_up_card,
                         undo_history |-> SubSeq(s.undo_history, 1, n - 1)]]

\* A split is taken back by moving the later hands down; anything else touches only
\* the hand that was in play.
UndoAction(s) ==
    LET n == Len(s.undo_history)
        entry == s.undo_history[n]
        active == entry.active_player_hand
        count == entry.player_hand_count
        unsplit == [i \in 1 .. MaxPlayerHands |->
                       CASE i \in active + 1 .. count -> s.player_hands[i + 1]
                         [] i = count + 1 -> EmptyHand
                         [] OTHER -> s.player_hands[i]]
        split == entry.phase = "PLAYER_TURN" /\ entry.applied_action = "SPLIT"
    IN  IF n = 0 \/ (split /\ s.player_hand_count # count + 1)
        THEN Refused(s, "INVALID_ARGUMENT")
        ELSE [status |-> "SUCCESS",
              state |-> [phase |-> entry.phase,
                         player_hands |-> [(IF split THEN unsplit ELSE s.player_hands)
                                              EXCEPT ![active] = entry.active_hand],
                         player_hand_count |-> count, active_player_hand |-> active,
                         dealer_hand |-> entry.dealer_hand,
                         dealer_up_card |-> entry.dealer_up_card,
                         undo_history |-> SubSeq(s.undo_history, 1, n - 1)]]

\* A probability is a share of ChanceTotal.
ChanceTotal(s) == 13

ChanceShare(s, a) == IF ActionToCard(a) = {Ten} THEN 4 ELSE 1

\* Mutant: a pair that may no longer be split is a class of its own.
DecisionClassOfPair(s) ==
    IF ActiveHand(s).can_split THEN 2 ELSE IF ActiveHandCanDouble(s) THEN 1 ELSE 0

DecisionClass(s) ==
    IF ActiveHandCanSplit(s) THEN 2 ELSE IF ActiveHandCanDouble(s) THEN 1 ELSE 0

\* The digits of ((up - 1) * 2 + soft) * 66 + total * 3 + class, and their radices.
InformationSetKey(s) ==
    <<s.dealer_up_card - 1, IF ActiveHand(s).is_soft THEN 1 ELSE 0, ActiveHand(s).total,
      DecisionClass(s)>>

KeyRadices == <<10, 2, 22, 3>>

=============================================================================
