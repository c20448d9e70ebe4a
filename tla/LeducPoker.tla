---------------------------- MODULE LeducPoker ----------------------------
(***************************************************************************)
(* The Leduc poker adapter (src/leduc_poker.c) as operators on its state.  *)
(* LeducModel, the part of the state that transitions compute, is the      *)
(* record without its undo_history; a record is a function on field names, *)
(* so an undo entry is the restriction of the state to the saved fields.   *)
(***************************************************************************)
EXTENDS Integers, Sequences

PublicHistoryCapacity == 8
UndoHistoryCapacity == 10
MaxAggressiveActionsPerRound == 2

Ante == 1
FirstRoundBet == 2
SecondRoundBet == 4
PublicDealCardCount == 4

NotDealt == 0
Ranks == 1 .. 3          \* jack, queen, king

\* The chance actions in the order of their codes.
PrivateDeals == <<"DEAL_JJ", "DEAL_JQ", "DEAL_JK", "DEAL_QJ", "DEAL_QQ", "DEAL_QK",
                  "DEAL_KJ", "DEAL_KQ", "DEAL_KK">>
PublicDeals == <<"REVEAL_J", "REVEAL_Q", "REVEAL_K">>
PlayerActions == {"CHECK", "BET", "FOLD", "CALL", "RAISE"}

Code(actions, a) == CHOOSE i \in DOMAIN actions : actions[i] = a

Holds(actions, a) == \E i \in DOMAIN actions : actions[i] = a

AllActions == PlayerActions \cup {"NONE"} \cup {PrivateDeals[i] : i \in 1 .. 9}
                            \cup {PublicDeals[i] : i \in Ranks}

ModelInit ==
    [phase |-> "PRIVATE_DEAL", private_cards |-> <<NotDealt, NotDealt>>,
     public_card |-> NotDealt,
     public_actions |-> [i \in 1 .. PublicHistoryCapacity |-> "NONE"],
     public_action_count |-> 0, round_start_index |-> 0, current_player |-> 0,
     aggressive_action_count |-> 0, contributions |-> <<Ante, Ante>>,
     folded |-> FALSE, folded_player |-> 0]

ModelFields == DOMAIN ModelInit

SavedFields == ModelFields \ {"public_actions"}

StateInit == [f \in ModelFields \cup {"undo_history"} |->
                 IF f = "undo_history" THEN <<>> ELSE ModelInit[f]]

ModelOf(s) == [f \in ModelFields |-> s[f]]

OtherPlayer(p) == 1 - p

DecodePrivateDeal(a) ==
    LET offset == Code(PrivateDeals, a) - 1
    IN  <<1 + (offset \div 3), 1 + (offset % 3)>>

DecodePublicDeal(a) == Code(PublicDeals, a)

RemainingRankCount(m, rank) ==
    2 - (IF m.private_cards[1] = rank THEN 1 ELSE 0)
      - (IF m.private_cards[2] = rank THEN 1 ELSE 0)

IsBetting(m) == m.phase \in {"FIRST_BETTING", "SECOND_BETTING"}

CurrentBetSize(m) == IF m.phase = "FIRST_BETTING" THEN FirstRoundBet ELSE SecondRoundBet

AmountToCall(m) == m.contributions[OtherPlayer(m.current_player) + 1]
                     - m.contributions[m.current_player + 1]

MayRaise(m) == m.aggressive_action_count < MaxAggressiveActionsPerRound

PlayerActionIsLegal(m, a) ==
    LET to_call == AmountToCall(m)
    IN  /\ IsBetting(m)
        /\ to_call >= 0
        /\ IF to_call = 0 THEN a = "CHECK" \/ (a = "BET" /\ MayRaise(m))
           ELSE a \in {"FOLD", "CALL"} \/ (a = "RAISE" /\ MayRaise(m))

FinishBettingRound(m) ==
    IF m.phase = "FIRST_BETTING"
    THEN [m EXCEPT !.phase = "PUBLIC_DEAL", !.round_start_index = m.public_action_count,
                   !.current_player = 0, !.aggressive_action_count = 0]
    ELSE [m EXCEPT !.phase = "TERMINAL"]

\* Mutant: a raise pays its bet but not what it has to call.
WagerBetOnly(m, a, to_call) ==
    LET me == m.current_player + 1
        turn == [m EXCEPT !.current_player = OtherPlayer(@)]
    IN  CASE a = "CHECK" ->
               IF m.public_action_count - 1 > m.round_start_index
                  /\ m.public_actions[m.public_action_count - 1] = "CHECK"
               THEN FinishBettingRound(m) ELSE turn
          [] a \in {"BET", "RAISE"} ->
               [turn EXCEPT !.contributions[me] = @ + CurrentBetSize(m),
                            !.aggressive_action_count = @ + 1]
          [] a = "CALL" -> FinishBettingRound([m EXCEPT !.contributions[me] = @ + to_call])
          [] a = "FOLD" -> [m EXCEPT !.folded = TRUE, !.folded_player = m.current_player,
                                     !.phase = "TERMINAL"]

\* What a legal betting action does once it is in the public history.
Wager(m, a, to_call) ==
    LET me == m.current_player + 1
        paid(chips) == [m EXCEPT !.contributions[me] = @ + chips]
        passed(n) == [n EXCEPT !.current_player = OtherPlayer(@)]
        raised(chips) == passed([paid(chips) EXCEPT !.aggressive_action_count = @ + 1])
        i == m.public_action_count      \* the position of a
    IN  CASE a = "CHECK" ->
               IF i - 1 > m.round_start_index /\ m.public_actions[i - 1] = "CHECK"
               THEN FinishBettingRound(m) ELSE passed(m)
          [] a = "BET" -> raised(CurrentBetSize(m))
          [] a = "RAISE" -> raised(to_call + CurrentBetSize(m))
          [] a = "CALL" -> FinishBettingRound(paid(to_call))
          [] a = "FOLD" -> [m EXCEPT !.folded = TRUE, !.folded_player = m.current_player,
                                     !.phase = "TERMINAL"]

\* transition_model: the set of models an action leads to, empty when it is refused.
TransitionModel(m, a) ==
    CASE m.phase = "PRIVATE_DEAL" ->
           IF Holds(PrivateDeals, a)
           THEN {[m EXCEPT !.private_cards = DecodePrivateDeal(a), !.phase = "FIRST_BETTING",
                           !.current_player = 0]}
           ELSE {}
      [] m.phase = "PUBLIC_DEAL" ->
           IF Holds(PublicDeals, a) /\ RemainingRankCount(m, DecodePublicDeal(a)) > 0
           THEN {[m EXCEPT !.public_card = DecodePublicDeal(a), !.phase = "SECOND_BETTING",
                           !.current_player = 0, !.aggressive_action_count = 0]}
           ELSE {}
      [] OTHER ->
           IF PlayerActionIsLegal(m, a) /\ m.public_action_count < PublicHistoryCapacity
           THEN LET n == m.public_action_count + 1
                IN  {Wager([m EXCEPT !.public_actions[n] = a, !.public_action_count = n],
                           a, AmountToCall(m))}
           ELSE {}

Entry(m, a) == [f \in SavedFields \cup {"applied_action"} |->
                   IF f = "applied_action" THEN a ELSE m[f]]

\* The models the first n undo entries replay to: one, or none when an entry does
\* not describe the model it is applied to.
Replay(s) ==
    LET models[n \in 0 .. Len(s.undo_history)] ==
            IF n = 0 THEN {ModelInit}
            ELSE LET entry == s.undo_history[n]
                     before == {m \in models[n - 1] : entry = Entry(m, entry.applied_action)}
                     recorded(m, next) ==
                         \/ next.public_action_count = m.public_action_count
                         \/ /\ m.public_action_count < s.public_action_count
                            /\ s.public_actions[m.public_action_count + 1]
                                 = entry.applied_action
                 IN  UNION {{next \in TransitionModel(m, entry.applied_action) :
                               recorded(m, next)} : m \in before}
    IN  models[Len(s.undo_history)]

\* Mutant: the replayed model is not compared with the state.
ValidEntries(s) == s.public_action_count <= PublicHistoryCapacity /\ Replay(s) # {}

Valid(s) ==
    /\ s.public_action_count <= PublicHistoryCapacity
    /\ s.round_start_index <= s.public_action_count
    /\ Len(s.undo_history) <= UndoHistoryCapacity
    /\ \A i \in s.public_action_count + 1 .. PublicHistoryCapacity :
          s.public_actions[i] = "NONE"
    /\ Replay(s) = {ModelOf(s)}

IsTerminal(s) == s.phase = "TERMINAL"

ShowdownResultPlayer0(s) ==
    LET mine == s.private_cards[1]
        theirs == s.private_cards[2]
    IN  CASE mine = s.public_card /\ theirs # s.public_card -> 1
          [] mine # s.public_card /\ theirs = s.public_card -> -1
          [] OTHER -> IF mine > theirs THEN 1 ELSE IF mine < theirs THEN -1 ELSE 0

\* A tie pays half the difference of the contributions.
UtilityZero(s) ==
    LET lost == -s.contributions[1]
        won == s.contributions[2]
        showdown == ShowdownResultPlayer0(s)
    IN  CASE s.folded -> IF s.folded_player = 0 THEN lost ELSE won
          [] ~s.folded /\ showdown > 0 -> won
          [] ~s.folded /\ showdown < 0 -> lost
          [] OTHER -> (won + lost) \div 2

TerminalUtility(s, player) == IF player = 0 THEN UtilityZero(s) ELSE -UtilityZero(s)

\* Chance is -1.
CurrentActor(s) == IF s.phase \in {"PRIVATE_DEAL", "PUBLIC_DEAL"} THEN -1 ELSE s.current_player

LegalActions(s) ==
    CASE s.phase = "PRIVATE_DEAL" -> PrivateDeals
      [] s.phase = "PUBLIC_DEAL" ->
           SelectSeq(PublicDeals,
                     LAMBDA a : RemainingRankCount(s, DecodePublicDeal(a)) > 0)
      [] IsBetting(s) ->
           IF AmountToCall(s) = 0
           THEN <<"CHECK">> \o (IF MayRaise(s) THEN <<"BET">> ELSE <<>>)
           ELSE <<"FOLD", "CALL">> \o (IF MayRaise(s) THEN <<"RAISE">> ELSE <<>>)
      [] OTHER -> <<>>

Refused(s, status) == [status |-> status, state |-> s]

\* The undo entry is saved only after the transition was accepted.
ApplyAction(s, a) ==
    LET next == TransitionModel(ModelOf(s), a)
        full == \/ Len(s.undo_history) >= UndoHistoryCapacity
                \/ PlayerActionIsLegal(s, a) /\ s.public_action_count >= PublicHistoryCapacity
    IN  CASE full -> Refused(s, "BUFFER_TOO_SMALL")
          [] ~full /\ next = {} -> Refused(s, "ILLEGAL_ACTION")
          [] OTHER ->
             [status |-> "SUCCESS",
              state |-> LET m == CHOOSE n \in next : TRUE IN
                        [f \in DOMAIN s |->
                            IF f = "undo_history"
                            THEN Append(s.undo_history, Entry(s, a)) ELSE m[f]]]

UndoAction(s) ==
    IF s.undo_history = <<>> THEN Refused(s, "INVALID_ARGUMENT")
    ELSE LET n == Len(s.undo_history)
             entry == s.undo_history[n]
             cleared == [i \in 1 .. PublicHistoryCapacity |->
                            IF i \in entry.public_action_count + 1 .. s.public_action_count
                            THEN "NONE" ELSE s.public_actions[i]]
         IN  [status |-> "SUCCESS",
              state |-> [f \in DOMAIN s |->
                            CASE f = "undo_history" -> SubSeq(s.undo_history, 1, n - 1)
                              [] f = "public_actions" -> cleared
                              [] OTHER -> entry[f]]]

\* A probability is a share of ChanceTotal.
ChanceTotal(s) == IF s.phase = "PRIVATE_DEAL" THEN 15 ELSE PublicDealCardCount

ChanceShare(s, a) ==
    IF s.phase = "PRIVATE_DEAL"
    THEN LET cards == DecodePrivateDeal(a) IN IF cards[1] = cards[2] THEN 1 ELSE 2
    ELSE RemainingRankCount(s, DecodePublicDeal(a))

HistoryActionCode == [CHECK |-> 1, BET |-> 2, FOLD |-> 3, CALL |-> 4, RAISE |-> 5, NONE |-> 0]

\* The digits of the key, most significant first, and their radices; their product
\* is about 6.5 * 10^9, inside the 64 bits of an InfoSetKey.
InformationSetKey(s) ==
    <<s.current_player, s.private_cards[s.current_player + 1] - 1, s.public_card,
      IF s.phase = "FIRST_BETTING" THEN 0 ELSE 1, s.round_start_index,
      s.public_action_count>>
    \o [i \in 1 .. PublicHistoryCapacity |-> HistoryActionCode[s.public_actions[i]]]

KeyRadices == <<2, 3, 4, 2, 9, 9>> \o [i \in 1 .. PublicHistoryCapacity |-> 6]

=============================================================================
