----------------------------- MODULE KuhnPoker -----------------------------
(***************************************************************************)
(* The Kuhn poker adapter (src/kuhn_poker.c) as operators on its state.    *)
(* The state is the KuhnPokerState structure: the fixed public history     *)
(* keeps its unused slots, the undo history is the sequence of its used    *)
(* entries.  An operation that can fail answers [status, state].           *)
(***************************************************************************)
EXTENDS Integers, Sequences

PublicHistoryCapacity == 3
UndoHistoryCapacity == 4

Jack == 1
Queen == 2
King == 3
NotDealt == 0

PlayerActions == {"CHECK", "BET", "FOLD", "CALL"}

\* decode_deal: the cards of player zero and player one.
DecodeDeal == [JQ |-> <<Jack, Queen>>, JK |-> <<Jack, King>>,
               QJ |-> <<Queen, Jack>>, QK |-> <<Queen, King>>,
               KJ |-> <<King, Jack>>, KQ |-> <<King, Queen>>]

Deals == DOMAIN DecodeDeal

AllActions == PlayerActions \cup Deals \cup {"NONE"}

StateInit == [cards |-> <<NotDealt, NotDealt>>, phase |-> "CHANCE",
              public_actions |-> [i \in 1 .. PublicHistoryCapacity |-> "NONE"],
              public_action_count |-> 0, undo_history |-> <<>>]

\* next_public_phase, as the relation {<<phase, action, next phase>>}.
NextPublicPhase ==
    {<<"P0_OPEN", "CHECK", "P1_AFTER_CHECK">>,
     <<"P0_OPEN", "BET", "P1_FACING_OPEN_BET">>,
     <<"P1_AFTER_CHECK", "CHECK", "TERMINAL">>,
     <<"P1_AFTER_CHECK", "BET", "P0_FACING_CHECK_BET">>}
    \cup {<<p, a, "TERMINAL">> : p \in {"P1_FACING_OPEN_BET", "P0_FACING_CHECK_BET"},
                                 a \in {"FOLD", "CALL"}}

Betting == {"P0_OPEN", "P1_AFTER_CHECK", "P1_FACING_OPEN_BET", "P0_FACING_CHECK_BET"}

Phases == Betting \cup {"CHANCE", "TERMINAL"}

\* The state before action i of the public history, as its undo entry has to
\* describe it; the phase follows from the actions before it.
Replayed(s) ==
    LET phase[i \in 0 .. s.public_action_count] ==
            IF i = 0 THEN {"P0_OPEN"}
            ELSE {t[3] : t \in {u \in NextPublicPhase :
                                   /\ u[1] \in phase[i - 1]
                                   /\ u[2] = s.public_actions[i]}}
    IN phase

Valid(s) ==
    /\ s.public_action_count <= PublicHistoryCapacity
    /\ Len(s.undo_history) <= UndoHistoryCapacity
    /\ s.phase \in Phases
    /\ \A i \in s.public_action_count + 1 .. PublicHistoryCapacity :
          s.public_actions[i] = "NONE"
    /\ IF s.phase = "CHANCE"
       THEN s.cards = <<NotDealt, NotDealt>> /\ s.public_action_count = 0
                                             /\ s.undo_history = <<>>
       ELSE LET phase == Replayed(s) IN
            /\ \A p \in 1 .. 2 : s.cards[p] \in Jack .. King
            /\ s.cards[1] # s.cards[2]
            /\ Len(s.undo_history) = s.public_action_count + 1
            /\ LET deal == s.undo_history[1] IN
               /\ deal.phase = "CHANCE"
               /\ deal.cards = <<NotDealt, NotDealt>>
               /\ deal.public_action_count = 0
               /\ deal.applied_action \in Deals
               /\ DecodeDeal[deal.applied_action] = s.cards
            /\ \A i \in 1 .. s.public_action_count :
                  LET entry == s.undo_history[i + 1] IN
                  /\ phase[i - 1] = {entry.phase}
                  /\ entry.public_action_count = i - 1
                  /\ entry.applied_action = s.public_actions[i]
                  /\ entry.cards = s.cards
            /\ phase[s.public_action_count] = {s.phase}

IsTerminal(s) == s.phase = "TERMINAL"

\* cards[0] > cards[1]
PlayerZeroWinsShowdown(s) == s.cards[1] > s.cards[2]

\* What player zero wins; defined for the three ways a hand can end.
UtilityZero(s) ==
    LET public == SubSeq(s.public_actions, 1, s.public_action_count)
        showdown(stake) == IF PlayerZeroWinsShowdown(s) THEN stake ELSE -stake
    IN  CASE public = <<"BET", "FOLD">> -> 1
          [] public = <<"BET", "CALL">> -> showdown(2)
          [] public = <<"CHECK", "CHECK">> -> showdown(1)
          [] public = <<"CHECK", "BET", "FOLD">> -> -1
          [] public = <<"CHECK", "BET", "CALL">> -> showdown(2)

TerminalUtility(s, player) == IF player = 0 THEN UtilityZero(s) ELSE -UtilityZero(s)

\* Chance is -1.
CurrentActor(s) ==
    CASE s.phase = "CHANCE" -> -1
      [] s.phase \in {"P0_OPEN", "P0_FACING_CHECK_BET"} -> 0
      [] s.phase \in {"P1_AFTER_CHECK", "P1_FACING_OPEN_BET"} -> 1

LegalActions(s) ==
    CASE s.phase = "CHANCE" -> <<"JQ", "JK", "QJ", "QK", "KJ", "KQ">>
      [] s.phase \in {"P0_OPEN", "P1_AFTER_CHECK"} -> <<"CHECK", "BET">>
      [] s.phase \in {"P1_FACING_OPEN_BET", "P0_FACING_CHECK_BET"} -> <<"FOLD", "CALL">>
      [] s.phase = "TERMINAL" -> <<>>

\* save_undo's entry.
UndoEntry(s, a) == [applied_action |-> a, phase |-> s.phase, cards |-> s.cards,
                    public_action_count |-> s.public_action_count]

\* The phase switch of trusted_apply_action: the set of next phases, empty for
\* an action the phase does not take.
AppliedPhase(phase, a) ==
    CASE phase = "CHANCE" -> IF a \in Deals THEN {"P0_OPEN"} ELSE {}
      [] phase = "TERMINAL" -> {}
      [] phase = "P0_OPEN" -> IF a = "CHECK" THEN {"P1_AFTER_CHECK"}
                              ELSE IF a = "BET" THEN {"P1_FACING_OPEN_BET"} ELSE {}
      [] phase = "P1_AFTER_CHECK" -> IF a = "BET" THEN {"P0_FACING_CHECK_BET"}
                                     ELSE IF a = "CHECK" THEN {"TERMINAL"} ELSE {}
      [] phase \in {"P1_FACING_OPEN_BET", "P0_FACING_CHECK_BET"} ->
            IF a \in {"CALL", "FOLD"} THEN {"TERMINAL"} ELSE {}

Refused(s, status) == [status |-> status, state |-> s]

ApplyAction(s, a) ==
    LET next == AppliedPhase(s.phase, a)
        public == s.phase # "CHANCE"
    IN  CASE next = {} -> Refused(s, "ILLEGAL_ACTION")
          [] /\ next # {}
             /\ \/ public /\ s.public_action_count >= PublicHistoryCapacity
                \/ Len(s.undo_history) >= UndoHistoryCapacity
             -> Refused(s, "BUFFER_TOO_SMALL")
          [] OTHER ->
             [status |-> "SUCCESS",
              state |->
               [cards |-> IF public THEN s.cards ELSE DecodeDeal[a],
                phase |-> CHOOSE p \in next : TRUE,
                public_actions |->
                    IF public
                    THEN [s.public_actions EXCEPT ![s.public_action_count + 1] = a]
                    ELSE s.public_actions,
                public_action_count |-> s.public_action_count + (IF public THEN 1 ELSE 0),
                undo_history |-> Append(s.undo_history, UndoEntry(s, a))]]

UndoAction(s) ==
    IF s.undo_history = <<>> THEN Refused(s, "INVALID_ARGUMENT")
    ELSE LET entry == s.undo_history[Len(s.undo_history)]
             public == entry.public_action_count < s.public_action_count
         IN  [status |-> "SUCCESS",
              state |->
               [cards |-> entry.cards,
                phase |-> entry.phase,
                public_actions |->
                    IF public THEN [s.public_actions EXCEPT ![s.public_action_count] = "NONE"]
                    ELSE s.public_actions,
                public_action_count |-> s.public_action_count - (IF public THEN 1 ELSE 0),
                undo_history |-> SubSeq(s.undo_history, 1, Len(s.undo_history) - 1)]]

\* A probability is a share of ChanceTotal.
ChanceShare(s, a) == 1

ChanceTotal(s) == 6

Context == [P0_OPEN |-> 0, P1_AFTER_CHECK |-> 1,
            P1_FACING_OPEN_BET |-> 2, P0_FACING_CHECK_BET |-> 3]

\* The digits of the key, most significant first, and their radices:
\* ((player * 4) + context) * 3 + card.
InformationSetKey(s) ==
    LET player == CurrentActor(s)
    IN  <<player, Context[s.phase], s.cards[player + 1] - Jack>>

KeyRadices == <<2, 4, 3>>

=============================================================================
