---------------------------- MODULE MCAlgorithms ----------------------------
(***************************************************************************)
(* Small games for Algorithms.                                             *)
(***************************************************************************)
EXTENDS Algorithms

Terminal(u) == [kind |-> "terminal", player |-> 0, key |-> 0, actions |-> <<>>, next |-> <<>>,
                weight |-> <<>>, utility |-> u]
Chance(next, weight) == [kind |-> "chance", player |-> 0, key |-> 0, actions |-> <<1, 2>>,
                         next |-> next, weight |-> weight, utility |-> <<>>]
Player(p, key, next) == [kind |-> "player", player |-> p, key |-> key,
                         actions |-> [a \in DOMAIN next |-> a], next |-> next,
                         weight |-> <<>>, utility |-> <<>>]
Duel(x) == Terminal(<<16 * x, -16 * x>>)
Trio3(x, y, z) == Terminal(<<16 * x, 16 * y, 16 * z>>)

\* One card, dealt to player 1; a bet, an answer, a second bet.
Card == [players |-> 2, draws |-> 3, nodes |-> <<
    Chance(<<2, 3>>, <<1, 1>>),
    Player(1, 11, <<4, 5>>), Player(1, 12, <<6, 7>>),
    Duel(1), Player(2, 21, <<8, 9>>), Duel(-1), Player(2, 21, <<10, 11>>),
    Duel(-2), Player(1, 13, <<12, 13>>), Duel(3), Player(1, 14, <<14, 15>>),
    Duel(4), Duel(-1), Duel(-3), Duel(2)>>]

\* Player 2 does not see the first move; chance and player 1 may follow.
Hidden == [players |-> 2, draws |-> 3, nodes |-> <<
    Player(1, 11, <<2, 3>>),
    Player(2, 21, <<4, 5>>), Player(2, 21, <<6, 7>>),
    Chance(<<8, 9>>, <<1, 1>>), Duel(-1), Player(1, 12, <<10, 11>>), Duel(2),
    Duel(3), Duel(-2), Duel(-4), Duel(1)>>]

\* One strategic player against chance.
Solo == [players |-> 1, draws |-> 3, nodes |-> <<
    Player(1, 11, <<2, 3>>),
    Duel(1), Chance(<<4, 5>>, <<1, 1>>),
    Player(1, 12, <<6, 7>>), Player(1, 13, <<8, 9>>),
    Duel(-2), Duel(3), Duel(2), Duel(-1)>>]

\* Player 3 sees the first move and not the second.
Trio == [players |-> 3, draws |-> 6, nodes |-> <<
    Player(1, 11, <<2, 3>>),
    Player(2, 21, <<4, 5>>), Player(2, 21, <<6, 7>>),
    Player(3, 31, <<8, 9>>), Player(3, 31, <<10, 11>>),
    Player(3, 32, <<12, 13>>), Player(3, 32, <<14, 15>>),
    Trio3(1, 2, -3), Trio3(-1, 0, 1), Trio3(2, -2, 0), Trio3(0, 1, -1),
    Trio3(3, -1, -2), Trio3(-2, 1, 1), Trio3(0, 0, 0), Trio3(1, -3, 2)>>]

SmallGames == {Card, Hidden, Solo, Trio}

\* The same information set twice on a path.
Absent == [players |-> 2, draws |-> 3, nodes |-> <<
    Player(1, 11, <<2, 3>>), Player(1, 11, <<4, 5>>), Duel(1), Duel(0), Duel(2)>>]
\* One information set, other actions.
Clash == [players |-> 2, draws |-> 3, nodes |-> <<
    Chance(<<2, 3>>, <<1, 1>>),
    Player(1, 11, <<4, 5>>), [Player(1, 11, <<6, 7>>) EXCEPT !.actions = <<1, 3>>],
    Duel(1), Duel(0), Duel(2), Duel(-1)>>]
\* One information set, another number of actions.
Counts == [players |-> 2, draws |-> 3, nodes |-> <<
    Player(2, 21, <<2, 3>>), Player(1, 11, <<4, 5>>), Player(1, 11, <<6>>),
    Duel(1), Duel(0), Duel(2)>>]
\* Chance weights that do not add up to one.
Skewed == [players |-> 2, draws |-> 3, nodes |-> <<
    Player(1, 11, <<2, 3>>), Chance(<<4, 5>>, <<1, 2>>), Duel(1), Duel(0), Duel(2)>>]
\* One information set, two players.
Shared == [players |-> 2, draws |-> 3, nodes |-> <<
    Player(1, 11, <<2, 3>>), Player(2, 11, <<4, 5>>), Duel(1), Duel(0), Duel(2)>>]
\* Not zero-sum.
Raked == [players |-> 2, draws |-> 3, nodes |-> <<
    Player(1, 11, <<2, 3>>), Duel(1), Terminal(<<16, -32>>)>>]

BadGames == {Absent, Clash, Counts, Skewed, Shared, Raked}

SmallVectors == {<<2, 0>>, <<1, 1>>, <<0, 2>>}
SmallWeights == [1..3 -> {0, 1, 2, 3, 20}] \ {<<0, 0, 0>>}

=============================================================================
