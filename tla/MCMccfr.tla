------------------------------- MODULE MCMccfr -------------------------------
(***************************************************************************)
(* Small games for Mccfr.                                                  *)
(***************************************************************************)
EXTENDS MccfrAgreement

Terminal(u) == [kind |-> "terminal", player |-> 0, key |-> 0, actions |-> <<>>, next |-> <<>>,
                weight |-> <<>>, utility |-> u]
Chance(next, weight) == [kind |-> "chance", player |-> 0, key |-> 0, actions |-> <<1, 2>>,
                         next |-> next, weight |-> weight, utility |-> <<>>]
Player(p, key, next) == [kind |-> "player", player |-> p, key |-> key,
                         actions |-> [a \in DOMAIN next |-> a], next |-> next,
                         weight |-> <<>>, utility |-> <<>>]
Duel(x) == Terminal(<<16 * x, -16 * x>>)

\* Player 2 does not see the first move, so its one information set is met twice in a
\* traversal for player 1; chance and player 1 may follow.
Hidden == [players |-> 2, nodes |-> <<
    Player(1, 11, <<2, 3>>),
    Player(2, 21, <<4, 5>>), Player(2, 21, <<6, 7>>),
    Chance(<<8, 9>>, <<1, 1>>), Duel(-1), Player(1, 12, <<10, 11>>), Duel(2),
    Duel(3), Duel(-2), Duel(-4), Duel(1)>>]

\* Three players, hence two passes; player 3 moves after one of the first moves only.
Trio == [players |-> 3, nodes |-> <<
    Player(1, 11, <<2, 3>>),
    Player(2, 21, <<4, 5>>), Player(2, 21, <<6, 7>>),
    Player(3, 31, <<8, 9>>), Terminal(<<16, -32, 16>>), Terminal(<<32, 0, -32>>), Terminal(<<-16, 32, -16>>),
    Terminal(<<0, 16, -16>>), Terminal(<<-32, 48, -16>>)>>]

\* One strategic player.
Solo == [players |-> 1, nodes |-> <<
    Player(1, 11, <<2, 3>>), Terminal(<<16, 0>>), Player(1, 12, <<4, 5>>),
    Terminal(<<-32, 0>>), Terminal(<<48, 0>>)>>]

\* Malformed: one information set with other actions, a chance node that does not add up.
Clash == [players |-> 2, nodes |-> <<
    Player(1, 11, <<2, 3>>),
    Player(2, 21, <<4, 5>>), [Player(2, 21, <<6, 7>>) EXCEPT !.actions = <<1, 3>>],
    Duel(1), Duel(0), Duel(2), Chance(<<8, 9>>, <<1, 2>>), Duel(3), Duel(1)>>]

SmallGames == {Hidden, Trio, Solo, Clash}
SmallVectors == {<<2, 0>>, <<1, 1>>, <<0, 2>>}

=============================================================================
