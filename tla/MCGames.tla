------------------------------ MODULE MCGames ------------------------------
\* Kuhn and Leduc poker in full; blackjack with decks of few ranks: aces only, until the
\* longest hands; eights, for splits up to four hands; aces and tens; threes and eights.
EXTENDS Games

SmallTables ==
    {[game |-> "kuhn", ranks |-> {}, plies |-> 4],
     [game |-> "leduc", ranks |-> {}, plies |-> 10],
     [game |-> "blackjack", ranks |-> {1}, plies |-> 60],
     [game |-> "blackjack", ranks |-> {8}, plies |-> 60],
     [game |-> "blackjack", ranks |-> {1, 10}, plies |-> 13],
     [game |-> "blackjack", ranks |-> {3, 8}, plies |-> 12]}

=============================================================================
