------------------------------- MODULE Sampler -------------------------------
(***************************************************************************)
(* The sampler of external-sampling MCCFR: sample_index, the same text in  *)
(* src/mccfr.c and src/mccfr_sequential.c.  The values of one draw are     *)
(* divided into consecutive intervals, one for each action of positive     *)
(* probability.                                                            *)
(***************************************************************************)
EXTENDS Integers, Sequences, FiniteSets

CONSTANTS
    Draws       \* how many values one draw of the random stream has (2^64)

Smaller(a, b) == IF a <= b THEN a ELSE b
Larger(a, b) == IF a >= b THEN a ELSE b

\* The actions of positive probability, and the last of them.
Positive(p) == {a \in DOMAIN p : p[a] > 0}
IsLast(p, a) == \A b \in Positive(p) : b <= a

\* The running sums of the probabilities.
Cumulative(p) ==
    LET sum[a \in 0..Len(p)] == IF a = 0 THEN 0 ELSE sum[a - 1] + p[a] IN sum

\* Mutant: no draw is kept back for the positive actions still to come.
LimitUnreserved(p, a) == Draws - 1

\* maximum_endpoint: each later positive action keeps at least one draw.
Limit(p, a) == Draws - Cardinality({b \in Positive(p) : b > a})

\* The share of the draws below and with action a.
Scaled(p, a) == Smaller((Cumulative(p)[a] * Draws) \div Cumulative(p)[Len(p)], Draws - 1)

\* The first draw after the interval of action a, or after that of the last
\* positive action before it.  The loop ends at the last positive action.
Endpoints(p) ==
    LET endpoint[a \in 0..Len(p)] ==
            IF a = 0 THEN 0
            ELSE IF a \notin Positive(p) \/ IsLast(p, a) THEN endpoint[a - 1]
            ELSE Smaller(Larger(Scaled(p, a), endpoint[a - 1] + 1), Limit(p, a))
    IN  endpoint

\* Mutant: the endpoint belongs to the action before it.
ChosenInclusive(p, draw, a) == IsLast(p, a) \/ draw <= Endpoints(p)[a]

\* Whether the loop stops at a positive action.
Chosen(p, draw, a) == IsLast(p, a) \/ draw < Endpoints(p)[a]

SampleIndex(p, draw) ==
    CHOOSE a \in Positive(p) :
        /\ Chosen(p, draw, a)
        /\ \A b \in Positive(p) : Chosen(p, draw, b) => a <= b

\* The average pass draws every player action uniformly.
UniformIndex(count, draw) == (draw * count) \div Draws + 1

-----------------------------------------------------------------------------
Owned(p, a) == {draw \in 0..Draws - 1 : SampleIndex(p, draw) = a}

\* "Each positive action receives at least one value, including probabilities below
\* the fixed-point resolution" (sample_index), and no other action receives any.
CoversPositiveActions(p) == \A a \in DOMAIN p : (p[a] > 0) = (Owned(p, a) # {})

\* When no positive probability is below the resolution of a draw, the draws of an
\* action are its share of them to less than one draw.
SharesDraws(p) ==
    LET total == Cumulative(p)[Len(p)]
        Excess(a) == Cardinality(Owned(p, a)) * total - Draws * p[a]
    IN  (\A a \in Positive(p) : Draws * p[a] >= total)
           => \A a \in DOMAIN p : Excess(a) < total /\ Excess(a) > -total

=============================================================================
