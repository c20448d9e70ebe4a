--------------------------- MODULE StoreTableProofs ---------------------------
(***************************************************************************)
(* Proofs about the open-addressing tables of StoreTable, for every hash   *)
(* function of its form, every capacity and every set of keys: what a      *)
(* probe finds, what an insertion and a rehash keep, and the capacities    *)
(* that growth and reservations ask for.                                   *)
(***************************************************************************)
EXTENDS StoreTable, TLAPS, WellFoundedInduction, FiniteSetTheorems

-----------------------------------------------------------------------------
\* Induction over the naturals in terms of sets: a set takes the place of a predicate.

\* A nonempty set of naturals has a least element.
LEMMA LeastNat ==
  ASSUME NEW T, T \subseteq Nat, T # {}
  PROVE  \E x \in T : \A y \in T : x <= y
<1> DEFINE R == {ss \in Nat \X Nat : ss[1] < ss[2]}
<1>1. IsWellFoundedOn(R, Nat)
  BY NatLessThanWellFounded DEF OpToRel
<1>2. PICK x \in T : \A y \in T : ~(<<y, x>> \in R)
  BY <1>1, WFMin, Zenon
<1>3. ASSUME NEW y \in T PROVE x <= y
  <2>1. x \in Nat /\ y \in Nat
    OBVIOUS
  <2>2. ~(y < x)
    BY <1>2, <2>1
  <2> QED BY <2>1, <2>2
<1> QED BY <1>3

\* A set of naturals with 0 and with the successor of each of its elements is all of them.
LEMMA SetInduction ==
  ASSUME NEW T, T \subseteq Nat, 0 \in T, \A n \in T : n + 1 \in T
  PROVE  T = Nat
<1> SUFFICES ASSUME T # Nat PROVE FALSE
  OBVIOUS
<1> DEFINE U == Nat \ T
<1>1. U \subseteq Nat /\ U # {}
  OBVIOUS
<1> HIDE DEF U
<1>2. PICK x \in U : \A y \in U : x <= y
  BY <1>1, LeastNat
<1>3. x # 0
  BY <1>2 DEF U
<1>4. x - 1 \in T
  BY <1>2, <1>3 DEF U
<1>5. x \in T
  BY <1>2, <1>4 DEF U
<1> QED BY <1>2, <1>5 DEF U

\* The same up to a bound.
LEMMA BoundedInduction ==
  ASSUME NEW n \in Nat, NEW T, 0 \in T, \A i \in 0..(n - 1) : i \in T => i + 1 \in T
  PROVE  \A i \in 0..n : i \in T
<1> DEFINE U == {i \in Nat : i <= n => i \in T}
<1>1. 0 \in U
  OBVIOUS
<1>2. ASSUME NEW i \in U PROVE i + 1 \in U
  OBVIOUS
<1>3. U = Nat
  <2>1. U \subseteq Nat
    OBVIOUS
  <2> HIDE DEF U
  <2> QED BY <1>1, <1>2, <2>1, SetInduction
<1> QED BY <1>3

\* Some function has first at 0, and at each later index a step from the value before.
HasSteps(S, first, step, n) ==
  \E g \in [0..n -> S] : g[0] = first /\ \A i \in 1..n : g[i] = step[i][g[i - 1]]

\* Such a function exists.
LEMMA StepFunction ==
  ASSUME NEW S, NEW first \in S, NEW step \in [Nat -> [S -> S]], NEW n \in Nat
  PROVE  HasSteps(S, first, step, n)
<1> DEFINE Good(g, m) == g[0] = first /\ \A i \in 1..m : g[i] = step[i][g[i - 1]]
           Ok == {m \in Nat : \E g \in [0..m -> S] : Good(g, m)}
<1>1. 0 \in Ok
  <2> DEFINE g == [i \in 0..0 |-> first]
  <2>1. g \in [0..0 -> S]
    OBVIOUS
  <2>2. Good(g, 0)
    OBVIOUS
  <2> HIDE DEF g, Good
  <2>3. \E h \in [0..0 -> S] : Good(h, 0)
    BY <2>1, <2>2
  <2> QED BY <2>3
<1>2. ASSUME NEW m \in Ok PROVE m + 1 \in Ok
  <2>1. PICK g \in [0..m -> S] : Good(g, m)
    OBVIOUS
  <2> DEFINE h == [i \in 0..(m + 1) |-> IF i <= m THEN g[i] ELSE step[m + 1][g[m]]]
  <2>2. h \in [0..(m + 1) -> S]
    BY <2>1
  <2>3. Good(h, m + 1)
    BY <2>1
  <2> HIDE DEF h, Good
  <2>4. \E f \in [0..(m + 1) -> S] : Good(f, m + 1)
    BY <2>2, <2>3
  <2> QED BY <2>4
<1>3. Ok = Nat
  <2>1. Ok \subseteq Nat
    OBVIOUS
  <2> HIDE DEF Ok
  <2> QED BY <1>1, <1>2, <2>1, SetInduction
<1> QED BY <1>3 DEF HasSteps

-----------------------------------------------------------------------------
\* Powers of two.

Powers(n) == LET power[i \in 0..n] == IF i = 0 THEN 1 ELSE 2 * power[i - 1] IN power

\* The powers of two obey their recurrence.
LEMMA PowersFacts ==
  ASSUME NEW n \in Nat
  PROVE  /\ DOMAIN Powers(n) = 0..n /\ Powers(n)[0] = 1 /\ Pow2(n) = Powers(n)[n]
         /\ \A i \in 0..n : Powers(n)[i] \in Nat \ {0}
         /\ \A i \in 1..n : Powers(n)[i] = 2 * Powers(n)[i - 1]
<1> DEFINE F(g) == [i \in 0..n |-> IF i = 0 THEN 1 ELSE 2 * g[i - 1]]
           step == [i \in Nat |-> [x \in Nat \ {0} |-> 2 * x]]
<1>1. step \in [Nat -> [Nat \ {0} -> Nat \ {0}]]
  OBVIOUS
<1>2. 1 \in Nat \ {0}
  OBVIOUS
<1>3. \A i \in Nat, x \in Nat \ {0} : step[i][x] = 2 * x
  OBVIOUS
<1> HIDE DEF step
<1>4. HasSteps(Nat \ {0}, 1, step, n)
  BY <1>1, <1>2, StepFunction
<1>5. PICK g \in [0..n -> Nat \ {0}] : g[0] = 1 /\ \A i \in 1..n : g[i] = step[i][g[i - 1]]
  BY <1>4 DEF HasSteps
<1>6. \A i \in 1..n : g[i] = 2 * g[i - 1]
  <2> TAKE i \in 1..n
  <2>1. i \in Nat /\ i - 1 \in 0..n /\ g[i - 1] \in Nat \ {0}
    BY <1>5
  <2> QED BY <1>3, <1>5, <2>1
<1>7. g = F(g)
  BY <1>5, <1>6
<1>8. Powers(n) = CHOOSE h : h = F(h)
  BY DEF Powers
<1>9. Powers(n) = F(Powers(n))
  <2> HIDE DEF F
  <2> QED BY <1>7, <1>8
<1>10. DOMAIN Powers(n) = 0..n /\ Powers(n)[0] = 1
  BY <1>9
<1>11. \A i \in 1..n : Powers(n)[i] = 2 * Powers(n)[i - 1]
  BY <1>9
<1>12. \A i \in 0..n : Powers(n)[i] \in Nat \ {0}
  <2> DEFINE T == {i \in Nat : i <= n => Powers(n)[i] \in Nat \ {0}}
  <2>1. 0 \in T /\ \A i \in 0..(n - 1) : i \in T => i + 1 \in T
    BY <1>10, <1>11
  <2>2. \A i \in 0..n : i \in T
    <3> HIDE DEF T
    <3> QED BY <2>1, BoundedInduction
  <2> QED BY <2>2
<1>13. Pow2(n) = Powers(n)[n]
  BY DEF Pow2, Powers
<1> QED BY <1>10, <1>11, <1>12, <1>13

\* Doubling.
LEMMA Pow2Facts ==
  /\ Pow2(0) = 1
  /\ \A n \in Nat : Pow2(n) \in Nat \ {0} /\ Pow2(n + 1) = 2 * Pow2(n)
<1>1. Pow2(0) = 1
  BY PowersFacts
<1>2. ASSUME NEW n \in Nat PROVE Pow2(n) \in Nat \ {0}
  <2>1. n \in 0..n
    OBVIOUS
  <2> QED BY <2>1, PowersFacts
<1>3. ASSUME NEW n \in Nat PROVE Pow2(n + 1) = 2 * Pow2(n)
  <2> DEFINE T == {i \in 0..n : Powers(n + 1)[i] = Powers(n)[i]}
  <2>1. n + 1 \in Nat
    OBVIOUS
  <2>2. 0 \in T
    BY <2>1, PowersFacts
  <2>3. ASSUME NEW i \in 0..(n - 1), i \in T PROVE i + 1 \in T
    <3>1. i + 1 \in 1..n /\ i + 1 \in 1..(n + 1) /\ (i + 1) - 1 = i /\ i + 1 \in 0..n
      OBVIOUS
    <3>2. Powers(n + 1)[i + 1] = 2 * Powers(n + 1)[(i + 1) - 1]
      BY <2>1, <3>1, PowersFacts
    <3>3. Powers(n)[i + 1] = 2 * Powers(n)[(i + 1) - 1]
      BY <3>1, PowersFacts
    <3> QED BY <2>3, <3>1, <3>2, <3>3
  <2>4. \A i \in 0..n : i \in T
    <3> HIDE DEF T
    <3> QED BY <2>2, <2>3, BoundedInduction
  <2>5. Powers(n + 1)[n] = Powers(n)[n]
    BY <2>4
  <2>6. n + 1 \in 1..(n + 1) /\ (n + 1) - 1 = n
    OBVIOUS
  <2>7. Powers(n + 1)[n + 1] = 2 * Powers(n + 1)[(n + 1) - 1]
    BY <2>1, <2>6, PowersFacts
  <2> QED BY <2>1, <2>5, <2>6, <2>7, PowersFacts
<1> QED BY <1>1, <1>2, <1>3

\* A power of two is more than its exponent.
LEMMA Pow2Grows == \A n \in Nat : Pow2(n) >= n + 1
<1> DEFINE T == {n \in Nat : Pow2(n) >= n + 1}
<1>1. 0 \in T
  BY Pow2Facts
<1>2. ASSUME NEW n \in T PROVE n + 1 \in T
  <2>1. Pow2(n) \in Nat /\ Pow2(n) >= n + 1 /\ Pow2(n + 1) = 2 * Pow2(n) /\ n \in Nat
    BY Pow2Facts
  <2> QED BY <2>1
<1>3. T = Nat
  <2>1. T \subseteq Nat
    OBVIOUS
  <2> HIDE DEF T
  <2> QED BY <1>1, <1>2, <2>1, SetInduction
<1> QED BY <1>3

\* Exponents add.
LEMMA Pow2Adds == \A m, n \in Nat : Pow2(m + n) = Pow2(m) * Pow2(n)
<1> SUFFICES ASSUME NEW m \in Nat PROVE \A n \in Nat : Pow2(m + n) = Pow2(m) * Pow2(n)
  OBVIOUS
<1> DEFINE T == {n \in Nat : Pow2(m + n) = Pow2(m) * Pow2(n)}
<1>1. 0 \in T
  <2>1. m + 0 = m /\ Pow2(m) \in Nat
    BY Pow2Facts
  <2> QED BY <2>1, Pow2Facts
<1>2. ASSUME NEW n \in T PROVE n + 1 \in T
  <2>1. n \in Nat /\ m + n \in Nat /\ m + (n + 1) = (m + n) + 1
    OBVIOUS
  <2>2. Pow2(m + (n + 1)) = 2 * Pow2(m + n) /\ Pow2(n + 1) = 2 * Pow2(n)
    BY <2>1, Pow2Facts
  <2>3. Pow2(m + n) = Pow2(m) * Pow2(n)
    OBVIOUS
  <2>4. Pow2(m) \in Nat /\ Pow2(n) \in Nat
    BY <2>1, Pow2Facts
  <2> DEFINE x == Pow2(m)
             y == Pow2(n)
  <2>5. 2 * (x * y) = x * (2 * y)
    BY <2>4
  <2> HIDE DEF x, y
  <2>6. Pow2(m + (n + 1)) = Pow2(m) * Pow2(n + 1)
    BY <2>2, <2>3, <2>5 DEF x, y
  <2> QED BY <2>1, <2>6
<1>3. T = Nat
  <2>1. T \subseteq Nat
    OBVIOUS
  <2> HIDE DEF T
  <2> QED BY <1>1, <1>2, <2>1, SetInduction
<1> QED BY <1>3

\* Of two powers the one with the larger exponent is larger.
LEMMA Pow2Order == \A m, n \in Nat : m < n <=> Pow2(m) < Pow2(n)
<1>1. ASSUME NEW m \in Nat, NEW n \in Nat, m < n PROVE Pow2(m) < Pow2(n)
  <2> DEFINE d == n - m
  <2>1. d \in Nat /\ d >= 1 /\ n = m + d
    BY <1>1
  <2> HIDE DEF d
  <2>2. Pow2(n) = Pow2(m) * Pow2(d)
    BY <2>1, Pow2Adds
  <2>3. Pow2(m) \in Nat \ {0} /\ Pow2(d) \in Nat /\ Pow2(d) >= 2
    BY <2>1, Pow2Facts, Pow2Grows
  <2>4. \A x \in Nat \ {0}, y \in Nat : y >= 2 => x < x * y
    OBVIOUS
  <2> QED BY <2>2, <2>3, <2>4
<1>2. \A m \in Nat : Pow2(m) \in Nat
  BY Pow2Facts
<1>3. ASSUME NEW m \in Nat, NEW n \in Nat, ~(m < n) PROVE ~(Pow2(m) < Pow2(n))
  <2>1. CASE m = n
    BY <1>2, <2>1
  <2>2. CASE n < m
    BY <1>1, <1>2, <2>2
  <2> QED BY <1>3, <2>1, <2>2
<1> QED BY <1>1, <1>3

\* The capacities.
LEMMA CapacityFacts ==
  ASSUME NEW c \in PowersOfTwo
  PROVE  /\ c \in Nat \ {0} /\ c <= HashValues
         /\ \A d \in Nat : c * Pow2(d) <= HashValues => c * Pow2(d) \in PowersOfTwo
<1>1. PICK b \in 1..HashBits : c = Pow2(b)
  BY DEF PowersOfTwo
<1>2. HashBits \in Nat /\ b \in Nat /\ b <= HashBits
  BY StoreTableAssumption
<1>3. c \in Nat \ {0} /\ HashValues \in Nat \ {0}
  BY <1>1, <1>2, Pow2Facts DEF HashValues
<1>4. c <= HashValues
  BY <1>1, <1>2, <1>3, Pow2Order DEF HashValues
<1>5. ASSUME NEW d \in Nat, c * Pow2(d) <= HashValues PROVE c * Pow2(d) \in PowersOfTwo
  <2>1. c * Pow2(d) = Pow2(b + d) /\ b + d \in Nat
    BY <1>1, <1>2, Pow2Adds
  <2>2. ~(HashBits < b + d)
    <3>1. Pow2(b + d) \in Nat /\ Pow2(HashBits) \in Nat
      BY <1>2, <2>1, Pow2Facts
    <3> QED BY <1>2, <1>5, <2>1, <3>1, Pow2Order DEF HashValues
  <2>3. b + d \in 1..HashBits
    BY <1>1, <1>2, <2>1, <2>2
  <2> QED BY <2>1, <2>3 DEF PowersOfTwo
<1> QED BY <1>3, <1>4, <1>5

\* The load limit leaves a slot free, and room for one more when the table doubles.
LEMMA LoadLimitFacts ==
  ASSUME NEW c \in Nat, c >= 4
  PROVE  /\ LoadLimit(c) \in Nat /\ LoadLimit(c) < c
         /\ LoadLimit(c) + 1 <= LoadLimit(2 * c)
         /\ \A d \in Nat : c <= d => LoadLimit(c) <= LoadLimit(d)
BY DEF LoadLimit

\* A reservation asks for a capacity that holds the nodes, reached by doubling.
LEMMA CapacityForFacts ==
  ASSUME NEW nodes \in Nat, NEW c \in Nat, c >= 4
  PROVE  /\ \E d \in Nat : CapacityFor(nodes, c) = c * Pow2(d)
         /\ CapacityFor(nodes, c) \in Nat /\ CapacityFor(nodes, c) >= c
         /\ nodes <= LoadLimit(CapacityFor(nodes, c))
<1> DEFINE Fits(d) == nodes <= LoadLimit(c * Pow2(d))
           T == {d \in 0..nodes : Fits(d)}
<1>1. \A d \in Nat : Pow2(d) \in Nat \ {0}
  BY Pow2Facts
<1>2. Fits(nodes)
  <2> DEFINE x == Pow2(nodes)
  <2>1. x \in Nat /\ x >= nodes + 1
    BY <1>1, Pow2Grows
  <2> HIDE DEF x
  <2>2. c * x >= 4 * x /\ c * x \in Nat
    BY <2>1
  <2>3. \A y \in Nat : y >= 4 * x => y - y \div 4 >= nodes
    BY <2>1
  <2> QED BY <2>2, <2>3 DEF LoadLimit, x
<1>3. T \subseteq Nat /\ T # {}
  BY <1>2
<1>4. PICK d \in T : \A e \in T : d <= e
  <2> HIDE DEF T
  <2> QED BY <1>3, LeastNat
<1>5. \A e \in 0..(d - 1) : ~Fits(e)
  BY <1>4
<1> DEFINE least == CHOOSE k \in 0..nodes : Fits(k) /\ \A e \in 0..(k - 1) : ~Fits(e)
<1>6. least \in 0..nodes /\ Fits(least)
  <2> HIDE DEF Fits
  <2>1. \E k \in 0..nodes : Fits(k) /\ \A e \in 0..(k - 1) : ~Fits(e)
    BY <1>4, <1>5
  <2> QED BY <2>1
<1>7. CapacityFor(nodes, c) = c * Pow2(least)
  BY DEF CapacityFor
<1> HIDE DEF least
<1>8. least \in Nat /\ Pow2(least) \in Nat \ {0}
  BY <1>1, <1>6
<1>9. CapacityFor(nodes, c) \in Nat /\ CapacityFor(nodes, c) >= c
  <2>1. \A x \in Nat \ {0} : c * x \in Nat /\ c * x >= c
    OBVIOUS
  <2> QED BY <1>7, <1>8, <2>1
<1> QED BY <1>6, <1>7, <1>8, <1>9

-----------------------------------------------------------------------------
\* Probes.

Slot(start, o, c) == (start + o) % c

\* A probe from start reaches slot i with no empty slot before it.
PathTo(table, c, start, i) ==
  \E o \in 0..(c - 1) : /\ Slot(start, o, c) = i
                        /\ \A p \in 0..(o - 1) : table[Slot(start, p, c)].node # NULL

\* The probe visits every slot.
LEMMA ProbeCovers ==
  ASSUME NEW c \in Nat \ {0}, NEW start \in Nat
  PROVE  /\ \A o \in Nat : Slot(start, o, c) \in 0..(c - 1)
         /\ \A i \in 0..(c - 1) : \E o \in 0..(c - 1) : Slot(start, o, c) = i
<1> DEFINE q == start \div c
           s == start % c
<1>1. q \in Nat /\ s \in 0..(c - 1) /\ start = q * c + s
  OBVIOUS
<1>2. \A o \in Nat : Slot(start, o, c) \in 0..(c - 1)
  BY DEF Slot
<1>3. \A m \in Nat, i \in 0..(c - 1) : (m * c + i) % c = i
  OBVIOUS
<1> HIDE DEF q, s
<1>4. ASSUME NEW i \in 0..(c - 1) PROVE \E o \in 0..(c - 1) : Slot(start, o, c) = i
  <2>1. CASE i >= s
    <3>1. i - s \in 0..(c - 1) /\ start + (i - s) = q * c + i
      BY <1>1, <2>1
    <3>2. Slot(start, i - s, c) = i
      BY <1>1, <1>3, <3>1 DEF Slot
    <3> QED BY <3>1, <3>2
  <2>2. CASE i < s
    <3>1. (i - s) + c \in 0..(c - 1)
      BY <1>1, <2>2
    <3>2. (q + 1) * c = q * c + c
      BY <1>1
    <3>3. start + ((i - s) + c) = (q + 1) * c + i
      BY <1>1, <3>2
    <3>4. Slot(start, (i - s) + c, c) = i
      BY <1>1, <1>3, <3>3 DEF Slot
    <3> QED BY <3>1, <3>4
  <2> QED BY <1>1, <2>1, <2>2
<1> QED BY <1>2, <1>4

IsTable(table, c) == c \in Nat \ {0} /\ table \in [0..(c - 1) -> {table[i] : i \in DOMAIN table}]

\* A table is finite, and one that is not full has an empty slot.
LEMMA TableFacts ==
  ASSUME NEW table, NEW c, IsTable(table, c)
  PROVE  /\ c \in Nat \ {0} /\ DOMAIN table = 0..(c - 1) /\ Capacity(table) = c
         /\ table # NULL
         /\ IsFiniteSet(Occupied(table)) /\ Cardinality(Occupied(table)) \in Nat
         /\ Cardinality(Occupied(table)) < c => \E i \in 0..(c - 1) : table[i].node = NULL
<1>1. c \in Nat \ {0} /\ DOMAIN table = 0..(c - 1)
  BY DEF IsTable
<1>2. IsFiniteSet(0..(c - 1)) /\ Cardinality(0..(c - 1)) = c
  <2>1. 0 \in Int /\ c - 1 \in Int
    BY <1>1
  <2>2. Cardinality(0..(c - 1)) = (c - 1) - 0 + 1 /\ IsFiniteSet(0..(c - 1))
    BY <1>1, <2>1, FS_Interval
  <2> QED BY <1>1, <2>2
<1>3. Capacity(table) = c
  BY <1>1, <1>2 DEF Capacity
<1>4. table # NULL
  BY <1>1 DEF NULL
<1>5. Occupied(table) \subseteq 0..(c - 1)
  BY <1>1 DEF Occupied
<1>6. IsFiniteSet(Occupied(table)) /\ Cardinality(Occupied(table)) \in Nat
  BY <1>2, <1>5, FS_Subset, FS_CardinalityType
<1>7. ASSUME Cardinality(Occupied(table)) < c, \A i \in 0..(c - 1) : table[i].node # NULL PROVE FALSE
  <2>1. Occupied(table) = 0..(c - 1)
    BY <1>1, <1>7 DEF Occupied
  <2> QED BY <1>1, <1>2, <1>7, <2>1
<1> QED BY <1>1, <1>3, <1>4, <1>6, <1>7

\* What a probe says.
LEMMA LocateFacts ==
  ASSUME NEW table, NEW c, IsTable(table, c), NEW start \in Nat, NEW holders
  PROVE  \/ /\ Locate(table, start, holders) = [result |-> "full", index |-> 0]
            /\ \A i \in 0..(c - 1) : table[i].node # NULL /\ i \notin holders
         \/ \E i \in 0..(c - 1) :
              /\ PathTo(table, c, start, i) /\ table[i].node = NULL
              /\ Locate(table, start, holders) = [result |-> "empty", index |-> i]
              /\ \A h \in holders \intersect Occupied(table) : ~PathTo(table, c, start, h)
         \/ \E i \in 0..(c - 1) :
              /\ i \in holders /\ table[i].node # NULL
              /\ Locate(table, start, holders) = [result |-> "found", index |-> i]
<1>1. c \in Nat \ {0} /\ DOMAIN table = 0..(c - 1) /\ Capacity(table) = c
  BY TableFacts
<1> DEFINE At(o) == (start + o) % c
           Stops(o) == table[At(o)].node = NULL \/ At(o) \in holders
           stops == {o \in 0..(c - 1) : Stops(o)}
           first == CHOOSE o \in stops : \A p \in stops : o <= p
           r == Locate(table, start, holders)
<1>2. r = IF stops = {} THEN [result |-> "full", index |-> 0]
          ELSE [result |-> IF table[At(first)].node = NULL THEN "empty" ELSE "found",
                index |-> At(first)]
  BY <1>1 DEF Locate
<1>3. \A o \in 0..(c - 1) : At(o) = Slot(start, o, c) /\ At(o) \in 0..(c - 1)
  <2> TAKE o \in 0..(c - 1)
  <2>1. c \in Nat \ {0} /\ o \in Nat
    BY <1>1
  <2>2. \A i \in Nat : Slot(start, i, c) \in 0..(c - 1)
    BY <2>1, ProbeCovers, Zenon
  <2>3. Slot(start, o, c) \in 0..(c - 1)
    BY <2>1, <2>2
  <2>4. Capacity(table) = c
    BY <1>1
  <2> QED BY <2>3, <2>4 DEF Slot
<1> HIDE DEF r
<1>4. CASE stops = {}
  <2>1. \A i \in 0..(c - 1) : table[i].node # NULL /\ i \notin holders
    <3> TAKE i \in 0..(c - 1)
    <3>1. PICK o \in 0..(c - 1) : Slot(start, o, c) = i
      BY <1>1, ProbeCovers
    <3>2. ~Stops(o) /\ At(o) = i
      BY <1>3, <1>4, <3>1
    <3> QED BY <3>2
  <2> QED BY <1>2, <1>4, <2>1 DEF r
<1>5. CASE stops # {}
  <2>1. stops \subseteq Nat
    BY <1>1
  <2>2. \E o \in stops : \A p \in stops : o <= p
    <3> HIDE DEF stops
    <3> QED BY <1>5, <2>1, LeastNat
  <2>3. first \in stops /\ \A p \in stops : first <= p
    <3> HIDE DEF stops
    <3> QED BY <2>2
  <2> DEFINE i == At(first)
  <2>4. first \in 0..(c - 1) /\ Stops(first)
    BY <2>3
  <2>5. r = [result |-> IF table[i].node = NULL THEN "empty" ELSE "found", index |-> i]
    BY <1>2, <1>5
  <2>6. \A p \in 0..(first - 1) : p \in 0..(c - 1) /\ ~Stops(p)
    <3>1. first \in 0..(c - 1) /\ \A o \in stops : first <= o
      BY <2>3, <2>4, Zenon
    <3> HIDE DEF first
    <3> TAKE p \in 0..(first - 1)
    <3>2. p \in 0..(c - 1) /\ ~(first <= p)
      BY <1>1, <3>1
    <3>3. p \notin stops
      BY <3>1, <3>2
    <3> QED BY <3>2, <3>3, Zenon
  <2> HIDE DEF first, stops
  <2>7. i \in 0..(c - 1) /\ (table[i].node = NULL \/ i \in holders)
    BY <1>3, <2>4
  <2>8. PathTo(table, c, start, i)
    BY <1>3, <2>4, <2>6 DEF PathTo
  <2>9. CASE table[i].node # NULL
    <3>1. r = [result |-> "found", index |-> i] /\ i \in holders
      BY <2>5, <2>7, <2>9
    <3> HIDE DEF i
    <3> QED BY <2>7, <2>9, <3>1 DEF r
  <2>10. CASE table[i].node = NULL
    <3>1. ASSUME NEW h \in holders \intersect Occupied(table), PathTo(table, c, start, h) PROVE FALSE
      <4>1. PICK o \in 0..(c - 1) : /\ Slot(start, o, c) = h
                                    /\ \A p \in 0..(o - 1) : table[Slot(start, p, c)].node # NULL
        BY <3>1 DEF PathTo
      <4>2. Stops(o) /\ table[h].node # NULL /\ At(o) = h
        BY <1>3, <4>1 DEF Occupied
      <4>3. ~(o < first)
        BY <1>1, <2>4, <2>6, <4>1, <4>2
      <4>4. ~(first < o)
        <5>1. first < o => first \in 0..(o - 1)
          BY <1>1, <2>4, <4>1
        <5> QED BY <1>3, <2>4, <2>10, <4>1, <5>1
      <4>5. o = first
        BY <1>1, <2>4, <4>1, <4>3, <4>4
      <4> QED BY <2>10, <4>2, <4>5
    <3>2. r = [result |-> "empty", index |-> i]
      BY <2>5, <2>10
    <3> HIDE DEF i
    <3> QED BY <2>7, <2>8, <2>10, <3>1, <3>2 DEF r
  <2> QED BY <2>9, <2>10
<1> QED BY <1>4, <1>5

-----------------------------------------------------------------------------
\* Sound tables: every entry is reached by the probe for its key, and no key has two.

Distinct(table, key) ==
  \A i, j \in Occupied(table) : key[table[i].node] = key[table[j].node] => i = j

Reached(table, c, key, start) ==
  \A i \in Occupied(table) : PathTo(table, c, start[key[table[i].node]], i)

KeyHolders(table, key, k) == {i \in Occupied(table) : key[table[i].node] = k}

\* A key that is stored is found where it is.
LEMMA LocateStored ==
  ASSUME NEW table, NEW c, IsTable(table, c), NEW key, NEW k, NEW start \in Nat,
         NEW i \in KeyHolders(table, key, k), PathTo(table, c, start, i), Distinct(table, key)
  PROVE  Locate(table, start, KeyHolders(table, key, k)) = [result |-> "found", index |-> i]
<1> DEFINE holders == KeyHolders(table, key, k)
<1>1. holders = {i} /\ i \in Occupied(table)
  BY DEF KeyHolders, Distinct
<1>2. i \in 0..(c - 1) /\ table[i].node # NULL
  BY <1>1, TableFacts DEF Occupied
<1> HIDE DEF holders
<1>3. i \in holders \intersect Occupied(table)
  BY <1>1
<1> QED BY <1>1, <1>2, <1>3, LocateFacts DEF holders

\* A key that is not stored is not found; the probe ends at a free slot if there is one.
LEMMA LocateAbsent ==
  ASSUME NEW table, NEW c, IsTable(table, c), NEW start \in Nat
  PROVE  /\ \/ Locate(table, start, {}) = [result |-> "full", index |-> 0]
            \/ \E i \in 0..(c - 1) :
                 /\ Locate(table, start, {}) = [result |-> "empty", index |-> i]
                 /\ PathTo(table, c, start, i) /\ table[i].node = NULL
         /\ Cardinality(Occupied(table)) < c =>
               Locate(table, start, {}) # [result |-> "full", index |-> 0]
<1>1. /\ c \in Nat \ {0}
      /\ Cardinality(Occupied(table)) < c => \E i \in 0..(c - 1) : table[i].node = NULL
  BY TableFacts
<1> DEFINE none == {}
<1>2. none = {}
  OBVIOUS
<1> HIDE DEF none
<1>3. \/ /\ Locate(table, start, none) = [result |-> "full", index |-> 0]
         /\ \A i \in 0..(c - 1) : table[i].node # NULL /\ i \notin none
      \/ \E i \in 0..(c - 1) :
           /\ PathTo(table, c, start, i) /\ table[i].node = NULL
           /\ Locate(table, start, none) = [result |-> "empty", index |-> i]
      \/ \E i \in 0..(c - 1) :
           /\ i \in none /\ table[i].node # NULL
           /\ Locate(table, start, none) = [result |-> "found", index |-> i]
  BY LocateFacts
<1>4. [result |-> "full", index |-> 0] # [result |-> "empty", index |-> 0]
  OBVIOUS
<1>5. \A i : [result |-> "full", index |-> 0] # [result |-> "empty", index |-> i]
  <2> TAKE i
  <2>1. [result |-> "full", index |-> 0].result # [result |-> "empty", index |-> i].result
    OBVIOUS
  <2> QED BY <2>1
<1> QED BY <1>1, <1>2, <1>3, <1>5

Entered(table, i, slot) == [table EXCEPT ![i] = slot]

\* An entry with a new key put where the probe for it ends.
LEMMA PutFacts ==
  ASSUME NEW table, NEW c, IsTable(table, c), NEW i \in 0..(c - 1), table[i].node = NULL,
         NEW slot, slot.node # NULL
  PROVE  LET new == Entered(table, i, slot)
         IN  /\ IsTable(new, c) /\ new[i] = slot
             /\ \A j \in 0..(c - 1) : j # i => new[j] = table[j]
             /\ i \notin Occupied(table) /\ Occupied(new) = Occupied(table) \union {i}
             /\ NodesIn(new) = NodesIn(table) \union {slot.node}
             /\ Cardinality(Occupied(new)) = Cardinality(Occupied(table)) + 1
             /\ \A s \in Nat : \A j \in 0..(c - 1) : PathTo(table, c, s, j) => PathTo(new, c, s, j)
<1> DEFINE new == Entered(table, i, slot)
<1>1. c \in Nat \ {0} /\ DOMAIN table = 0..(c - 1)
  BY TableFacts
<1>2. DOMAIN new = 0..(c - 1) /\ new[i] = slot /\ \A j \in 0..(c - 1) : j # i => new[j] = table[j]
  BY <1>1 DEF Entered
<1>3. IsTable(new, c)
  BY <1>1, <1>2 DEF IsTable, Entered
<1> HIDE DEF new
<1>4. i \notin Occupied(table) /\ Occupied(new) = Occupied(table) \union {i}
  BY <1>1, <1>2 DEF Occupied
<1>5. NodesIn(new) = NodesIn(table) \union {slot.node}
  <2>1. \A j \in Occupied(table) : new[j] = table[j]
    BY <1>1, <1>2, <1>4 DEF Occupied
  <2> QED BY <1>2, <1>4, <2>1 DEF NodesIn
<1>6. Cardinality(Occupied(new)) = Cardinality(Occupied(table)) + 1
  BY <1>4, TableFacts, FS_AddElement
<1>7. \A j \in 0..(c - 1) : table[j].node # NULL => new[j].node # NULL
  BY <1>2
<1>8. ASSUME NEW s \in Nat, NEW j \in 0..(c - 1), PathTo(table, c, s, j) PROVE PathTo(new, c, s, j)
  <2>1. PICK o \in 0..(c - 1) : /\ Slot(s, o, c) = j
                                /\ \A p \in 0..(o - 1) : table[Slot(s, p, c)].node # NULL
    BY <1>8 DEF PathTo
  <2>2. \A p \in 0..(o - 1) : Slot(s, p, c) \in 0..(c - 1)
    <3>1. c \in Nat \ {0}
      BY <1>1
    <3>2. \A p \in Nat : Slot(s, p, c) \in 0..(c - 1)
      BY <3>1, ProbeCovers
    <3> QED BY <3>2
  <2>3. \A p \in 0..(o - 1) : new[Slot(s, p, c)].node # NULL
    BY <1>7, <2>1, <2>2
  <2> QED BY <2>1, <2>3 DEF PathTo
<1> QED BY <1>2, <1>3, <1>4, <1>5, <1>6, <1>8 DEF new

\* An entry put at the empty slot its probe ends at is found there, and so are the others.
LEMMA PutSound ==
  ASSUME NEW table, NEW c, IsTable(table, c), NEW i \in 0..(c - 1), table[i].node = NULL,
         NEW slot, slot.node # NULL, NEW key, NEW start, NEW k, NEW old,
         Distinct(table, old), Reached(table, c, old, start),
         \A j \in Occupied(table) : key[table[j].node] = old[table[j].node],
         \A j \in Occupied(table) : start[old[table[j].node]] \in Nat,
         key[slot.node] = k, KeyHolders(table, old, k) = {}, start[k] \in Nat,
         PathTo(table, c, start[k], i)
  PROVE  LET new == Entered(table, i, slot)
         IN  Distinct(new, key) /\ Reached(new, c, key, start)
<1> DEFINE new == Entered(table, i, slot)
<1>1. /\ new[i] = slot
      /\ \A j \in 0..(c - 1) : j # i => new[j] = table[j]
      /\ i \notin Occupied(table) /\ Occupied(new) = Occupied(table) \union {i}
      /\ \A s \in Nat : \A j \in 0..(c - 1) : PathTo(table, c, s, j) => PathTo(new, c, s, j)
  BY PutFacts
<1>2. Occupied(table) \subseteq 0..(c - 1)
  BY TableFacts DEF Occupied
<1> HIDE DEF new
<1>3. \A j \in Occupied(table) : new[j] = table[j] /\ key[new[j].node] = old[table[j].node]
  BY <1>1, <1>2
<1>4. \A j \in Occupied(table) : key[new[j].node] # key[new[i].node]
  BY <1>1, <1>3 DEF KeyHolders
<1>5. Distinct(new, key)
  BY <1>1, <1>3, <1>4 DEF Distinct
<1>6. Reached(new, c, key, start)
  <2>1. ASSUME NEW j \in Occupied(table) PROVE PathTo(new, c, start[key[new[j].node]], j)
    <3>1. PathTo(table, c, start[old[table[j].node]], j) /\ start[old[table[j].node]] \in Nat
      BY DEF Reached
    <3> QED BY <1>1, <1>2, <1>3, <3>1
  <2>2. PathTo(new, c, start[key[new[i].node]], i)
    BY <1>1
  <2> QED BY <1>1, <2>1, <2>2 DEF Reached
<1> QED BY <1>5, <1>6 DEF new

-----------------------------------------------------------------------------
\* Rehashing.

\* What a table holds after the entries before slot n of another were put into it.
Moved(table, n, new, c, key, start) ==
  /\ IsTable(new, c) /\ Distinct(new, key) /\ Reached(new, c, key, start)
  /\ \A i \in Occupied(new) : \E j \in Occupied(table) : j < n /\ new[i] = table[j]
  /\ \A j \in Occupied(table) : j < n => \E i \in Occupied(new) : new[i] = table[j]
  /\ Cardinality(Occupied(new)) = Cardinality({j \in Occupied(table) : j < n})

\* An empty table is one.
LEMMA EmptyTableFacts ==
  ASSUME NEW c \in Nat \ {0}
  PROVE  IsTable(EmptyTable(c), c) /\ Occupied(EmptyTable(c)) = {}
BY DEF IsTable, EmptyTable, EmptySlot, Occupied, NULL

\* The slots of a table, seen as a list.
LEMMA ListFacts ==
  ASSUME NEW table, NEW m \in Nat, DOMAIN table = 0..(m - 1)
  PROVE  /\ Occupied(table) \subseteq 0..(m - 1)
         /\ IsFiniteSet(Occupied(table)) /\ Cardinality(Occupied(table)) \in Nat
         /\ Capacity(table) = m
<1>1. IsFiniteSet(0..(m - 1)) /\ Cardinality(0..(m - 1)) = m
  <2>1. 0 \in Int /\ m - 1 \in Int
    OBVIOUS
  <2>2. /\ Cardinality(0..(m - 1)) = IF 0 > m - 1 THEN 0 ELSE (m - 1) - 0 + 1
        /\ IsFiniteSet(0..(m - 1))
    BY <2>1, FS_Interval
  <2> QED BY <2>2
<1>2. Occupied(table) \subseteq 0..(m - 1)
  BY DEF Occupied
<1> QED BY <1>1, <1>2, FS_Subset, FS_CardinalityType DEF Capacity

\* One more entry.
LEMMA ReinsertFacts ==
  ASSUME NEW table, NEW m \in Nat, DOMAIN table = 0..(m - 1), NEW n \in 0..(m - 1), NEW new, NEW c,
         NEW key, NEW start, Distinct(table, key),
         \A j \in Occupied(table) : start[key[table[j].node]] \in Nat,
         Cardinality(Occupied(table)) < c,
         Moved(table, n, new, c, key, start)
  PROVE  Moved(table, n + 1, Reinsert(new, table[n], key, start), c, key, start)
<1> DEFINE slot == table[n]
           k == key[slot.node]
           holders == {i \in Occupied(new) : new[i].mark = slot.mark /\ key[new[i].node] = key[slot.node]}
           Before(i) == {j \in Occupied(table) : j < i}
<1>1. /\ m \in Nat /\ DOMAIN table = 0..(m - 1) /\ IsFiniteSet(Occupied(table))
      /\ Occupied(table) \subseteq 0..(m - 1) /\ Cardinality(Occupied(table)) \in Nat
  BY ListFacts
<1>2. /\ c \in Nat \ {0} /\ new # NULL /\ Occupied(new) \subseteq 0..(c - 1)
      /\ Cardinality(Occupied(new)) \in Nat
  BY TableFacts DEF Moved, Occupied
<1>3. CASE slot.node = NULL
  <2>1. Reinsert(new, slot, key, start) = new
    BY <1>3 DEF Reinsert
  <2>2. Before(n + 1) = Before(n)
    BY <1>1, <1>3 DEF Occupied
  <2>3. \A j \in Occupied(table) : j < n + 1 <=> j < n
    BY <2>2
  <2> HIDE DEF slot, k, holders
  <2>4. Moved(table, n + 1, new, c, key, start)
    BY <2>2, <2>3 DEF Moved
  <2> QED BY <2>1, <2>4 DEF slot
<1>4. CASE slot.node # NULL
  <2>1. n \in Occupied(table)
    BY <1>1, <1>4 DEF Occupied
  <2>2. KeyHolders(new, key, k) = {}
    <3> SUFFICES ASSUME NEW i \in Occupied(new), key[new[i].node] = k PROVE FALSE
      BY DEF KeyHolders
    <3>1. PICK j \in Occupied(table) : j < n /\ new[i] = table[j]
      BY DEF Moved
    <3>2. j = n
      BY <2>1, <3>1 DEF Distinct
    <3> QED BY <1>1, <3>1, <3>2
  <2>3. holders = {}
    BY <2>2 DEF KeyHolders
  <2>4. start[k] \in Nat
    BY <2>1
  <2>5. Cardinality(Occupied(new)) < c
    <3>1. Before(n) \subseteq Occupied(table) /\ n \notin Before(n)
      BY <1>1
    <3>2. Cardinality(Before(n)) <= Cardinality(Occupied(table)) /\ Cardinality(Before(n)) \in Nat
      BY <1>1, <3>1, FS_Subset, FS_CardinalityType
    <3> QED BY <1>1, <1>2, <3>2 DEF Moved
  <2> DEFINE r == Locate(new, start[k], {})
  <2>6. \/ r = [result |-> "full", index |-> 0]
        \/ \E i \in 0..(c - 1) : /\ r = [result |-> "empty", index |-> i]
                                 /\ PathTo(new, c, start[k], i) /\ new[i].node = NULL
    BY <2>4, LocateAbsent DEF Moved
  <2>7. r # [result |-> "full", index |-> 0]
    BY <2>4, <2>5, LocateAbsent DEF Moved
  <2>8. PICK i \in 0..(c - 1) : /\ r = [result |-> "empty", index |-> i]
                                /\ PathTo(new, c, start[k], i) /\ new[i].node = NULL
    BY <2>6, <2>7
  <2> DEFINE next == Entered(new, i, slot)
  <2>9. Reinsert(new, slot, key, start) = next
    <3>1. Locate(new, start[key[slot.node]], holders) = r
      BY <2>3
    <3> HIDE DEF holders, r
    <3>2. r.result = "empty" /\ r.index = i
      BY <2>8
    <3>3. Reinsert(new, slot, key, start)
            = IF new = NULL \/ slot.node = NULL THEN new
              ELSE IF Locate(new, start[key[slot.node]], holders).result = "empty"
              THEN [new EXCEPT ![Locate(new, start[key[slot.node]], holders).index] = slot]
              ELSE NULL
      BY DEF Reinsert, holders
    <3> QED BY <1>2, <1>4, <3>1, <3>2, <3>3 DEF Entered
  <2> HIDE DEF r, holders
  <2>10. /\ IsTable(next, c) /\ next[i] = slot
         /\ \A j \in 0..(c - 1) : j # i => next[j] = new[j]
         /\ i \notin Occupied(new) /\ Occupied(next) = Occupied(new) \union {i}
         /\ Cardinality(Occupied(next)) = Cardinality(Occupied(new)) + 1
    <3>1. IsTable(new, c)
      BY DEF Moved
    <3>2. new[i].node = NULL
      BY <2>8
    <3> HIDE DEF slot
    <3> QED BY <1>4, <3>1, <3>2, PutFacts
  <2>11. Distinct(next, key) /\ Reached(next, c, key, start)
    <3>1. IsTable(new, c) /\ Distinct(new, key) /\ Reached(new, c, key, start)
      BY DEF Moved
    <3>2. \A j \in Occupied(new) : start[key[new[j].node]] \in Nat
      BY DEF Moved
    <3>3. new[i].node = NULL /\ PathTo(new, c, start[k], i)
      BY <2>8
    <3>4. key[slot.node] = k
      OBVIOUS
    <3> HIDE DEF slot, k
    <3> QED BY <1>4, <2>2, <2>4, <3>1, <3>2, <3>3, <3>4, PutSound
  <2> HIDE DEF next
  <2>12. Before(n + 1) = Before(n) \union {n} /\ n \notin Before(n)
    BY <1>1, <2>1
  <2>13. Cardinality(Before(n + 1)) = Cardinality(Before(n)) + 1
    <3>1. IsFiniteSet(Before(n))
      BY <1>1, FS_Subset
    <3> HIDE DEF Before
    <3> QED BY <2>12, <3>1, FS_AddElement
  <2>14. Cardinality(Occupied(next)) = Cardinality(Before(n + 1))
    BY <2>10, <2>13 DEF Moved
  <2>15. \A j \in Occupied(new) : j \in 0..(c - 1) /\ j # i /\ next[j] = new[j]
    BY <1>2, <2>10
  <2>16. ASSUME NEW a \in Occupied(next)
         PROVE  \E j \in Occupied(table) : j < n + 1 /\ next[a] = table[j]
    <3>1. CASE a = i
      BY <1>1, <2>1, <2>10, <3>1
    <3>2. CASE a # i
      <4>1. a \in Occupied(new) /\ next[a] = new[a]
        BY <2>10, <2>15, <3>2
      <4>2. PICK j \in Occupied(table) : j < n /\ new[a] = table[j]
        BY <4>1 DEF Moved
      <4> QED BY <1>1, <4>1, <4>2
    <3> QED BY <3>1, <3>2
  <2>17. ASSUME NEW j \in Occupied(table), j < n + 1 PROVE \E a \in Occupied(next) : next[a] = table[j]
    <3>1. CASE j = n
      BY <2>10, <3>1
    <3>2. CASE j # n
      <4>1. j < n
        BY <1>1, <2>17, <3>2
      <4>2. PICK a \in Occupied(new) : new[a] = table[j]
        BY <4>1 DEF Moved
      <4> QED BY <2>10, <2>15, <4>2
    <3> QED BY <3>1, <3>2
  <2>18. Moved(table, n + 1, next, c, key, start)
    BY <2>10, <2>11, <2>14, <2>16, <2>17 DEF Moved
  <2> QED BY <2>9, <2>18
<1> QED BY <1>3, <1>4

Tables(table, c) == [0..(c - 1) -> {EmptySlot} \union {table[i] : i \in DOMAIN table}] \union {NULL}

\* A reinsertion gives a table of entries of the old one, or NULL.
LEMMA ReinsertType ==
  ASSUME NEW table, NEW c, NEW new \in Tables(table, c), NEW i \in DOMAIN table, NEW key, NEW start
  PROVE  Reinsert(new, table[i], key, start) \in Tables(table, c)
<1>1. \/ Reinsert(new, table[i], key, start) \in {new, NULL}
      \/ new # NULL /\ \E p : Reinsert(new, table[i], key, start) = [new EXCEPT ![p] = table[i]]
  BY Zenon DEF Reinsert
<1>2. CASE Reinsert(new, table[i], key, start) \in {new, NULL}
  BY <1>2 DEF Tables
<1>3. ASSUME new # NULL, NEW p PROVE [new EXCEPT ![p] = table[i]] \in Tables(table, c)
  <2> DEFINE Q == {EmptySlot} \union {table[j] : j \in DOMAIN table}
  <2>1. new \in [0..(c - 1) -> Q]
    BY <1>3 DEF Tables
  <2>2. table[i] \in Q
    OBVIOUS
  <2> HIDE DEF Q
  <2>3. [new EXCEPT ![p] = table[i]] \in [0..(c - 1) -> Q]
    BY <2>1, <2>2
  <2> QED BY <2>3 DEF Tables, Q
<1> QED BY <1>1, <1>2, <1>3

\* A rehash into a larger table loses nothing, adds nothing and leaves every entry where
\* its probe finds it.
THEOREM RehashKeepsEntries ==
  ASSUME NEW table, NEW m \in Nat, DOMAIN table = 0..(m - 1), NEW c \in Nat \ {0},
         NEW key, NEW start, Distinct(table, key),
         \A j \in Occupied(table) : start[key[table[j].node]] \in Nat,
         Cardinality(Occupied(table)) < c
  PROVE  LET new == Rehash(table, c, key, start)
         IN  /\ IsTable(new, c) /\ Distinct(new, key) /\ Reached(new, c, key, start)
             /\ NodesIn(new) = NodesIn(table)
             /\ \A i \in Occupied(new) : \E j \in Occupied(table) : new[i] = table[j]
             /\ Cardinality(Occupied(new)) = Cardinality(Occupied(table))
<1> DEFINE S == Tables(table, c)
           first == EmptyTable(c)
           F(g) == [i \in 0..m |-> IF i = 0 THEN first
                                  ELSE TheOnly({Reinsert(new, table[i - 1], key, start) :
                                                  new \in {g[i - 1]}})]
           step == [i \in Nat |-> [x \in S |-> IF i \in 1..m THEN Reinsert(x, table[i - 1], key, start)
                                             ELSE x]]
           after == CHOOSE g : g = F(g)
           new == Rehash(table, c, key, start)
<1>1. /\ Occupied(table) \subseteq 0..(m - 1) /\ IsFiniteSet(Occupied(table))
      /\ Cardinality(Occupied(table)) \in Nat /\ Capacity(table) = m
  BY ListFacts
<1>2. new = after[m]
  <2> HIDE DEF first
  <2> QED BY <1>1, Zenon DEF Rehash, first
<1>3. \A x : TheOnly({x}) = x
  BY DEF TheOnly
<1>4. \A i \in 1..m : \A x \in S : Reinsert(x, table[i - 1], key, start) \in S
  <2> TAKE i \in 1..m
  <2>1. i - 1 \in DOMAIN table
    OBVIOUS
  <2> QED BY <2>1, ReinsertType
<1>5. first \in S
  BY DEF Tables, EmptyTable
<1> HIDE DEF S, first
<1>6. step \in [Nat -> [S -> S]]
  BY <1>4
<1>7. \A i \in 1..m, x \in S : step[i][x] = Reinsert(x, table[i - 1], key, start)
  OBVIOUS
<1> HIDE DEF step
<1>8. HasSteps(S, first, step, m)
  BY <1>5, <1>6, StepFunction
<1>9. PICK g \in [0..m -> S] : g[0] = first /\ \A i \in 1..m : g[i] = step[i][g[i - 1]]
  BY <1>8 DEF HasSteps
<1>10. \A i \in 1..m : g[i] = Reinsert(g[i - 1], table[i - 1], key, start)
  <2> TAKE i \in 1..m
  <2>1. g[i - 1] \in S
    BY <1>9
  <2> QED BY <1>7, <1>9, <2>1
<1>11. \A h, i : TheOnly({Reinsert(x, table[i - 1], key, start) : x \in {h}})
                    = Reinsert(h, table[i - 1], key, start)
  <2> TAKE h, i
  <2>1. {Reinsert(x, table[i - 1], key, start) : x \in {h}} = {Reinsert(h, table[i - 1], key, start)}
    OBVIOUS
  <2> QED BY <1>3, <2>1
<1>12. \A h : F(h) = [i \in 0..m |-> IF i = 0 THEN first
                                    ELSE Reinsert(h[i - 1], table[i - 1], key, start)]
  BY <1>11
<1> HIDE DEF F
<1>13. g = F(g)
  <2>1. \A i \in 0..m : g[i] = IF i = 0 THEN first ELSE Reinsert(g[i - 1], table[i - 1], key, start)
    <3> TAKE i \in 0..m
    <3>1. i = 0 \/ i \in 1..m
      OBVIOUS
    <3> QED BY <1>9, <1>10, <3>1
  <2>2. g = [i \in 0..m |-> g[i]]
    BY <1>9
  <2>3. [i \in 0..m |-> g[i]] = [i \in 0..m |-> IF i = 0 THEN first
                                    ELSE Reinsert(g[i - 1], table[i - 1], key, start)]
    BY <2>1, Zenon
  <2>4. F(g) = [i \in 0..m |-> IF i = 0 THEN first
                              ELSE Reinsert(g[i - 1], table[i - 1], key, start)]
    BY <1>12, Zenon
  <2> QED BY <2>2, <2>3, <2>4, Zenon
<1>14. after = F(after)
  BY <1>13
<1> HIDE DEF after
<1>15. after[0] = first
  BY <1>12, <1>14
<1>16. \A i \in 1..m : after[i] = Reinsert(after[i - 1], table[i - 1], key, start)
  BY <1>12, <1>14
<1> DEFINE T == {n \in 0..m : Moved(table, n, after[n], c, key, start)}
<1>17. 0 \in T
  <2>1. IsTable(first, c) /\ Occupied(first) = {}
    BY EmptyTableFacts DEF first
  <2>2. {j \in Occupied(table) : j < 0} = {}
    BY <1>1
  <2>3. Distinct(first, key) /\ Reached(first, c, key, start)
    BY <2>1 DEF Distinct, Reached
  <2>4. Moved(table, 0, first, c, key, start)
    BY <1>1, <2>1, <2>2, <2>3 DEF Moved
  <2> QED BY <1>15, <2>4
<1>18. ASSUME NEW n \in 0..(m - 1), n \in T PROVE n + 1 \in T
  <2>1. n + 1 \in 1..m /\ n + 1 \in 0..m /\ (n + 1) - 1 = n
    OBVIOUS
  <2>2. after[n + 1] = Reinsert(after[n], table[n], key, start)
    BY <1>16, <2>1
  <2>3. Moved(table, n, after[n], c, key, start)
    BY <1>18
  <2>4. Moved(table, n + 1, Reinsert(after[n], table[n], key, start), c, key, start)
    BY <2>3, ReinsertFacts
  <2> QED BY <2>1, <2>2, <2>4
<1>19. Moved(table, m, after[m], c, key, start)
  <2>1. m \in 0..m
    OBVIOUS
  <2>2. \A n \in 0..m : n \in T
    <3> HIDE DEF T
    <3> QED BY <1>17, <1>18, BoundedInduction
  <2> QED BY <2>1, <2>2
<1>20. {j \in Occupied(table) : j < m} = Occupied(table)
  BY <1>1
<1> HIDE DEF new
<1>21. /\ IsTable(new, c) /\ Distinct(new, key) /\ Reached(new, c, key, start)
       /\ \A i \in Occupied(new) : \E j \in Occupied(table) : new[i] = table[j]
       /\ \A j \in Occupied(table) : \E i \in Occupied(new) : new[i] = table[j]
       /\ Cardinality(Occupied(new)) = Cardinality(Occupied(table))
  BY <1>2, <1>19, <1>20 DEF Moved
<1>22. NodesIn(new) = NodesIn(table)
  BY <1>21 DEF NodesIn
<1> QED BY <1>21, <1>22 DEF new

-----------------------------------------------------------------------------
\* Where a probe starts.

\* Probes start at a natural number.
LEMMA StartFacts ==
  ASSUME NEW c \in PowersOfTwo
  PROVE  \A k \in Keys : StoreStart(k, c) \in Nat
<1> SUFFICES ASSUME NEW k \in Keys PROVE StoreStart(k, c) \in Nat
  OBVIOUS
<1>1. c \in Nat \ {0} /\ c <= HashValues
  BY CapacityFacts
<1>2. HashValues \in Nat \ {0} /\ k \in Nat /\ HashMultiplier \in Nat
  BY StoreTableAssumption, Pow2Facts DEF HashValues
<1>3. k * HashMultiplier \in Nat
  BY <1>2
<1>4. disperse(k) \in Nat
  BY <1>2, <1>3 DEF disperse
<1>5. HashValues \div c \in Nat \ {0}
  BY <1>1, <1>2
<1>6. \A x \in Nat, y \in Nat \ {0} : x \div y \in Nat
  OBVIOUS
<1> QED BY <1>4, <1>5, <1>6 DEF StoreStart, initial_index

=============================================================================
