---------------------------- MODULE SessionProofs ---------------------------
(***************************************************************************)
(* Proofs about the runs of the program on one directory and the files     *)
(* they write and read, for any game, any set of invocations and paths,    *)
(* and checkpoints with and without a frame.                               *)
(*                                                                         *)
(* First the operators of the format: what is written (Payload), that it   *)
(* is read back (ReadPayload), and that the program refuses or rightly     *)
(* understands a file that somebody damaged.  Then the inductive invariant *)
(* SessionInv, which actions change what, one lemma for each part of the   *)
(* invariant, and the theorems.                                            *)
(***************************************************************************)
EXTENDS Session, TLAPS, WellFoundedInduction, FiniteSetTheorems

-----------------------------------------------------------------------------
\* Induction over the naturals in terms of sets: a set takes the place of a predicate.

\* A nonempty set of naturals has a least element.
LEMMA LeastNat ==
  ASSUME NEW T, T \subseteq Nat, T # {}
  PROVE  \E x \in T : \A y \in T : x <= y
<1> DEFINE R == {ss \in Nat \X Nat : ss[1] < ss[2]}
<1>1. IsWellFoundedOn(R, Nat)
  BY NatLessThanWellFounded DEF OpToRel
<1>2. PICK x \in T : \A y \in T : ~(<<y, x>> \in R)
  BY <1>1, WFMin, Zenon
<1>3. ASSUME NEW y \in T PROVE x <= y
  <2>1. x \in Nat /\ y \in Nat
    OBVIOUS
  <2>2. ~(y < x)
    BY <1>2, <2>1
  <2> QED BY <2>1, <2>2
<1> QED BY <1>3

\* A set of naturals with 0 and with the successor of each of its elements is all of them.
LEMMA SetInduction ==
  ASSUME NEW T, T \subseteq Nat, 0 \in T, \A n \in T : n + 1 \in T
  PROVE  T = Nat
<1> SUFFICES ASSUME T # Nat PROVE FALSE
  OBVIOUS
<1> DEFINE U == Nat \ T
<1>1. U \subseteq Nat /\ U # {}
  OBVIOUS
<1> HIDE DEF U
<1>2. PICK x \in U : \A y \in U : x <= y
  BY <1>1, LeastNat
<1>3. x # 0
  BY <1>2 DEF U
<1>4. x - 1 \in T
  BY <1>2, <1>3 DEF U
<1>5. x \in T
  BY <1>2, <1>4 DEF U
<1> QED BY <1>2, <1>5 DEF U

\* The same up to a bound.
LEMMA BoundedInduction ==
  ASSUME NEW n \in Nat, NEW T, 0 \in T, \A i \in 0..(n - 1) : i \in T => i + 1 \in T
  PROVE  \A i \in 0..n : i \in T
<1> DEFINE U == {i \in Nat : i <= n => i \in T}
<1>1. 0 \in U
  OBVIOUS
<1>2. ASSUME NEW i \in U PROVE i + 1 \in U
  OBVIOUS
<1>3. U = Nat
  <2>1. U \subseteq Nat
    OBVIOUS
  <2> HIDE DEF U
  <2> QED BY <1>1, <1>2, <2>1, SetInduction
<1> QED BY <1>3

\* The same from a bound down.
LEMMA DownwardInduction ==
  ASSUME NEW n \in Nat, NEW T, n \in T, \A i \in 1..n : i \in T => i - 1 \in T
  PROVE  \A i \in 0..n : i \in T
<1> DEFINE U == {j \in 0..n : n - j \in T}
<1>1. 0 \in U
  OBVIOUS
<1>2. ASSUME NEW j \in 0..(n - 1), j \in U PROVE j + 1 \in U
  <2>1. n - j \in 1..n /\ n - j \in T /\ (n - j) - 1 = n - (j + 1)
    BY <1>2
  <2>2. n - (j + 1) \in T
    BY <2>1
  <2> QED BY <2>2
<1>3. \A j \in 0..n : j \in U
  <2> HIDE DEF U
  <2> QED BY <1>1, <1>2, BoundedInduction
<1>4. ASSUME NEW i \in 0..n PROVE i \in T
  <2>1. n - i \in 0..n /\ n - (n - i) = i
    OBVIOUS
  <2>2. n - (n - i) \in T
    BY <1>3, <2>1
  <2> QED BY <2>1, <2>2
<1> QED BY <1>4

\* Some function has first at 0, and at each later index a step from the value before.
HasSteps(S, first, step, n) ==
  \E g \in [0..n -> S] : g[0] = first /\ \A i \in 1..n : g[i] = step[i][g[i - 1]]

\* Such a function exists.
LEMMA StepFunction ==
  ASSUME NEW S, NEW first \in S, NEW step \in [Nat -> [S -> S]], NEW n \in Nat
  PROVE  HasSteps(S, first, step, n)
<1> DEFINE Good(g, m) == g[0] = first /\ \A i \in 1..m : g[i] = step[i][g[i - 1]]
           Ok == {m \in Nat : \E g \in [0..m -> S] : Good(g, m)}
<1>1. 0 \in Ok
  <2> DEFINE g == [i \in 0..0 |-> first]
  <2>1. g \in [0..0 -> S]
    OBVIOUS
  <2>2. Good(g, 0)
    OBVIOUS
  <2> HIDE DEF g, Good
  <2>3. \E h \in [0..0 -> S] : Good(h, 0)
    BY <2>1, <2>2
  <2> QED BY <2>3
<1>2. ASSUME NEW m \in Ok PROVE m + 1 \in Ok
  <2>1. PICK g \in [0..m -> S] : Good(g, m)
    OBVIOUS
  <2> DEFINE h == [i \in 0..(m + 1) |-> IF i <= m THEN g[i] ELSE step[m + 1][g[m]]]
  <2>2. h \in [0..(m + 1) -> S]
    BY <2>1
  <2>3. Good(h, m + 1)
    BY <2>1
  <2> HIDE DEF h, Good
  <2>4. \E f \in [0..(m + 1) -> S] : Good(f, m + 1)
    BY <2>2, <2>3
  <2> QED BY <2>4
<1>3. Ok = Nat
  <2>1. Ok \subseteq Nat
    OBVIOUS
  <2> HIDE DEF Ok
  <2> QED BY <1>1, <1>2, <2>1, SetInduction
<1> QED BY <1>3 DEF HasSteps

-----------------------------------------------------------------------------
\* Functions defined by steps: Walk is the value after n steps.

IsWalk(g, first, step, n) == g[0] = first /\ \A i \in 1..n : g[i] = step[i][g[i - 1]]

Walk(S, first, step, n) == (CHOOSE g \in [0..n -> S] : IsWalk(g, first, step, n))[n]

\* What a walk does not depend on anything but its first value and its steps.
LEMMA WalkUnique ==
  ASSUME NEW n \in Nat, NEW first, NEW step, NEW step2, NEW g, NEW h,
         IsWalk(g, first, step, n), IsWalk(h, first, step2, n),
         \A i \in 1..n : step[i] = step2[i]
  PROVE  \A i \in 0..n : g[i] = h[i]
<1> DEFINE T == {i \in 0..n : g[i] = h[i]}
<1>1. 0 \in T
  BY DEF IsWalk
<1>2. ASSUME NEW i \in 0..(n - 1), i \in T PROVE i + 1 \in T
  <2>1. i + 1 \in 1..n /\ (i + 1) - 1 = i /\ g[i] = h[i]
    BY <1>2
  <2>2. g[i + 1] = step[i + 1][g[i]] /\ h[i + 1] = step2[i + 1][h[i]]
    BY <2>1 DEF IsWalk
  <2> QED BY <2>1, <2>2
<1>3. \A i \in 0..n : i \in T
  <2> HIDE DEF T
  <2> QED BY <1>1, <1>2, BoundedInduction
<1> QED BY <1>3

\* There is a walk, and its values are Walk's.
LEMMA WalkOf ==
  ASSUME NEW S, NEW first \in S, NEW step \in [Nat -> [S -> S]], NEW n \in Nat,
         NEW g \in [0..n -> S], IsWalk(g, first, step, n)
  PROVE  Walk(S, first, step, n) = g[n]
<1>1. \E h \in [0..n -> S] : IsWalk(h, first, step, n)
  OBVIOUS
<1> DEFINE h == CHOOSE h \in [0..n -> S] : IsWalk(h, first, step, n)
<1>2. IsWalk(h, first, step, n)
  BY <1>1
<1> HIDE DEF h
<1>3. h[n] = g[n]
  <2>1. n \in 0..n
    OBVIOUS
  <2> QED BY <1>2, <2>1, WalkUnique
<1> QED BY <1>3 DEF Walk, h

\* Walk is the end of a walk, whichever was chosen.
LEMMA WalkThere ==
  ASSUME NEW S, NEW first \in S, NEW step \in [Nat -> [S -> S]], NEW n \in Nat
  PROVE  \E g \in [0..n -> S] : IsWalk(g, first, step, n) /\ Walk(S, first, step, n) = g[n]
<1>1. HasSteps(S, first, step, n)
  BY StepFunction
<1>2. PICK g \in [0..n -> S] : IsWalk(g, first, step, n)
  BY <1>1 DEF HasSteps, IsWalk
<1>3. Walk(S, first, step, n) = g[n]
  BY <1>2, WalkOf
<1> QED BY <1>2, <1>3

\* The equations of Walk.
LEMMA WalkZero ==
  ASSUME NEW S, NEW first \in S, NEW step \in [Nat -> [S -> S]]
  PROVE  Walk(S, first, step, 0) = first
<1>1. PICK n \in Nat : n = 0
  OBVIOUS
<1>2. PICK g \in [0..n -> S] : IsWalk(g, first, step, n) /\ Walk(S, first, step, n) = g[n]
  BY WalkThere
<1> QED BY <1>1, <1>2 DEF IsWalk

\* One step more.
LEMMA WalkNext ==
  ASSUME NEW S, NEW first \in S, NEW step \in [Nat -> [S -> S]], NEW n \in Nat
  PROVE  Walk(S, first, step, n + 1) = step[n + 1][Walk(S, first, step, n)]
<1>1. PICK g \in [0..(n + 1) -> S] :
        IsWalk(g, first, step, n + 1) /\ Walk(S, first, step, n + 1) = g[n + 1]
  BY WalkThere
<1> DEFINE h == [i \in 0..n |-> g[i]]
<1>3. h \in [0..n -> S] /\ h[n] = g[n] /\ IsWalk(h, first, step, n)
  <2>1. h \in [0..n -> S] /\ h[n] = g[n]
    OBVIOUS
  <2>2. h[0] = first
    BY <1>1 DEF IsWalk
  <2>3. ASSUME NEW i \in 1..n PROVE h[i] = step[i][h[i - 1]]
    <3>1. i \in 1..(n + 1) /\ i \in 0..n /\ i - 1 \in 0..n
      OBVIOUS
    <3>2. g[i] = step[i][g[i - 1]]
      BY <1>1, <3>1 DEF IsWalk
    <3> QED BY <3>1, <3>2
  <2> HIDE DEF h
  <2> QED BY <2>1, <2>2, <2>3 DEF IsWalk
<1> HIDE DEF h
<1>4. Walk(S, first, step, n) = g[n]
  BY <1>3, WalkOf
<1>5. g[n + 1] = step[n + 1][g[n]]
  <2>1. n + 1 \in 1..(n + 1) /\ (n + 1) - 1 = n
    OBVIOUS
  <2>2. g[n + 1] = step[n + 1][g[(n + 1) - 1]]
    BY <1>1, <2>1 DEF IsWalk
  <2> QED BY <2>1, <2>2
<1> QED BY <1>1, <1>4, <1>5

\* A walk stays where its steps lead.
LEMMA WalkType ==
  ASSUME NEW S, NEW first \in S, NEW step \in [Nat -> [S -> S]], NEW n \in Nat
  PROVE  Walk(S, first, step, n) \in S
<1>1. PICK g \in [0..n -> S] : IsWalk(g, first, step, n) /\ Walk(S, first, step, n) = g[n]
  BY WalkThere
<1> QED BY <1>1

\* Two walks with the same first steps are at the same place after them.
LEMMA WalkSame ==
  ASSUME NEW S, NEW first \in S, NEW step \in [Nat -> [S -> S]],
         NEW step2 \in [Nat -> [S -> S]], NEW n \in Nat, \A i \in 1..n : step[i] = step2[i]
  PROVE  Walk(S, first, step, n) = Walk(S, first, step2, n)
<1> DEFINE There(st) == \E g \in [0..n -> S] : IsWalk(g, first, st, n) /\ Walk(S, first, st, n) = g[n]
<1>0. \A st \in [Nat -> [S -> S]] : There(st)
  BY WalkThere
<1>4. There(step) /\ There(step2)
  <2> HIDE DEF There
  <2> QED BY <1>0
<1>1. PICK g \in [0..n -> S] : IsWalk(g, first, step, n) /\ Walk(S, first, step, n) = g[n]
  BY <1>4
<1>2. PICK h \in [0..n -> S] : IsWalk(h, first, step2, n) /\ Walk(S, first, step2, n) = h[n]
  BY <1>4
<1>3. g[n] = h[n]
  <2>1. n \in 0..n
    OBVIOUS
  <2> QED BY <1>1, <1>2, <2>1, WalkUnique
<1> QED BY <1>1, <1>2, <1>3

\* Equal steps add up.
LEMMA WalkSum ==
  ASSUME NEW S, NEW first \in S, NEW step \in [Nat -> [S -> S]],
         \A i, j \in Nat : step[i] = step[j], NEW n \in Nat, NEW m \in Nat
  PROVE  Walk(S, Walk(S, first, step, n), step, m) = Walk(S, first, step, n + m)
<1>2. PICK start \in S : start = Walk(S, first, step, n)
  BY WalkType
<1> DEFINE T == {j \in Nat : Walk(S, start, step, j) = Walk(S, first, step, n + j)}
<1>3. 0 \in T
  <2>1. Walk(S, start, step, 0) = start
    BY WalkZero
  <2>2. n + 0 = n
    OBVIOUS
  <2> QED BY <1>2, <2>1, <2>2
<1>4. ASSUME NEW j \in T PROVE j + 1 \in T
  <2>1. Walk(S, start, step, j + 1) = step[j + 1][Walk(S, start, step, j)]
    BY WalkNext
  <2>2. n + j \in Nat /\ (n + j) + 1 = n + (j + 1)
    OBVIOUS
  <2>3. Walk(S, first, step, (n + j) + 1) = step[(n + j) + 1][Walk(S, first, step, n + j)]
    BY <2>2, WalkNext
  <2>4. step[j + 1] = step[(n + j) + 1]
    BY <2>2
  <2>5. Walk(S, start, step, j + 1) = Walk(S, first, step, n + (j + 1))
    BY <2>1, <2>2, <2>3, <2>4
  <2> QED BY <2>5
<1>5. T = Nat
  <2>1. T \subseteq Nat
    OBVIOUS
  <2> HIDE DEF T
  <2> QED BY <1>3, <1>4, <2>1, SetInduction
<1>6. Walk(S, start, step, m) = Walk(S, first, step, n + m)
  BY <1>5
<1> QED BY <1>2, <1>6

-----------------------------------------------------------------------------
\* The recursive operators of the format as walks, and the equations that follow.

Lists(W) == Seq(W)

RowStep(W, rows) ==
  [i \in Nat |-> [w \in Lists(W) |-> IF i \in DOMAIN rows THEN w \o rows[i] ELSE w]]

\* The step that appends a row.
LEMMA RowStepType ==
  ASSUME NEW W, NEW rows \in Seq(Lists(W))
  PROVE  /\ RowStep(W, rows) \in [Nat -> [Lists(W) -> Lists(W)]]
         /\ \A i \in DOMAIN rows, w \in Lists(W) : RowStep(W, rows)[i][w] = w \o rows[i]
<1>1. ASSUME NEW i \in DOMAIN rows, NEW w \in Lists(W) PROVE w \o rows[i] \in Lists(W) /\ i \in Nat
  BY DEF Lists
<1> QED BY <1>1 DEF RowStep

\* Joined appends row after row.
LEMMA JoinedIsWalk ==
  ASSUME NEW W, NEW first \in Lists(W), NEW rows \in Seq(Lists(W)), NEW n \in 0..Len(rows)
  PROVE  Joined(first, rows, n) = Walk(Lists(W), first, RowStep(W, rows), n)
<1> DEFINE Body(f) == [i \in 0..n |-> IF i = 0 THEN first ELSE f[i - 1] \o rows[i]]
           words == CHOOSE words : words = Body(words)
<1>0. n \in Nat /\ 1..n \subseteq DOMAIN rows
  OBVIOUS
<1>9. PICK step \in [Nat -> [Lists(W) -> Lists(W)]] : step = RowStep(W, rows)
  BY RowStepType
<1>10. PICK g \in [0..n -> Lists(W)] : /\ IsWalk(g, first, step, n)
                                      /\ Walk(Lists(W), first, step, n) = g[n]
  BY <1>0, WalkThere, ZenonT(60)
<1>1. /\ IsWalk(g, first, RowStep(W, rows), n)
      /\ Walk(Lists(W), first, RowStep(W, rows), n) = g[n]
  BY <1>9, <1>10
<1>2. \A i \in 1..n : i - 1 \in 0..n /\ g[i - 1] \in Lists(W) /\ g[i] = g[i - 1] \o rows[i]
  <2> SUFFICES ASSUME NEW i \in 1..n
               PROVE  i - 1 \in 0..n /\ g[i - 1] \in Lists(W) /\ g[i] = g[i - 1] \o rows[i]
    OBVIOUS
  <2>1. i - 1 \in 0..n /\ i \in DOMAIN rows /\ g[i - 1] \in Lists(W)
    BY <1>0
  <2>2. g[i] = RowStep(W, rows)[i][g[i - 1]]
    BY <1>1 DEF IsWalk
  <2> QED BY <2>1, <2>2, RowStepType, ZenonT(60)
<1>3. g = Body(g)
  <2>1. g[0] = first
    BY <1>1 DEF IsWalk
  <2>2. ASSUME NEW i \in 0..n PROVE g[i] = Body(g)[i]
    <3>1. CASE i = 0
      BY <2>1, <3>1
    <3>2. CASE i # 0
      <4>1. i \in 1..n
        BY <3>2
      <4>2. g[i] = g[i - 1] \o rows[i]
        BY <1>2, <4>1
      <4> QED BY <3>2, <4>2
    <3> QED BY <3>1, <3>2
  <2>3. DOMAIN Body(g) = 0..n /\ Body(g) = [i \in 0..n |-> Body(g)[i]]
    OBVIOUS
  <2> HIDE DEF Body
  <2> QED BY <2>2, <2>3
<1>4. words = Body(words)
  <2> HIDE DEF Body
  <2> QED BY <1>3
<1>5. Joined(first, rows, n) = words[n]
  BY DEF Joined
<1> HIDE DEF words
<1> DEFINE T == {i \in 0..n : words[i] = g[i]}
<1>6. 0 \in T
  BY <1>0, <1>1, <1>4 DEF IsWalk
<1>7. ASSUME NEW i \in 0..(n - 1), i \in T PROVE i + 1 \in T
  <2>1. i + 1 \in 1..n /\ (i + 1) - 1 = i /\ i + 1 # 0
    BY <1>0
  <2>4. i + 1 \in 0..n
    BY <2>1
  <2>2. words[i + 1] = words[i] \o rows[i + 1]
    <3>1. Body(words)[i + 1] = words[i] \o rows[i + 1]
      BY <2>1, <2>4
    <3> HIDE DEF Body
    <3> QED BY <1>4, <3>1
  <2>3. g[i + 1] = g[i] \o rows[i + 1]
    BY <1>2, <2>1
  <2> QED BY <1>7, <2>2, <2>3, <2>4
<1>8. \A i \in 0..n : i \in T
  <2> HIDE DEF T
  <2> QED BY <1>0, <1>6, <1>7, BoundedInduction
<1> QED BY <1>0, <1>1, <1>5, <1>8

\* No row, and one row more.
LEMMA JoinedZero ==
  ASSUME NEW W, NEW first \in Lists(W), NEW rows \in Seq(Lists(W))
  PROVE  Joined(first, rows, 0) = first
<1>1. PICK step \in [Nat -> [Lists(W) -> Lists(W)]] : step = RowStep(W, rows)
  BY RowStepType
<1>2. Walk(Lists(W), first, step, 0) = first
  BY WalkZero
<1>3. PICK n \in 0..Len(rows) : n = 0
  OBVIOUS
<1>4. Joined(first, rows, n) = Walk(Lists(W), first, step, n)
  BY <1>1, JoinedIsWalk
<1> QED BY <1>2, <1>3, <1>4

LEMMA JoinedNext ==
  ASSUME NEW W, NEW first \in Lists(W), NEW rows \in Seq(Lists(W)), NEW n \in 0..(Len(rows) - 1)
  PROVE  Joined(first, rows, n + 1) = Joined(first, rows, n) \o rows[n + 1]
<1>1. n \in Nat /\ n \in 0..Len(rows) /\ n + 1 \in 0..Len(rows) /\ n + 1 \in DOMAIN rows
  OBVIOUS
<1>2. PICK step \in [Nat -> [Lists(W) -> Lists(W)]] : step = RowStep(W, rows)
  BY RowStepType
<1>3. Walk(Lists(W), first, step, n) \in Lists(W)
  BY <1>1, WalkType
<1>4. Walk(Lists(W), first, step, n + 1) = step[n + 1][Walk(Lists(W), first, step, n)]
  BY <1>1, WalkNext
<1>5. Walk(Lists(W), first, step, n + 1) = Walk(Lists(W), first, step, n) \o rows[n + 1]
  BY <1>1, <1>2, <1>3, <1>4, RowStepType, ZenonT(60)
<1> QED BY <1>1, <1>2, <1>5, JoinedIsWalk

\* What is joined of lists of words is a list of words.
LEMMA JoinedType ==
  ASSUME NEW W, NEW first \in Lists(W), NEW rows \in Seq(Lists(W)), NEW n \in 0..Len(rows)
  PROVE  Joined(first, rows, n) \in Lists(W)
<1>1. n \in Nat
  OBVIOUS
<1>2. PICK step \in [Nat -> [Lists(W) -> Lists(W)]] : step = RowStep(W, rows)
  BY RowStepType
<1>3. Walk(Lists(W), first, step, n) \in Lists(W)
  BY <1>1, WalkType
<1> QED BY <1>2, <1>3, JoinedIsWalk

\* Rows that are added do not change what the ones before them give.
LEMMA JoinedSame ==
  ASSUME NEW W, NEW first \in Lists(W), NEW rows \in Seq(Lists(W)), NEW more \in Seq(Lists(W)),
         NEW n \in 0..Len(rows), n <= Len(more), \A i \in 1..n : rows[i] = more[i]
  PROVE  Joined(first, rows, n) = Joined(first, more, n)
<1>1. n \in Nat /\ n \in 0..Len(more) /\ 1..n \subseteq DOMAIN rows /\ 1..n \subseteq DOMAIN more
  OBVIOUS
<1>2. PICK step \in [Nat -> [Lists(W) -> Lists(W)]] : step = RowStep(W, rows)
  BY RowStepType
<1>3. PICK step2 \in [Nat -> [Lists(W) -> Lists(W)]] : step2 = RowStep(W, more)
  BY RowStepType
<1>4. \A i \in 1..n : step[i] = step2[i]
  <2> SUFFICES ASSUME NEW i \in 1..n PROVE step[i] = step2[i]
    OBVIOUS
  <2>1. i \in Nat /\ i \in DOMAIN rows /\ i \in DOMAIN more /\ rows[i] = more[i]
    BY <1>1
  <2>2. step[i] = [w \in Lists(W) |-> w \o rows[i]]
    BY <1>2, <2>1 DEF RowStep
  <2>3. step2[i] = [w \in Lists(W) |-> w \o more[i]]
    BY <1>3, <2>1 DEF RowStep
  <2> QED BY <2>1, <2>2, <2>3
<1>5. Walk(Lists(W), first, step, n) = Walk(Lists(W), first, step2, n)
  BY <1>1, <1>4, WalkSame, ZenonT(30)
<1> QED BY <1>1, <1>2, <1>3, <1>5, JoinedIsWalk

\* Division with remainder, by the modulus of the checksum.
LEMMA DivMod ==
  \A a, q, r \in Int : (q = a \div 8191 /\ r = a % 8191) => a = 8191 * q + r
OBVIOUS

WordSeq == Seq(Int)

Sums == 0..8190

\* One step of the checksum.
SumOf(c, w) == (c * 31 + w + 1) % 8191

\* A step of the checksum stays below the modulus.
LEMMA SumOfType ==
  ASSUME NEW c \in Sums, NEW w \in Int
  PROVE  SumOf(c, w) \in Sums
<1>1. PICK a \in Int : a = c * 31 + w + 1
  BY DEF Sums
<1>2. a % 8191 \in 0..8190
  OBVIOUS
<1> QED BY <1>1, <1>2 DEF Sums, SumOf

\* It keeps two values apart, and two words that differ by one.
LEMMA StepsApart ==
  ASSUME NEW c \in Sums, NEW d \in Sums, NEW w \in Int, SumOf(c, w) = SumOf(d, w)
  PROVE  c = d
<1>1. PICK a \in Int : a = c * 31 + w + 1
  BY DEF Sums
<1>2. PICK b \in Int : b = d * 31 + w + 1
  BY DEF Sums
<1>3. PICK r \in Int : r = a % 8191
  OBVIOUS
<1>4. r = b % 8191
  BY <1>1, <1>2, <1>3 DEF SumOf
<1>5. PICK p \in Int : p = a \div 8191
  OBVIOUS
<1>6. PICK q \in Int : q = b \div 8191
  OBVIOUS
<1>7. a = 8191 * p + r
  BY <1>3, <1>5, DivMod
<1>8. b = 8191 * q + r
  BY <1>4, <1>6, DivMod
<1>9. PICK k \in Int : k = p - q
  OBVIOUS
<1>10. PICK e \in Int : e = c - d
  BY DEF Sums
<1>11. 31 * e = 8191 * k
  <2>1. 31 * e = a - b
    BY <1>1, <1>2, <1>10 DEF Sums
  <2> QED BY <2>1, <1>7, <1>8, <1>9
<1>12. -8190 <= e /\ e <= 8190
  BY <1>10 DEF Sums
<1>13. e = 0
  \* 31 has no common factor with 8191 = 264 * 31 + 7.
  <2>1. k \in -31..31
    BY <1>11, <1>12
  <2>2. 31 * (e - 264 * k) = 7 * k
    BY <1>11
  <2>3. k = 31 * (9 * (e - 264 * k) - 2 * k)
    BY <2>2
  <2>4. k \in {-31, 0, 31}
    BY <2>1, <2>3
  <2> QED BY <1>11, <1>12, <2>4
<1> QED BY <1>10, <1>13 DEF Sums

\* Words that differ by one are told apart.
LEMMA WordsApart ==
  ASSUME NEW c \in Sums, NEW w \in Int
  PROVE  SumOf(c, w) # SumOf(c, w + 1)
<1>1. PICK a \in Int : a = c * 31 + w + 1
  BY DEF Sums
<1>2. c * 31 + (w + 1) + 1 = a + 1
  BY <1>1 DEF Sums
<1>3. a % 8191 # (a + 1) % 8191
  OBVIOUS
<1> QED BY <1>1, <1>2, <1>3 DEF SumOf

SumStep(words) ==
  [i \in Nat |-> [c \in Sums |-> IF i \in DOMAIN words THEN SumOf(c, words[i]) ELSE c]]

\* The steps that the checksum of a list of words makes.
LEMMA SumStepType ==
  ASSUME NEW words \in WordSeq
  PROVE  /\ SumStep(words) \in [Nat -> [Sums -> Sums]]
         /\ \A i \in DOMAIN words, c \in Sums : SumStep(words)[i][c] = SumOf(c, words[i])
<1>1. ASSUME NEW i \in DOMAIN words, NEW c \in Sums
      PROVE  SumOf(c, words[i]) \in Sums /\ i \in Nat
  <2>1. words[i] \in Int /\ i \in Nat
    BY DEF WordSeq
  <2> QED BY <2>1, SumOfType
<1> QED BY <1>1 DEF SumStep

\* Checksum takes in word after word.
LEMMA ChecksumIsWalk ==
  ASSUME NEW words \in WordSeq
  PROVE  Checksum(words) = Walk(Sums, 1, SumStep(words), Len(words))
<1> DEFINE n == Len(words)
           Body(f) == [i \in 0..n |->
                         IF i = 0 THEN 1 ELSE SumOf(f[i - 1], words[i])]
           after == CHOOSE after : after = Body(after)
<1>0. n \in Nat /\ 1..n = DOMAIN words /\ 1 \in Sums
  BY DEF WordSeq, Sums
<1>5. Checksum(words) = after[n]
  BY DEF Checksum, SumOf
<1> HIDE DEF n
<1>1. PICK g \in [0..n -> Sums] : /\ IsWalk(g, 1, SumStep(words), n)
                                  /\ Walk(Sums, 1, SumStep(words), n) = g[n]
  BY <1>0, SumStepType, WalkThere
<1>2. \A i \in 1..n : g[i] = SumOf(g[i - 1], words[i])
  <2> SUFFICES ASSUME NEW i \in 1..n PROVE g[i] = SumOf(g[i - 1], words[i])
    OBVIOUS
  <2>1. i \in DOMAIN words /\ g[i - 1] \in Sums
    BY <1>0
  <2>2. g[i] = SumStep(words)[i][g[i - 1]]
    BY <1>1 DEF IsWalk
  <2> QED BY <2>1, <2>2, SumStepType
<1>3. g = Body(g)
  <2>1. g[0] = 1
    BY <1>1 DEF IsWalk
  <2>2. \A i \in 0..n : g[i] = Body(g)[i]
    BY <1>2, <2>1
  <2>3. DOMAIN Body(g) = 0..n /\ Body(g) = [i \in 0..n |-> Body(g)[i]]
    OBVIOUS
  <2> HIDE DEF Body
  <2> QED BY <2>2, <2>3
<1>4. after = Body(after)
  <2> HIDE DEF Body
  <2> QED BY <1>3
<1> HIDE DEF after
<1> DEFINE T == {i \in 0..n : after[i] = g[i]}
<1>6. 0 \in T
  BY <1>0, <1>1, <1>4 DEF IsWalk
<1>7. ASSUME NEW i \in 0..(n - 1), i \in T PROVE i + 1 \in T
  <2>1. i + 1 \in 1..n /\ (i + 1) - 1 = i /\ i + 1 # 0
    BY <1>0
  <2>4. i + 1 \in 0..n
    BY <2>1
  <2>2. after[i + 1] = SumOf(after[i], words[i + 1])
    <3>1. Body(after)[i + 1] = SumOf(after[i], words[i + 1])
      BY <2>1, <2>4
    <3> HIDE DEF Body
    <3> QED BY <1>4, <3>1
  <2>3. g[i + 1] = SumOf(g[i], words[i + 1])
    BY <1>2, <2>1
  <2> QED BY <1>7, <2>2, <2>3, <2>4
<1>8. \A i \in 0..n : i \in T
  <2> HIDE DEF T
  <2> QED BY <1>0, <1>6, <1>7, BoundedInduction
<1> QED BY <1>0, <1>1, <1>5, <1>8 DEF n

\* A checksum is below the modulus.
LEMMA ChecksumType ==
  ASSUME NEW words \in WordSeq
  PROVE  Checksum(words) \in Sums
<1>1. 1 \in Sums /\ Len(words) \in Nat
  BY DEF Sums, WordSeq
<1>2. PICK step \in [Nat -> [Sums -> Sums]] : step = SumStep(words)
  BY SumStepType
<1>3. Walk(Sums, 1, step, Len(words)) \in Sums
  BY <1>1, WalkType
<1> QED BY <1>2, <1>3, ChecksumIsWalk

\* Two sequences that differ by one in one word have different checksums.
LEMMA ChecksumDetects ==
  ASSUME NEW words \in WordSeq, NEW i \in DOMAIN words,
         NEW other \in WordSeq, other = [words EXCEPT ![i] = words[i] + 1]
  PROVE  Checksum(words) # Checksum(other)
<1>1. PICK n \in Nat : n = Len(words)
  BY DEF WordSeq
<1>2. /\ Len(other) = n /\ DOMAIN words = 1..n /\ DOMAIN other = 1..n /\ i \in 1..n
      /\ words[i] \in Int /\ other[i] = words[i] + 1
      /\ \A j \in 1..n : words[j] \in Int /\ (j # i => other[j] = words[j])
  BY <1>1 DEF WordSeq
<1>3. 1 \in Sums
  BY DEF Sums
<1> DEFINE There(w) == \E g \in [0..n -> Sums] : /\ IsWalk(g, 1, SumStep(w), n)
                                                   /\ Walk(Sums, 1, SumStep(w), n) = g[n]
<1>11. ASSUME NEW w \in WordSeq PROVE There(w)
  <2>1. PICK step \in [Nat -> [Sums -> Sums]] : step = SumStep(w)
    BY SumStepType
  <2>2. \E g \in [0..n -> Sums] : IsWalk(g, 1, step, n) /\ Walk(Sums, 1, step, n) = g[n]
    BY <1>3, WalkThere, SMTT(30)
  <2> QED BY <2>1, <2>2
<1>12. There(words) /\ There(other)
  <2> HIDE DEF There
  <2> QED BY <1>11
<1>4. PICK g \in [0..n -> Sums] : /\ IsWalk(g, 1, SumStep(words), n)
                                  /\ Walk(Sums, 1, SumStep(words), n) = g[n]
  BY <1>12
<1>5. PICK h \in [0..n -> Sums] : /\ IsWalk(h, 1, SumStep(other), n)
                                  /\ Walk(Sums, 1, SumStep(other), n) = h[n]
  BY <1>12
<1>6. \A j \in 0..(n - 1) : /\ g[j + 1] = SumOf(g[j], words[j + 1])
                            /\ h[j + 1] = SumOf(h[j], other[j + 1])
  <2> SUFFICES ASSUME NEW j \in 0..(n - 1)
               PROVE  /\ g[j + 1] = SumOf(g[j], words[j + 1])
                      /\ h[j + 1] = SumOf(h[j], other[j + 1])
    OBVIOUS
  <2>1. j + 1 \in 1..n /\ (j + 1) - 1 = j /\ j \in 0..n /\ g[j] \in Sums /\ h[j] \in Sums
    OBVIOUS
  <2>2. g[j + 1] = SumStep(words)[j + 1][g[j]]
    BY <1>4, <2>1 DEF IsWalk
  <2>3. h[j + 1] = SumStep(other)[j + 1][h[j]]
    BY <1>5, <2>1 DEF IsWalk
  <2>6. j + 1 \in DOMAIN words /\ j + 1 \in DOMAIN other
    BY <1>2, <2>1
  <2>7. \A w \in WordSeq : \A l \in DOMAIN w, c \in Sums :
          SumStep(w)[l][c] = SumOf(c, w[l])
    BY SumStepType
  <2>4. g[j + 1] = SumOf(g[j], words[j + 1])
    BY <2>1, <2>2, <2>6, <2>7, Zenon
  <2>5. h[j + 1] = SumOf(h[j], other[j + 1])
    BY <2>1, <2>3, <2>6, <2>7, Zenon
  <2> QED BY <2>4, <2>5
<1> DEFINE T == {j \in 0..n : (j < i => g[j] = h[j]) /\ (j >= i => g[j] # h[j])}
<1>7. 0 \in T
  BY <1>2, <1>4, <1>5 DEF IsWalk
<1>8. ASSUME NEW j \in 0..(n - 1), j \in T PROVE j + 1 \in T
  <2>1. j + 1 \in 1..n /\ j + 1 \in 0..n /\ j \in 0..n /\ g[j] \in Sums /\ h[j] \in Sums
    <3>1. j + 1 \in 1..n /\ j + 1 \in 0..n /\ j \in 0..n
      OBVIOUS
    <3>2. g[j] \in Sums /\ h[j] \in Sums
      BY <3>1
    <3> QED BY <3>1, <3>2
  <2>2. CASE j + 1 < i
    <3>1. g[j] = h[j] /\ other[j + 1] = words[j + 1]
      BY <1>2, <1>8, <2>1, <2>2
    <3>2. g[j + 1] = h[j + 1]
      BY <1>6, <3>1
    <3> QED BY <2>1, <2>2, <3>2, <1>2
  <2>3. CASE j + 1 = i
    <3>1. g[j] = h[j] /\ other[j + 1] = words[j + 1] + 1 /\ words[j + 1] \in Int
      BY <1>2, <1>8, <2>1, <2>3
    <3>2. SumOf(g[j], words[j + 1]) # SumOf(g[j], words[j + 1] + 1)
      BY <2>1, <3>1, WordsApart
    <3>3. g[j + 1] # h[j + 1]
      BY <1>6, <3>1, <3>2
    <3> QED BY <2>1, <2>3, <3>3, <1>2
  <2>4. CASE j + 1 > i
    <3>1. g[j] # h[j] /\ other[j + 1] = words[j + 1] /\ words[j + 1] \in Int
      BY <1>2, <1>8, <2>1, <2>4
    <3>2. SumOf(g[j], words[j + 1]) # SumOf(h[j], words[j + 1])
      BY <2>1, <3>1, StepsApart
    <3>3. g[j + 1] # h[j + 1]
      BY <1>6, <3>1, <3>2
    <3> QED BY <2>1, <2>4, <3>3, <1>2
  <2> QED BY <1>2, <2>2, <2>3, <2>4
<1>9. \A j \in 0..n : j \in T
  <2> HIDE DEF T
  <2> QED BY <1>7, <1>8, BoundedInduction
<1>10. g[n] # h[n]
  BY <1>2, <1>9
<1> QED BY <1>1, <1>2, <1>4, <1>5, <1>10, ChecksumIsWalk

-----------------------------------------------------------------------------
\* What trainers and stores are, and what training keeps.

Trainers == {t \in [variant : Variants, rng : Nat, training_iterations : Nat, stats : Seq(Nat)] :
                Len(t.stats) = 4 /\ (t.variant # "MCCFR_EXTERNAL" => t.rng = 0)}

Nodes(k) == {x \in [regret_sums : Seq(Nat), strategy_sums : Seq(Nat)] :
                Len(x.regret_sums) = ActionCount[k] /\ Len(x.strategy_sums) = ActionCount[k]}

Stores == {s \in UNION {[D -> UNION {Nodes(k) : k \in GameKeys}] : D \in SUBSET GameKeys} :
              \A k \in DOMAIN s : s[k] \in Nodes(k)}

ValidStore(t, nodes) == \A k \in DOMAIN nodes : ValidNode(nodes[k], t.variant)

\* How a store is built, and what it consists of.
LEMMA StoresIn ==
  ASSUME NEW D \in SUBSET GameKeys, NEW s, s = [k \in D |-> s[k]],
         \A k \in D : s[k] \in Nodes(k)
  PROVE  s \in Stores
<1>1. s \in [D -> UNION {Nodes(k) : k \in GameKeys}]
  OBVIOUS
<1>2. DOMAIN s = D
  OBVIOUS
<1> QED BY <1>1, <1>2 DEF Stores

LEMMA StoresOut ==
  ASSUME NEW s \in Stores
  PROVE  /\ DOMAIN s \subseteq GameKeys /\ s = [k \in DOMAIN s |-> s[k]]
         /\ \A k \in DOMAIN s : s[k] \in Nodes(k)
         /\ IsFiniteSet(DOMAIN s)
<1>1. PICK D \in SUBSET GameKeys : s \in [D -> UNION {Nodes(k) : k \in GameKeys}]
  BY DEF Stores
<1>2. IsFiniteSet(D)
  BY FS_Subset, SessionAssumption
<1> QED BY <1>1, <1>2 DEF Stores

\* What a node consists of.
LEMMA NodesOut ==
  ASSUME NEW k \in GameKeys, NEW x \in Nodes(k)
  PROVE  /\ x = [regret_sums |-> x.regret_sums, strategy_sums |-> x.strategy_sums]
         /\ x.regret_sums \in Seq(Nat) /\ Len(x.regret_sums) = ActionCount[k]
         /\ x.strategy_sums \in Seq(Nat) /\ Len(x.strategy_sums) = ActionCount[k]
         /\ ActionCount[k] \in 1..MaxLegalActions
BY SessionAssumption DEF Nodes

\* The sums of a node after a visit: naturals without the pattern of an infinity, and
\* strategy sums, and regrets under CFR+, without a sign.
LEMMA VisitedSums ==
  ASSUME NEW x \in Int, NEW minus \in {0, 8}
  PROVE  /\ x % 7 \in Nat /\ (x % 7) + minus \in Nat
         /\ x % 7 < 7 /\ ((x % 7) + minus) % 8 # 7 /\ (x % 7) % 8 # 7
<1>1. PICK r \in 0..6 : r = x % 7
  OBVIOUS
<1>2. r % 8 # 7 /\ (r + minus) % 8 # 7
  OBVIOUS
<1> QED BY <1>1, <1>2

\* A visit makes a valid node of the same number of actions.
LEMMA VisitedNodeType ==
  ASSUME NEW t \in Trainers, NEW nodes \in Stores, NEW k \in GameKeys
  PROVE  /\ VisitedNode(t, nodes, k) \in Nodes(k)
         /\ ValidNode(VisitedNode(t, nodes, k), t.variant)
<1> DEFINE regret(a) == IF k \in DOMAIN nodes THEN nodes[k].regret_sums[a] ELSE 0
           strategy(a) == IF k \in DOMAIN nodes THEN nodes[k].strategy_sums[a] ELSE 0
<1>1. PICK n \in Nat \ {0} : n = ActionCount[k] /\ n <= MaxLegalActions
  BY SessionAssumption, FormatAssumption
<1>2. PICK minus \in {0, 8} :
        /\ minus = IF t.variant = "CFR_PLUS" THEN 0 ELSE 8 * (t.training_iterations % 2)
        /\ t.variant = "CFR_PLUS" => minus = 0
  <2>1. t.training_iterations % 2 \in {0, 1}
    BY DEF Trainers
  <2> QED BY <2>1
<1>3. \A a \in 1..n : regret(a) \in Nat /\ strategy(a) \in Nat
  <2>1. CASE k \in DOMAIN nodes
    <3>1. nodes[k] \in Nodes(k)
      BY <2>1, StoresOut
    <3> QED BY <1>1, <2>1, <3>1, NodesOut
  <2>2. CASE k \notin DOMAIN nodes
    BY <2>2
  <2> QED BY <2>1, <2>2
<1>4. t.rng \in Nat /\ t.training_iterations \in Nat
  BY DEF Trainers
<1> DEFINE rs == [a \in 1..n |-> ((regret(a) + a + t.rng) % 7) + minus]
           ss == [a \in 1..n |-> (strategy(a) + t.training_iterations + 1) % 7]
<1>5. VisitedNode(t, nodes, k) = [regret_sums |-> rs, strategy_sums |-> ss]
  BY <1>1, <1>2 DEF VisitedNode
<1>6. \A a \in 1..n : /\ rs[a] \in Nat /\ ss[a] \in Nat
                      /\ rs[a] % 8 # 7 /\ ss[a] % 8 # 7 /\ ss[a] < 7 /\ (minus = 0 => rs[a] < 7)
  <2> SUFFICES ASSUME NEW a \in 1..n
               PROVE  /\ rs[a] \in Nat /\ ss[a] \in Nat
                      /\ rs[a] % 8 # 7 /\ ss[a] % 8 # 7 /\ ss[a] < 7 /\ (minus = 0 => rs[a] < 7)
    OBVIOUS
  <2>1. PICK x \in Int : x = regret(a) + a + t.rng
    BY <1>3, <1>4
  <2>2. PICK y \in Int : y = strategy(a) + t.training_iterations + 1
    BY <1>3, <1>4
  <2>3. rs[a] = (x % 7) + minus /\ ss[a] = y % 7
    BY <2>1, <2>2
  <2> HIDE DEF rs, ss
  <2>4. rs[a] \in Nat /\ rs[a] % 8 # 7 /\ (minus = 0 => rs[a] < 7)
    BY <2>3, VisitedSums
  <2>5. ss[a] \in Nat /\ ss[a] % 8 # 7 /\ ss[a] < 7
    BY <2>3, VisitedSums
  <2> QED BY <2>4, <2>5
<1>7. rs \in Seq(Nat) /\ ss \in Seq(Nat) /\ Len(rs) = n /\ Len(ss) = n
  BY <1>6
<1> HIDE DEF rs, ss
<1>8. VisitedNode(t, nodes, k) \in Nodes(k)
  BY <1>1, <1>5, <1>7 DEF Nodes
<1>9. ValidNode(VisitedNode(t, nodes, k), t.variant)
  <2>1. DOMAIN rs = 1..n
    BY <1>7
  <2>2. n \in 1..MaxLegalActions
    BY <1>1, FormatAssumption
  <2>3. \A a \in 1..n : /\ IsFinite(rs[a]) /\ IsFinite(ss[a]) /\ ~IsNegative(ss[a])
                        /\ t.variant = "CFR_PLUS" => ~IsNegative(rs[a])
    BY <1>2, <1>6 DEF IsFinite, IsNegative
  <2> QED BY <1>5, <1>7, <2>1, <2>2, <2>3 DEF ValidNode
<1> QED BY <1>8, <1>9

\* An iteration visits finitely many keys of the game.
LEMMA VisitedType ==
  ASSUME NEW t
  PROVE  Visited(t) \in SUBSET GameKeys /\ IsFiniteSet(Visited(t)) /\ Cardinality(Visited(t)) \in Nat
<1>1. Visited(t) \in SUBSET GameKeys
  BY DEF Visited
<1>2. IsFiniteSet(Visited(t))
  BY <1>1, FS_Subset, SessionAssumption
<1> QED BY <1>1, <1>2, FS_CardinalityType

\* An iteration keeps the types, counts itself, and leaves every node valid.
LEMMA IteratedType ==
  ASSUME NEW t \in Trainers, NEW nodes \in Stores
  PROVE  LET after == Iterated(t, nodes)
         IN  /\ after \in [trainer : Trainers, nodes : Stores]
             /\ after.trainer.training_iterations = t.training_iterations + 1
             /\ after.trainer.variant = t.variant
             /\ ValidStore(t, nodes) => ValidStore(after.trainer, after.nodes)
<1> DEFINE after == Iterated(t, nodes)
           rng == IF t.variant = "MCCFR_EXTERNAL" THEN (5 * t.rng + 3) % 8 ELSE t.rng
           stats == <<t.stats[1] + 1, t.stats[2] + 2, t.stats[3] + Cardinality(Visited(t)), t.stats[4]>>
           u == [t EXCEPT !.rng = rng, !.training_iterations = t.training_iterations + 1,
                          !.stats = stats]
           D == DOMAIN nodes \cup Visited(t)
           s == [k \in D |-> IF k \in Visited(t) THEN VisitedNode(t, nodes, k) ELSE nodes[k]]
<1>1. after = [trainer |-> u, nodes |-> s]
  BY DEF Iterated
<1>2. stats \in Seq(Nat) /\ Len(stats) = 4
  <2>1. /\ t.stats[1] \in Nat /\ t.stats[2] \in Nat /\ t.stats[3] \in Nat /\ t.stats[4] \in Nat
    BY DEF Trainers
  <2> QED BY <2>1, VisitedType
<1>3. rng \in Nat /\ (t.variant # "MCCFR_EXTERNAL" => rng = 0)
  <2>1. t.rng \in Nat /\ (t.variant # "MCCFR_EXTERNAL" => t.rng = 0)
    BY DEF Trainers
  <2>2. \A x \in Int : x % 8 \in Nat
    OBVIOUS
  <2> QED BY <2>1, <2>2
<1>4. u \in Trainers /\ u.training_iterations = t.training_iterations + 1 /\ u.variant = t.variant
  <2> HIDE DEF rng, stats
  <2> DEFINE R == [variant : Variants, rng : Nat, training_iterations : Nat, stats : Seq(Nat)]
  <2>1. t \in R /\ t.training_iterations + 1 \in Nat
    BY DEF Trainers
  <2>2. u \in R
    BY <1>2, <1>3, <2>1
  <2>3. /\ u.variant = t.variant /\ u.rng = rng /\ u.stats = stats
        /\ u.training_iterations = t.training_iterations + 1
    BY <2>1
  <2> HIDE DEF u
  <2> QED BY <1>2, <1>3, <2>2, <2>3 DEF Trainers
<1>5. D \in SUBSET GameKeys
  BY StoresOut, VisitedType
<1>6. \A k \in D : s[k] \in Nodes(k) /\ (ValidStore(t, nodes) => ValidNode(s[k], t.variant))
  <2> SUFFICES ASSUME NEW k \in D
               PROVE  s[k] \in Nodes(k) /\ (ValidStore(t, nodes) => ValidNode(s[k], t.variant))
    OBVIOUS
  <2>1. CASE k \in Visited(t)
    <3>1. k \in GameKeys /\ s[k] = VisitedNode(t, nodes, k)
      BY <1>5, <2>1
    <3> QED BY <3>1, VisitedNodeType
  <2>2. CASE k \notin Visited(t)
    <3>1. k \in DOMAIN nodes /\ s[k] = nodes[k]
      BY <2>2
    <3>2. nodes[k] \in Nodes(k)
      BY <3>1, StoresOut
    <3> HIDE DEF s
    <3> QED BY <3>1, <3>2 DEF ValidStore
  <2> QED BY <2>1, <2>2
<1>7. DOMAIN s = D /\ s = [k \in D |-> s[k]]
  OBVIOUS
<1> HIDE DEF s, D, u
<1>8. s \in Stores
  BY <1>5, <1>6, <1>7, StoresIn
<1>9. ValidStore(t, nodes) => ValidStore(u, s)
  BY <1>4, <1>6, <1>7 DEF ValidStore
<1> QED BY <1>1, <1>4, <1>8, <1>9

Pairs == [trainer : Trainers, nodes : Stores]

TrainStep == [p \in Pairs |-> Iterated(p.trainer, p.nodes)]

\* An iteration as a step.
LEMMA TrainStepType ==
  TrainStep \in [Pairs -> Pairs] /\ [i \in Nat |-> TrainStep] \in [Nat -> [Pairs -> Pairs]]
<1>1. ASSUME NEW p \in Pairs PROVE Iterated(p.trainer, p.nodes) \in Pairs
  BY IteratedType DEF Pairs
<1> QED BY <1>1 DEF TrainStep

\* Trained makes iteration after iteration.
LEMMA TrainedIsWalk ==
  ASSUME NEW t \in Trainers, NEW nodes \in Stores, NEW n \in Nat
  PROVE  Trained(t, nodes, n) =
           Walk(Pairs, [trainer |-> t, nodes |-> nodes], [i \in Nat |-> TrainStep], n)
<1> DEFINE first == [trainer |-> t, nodes |-> nodes]
           Body(f) == [i \in 0..n |-> IF i = 0 THEN first
                                      ELSE Iterated(f[i - 1].trainer, f[i - 1].nodes)]
           after == CHOOSE after : after = Body(after)
<1>0. first \in Pairs
  BY DEF Pairs
<1>5. Trained(t, nodes, n) = after[n]
  BY DEF Trained
<1> HIDE DEF first
<1>1. PICK step \in [Nat -> [Pairs -> Pairs]] :
        step = [i \in Nat |-> TrainStep] /\ \A i \in Nat : step[i] = TrainStep
  BY TrainStepType
<1>2. PICK g \in [0..n -> Pairs] : IsWalk(g, first, step, n) /\ Walk(Pairs, first, step, n) = g[n]
  BY <1>0, WalkThere
<1>3. \A i \in 1..n : g[i] = Iterated(g[i - 1].trainer, g[i - 1].nodes)
  <2> SUFFICES ASSUME NEW i \in 1..n PROVE g[i] = Iterated(g[i - 1].trainer, g[i - 1].nodes)
    OBVIOUS
  <2>1. i \in Nat /\ g[i - 1] \in Pairs
    OBVIOUS
  <2>2. g[i] = TrainStep[g[i - 1]]
    BY <1>1, <1>2, <2>1 DEF IsWalk
  <2> QED BY <2>1, <2>2 DEF TrainStep
<1>4. g = Body(g)
  <2>1. g[0] = first
    BY <1>2 DEF IsWalk
  <2>2. \A i \in 0..n : g[i] = Body(g)[i]
    BY <1>3, <2>1
  <2>3. DOMAIN Body(g) = 0..n /\ Body(g) = [i \in 0..n |-> Body(g)[i]]
    OBVIOUS
  <2> HIDE DEF Body
  <2> QED BY <2>2, <2>3
<1>6. after = Body(after)
  <2> HIDE DEF Body
  <2> QED BY <1>4
<1> HIDE DEF after
<1> DEFINE T == {i \in 0..n : after[i] = g[i]}
<1>7. 0 \in T
  BY <1>2, <1>6 DEF IsWalk
<1>8. ASSUME NEW i \in 0..(n - 1), i \in T PROVE i + 1 \in T
  <2>1. i + 1 \in 1..n /\ (i + 1) - 1 = i /\ i + 1 # 0
    OBVIOUS
  <2>4. i + 1 \in 0..n
    BY <2>1
  <2>2. after[i + 1] = Iterated(after[i].trainer, after[i].nodes)
    <3>1. Body(after)[i + 1] = Iterated(after[i].trainer, after[i].nodes)
      BY <2>1, <2>4
    <3> HIDE DEF Body
    <3> QED BY <1>6, <3>1
  <2>3. g[i + 1] = Iterated(g[i].trainer, g[i].nodes)
    BY <1>3, <2>1
  <2> QED BY <1>8, <2>2, <2>3, <2>4
<1>9. \A i \in 0..n : i \in T
  <2> HIDE DEF T
  <2> QED BY <1>7, <1>8, BoundedInduction
<1>10. after[n] = g[n]
  BY <1>9
<1> QED BY <1>1, <1>2, <1>5, <1>10 DEF first

\* No iteration, and one iteration more.
LEMMA TrainedNext ==
  ASSUME NEW t \in Trainers, NEW nodes \in Stores, NEW n \in Nat
  PROVE  /\ Trained(t, nodes, 0) = [trainer |-> t, nodes |-> nodes]
         /\ Trained(t, nodes, n) \in Pairs
         /\ Trained(t, nodes, n + 1) =
               Iterated(Trained(t, nodes, n).trainer, Trained(t, nodes, n).nodes)
<1>0. PICK first \in Pairs : first = [trainer |-> t, nodes |-> nodes]
  BY DEF Pairs
<1>1. PICK step \in [Nat -> [Pairs -> Pairs]] :
        step = [i \in Nat |-> TrainStep] /\ \A i \in Nat : step[i] = TrainStep
  BY TrainStepType
<1>2. \A m \in Nat : Trained(t, nodes, m) = Walk(Pairs, first, step, m)
  BY <1>0, <1>1, TrainedIsWalk
<1>3. Walk(Pairs, first, step, 0) = first
  BY WalkZero
<1>4. Walk(Pairs, first, step, n) \in Pairs
  BY WalkType
<1>5. Walk(Pairs, first, step, n + 1) = step[n + 1][Walk(Pairs, first, step, n)]
  BY WalkNext
<1>6. step[n + 1] = TrainStep
  BY <1>1
<1> QED BY <1>0, <1>2, <1>3, <1>4, <1>5, <1>6 DEF TrainStep

\* Blocks add up: training n iterations and then m more is training n + m.
LEMMA TrainedSum ==
  ASSUME NEW t \in Trainers, NEW nodes \in Stores, NEW n \in Nat, NEW m \in Nat
  PROVE  Trained(Trained(t, nodes, n).trainer, Trained(t, nodes, n).nodes, m)
           = Trained(t, nodes, n + m)
<1>0. PICK first \in Pairs : first = [trainer |-> t, nodes |-> nodes]
  BY DEF Pairs
<1>1. PICK step \in [Nat -> [Pairs -> Pairs]] : step = [i \in Nat |-> TrainStep]
  BY TrainStepType
<1>2. PICK p \in Pairs : p = Trained(t, nodes, n)
  BY TrainedNext
<1>3. p = Walk(Pairs, first, step, n)
  BY <1>0, <1>1, <1>2, TrainedIsWalk
<1>4. Trained(p.trainer, p.nodes, m) = Walk(Pairs, p, step, m)
  <2>1. p = [trainer |-> p.trainer, nodes |-> p.nodes] /\ p.trainer \in Trainers /\ p.nodes \in Stores
    BY DEF Pairs
  <2> QED BY <1>1, <2>1, TrainedIsWalk
<1>5. Walk(Pairs, Walk(Pairs, first, step, n), step, m) = Walk(Pairs, first, step, n + m)
  <2>1. \A i, j \in Nat : step[i] = step[j]
    BY <1>1
  <2> QED BY <2>1, WalkSum
<1>6. Trained(t, nodes, n + m) = Walk(Pairs, first, step, n + m)
  BY <1>0, <1>1, TrainedIsWalk
<1> QED BY <1>2, <1>3, <1>4, <1>5, <1>6

\* Training counts its iterations, keeps the variant, and leaves every node valid.
LEMMA TrainedKeeps ==
  ASSUME NEW t \in Trainers, NEW nodes \in Stores, NEW n \in Nat
  PROVE  LET after == Trained(t, nodes, n)
         IN  /\ after \in Pairs
             /\ after.trainer.training_iterations = t.training_iterations + n
             /\ after.trainer.variant = t.variant
             /\ ValidStore(t, nodes) => ValidStore(after.trainer, after.nodes)
<1> DEFINE Ok(p, i) == /\ p \in Pairs
                       /\ p.trainer.training_iterations = t.training_iterations + i
                       /\ p.trainer.variant = t.variant
                       /\ ValidStore(t, nodes) => ValidStore(p.trainer, p.nodes)
           T == {i \in Nat : Ok(Trained(t, nodes, i), i)}
<1>0. t.training_iterations \in Nat
  BY DEF Trainers
<1>1. 0 \in T
  <2>1. PICK p \in Pairs : p = [trainer |-> t, nodes |-> nodes]
    BY DEF Pairs
  <2>2. Ok(p, 0)
    BY <1>0, <2>1
  <2>3. Trained(t, nodes, 0) = p
    BY <2>1, TrainedNext
  <2> HIDE DEF Ok
  <2> QED BY <2>2, <2>3
<1>2. ASSUME NEW i \in T PROVE i + 1 \in T
  <2>1. PICK p \in Pairs : p = Trained(t, nodes, i)
    BY TrainedNext
  <2>2. Ok(p, i)
    BY <2>1
  <2>3. PICK q : q = Iterated(p.trainer, p.nodes)
    OBVIOUS
  <2>4. p.trainer \in Trainers /\ p.nodes \in Stores
    BY DEF Pairs
  <2>5. /\ q \in Pairs
        /\ q.trainer.training_iterations = p.trainer.training_iterations + 1
        /\ q.trainer.variant = p.trainer.variant
        /\ ValidStore(p.trainer, p.nodes) => ValidStore(q.trainer, q.nodes)
    BY <2>3, <2>4, IteratedType DEF Pairs
  <2>6. Ok(q, i + 1)
    BY <1>0, <2>2, <2>5
  <2>7. Trained(t, nodes, i + 1) = q
    BY <2>1, <2>3, TrainedNext
  <2> HIDE DEF Ok
  <2> QED BY <2>6, <2>7
<1>3. T = Nat
  <2>1. T \subseteq Nat
    OBVIOUS
  <2> HIDE DEF T
  <2> QED BY <1>1, <1>2, <2>1, SetInduction
<1> QED BY <1>3

-----------------------------------------------------------------------------
\* The keys in ascending order.

Below(D, k) == {j \in D : j < k}

\* The number of smaller keys rises with the key.
LEMMA RankRises ==
  ASSUME NEW D \in SUBSET Int, IsFiniteSet(D), NEW k \in D, NEW l \in D
  PROVE  /\ Cardinality(Below(D, k)) \in 0..(Cardinality(D) - 1)
         /\ k < l => Cardinality(Below(D, k)) < Cardinality(Below(D, l))
         /\ k <= l => Cardinality(Below(D, k)) <= Cardinality(Below(D, l))
<1>1. /\ IsFiniteSet(Below(D, k)) /\ IsFiniteSet(Below(D, l))
      /\ Cardinality(Below(D, k)) \in Nat /\ Cardinality(Below(D, l)) \in Nat /\ Cardinality(D) \in Nat
  <2>1. Below(D, k) \in SUBSET D /\ Below(D, l) \in SUBSET D
    BY DEF Below
  <2> QED BY <2>1, FS_Subset, FS_CardinalityType
<1>2. Cardinality(Below(D, k)) <= Cardinality(D) - 1
  <2>1. Below(D, k) \in SUBSET D /\ Below(D, k) # D
    BY DEF Below
  <2>2. Cardinality(Below(D, k)) <= Cardinality(D) /\ Cardinality(Below(D, k)) # Cardinality(D)
    BY <2>1, FS_Subset
  <2> QED BY <1>1, <2>2
<1>3. ASSUME k < l PROVE Cardinality(Below(D, k)) < Cardinality(Below(D, l))
  <2>1. Below(D, k) \in SUBSET Below(D, l) /\ Below(D, k) # Below(D, l)
    <3>1. k \in Below(D, l) /\ k \notin Below(D, k)
      BY <1>3 DEF Below
    <3>2. \A j \in Below(D, k) : j \in Below(D, l)
      BY <1>3 DEF Below
    <3> QED BY <3>1, <3>2
  <2>2. /\ Cardinality(Below(D, k)) <= Cardinality(Below(D, l))
        /\ Cardinality(Below(D, k)) # Cardinality(Below(D, l))
    BY <1>1, <2>1, FS_Subset
  <2> QED BY <1>1, <2>2
<1> QED BY <1>1, <1>2, <1>3

Ascending(s) == \A i, j \in DOMAIN s : i < j => s[i] < s[j]

\* A finite set of keys has an ascending list.
LEMMA AscendingExists ==
  ASSUME NEW D \in SUBSET Int, IsFiniteSet(D)
  PROVE  \E s \in [1..Cardinality(D) -> D] : Ascending(s)
<1>1. PICK n \in Nat : n = Cardinality(D)
  BY FS_CardinalityType
<1> DEFINE rank(k) == Cardinality(Below(D, k))
           f == [k \in D |-> rank(k)]
<1>2. \A k \in D : rank(k) \in 0..(n - 1)
  BY <1>1, RankRises
<1>3. \A k, l \in D : (k < l => rank(k) < rank(l)) /\ (k <= l => rank(k) <= rank(l))
  BY RankRises
<1> HIDE DEF rank
<1>4. f \in [D -> 0..(n - 1)]
  BY <1>2
<1>5. \A k, l \in D : f[k] = f[l] => k = l
  <2> SUFFICES ASSUME NEW k \in D, NEW l \in D, k # l PROVE f[k] # f[l]
    OBVIOUS
  <2>1. k < l \/ l < k
    OBVIOUS
  <2>2. f[k] = rank(k) /\ f[l] = rank(l) /\ rank(k) \in Int /\ rank(l) \in Int
    BY <1>2
  <2>3. CASE k < l
    BY <1>3, <2>2, <2>3
  <2>4. CASE l < k
    BY <1>3, <2>2, <2>4
  <2> QED BY <2>1, <2>3, <2>4
<1>6. f \in Injection(D, 0..(n - 1))
  <2> HIDE DEF f
  <2> QED BY <1>4, <1>5 DEF Injection, IsInjective
<1>7. IsFiniteSet(0..(n - 1)) /\ Cardinality(0..(n - 1)) = n
  <2>1. 0 \in Int /\ n - 1 \in Int
    OBVIOUS
  <2>2. IsFiniteSet(0..(n - 1)) /\ Cardinality(0..(n - 1)) = IF 0 > n - 1 THEN 0 ELSE (n - 1) - 0 + 1
    BY <2>1, FS_Interval
  <2> QED BY <2>2
<1>8. f \in Surjection(D, 0..(n - 1))
  <2> HIDE DEF f
  <2> QED BY <1>1, <1>6, <1>7, FS_Injection
<1>9. \A i \in 1..n : \E k \in D : rank(k) = i - 1
  <2> SUFFICES ASSUME NEW i \in 1..n PROVE \E k \in D : rank(k) = i - 1
    OBVIOUS
  <2>1. i - 1 \in 0..(n - 1)
    OBVIOUS
  <2>2. \E k \in D : f[k] = i - 1
    <3> HIDE DEF f
    <3> QED BY <1>8, <2>1 DEF Surjection
  <2> QED BY <2>2
<1> HIDE DEF f
<1> DEFINE s == [i \in 1..n |-> CHOOSE k \in D : rank(k) = i - 1]
<1>10. \A i \in 1..n : s[i] \in D /\ rank(s[i]) = i - 1
  <2> SUFFICES ASSUME NEW i \in 1..n PROVE s[i] \in D /\ rank(s[i]) = i - 1
    OBVIOUS
  <2>1. \E k \in D : rank(k) = i - 1
    BY <1>9
  <2> QED BY <2>1
<1>11. DOMAIN s = 1..n /\ s \in [1..n -> D]
  BY <1>10
<1> HIDE DEF s
<1>12. Ascending(s)
  <2> SUFFICES ASSUME NEW i \in 1..n, NEW j \in 1..n, i < j PROVE s[i] < s[j]
    BY <1>11 DEF Ascending
  <2>1. s[i] \in D /\ s[j] \in D /\ s[i] \in Int /\ s[j] \in Int
    BY <1>10
  <2>2. ~(s[j] <= s[i])
    <3>1. rank(s[i]) = i - 1 /\ rank(s[j]) = j - 1
      BY <1>10
    <3>2. s[j] <= s[i] => rank(s[j]) <= rank(s[i])
      BY <1>3, <2>1
    <3> QED BY <3>1, <3>2
  <2> QED BY <2>1, <2>2
<1> QED BY <1>1, <1>11, <1>12

\* SortedKeys lists every key of a store once.
LEMMA SortedKeysList ==
  ASSUME NEW nodes, DOMAIN nodes \in SUBSET Int, IsFiniteSet(DOMAIN nodes)
  PROVE  LET s == SortedKeys(nodes)
         IN  /\ s \in Seq(DOMAIN nodes) /\ DOMAIN s = 1..Len(s)
             /\ \A i, j \in DOMAIN s : s[i] = s[j] => i = j
             /\ \A k \in DOMAIN nodes : \E i \in DOMAIN s : s[i] = k
<1>1. PICK D \in SUBSET Int : D = DOMAIN nodes
  OBVIOUS
<1>2. PICK n \in Nat : n = Cardinality(D)
  BY <1>1, FS_CardinalityType
<1> DEFINE s == SortedKeys(nodes)
<1>3. s \in [1..n -> D] /\ Ascending(s)
  <2>1. \E x \in [1..n -> D] : Ascending(x)
    BY <1>1, <1>2, AscendingExists
  <2>2. s = CHOOSE x \in [1..n -> D] : Ascending(x)
    BY <1>1, <1>2 DEF SortedKeys, Ascending
  <2> HIDE DEF s
  <2> QED BY <2>1, <2>2
<1> HIDE DEF s
<1>4. \A i, j \in 1..n : s[i] = s[j] => i = j
  <2> SUFFICES ASSUME NEW i \in 1..n, NEW j \in 1..n, i # j PROVE s[i] # s[j]
    OBVIOUS
  <2>1. i < j \/ j < i
    OBVIOUS
  <2>2. s[i] \in Int /\ s[j] \in Int /\ i \in DOMAIN s /\ j \in DOMAIN s
    BY <1>3
  <2> QED BY <1>3, <2>1, <2>2 DEF Ascending
<1>5. s \in Injection(1..n, D)
  BY <1>3, <1>4 DEF Injection, IsInjective
<1>6. Cardinality(1..n) = n
  <2>1. 1 \in Int /\ n \in Int
    OBVIOUS
  <2>2. Cardinality(1..n) = IF 1 > n THEN 0 ELSE n - 1 + 1
    BY <2>1, FS_Interval
  <2> QED BY <2>2
<1>7. s \in Surjection(1..n, D)
  BY <1>1, <1>2, <1>5, <1>6, FS_Injection
<1>8. \A k \in D : \E i \in 1..n : s[i] = k
  BY <1>7 DEF Surjection
<1>9. s \in Seq(D) /\ Len(s) = n /\ DOMAIN s = 1..n
  BY <1>3
<1> QED BY <1>1, <1>4, <1>8, <1>9 DEF s

-----------------------------------------------------------------------------
\* The words of a payload.

\* v is s and then t.
Joins(s, t, v) ==
  /\ v \in Seq(Nat) /\ Len(v) = Len(s) + Len(t)
  /\ \A i \in 1..Len(s) : v[i] = s[i]
  /\ \A i \in 1..Len(t) : v[Len(s) + i] = t[i]

\* A concatenation, word by word.
LEMMA Concat ==
  ASSUME NEW s \in Seq(Nat), NEW t \in Seq(Nat)
  PROVE  Joins(s, t, s \o t)
BY DEF Joins

\* A key is read back from its code.
LEMMA EncodeDecode ==
  ASSUME NEW k \in GameKeys
  PROVE  EncodeKey(k) \in Nat /\ DecodeKey(EncodeKey(k)) = k
<1>1. PICK h \in Nat \ {0} : KeyModulus = 2 * h /\ KeyModulus \div 2 = h
  <2>1. PICK m \in Nat \ {0} : m = KeyModulus /\ m % 2 = 0
    BY FormatAssumption
  <2>2. PICK h \in Nat : h = m \div 2
    BY <2>1
  <2>3. m = 2 * h /\ h # 0
    BY <2>1, <2>2
  <2> QED BY <2>1, <2>2, <2>3
<1>2. k \in Int /\ -h <= k /\ k <= h - 1
  BY <1>1, SessionAssumption
<1>3. \A x \in Int, m \in Nat \ {0} : (0 <= x /\ x < m => x % m = x) /\ (-m <= x /\ x < 0 => x % m = x + m)
  OBVIOUS
<1>4. CASE k >= 0
  <2>1. EncodeKey(k) = k
    <3>1. 2 * h \in Nat \ {0} /\ 0 <= k /\ k < 2 * h
      BY <1>2, <1>4
    <3>2. k % (2 * h) = k
      BY <1>2, <1>3, <3>1
    <3> QED BY <1>1, <3>2 DEF EncodeKey
  <2> QED BY <1>1, <1>2, <1>4, <2>1 DEF DecodeKey
<1>5. CASE k < 0
  <2>1. EncodeKey(k) = k + 2 * h
    <3>1. 2 * h \in Nat \ {0} /\ -(2 * h) <= k /\ k < 0
      BY <1>2, <1>5
    <3>2. k % (2 * h) = k + 2 * h
      BY <1>2, <1>3, <3>1
    <3> QED BY <1>1, <3>2 DEF EncodeKey
  <2> QED BY <1>1, <1>2, <1>5, <2>1 DEF DecodeKey
<1> QED BY <1>2, <1>4, <1>5

\* A record is the key, the number of actions, the regrets, the strategy sums.
IsRecord(r, e, c, rs, ss) ==
  /\ r \in Seq(Nat) /\ Len(r) = 2 + 2 * c /\ r[1] = e /\ r[2] = c
  /\ \A j \in 1..c : r[2 + j] = rs[j] /\ r[2 + c + j] = ss[j]

\* The parts of a record, at their places.
LEMMA RecordShape ==
  ASSUME NEW e \in Nat, NEW c \in Nat, NEW rs \in Seq(Nat), NEW ss \in Seq(Nat),
         Len(rs) = c, Len(ss) = c
  PROVE  IsRecord(<<e, c>> \o rs \o ss, e, c, rs, ss)
<1>1. PICK a \in Seq(Nat) : a = <<e, c>> /\ Len(a) = 2 /\ a[1] = e /\ a[2] = c
  <2>1. <<e, c>> \in Seq(Nat) /\ Len(<<e, c>>) = 2 /\ <<e, c>>[1] = e /\ <<e, c>>[2] = c
    OBVIOUS
  <2> QED BY <2>1, Zenon
<1>2. PICK b \in Seq(Nat) : b = a \o rs /\ Joins(a, rs, b)
  BY Concat DEF Joins
<1>3. PICK r \in Seq(Nat) : r = b \o ss /\ Joins(b, ss, r)
  BY Concat DEF Joins
<1>4. r = <<e, c>> \o rs \o ss
  BY <1>1, <1>2, <1>3
<1>5. /\ Len(b) = 2 + c /\ b[1] = e /\ b[2] = c
      /\ \A j \in 1..c : b[2 + j] = rs[j]
  BY <1>1, <1>2 DEF Joins
<1>6. Len(r) = 2 + 2 * c 
  BY <1>3, <1>5 DEF Joins
<1>7. r[1] = e /\ r[2] = c
  BY <1>3, <1>5 DEF Joins
<1>8. \A j \in 1..c : r[2 + j] = rs[j] 
  BY <1>3, <1>5 DEF Joins
<1>9. \A j \in 1..c : r[2 + c + j] = ss[j]
  BY <1>3, <1>5 DEF Joins
<1> QED BY <1>4, <1>6, <1>7, <1>8, <1>9 DEF IsRecord

\* The record of a node.
LEMMA RecordWords ==
  ASSUME NEW k \in GameKeys, NEW x \in Nodes(k)
  PROVE  IsRecord(Record(k, x), EncodeKey(k), ActionCount[k], x.regret_sums, x.strategy_sums)
<1>1. PICK c \in Nat \ {0} : c = ActionCount[k]
  BY NodesOut
<1>2. PICK rs \in Seq(Nat) : rs = x.regret_sums /\ Len(rs) = c
  BY <1>1, NodesOut
<1>3. PICK ss \in Seq(Nat) : ss = x.strategy_sums /\ Len(ss) = c
  BY <1>1, NodesOut
<1>4. PICK e \in Nat : e = EncodeKey(k)
  BY EncodeDecode
<1>5. Record(k, x) = <<e, c>> \o rs \o ss
  BY <1>2, <1>3, <1>4 DEF Record
<1>6. c \in Nat
  OBVIOUS
<1>7. IsRecord(<<e, c>> \o rs \o ss, e, c, rs, ss)
  BY <1>2, <1>3, <1>6, RecordShape
<1> QED BY <1>1, <1>2, <1>3, <1>4, <1>5, <1>7

-----------------------------------------------------------------------------
\* The words before the records.

Rng(t) == IF t.variant = "MCCFR_EXTERNAL" THEN 1 ELSE 0

\* A variant is read back from its code.
LEMMA CodesDiffer ==
  ASSUME NEW v \in Variants
  PROVE  /\ VariantCode[v] \in Nat
         /\ (CHOOSE u \in Variants : VariantCode[u] = VariantCode[v]) = v
         /\ \E u \in Variants : VariantCode[u] = VariantCode[v]
<1>1. /\ VariantCode["CFR"] = 0 /\ VariantCode["CFR_PLUS"] = 1
      /\ VariantCode["MCCFR_EXTERNAL"] = 2
  BY DEF VariantCode
<1>2. \A u \in Variants : VariantCode[u] = VariantCode[v] => u = v
  BY <1>1 DEF Variants
<1> QED BY <1>1, <1>2 DEF Variants

\* A list of one word.
LEMMA One ==
  ASSUME NEW x \in Nat
  PROVE  <<x>> \in Seq(Nat) /\ Len(<<x>>) = 1 /\ <<x>>[1] = x
OBVIOUS

IsHeader(H, t, count, n, m) ==
  /\ H \in Seq(Nat) /\ Len(H) = n + m + 10 /\ n \in 1..SchemaIdMaxLength /\ m \in {0, 1}
  /\ H[1] = Magic /\ H[2] = Version /\ H[3] = n
  /\ \A j \in 1..n : H[3 + j] = SchemaId[j]
  /\ H[n + 4] = VariantCode[t.variant]
  /\ m = 1 => H[n + 5] = t.rng
  /\ H[n + m + 5] = t.training_iterations
  /\ \A j \in 1..4 : H[n + m + 5 + j] = t.stats[j]
  /\ H[n + m + 10] = count

\* The header, word by word.
LEMMA HeaderWords ==
  ASSUME NEW t \in Trainers, NEW count \in Nat
  PROVE  IsHeader(Header(t, count), t, count, Len(SchemaId), Rng(t))
<1>1. PICK n \in Nat : n = Len(SchemaId) /\ n \in 1..SchemaIdMaxLength
  BY FormatAssumption
<1>2. SchemaId \in Seq(Nat)
  BY FormatAssumption
<1>3. PICK m \in {0, 1} : m = Rng(t)
  BY DEF Rng
<1>4. PICK code \in Nat : code = VariantCode[t.variant]
  BY CodesDiffer DEF Trainers
<1>5. PICK rng \in Nat : rng = t.rng
  BY DEF Trainers
<1>6. PICK ti \in Nat : ti = t.training_iterations
  BY DEF Trainers
<1>7. PICK stats \in Seq(Nat) : stats = t.stats /\ Len(stats) = 4
  BY DEF Trainers
<1> DEFINE R == IF t.variant = "MCCFR_EXTERNAL" THEN <<t.rng>> ELSE <<>>
<1>8. R \in Seq(Nat) /\ Len(R) = m /\ (m = 1 => R[1] = rng)
  <2>1. CASE t.variant = "MCCFR_EXTERNAL"
    <3>1. <<rng>> \in Seq(Nat) /\ Len(<<rng>>) = 1 /\ <<rng>>[1] = rng
      BY One
    <3>2. R = <<rng>>
      BY <1>5, <2>1
    <3> HIDE DEF R
    <3> QED BY <1>3, <2>1, <3>1, <3>2 DEF Rng
  <2>2. CASE t.variant # "MCCFR_EXTERNAL"
    <3>1. <<>> \in Seq(Nat) /\ Len(<<>>) = 0 /\ m = 0
      BY <1>3, <2>2 DEF Rng
    <3>2. R = <<>>
      BY <2>2
    <3> HIDE DEF R
    <3> QED BY <3>1, <3>2
  <2> QED BY <2>1, <2>2
<1>32. R = IF t.variant = "MCCFR_EXTERNAL" THEN <<t.rng>> ELSE <<>>
  OBVIOUS
<1> HIDE DEF R
<1>9. PICK a1 \in Seq(Nat) : /\ a1 = <<Magic, Version, n>> /\ Len(a1) = 3
                             /\ a1[1] = Magic /\ a1[2] = Version /\ a1[3] = n
  <2>1. Magic \in Nat /\ Version \in Nat
    BY DEF Magic, Version
  <2>2. <<Magic, Version, n>> \in Seq(Nat) /\ Len(<<Magic, Version, n>>) = 3
    BY <2>1
  <2>3. /\ <<Magic, Version, n>>[1] = Magic /\ <<Magic, Version, n>>[2] = Version
        /\ <<Magic, Version, n>>[3] = n
    OBVIOUS
  <2> QED BY <2>2, <2>3, Zenon
<1>10. PICK a2 \in Seq(Nat) : a2 = a1 \o SchemaId /\ Joins(a1, SchemaId, a2)
  BY <1>2, Concat DEF Joins
<1>11. PICK a3 \in Seq(Nat) : a3 = a2 \o <<code>> /\ Joins(a2, <<code>>, a3)
  <2>1. <<code>> \in Seq(Nat)
    BY One
  <2>2. Joins(a2, <<code>>, a2 \o <<code>>)
    BY <2>1, Concat
  <2>3. a2 \o <<code>> \in Seq(Nat)
    BY <2>2 DEF Joins
  <2> QED BY <2>2, <2>3, Zenon
<1>12. PICK a4 \in Seq(Nat) : a4 = a3 \o R /\ Joins(a3, R, a4)
  <2>1. Joins(a3, R, a3 \o R)
    BY <1>8, Concat
  <2>2. a3 \o R \in Seq(Nat)
    BY <2>1 DEF Joins
  <2> QED BY <2>1, <2>2, Zenon
<1>13. PICK a5 \in Seq(Nat) : a5 = a4 \o <<ti>> /\ Joins(a4, <<ti>>, a5)
  <2>1. <<ti>> \in Seq(Nat)
    BY One
  <2>2. Joins(a4, <<ti>>, a4 \o <<ti>>)
    BY <2>1, Concat
  <2>3. a4 \o <<ti>> \in Seq(Nat)
    BY <2>2 DEF Joins
  <2> QED BY <2>2, <2>3, Zenon
<1>14. PICK a6 \in Seq(Nat) : a6 = a5 \o stats /\ Joins(a5, stats, a6)
  BY Concat, ZenonT(30) DEF Joins
<1>15. PICK a7 \in Seq(Nat) : a7 = a6 \o <<count>> /\ Joins(a6, <<count>>, a7)
  <2>1. <<count>> \in Seq(Nat)
    BY One
  <2>2. Joins(a6, <<count>>, a6 \o <<count>>)
    BY <2>1, Concat
  <2>3. a6 \o <<count>> \in Seq(Nat)
    BY <2>2 DEF Joins
  <2> QED BY <2>2, <2>3, Zenon
<1>16. Header(t, count) = a7
  BY <1>1, <1>4, <1>6, <1>7, <1>32, <1>9, <1>10, <1>11, <1>12, <1>13, <1>14, <1>15 DEF Header
<1>17. Len(a2) = n + 3 /\ \A j \in 1..n : a2[3 + j] = SchemaId[j]
  BY <1>1, <1>9, <1>10 DEF Joins
<1>18. /\ Len(a3) = n + 4 /\ a3[n + 4] = code
       /\ \A i \in 1..(n + 3) : a3[i] = a2[i]
  <2>1. Len(<<code>>) = 1 /\ <<code>>[1] = code
    BY One
  <2> QED BY <1>11, <1>17, <2>1 DEF Joins
<1>19. /\ Len(a4) = n + m + 4
       /\ \A i \in 1..(n + 4) : a4[i] = a3[i]
  BY <1>8, <1>12, <1>18 DEF Joins
<1>20. m = 1 => a4[n + 5] = rng
  BY <1>8, <1>12, <1>18 DEF Joins
<1>21. /\ Len(a5) = n + m + 5 /\ a5[n + m + 5] = ti
       /\ \A i \in 1..(n + m + 4) : a5[i] = a4[i]
  <2>1. Len(<<ti>>) = 1 /\ <<ti>>[1] = ti
    BY One
  <2> QED BY <1>13, <1>19, <2>1 DEF Joins
<1>22. /\ Len(a6) = n + m + 9
       /\ \A i \in 1..(n + m + 5) : a6[i] = a5[i]
  BY <1>7, <1>14, <1>21 DEF Joins
<1>23. \A j \in 1..4 : a6[n + m + 5 + j] = stats[j]
  BY <1>7, <1>14, <1>21 DEF Joins
<1>24. /\ Len(a7) = n + m + 10 /\ a7[n + m + 10] = count
       /\ \A i \in 1..(n + m + 9) : a7[i] = a6[i]
  <2>1. Len(<<count>>) = 1 /\ <<count>>[1] = count
    BY One
  <2> QED BY <1>15, <1>22, <2>1 DEF Joins
<1>25. \A i \in 1..(n + 3) : a7[i] = a2[i]
  <2> SUFFICES ASSUME NEW i \in 1..(n + 3) PROVE a7[i] = a2[i]
    OBVIOUS
  <2>1. /\ i \in 1..(n + 4) /\ i \in 1..(n + m + 4) /\ i \in 1..(n + m + 5)
        /\ i \in 1..(n + m + 9)
    OBVIOUS
  <2> QED BY <1>18, <1>19, <1>21, <1>22, <1>24, <2>1
<1>26. a7[1] = Magic /\ a7[2] = Version /\ a7[3] = n
  <2>1. a2[1] = a1[1] /\ a2[2] = a1[2] /\ a2[3] = a1[3]
    BY <1>9, <1>10 DEF Joins
  <2>2. 1 \in 1..(n + 3) /\ 2 \in 1..(n + 3) /\ 3 \in 1..(n + 3)
    OBVIOUS
  <2>3. a7[1] = a2[1] /\ a7[2] = a2[2] /\ a7[3] = a2[3]
    BY <1>25, <2>2
  <2> QED BY <1>9, <2>1, <2>3
<1>27. \A j \in 1..n : a7[3 + j] = SchemaId[j]
  BY <1>17, <1>25
<1>28. a7[n + 4] = code
  <2>1. /\ n + 4 \in 1..(n + 4) /\ n + 4 \in 1..(n + m + 4) /\ n + 4 \in 1..(n + m + 5)
        /\ n + 4 \in 1..(n + m + 9)
    OBVIOUS
  <2>2. a7[n + 4] = a6[n + 4] /\ a6[n + 4] = a5[n + 4] /\ a5[n + 4] = a4[n + 4]
    BY <1>21, <1>22, <1>24, <2>1
  <2>3. a4[n + 4] = a3[n + 4]
    BY <1>19, <2>1
  <2> QED BY <1>18, <2>2, <2>3
<1>29. m = 1 => a7[n + 5] = rng
  BY <1>20, <1>21, <1>22, <1>24, SMTT(30)
<1>30. a7[n + m + 5] = ti
  BY <1>21, <1>22, <1>24
<1>31. \A j \in 1..4 : a7[n + m + 5 + j] = stats[j]
  <2> SUFFICES ASSUME NEW j \in 1..4 PROVE a7[n + m + 5 + j] = stats[j]
    OBVIOUS
  <2>1. n + m + 5 + j \in 1..(n + m + 9)
    OBVIOUS
  <2> QED BY <1>23, <1>24, <2>1
<1>33. IsHeader(a7, t, count, n, m)
  BY <1>1, <1>4, <1>5, <1>6, <1>7, <1>24, <1>26, <1>27, <1>28, <1>29, <1>30, <1>31 DEF IsHeader
<1> QED BY <1>1, <1>3, <1>16, <1>33

-----------------------------------------------------------------------------
\* A payload: the header, the records in the order of the keys, the checksum.

Rows(ks, s) == [i \in DOMAIN ks |-> Record(ks[i], s[ks[i]])]

Count(s) == Len(SortedKeys(s))

\* What is written after the header and i records.
Upto(t, s, i) == Joined(Header(t, Count(s)), Rows(SortedKeys(s), s), i)

Begins(w, p) == Len(p) <= Len(w) /\ \A j \in 1..Len(p) : w[j] = p[j]

\* Keys are integers.
LEMMA GameKeysInt == GameKeys \subseteq Int
BY SessionAssumption

\* The list of keys of a store.
LEMMA KeysOf ==
  ASSUME NEW s \in Stores
  PROVE  LET ks == SortedKeys(s)
         IN  /\ ks \in Seq(DOMAIN s) /\ DOMAIN ks = 1..Count(s) /\ Count(s) \in Nat
             /\ \A i \in 1..Count(s) : ks[i] \in DOMAIN s /\ ks[i] \in GameKeys /\ s[ks[i]] \in Nodes(ks[i])
             /\ \A i, j \in 1..Count(s) : ks[i] = ks[j] => i = j
             /\ \A k \in DOMAIN s : \E i \in 1..Count(s) : ks[i] = k
<1> DEFINE ks == SortedKeys(s)
<1>1. DOMAIN s \in SUBSET Int
  <2>1. DOMAIN s \subseteq GameKeys
    BY StoresOut
  <2>2. GameKeys \subseteq Int
    BY GameKeysInt
  <2> QED BY <2>1, <2>2
<1>2. IsFiniteSet(DOMAIN s)
  BY StoresOut
<1>3. /\ ks \in Seq(DOMAIN s) /\ DOMAIN ks = 1..Len(ks)
      /\ \A i, j \in DOMAIN ks : ks[i] = ks[j] => i = j
      /\ \A k \in DOMAIN s : \E i \in DOMAIN ks : ks[i] = k
  BY <1>1, <1>2, SortedKeysList
<1>4. Count(s) = Len(ks)
  BY DEF Count
<1> HIDE DEF ks
<1>5. Count(s) \in Nat
  BY <1>3, <1>4
<1>6. ASSUME NEW i \in 1..Count(s)
      PROVE  ks[i] \in DOMAIN s /\ ks[i] \in GameKeys /\ s[ks[i]] \in Nodes(ks[i])
  <2>1. ks[i] \in DOMAIN s
    BY <1>3, <1>4
  <2> QED BY <2>1, StoresOut
<1>7. \A i, j \in 1..Count(s) : ks[i] = ks[j] => i = j
  BY <1>3, <1>4, Zenon
<1>8. \A k \in DOMAIN s : \E i \in 1..Count(s) : ks[i] = k
  BY <1>3, <1>4, Zenon
<1>9. DOMAIN ks = 1..Count(s)
  BY <1>3, <1>4
<1> QED BY <1>3, <1>5, <1>6, <1>7, <1>8, <1>9 DEF ks

\* The records of the nodes, in the order of the keys.
LEMMA RowsType ==
  ASSUME NEW s \in Stores, NEW ks \in Seq(GameKeys), \A i \in 1..Len(ks) : s[ks[i]] \in Nodes(ks[i])
  PROVE  /\ Rows(ks, s) \in Seq(Lists(Nat)) /\ Len(Rows(ks, s)) = Len(ks)
         /\ \A i \in 1..Len(ks) : Rows(ks, s)[i] = Record(ks[i], s[ks[i]])
<1>1. PICK n \in Nat : n = Len(ks) /\ DOMAIN ks = 1..n
  OBVIOUS
<1>2. ASSUME NEW i \in 1..n PROVE Record(ks[i], s[ks[i]]) \in Lists(Nat)
  <2>1. ks[i] \in GameKeys /\ s[ks[i]] \in Nodes(ks[i])
    BY <1>1
  <2>2. IsRecord(Record(ks[i], s[ks[i]]), EncodeKey(ks[i]), ActionCount[ks[i]],
                 s[ks[i]].regret_sums, s[ks[i]].strategy_sums)
    BY <2>1, RecordWords
  <2> QED BY <2>2 DEF IsRecord, Lists
<1> DEFINE r == [i \in 1..n |-> Record(ks[i], s[ks[i]])]
<1>3. Rows(ks, s) = r
  BY <1>1 DEF Rows
<1>4. r \in [1..n -> Lists(Nat)]
  BY <1>2
<1>5. \A i \in 1..n : r[i] = Record(ks[i], s[ks[i]])
  OBVIOUS
<1> HIDE DEF r
<1>6. r \in Seq(Lists(Nat)) /\ Len(r) = n
  BY <1>4
<1> QED BY <1>1, <1>3, <1>5, <1>6

\* The words written, record after record.
LEMMA UptoSteps ==
  ASSUME NEW t \in Trainers, NEW s \in Stores
  PROVE  /\ \A i \in 0..Count(s) : Upto(t, s, i) \in Seq(Nat)
         /\ Upto(t, s, 0) = Header(t, Count(s))
         /\ \A i \in 0..(Count(s) - 1) :
               /\ Upto(t, s, i + 1) = Upto(t, s, i) \o Record(SortedKeys(s)[i + 1], s[SortedKeys(s)[i + 1]])
               /\ Record(SortedKeys(s)[i + 1], s[SortedKeys(s)[i + 1]]) \in Seq(Nat)
<1> DEFINE ks == SortedKeys(s)
<1>1. PICK n \in Nat : n = Count(s)
  BY KeysOf
<1>2. /\ ks \in Seq(GameKeys) /\ Len(ks) = n
      /\ \A i \in 1..Len(ks) : s[ks[i]] \in Nodes(ks[i])
  <2>1. ks \in Seq(DOMAIN s) /\ Len(ks) = n
    BY <1>1, KeysOf DEF Count
  <2>2. \A i \in 1..n : ks[i] \in GameKeys /\ s[ks[i]] \in Nodes(ks[i])
    BY <1>1, KeysOf
  <2> HIDE DEF ks
  <2> QED BY <2>1, <2>2
<1>3. Header(t, n) \in Lists(Nat)
  BY HeaderWords DEF Lists, IsHeader
<1>4. PICK rows \in Seq(Lists(Nat)) :
        /\ rows = Rows(ks, s) /\ Len(rows) = n
        /\ \A i \in 1..n : rows[i] = Record(ks[i], s[ks[i]])
  <2> HIDE DEF ks
  <2> QED BY <1>2, RowsType
<1>5. \A i : Upto(t, s, i) = Joined(Header(t, n), rows, i)
  BY <1>1, <1>4 DEF Upto
<1>6. PICK first \in Lists(Nat) : first = Header(t, n)
  BY <1>3
<1>7. ASSUME NEW i \in 0..n PROVE Upto(t, s, i) \in Seq(Nat)
  <2>1. i \in 0..Len(rows)
    BY <1>4
  <2>2. Joined(first, rows, i) \in Lists(Nat)
    BY <2>1, JoinedType
  <2> QED BY <1>5, <1>6, <2>2 DEF Lists
<1>8. Upto(t, s, 0) = Header(t, n)
  BY <1>5, <1>6, JoinedZero
<1>9. ASSUME NEW i \in 0..(n - 1)
      PROVE  /\ Upto(t, s, i + 1) = Upto(t, s, i) \o Record(ks[i + 1], s[ks[i + 1]])
             /\ Record(ks[i + 1], s[ks[i + 1]]) \in Seq(Nat)
  <2>1. i \in 0..(Len(rows) - 1) /\ i + 1 \in 1..n
    BY <1>4
  <2>2. Joined(first, rows, i + 1) = Joined(first, rows, i) \o rows[i + 1]
    BY <2>1, JoinedNext
  <2>3. rows[i + 1] = Record(ks[i + 1], s[ks[i + 1]])
    BY <1>4, <2>1
  <2>4. rows[i + 1] \in Lists(Nat)
    BY <1>4, <2>1
  <2> HIDE DEF ks
  <2> QED BY <1>5, <1>6, <2>2, <2>3, <2>4 DEF Lists
<1> QED BY <1>1, <1>7, <1>8, <1>9

\* Each of these begins the next, and so all that follow.
LEMMA UptoBegins ==
  ASSUME NEW t \in Trainers, NEW s \in Stores, NEW i \in 0..Count(s)
  PROVE  Begins(Upto(t, s, Count(s)), Upto(t, s, i)) /\ i <= Len(Upto(t, s, i))
<1>1. PICK n \in Nat : n = Count(s)
  BY KeysOf
<1>2. ASSUME NEW j \in 0..(n - 1)
      PROVE  /\ Upto(t, s, j) \in Seq(Nat) /\ Upto(t, s, j + 1) \in Seq(Nat)
             /\ Begins(Upto(t, s, j + 1), Upto(t, s, j))
             /\ Len(Upto(t, s, j)) < Len(Upto(t, s, j + 1))
  <2>1. PICK a \in Seq(Nat) : a = Upto(t, s, j)
    BY <1>1, UptoSteps
  <2>2. PICK k \in GameKeys : k = SortedKeys(s)[j + 1] /\ s[k] \in Nodes(k)
    <3>1. j + 1 \in 1..n
      OBVIOUS
    <3> QED BY <1>1, <3>1, KeysOf
  <2>3. PICK r \in Seq(Nat) : r = Record(k, s[k]) /\ Len(r) # 0
    <3>1. IsRecord(Record(k, s[k]), EncodeKey(k), ActionCount[k], s[k].regret_sums, s[k].strategy_sums)
      BY <2>2, RecordWords
    <3>2. ActionCount[k] \in Nat
      BY <2>2, NodesOut
    <3> QED BY <3>1, <3>2 DEF IsRecord
  <2>4. Upto(t, s, j + 1) = a \o r
    BY <1>1, <2>1, <2>2, <2>3, UptoSteps
  <2>5. PICK b \in Seq(Nat) : b = a \o r /\ Joins(a, r, b)
    BY Concat DEF Joins
  <2>6. Len(a) < Len(b) /\ Begins(b, a)
    BY <2>3, <2>5 DEF Joins, Begins
  <2>7. Upto(t, s, j + 1) = b
    BY <2>4, <2>5
  <2> QED BY <2>1, <2>6, <2>7
<1>3. Upto(t, s, n) \in Seq(Nat)
  BY <1>1, UptoSteps
<1> DEFINE T == {j \in 0..n : Begins(Upto(t, s, n), Upto(t, s, j))}
           U == {j \in 0..n : j <= Len(Upto(t, s, j))}
<1>4. \A j \in 0..n : j \in T
  <2>1. n \in T
    BY <1>3 DEF Begins
  <2>2. ASSUME NEW j \in 1..n, j \in T PROVE j - 1 \in T
    <3>1. j - 1 \in 0..(n - 1) /\ (j - 1) + 1 = j /\ j - 1 \in 0..n
      OBVIOUS
    <3>2. PICK a \in Seq(Nat) : a = Upto(t, s, j - 1)
      BY <1>2, <3>1
    <3>3. PICK b \in Seq(Nat) : b = Upto(t, s, j)
      BY <1>2, <3>1
    <3>4. PICK c \in Seq(Nat) : c = Upto(t, s, n)
      BY <1>3
    <3>5. Begins(b, a)
      BY <1>2, <3>1, <3>2, <3>3
    <3>6. Begins(c, b)
      BY <2>2, <3>3, <3>4
    <3>7. Begins(c, a)
      BY <3>5, <3>6 DEF Begins
    <3> QED BY <3>1, <3>2, <3>4, <3>7
  <2> HIDE DEF T
  <2> QED BY <2>1, <2>2, DownwardInduction
<1>5. \A j \in 0..n : j \in U
  <2>1. 0 \in U
    <3>1. Upto(t, s, 0) \in Seq(Nat)
      BY <1>1, UptoSteps
    <3> QED BY <3>1
  <2>2. ASSUME NEW j \in 0..(n - 1), j \in U PROVE j + 1 \in U
    <3>1. PICK a \in Seq(Nat) : a = Upto(t, s, j)
      BY <1>2
    <3>2. PICK b \in Seq(Nat) : b = Upto(t, s, j + 1)
      BY <1>2
    <3>3. Len(a) < Len(b)
      BY <1>2, <3>1, <3>2
    <3>4. j <= Len(a)
      BY <2>2, <3>1
    <3> QED BY <3>2, <3>3, <3>4
  <2> HIDE DEF U
  <2> QED BY <2>1, <2>2, BoundedInduction
<1> QED BY <1>1, <1>4, <1>5

\* A payload is what was written with all records, and its checksum.
LEMMA PayloadWords ==
  ASSUME NEW t \in Trainers, NEW s \in Stores
  PROVE  LET P == Payload(t, s)
             U == Upto(t, s, Count(s))
         IN  /\ P \in Seq(Nat) /\ P = Sealed(U) /\ U \in Seq(Nat) /\ Len(P) = Len(U) + 1
             /\ \A j \in 1..Len(U) : P[j] = U[j]
             /\ P[Len(U) + 1] = Checksum(U)
             /\ \A i \in 0..Count(s) : Begins(P, Upto(t, s, i))
<1>1. PICK U \in Seq(Nat) : U = Upto(t, s, Count(s))
  BY KeysOf, UptoSteps
<1>2. Payload(t, s) = Sealed(U)
  BY <1>1 DEF Payload, Upto, Rows, Count
<1>3. PICK c \in Nat : c = Checksum(U)
  <2>1. U \in WordSeq
    BY DEF WordSeq
  <2>2. Checksum(U) \in Sums
    BY <2>1, ChecksumType
  <2>3. Sums \subseteq Nat
    BY DEF Sums
  <2> QED BY <2>2, <2>3
<1>4. PICK P \in Seq(Nat) : /\ P = Payload(t, s) /\ Len(P) = Len(U) + 1 /\ P[Len(U) + 1] = c
                            /\ \A j \in 1..Len(U) : P[j] = U[j]
  BY <1>2, <1>3 DEF Sealed
<1>5. ASSUME NEW i \in 0..Count(s) PROVE Begins(P, Upto(t, s, i))
  <2>1. PICK V \in Seq(Nat) : V = Upto(t, s, i)
    BY UptoSteps
  <2>2. Begins(U, V)
    BY <1>1, <2>1, UptoBegins
  <2> QED BY <1>4, <2>1, <2>2 DEF Begins
<1> QED BY <1>1, <1>2, <1>3, <1>4, <1>5

-----------------------------------------------------------------------------
\* Sequences of words.

\* Two lists with the same words are the same.
LEMMA Equal ==
  ASSUME NEW s \in Seq(Int), NEW t \in Seq(Int), Len(s) = Len(t), \A i \in 1..Len(s) : s[i] = t[i]
  PROVE  s = t
OBVIOUS

\* A part of a list, word by word.
LEMMA Part ==
  ASSUME NEW s \in Seq(Int), NEW m \in 1..(Len(s) + 1), NEW n \in (m - 1)..Len(s)
  PROVE  /\ SubSeq(s, m, n) \in Seq(Int) /\ Len(SubSeq(s, m, n)) = n - m + 1
         /\ \A i \in 1..(n - m + 1) : SubSeq(s, m, n)[i] = s[m + i - 1]
OBVIOUS

\* Lists of naturals are lists of words.
LEMMA NatWords == \A s \in Seq(Nat) : s \in Seq(Int)
OBVIOUS

\* A part of a list of words that agrees with a list of naturals is that list.
LEMMA PartIs ==
  ASSUME NEW w \in Seq(Int), NEW m \in 1..(Len(w) + 1), NEW n \in (m - 1)..Len(w), NEW t \in Seq(Nat),
         Len(t) = n - m + 1, \A j \in 1..Len(t) : w[m + j - 1] = t[j]
  PROVE  SubSeq(w, m, n) = t
<1>1. PICK s \in Seq(Int) : /\ s = SubSeq(w, m, n) /\ Len(s) = n - m + 1
                            /\ \A i \in 1..(n - m + 1) : s[i] = w[m + i - 1]
  BY Part
<1>2. t \in Seq(Int)
  BY NatWords
<1>3. \A i \in 1..Len(s) : s[i] = t[i]
  BY <1>1
<1>4. s = t
  BY <1>1, <1>2, <1>3, Equal
<1> QED BY <1>1, <1>4

IntJoins(s, t, v) ==
  /\ v \in Seq(Int) /\ Len(v) = Len(s) + Len(t)
  /\ \A i \in 1..Len(s) : v[i] = s[i]
  /\ \A i \in 1..Len(t) : v[Len(s) + i] = t[i]

\* A concatenation, word by word.
LEMMA IntConcat ==
  ASSUME NEW s \in Seq(Int), NEW t \in Seq(Int)
  PROVE  IntJoins(s, t, s \o t)
BY DEF IntJoins

\* A list of one word.
LEMMA OneInt ==
  ASSUME NEW x \in Int
  PROVE  <<x>> \in Seq(Int) /\ Len(<<x>>) = 1 /\ <<x>>[1] = x
OBVIOUS

\* A frame around a list of words.
IsFrame(f, P) ==
  /\ f \in Seq(Int) /\ Len(f) = Len(P) + 2 /\ f[1] = FrameStart /\ f[Len(P) + 2] = FrameEnd
  /\ \A j \in 1..Len(P) : f[j + 1] = P[j]

\* The frame that is written around a payload, where the format has one.
LEMMA Frame ==
  ASSUME NEW P \in Seq(Nat)
  PROVE  IsFrame(Framed(P, TRUE), P) /\ Framed(P, FALSE) = P
<1>1. PICK a \in Seq(Int) : a = <<FrameStart>> /\ Len(a) = 1 /\ a[1] = FrameStart
  <2>1. FrameStart \in Int
    BY DEF FrameStart
  <2>2. <<FrameStart>> \in Seq(Int) /\ Len(<<FrameStart>>) = 1 /\ <<FrameStart>>[1] = FrameStart
    BY <2>1, OneInt
  <2> QED BY <2>2, Zenon
<1>2. PICK e \in Seq(Int) : e = <<FrameEnd>> /\ Len(e) = 1 /\ e[1] = FrameEnd
  <2>1. FrameEnd \in Int
    BY DEF FrameEnd
  <2>2. <<FrameEnd>> \in Seq(Int) /\ Len(<<FrameEnd>>) = 1 /\ <<FrameEnd>>[1] = FrameEnd
    BY <2>1, OneInt
  <2> QED BY <2>2, Zenon
<1>3. P \in Seq(Int)
  BY NatWords
<1>4. PICK b \in Seq(Int) : b = a \o P /\ IntJoins(a, P, b)
  BY <1>3, IntConcat, ZenonT(30) DEF IntJoins
<1>5. PICK f \in Seq(Int) : f = b \o e /\ IntJoins(b, e, f)
  BY IntConcat DEF IntJoins
<1>6. Len(b) = 1 + Len(P) /\ b[1] = FrameStart /\ \A j \in 1..Len(P) : b[1 + j] = P[j]
  BY <1>1, <1>4 DEF IntJoins
<1>7. Len(f) = Len(P) + 2 /\ f[1] = FrameStart /\ \A j \in 1..Len(P) : f[j + 1] = P[j]
  BY <1>2, <1>5, <1>6 DEF IntJoins
<1>8. f[Len(P) + 2] = FrameEnd
  BY <1>2, <1>5, <1>6 DEF IntJoins
<1>9. Framed(P, TRUE) = f
  BY <1>1, <1>2, <1>4, <1>5 DEF Framed
<1> QED BY <1>7, <1>8, <1>9 DEF Framed, IsFrame

\* What is inside of a frame that ends at n, and of one that does not end.
LEMMA UnframedTo ==
  ASSUME NEW f \in Seq(Int), NEW n \in 1..Len(f), f[1] = FrameStart, f[n] = FrameEnd,
         \A j \in 1..(n - 1) : f[j] # FrameEnd
  PROVE  Unframed(f, TRUE) = SubSeq(f, 2, n - 1)
<1> DEFINE ends == {i \in DOMAIN f : f[i] = FrameEnd}
<1>1. n \in ends /\ ends # {} /\ \A j \in ends : n <= j
  OBVIOUS
<1>2. (CHOOSE i \in ends : \A j \in ends : i <= j) = n
  <2>1. \A i \in ends : (\A j \in ends : i <= j) => i = n
    BY <1>1
  <2> HIDE DEF ends
  <2> QED BY <1>1, <2>1
<1>3. f # <<>>
  OBVIOUS
<1>4. Unframed(f, TRUE) = SubSeq(f, 2, IF ends = {} THEN Len(f)
                                        ELSE (CHOOSE i \in ends : \A j \in ends : i <= j) - 1)
  BY <1>3 DEF Unframed
<1> HIDE DEF ends
<1> QED BY <1>1, <1>2, <1>4

\* Without an end, everything behind the start is inside.
LEMMA UnframedOpen ==
  ASSUME NEW f \in Seq(Int), f # <<>>, f[1] = FrameStart, \A j \in 1..Len(f) : f[j] # FrameEnd
  PROVE  Unframed(f, TRUE) = SubSeq(f, 2, Len(f))
<1> DEFINE ends == {i \in DOMAIN f : f[i] = FrameEnd}
<1>1. ends = {}
  OBVIOUS
<1>4. Unframed(f, TRUE) = SubSeq(f, 2, IF ends = {} THEN Len(f)
                                        ELSE (CHOOSE i \in ends : \A j \in ends : i <= j) - 1)
  BY DEF Unframed
<1> HIDE DEF ends
<1> QED BY <1>1, <1>4

\* What is inside of a frame is what was put into it, and it ends cleanly.
LEMMA FrameRead ==
  ASSUME NEW P \in Seq(Nat), NEW zstd \in BOOLEAN
  PROVE  /\ Unframed(Framed(P, zstd), zstd) = P
         /\ EndsCleanly(Framed(P, zstd), zstd, Len(P) + 1)
<1>1. CASE zstd = TRUE
  <2>1. PICK f \in Seq(Int) : f = Framed(P, TRUE) /\ IsFrame(f, P)
    BY Frame DEF IsFrame
  <2>2. PICK n \in Nat : n = Len(P) + 2
    OBVIOUS
  <2>3. n \in 1..Len(f) /\ f[1] = FrameStart /\ f[n] = FrameEnd /\ Len(f) = n
    <3>1. Len(f) = Len(P) + 2 /\ f[1] = FrameStart /\ f[Len(P) + 2] = FrameEnd
      BY <2>1 DEF IsFrame
    <3>2. Len(f) = n /\ f[n] = FrameEnd
      BY <2>2, <3>1
    <3>3. n \in 1..n
      BY <2>2
    <3> QED BY <3>1, <3>2, <3>3
  <2>4. ASSUME NEW j \in 1..(n - 1) PROVE f[j] # FrameEnd
    <3>1. CASE j = 1
      BY <2>3, <3>1 DEF FrameStart, FrameEnd
    <3>2. CASE j # 1
      <4>1. PICK i \in 1..Len(P) : i + 1 = j
        <5>1. j - 1 \in 1..Len(P) /\ (j - 1) + 1 = j
          BY <2>2, <3>2
        <5> QED BY <5>1
      <4>2. f[i + 1] = P[i]
        BY <2>1 DEF IsFrame
      <4>3. P[i] \in Nat
        OBVIOUS
      <4> QED BY <4>1, <4>2, <4>3 DEF FrameEnd
    <3> QED BY <3>1, <3>2
  <2>5. Unframed(f, TRUE) = SubSeq(f, 2, n - 1)
    BY <2>3, <2>4, UnframedTo
  <2>6. SubSeq(f, 2, n - 1) = P
    <3>1. 2 \in 1..(Len(f) + 1) /\ n - 1 \in (2 - 1)..Len(f)
      BY <2>2, <2>3
    <3>2. Len(P) = (n - 1) - 2 + 1
      BY <2>2
    <3>3. \A j \in 1..Len(P) : f[2 + j - 1] = P[j]
      <4> SUFFICES ASSUME NEW j \in 1..Len(P) PROVE f[2 + j - 1] = P[j]
        OBVIOUS
      <4>1. 2 + j - 1 = j + 1
        OBVIOUS
      <4> QED BY <2>1, <4>1 DEF IsFrame
    <3> QED BY <3>1, <3>2, <3>3, PartIs
  <2>7. EndsCleanly(f, TRUE, Len(P) + 1)
    <3>1. Len(f) = (Len(P) + 1) + 1
      BY <2>2, <2>3
    <3>2. f[Len(f)] = FrameEnd
      BY <2>3
    <3> QED BY <3>1, <3>2 DEF EndsCleanly
  <2> QED BY <1>1, <2>1, <2>5, <2>6, <2>7
<1>2. CASE zstd = FALSE
  <2>1. Framed(P, FALSE) = P
    BY Frame
  <2>2. Unframed(P, FALSE) = P
    BY DEF Unframed
  <2>3. Len(P) = (Len(P) + 1) - 1
    OBVIOUS
  <2>4. EndsCleanly(P, FALSE, Len(P) + 1)
    BY <2>3 DEF EndsCleanly
  <2> QED BY <1>2, <2>1, <2>2, <2>4
<1> QED BY <1>1, <1>2

-----------------------------------------------------------------------------
\* Reading a payload, or a file that agrees with it as far as both go.

KeysUpto(s, i) == {SortedKeys(s)[j] : j \in 1..i}

\* The reader when i records of the payload of t and s were read.
ReaderAt(t, s, i) ==
  [status |-> "SUCCESS", pos |-> Len(Upto(t, s, i)) + 1, variant |-> t.variant, rng |-> t.rng,
   training_iterations |-> t.training_iterations, stats |-> t.stats, left |-> Count(s) - i,
   nodes |-> [k \in KeysUpto(s, i) |-> s[k]]]

Agrees(w, P) == w \in Seq(Int) /\ \A i \in 1..Len(w) : i <= Len(P) => w[i] = P[i]

\* Words that agree with a payload agree with what the payload begins with.
LEMMA AgreesBegin ==
  ASSUME NEW w, NEW P \in Seq(Nat), NEW U \in Seq(Nat), Agrees(w, P), Begins(P, U)
  PROVE  \A i \in 1..Len(U) : i <= Len(w) => w[i] = U[i]
BY DEF Agrees, Begins

\* An error is seen in the status.
LEMMA FailedStatus ==
  ASSUME NEW r, "status" \in DOMAIN r, NEW x
  PROVE  Failed(r, x).status = x
BY DEF Failed

\* The header of such a file is read, or it is too short and refused.
LEMMA HeaderRead ==
  ASSUME NEW t \in Trainers, NEW s \in Stores, NEW w, Agrees(w, Payload(t, s))
  PROVE  /\ ReadHeader(w) = ReaderAt(t, s, 0) \/ ReadHeader(w).status # "SUCCESS"
         /\ Len(w) >= Len(Upto(t, s, 0)) => ReadHeader(w) = ReaderAt(t, s, 0)
<1>1. PICK count \in Nat : count = Count(s)
  BY KeysOf
<1>2. PICK H \in Seq(Nat) : H = Upto(t, s, 0) /\ H = Header(t, count)
  BY <1>1, UptoSteps
<1>3. PICK n \in Nat : n = Len(SchemaId) /\ n \in 1..SchemaIdMaxLength
  BY FormatAssumption
<1>4. PICK m \in {0, 1} : m = Rng(t)
  BY DEF Rng
<1>5. /\ Len(H) = n + m + 10 /\ H[1] = Magic /\ H[2] = Version /\ H[3] = n
      /\ \A j \in 1..n : H[3 + j] = SchemaId[j]
      /\ H[n + 4] = VariantCode[t.variant] /\ (m = 1 => H[n + 5] = t.rng)
      /\ H[n + m + 5] = t.training_iterations
      /\ \A j \in 1..4 : H[n + m + 5 + j] = t.stats[j]
      /\ H[n + m + 10] = count
  <2>1. IsHeader(H, t, count, n, m)
    BY <1>2, <1>3, <1>4, HeaderWords
  <2> QED BY <2>1 DEF IsHeader
<1>6. w \in Seq(Int)
  BY DEF Agrees
<1>7. \A i \in 1..Len(H) : i <= Len(w) => w[i] = H[i]
  <2>1. PICK P \in Seq(Nat) : P = Payload(t, s)
    BY PayloadWords
  <2>2. 0 \in 0..Count(s)
    BY <1>1
  <2>3. Begins(P, H)
    BY <1>2, <2>1, <2>2, PayloadWords
  <2> QED BY <2>1, <2>3, AgreesBegin
<1>8. "status" \in DOMAIN NewReader
  BY DEF NewReader
<1>9. Failed(NewReader, "FORMAT_ERROR").status # "SUCCESS"
  BY <1>8, FailedStatus
<1> DEFINE at == 3 + w[3]
           known == \E v \in Variants : VariantCode[v] = w[at + 1]
           name == CHOOSE v \in Variants : VariantCode[v] = w[at + 1]
           size == at + 1 + (IF name = "MCCFR_EXTERNAL" THEN 1 ELSE 0)
           first == /\ Len(w) >= 3 /\ w[1] = Magic /\ w[2] = Version
                    /\ w[3] \in 1 .. SchemaIdMaxLength /\ Len(w) >= at
           second == Len(w) >= at + 1 /\ known /\ Len(w) >= size + 6
<1>10. ReadHeader(w) = IF ~first THEN Failed(NewReader, "FORMAT_ERROR")
                       ELSE IF SubSeq(w, 4, at) # SchemaId THEN Failed(NewReader, "INCOMPATIBLE_GAME")
                       ELSE IF ~second THEN Failed(NewReader, "FORMAT_ERROR")
                       ELSE HeaderFields(w, size, name)
  BY DEF ReadHeader
<1>11. PICK l \in Nat : l = Len(w)
  BY <1>6
<1>12. CASE l < n + 3
  <2>1. ~first
    <3>1. l >= 3 => at = n + 3
      BY <1>5, <1>7, <1>11
    <3> QED BY <1>11, <1>12, <3>1
  <2> HIDE DEF first, second, at, name, size
  <2>2. ~(Len(w) >= Len(H))
    BY <1>5, <1>11, <1>12
  <2> QED BY <1>2, <1>9, <1>10, <2>1, <2>2
<1>13. CASE l >= n + 3
  <2>1. w[1] = Magic /\ w[2] = Version /\ w[3] = n
    <3>0. Len(H) >= 3 /\ Len(w) >= 3
      <4>1. Len(H) = n + m + 10
        BY <1>5
      <4>2. Len(H) >= 3
        BY <4>1
      <4> QED BY <1>11, <1>13, <4>2
    <3>1. \A i \in {1, 2, 3} : i \in 1..Len(H) /\ i <= Len(w)
      BY <3>0
    <3>2. w[1] = H[1] /\ w[2] = H[2] /\ w[3] = H[3]
      BY <1>7, <3>1
    <3> QED BY <1>5, <3>2
  <2>2. at = n + 3
    BY <2>1
  <2>3. first
    BY <1>3, <1>11, <1>13, <2>1, <2>2
  <2> HIDE DEF first
  <2>4. SubSeq(w, 4, at) = SchemaId
    <3>1. SchemaId \in Seq(Nat)
      BY FormatAssumption
    <3>2. 4 \in 1..(Len(w) + 1) /\ n + 3 \in (4 - 1)..Len(w) /\ n = (n + 3) - 4 + 1
      BY <1>11, <1>13
    <3>3. ASSUME NEW j \in 1..Len(SchemaId) PROVE w[4 + j - 1] = SchemaId[j]
      <4>1. 4 + j - 1 = 3 + j /\ 3 + j \in 1..Len(H) /\ 3 + j <= Len(w) /\ j \in 1..n
        <5>1. j \in 1..n
          BY <1>3
        <5>2. 4 + j - 1 = 3 + j /\ 3 + j \in 1..(n + m + 10) /\ 3 + j <= l
          BY <1>13, <5>1
        <5> QED BY <1>5, <1>11, <5>1, <5>2
      <4>2. w[3 + j] = H[3 + j] /\ H[3 + j] = SchemaId[j]
        BY <1>5, <1>7, <4>1
      <4> QED BY <4>1, <4>2
    <3>4. SubSeq(w, 4, n + 3) = SchemaId
      BY <1>3, <1>6, <3>1, <3>2, <3>3, PartIs
    <3> QED BY <2>2, <3>4
  <2>5. CASE l < n + m + 10
    <3>1. ~second
      <4>1. CASE l < n + 4
        BY <1>11, <2>2, <4>1
      <4>2. CASE l >= n + 4
        <5>1. w[at + 1] = VariantCode[t.variant]
          <6>1. at + 1 = n + 4 /\ n + 4 \in 1..Len(H) /\ n + 4 <= Len(w)
            BY <1>5, <1>11, <2>2, <4>2, SMTT(30)
          <6> HIDE DEF at
          <6> QED BY <1>5, <1>7, <6>1
        <5>2. name = t.variant
          BY <5>1, CodesDiffer DEF Trainers
        <5>3. size = n + m + 4
          <6> HIDE DEF at, name
          <6> QED BY <1>4, <2>2, <5>2 DEF Rng
        <5> HIDE DEF size, at, known
        <5> QED BY <1>11, <2>5, <5>3
      <4> QED BY <4>1, <4>2
    <3> HIDE DEF second, at, name, size
    <3>2. ~(Len(w) >= Len(H))
      BY <1>5, <1>11, <2>5
    <3> QED BY <1>2, <1>9, <1>10, <2>3, <2>4, <3>1, <3>2
  <2>6. CASE l >= n + m + 10
    <3>1. \A i \in 1..(n + m + 10) : w[i] = H[i]
      BY <1>5, <1>7, <1>11, <2>6
    <3>2. w[at + 1] = VariantCode[t.variant]
      <4>1. at + 1 = n + 4 /\ n + 4 \in 1..(n + m + 10)
        BY <2>2
      <4> HIDE DEF at
      <4> QED BY <1>5, <3>1, <4>1
    <3>3. name = t.variant /\ known
      BY <3>2, CodesDiffer DEF Trainers
    <3>4. size = n + m + 4
      <4> HIDE DEF at, name, known
      <4> QED BY <1>4, <2>2, <3>3 DEF Rng
    <3>5. second
      <4> HIDE DEF name, size, known
      <4> QED BY <1>11, <2>2, <2>6, <3>3, <3>4
    <3> HIDE DEF second, at, name, size, known
    <3>6. ReadHeader(w) = HeaderFields(w, n + m + 4, t.variant)
      BY <1>10, <2>3, <2>4, <3>3, <3>4, <3>5
    <3>7. (IF t.variant = "MCCFR_EXTERNAL" THEN w[n + m + 4] ELSE 0) = t.rng
      <4>1. CASE t.variant = "MCCFR_EXTERNAL"
        <5>1. m = 1
          BY <1>4, <4>1 DEF Rng
        <5>2. w[n + m + 4] = H[n + 5]
          BY <3>1, <5>1
        <5> QED BY <1>5, <4>1, <5>1, <5>2
      <4>2. CASE t.variant # "MCCFR_EXTERNAL"
        BY <4>2 DEF Trainers
      <4> QED BY <4>1, <4>2
    <3>8. w[(n + m + 4) + 1] = t.training_iterations
      <4>1. n + m + 5 \in 1..(n + m + 10) /\ (n + m + 4) + 1 = n + m + 5
        OBVIOUS
      <4> QED BY <1>5, <3>1, <4>1
    <3>9. SubSeq(w, (n + m + 4) + 2, (n + m + 4) + 5) = t.stats
      <4>1. PICK stats \in Seq(Nat) : stats = t.stats /\ Len(stats) = 4
        BY DEF Trainers
      <4>2. PICK from \in 1..(Len(w) + 1) : from = (n + m + 4) + 2
        BY <1>11, <2>6
      <4>3. PICK to \in (from - 1)..Len(w) : to = (n + m + 4) + 5
        BY <1>11, <2>6, <4>2
      <4>4. Len(stats) = to - from + 1
        BY <4>1, <4>2, <4>3
      <4>5. ASSUME NEW j \in 1..Len(stats) PROVE w[from + j - 1] = stats[j]
        <5>1. from + j - 1 = n + m + 5 + j /\ n + m + 5 + j \in 1..(n + m + 10) /\ j \in 1..4
          BY <4>1, <4>2
        <5> QED BY <1>5, <3>1, <4>1, <5>1
      <4>6. SubSeq(w, from, to) = stats
        BY <1>6, <4>4, <4>5, PartIs
      <4> QED BY <4>1, <4>2, <4>3, <4>6
    <3>10. w[(n + m + 4) + 6] = count
      <4>1. n + m + 10 \in 1..(n + m + 10) /\ (n + m + 4) + 6 = n + m + 10
        OBVIOUS
      <4> QED BY <1>5, <3>1, <4>1
    <3>11. (n + m + 4) + 7 = Len(H) + 1
      BY <1>5
    <3>12. [k \in KeysUpto(s, 0) |-> s[k]] = <<>>
      <4>1. KeysUpto(s, 0) = {}
        BY DEF KeysUpto
      <4> QED BY <4>1
    <3>13. Count(s) - 0 = count
      BY <1>1
    <3>14. HeaderFields(w, n + m + 4, t.variant) = ReaderAt(t, s, 0)
      BY <1>2, <3>7, <3>8, <3>9, <3>10, <3>11, <3>12, <3>13 DEF HeaderFields, ReaderAt
    <3> QED BY <3>6, <3>14
  <2> QED BY <1>11, <2>5, <2>6
<1> QED BY <1>11, <1>12, <1>13

\* A record that is there is read, and one that is cut off is an error.
IsNext(V, U, k, c, x) ==
  /\ Len(V) = Len(U) + 2 + 2 * c /\ V[Len(U) + 1] = EncodeKey(k) /\ V[Len(U) + 2] = c
  /\ \A j \in 1..c : /\ V[Len(U) + 2 + j] = x.regret_sums[j]
                     /\ V[Len(U) + 2 + c + j] = x.strategy_sums[j]

\* The words of the next record, at their places.
LEMMA SuffixWords ==
  ASSUME NEW t \in Trainers, NEW s \in Stores, NEW i \in 0..(Count(s) - 1), NEW k,
         k = SortedKeys(s)[i + 1]
  PROVE  IsNext(Upto(t, s, i + 1), Upto(t, s, i), k, ActionCount[k], s[k])
<1>1. PICK n \in Nat : n = Count(s)
  BY KeysOf
<1>2. i + 1 \in 1..n /\ i \in 0..n /\ i + 1 \in 0..n
  BY <1>1
<1>3. k \in GameKeys /\ s[k] \in Nodes(k) /\ k \in DOMAIN s
  BY <1>1, <1>2, KeysOf
<1>4. PICK U \in Seq(Nat) : U = Upto(t, s, i)
  BY <1>1, <1>2, UptoSteps
<1>5. PICK V \in Seq(Nat) : V = Upto(t, s, i + 1)
  BY <1>1, <1>2, UptoSteps
<1>6. PICK c \in Nat : c = ActionCount[k]
  BY <1>3, NodesOut
<1>7. PICK r \in Seq(Nat) : /\ r = Record(k, s[k])
                            /\ IsRecord(r, EncodeKey(k), c, s[k].regret_sums, s[k].strategy_sums)
  <2>1. IsRecord(Record(k, s[k]), EncodeKey(k), c, s[k].regret_sums, s[k].strategy_sums)
    BY <1>3, <1>6, RecordWords
  <2>2. Record(k, s[k]) \in Seq(Nat)
    BY <2>1 DEF IsRecord
  <2> QED BY <2>1, <2>2, Zenon
<1>8. V = U \o r
  BY <1>3, <1>4, <1>5, <1>7, UptoSteps
<1>9. Joins(U, r, V)
  BY <1>8, Concat
<1>10. Len(V) = Len(U) + 2 + 2 * c
  BY <1>7, <1>9 DEF Joins, IsRecord
<1>11. \A j \in 1..(2 + 2 * c) : V[Len(U) + j] = r[j]
  BY <1>7, <1>9 DEF Joins, IsRecord
<1>12. V[Len(U) + 1] = EncodeKey(k) /\ V[Len(U) + 2] = c
  BY <1>7, <1>11 DEF IsRecord
<1>13. ASSUME NEW j \in 1..c
       PROVE  /\ V[Len(U) + 2 + j] = s[k].regret_sums[j]
              /\ V[Len(U) + 2 + c + j] = s[k].strategy_sums[j]
  <2>1. 2 + j \in 1..(2 + 2 * c) /\ 2 + c + j \in 1..(2 + 2 * c)
    OBVIOUS
  <2>2. Len(U) + 2 + j = Len(U) + (2 + j) /\ Len(U) + 2 + c + j = Len(U) + (2 + c + j)
    OBVIOUS
  <2>3. V[Len(U) + (2 + j)] = r[2 + j] /\ V[Len(U) + (2 + c + j)] = r[2 + c + j]
    BY <1>11, <2>1
  <2> QED BY <1>7, <2>2, <2>3 DEF IsRecord
<1>14. IsNext(V, U, k, c, s[k])
  BY <1>10, <1>12, <1>13 DEF IsNext
<1> QED BY <1>4, <1>5, <1>6, <1>14

Readers == [status : {"SUCCESS"}, pos : Int, variant : Variants, rng : Nat,
            training_iterations : Nat, stats : Seq(Nat), left : Int, nodes : Stores]

\* What a reader holds.
LEMMA ReaderAtType ==
  ASSUME NEW t \in Trainers, NEW s \in Stores, NEW i \in 0..Count(s)
  PROVE  ReaderAt(t, s, i) \in Readers
<1>1. PICK U \in Seq(Nat) : U = Upto(t, s, i)
  BY UptoSteps
<1>2. Count(s) \in Nat
  BY KeysOf
<1>3. [k \in KeysUpto(s, i) |-> s[k]] \in Stores
  <2>1. \A j \in 1..i : j \in 1..Count(s)
    BY <1>2
  <2>2. \A k \in KeysUpto(s, i) : k \in GameKeys /\ s[k] \in Nodes(k)
    BY <2>1, KeysOf DEF KeysUpto
  <2> DEFINE D == KeysUpto(s, i)
             r == [k \in D |-> s[k]]
  <2>3. r = [k \in D |-> r[k]] /\ \A k \in D : r[k] \in Nodes(k)
    BY <2>2
  <2>4. D \in SUBSET GameKeys
    BY <2>2
  <2> HIDE DEF r, D
  <2>5. r \in Stores
    BY <2>3, <2>4, StoresIn
  <2> QED BY <2>5 DEF r, D
<1> DEFINE n == [k \in KeysUpto(s, i) |-> s[k]]
           p == Len(Upto(t, s, i)) + 1
<1>4. n \in Stores
  BY <1>3
<1>5. p \in Int
  BY <1>1
<1>6. Count(s) - i \in Int
  BY <1>2
<1>7. t.variant \in Variants /\ t.rng \in Nat /\ t.training_iterations \in Nat /\ t.stats \in Seq(Nat)
  BY DEF Trainers
<1>8. ReaderAt(t, s, i) = [status |-> "SUCCESS", pos |-> p, variant |-> t.variant, rng |-> t.rng,
                           training_iterations |-> t.training_iterations, stats |-> t.stats,
                           left |-> Count(s) - i, nodes |-> n]
  BY DEF ReaderAt
<1> HIDE DEF n, p
<1> QED BY <1>4, <1>5, <1>6, <1>7, <1>8 DEF Readers

\* Readers that hold the same are the same.
LEMMA SameReader ==
  ASSUME NEW u \in Readers, NEW v \in Readers, u.pos = v.pos, u.variant = v.variant, u.rng = v.rng,
         u.training_iterations = v.training_iterations, u.stats = v.stats, u.left = v.left,
         u.nodes = v.nodes
  PROVE  u = v
BY DEF Readers

\* A reader that has read a record is a reader.
LEMMA ReaderMoves ==
  ASSUME NEW r \in Readers, NEW q \in Int, NEW nodes \in Stores
  PROVE  [r EXCEPT !.pos = q, !.left = @ - 1, !.nodes = nodes] \in Readers
<1>1. r.left \in Int /\ r.left - 1 \in Int
  BY DEF Readers
<1> QED BY <1>1 DEF Readers

\* The next record is read, or it is cut off and refused.
LEMMA RecordRead ==
  ASSUME NEW t \in Trainers, NEW s \in Stores, ValidStore(t, s), NEW i \in 0..(Count(s) - 1),
         NEW w, Agrees(w, Payload(t, s))
  PROVE  LET r == ReadNode(w, ReaderAt(t, s, i))
         IN  /\ r = ReaderAt(t, s, i + 1) \/ r.status # "SUCCESS"
             /\ Len(w) >= Len(Upto(t, s, i + 1)) => r = ReaderAt(t, s, i + 1)
<1>1. PICK n \in Nat : n = Count(s)
  BY KeysOf
<1>2. i + 1 \in 1..n /\ i \in 0..n /\ i + 1 \in 0..n
  BY <1>1
<1>3. PICK k \in GameKeys : k = SortedKeys(s)[i + 1] /\ s[k] \in Nodes(k) /\ k \in DOMAIN s
  BY <1>1, <1>2, KeysOf
<1>4. PICK U \in Seq(Nat) : U = Upto(t, s, i)
  BY <1>1, <1>2, UptoSteps
<1>5. PICK V \in Seq(Nat) : V = Upto(t, s, i + 1)
  BY <1>1, <1>2, UptoSteps
<1>6. PICK c \in Nat : c = ActionCount[k] /\ c \in 1..MaxLegalActions
  BY <1>3, NodesOut
<1>7. PICK rs \in Seq(Nat) : rs = s[k].regret_sums /\ Len(rs) = c
  BY <1>3, <1>6, NodesOut
<1>8. PICK ss \in Seq(Nat) : ss = s[k].strategy_sums /\ Len(ss) = c
  BY <1>3, <1>6, NodesOut
<1>9. PICK p \in Nat \ {0} : p = Len(U) + 1
  OBVIOUS
<1>10. /\ Len(V) = p + 1 + 2 * c /\ V[p] = EncodeKey(k) /\ V[p + 1] = c
       /\ \A j \in 1..c : V[p + 1 + j] = rs[j] /\ V[p + 1 + c + j] = ss[j]
  <2>1. /\ Len(V) = Len(U) + 2 + 2 * c
        /\ V[Len(U) + 1] = EncodeKey(k) /\ V[Len(U) + 2] = c
        /\ \A j \in 1..c : V[Len(U) + 2 + j] = rs[j] /\ V[Len(U) + 2 + c + j] = ss[j]
    <3>1. IsNext(V, U, k, c, s[k])
      BY <1>3, <1>4, <1>5, <1>6, SuffixWords
    <3> QED BY <1>7, <1>8, <3>1 DEF IsNext
  <2>2. Len(U) + 2 = p + 1
    BY <1>9
  <2>3. \A j \in 1..c : V[p + 1 + j] = rs[j] /\ V[p + 1 + c + j] = ss[j]
    BY <2>1, <2>2
  <2> QED BY <1>9, <2>1, <2>2, <2>3
<1>11. w \in Seq(Int)
  BY DEF Agrees
<1>12. PICK l \in Nat : l = Len(w)
  BY <1>11
<1>13. \A j \in 1..Len(V) : j <= l => w[j] = V[j]
  <2>1. PICK P \in Seq(Nat) : P = Payload(t, s)
    BY PayloadWords
  <2>2. i + 1 \in 0..Count(s)
    BY <1>1, <1>2
  <2>3. Begins(P, V)
    BY <1>5, <2>1, <2>2, PayloadWords
  <2> QED BY <1>12, <2>1, <2>3, AgreesBegin
<1>14. PICK r \in Readers : r = ReaderAt(t, s, i)
  BY <1>1, <1>2, ReaderAtType
<1>15. /\ r.pos = p /\ r.variant = t.variant /\ r.left = n - i /\ r.rng = t.rng
       /\ r.training_iterations = t.training_iterations /\ r.stats = t.stats
       /\ r.nodes = [x \in KeysUpto(s, i) |-> s[x]]
  BY <1>1, <1>4, <1>9, <1>14 DEF ReaderAt
<1>16. Failed(r, "FORMAT_ERROR").status # "SUCCESS"
  BY FailedStatus DEF Readers
<1> DEFINE count == w[p + 1]
           key == DecodeKey(w[p])
           next == p + 2 + 2 * count
           node == [regret_sums |-> SubSeq(w, p + 2, p + 1 + count),
                    strategy_sums |-> SubSeq(w, p + 2 + count, next - 1)]
           okay == /\ l >= p + 1
                   /\ count \in 1..MaxLegalActions
                   /\ key \notin DOMAIN r.nodes
                   /\ l >= next - 1
                   /\ ValidNode(node, t.variant)
           more == [r EXCEPT !.pos = next, !.left = @ - 1,
                             !.nodes = [x \in DOMAIN r.nodes \cup {key} |->
                                           IF x = key THEN node ELSE r.nodes[x]]]
<1>17. ReadNode(w, r) = IF okay THEN more ELSE Failed(r, "FORMAT_ERROR")
  BY <1>12, <1>15 DEF ReadNode
<1>18. CASE l < Len(V)
  <2>1. ~okay
    <3>1. CASE l < p + 1
      BY <3>1
    <3>2. CASE l >= p + 1
      <4>1. w[p + 1] = V[p + 1]
        BY <1>10, <1>13, <3>2
      <4>2. next = p + 2 + 2 * c
        BY <1>10, <4>1
      <4> HIDE DEF next, count, key, node
      <4> QED BY <1>10, <1>18, <4>2
    <3> QED BY <3>1, <3>2
  <2> HIDE DEF okay, more
  <2>2. ~(Len(w) >= Len(Upto(t, s, i + 1)))
    BY <1>5, <1>12, <1>18
  <2> QED BY <1>14, <1>16, <1>17, <2>1, <2>2
<1>19. CASE l >= Len(V)
  <2>1. \A j \in 1..Len(V) : w[j] = V[j]
    BY <1>13, <1>19
  <2>2. count = c
    <3>1. p + 1 \in 1..Len(V)
      BY <1>10
    <3> QED BY <1>10, <2>1, <3>1
  <2>3. key = k
    <3>1. p \in 1..Len(V)
      BY <1>10
    <3> QED BY <1>3, <1>10, <2>1, <3>1, EncodeDecode
  <2>4. next = p + 2 + 2 * c
    BY <2>2
  <2>5. SubSeq(w, p + 2, p + 1 + c) = rs
    <3>1. PICK from \in 1..(Len(w) + 1) : from = p + 2
      BY <1>10, <1>12, <1>19
    <3>2. PICK to \in (from - 1)..Len(w) : to = p + 1 + c
      BY <1>10, <1>12, <1>19, <3>1
    <3>3. Len(rs) = to - from + 1
      BY <1>7, <3>1, <3>2
    <3>4. ASSUME NEW j \in 1..Len(rs) PROVE w[from + j - 1] = rs[j]
      <4>1. from + j - 1 = p + 1 + j /\ p + 1 + j \in 1..Len(V) /\ j \in 1..c
        <5>1. j \in 1..c /\ from + j - 1 = p + 1 + j
          BY <1>7, <3>1
        <5>2. p + 1 + j \in 1..(p + 1 + 2 * c)
          BY <5>1
        <5> QED BY <1>10, <5>1, <5>2
      <4> QED BY <1>10, <2>1, <4>1
    <3>5. SubSeq(w, from, to) = rs
      BY <1>11, <3>3, <3>4, PartIs
    <3> QED BY <3>1, <3>2, <3>5
  <2>6. SubSeq(w, p + 2 + c, (p + 2 + 2 * c) - 1) = ss
    <3>1. PICK from \in 1..(Len(w) + 1) : from = p + 2 + c
      BY <1>10, <1>12, <1>19
    <3>2. PICK to \in (from - 1)..Len(w) : to = (p + 2 + 2 * c) - 1
      BY <1>10, <1>12, <1>19, <3>1
    <3>3. Len(ss) = to - from + 1
      BY <1>8, <3>1, <3>2
    <3>4. ASSUME NEW j \in 1..Len(ss) PROVE w[from + j - 1] = ss[j]
      <4>1. from + j - 1 = p + 1 + c + j /\ p + 1 + c + j \in 1..Len(V) /\ j \in 1..c
        BY <1>8, <1>10, <3>1
      <4> QED BY <1>10, <2>1, <4>1
    <3>5. SubSeq(w, from, to) = ss
      BY <1>11, <3>3, <3>4, PartIs
    <3> QED BY <3>1, <3>2, <3>5
  <2>7. node = s[k]
    <3>1. node = [regret_sums |-> rs, strategy_sums |-> ss]
      BY <2>2, <2>4, <2>5, <2>6
    <3>2. s[k] = [regret_sums |-> s[k].regret_sums, strategy_sums |-> s[k].strategy_sums]
      BY <1>3, NodesOut
    <3> HIDE DEF node
    <3> QED BY <1>7, <1>8, <3>1, <3>2
  <2>8. k \notin KeysUpto(s, i)
    <3> SUFFICES ASSUME NEW j \in 1..i, SortedKeys(s)[j] = k PROVE FALSE
      BY DEF KeysUpto
    <3>1. j \in 1..n /\ j # i + 1
      BY <1>1, <1>2
    <3> QED BY <1>1, <1>2, <1>3, <3>1, KeysOf
  <2>9. KeysUpto(s, i + 1) = KeysUpto(s, i) \cup {k}
    <3>1. \A j : j \in 1..(i + 1) <=> j \in 1..i \/ j = i + 1
      BY <1>2
    <3> QED BY <1>3, <3>1 DEF KeysUpto
  <2>10. ValidNode(node, t.variant)
    BY <1>3, <2>7 DEF ValidStore
  <2>11. okay
    <3> HIDE DEF node, key, count, next
    <3>1. l >= p + 1 + 2 * c
      BY <1>10, <1>19
    <3>2. l >= p + 1 /\ l >= next - 1
      BY <2>4, <3>1
    <3>3. key \notin DOMAIN r.nodes
      BY <1>15, <2>3, <2>8
    <3> QED BY <1>6, <2>2, <2>10, <3>2, <3>3
  <2>12. [x \in DOMAIN r.nodes \cup {key} |-> IF x = key THEN node ELSE r.nodes[x]]
           = [x \in KeysUpto(s, i + 1) |-> s[x]]
    <3> HIDE DEF node, key
    <3> QED BY <1>15, <2>3, <2>7, <2>8, <2>9
  <2>13. more = ReaderAt(t, s, i + 1)
    <3>1. PICK v \in Readers : v = ReaderAt(t, s, i + 1)
      BY <1>1, <1>2, ReaderAtType
    <3>2. /\ v.pos = Len(V) + 1 /\ v.variant = t.variant /\ v.left = n - (i + 1) /\ v.rng = t.rng
          /\ v.training_iterations = t.training_iterations /\ v.stats = t.stats
          /\ v.nodes = [x \in KeysUpto(s, i + 1) |-> s[x]]
      BY <1>1, <1>5, <3>1 DEF ReaderAt
    <3>3. PICK nodes \in Stores : nodes = [x \in KeysUpto(s, i + 1) |-> s[x]]
      BY <3>1, <3>2 DEF Readers
    <3>4. PICK q \in Int : q = p + 2 + 2 * c
      OBVIOUS
    <3> DEFINE u == [r EXCEPT !.pos = q, !.left = @ - 1, !.nodes = nodes]
    <3>5. more = u
      <4> HIDE DEF node, key, count, next
      <4> QED BY <2>4, <2>12, <3>3, <3>4
    <3> HIDE DEF more
    <3>6. u \in Readers
      BY <3>3, <3>4, ReaderMoves
    <3>7. /\ u.pos = q /\ u.left = r.left - 1 /\ u.nodes = nodes /\ u.variant = r.variant
          /\ u.rng = r.rng /\ u.training_iterations = r.training_iterations /\ u.stats = r.stats
      BY DEF Readers
    <3> HIDE DEF u
    <3>8. u.pos = v.pos /\ u.left = v.left
      BY <1>2, <1>10, <1>15, <3>2, <3>4, <3>7
    <3>9. u = v
      BY <1>15, <3>2, <3>3, <3>6, <3>7, <3>8, SameReader
    <3> QED BY <3>1, <3>5, <3>9
  <2> HIDE DEF okay, more
  <2> QED BY <1>14, <1>17, <2>11, <2>13
<1>20. Len(V) \in Nat
  OBVIOUS
<1> QED BY <1>12, <1>18, <1>19, <1>20

-----------------------------------------------------------------------------
\* The checksum and the end of a file.

\* The checksum is accepted in the payload, and only where all of a payload is there.
LEMMA ChecksumRead ==
  ASSUME NEW t \in Trainers, NEW s \in Stores, NEW w
  PROVE  LET r == ReadChecksum(w, ReaderAt(t, s, Count(s)))
             P == Payload(t, s)
         IN  /\ r.status = "SUCCESS" => Len(w) >= Len(P) /\ r.pos = Len(P) + 1
             /\ w = P => r.status = "SUCCESS"
<1>1. PICK U \in Seq(Nat) : U = Upto(t, s, Count(s))
  BY PayloadWords
<1>2. PICK P \in Seq(Nat) : /\ P = Payload(t, s) /\ Len(P) = Len(U) + 1
                            /\ \A j \in 1..Len(U) : P[j] = U[j]
                            /\ P[Len(U) + 1] = Checksum(U)
  BY <1>1, PayloadWords
<1>3. PICK r \in Readers : r = ReaderAt(t, s, Count(s))
  <2>1. Count(s) \in 0..Count(s)
    BY KeysOf
  <2> QED BY <2>1, ReaderAtType
<1>4. r.pos = Len(P) /\ r.status = "SUCCESS"
  BY <1>1, <1>2, <1>3 DEF ReaderAt
<1> DEFINE ok == Len(w) >= r.pos /\ w[r.pos] = Checksum(SubSeq(w, 1, r.pos - 1))
<1>5. ReadChecksum(w, r) = IF ok THEN [r EXCEPT !.pos = @ + 1] ELSE Failed(r, "FORMAT_ERROR")
  BY DEF ReadChecksum
<1>6. Failed(r, "FORMAT_ERROR").status # "SUCCESS"
  BY FailedStatus, SMTT(30) DEF Readers
<1>7. ok => Len(w) >= Len(P)
  BY <1>4
<1>8. [r EXCEPT !.pos = @ + 1].pos = Len(P) + 1 /\ [r EXCEPT !.pos = @ + 1].status = "SUCCESS"
  BY <1>4 DEF Readers
<1>9. w = P => ok
  <2> SUFFICES ASSUME w = P PROVE ok
    OBVIOUS
  <2>1. SubSeq(P, 1, Len(P) - 1) = U
    <3>1. P \in Seq(Int)
      BY NatWords
    <3>2. 1 \in 1..(Len(P) + 1) /\ Len(P) - 1 \in (1 - 1)..Len(P) /\ Len(U) = (Len(P) - 1) - 1 + 1
      BY <1>2
    <3>3. \A j \in 1..Len(U) : P[1 + j - 1] = U[j]
      BY <1>2
    <3> QED BY <3>1, <3>2, <3>3, PartIs
  <2>2. P[Len(P)] = Checksum(U)
    BY <1>2
  <2>3. r.pos = Len(P) /\ Len(P) >= Len(P)
    BY <1>4
  <2> QED BY <2>1, <2>2, <2>3
<1> HIDE DEF ok
<1> QED BY <1>2, <1>3, <1>5, <1>6, <1>7, <1>8, <1>9

\* A store restricted to all its keys is the store.
LEMMA AllKeys ==
  ASSUME NEW s \in Stores
  PROVE  [k \in KeysUpto(s, Count(s)) |-> s[k]] = s
<1>1. \A k \in DOMAIN s : \E i \in 1..Count(s) : SortedKeys(s)[i] = k
  BY KeysOf
<1>2. \A i \in 1..Count(s) : SortedKeys(s)[i] \in DOMAIN s
  BY KeysOf
<1>3. KeysUpto(s, Count(s)) = DOMAIN s
  BY <1>1, <1>2 DEF KeysUpto
<1>4. s = [k \in DOMAIN s |-> s[k]]
  BY StoresOut
<1> QED BY <1>3, <1>4

\* What the last reader publishes is the trainer and the store.
LEMMA Published ==
  ASSUME NEW t \in Trainers, NEW s \in Stores
  PROVE  LET r == ReaderAt(t, s, Count(s))
         IN  /\ [variant |-> r.variant, rng |-> r.rng, stats |-> r.stats,
                 training_iterations |-> r.training_iterations] = t
             /\ r.nodes = s
<1>1. ReaderAt(t, s, Count(s)).nodes = s
  BY AllKeys DEF ReaderAt
<1>2. t = [variant |-> t.variant, rng |-> t.rng, training_iterations |-> t.training_iterations,
           stats |-> t.stats]
  BY DEF Trainers
<1>3. [variant |-> t.variant, rng |-> t.rng, stats |-> t.stats,
       training_iterations |-> t.training_iterations] = t
  BY <1>2
<1> QED BY <1>1, <1>3 DEF ReaderAt

\* The checksum leaves the other fields alone.
LEMMA ChecksumFields ==
  ASSUME NEW w, NEW r, "status" \in DOMAIN r, r.pos \in Int,
         ReadChecksum(w, r).status = "SUCCESS"
  PROVE  /\ Len(w) >= r.pos /\ w[r.pos] = Checksum(SubSeq(w, 1, r.pos - 1))
         /\ ReadChecksum(w, r) = [r EXCEPT !.pos = r.pos + 1]
<1>1. Failed(r, "FORMAT_ERROR").status = "FORMAT_ERROR"
  BY FailedStatus
<1>2. ReadChecksum(w, r) # Failed(r, "FORMAT_ERROR")
  BY <1>1
<1> QED
  BY <1>2 DEF ReadChecksum

\* ReadPayload: checkpoint_read gives back the trainer and the nodes that checkpoint_write
\* wrote, whatever they are, in both formats (cfr_checkpoint_write, cfr_checkpoint_write_zstd).
THEOREM ReadPayload ==
  ASSUME NEW t \in Trainers, NEW s \in Stores, ValidStore(t, s), NEW zstd \in BOOLEAN
  PROVE  LET r == Read(Framed(Payload(t, s), zstd), zstd)
         IN  /\ r.status = "SUCCESS"
             /\ [variant |-> r.variant, rng |-> r.rng, stats |-> r.stats,
                 training_iterations |-> r.training_iterations] = t
             /\ r.nodes = s
<1>1. PICK P \in Seq(Nat) : P = Payload(t, s)
  BY PayloadWords
<1>2. PICK n \in Nat : n = Count(s)
  BY KeysOf
<1>3. Agrees(P, P)
  BY NatWords DEF Agrees
<1>4. ASSUME NEW i \in 0..n
      PROVE  /\ Len(P) >= Len(Upto(t, s, i)) /\ ReaderAt(t, s, i) \in Readers
             /\ ReaderAt(t, s, i).left = n - i /\ ReaderAt(t, s, i).status = "SUCCESS"
  <2>1. Begins(P, Upto(t, s, i))
    BY <1>1, <1>2, PayloadWords
  <2>2. PICK V \in Seq(Nat) : V = Upto(t, s, i)
    BY <1>2, UptoSteps
  <2>3. ReaderAt(t, s, i) \in Readers
    BY <1>2, ReaderAtType
  <2>4. ReaderAt(t, s, i).left = n - i /\ ReaderAt(t, s, i).status = "SUCCESS"
    BY <1>2 DEF ReaderAt
  <2> QED BY <2>1, <2>2, <2>3, <2>4 DEF Begins
<1>5. ReadHeader(P) = ReaderAt(t, s, 0)
  <2>1. 0 \in 0..n
    OBVIOUS
  <2> QED BY <1>1, <1>3, <1>4, <2>1, HeaderRead
<1>6. ASSUME NEW i \in 0..(n - 1) PROVE ReadNode(P, ReaderAt(t, s, i)) = ReaderAt(t, s, i + 1)
  <2>1. i + 1 \in 0..n /\ i \in 0..(Count(s) - 1)
    BY <1>2
  <2>2. Len(P) >= Len(Upto(t, s, i + 1))
    BY <1>4, <2>1
  <2> QED BY <1>1, <1>3, <2>1, <2>2, RecordRead
<1>7. n <= Len(P)
  <2>1. n \in 0..n /\ n \in 0..Count(s)
    BY <1>2
  <2>2. n <= Len(Upto(t, s, n))
    BY <1>2, <2>1, UptoBegins
  <2>3. PICK V \in Seq(Nat) : V = Upto(t, s, n)
    BY <1>2, <2>1, UptoSteps
  <2>4. Len(P) >= Len(V)
    BY <1>4, <2>1, <2>3
  <2> QED BY <2>2, <2>3, <2>4
<1> DEFINE file == Framed(P, zstd)
           words == Unframed(file, zstd)
           header == ReadHeader(words)
           steps == IF header.status = "SUCCESS" /\ header.left <= Len(words) THEN header.left ELSE 0
           Body(f) == [i \in 0..steps |-> IF i = 0 THEN header
                                          ELSE IF f[i - 1].status = "SUCCESS" THEN ReadNode(words, f[i - 1])
                                          ELSE f[i - 1]]
           after == CHOOSE after : after = Body(after)
           last == after[steps]
           checked == ReadChecksum(words, last)
           g == [i \in 0..n |-> ReaderAt(t, s, i)]
<1>17. Read(file, zstd) = CASE last.status # "SUCCESS" -> last
                            [] last.status = "SUCCESS" /\ last.left # 0 -> Failed(last, "FORMAT_ERROR")
                            [] OTHER -> IF checked.status = "SUCCESS" /\ ~EndsCleanly(file, zstd, checked.pos)
                                        THEN Failed(checked, "FORMAT_ERROR") ELSE checked
  <2> HIDE DEF file
  <2> QED BY DEF Read
<1>18. words = P /\ EndsCleanly(file, zstd, Len(P) + 1)
  BY FrameRead
<1> HIDE DEF file, words
<1>15. header = ReaderAt(t, s, 0) /\ header.status = "SUCCESS" /\ header.left = n
  <2>1. 0 \in 0..n /\ n - 0 = n
    OBVIOUS
  <2> QED BY <1>4, <1>5, <1>18, <2>1
<1> HIDE DEF header
<1>16. steps = n
  BY <1>7, <1>15, <1>18
<1> HIDE DEF steps, last, checked
<1>8. g = Body(g)
  <2>1. ASSUME NEW i \in 0..n PROVE Body(g)[i] = ReaderAt(t, s, i)
    <3>1. CASE i = 0
      BY <1>15, <1>16, <3>1
    <3>2. CASE i # 0
      <4>1. i - 1 \in 0..(n - 1) /\ i - 1 \in 0..n /\ (i - 1) + 1 = i
        BY <3>2
      <4>2. g[i - 1] = ReaderAt(t, s, i - 1) /\ g[i - 1].status = "SUCCESS"
        BY <1>4, <4>1
      <4>3. Body(g)[i] = ReadNode(P, g[i - 1])
        <5> HIDE DEF g
        <5> QED BY <1>16, <1>18, <3>2, <4>2
      <4> HIDE DEF g, Body
      <4> QED BY <1>6, <4>1, <4>2, <4>3
    <3> QED BY <3>1, <3>2
  <2>2. Body(g) = [i \in 0..n |-> Body(g)[i]]
    <3> HIDE DEF g
    <3> QED BY <1>16
  <2>3. \A i \in 0..n : g[i] = Body(g)[i]
    BY <2>1
  <2> HIDE DEF Body
  <2> QED BY <2>2, <2>3
<1>9. after = Body(after)
  <2> HIDE DEF Body, g
  <2> QED BY <1>8
<1>10. \A i \in 0..n : after[i] = ReaderAt(t, s, i)
  <2> DEFINE T == {i \in 0..n : after[i] = ReaderAt(t, s, i)}
  <2>1. ASSUME NEW i \in 0..n
        PROVE  after[i] = IF i = 0 THEN header
                          ELSE IF after[i - 1].status = "SUCCESS" THEN ReadNode(words, after[i - 1])
                          ELSE after[i - 1]
    <3>1. after[i] = Body(after)[i]
      <4> HIDE DEF after, Body
      <4> QED BY <1>9
    <3> HIDE DEF after
    <3> QED BY <1>16, <3>1
  <2> HIDE DEF after
  <2>2. 0 \in T
    BY <1>15, <2>1
  <2>3. ASSUME NEW i \in 0..(n - 1), i \in T PROVE i + 1 \in T
    <3>1. i + 1 \in 0..n /\ i + 1 # 0 /\ (i + 1) - 1 = i
      OBVIOUS
    <3>2. after[i] = ReaderAt(t, s, i) /\ after[i].status = "SUCCESS"
      BY <1>4, <2>3
    <3>3. after[i + 1] = ReadNode(P, after[i])
      BY <1>18, <2>1, <3>1, <3>2
    <3>4. after[i + 1] = ReaderAt(t, s, i + 1)
      BY <1>6, <3>2, <3>3
    <3> QED BY <3>1, <3>4
  <2>4. \A i \in 0..n : i \in T
    <3> HIDE DEF T
    <3> QED BY <2>2, <2>3, BoundedInduction
  <2> QED BY <2>4
<1>11. after[n] = ReaderAt(t, s, n)
  <2> HIDE DEF after
  <2> QED BY <1>10
<1>12. last = ReaderAt(t, s, n)
  <2> HIDE DEF after
  <2> QED BY <1>11, <1>16 DEF last
<1>13. checked.status = "SUCCESS" /\ checked.pos = Len(P) + 1
  BY <1>1, <1>2, <1>12, <1>18, ChecksumRead DEF checked
<1>14. last.status = "SUCCESS" /\ last.left = 0
  BY <1>2, <1>4, <1>12
<1> HIDE DEF after
<1>19. Read(file, zstd) = checked
  BY <1>13, <1>14, <1>17, <1>18
<1>20. PICK r \in Readers : r = ReaderAt(t, s, n)
  <2>1. n \in 0..n
    OBVIOUS
  <2> QED BY <1>4, <2>1
<1>21. checked = [r EXCEPT !.pos = r.pos + 1]
  <2>1. "status" \in DOMAIN r /\ r.pos \in Int
    BY DEF Readers
  <2>2. checked = ReadChecksum(words, r)
    BY <1>12, <1>20 DEF checked
  <2> QED BY <1>13, <2>1, <2>2, ChecksumFields
<1>22. /\ checked.variant = r.variant /\ checked.rng = r.rng /\ checked.stats = r.stats
       /\ checked.training_iterations = r.training_iterations /\ checked.nodes = r.nodes
  <2> HIDE DEF checked
  <2> QED BY <1>21 DEF Readers
<1>23. /\ [variant |-> r.variant, rng |-> r.rng, stats |-> r.stats,
           training_iterations |-> r.training_iterations] = t
       /\ r.nodes = s
  BY <1>2, <1>20, Published
<1>24. Read(Framed(Payload(t, s), zstd), zstd) = checked
  BY <1>1, <1>19 DEF file
<1> HIDE DEF checked
<1> QED BY <1>13, <1>22, <1>23, <1>24

-----------------------------------------------------------------------------
\* What a file can be that somebody damaged.

EndsElsewhere(f, zstd, P) ==
  ~(Len(Unframed(f, zstd)) >= Len(P) /\ EndsCleanly(f, zstd, Len(P) + 1))

\* It agrees with a payload as far as both go, and if it is not that payload it ends elsewhere.
Like(f, zstd, t, s) ==
  LET P == Payload(t, s)
      w == Unframed(f, zstd)
  IN  /\ Agrees(w, P)
      /\ f = Framed(P, zstd) \/ EndsElsewhere(f, zstd, P)

\* No word that is the checksum of those before it is the last one.
Unsealed(f, zstd) ==
  LET w == Unframed(f, zstd)
  IN  /\ w \in Seq(Int)
      /\ \A p \in Int : ~(/\ Len(w) >= p /\ w[p] = Checksum(SubSeq(w, 1, p - 1))
                          /\ EndsCleanly(f, zstd, p + 1))

\* Its header is refused.
Rejected(f, zstd) == ReadHeader(Unframed(f, zstd)).status # "SUCCESS"

Understood(f, zstd) ==
  \/ \E t \in Trainers, s \in Stores : ValidStore(t, s) /\ Like(f, zstd, t, s)
  \/ Unsealed(f, zstd)
  \/ Rejected(f, zstd)

\* Words that do not begin with the magic number are refused.
LEMMA NotMagic ==
  ASSUME NEW w \in Seq(Int), Len(w) >= 3 => w[1] # Magic
  PROVE  ReadHeader(w).status # "SUCCESS"
<1>1. "status" \in DOMAIN NewReader
  BY DEF NewReader
<1>2. Failed(NewReader, "FORMAT_ERROR").status # "SUCCESS"
  BY <1>1, FailedStatus
<1>3. ReadHeader(w) = Failed(NewReader, "FORMAT_ERROR")
  BY DEF ReadHeader
<1> QED BY <1>2, <1>3

\* So is a file without the start of a frame where one is expected.
LEMMA NoFrame ==
  ASSUME NEW f, f = <<>> \/ f[1] # FrameStart
  PROVE  Rejected(f, TRUE)
<1>1. Unframed(f, TRUE) = <<>>
  BY DEF Unframed
<1>2. <<>> \in Seq(Int) /\ Len(<<>>) = 0
  OBVIOUS
<1>3. ReadHeader(<<>>).status # "SUCCESS"
  <2>1. \A w \in Seq(Int) : Len(w) = 0 => ReadHeader(w).status # "SUCCESS"
    <3> SUFFICES ASSUME NEW w \in Seq(Int), Len(w) = 0 PROVE ReadHeader(w).status # "SUCCESS"
      OBVIOUS
    <3>1. Len(w) >= 3 => w[1] # Magic
      OBVIOUS
    <3> QED BY <3>1, NotMagic
  <2> QED BY <1>2, <2>1, Zenon
<1> QED BY <1>1, <1>3 DEF Rejected

\* Files that begin with the version of the text format, or with what others wrote.
LEMMA NotAPayload ==
  ASSUME NEW f \in Seq(Int), Len(f) # 0 => f[1] \in {1, 2, 99}, NEW zstd \in BOOLEAN
  PROVE  Rejected(f, zstd)
<1>1. CASE zstd = TRUE
  <2>1. f = <<>> \/ f[1] # FrameStart
    BY DEF FrameStart
  <2> QED BY <1>1, <2>1, NoFrame
<1>2. CASE zstd = FALSE
  <2>1. Unframed(f, FALSE) = f
    BY DEF Unframed
  <2>2. Len(f) >= 3 => f[1] # Magic
    BY DEF Magic
  <2> QED BY <1>2, <2>1, <2>2, NotMagic DEF Rejected
<1> QED BY <1>1, <1>2

IsText(f) == f \in Seq(Int) /\ (Len(f) # 0 => f[1] = Version /\ Len(f) >= 2)

\* So is an export.
LEMMA TextRejected ==
  ASSUME NEW f, IsText(f), NEW zstd \in BOOLEAN
  PROVE  Rejected(f, zstd)
<1>1. f \in Seq(Int) /\ (Len(f) # 0 => f[1] \in {1, 2, 99})
  BY DEF IsText, Version
<1> QED BY <1>1, NotAPayload

\* The first words of a list.
LEMMA CutWords ==
  ASSUME NEW f \in Seq(Int), NEW n \in 0..Len(f)
  PROVE  /\ SubSeq(f, 1, n) \in Seq(Int) /\ Len(SubSeq(f, 1, n)) = n
         /\ \A i \in 1..n : SubSeq(f, 1, n)[i] = f[i]
OBVIOUS

\* No damage makes a checkpoint of an export.
LEMMA DamagedText ==
  ASSUME NEW f, IsText(f), f # <<>>, NEW d \in Damages(f), NEW zstd \in BOOLEAN
  PROVE  Rejected(d, zstd)
<1>1. f \in Seq(Int) /\ Len(f) >= 2 /\ f[1] = 1
  BY DEF IsText, Version
<1>2. d \in Seq(Int) /\ (Len(d) # 0 => d[1] \in {1, 2, 99})
  <2>1. CASE d \in {[f EXCEPT ![i] = f[i] + 1] : i \in DOMAIN f}
    <3>1. PICK i \in 1..Len(f) : d = [f EXCEPT ![i] = f[i] + 1]
      BY <1>1, <2>1
    <3>2. f[i] + 1 \in Int
      BY <1>1
    <3>3. d \in Seq(Int) /\ Len(d) = Len(f)
      BY <1>1, <3>1, <3>2
    <3>4. d[1] \in {1, 2}
      BY <1>1, <3>1
    <3> QED BY <3>3, <3>4
  <2>2. CASE d \in {SubSeq(f, 1, n) : n \in 0..(Len(f) - 1)}
    <3>1. PICK n \in 0..(Len(f) - 1) : d = SubSeq(f, 1, n)
      BY <2>2
    <3>2. n \in 0..Len(f)
      BY <1>1
    <3> QED BY <1>1, <3>1, <3>2, CutWords
  <2>3. CASE d = Append(f, 0)
    BY <1>1, <2>3
  <2>4. CASE d = f \o f
    BY <1>1, <2>4
  <2>5. CASE ~world.zstd /\ d = Sealed([i \in 1 .. Len(f) - 1 |-> IF i = 4 THEN f[4] + 1 ELSE f[i]])
    <3> DEFINE words == [i \in 1 .. Len(f) - 1 |-> IF i = 4 THEN f[4] + 1 ELSE f[i]]
    <3>1. PICK n \in Nat \ {0} : n = Len(f) - 1
      BY <1>1
    <3>2. \A i \in 1..n : words[i] \in Int
      BY <1>1, <3>1
    <3>3. words \in [1..n -> Int] /\ words[1] = 1
      BY <1>1, <3>1, <3>2
    <3> HIDE DEF words
    <3>4. words \in Seq(Int) /\ Len(words) = n
      BY <3>3
    <3>5. Checksum(words) \in Int
      <4>1. Checksum(words) \in Sums
        BY <3>4, ChecksumType DEF WordSeq
      <4>2. Sums \subseteq Int
        BY DEF Sums
      <4> QED BY <4>1, <4>2
    <3>6. d = Append(words, Checksum(words))
      BY <2>5 DEF Sealed, words
    <3> QED BY <3>3, <3>4, <3>5, <3>6
  <2> QED BY <2>1, <2>2, <2>3, <2>4, <2>5 DEF Damages
<1> QED BY <1>2, NotAPayload

-----------------------------------------------------------------------------
\* The damages of a payload.

\* A list with one word changed.
LEMMA Changed ==
  ASSUME NEW f \in Seq(Int), NEW i \in DOMAIN f, NEW x \in Int
  PROVE  [f EXCEPT ![i] = x] \in Seq(Int) /\ Len([f EXCEPT ![i] = x]) = Len(f)
OBVIOUS

\* A word that is one larger is not missed by the checksum.
Bumped(w, P, i) ==
  /\ w \in Seq(Int) /\ Len(w) = Len(P)
  /\ \A j \in 1..Len(P) : w[j] = IF j = i THEN P[i] + 1 ELSE P[j]

\* The checksum of a payload with one larger word does not fit, wherever the word is.
LEMMA ChangedWord ==
  ASSUME NEW t \in Trainers, NEW s \in Stores, NEW P, P = Payload(t, s), NEW i \in 1..Len(P),
         NEW w, Bumped(w, P, i)
  PROVE  w[Len(P)] # Checksum(SubSeq(w, 1, Len(P) - 1))
<1>0. /\ w \in Seq(Int) /\ Len(w) = Len(P)
      /\ \A j \in 1..Len(P) : w[j] = IF j = i THEN P[i] + 1 ELSE P[j]
  BY DEF Bumped
<1>1. PICK U \in Seq(Nat) : U = Upto(t, s, Count(s))
  BY PayloadWords
<1>2. /\ P \in Seq(Nat) /\ Len(P) = Len(U) + 1
      /\ \A j \in 1..Len(U) : P[j] = U[j]
      /\ P[Len(U) + 1] = Checksum(U)
  BY <1>1, PayloadWords
<1>3. PICK n \in Nat : n = Len(U) /\ Len(P) = n + 1
  BY <1>2
<1>4. U \in WordSeq
  BY NatWords DEF WordSeq
<1>5. Checksum(U) \in Int
  <2>1. Checksum(U) \in Sums
    BY <1>4, ChecksumType
  <2>2. Sums \subseteq Int
    BY DEF Sums
  <2> QED BY <2>1, <2>2
<1>6. PICK v \in Seq(Int) : v = SubSeq(w, 1, n) /\ Len(v) = n /\ \A j \in 1..n : v[j] = w[j]
  <2>1. n \in 0..Len(w)
    BY <1>0, <1>3
  <2>2. /\ SubSeq(w, 1, n) \in Seq(Int) /\ Len(SubSeq(w, 1, n)) = n
        /\ \A j \in 1..n : SubSeq(w, 1, n)[j] = w[j]
    BY <1>0, <2>1, CutWords
  <2> QED BY <2>2, Zenon
<1>10. Len(P) - 1 = n
  BY <1>3
<1>7. CASE i = n + 1
  <2>1. \A j \in 1..n : v[j] = U[j]
    BY <1>0, <1>2, <1>3, <1>6, <1>7
  <2>2. U \in Seq(Int)
    BY NatWords
  <2>3. v = U
    BY <1>3, <1>6, <2>1, <2>2, Equal
  <2>4. w[n + 1] = Checksum(U) + 1
    BY <1>0, <1>2, <1>3, <1>7
  <2>5. Checksum(U) + 1 # Checksum(U)
    BY <1>5
  <2> QED BY <1>3, <1>6, <1>10, <2>3, <2>4, <2>5
<1>8. CASE i # n + 1
  <2>1. i \in 1..n /\ i \in DOMAIN U
    BY <1>3, <1>8
  <2>2. U \in Seq(Int)
    BY NatWords
  <2>3. PICK x \in Seq(Int) : /\ x = [U EXCEPT ![i] = U[i] + 1] /\ Len(x) = n
                              /\ \A j \in 1..n : x[j] = IF j = i THEN U[i] + 1 ELSE U[j]
    <3>1. U[i] + 1 \in Int
      BY <2>1
    <3> DEFINE x == [U EXCEPT ![i] = U[i] + 1]
    <3>2. x \in Seq(Int) /\ Len(x) = n
      BY <1>3, <2>1, <2>2, <3>1, Changed
    <3>3. \A j \in 1..n : x[j] = IF j = i THEN U[i] + 1 ELSE U[j]
      BY <1>3, <2>1
    <3> HIDE DEF x
    <3>4. \E y \in Seq(Int) : /\ y = x /\ Len(y) = n
                              /\ \A j \in 1..n : y[j] = IF j = i THEN U[i] + 1 ELSE U[j]
      BY <3>2, <3>3
    <3> QED BY <3>4 DEF x
  <2>4. \A j \in 1..n : v[j] = x[j]
    <3> SUFFICES ASSUME NEW j \in 1..n PROVE v[j] = x[j]
      OBVIOUS
    <3>1. j \in 1..Len(P) /\ P[j] = U[j] /\ P[i] = U[i]
      BY <1>2, <1>3, <2>1
    <3>2. w[j] = IF j = i THEN P[i] + 1 ELSE P[j]
      BY <1>0, <3>1
    <3> QED BY <1>6, <2>3, <3>1, <3>2
  <2>5. v = x
    BY <1>6, <2>3, <2>4, Equal
  <2>6. Checksum(U) # Checksum(x)
    BY <1>4, <2>1, <2>3, ChecksumDetects DEF WordSeq
  <2>7. w[n + 1] = Checksum(U)
    BY <1>0, <1>2, <1>3, <1>8
  <2> QED BY <1>3, <1>6, <1>10, <2>3, <2>5, <2>6, <2>7
<1> QED BY <1>7, <1>8

EndsAt(f, zstd, n) == \A p \in Int : EndsCleanly(f, zstd, p + 1) => p = n

\* A file whose last word is not the checksum of those before it.
LEMMA UnsealedBy ==
  ASSUME NEW f, NEW zstd \in BOOLEAN, NEW n \in Int, Unframed(f, zstd) \in Seq(Int),
         Unframed(f, zstd)[n] # Checksum(SubSeq(Unframed(f, zstd), 1, n - 1)), EndsAt(f, zstd, n)
  PROVE  Unsealed(f, zstd)
BY DEF Unsealed, EndsAt

\* Cut off, with something behind it, or twice.
LEMMA LikeBy ==
  ASSUME NEW t \in Trainers, NEW s \in Stores, ValidStore(t, s), NEW f, NEW zstd \in BOOLEAN,
         Agrees(Unframed(f, zstd), Payload(t, s)), EndsElsewhere(f, zstd, Payload(t, s))
  PROVE  Understood(f, zstd)
<1>1. Like(f, zstd, t, s)
  BY DEF Like
<1> QED BY <1>1 DEF Understood

\* Where a file without a frame, and one with a frame, ends cleanly.
LEMMA EndsPlain ==
  ASSUME NEW f, NEW p, EndsCleanly(f, FALSE, p)
  PROVE  Len(f) = p - 1
BY DEF EndsCleanly

LEMMA EndsFrame ==
  ASSUME NEW f, NEW p, EndsCleanly(f, TRUE, p)
  PROVE  Len(f) = p + 1 /\ f[Len(f)] = FrameEnd
BY DEF EndsCleanly

\* Written for another game.
LEMMA OtherGame ==
  ASSUME NEW t \in Trainers, NEW s \in Stores, NEW P, P = Payload(t, s), NEW w \in Seq(Int),
         Len(w) = Len(P), w[4] = P[4] + 1, \A j \in 1..3 : w[j] = P[j]
  PROVE  ReadHeader(w).status # "SUCCESS"
<1>1. PICK count \in Nat : count = Count(s)
  BY KeysOf
<1>2. PICK H \in Seq(Nat) : H = Upto(t, s, 0) /\ H = Header(t, count)
  BY <1>1, UptoSteps
<1>3. PICK n \in Nat : n = Len(SchemaId) /\ n \in 1..SchemaIdMaxLength /\ SchemaId[1] \in Nat
  <2>1. SchemaId \in Seq(Nat) /\ Len(SchemaId) \in 1..SchemaIdMaxLength
    BY FormatAssumption
  <2>2. SchemaId[1] \in Nat
    BY <2>1, SMTT(30)
  <2> QED BY <2>1, <2>2
<1>4. IsHeader(H, t, count, n, Rng(t))
  BY <1>1, <1>2, <1>3, HeaderWords
<1>5. Len(H) >= 4 /\ H[3] = n /\ H[4] = SchemaId[1]
  <2>1. H[3] = n /\ H[3 + 1] = SchemaId[1]
    <3>1. 1 \in 1..n
      BY <1>3
    <3> QED BY <1>4, <3>1 DEF IsHeader
  <2>2. PICK m \in Nat : m = Rng(t)
    BY DEF Rng
  <2>3. Len(H) = n + m + 10
    BY <1>4, <2>2 DEF IsHeader
  <2> QED BY <2>1, <2>3
<1>6. Begins(P, H)
  <2>1. 0 \in 0..Count(s)
    BY <1>1
  <2> QED BY <1>2, <2>1, PayloadWords
<1>7. P[3] = n /\ P[4] = SchemaId[1]
  <2>1. 3 \in 1..Len(H) /\ 4 \in 1..Len(H)
    BY <1>5
  <2>2. P[3] = H[3] /\ P[4] = H[4]
    BY <1>6, <2>1 DEF Begins
  <2> QED BY <1>5, <2>2
<1>8. w[3] = n /\ w[4] # SchemaId[1]
  BY <1>3, <1>7
<1>9. "status" \in DOMAIN NewReader
  BY DEF NewReader
<1>10. /\ Failed(NewReader, "FORMAT_ERROR").status # "SUCCESS"
       /\ Failed(NewReader, "INCOMPATIBLE_GAME").status # "SUCCESS"
  BY <1>9, FailedStatus
<1>11. CASE Len(w) < 3 + n
  <2>1. ReadHeader(w) = Failed(NewReader, "FORMAT_ERROR")
    <3>1. ~(Len(w) >= 3 + w[3])
      BY <1>8, <1>11
    <3> QED BY <3>1 DEF ReadHeader
  <2> QED BY <1>10, <2>1
<1>12. CASE Len(w) >= 3 + n
  <2>1. SubSeq(w, 4, 3 + w[3]) # SchemaId
    <3>1. PICK to \in (4 - 1)..Len(w) : to = 3 + n
      BY <1>12
    <3>2. 4 \in 1..(Len(w) + 1) /\ to - 4 + 1 = n /\ 1 \in 1..(to - 4 + 1) /\ 4 + 1 - 1 = 4
      BY <1>3, <1>12, <3>1
    <3>3. SubSeq(w, 4, to)[1] = w[4 + 1 - 1]
      BY <3>2, Part
    <3> QED BY <1>8, <3>1, <3>2, <3>3
  <2>2. ReadHeader(w) \in {Failed(NewReader, "FORMAT_ERROR"), Failed(NewReader, "INCOMPATIBLE_GAME")}
    BY <2>1 DEF ReadHeader
  <2> QED BY <1>10, <2>2
<1> QED BY <1>11, <1>12

\* A payload has a header and a checksum.
LEMMA PayloadLong ==
  ASSUME NEW t \in Trainers, NEW s \in Stores
  PROVE  Payload(t, s) \in Seq(Nat) /\ Len(Payload(t, s)) >= 11
<1>1. PICK P \in Seq(Nat) : P = Payload(t, s)
  BY PayloadWords
<1>2. PICK count \in Nat : count = Count(s)
  BY KeysOf
<1>3. PICK H \in Seq(Nat) : H = Upto(t, s, 0) /\ H = Header(t, count)
  BY <1>2, UptoSteps
<1>4. PICK U \in Seq(Nat) : U = Upto(t, s, Count(s)) /\ Len(P) = Len(U) + 1
  BY <1>1, PayloadWords
<1>5. Begins(U, H)
  <2>1. 0 \in 0..Count(s)
    BY <1>2
  <2> QED BY <1>3, <1>4, <2>1, UptoBegins
<1>6. Len(H) >= 10
  <2>1. PICK n \in Nat : n = Len(SchemaId)
    BY FormatAssumption
  <2>2. PICK m \in Nat : m = Rng(t)
    BY DEF Rng
  <2>3. IsHeader(H, t, count, n, m)
    BY <1>2, <1>3, <2>1, <2>2, HeaderWords
  <2>4. Len(H) = n + m + 10
    BY <2>3 DEF IsHeader
  <2> QED BY <2>4
<1> QED BY <1>1, <1>4, <1>5, <1>6 DEF Begins

\* Whatever the damage, a damaged checkpoint is understood: without a frame,
LEMMA DamagedPlain ==
  ASSUME NEW t \in Trainers, NEW s \in Stores, ValidStore(t, s), ~world.zstd,
         NEW d \in Damages(Payload(t, s))
  PROVE  Understood(d, FALSE)
<1>1. PICK P \in Seq(Nat) : P = Payload(t, s) /\ Len(P) >= 11
  BY PayloadLong
<1>2. P \in Seq(Int)
  BY NatWords
<1>3. PICK l \in Nat : l = Len(P) /\ l >= 11
  BY <1>1
<1>4. \A f : Unframed(f, FALSE) = f
  BY DEF Unframed
<1>6. ASSUME NEW w \in Seq(Int), \A j \in 1..Len(w) : j <= Len(P) => w[j] = P[j], Len(w) # Len(P)
      PROVE  Understood(w, FALSE)
  <2>1. EndsElsewhere(w, FALSE, P)
    <3> SUFFICES ASSUME EndsCleanly(w, FALSE, Len(P) + 1) PROVE FALSE
      BY DEF EndsElsewhere
    <3>1. Len(w) = (Len(P) + 1) - 1
      BY EndsPlain
    <3> QED BY <1>3, <1>6, <3>1
  <2>2. Agrees(Unframed(w, FALSE), P)
    BY <1>4, <1>6 DEF Agrees
  <2> QED BY <1>1, <2>1, <2>2, LikeBy
<1>7. CASE d \in {[P EXCEPT ![i] = P[i] + 1] : i \in DOMAIN P}
  <2>1. PICK i \in 1..l : d = [P EXCEPT ![i] = P[i] + 1]
    BY <1>2, <1>3, <1>7
  <2>2. i \in DOMAIN P /\ P[i] + 1 \in Int
    BY <1>3
  <2>3. d \in Seq(Int) /\ Len(d) = l
    BY <1>2, <1>3, <2>1, <2>2, Changed
  <2>4. \A j \in 1..l : d[j] = IF j = i THEN P[i] + 1 ELSE P[j]
    BY <1>3, <2>1
  <2>5. Bumped(d, P, i)
    BY <1>3, <2>3, <2>4 DEF Bumped
  <2>6. d[l] # Checksum(SubSeq(d, 1, l - 1))
    BY <1>1, <1>3, <2>5, ChangedWord
  <2>8. EndsAt(d, FALSE, l)
    <3> SUFFICES ASSUME NEW p \in Int, EndsCleanly(d, FALSE, p + 1) PROVE p = l
      BY DEF EndsAt
    <3>1. Len(d) = (p + 1) - 1
      BY EndsPlain
    <3> QED BY <2>3, <3>1
  <2>7. Unsealed(d, FALSE)
    <3>1. Unframed(d, FALSE) = d
      BY <1>4
    <3>2. /\ Unframed(d, FALSE) \in Seq(Int)
          /\ Unframed(d, FALSE)[l] # Checksum(SubSeq(Unframed(d, FALSE), 1, l - 1))
      BY <2>3, <2>6, <3>1
    <3>3. l \in Int /\ FALSE \in BOOLEAN
      OBVIOUS
    <3> QED BY <2>8, <3>2, <3>3, UnsealedBy, Zenon
  <2> QED BY <2>7 DEF Understood
<1>8. CASE d \in {SubSeq(P, 1, n) : n \in 0..(Len(P) - 1)}
  <2>1. PICK n \in 0..(Len(P) - 1) : d = SubSeq(P, 1, n)
    BY <1>8
  <2>2. n \in 0..Len(P) /\ n # Len(P)
    BY <1>3
  <2>3. d \in Seq(Int) /\ Len(d) = n /\ \A j \in 1..n : d[j] = P[j]
    BY <1>2, <2>1, <2>2, CutWords
  <2> QED BY <1>6, <2>2, <2>3
<1>9. CASE d = Append(P, 0)
  <2>1. d \in Seq(Int) /\ Len(d) = Len(P) + 1 /\ \A j \in 1..Len(P) : d[j] = P[j]
    BY <1>2, <1>9
  <2>2. Len(d) # Len(P) /\ \A j \in 1..Len(d) : j <= Len(P) => d[j] = P[j]
    BY <1>3, <2>1
  <2> QED BY <1>6, <2>1, <2>2
<1>10. CASE d = P \o P
  <2>1. d \in Seq(Int) /\ Len(d) = Len(P) + Len(P) /\ \A j \in 1..Len(P) : d[j] = P[j]
    BY <1>2, <1>10
  <2>2. Len(d) # Len(P) /\ \A j \in 1..Len(d) : j <= Len(P) => d[j] = P[j]
    BY <1>3, <2>1
  <2> QED BY <1>6, <2>1, <2>2
<1>11. CASE d = Sealed([i \in 1 .. Len(P) - 1 |-> IF i = 4 THEN P[4] + 1 ELSE P[i]])
  <2> DEFINE words == [i \in 1 .. l - 1 |-> IF i = 4 THEN P[4] + 1 ELSE P[i]]
  <2>1. PICK n \in Nat : n = l - 1 /\ n >= 10
    BY <1>3
  <2>2. \A i \in 1..n : words[i] \in Int
    BY <1>3, <2>1
  <2>3. words \in [1..n -> Int]
    BY <2>1, <2>2
  <2>4. words[4] = P[4] + 1 /\ \A i \in 1..3 : words[i] = P[i]
    BY <2>1
  <2> HIDE DEF words
  <2>5. words \in Seq(Int) /\ Len(words) = n
    BY <2>3
  <2>6. Checksum(words) \in Int
    <3>1. Checksum(words) \in Sums
      BY <2>5, ChecksumType DEF WordSeq
    <3>2. Sums \subseteq Int
      BY DEF Sums
    <3> QED BY <3>1, <3>2
  <2>7. d = Append(words, Checksum(words))
    BY <1>3, <1>11 DEF Sealed, words
  <2>8. d \in Seq(Int) /\ Len(d) = Len(P) /\ \A i \in 1..n : d[i] = words[i]
    BY <1>3, <2>1, <2>5, <2>6, <2>7
  <2>9. d[4] = P[4] + 1 /\ \A i \in 1..3 : d[i] = P[i]
    BY <2>1, <2>4, <2>8
  <2>10. ReadHeader(d).status # "SUCCESS"
    BY <1>1, <2>8, <2>9, OtherGame
  <2> QED BY <1>4, <2>10 DEF Understood, Rejected
<1> QED BY <1>1, <1>7, <1>8, <1>9, <1>10, <1>11 DEF Damages

\* and with one.
LEMMA DamagedFrame ==
  ASSUME NEW t \in Trainers, NEW s \in Stores, ValidStore(t, s), world.zstd,
         NEW d \in Damages(Framed(Payload(t, s), TRUE))
  PROVE  Understood(d, TRUE)
<1>1. PICK P \in Seq(Nat) : P = Payload(t, s) /\ Len(P) >= 11
  BY PayloadLong
<1>2. PICK l \in Nat : l = Len(P) /\ l >= 11
  BY <1>1
<1>3. PICK f \in Seq(Int) : f = Framed(P, TRUE) /\ IsFrame(f, P)
  BY Frame DEF IsFrame
<1>4. /\ Len(f) = l + 2 /\ f[1] = FrameStart /\ f[l + 2] = FrameEnd
      /\ \A j \in 1..l : f[j + 1] = P[j] /\ P[j] \in Nat
  <2>1. /\ Len(f) = Len(P) + 2 /\ f[1] = FrameStart /\ f[Len(P) + 2] = FrameEnd
        /\ \A j \in 1..Len(P) : f[j + 1] = P[j]
    BY <1>3 DEF IsFrame
  <2>2. \A j \in 1..Len(P) : P[j] \in Nat
    OBVIOUS
  <2> QED BY <1>2, <2>1, <2>2
<1>5. \A j \in 2..(l + 1) : f[j] = P[j - 1] /\ f[j] \in Nat
  <2> SUFFICES ASSUME NEW j \in 2..(l + 1) PROVE f[j] = P[j - 1] /\ f[j] \in Nat
    OBVIOUS
  <2>1. PICK i \in 1..l : i = j - 1 /\ i + 1 = j
    OBVIOUS
  <2>2. f[i + 1] = P[i] /\ P[i] \in Nat
    BY <1>4
  <2> QED BY <2>1, <2>2
<1>6. \A j \in 1..(l + 1) : f[j] # FrameEnd
  BY <1>4, <1>5 DEF FrameStart, FrameEnd
<1>7. \A x \in Nat : x # FrameEnd
  BY DEF FrameEnd
\* A file that begins like the frame, with the payload inside.
<1>9. ASSUME NEW g \in Seq(Int), Len(g) >= l + 2, \A j \in 1..(l + 2) : g[j] = f[j],
             EndsElsewhere(g, TRUE, P)
      PROVE  Understood(g, TRUE)
  <2>1. PICK n \in 1..Len(g) : n = l + 2
    BY <1>2, <1>9
  <2>2. g[1] = FrameStart /\ g[n] = FrameEnd /\ \A j \in 1..(n - 1) : g[j] # FrameEnd
    BY <1>4, <1>6, <1>9, <2>1
  <2>3. Unframed(g, TRUE) = SubSeq(g, 2, n - 1)
    BY <2>2, UnframedTo
  <2>4. 2 \in 1..(Len(g) + 1) /\ n - 1 \in (2 - 1)..Len(g) /\ Len(P) = (n - 1) - 2 + 1
    BY <1>2, <2>1
  <2>5. ASSUME NEW j \in 1..Len(P) PROVE g[2 + j - 1] = P[j]
    <3>1. 2 + j - 1 = j + 1 /\ j + 1 \in 1..(l + 2) /\ j \in 1..l
      BY <1>2
    <3> QED BY <1>4, <1>9, <3>1
  <2>6. SubSeq(g, 2, n - 1) = P
    BY <2>4, <2>5, PartIs
  <2>7. P \in Seq(Int)
    BY NatWords
  <2>8. Agrees(P, P)
    BY <2>7 DEF Agrees
  <2>9. P = Unframed(g, TRUE)
    BY <2>3, <2>6
  <2> QED BY <1>1, <1>9, <2>8, <2>9, LikeBy
<1>10. CASE d \in {[f EXCEPT ![i] = f[i] + 1] : i \in DOMAIN f}
  <2>1. PICK i \in 1..(l + 2) : d = [f EXCEPT ![i] = f[i] + 1]
    BY <1>4, <1>10
  <2>2. i \in DOMAIN f /\ f[i] + 1 \in Int
    BY <1>4
  <2>3. d \in Seq(Int) /\ Len(d) = l + 2
    BY <1>4, <2>1, <2>2, Changed
  <2>4. \A j \in 1..(l + 2) : d[j] = IF j = i THEN f[i] + 1 ELSE f[j]
    BY <1>4, <2>1
  <2>5. CASE i = 1
    <3>1. d[1] # FrameStart
      BY <1>4, <2>4, <2>5 DEF FrameStart
    <3>2. Rejected(d, TRUE)
      BY <3>1, NoFrame
    <3> QED BY <3>2 DEF Understood
  <2>6. CASE i = l + 2
    <3>1. \A j \in 1..Len(d) : d[j] # FrameEnd
      <4> SUFFICES ASSUME NEW j \in 1..(l + 2) PROVE d[j] # FrameEnd
        BY <2>3
      <4>1. CASE j = i
        BY <1>4, <2>4, <2>6, <4>1 DEF FrameEnd
      <4>2. CASE j # i
        <5>1. j \in 1..(l + 1)
          BY <2>6, <4>2
        <5> QED BY <1>6, <2>4, <4>2, <5>1
      <4> QED BY <4>1, <4>2
    <3>2. d # <<>> /\ d[1] = FrameStart
      BY <1>4, <2>3, <2>4, <2>6
    <3>3. Unframed(d, TRUE) = SubSeq(d, 2, Len(d))
      BY <2>3, <3>1, <3>2, UnframedOpen
    <3>4. PICK w \in Seq(Int) : /\ w = SubSeq(d, 2, Len(d)) /\ Len(w) = l + 1
                                /\ \A j \in 1..(l + 1) : w[j] = d[2 + j - 1]
      <4>1. PICK to \in (2 - 1)..Len(d) : to = Len(d) /\ to - 2 + 1 = l + 1
        BY <2>3
      <4>2. 2 \in 1..(Len(d) + 1)
        BY <2>3
      <4>3. /\ SubSeq(d, 2, to) \in Seq(Int) /\ Len(SubSeq(d, 2, to)) = to - 2 + 1
            /\ \A j \in 1..(to - 2 + 1) : SubSeq(d, 2, to)[j] = d[2 + j - 1]
        BY <2>3, <4>2, Part
      <4> QED BY <4>1, <4>3, Zenon
    <3>5. ASSUME NEW j \in 1..Len(w), j <= Len(P) PROVE w[j] = P[j]
      <4>1. j \in 1..l /\ 2 + j - 1 = j + 1 /\ j + 1 \in 1..(l + 2) /\ j + 1 # i /\ j \in 1..(l + 1)
        BY <1>2, <2>6, <3>4, <3>5, SMTT(30)
      <4> QED BY <1>4, <2>4, <3>4, <4>1
    <3>6. EndsElsewhere(d, TRUE, P)
      <4> SUFFICES ASSUME EndsCleanly(d, TRUE, Len(P) + 1) PROVE FALSE
        BY DEF EndsElsewhere
      <4>1. d[Len(d)] = FrameEnd /\ Len(d) \in 1..Len(d)
        <5>1. d[Len(d)] = FrameEnd
          BY EndsFrame
        <5> QED BY <2>3, <5>1
      <4> QED BY <3>1, <4>1
    <3>7. Agrees(Unframed(d, TRUE), P)
      BY <3>3, <3>4, <3>5 DEF Agrees
    <3> QED BY <1>1, <3>6, <3>7, LikeBy
  <2>7. CASE i # 1 /\ i # l + 2
    <3>1. PICK k \in 1..l : k = i - 1 /\ k + 1 = i
      BY <2>7
    <3>2. PICK n \in 1..Len(d) : n = l + 2
      BY <2>3
    <3>3. d[1] = FrameStart /\ d[n] = FrameEnd
      BY <1>4, <2>4, <2>7, <3>2
    <3>4. \A j \in 1..(n - 1) : d[j] # FrameEnd
      <4> SUFFICES ASSUME NEW j \in 1..(l + 1) PROVE d[j] # FrameEnd
        BY <3>2
      <4>1. CASE j = i
        <5>1. j \in 2..(l + 1)
          BY <2>7, <4>1
        <5>2. f[i] \in Nat /\ j \in 1..(l + 2)
          BY <1>5, <4>1, <5>1
        <5> QED BY <2>4, <4>1, <5>2 DEF FrameEnd
      <4>2. CASE j # i
        BY <1>6, <2>4, <4>2
      <4> QED BY <4>1, <4>2
    <3>5. Unframed(d, TRUE) = SubSeq(d, 2, n - 1)
      BY <2>3, <3>3, <3>4, UnframedTo
    <3>6. PICK w \in Seq(Int) : /\ w = SubSeq(d, 2, n - 1) /\ Len(w) = l
                                /\ \A j \in 1..l : w[j] = d[2 + j - 1]
      <4>1. PICK to \in (2 - 1)..Len(d) : to = n - 1 /\ to - 2 + 1 = l
        BY <2>3, <3>2
      <4>2. 2 \in 1..(Len(d) + 1)
        BY <2>3
      <4>3. /\ SubSeq(d, 2, to) \in Seq(Int) /\ Len(SubSeq(d, 2, to)) = to - 2 + 1
            /\ \A j \in 1..(to - 2 + 1) : SubSeq(d, 2, to)[j] = d[2 + j - 1]
        BY <2>3, <4>2, Part
      <4> QED BY <4>1, <4>3, Zenon
    <3>7. ASSUME NEW j \in 1..l PROVE w[j] = IF j = k THEN P[k] + 1 ELSE P[j]
      <4>1. 2 + j - 1 = j + 1 /\ j + 1 \in 1..(l + 2) /\ (j + 1 = i <=> j = k)
        BY <3>1
      <4>2. w[j] = IF j = k THEN f[i] + 1 ELSE f[j + 1]
        BY <2>4, <3>6, <4>1
      <4>3. f[i] = P[k] /\ f[j + 1] = P[j]
        BY <1>4, <3>1
      <4> QED BY <4>2, <4>3
    <3>11. Bumped(w, P, k)
      BY <1>2, <3>6, <3>7 DEF Bumped
    <3>8. w[l] # Checksum(SubSeq(w, 1, l - 1))
      BY <1>1, <1>2, <3>11, ChangedWord
    <3>9. EndsAt(d, TRUE, l)
      <4> SUFFICES ASSUME NEW p \in Int, EndsCleanly(d, TRUE, p + 1) PROVE p = l
        BY DEF EndsAt
      <4>1. Len(d) = (p + 1) + 1
        BY EndsFrame
      <4> QED BY <2>3, <4>1
    <3>10. Unsealed(d, TRUE)
      <4>1. Unframed(d, TRUE) = w
        BY <3>5, <3>6
      <4>2. /\ Unframed(d, TRUE) \in Seq(Int)
            /\ Unframed(d, TRUE)[l] # Checksum(SubSeq(Unframed(d, TRUE), 1, l - 1))
        BY <3>8, <4>1
      <4>3. l \in Int /\ TRUE \in BOOLEAN
        OBVIOUS
      <4> QED BY <3>9, <4>2, <4>3, UnsealedBy, Zenon
    <3> QED BY <3>10 DEF Understood
  <2> QED BY <2>5, <2>6, <2>7
<1>11. CASE d \in {SubSeq(f, 1, n) : n \in 0..(Len(f) - 1)}
  <2>1. PICK n \in 0..(Len(f) - 1) : d = SubSeq(f, 1, n)
    BY <1>11
  <2>2. PICK q \in Nat : q = n /\ q <= l + 1
    BY <1>2, <1>4
  <2>3. n \in 0..Len(f)
    BY <1>4, <2>2
  <2>4. d \in Seq(Int) /\ Len(d) = q /\ \A j \in 1..q : d[j] = f[j]
    BY <2>1, <2>2, <2>3, CutWords
  <2>5. CASE q = 0
    <3>1. d = <<>>
      BY <2>4, <2>5
    <3>2. Rejected(d, TRUE)
      BY <3>1, NoFrame
    <3> QED BY <3>2 DEF Understood
  <2>6. CASE q # 0
    <3>1. d # <<>> /\ d[1] = FrameStart
      BY <1>4, <2>4, <2>6
    <3>2. \A j \in 1..Len(d) : d[j] # FrameEnd
      <4> SUFFICES ASSUME NEW j \in 1..q PROVE d[j] # FrameEnd
        BY <2>4
      <4>1. j \in 1..(l + 1)
        BY <2>2
      <4> QED BY <1>6, <2>4, <4>1
    <3>3. Unframed(d, TRUE) = SubSeq(d, 2, Len(d))
      BY <2>4, <3>1, <3>2, UnframedOpen
    <3>4. PICK w \in Seq(Int) : /\ w = SubSeq(d, 2, Len(d)) /\ Len(w) = q - 1
                                /\ \A j \in 1..(q - 1) : w[j] = d[2 + j - 1]
      <4>1. PICK to \in (2 - 1)..Len(d) : to = Len(d) /\ to - 2 + 1 = q - 1
        BY <2>4, <2>6
      <4>2. 2 \in 1..(Len(d) + 1)
        BY <2>4, <2>6
      <4>3. /\ SubSeq(d, 2, to) \in Seq(Int) /\ Len(SubSeq(d, 2, to)) = to - 2 + 1
            /\ \A j \in 1..(to - 2 + 1) : SubSeq(d, 2, to)[j] = d[2 + j - 1]
        BY <2>4, <4>2, Part
      <4> QED BY <4>1, <4>3, Zenon
    <3>5. ASSUME NEW j \in 1..Len(w), j <= Len(P) PROVE w[j] = P[j]
      <4>1. /\ j \in 1..l /\ 2 + j - 1 = j + 1 /\ j + 1 \in 1..q /\ j \in 1..(q - 1)
        <5>1. j \in 1..(q - 1)
          BY <3>4
        <5> QED BY <2>2, <5>1
      <4> QED BY <1>4, <2>4, <3>4, <4>1
    <3>6. EndsElsewhere(d, TRUE, P)
      <4> SUFFICES ASSUME EndsCleanly(d, TRUE, Len(P) + 1) PROVE FALSE
        BY DEF EndsElsewhere
      <4>1. d[Len(d)] = FrameEnd /\ Len(d) \in 1..Len(d)
        <5>1. d[Len(d)] = FrameEnd
          BY EndsFrame
        <5> QED BY <2>4, <2>6, <5>1
      <4> QED BY <3>2, <4>1
    <3>7. Agrees(Unframed(d, TRUE), P)
      BY <3>3, <3>4, <3>5 DEF Agrees
    <3> QED BY <1>1, <3>6, <3>7, LikeBy
  <2> QED BY <2>5, <2>6
<1>12. CASE d = Append(f, 0)
  <2>1. d \in Seq(Int) /\ Len(d) = l + 3 /\ d[l + 3] = 0 /\ \A j \in 1..(l + 2) : d[j] = f[j]
    BY <1>4, <1>12
  <2>2. EndsElsewhere(d, TRUE, P)
    <3> SUFFICES ASSUME EndsCleanly(d, TRUE, Len(P) + 1) PROVE FALSE
      BY DEF EndsElsewhere
    <3>1. d[Len(d)] = FrameEnd
      BY EndsFrame
    <3> QED BY <1>7, <2>1, <3>1
  <2>3. Len(d) >= l + 2
    BY <2>1
  <2> QED BY <1>9, <2>1, <2>2, <2>3
<1>13. CASE d = f \o f
  <2>1. d \in Seq(Int) /\ Len(d) = (l + 2) + (l + 2) /\ \A j \in 1..(l + 2) : d[j] = f[j]
    <3>1. IntJoins(f, f, d)
      BY <1>13, IntConcat
    <3> QED BY <1>4, <3>1 DEF IntJoins
  <2>2. EndsElsewhere(d, TRUE, P)
    <3> SUFFICES ASSUME EndsCleanly(d, TRUE, Len(P) + 1) PROVE FALSE
      BY DEF EndsElsewhere
    <3>1. Len(d) = (Len(P) + 1) + 1
      BY EndsFrame
    <3> QED BY <1>2, <2>1, <3>1
  <2>3. Len(d) >= l + 2
    BY <2>1
  <2> QED BY <1>9, <2>1, <2>2, <2>3
<1> QED BY <1>1, <1>3, <1>10, <1>11, <1>12, <1>13 DEF Damages

-----------------------------------------------------------------------------
\* The inductive invariant.

Early == {"idle", "inspect", "init", "open", "read"}
Filling == {"header", "copy", "record"}
Opened == {"read", "loaded", "evaluate", "train", "save", "export", "text"} \cup Writing
Trains == {"loaded", "evaluate", "train", "save", "export", "text"} \cup Writing

\* Trainer and store are those of one run that was never interrupted.
Exact(t, s) ==
  \E o \in Invocations :
      /\ Accepted(o)
      /\ [trainer |-> t, nodes |-> s] = Trained(NewTrainer(o), <<>>, t.training_iterations)

\* A whole checkpoint.
Whole(f, zstd) == \E t \in Trainers, s \in Stores : ValidStore(t, s) /\ f = Framed(Payload(t, s), zstd)

WholeExact(f, zstd) ==
  \E t \in Trainers, s \in Stores :
      ValidStore(t, s) /\ f = Framed(Payload(t, s), zstd) /\ Exact(t, s)

Saved(f) == IF world.workers THEN Whole(f, world.zstd) ELSE WholeExact(f, world.zstd)

TypeInv ==
  /\ world \in Worlds
  /\ trainer \in Trainers /\ store \in Stores
  /\ completed \in Nat /\ attempt \in Nat
  /\ pc # "idle" => \E o \in Invocations : Accepted(o) /\ opts = Reporting(o)

IdleInv == pc \in Early => trainer = NoTrainer /\ store = <<>>

BusyInv ==
  /\ busy \subseteq DOMAIN store
  /\ \A j, k \in busy : j = k
  /\ busy # {} => world.workers
  /\ pc \in Early \cup {"loaded", "evaluate", "train", "save"} => busy = {}

\* What a file under a name without the number of a temporary one can be.
FileOk(name, f) ==
  IF tampered THEN Understood(f, world.zstd)
  ELSE /\ Saved(f) \/ IsText(f)
       /\ name \in CheckpointNames => Saved(f)

DiskInv == \A e \in DOMAIN disk : e[2] = 0 => FileOk(e[1], disk[e])

Temporaries == {e \in DOMAIN disk : e[2] # 0}
Own == TemporaryEntry(opts.save, attempt)

\* Every temporary file is one that was left or, while the run writes one, its own.
TempInv ==
  /\ left \subseteq Temporaries
  /\ Temporaries \ left = IF pc \in Writing THEN {Own} ELSE {}

LoadInv ==
  /\ (pc \in Opened /\ (pc \in {"read", "loaded"} \/ opts.load # NoPath)) => Exists(Entry(opts.load))
  /\ pc = "init" => opts.load = NoPath

\* The reader of a file that somebody changed so that no checksum fits.
Lost(r) == {"status", "pos"} \subseteq DOMAIN r /\ r.pos \in Int

ReaderInv ==
  pc = "read" =>
      \/ \E t \in Trainers, s \in Stores :
            /\ ValidStore(t, s) /\ Like(disk[Entry(opts.load)], world.zstd, t, s)
            /\ (~world.workers /\ ~tampered) => Exact(t, s)
            /\ \E i \in 0..Count(s) : reader = ReaderAt(t, s, i)
      \/ Unsealed(disk[Entry(opts.load)], world.zstd) /\ Lost(reader)

LoadedInv == pc = "loaded" => disk[Entry(opts.load)] = Framed(Payload(trainer, store), world.zstd)

ExactInv == (pc \in Trains /\ ~world.workers /\ ~tampered) => Exact(trainer, store)

\* What was collected, and the values of the nodes since.
MomentInv ==
  pc \in Filling =>
      /\ keys = SortedKeys(moments) /\ DOMAIN moments \subseteq DOMAIN store
      /\ ~world.workers => DOMAIN moments = DOMAIN store
      /\ index \in 1..(Len(keys) + 1)
      /\ pc = "record" => index <= Len(keys) /\ copied \in moments[keys[index]]
      /\ pc = "header" => index = 1
      /\ \A k \in DOMAIN moments : k \in busy \/ store[k] \in moments[k]

\* The nodes written so far, as a store: of the others it may hold any value.
Copies(c) ==
  /\ DOMAIN c = DOMAIN moments
  /\ ~world.workers => c = store
  /\ \A j \in 1..(index - 1) : ValidNode(c[keys[j]], trainer.variant)
  /\ out = Joined(Header(trainer, Len(keys)), Rows(keys, c), index - 1)

WriterInv ==
  /\ pc \in {"copy", "record"} => \E c \in Stores : Copies(c)
  /\ pc = "record" => /\ copied \in Nodes(keys[index]) /\ ValidNode(copied, trainer.variant)
                      /\ ~world.workers => copied = store[keys[index]]

\* The stream that is closed without an error, and the file it became.
ClosedInv ==
  /\ (pc \in {"close", "rename"} /\ status = "SUCCESS") =>
        \E c \in Stores : /\ ValidStore(trainer, c) /\ out = Framed(Payload(trainer, c), world.zstd)
                          /\ ~world.workers => c = store
  /\ (pc = "rename" /\ status = "SUCCESS") =>
        /\ Exists(TemporaryEntry(opts.save, attempt))
        /\ disk[TemporaryEntry(opts.save, attempt)] = out

SavedInv ==
  ((pc \in {"export", "text"} \/ (pc = "cleanup" /\ exit = "SUCCESS")) /\ opts.save # NoPath) =>
      /\ Exists(Entry(opts.save))
      /\ ~world.workers => disk[Entry(opts.save)] = Framed(Payload(trainer, store), world.zstd)

\* The export is opened under a name that is not one of the checkpoints'.
TextInv ==
  pc = "text" =>
      /\ Exists(Entry(opts.export)) /\ opts.export.name \notin CheckpointNames
      /\ opts.save # NoPath => opts.save.name # opts.export.name

SessionInv ==
  /\ TypeInv /\ IdleInv /\ BusyInv /\ DiskInv /\ TempInv /\ LoadInv /\ ReaderInv /\ LoadedInv
  /\ ExactInv /\ MomentInv /\ WriterInv /\ ClosedInv /\ SavedInv /\ TextInv /\ SuccessMeansSaved

-----------------------------------------------------------------------------
\* Which actions change what.

\* trainer and store.
LEMMA StoreMoves ==
  ASSUME Next
  PROVE  UNCHANGED <<trainer, store>> \/ InitTrainer \/ Publish \/ TrainBlock \/ Cleanup \/ Crash
         \/ WorkerBegins \/ WorkerEnds \/ WorkerInserts
<1>1. CASE Invoke
  BY <1>1 DEF Invoke, files, writing, workers, Goto, Fail, Proceed, Forget
<1>2. CASE InspectExport
  BY <1>2 DEF InspectExport, files, writing, workers, Goto, Fail, Proceed, Forget
<1>3. CASE OpenLoad
  BY <1>3 DEF OpenLoad, files, writing, workers, Goto, Fail, Proceed, Forget
<1>4. CASE ReadRecord
  BY <1>4 DEF ReadRecord, files, writing, workers, Goto, Fail, Proceed, Forget
<1>5. CASE ReadFails
  BY <1>5 DEF ReadFails, files, writing, workers, Goto, Fail, Proceed, Forget
<1>6. CASE CloseLoad
  BY <1>6 DEF CloseLoad, files, writing, workers, Goto, Fail, Proceed, Forget
<1>7. CASE Evaluate
  BY <1>7 DEF Evaluate, files, writing, workers, Goto, Fail, Proceed, Forget
<1>8. CASE TrainFails
  BY <1>8 DEF TrainFails, files, writing, workers, Goto, Fail, Proceed, Forget
<1>9. CASE TrainDone
  BY <1>9 DEF TrainDone, files, writing, workers, Goto, Fail, Proceed, Forget
<1>10. CASE OpenTemporary
  BY <1>10 DEF OpenTemporary, files, writing, workers, Goto, Fail, Proceed, Forget
<1>11. CASE Collect
  BY <1>11 DEF Collect, files, writing, workers, Goto, Fail, Proceed, Forget
<1>12. CASE WriteHeader
  BY <1>12 DEF WriteHeader, files, writing, workers, Goto, Fail, Proceed, Forget
<1>13. CASE CopyNode
  BY <1>13 DEF CopyNode, files, writing, workers, Goto, Fail, Proceed, Forget
<1>14. CASE WriteRecord
  BY <1>14 DEF WriteRecord, files, writing, workers, Goto, Fail, Proceed, Forget
<1>15. CASE WriteChecksum
  BY <1>15 DEF WriteChecksum, files, writing, workers, Goto, Fail, Proceed, Forget
<1>16. CASE WriteFails
  BY <1>16 DEF WriteFails, files, writing, workers, Goto, Fail, Proceed, Forget
<1>17. CASE CloseTemporary
  BY <1>17 DEF CloseTemporary, files, writing, workers, Goto, Fail, Proceed, Forget
<1>18. CASE Rename
  BY <1>18 DEF Rename, files, writing, workers, Goto, Fail, Proceed, Forget
<1>19. CASE RemoveTemporary
  BY <1>19 DEF RemoveTemporary, files, writing, workers, Goto, Fail, Proceed, Forget
<1>20. CASE OpenExport
  BY <1>20 DEF OpenExport, files, writing, workers, Goto, Fail, Proceed, Forget
<1>21. CASE WriteExport
  BY <1>21 DEF WriteExport, files, writing, workers, Goto, Fail, Proceed, Forget
<1>22. CASE Damage
  BY <1>22 DEF Damage, files, writing, workers, Goto, Fail, Proceed, Forget
<1>23. CASE CreateForeign
  BY <1>23 DEF CreateForeign, files, writing, workers, Goto, Fail, Proceed, Forget
<1> QED
  BY <1>1, <1>2, <1>3, <1>4, <1>5, <1>6, <1>7, <1>8, <1>9, <1>10, <1>11, <1>12, <1>13, <1>14, <1>15, <1>16, <1>17, <1>18, <1>19, <1>20, <1>21, <1>22, <1>23 DEF Next, Program, Worker

\* The directory.
LEMMA DiskMoves ==
  ASSUME Next
  PROVE  UNCHANGED <<disk, tampered>> \/ OpenTemporary \/ CloseTemporary \/ Rename \/ RemoveTemporary
         \/ OpenExport \/ WriteExport \/ Crash \/ Damage \/ CreateForeign
<1>1. CASE Invoke
  BY <1>1 DEF Invoke, files, writing, workers, Goto, Fail, Proceed, Forget
<1>2. CASE InspectExport
  BY <1>2 DEF InspectExport, files, writing, workers, Goto, Fail, Proceed, Forget
<1>3. CASE InitTrainer
  BY <1>3 DEF InitTrainer, files, writing, workers, Goto, Fail, Proceed, Forget
<1>4. CASE OpenLoad
  BY <1>4 DEF OpenLoad, files, writing, workers, Goto, Fail, Proceed, Forget
<1>5. CASE ReadRecord
  BY <1>5 DEF ReadRecord, files, writing, workers, Goto, Fail, Proceed, Forget
<1>6. CASE ReadFails
  BY <1>6 DEF ReadFails, files, writing, workers, Goto, Fail, Proceed, Forget
<1>7. CASE Publish
  BY <1>7 DEF Publish, files, writing, workers, Goto, Fail, Proceed, Forget
<1>8. CASE CloseLoad
  BY <1>8 DEF CloseLoad, files, writing, workers, Goto, Fail, Proceed, Forget
<1>9. CASE Evaluate
  BY <1>9 DEF Evaluate, files, writing, workers, Goto, Fail, Proceed, Forget
<1>10. CASE TrainBlock
  BY <1>10 DEF TrainBlock, files, writing, workers, Goto, Fail, Proceed, Forget
<1>11. CASE TrainFails
  BY <1>11 DEF TrainFails, files, writing, workers, Goto, Fail, Proceed, Forget
<1>12. CASE TrainDone
  BY <1>12 DEF TrainDone, files, writing, workers, Goto, Fail, Proceed, Forget
<1>13. CASE Collect
  BY <1>13 DEF Collect, files, writing, workers, Goto, Fail, Proceed, Forget
<1>14. CASE WriteHeader
  BY <1>14 DEF WriteHeader, files, writing, workers, Goto, Fail, Proceed, Forget
<1>15. CASE CopyNode
  BY <1>15 DEF CopyNode, files, writing, workers, Goto, Fail, Proceed, Forget
<1>16. CASE WriteRecord
  BY <1>16 DEF WriteRecord, files, writing, workers, Goto, Fail, Proceed, Forget
<1>17. CASE WriteChecksum
  BY <1>17 DEF WriteChecksum, files, writing, workers, Goto, Fail, Proceed, Forget
<1>18. CASE WriteFails
  BY <1>18 DEF WriteFails, files, writing, workers, Goto, Fail, Proceed, Forget
<1>19. CASE Cleanup
  BY <1>19 DEF Cleanup, files, writing, workers, Goto, Fail, Proceed, Forget
<1>20. CASE WorkerBegins
  BY <1>20 DEF WorkerBegins, files, writing, workers, Goto, Fail, Proceed, Forget
<1>21. CASE WorkerEnds
  BY <1>21 DEF WorkerEnds, files, writing, workers, Goto, Fail, Proceed, Forget
<1>22. CASE WorkerInserts
  BY <1>22 DEF WorkerInserts, files, writing, workers, Goto, Fail, Proceed, Forget
<1> QED
  BY <1>1, <1>2, <1>3, <1>4, <1>5, <1>6, <1>7, <1>8, <1>9, <1>10, <1>11, <1>12, <1>13, <1>14, <1>15, <1>16, <1>17, <1>18, <1>19, <1>20, <1>21, <1>22 DEF Next, Program, Worker

Follows(p, q) ==
  \/ q \in {"idle", "cleanup", p}
  \/ (p = "idle" /\ q = "inspect") \/ (p = "inspect" /\ q \in {"open", "init"})
  \/ (p = "init" /\ q = "train") \/ (p = "open" /\ q = "read") \/ (p = "read" /\ q = "loaded")
  \/ (p = "loaded" /\ q \in {"evaluate", "train"}) \/ (p \in {"evaluate", "train"} /\ q = "save")
  \/ (p = "save" /\ q \in {"export", "collect"}) \/ (p = "collect" /\ q = "header")
  \/ (p = "header" /\ q = "copy") \/ (p = "copy" /\ q = "record") \/ (p = "record" /\ q = "copy")
  \/ (p \in {"collect", "header", "copy", "record"} /\ q = "close")
  \/ (p = "close" /\ q = "rename") \/ (p = "rename" /\ q \in {"export", "remove"})
  \/ (p = "export" /\ q = "text")

\* Where run_training can go.
LEMMA Stages ==
  ASSUME Next
  PROVE  Follows(pc, pc')
<1>1. CASE Invoke
  BY <1>1 DEF Invoke, files, writing, workers, Goto, Fail, Proceed, Forget, Follows
<1>2. CASE InspectExport
  BY <1>2 DEF InspectExport, files, writing, workers, Goto, Fail, Proceed, Forget, Follows
<1>3. CASE InitTrainer
  BY <1>3 DEF InitTrainer, files, writing, workers, Goto, Fail, Proceed, Forget, Follows
<1>4. CASE OpenLoad
  BY <1>4 DEF OpenLoad, files, writing, workers, Goto, Fail, Proceed, Forget, Follows
<1>5. CASE ReadRecord
  BY <1>5 DEF ReadRecord, files, writing, workers, Goto, Fail, Proceed, Forget, Follows
<1>6. CASE ReadFails
  BY <1>6 DEF ReadFails, files, writing, workers, Goto, Fail, Proceed, Forget, Follows
<1>7. CASE Publish
  BY <1>7 DEF Publish, files, writing, workers, Goto, Fail, Proceed, Forget, Follows
<1>8. CASE CloseLoad
  BY <1>8 DEF CloseLoad, files, writing, workers, Goto, Fail, Proceed, Forget, Follows
<1>9. CASE Evaluate
  BY <1>9 DEF Evaluate, files, writing, workers, Goto, Fail, Proceed, Forget, Follows
<1>10. CASE TrainBlock
  BY <1>10 DEF TrainBlock, files, writing, workers, Goto, Fail, Proceed, Forget, Follows
<1>11. CASE TrainFails
  BY <1>11 DEF TrainFails, files, writing, workers, Goto, Fail, Proceed, Forget, Follows
<1>12. CASE TrainDone
  BY <1>12 DEF TrainDone, files, writing, workers, Goto, Fail, Proceed, Forget, Follows
<1>13. CASE OpenTemporary
  BY <1>13 DEF OpenTemporary, files, writing, workers, Goto, Fail, Proceed, Forget, Follows
<1>14. CASE Collect
  BY <1>14 DEF Collect, files, writing, workers, Goto, Fail, Proceed, Forget, Follows
<1>15. CASE WriteHeader
  BY <1>15 DEF WriteHeader, files, writing, workers, Goto, Fail, Proceed, Forget, Follows
<1>16. CASE CopyNode
  BY <1>16 DEF CopyNode, files, writing, workers, Goto, Fail, Proceed, Forget, Follows
<1>17. CASE WriteRecord
  BY <1>17 DEF WriteRecord, files, writing, workers, Goto, Fail, Proceed, Forget, Follows
<1>18. CASE WriteChecksum
  BY <1>18 DEF WriteChecksum, files, writing, workers, Goto, Fail, Proceed, Forget, Follows
<1>19. CASE WriteFails
  BY <1>19 DEF WriteFails, files, writing, workers, Goto, Fail, Proceed, Forget, Follows
<1>20. CASE CloseTemporary
  BY <1>20 DEF CloseTemporary, files, writing, workers, Goto, Fail, Proceed, Forget, Follows
<1>21. CASE Rename
  BY <1>21 DEF Rename, files, writing, workers, Goto, Fail, Proceed, Forget, Follows
<1>22. CASE RemoveTemporary
  BY <1>22 DEF RemoveTemporary, files, writing, workers, Goto, Fail, Proceed, Forget, Follows
<1>23. CASE OpenExport
  BY <1>23 DEF OpenExport, files, writing, workers, Goto, Fail, Proceed, Forget, Follows
<1>24. CASE WriteExport
  BY <1>24 DEF WriteExport, files, writing, workers, Goto, Fail, Proceed, Forget, Follows
<1>25. CASE Cleanup
  BY <1>25 DEF Cleanup, files, writing, workers, Goto, Fail, Proceed, Forget, Follows
<1>26. CASE Crash
  BY <1>26 DEF Crash, files, writing, workers, Goto, Fail, Proceed, Forget, Follows
<1>27. CASE Damage
  BY <1>27 DEF Damage, files, writing, workers, Goto, Fail, Proceed, Forget, Follows
<1>28. CASE CreateForeign
  BY <1>28 DEF CreateForeign, files, writing, workers, Goto, Fail, Proceed, Forget, Follows
<1>29. CASE WorkerBegins
  BY <1>29 DEF WorkerBegins, files, writing, workers, Goto, Fail, Proceed, Forget, Follows
<1>30. CASE WorkerEnds
  BY <1>30 DEF WorkerEnds, files, writing, workers, Goto, Fail, Proceed, Forget, Follows
<1>31. CASE WorkerInserts
  BY <1>31 DEF WorkerInserts, files, writing, workers, Goto, Fail, Proceed, Forget, Follows
<1> QED
  BY <1>1, <1>2, <1>3, <1>4, <1>5, <1>6, <1>7, <1>8, <1>9, <1>10, <1>11, <1>12, <1>13, <1>14, <1>15, <1>16, <1>17, <1>18, <1>19, <1>20, <1>21, <1>22, <1>23, <1>24, <1>25, <1>26, <1>27, <1>28, <1>29, <1>30, <1>31 DEF Next, Program, Worker

Arrivals ==
  LET aside == CreateForeign \/ Worker
  IN  /\ pc' = "read" => OpenLoad \/ ReadRecord \/ aside
      /\ pc' = "loaded" => Publish \/ aside
      /\ pc' = "train" => InitTrainer \/ CloseLoad \/ TrainBlock \/ aside
      /\ pc' = "header" => Collect \/ aside
      /\ pc' = "copy" => WriteHeader \/ WriteRecord \/ aside
      /\ pc' = "record" => CopyNode \/ aside
      /\ pc' = "close" => CopyNode \/ WriteChecksum \/ WriteFails \/ aside
      /\ pc' = "rename" => CloseTemporary \/ aside
      /\ pc' = "export" => OpenTemporary \/ Rename \/ aside
      /\ pc' = "text" => OpenExport \/ aside
      /\ (pc' = "cleanup" /\ exit' = "SUCCESS") => OpenExport \/ WriteExport \/ aside

\* The last step on the way to a place.
LEMMA Arrive ==
  ASSUME Next
  PROVE  Arrivals
<1>1. CASE Invoke
  BY <1>1 DEF Invoke, files, writing, workers, Goto, Fail, Proceed, Forget, Arrivals, Worker
<1>2. CASE InspectExport
  BY <1>2 DEF InspectExport, files, writing, workers, Goto, Fail, Proceed, Forget, Arrivals, Worker
<1>3. CASE InitTrainer
  BY <1>3 DEF InitTrainer, files, writing, workers, Goto, Fail, Proceed, Forget, Arrivals, Worker
<1>4. CASE OpenLoad
  BY <1>4 DEF OpenLoad, files, writing, workers, Goto, Fail, Proceed, Forget, Arrivals, Worker
<1>5. CASE ReadRecord
  BY <1>5 DEF ReadRecord, files, writing, workers, Goto, Fail, Proceed, Forget, Arrivals, Worker
<1>6. CASE ReadFails
  BY <1>6 DEF ReadFails, files, writing, workers, Goto, Fail, Proceed, Forget, Arrivals, Worker
<1>7. CASE Publish
  BY <1>7 DEF Publish, files, writing, workers, Goto, Fail, Proceed, Forget, Arrivals, Worker
<1>8. CASE CloseLoad
  BY <1>8 DEF CloseLoad, files, writing, workers, Goto, Fail, Proceed, Forget, Arrivals, Worker
<1>9. CASE Evaluate
  BY <1>9 DEF Evaluate, files, writing, workers, Goto, Fail, Proceed, Forget, Arrivals, Worker
<1>10. CASE TrainBlock
  BY <1>10 DEF TrainBlock, files, writing, workers, Goto, Fail, Proceed, Forget, Arrivals, Worker
<1>11. CASE TrainFails
  BY <1>11 DEF TrainFails, files, writing, workers, Goto, Fail, Proceed, Forget, Arrivals, Worker
<1>12. CASE TrainDone
  BY <1>12 DEF TrainDone, files, writing, workers, Goto, Fail, Proceed, Forget, Arrivals, Worker
<1>13. CASE OpenTemporary
  BY <1>13 DEF OpenTemporary, files, writing, workers, Goto, Fail, Proceed, Forget, Arrivals, Worker
<1>14. CASE Collect
  BY <1>14 DEF Collect, files, writing, workers, Goto, Fail, Proceed, Forget, Arrivals, Worker
<1>15. CASE WriteHeader
  BY <1>15 DEF WriteHeader, files, writing, workers, Goto, Fail, Proceed, Forget, Arrivals, Worker
<1>16. CASE CopyNode
  BY <1>16 DEF CopyNode, files, writing, workers, Goto, Fail, Proceed, Forget, Arrivals, Worker
<1>17. CASE WriteRecord
  BY <1>17 DEF WriteRecord, files, writing, workers, Goto, Fail, Proceed, Forget, Arrivals, Worker
<1>18. CASE WriteChecksum
  BY <1>18 DEF WriteChecksum, files, writing, workers, Goto, Fail, Proceed, Forget, Arrivals, Worker
<1>19. CASE WriteFails
  BY <1>19 DEF WriteFails, files, writing, workers, Goto, Fail, Proceed, Forget, Arrivals, Worker
<1>20. CASE CloseTemporary
  BY <1>20 DEF CloseTemporary, files, writing, workers, Goto, Fail, Proceed, Forget, Arrivals, Worker
<1>21. CASE Rename
  BY <1>21 DEF Rename, files, writing, workers, Goto, Fail, Proceed, Forget, Arrivals, Worker
<1>22. CASE RemoveTemporary
  BY <1>22 DEF RemoveTemporary, files, writing, workers, Goto, Fail, Proceed, Forget, Arrivals, Worker
<1>23. CASE OpenExport
  BY <1>23 DEF OpenExport, files, writing, workers, Goto, Fail, Proceed, Forget, Arrivals, Worker
<1>24. CASE WriteExport
  BY <1>24 DEF WriteExport, files, writing, workers, Goto, Fail, Proceed, Forget, Arrivals, Worker
<1>25. CASE Cleanup
  BY <1>25 DEF Cleanup, files, writing, workers, Goto, Fail, Proceed, Forget, Arrivals, Worker
<1>26. CASE Crash
  BY <1>26 DEF Crash, files, writing, workers, Goto, Fail, Proceed, Forget, Arrivals, Worker
<1>27. CASE Damage
  BY <1>27 DEF Damage, files, writing, workers, Goto, Fail, Proceed, Forget, Arrivals, Worker
<1>28. CASE CreateForeign
  BY <1>28 DEF CreateForeign, files, writing, workers, Goto, Fail, Proceed, Forget, Arrivals, Worker
<1>29. CASE WorkerBegins
  BY <1>29 DEF WorkerBegins, files, writing, workers, Goto, Fail, Proceed, Forget, Arrivals, Worker
<1>30. CASE WorkerEnds
  BY <1>30 DEF WorkerEnds, files, writing, workers, Goto, Fail, Proceed, Forget, Arrivals, Worker
<1>31. CASE WorkerInserts
  BY <1>31 DEF WorkerInserts, files, writing, workers, Goto, Fail, Proceed, Forget, Arrivals, Worker
<1> QED
  BY <1>1, <1>2, <1>3, <1>4, <1>5, <1>6, <1>7, <1>8, <1>9, <1>10, <1>11, <1>12, <1>13, <1>14, <1>15, <1>16, <1>17, <1>18, <1>19, <1>20, <1>21, <1>22, <1>23, <1>24, <1>25, <1>26, <1>27, <1>28, <1>29, <1>30, <1>31 DEF Next, Program, Worker

\* The format in use.
LEMMA WorldStays ==
  ASSUME Next
  PROVE  world' = world
<1>1. CASE Invoke
  BY <1>1 DEF Invoke, files, writing, workers, Goto, Fail, Proceed, Forget
<1>2. CASE InspectExport
  BY <1>2 DEF InspectExport, files, writing, workers, Goto, Fail, Proceed, Forget
<1>3. CASE InitTrainer
  BY <1>3 DEF InitTrainer, files, writing, workers, Goto, Fail, Proceed, Forget
<1>4. CASE OpenLoad
  BY <1>4 DEF OpenLoad, files, writing, workers, Goto, Fail, Proceed, Forget
<1>5. CASE ReadRecord
  BY <1>5 DEF ReadRecord, files, writing, workers, Goto, Fail, Proceed, Forget
<1>6. CASE ReadFails
  BY <1>6 DEF ReadFails, files, writing, workers, Goto, Fail, Proceed, Forget
<1>7. CASE Publish
  BY <1>7 DEF Publish, files, writing, workers, Goto, Fail, Proceed, Forget
<1>8. CASE CloseLoad
  BY <1>8 DEF CloseLoad, files, writing, workers, Goto, Fail, Proceed, Forget
<1>9. CASE Evaluate
  BY <1>9 DEF Evaluate, files, writing, workers, Goto, Fail, Proceed, Forget
<1>10. CASE TrainBlock
  BY <1>10 DEF TrainBlock, files, writing, workers, Goto, Fail, Proceed, Forget
<1>11. CASE TrainFails
  BY <1>11 DEF TrainFails, files, writing, workers, Goto, Fail, Proceed, Forget
<1>12. CASE TrainDone
  BY <1>12 DEF TrainDone, files, writing, workers, Goto, Fail, Proceed, Forget
<1>13. CASE OpenTemporary
  BY <1>13 DEF OpenTemporary, files, writing, workers, Goto, Fail, Proceed, Forget
<1>14. CASE Collect
  BY <1>14 DEF Collect, files, writing, workers, Goto, Fail, Proceed, Forget
<1>15. CASE WriteHeader
  BY <1>15 DEF WriteHeader, files, writing, workers, Goto, Fail, Proceed, Forget
<1>16. CASE CopyNode
  BY <1>16 DEF CopyNode, files, writing, workers, Goto, Fail, Proceed, Forget
<1>17. CASE WriteRecord
  BY <1>17 DEF WriteRecord, files, writing, workers, Goto, Fail, Proceed, Forget
<1>18. CASE WriteChecksum
  BY <1>18 DEF WriteChecksum, files, writing, workers, Goto, Fail, Proceed, Forget
<1>19. CASE WriteFails
  BY <1>19 DEF WriteFails, files, writing, workers, Goto, Fail, Proceed, Forget
<1>20. CASE CloseTemporary
  BY <1>20 DEF CloseTemporary, files, writing, workers, Goto, Fail, Proceed, Forget
<1>21. CASE Rename
  BY <1>21 DEF Rename, files, writing, workers, Goto, Fail, Proceed, Forget
<1>22. CASE RemoveTemporary
  BY <1>22 DEF RemoveTemporary, files, writing, workers, Goto, Fail, Proceed, Forget
<1>23. CASE OpenExport
  BY <1>23 DEF OpenExport, files, writing, workers, Goto, Fail, Proceed, Forget
<1>24. CASE WriteExport
  BY <1>24 DEF WriteExport, files, writing, workers, Goto, Fail, Proceed, Forget
<1>25. CASE Cleanup
  BY <1>25 DEF Cleanup, files, writing, workers, Goto, Fail, Proceed, Forget
<1>26. CASE Crash
  BY <1>26 DEF Crash, files, writing, workers, Goto, Fail, Proceed, Forget
<1>27. CASE Damage
  BY <1>27 DEF Damage, files, writing, workers, Goto, Fail, Proceed, Forget
<1>28. CASE CreateForeign
  BY <1>28 DEF CreateForeign, files, writing, workers, Goto, Fail, Proceed, Forget
<1>29. CASE WorkerBegins
  BY <1>29 DEF WorkerBegins, files, writing, workers, Goto, Fail, Proceed, Forget
<1>30. CASE WorkerEnds
  BY <1>30 DEF WorkerEnds, files, writing, workers, Goto, Fail, Proceed, Forget
<1>31. CASE WorkerInserts
  BY <1>31 DEF WorkerInserts, files, writing, workers, Goto, Fail, Proceed, Forget
<1> QED
  BY <1>1, <1>2, <1>3, <1>4, <1>5, <1>6, <1>7, <1>8, <1>9, <1>10, <1>11, <1>12, <1>13, <1>14, <1>15, <1>16, <1>17, <1>18, <1>19, <1>20, <1>21, <1>22, <1>23, <1>24, <1>25, <1>26, <1>27, <1>28, <1>29, <1>30, <1>31 DEF Next, Program, Worker

\* The options.
LEMMA OptsMoves ==
  ASSUME Next
  PROVE  UNCHANGED opts \/ Invoke \/ Cleanup \/ Crash
<1>1. CASE InspectExport
  BY <1>1 DEF InspectExport, files, writing, workers, Goto, Fail, Proceed, Forget
<1>2. CASE InitTrainer
  BY <1>2 DEF InitTrainer, files, writing, workers, Goto, Fail, Proceed, Forget
<1>3. CASE OpenLoad
  BY <1>3 DEF OpenLoad, files, writing, workers, Goto, Fail, Proceed, Forget
<1>4. CASE ReadRecord
  BY <1>4 DEF ReadRecord, files, writing, workers, Goto, Fail, Proceed, Forget
<1>5. CASE ReadFails
  BY <1>5 DEF ReadFails, files, writing, workers, Goto, Fail, Proceed, Forget
<1>6. CASE Publish
  BY <1>6 DEF Publish, files, writing, workers, Goto, Fail, Proceed, Forget
<1>7. CASE CloseLoad
  BY <1>7 DEF CloseLoad, files, writing, workers, Goto, Fail, Proceed, Forget
<1>8. CASE Evaluate
  BY <1>8 DEF Evaluate, files, writing, workers, Goto, Fail, Proceed, Forget
<1>9. CASE TrainBlock
  BY <1>9 DEF TrainBlock, files, writing, workers, Goto, Fail, Proceed, Forget
<1>10. CASE TrainFails
  BY <1>10 DEF TrainFails, files, writing, workers, Goto, Fail, Proceed, Forget
<1>11. CASE TrainDone
  BY <1>11 DEF TrainDone, files, writing, workers, Goto, Fail, Proceed, Forget
<1>12. CASE OpenTemporary
  BY <1>12 DEF OpenTemporary, files, writing, workers, Goto, Fail, Proceed, Forget
<1>13. CASE Collect
  BY <1>13 DEF Collect, files, writing, workers, Goto, Fail, Proceed, Forget
<1>14. CASE WriteHeader
  BY <1>14 DEF WriteHeader, files, writing, workers, Goto, Fail, Proceed, Forget
<1>15. CASE CopyNode
  BY <1>15 DEF CopyNode, files, writing, workers, Goto, Fail, Proceed, Forget
<1>16. CASE WriteRecord
  BY <1>16 DEF WriteRecord, files, writing, workers, Goto, Fail, Proceed, Forget
<1>17. CASE WriteChecksum
  BY <1>17 DEF WriteChecksum, files, writing, workers, Goto, Fail, Proceed, Forget
<1>18. CASE WriteFails
  BY <1>18 DEF WriteFails, files, writing, workers, Goto, Fail, Proceed, Forget
<1>19. CASE CloseTemporary
  BY <1>19 DEF CloseTemporary, files, writing, workers, Goto, Fail, Proceed, Forget
<1>20. CASE Rename
  BY <1>20 DEF Rename, files, writing, workers, Goto, Fail, Proceed, Forget
<1>21. CASE RemoveTemporary
  BY <1>21 DEF RemoveTemporary, files, writing, workers, Goto, Fail, Proceed, Forget
<1>22. CASE OpenExport
  BY <1>22 DEF OpenExport, files, writing, workers, Goto, Fail, Proceed, Forget
<1>23. CASE WriteExport
  BY <1>23 DEF WriteExport, files, writing, workers, Goto, Fail, Proceed, Forget
<1>24. CASE Damage
  BY <1>24 DEF Damage, files, writing, workers, Goto, Fail, Proceed, Forget
<1>25. CASE CreateForeign
  BY <1>25 DEF CreateForeign, files, writing, workers, Goto, Fail, Proceed, Forget
<1>26. CASE WorkerBegins
  BY <1>26 DEF WorkerBegins, files, writing, workers, Goto, Fail, Proceed, Forget
<1>27. CASE WorkerEnds
  BY <1>27 DEF WorkerEnds, files, writing, workers, Goto, Fail, Proceed, Forget
<1>28. CASE WorkerInserts
  BY <1>28 DEF WorkerInserts, files, writing, workers, Goto, Fail, Proceed, Forget
<1> QED
  BY <1>1, <1>2, <1>3, <1>4, <1>5, <1>6, <1>7, <1>8, <1>9, <1>10, <1>11, <1>12, <1>13, <1>14, <1>15, <1>16, <1>17, <1>18, <1>19, <1>20, <1>21, <1>22, <1>23, <1>24, <1>25, <1>26, <1>27, <1>28 DEF Next, Program, Worker

\* The number of the temporary file.
LEMMA AttemptMoves ==
  ASSUME Next
  PROVE  UNCHANGED attempt \/ OpenTemporary \/ Cleanup \/ Crash
<1>1. CASE Invoke
  BY <1>1 DEF Invoke, files, writing, workers, Goto, Fail, Proceed, Forget
<1>2. CASE InspectExport
  BY <1>2 DEF InspectExport, files, writing, workers, Goto, Fail, Proceed, Forget
<1>3. CASE InitTrainer
  BY <1>3 DEF InitTrainer, files, writing, workers, Goto, Fail, Proceed, Forget
<1>4. CASE OpenLoad
  BY <1>4 DEF OpenLoad, files, writing, workers, Goto, Fail, Proceed, Forget
<1>5. CASE ReadRecord
  BY <1>5 DEF ReadRecord, files, writing, workers, Goto, Fail, Proceed, Forget
<1>6. CASE ReadFails
  BY <1>6 DEF ReadFails, files, writing, workers, Goto, Fail, Proceed, Forget
<1>7. CASE Publish
  BY <1>7 DEF Publish, files, writing, workers, Goto, Fail, Proceed, Forget
<1>8. CASE CloseLoad
  BY <1>8 DEF CloseLoad, files, writing, workers, Goto, Fail, Proceed, Forget
<1>9. CASE Evaluate
  BY <1>9 DEF Evaluate, files, writing, workers, Goto, Fail, Proceed, Forget
<1>10. CASE TrainBlock
  BY <1>10 DEF TrainBlock, files, writing, workers, Goto, Fail, Proceed, Forget
<1>11. CASE TrainFails
  BY <1>11 DEF TrainFails, files, writing, workers, Goto, Fail, Proceed, Forget
<1>12. CASE TrainDone
  BY <1>12 DEF TrainDone, files, writing, workers, Goto, Fail, Proceed, Forget
<1>13. CASE Collect
  BY <1>13 DEF Collect, files, writing, workers, Goto, Fail, Proceed, Forget
<1>14. CASE WriteHeader
  BY <1>14 DEF WriteHeader, files, writing, workers, Goto, Fail, Proceed, Forget
<1>15. CASE CopyNode
  BY <1>15 DEF CopyNode, files, writing, workers, Goto, Fail, Proceed, Forget
<1>16. CASE WriteRecord
  BY <1>16 DEF WriteRecord, files, writing, workers, Goto, Fail, Proceed, Forget
<1>17. CASE WriteChecksum
  BY <1>17 DEF WriteChecksum, files, writing, workers, Goto, Fail, Proceed, Forget
<1>18. CASE WriteFails
  BY <1>18 DEF WriteFails, files, writing, workers, Goto, Fail, Proceed, Forget
<1>19. CASE CloseTemporary
  BY <1>19 DEF CloseTemporary, files, writing, workers, Goto, Fail, Proceed, Forget
<1>20. CASE Rename
  BY <1>20 DEF Rename, files, writing, workers, Goto, Fail, Proceed, Forget
<1>21. CASE RemoveTemporary
  BY <1>21 DEF RemoveTemporary, files, writing, workers, Goto, Fail, Proceed, Forget
<1>22. CASE OpenExport
  BY <1>22 DEF OpenExport, files, writing, workers, Goto, Fail, Proceed, Forget
<1>23. CASE WriteExport
  BY <1>23 DEF WriteExport, files, writing, workers, Goto, Fail, Proceed, Forget
<1>24. CASE Damage
  BY <1>24 DEF Damage, files, writing, workers, Goto, Fail, Proceed, Forget
<1>25. CASE CreateForeign
  BY <1>25 DEF CreateForeign, files, writing, workers, Goto, Fail, Proceed, Forget
<1>26. CASE WorkerBegins
  BY <1>26 DEF WorkerBegins, files, writing, workers, Goto, Fail, Proceed, Forget
<1>27. CASE WorkerEnds
  BY <1>27 DEF WorkerEnds, files, writing, workers, Goto, Fail, Proceed, Forget
<1>28. CASE WorkerInserts
  BY <1>28 DEF WorkerInserts, files, writing, workers, Goto, Fail, Proceed, Forget
<1> QED
  BY <1>1, <1>2, <1>3, <1>4, <1>5, <1>6, <1>7, <1>8, <1>9, <1>10, <1>11, <1>12, <1>13, <1>14, <1>15, <1>16, <1>17, <1>18, <1>19, <1>20, <1>21, <1>22, <1>23, <1>24, <1>25, <1>26, <1>27, <1>28 DEF Next, Program, Worker

\* The other threads.
LEMMA BusyMoves ==
  ASSUME Next
  PROVE  UNCHANGED busy \/ Cleanup \/ Crash \/ WorkerBegins \/ WorkerEnds
<1>1. CASE Invoke
  BY <1>1 DEF Invoke, files, writing, workers, Goto, Fail, Proceed, Forget
<1>2. CASE InspectExport
  BY <1>2 DEF InspectExport, files, writing, workers, Goto, Fail, Proceed, Forget
<1>3. CASE InitTrainer
  BY <1>3 DEF InitTrainer, files, writing, workers, Goto, Fail, Proceed, Forget
<1>4. CASE OpenLoad
  BY <1>4 DEF OpenLoad, files, writing, workers, Goto, Fail, Proceed, Forget
<1>5. CASE ReadRecord
  BY <1>5 DEF ReadRecord, files, writing, workers, Goto, Fail, Proceed, Forget
<1>6. CASE ReadFails
  BY <1>6 DEF ReadFails, files, writing, workers, Goto, Fail, Proceed, Forget
<1>7. CASE Publish
  BY <1>7 DEF Publish, files, writing, workers, Goto, Fail, Proceed, Forget
<1>8. CASE CloseLoad
  BY <1>8 DEF CloseLoad, files, writing, workers, Goto, Fail, Proceed, Forget
<1>9. CASE Evaluate
  BY <1>9 DEF Evaluate, files, writing, workers, Goto, Fail, Proceed, Forget
<1>10. CASE TrainBlock
  BY <1>10 DEF TrainBlock, files, writing, workers, Goto, Fail, Proceed, Forget
<1>11. CASE TrainFails
  BY <1>11 DEF TrainFails, files, writing, workers, Goto, Fail, Proceed, Forget
<1>12. CASE TrainDone
  BY <1>12 DEF TrainDone, files, writing, workers, Goto, Fail, Proceed, Forget
<1>13. CASE OpenTemporary
  BY <1>13 DEF OpenTemporary, files, writing, workers, Goto, Fail, Proceed, Forget
<1>14. CASE Collect
  BY <1>14 DEF Collect, files, writing, workers, Goto, Fail, Proceed, Forget
<1>15. CASE WriteHeader
  BY <1>15 DEF WriteHeader, files, writing, workers, Goto, Fail, Proceed, Forget
<1>16. CASE CopyNode
  BY <1>16 DEF CopyNode, files, writing, workers, Goto, Fail, Proceed, Forget
<1>17. CASE WriteRecord
  BY <1>17 DEF WriteRecord, files, writing, workers, Goto, Fail, Proceed, Forget
<1>18. CASE WriteChecksum
  BY <1>18 DEF WriteChecksum, files, writing, workers, Goto, Fail, Proceed, Forget
<1>19. CASE WriteFails
  BY <1>19 DEF WriteFails, files, writing, workers, Goto, Fail, Proceed, Forget
<1>20. CASE CloseTemporary
  BY <1>20 DEF CloseTemporary, files, writing, workers, Goto, Fail, Proceed, Forget
<1>21. CASE Rename
  BY <1>21 DEF Rename, files, writing, workers, Goto, Fail, Proceed, Forget
<1>22. CASE RemoveTemporary
  BY <1>22 DEF RemoveTemporary, files, writing, workers, Goto, Fail, Proceed, Forget
<1>23. CASE OpenExport
  BY <1>23 DEF OpenExport, files, writing, workers, Goto, Fail, Proceed, Forget
<1>24. CASE WriteExport
  BY <1>24 DEF WriteExport, files, writing, workers, Goto, Fail, Proceed, Forget
<1>25. CASE Damage
  BY <1>25 DEF Damage, files, writing, workers, Goto, Fail, Proceed, Forget
<1>26. CASE CreateForeign
  BY <1>26 DEF CreateForeign, files, writing, workers, Goto, Fail, Proceed, Forget
<1>27. CASE WorkerInserts
  BY <1>27 DEF WorkerInserts, files, writing, workers, Goto, Fail, Proceed, Forget
<1> QED
  BY <1>1, <1>2, <1>3, <1>4, <1>5, <1>6, <1>7, <1>8, <1>9, <1>10, <1>11, <1>12, <1>13, <1>14, <1>15, <1>16, <1>17, <1>18, <1>19, <1>20, <1>21, <1>22, <1>23, <1>24, <1>25, <1>26, <1>27 DEF Next, Program, Worker

\* Temporary files that stay.
LEMMA LeftMoves ==
  ASSUME Next
  PROVE  left' = left \/ RemoveTemporary \/ Crash
<1>1. CASE Invoke
  BY <1>1 DEF Invoke, files, writing, workers, Goto, Fail, Proceed, Forget
<1>2. CASE InspectExport
  BY <1>2 DEF InspectExport, files, writing, workers, Goto, Fail, Proceed, Forget
<1>3. CASE InitTrainer
  BY <1>3 DEF InitTrainer, files, writing, workers, Goto, Fail, Proceed, Forget
<1>4. CASE OpenLoad
  BY <1>4 DEF OpenLoad, files, writing, workers, Goto, Fail, Proceed, Forget
<1>5. CASE ReadRecord
  BY <1>5 DEF ReadRecord, files, writing, workers, Goto, Fail, Proceed, Forget
<1>6. CASE ReadFails
  BY <1>6 DEF ReadFails, files, writing, workers, Goto, Fail, Proceed, Forget
<1>7. CASE Publish
  BY <1>7 DEF Publish, files, writing, workers, Goto, Fail, Proceed, Forget
<1>8. CASE CloseLoad
  BY <1>8 DEF CloseLoad, files, writing, workers, Goto, Fail, Proceed, Forget
<1>9. CASE Evaluate
  BY <1>9 DEF Evaluate, files, writing, workers, Goto, Fail, Proceed, Forget
<1>10. CASE TrainBlock
  BY <1>10 DEF TrainBlock, files, writing, workers, Goto, Fail, Proceed, Forget
<1>11. CASE TrainFails
  BY <1>11 DEF TrainFails, files, writing, workers, Goto, Fail, Proceed, Forget
<1>12. CASE TrainDone
  BY <1>12 DEF TrainDone, files, writing, workers, Goto, Fail, Proceed, Forget
<1>13. CASE OpenTemporary
  BY <1>13 DEF OpenTemporary, files, writing, workers, Goto, Fail, Proceed, Forget
<1>14. CASE Collect
  BY <1>14 DEF Collect, files, writing, workers, Goto, Fail, Proceed, Forget
<1>15. CASE WriteHeader
  BY <1>15 DEF WriteHeader, files, writing, workers, Goto, Fail, Proceed, Forget
<1>16. CASE CopyNode
  BY <1>16 DEF CopyNode, files, writing, workers, Goto, Fail, Proceed, Forget
<1>17. CASE WriteRecord
  BY <1>17 DEF WriteRecord, files, writing, workers, Goto, Fail, Proceed, Forget
<1>18. CASE WriteChecksum
  BY <1>18 DEF WriteChecksum, files, writing, workers, Goto, Fail, Proceed, Forget
<1>19. CASE WriteFails
  BY <1>19 DEF WriteFails, files, writing, workers, Goto, Fail, Proceed, Forget
<1>20. CASE CloseTemporary
  BY <1>20 DEF CloseTemporary, files, writing, workers, Goto, Fail, Proceed, Forget
<1>21. CASE Rename
  BY <1>21 DEF Rename, files, writing, workers, Goto, Fail, Proceed, Forget
<1>22. CASE OpenExport
  BY <1>22 DEF OpenExport, files, writing, workers, Goto, Fail, Proceed, Forget
<1>23. CASE WriteExport
  BY <1>23 DEF WriteExport, files, writing, workers, Goto, Fail, Proceed, Forget
<1>24. CASE Cleanup
  BY <1>24 DEF Cleanup, files, writing, workers, Goto, Fail, Proceed, Forget
<1>25. CASE Damage
  BY <1>25 DEF Damage, files, writing, workers, Goto, Fail, Proceed, Forget
<1>26. CASE CreateForeign
  BY <1>26 DEF CreateForeign, files, writing, workers, Goto, Fail, Proceed, Forget
<1>27. CASE WorkerBegins
  BY <1>27 DEF WorkerBegins, files, writing, workers, Goto, Fail, Proceed, Forget
<1>28. CASE WorkerEnds
  BY <1>28 DEF WorkerEnds, files, writing, workers, Goto, Fail, Proceed, Forget
<1>29. CASE WorkerInserts
  BY <1>29 DEF WorkerInserts, files, writing, workers, Goto, Fail, Proceed, Forget
<1> QED
  BY <1>1, <1>2, <1>3, <1>4, <1>5, <1>6, <1>7, <1>8, <1>9, <1>10, <1>11, <1>12, <1>13, <1>14, <1>15, <1>16, <1>17, <1>18, <1>19, <1>20, <1>21, <1>22, <1>23, <1>24, <1>25, <1>26, <1>27, <1>28, <1>29 DEF Next, Program, Worker

\* The iterations of this run.
LEMMA CompletedMoves ==
  ASSUME Next
  PROVE  completed' = completed \/ completed' = 0 \/ TrainBlock
<1>1. CASE Invoke
  BY <1>1 DEF Invoke, files, writing, workers, Goto, Fail, Proceed, Forget
<1>2. CASE InspectExport
  BY <1>2 DEF InspectExport, files, writing, workers, Goto, Fail, Proceed, Forget
<1>3. CASE InitTrainer
  BY <1>3 DEF InitTrainer, files, writing, workers, Goto, Fail, Proceed, Forget
<1>4. CASE OpenLoad
  BY <1>4 DEF OpenLoad, files, writing, workers, Goto, Fail, Proceed, Forget
<1>5. CASE ReadRecord
  BY <1>5 DEF ReadRecord, files, writing, workers, Goto, Fail, Proceed, Forget
<1>6. CASE ReadFails
  BY <1>6 DEF ReadFails, files, writing, workers, Goto, Fail, Proceed, Forget
<1>7. CASE Publish
  BY <1>7 DEF Publish, files, writing, workers, Goto, Fail, Proceed, Forget
<1>8. CASE CloseLoad
  BY <1>8 DEF CloseLoad, files, writing, workers, Goto, Fail, Proceed, Forget
<1>9. CASE Evaluate
  BY <1>9 DEF Evaluate, files, writing, workers, Goto, Fail, Proceed, Forget
<1>10. CASE TrainFails
  BY <1>10 DEF TrainFails, files, writing, workers, Goto, Fail, Proceed, Forget
<1>11. CASE TrainDone
  BY <1>11 DEF TrainDone, files, writing, workers, Goto, Fail, Proceed, Forget
<1>12. CASE OpenTemporary
  BY <1>12 DEF OpenTemporary, files, writing, workers, Goto, Fail, Proceed, Forget
<1>13. CASE Collect
  BY <1>13 DEF Collect, files, writing, workers, Goto, Fail, Proceed, Forget
<1>14. CASE WriteHeader
  BY <1>14 DEF WriteHeader, files, writing, workers, Goto, Fail, Proceed, Forget
<1>15. CASE CopyNode
  BY <1>15 DEF CopyNode, files, writing, workers, Goto, Fail, Proceed, Forget
<1>16. CASE WriteRecord
  BY <1>16 DEF WriteRecord, files, writing, workers, Goto, Fail, Proceed, Forget
<1>17. CASE WriteChecksum
  BY <1>17 DEF WriteChecksum, files, writing, workers, Goto, Fail, Proceed, Forget
<1>18. CASE WriteFails
  BY <1>18 DEF WriteFails, files, writing, workers, Goto, Fail, Proceed, Forget
<1>19. CASE CloseTemporary
  BY <1>19 DEF CloseTemporary, files, writing, workers, Goto, Fail, Proceed, Forget
<1>20. CASE Rename
  BY <1>20 DEF Rename, files, writing, workers, Goto, Fail, Proceed, Forget
<1>21. CASE RemoveTemporary
  BY <1>21 DEF RemoveTemporary, files, writing, workers, Goto, Fail, Proceed, Forget
<1>22. CASE OpenExport
  BY <1>22 DEF OpenExport, files, writing, workers, Goto, Fail, Proceed, Forget
<1>23. CASE WriteExport
  BY <1>23 DEF WriteExport, files, writing, workers, Goto, Fail, Proceed, Forget
<1>24. CASE Cleanup
  BY <1>24 DEF Cleanup, files, writing, workers, Goto, Fail, Proceed, Forget
<1>25. CASE Crash
  BY <1>25 DEF Crash, files, writing, workers, Goto, Fail, Proceed, Forget
<1>26. CASE Damage
  BY <1>26 DEF Damage, files, writing, workers, Goto, Fail, Proceed, Forget
<1>27. CASE CreateForeign
  BY <1>27 DEF CreateForeign, files, writing, workers, Goto, Fail, Proceed, Forget
<1>28. CASE WorkerBegins
  BY <1>28 DEF WorkerBegins, files, writing, workers, Goto, Fail, Proceed, Forget
<1>29. CASE WorkerEnds
  BY <1>29 DEF WorkerEnds, files, writing, workers, Goto, Fail, Proceed, Forget
<1>30. CASE WorkerInserts
  BY <1>30 DEF WorkerInserts, files, writing, workers, Goto, Fail, Proceed, Forget
<1> QED
  BY <1>1, <1>2, <1>3, <1>4, <1>5, <1>6, <1>7, <1>8, <1>9, <1>10, <1>11, <1>12, <1>13, <1>14, <1>15, <1>16, <1>17, <1>18, <1>19, <1>20, <1>21, <1>22, <1>23, <1>24, <1>25, <1>26, <1>27, <1>28, <1>29, <1>30 DEF Next, Program, Worker

\* Only an invocation starts a run.
LEMMA IdleMoves ==
  ASSUME Next
  PROVE  (pc = "idle" /\ pc' # "idle") => Invoke
<1>1. CASE InspectExport
  BY <1>1 DEF InspectExport, files, writing, workers, Goto, Fail, Proceed, Forget
<1>2. CASE InitTrainer
  BY <1>2 DEF InitTrainer, files, writing, workers, Goto, Fail, Proceed, Forget
<1>3. CASE OpenLoad
  BY <1>3 DEF OpenLoad, files, writing, workers, Goto, Fail, Proceed, Forget
<1>4. CASE ReadRecord
  BY <1>4 DEF ReadRecord, files, writing, workers, Goto, Fail, Proceed, Forget
<1>5. CASE ReadFails
  BY <1>5 DEF ReadFails, files, writing, workers, Goto, Fail, Proceed, Forget
<1>6. CASE Publish
  BY <1>6 DEF Publish, files, writing, workers, Goto, Fail, Proceed, Forget
<1>7. CASE CloseLoad
  BY <1>7 DEF CloseLoad, files, writing, workers, Goto, Fail, Proceed, Forget
<1>8. CASE Evaluate
  BY <1>8 DEF Evaluate, files, writing, workers, Goto, Fail, Proceed, Forget
<1>9. CASE TrainBlock
  BY <1>9 DEF TrainBlock, files, writing, workers, Goto, Fail, Proceed, Forget
<1>10. CASE TrainFails
  BY <1>10 DEF TrainFails, files, writing, workers, Goto, Fail, Proceed, Forget
<1>11. CASE TrainDone
  BY <1>11 DEF TrainDone, files, writing, workers, Goto, Fail, Proceed, Forget
<1>12. CASE OpenTemporary
  BY <1>12 DEF OpenTemporary, files, writing, workers, Goto, Fail, Proceed, Forget
<1>13. CASE Collect
  BY <1>13 DEF Collect, files, writing, workers, Goto, Fail, Proceed, Forget
<1>14. CASE WriteHeader
  BY <1>14 DEF WriteHeader, files, writing, workers, Goto, Fail, Proceed, Forget
<1>15. CASE CopyNode
  BY <1>15 DEF CopyNode, files, writing, workers, Goto, Fail, Proceed, Forget
<1>16. CASE WriteRecord
  BY <1>16 DEF WriteRecord, files, writing, workers, Goto, Fail, Proceed, Forget
<1>17. CASE WriteChecksum
  BY <1>17 DEF WriteChecksum, files, writing, workers, Goto, Fail, Proceed, Forget
<1>18. CASE WriteFails
  BY <1>18 DEF WriteFails, files, writing, workers, Goto, Fail, Proceed, Forget
<1>19. CASE CloseTemporary
  BY <1>19 DEF CloseTemporary, files, writing, workers, Goto, Fail, Proceed, Forget
<1>20. CASE Rename
  BY <1>20 DEF Rename, files, writing, workers, Goto, Fail, Proceed, Forget
<1>21. CASE RemoveTemporary
  BY <1>21 DEF RemoveTemporary, files, writing, workers, Goto, Fail, Proceed, Forget
<1>22. CASE OpenExport
  BY <1>22 DEF OpenExport, files, writing, workers, Goto, Fail, Proceed, Forget
<1>23. CASE WriteExport
  BY <1>23 DEF WriteExport, files, writing, workers, Goto, Fail, Proceed, Forget
<1>24. CASE Cleanup
  BY <1>24 DEF Cleanup, files, writing, workers, Goto, Fail, Proceed, Forget
<1>25. CASE Crash
  BY <1>25 DEF Crash, files, writing, workers, Goto, Fail, Proceed, Forget
<1>26. CASE Damage
  BY <1>26 DEF Damage, files, writing, workers, Goto, Fail, Proceed, Forget
<1>27. CASE CreateForeign
  BY <1>27 DEF CreateForeign, files, writing, workers, Goto, Fail, Proceed, Forget
<1>28. CASE WorkerBegins
  BY <1>28 DEF WorkerBegins, files, writing, workers, Goto, Fail, Proceed, Forget
<1>29. CASE WorkerEnds
  BY <1>29 DEF WorkerEnds, files, writing, workers, Goto, Fail, Proceed, Forget
<1>30. CASE WorkerInserts
  BY <1>30 DEF WorkerInserts, files, writing, workers, Goto, Fail, Proceed, Forget
<1> QED
  BY <1>1, <1>2, <1>3, <1>4, <1>5, <1>6, <1>7, <1>8, <1>9, <1>10, <1>11, <1>12, <1>13, <1>14, <1>15, <1>16, <1>17, <1>18, <1>19, <1>20, <1>21, <1>22, <1>23, <1>24, <1>25, <1>26, <1>27, <1>28, <1>29, <1>30 DEF Next, Program, Worker

\* Only the end of a run forgets it.
LEMMA IntoIdle ==
  ASSUME Next
  PROVE  pc' = "idle" => pc = "idle" \/ Cleanup \/ Crash
<1>1. CASE Invoke
  BY <1>1 DEF Invoke, files, writing, workers, Goto, Fail, Proceed, Forget
<1>2. CASE InspectExport
  BY <1>2 DEF InspectExport, files, writing, workers, Goto, Fail, Proceed, Forget
<1>3. CASE InitTrainer
  BY <1>3 DEF InitTrainer, files, writing, workers, Goto, Fail, Proceed, Forget
<1>4. CASE OpenLoad
  BY <1>4 DEF OpenLoad, files, writing, workers, Goto, Fail, Proceed, Forget
<1>5. CASE ReadRecord
  BY <1>5 DEF ReadRecord, files, writing, workers, Goto, Fail, Proceed, Forget
<1>6. CASE ReadFails
  BY <1>6 DEF ReadFails, files, writing, workers, Goto, Fail, Proceed, Forget
<1>7. CASE Publish
  BY <1>7 DEF Publish, files, writing, workers, Goto, Fail, Proceed, Forget
<1>8. CASE CloseLoad
  BY <1>8 DEF CloseLoad, files, writing, workers, Goto, Fail, Proceed, Forget
<1>9. CASE Evaluate
  BY <1>9 DEF Evaluate, files, writing, workers, Goto, Fail, Proceed, Forget
<1>10. CASE TrainBlock
  BY <1>10 DEF TrainBlock, files, writing, workers, Goto, Fail, Proceed, Forget
<1>11. CASE TrainFails
  BY <1>11 DEF TrainFails, files, writing, workers, Goto, Fail, Proceed, Forget
<1>12. CASE TrainDone
  BY <1>12 DEF TrainDone, files, writing, workers, Goto, Fail, Proceed, Forget
<1>13. CASE OpenTemporary
  BY <1>13 DEF OpenTemporary, files, writing, workers, Goto, Fail, Proceed, Forget
<1>14. CASE Collect
  BY <1>14 DEF Collect, files, writing, workers, Goto, Fail, Proceed, Forget
<1>15. CASE WriteHeader
  BY <1>15 DEF WriteHeader, files, writing, workers, Goto, Fail, Proceed, Forget
<1>16. CASE CopyNode
  BY <1>16 DEF CopyNode, files, writing, workers, Goto, Fail, Proceed, Forget
<1>17. CASE WriteRecord
  BY <1>17 DEF WriteRecord, files, writing, workers, Goto, Fail, Proceed, Forget
<1>18. CASE WriteChecksum
  BY <1>18 DEF WriteChecksum, files, writing, workers, Goto, Fail, Proceed, Forget
<1>19. CASE WriteFails
  BY <1>19 DEF WriteFails, files, writing, workers, Goto, Fail, Proceed, Forget
<1>20. CASE CloseTemporary
  BY <1>20 DEF CloseTemporary, files, writing, workers, Goto, Fail, Proceed, Forget
<1>21. CASE Rename
  BY <1>21 DEF Rename, files, writing, workers, Goto, Fail, Proceed, Forget
<1>22. CASE RemoveTemporary
  BY <1>22 DEF RemoveTemporary, files, writing, workers, Goto, Fail, Proceed, Forget
<1>23. CASE OpenExport
  BY <1>23 DEF OpenExport, files, writing, workers, Goto, Fail, Proceed, Forget
<1>24. CASE WriteExport
  BY <1>24 DEF WriteExport, files, writing, workers, Goto, Fail, Proceed, Forget
<1>25. CASE Damage
  BY <1>25 DEF Damage, files, writing, workers, Goto, Fail, Proceed, Forget
<1>26. CASE CreateForeign
  BY <1>26 DEF CreateForeign, files, writing, workers, Goto, Fail, Proceed, Forget
<1>27. CASE WorkerBegins
  BY <1>27 DEF WorkerBegins, files, writing, workers, Goto, Fail, Proceed, Forget
<1>28. CASE WorkerEnds
  BY <1>28 DEF WorkerEnds, files, writing, workers, Goto, Fail, Proceed, Forget
<1>29. CASE WorkerInserts
  BY <1>29 DEF WorkerInserts, files, writing, workers, Goto, Fail, Proceed, Forget
<1> QED
  BY <1>1, <1>2, <1>3, <1>4, <1>5, <1>6, <1>7, <1>8, <1>9, <1>10, <1>11, <1>12, <1>13, <1>14, <1>15, <1>16, <1>17, <1>18, <1>19, <1>20, <1>21, <1>22, <1>23, <1>24, <1>25, <1>26, <1>27, <1>28, <1>29 DEF Next, Program, Worker

\* A write begins and ends with its temporary file.
LEMMA WritingMoves ==
  ASSUME Next
  PROVE  /\ pc \in Writing => pc' \in Writing \/ Rename \/ RemoveTemporary \/ Crash
         /\ pc' \in Writing => pc \in Writing \/ OpenTemporary
<1>1. CASE Invoke
  BY <1>1 DEF Invoke, files, writing, workers, Goto, Fail, Proceed, Forget, Writing
<1>2. CASE InspectExport
  BY <1>2 DEF InspectExport, files, writing, workers, Goto, Fail, Proceed, Forget, Writing
<1>3. CASE InitTrainer
  BY <1>3 DEF InitTrainer, files, writing, workers, Goto, Fail, Proceed, Forget, Writing
<1>4. CASE OpenLoad
  BY <1>4 DEF OpenLoad, files, writing, workers, Goto, Fail, Proceed, Forget, Writing
<1>5. CASE ReadRecord
  BY <1>5 DEF ReadRecord, files, writing, workers, Goto, Fail, Proceed, Forget, Writing
<1>6. CASE ReadFails
  BY <1>6 DEF ReadFails, files, writing, workers, Goto, Fail, Proceed, Forget, Writing
<1>7. CASE Publish
  BY <1>7 DEF Publish, files, writing, workers, Goto, Fail, Proceed, Forget, Writing
<1>8. CASE CloseLoad
  BY <1>8 DEF CloseLoad, files, writing, workers, Goto, Fail, Proceed, Forget, Writing
<1>9. CASE Evaluate
  BY <1>9 DEF Evaluate, files, writing, workers, Goto, Fail, Proceed, Forget, Writing
<1>10. CASE TrainBlock
  BY <1>10 DEF TrainBlock, files, writing, workers, Goto, Fail, Proceed, Forget, Writing
<1>11. CASE TrainFails
  BY <1>11 DEF TrainFails, files, writing, workers, Goto, Fail, Proceed, Forget, Writing
<1>12. CASE TrainDone
  BY <1>12 DEF TrainDone, files, writing, workers, Goto, Fail, Proceed, Forget, Writing
<1>13. CASE OpenTemporary
  BY <1>13 DEF OpenTemporary, files, writing, workers, Goto, Fail, Proceed, Forget, Writing
<1>14. CASE Collect
  BY <1>14 DEF Collect, files, writing, workers, Goto, Fail, Proceed, Forget, Writing
<1>15. CASE WriteHeader
  BY <1>15 DEF WriteHeader, files, writing, workers, Goto, Fail, Proceed, Forget, Writing
<1>16. CASE CopyNode
  BY <1>16 DEF CopyNode, files, writing, workers, Goto, Fail, Proceed, Forget, Writing
<1>17. CASE WriteRecord
  BY <1>17 DEF WriteRecord, files, writing, workers, Goto, Fail, Proceed, Forget, Writing
<1>18. CASE WriteChecksum
  BY <1>18 DEF WriteChecksum, files, writing, workers, Goto, Fail, Proceed, Forget, Writing
<1>19. CASE WriteFails
  BY <1>19 DEF WriteFails, files, writing, workers, Goto, Fail, Proceed, Forget, Writing
<1>20. CASE CloseTemporary
  BY <1>20 DEF CloseTemporary, files, writing, workers, Goto, Fail, Proceed, Forget, Writing
<1>21. CASE OpenExport
  BY <1>21 DEF OpenExport, files, writing, workers, Goto, Fail, Proceed, Forget, Writing
<1>22. CASE WriteExport
  BY <1>22 DEF WriteExport, files, writing, workers, Goto, Fail, Proceed, Forget, Writing
<1>23. CASE Cleanup
  BY <1>23 DEF Cleanup, files, writing, workers, Goto, Fail, Proceed, Forget, Writing
<1>24. CASE Damage
  BY <1>24 DEF Damage, files, writing, workers, Goto, Fail, Proceed, Forget, Writing
<1>25. CASE CreateForeign
  BY <1>25 DEF CreateForeign, files, writing, workers, Goto, Fail, Proceed, Forget, Writing
<1>26. CASE WorkerBegins
  BY <1>26 DEF WorkerBegins, files, writing, workers, Goto, Fail, Proceed, Forget, Writing
<1>27. CASE WorkerEnds
  BY <1>27 DEF WorkerEnds, files, writing, workers, Goto, Fail, Proceed, Forget, Writing
<1>28. CASE WorkerInserts
  BY <1>28 DEF WorkerInserts, files, writing, workers, Goto, Fail, Proceed, Forget, Writing
<1>29. CASE Rename
  BY <1>29 DEF Rename, files, writing, workers, Goto, Fail, Proceed, Forget, Writing
<1>30. CASE RemoveTemporary
  BY <1>30 DEF RemoveTemporary, files, writing, workers, Goto, Fail, Proceed, Forget, Writing
<1>31. CASE Crash
  BY <1>31 DEF Crash, files, writing, workers, Goto, Fail, Proceed, Forget, Writing
<1> QED
  BY <1>1, <1>2, <1>3, <1>4, <1>5, <1>6, <1>7, <1>8, <1>9, <1>10, <1>11, <1>12, <1>13, <1>14, <1>15, <1>16, <1>17, <1>18, <1>19, <1>20, <1>21, <1>22, <1>23, <1>24, <1>25, <1>26, <1>27, <1>28, <1>29, <1>30, <1>31 DEF Next, Program, Worker

\* A fresh trainer is for runs that load nothing.
LEMMA InitMoves ==
  ASSUME Next
  PROVE  pc' = "init" => pc = "init" \/ (pc = "inspect" /\ opts.load = NoPath)
<1>1. CASE Invoke
  BY <1>1 DEF Invoke, files, writing, workers, Goto, Fail, Proceed, Forget
<1>2. CASE InspectExport
  BY <1>2 DEF InspectExport, files, writing, workers, Goto, Fail, Proceed, Forget
<1>3. CASE InitTrainer
  BY <1>3 DEF InitTrainer, files, writing, workers, Goto, Fail, Proceed, Forget
<1>4. CASE OpenLoad
  BY <1>4 DEF OpenLoad, files, writing, workers, Goto, Fail, Proceed, Forget
<1>5. CASE ReadRecord
  BY <1>5 DEF ReadRecord, files, writing, workers, Goto, Fail, Proceed, Forget
<1>6. CASE ReadFails
  BY <1>6 DEF ReadFails, files, writing, workers, Goto, Fail, Proceed, Forget
<1>7. CASE Publish
  BY <1>7 DEF Publish, files, writing, workers, Goto, Fail, Proceed, Forget
<1>8. CASE CloseLoad
  BY <1>8 DEF CloseLoad, files, writing, workers, Goto, Fail, Proceed, Forget
<1>9. CASE Evaluate
  BY <1>9 DEF Evaluate, files, writing, workers, Goto, Fail, Proceed, Forget
<1>10. CASE TrainBlock
  BY <1>10 DEF TrainBlock, files, writing, workers, Goto, Fail, Proceed, Forget
<1>11. CASE TrainFails
  BY <1>11 DEF TrainFails, files, writing, workers, Goto, Fail, Proceed, Forget
<1>12. CASE TrainDone
  BY <1>12 DEF TrainDone, files, writing, workers, Goto, Fail, Proceed, Forget
<1>13. CASE OpenTemporary
  BY <1>13 DEF OpenTemporary, files, writing, workers, Goto, Fail, Proceed, Forget
<1>14. CASE Collect
  BY <1>14 DEF Collect, files, writing, workers, Goto, Fail, Proceed, Forget
<1>15. CASE WriteHeader
  BY <1>15 DEF WriteHeader, files, writing, workers, Goto, Fail, Proceed, Forget
<1>16. CASE CopyNode
  BY <1>16 DEF CopyNode, files, writing, workers, Goto, Fail, Proceed, Forget
<1>17. CASE WriteRecord
  BY <1>17 DEF WriteRecord, files, writing, workers, Goto, Fail, Proceed, Forget
<1>18. CASE WriteChecksum
  BY <1>18 DEF WriteChecksum, files, writing, workers, Goto, Fail, Proceed, Forget
<1>19. CASE WriteFails
  BY <1>19 DEF WriteFails, files, writing, workers, Goto, Fail, Proceed, Forget
<1>20. CASE CloseTemporary
  BY <1>20 DEF CloseTemporary, files, writing, workers, Goto, Fail, Proceed, Forget
<1>21. CASE Rename
  BY <1>21 DEF Rename, files, writing, workers, Goto, Fail, Proceed, Forget
<1>22. CASE RemoveTemporary
  BY <1>22 DEF RemoveTemporary, files, writing, workers, Goto, Fail, Proceed, Forget
<1>23. CASE OpenExport
  BY <1>23 DEF OpenExport, files, writing, workers, Goto, Fail, Proceed, Forget
<1>24. CASE WriteExport
  BY <1>24 DEF WriteExport, files, writing, workers, Goto, Fail, Proceed, Forget
<1>25. CASE Cleanup
  BY <1>25 DEF Cleanup, files, writing, workers, Goto, Fail, Proceed, Forget
<1>26. CASE Crash
  BY <1>26 DEF Crash, files, writing, workers, Goto, Fail, Proceed, Forget
<1>27. CASE Damage
  BY <1>27 DEF Damage, files, writing, workers, Goto, Fail, Proceed, Forget
<1>28. CASE CreateForeign
  BY <1>28 DEF CreateForeign, files, writing, workers, Goto, Fail, Proceed, Forget
<1>29. CASE WorkerBegins
  BY <1>29 DEF WorkerBegins, files, writing, workers, Goto, Fail, Proceed, Forget
<1>30. CASE WorkerEnds
  BY <1>30 DEF WorkerEnds, files, writing, workers, Goto, Fail, Proceed, Forget
<1>31. CASE WorkerInserts
  BY <1>31 DEF WorkerInserts, files, writing, workers, Goto, Fail, Proceed, Forget
<1> QED
  BY <1>1, <1>2, <1>3, <1>4, <1>5, <1>6, <1>7, <1>8, <1>9, <1>10, <1>11, <1>12, <1>13, <1>14, <1>15, <1>16, <1>17, <1>18, <1>19, <1>20, <1>21, <1>22, <1>23, <1>24, <1>25, <1>26, <1>27, <1>28, <1>29, <1>30, <1>31 DEF Next, Program, Worker

\* Changes by others.
LEMMA TamperedMoves ==
  ASSUME Next
  PROVE  tampered' = tampered \/ Damage \/ CreateForeign
<1>1. CASE Invoke
  BY <1>1 DEF Invoke, files, writing, workers, Goto, Fail, Proceed, Forget
<1>2. CASE InspectExport
  BY <1>2 DEF InspectExport, files, writing, workers, Goto, Fail, Proceed, Forget
<1>3. CASE InitTrainer
  BY <1>3 DEF InitTrainer, files, writing, workers, Goto, Fail, Proceed, Forget
<1>4. CASE OpenLoad
  BY <1>4 DEF OpenLoad, files, writing, workers, Goto, Fail, Proceed, Forget
<1>5. CASE ReadRecord
  BY <1>5 DEF ReadRecord, files, writing, workers, Goto, Fail, Proceed, Forget
<1>6. CASE ReadFails
  BY <1>6 DEF ReadFails, files, writing, workers, Goto, Fail, Proceed, Forget
<1>7. CASE Publish
  BY <1>7 DEF Publish, files, writing, workers, Goto, Fail, Proceed, Forget
<1>8. CASE CloseLoad
  BY <1>8 DEF CloseLoad, files, writing, workers, Goto, Fail, Proceed, Forget
<1>9. CASE Evaluate
  BY <1>9 DEF Evaluate, files, writing, workers, Goto, Fail, Proceed, Forget
<1>10. CASE TrainBlock
  BY <1>10 DEF TrainBlock, files, writing, workers, Goto, Fail, Proceed, Forget
<1>11. CASE TrainFails
  BY <1>11 DEF TrainFails, files, writing, workers, Goto, Fail, Proceed, Forget
<1>12. CASE TrainDone
  BY <1>12 DEF TrainDone, files, writing, workers, Goto, Fail, Proceed, Forget
<1>13. CASE OpenTemporary
  BY <1>13 DEF OpenTemporary, files, writing, workers, Goto, Fail, Proceed, Forget
<1>14. CASE Collect
  BY <1>14 DEF Collect, files, writing, workers, Goto, Fail, Proceed, Forget
<1>15. CASE WriteHeader
  BY <1>15 DEF WriteHeader, files, writing, workers, Goto, Fail, Proceed, Forget
<1>16. CASE CopyNode
  BY <1>16 DEF CopyNode, files, writing, workers, Goto, Fail, Proceed, Forget
<1>17. CASE WriteRecord
  BY <1>17 DEF WriteRecord, files, writing, workers, Goto, Fail, Proceed, Forget
<1>18. CASE WriteChecksum
  BY <1>18 DEF WriteChecksum, files, writing, workers, Goto, Fail, Proceed, Forget
<1>19. CASE WriteFails
  BY <1>19 DEF WriteFails, files, writing, workers, Goto, Fail, Proceed, Forget
<1>20. CASE CloseTemporary
  BY <1>20 DEF CloseTemporary, files, writing, workers, Goto, Fail, Proceed, Forget
<1>21. CASE Rename
  BY <1>21 DEF Rename, files, writing, workers, Goto, Fail, Proceed, Forget
<1>22. CASE RemoveTemporary
  BY <1>22 DEF RemoveTemporary, files, writing, workers, Goto, Fail, Proceed, Forget
<1>23. CASE OpenExport
  BY <1>23 DEF OpenExport, files, writing, workers, Goto, Fail, Proceed, Forget
<1>24. CASE WriteExport
  BY <1>24 DEF WriteExport, files, writing, workers, Goto, Fail, Proceed, Forget
<1>25. CASE Cleanup
  BY <1>25 DEF Cleanup, files, writing, workers, Goto, Fail, Proceed, Forget
<1>26. CASE Crash
  BY <1>26 DEF Crash, files, writing, workers, Goto, Fail, Proceed, Forget
<1>27. CASE WorkerBegins
  BY <1>27 DEF WorkerBegins, files, writing, workers, Goto, Fail, Proceed, Forget
<1>28. CASE WorkerEnds
  BY <1>28 DEF WorkerEnds, files, writing, workers, Goto, Fail, Proceed, Forget
<1>29. CASE WorkerInserts
  BY <1>29 DEF WorkerInserts, files, writing, workers, Goto, Fail, Proceed, Forget
<1> QED
  BY <1>1, <1>2, <1>3, <1>4, <1>5, <1>6, <1>7, <1>8, <1>9, <1>10, <1>11, <1>12, <1>13, <1>14, <1>15, <1>16, <1>17, <1>18, <1>19, <1>20, <1>21, <1>22, <1>23, <1>24, <1>25, <1>26, <1>27, <1>28, <1>29 DEF Next, Program, Worker

-----------------------------------------------------------------------------
\* The options of a run, and the trainer they ask for.

\* Setting the interval of the reports leaves the other options alone.
LEMMA ReportingKeeps ==
  ASSUME NEW o \in Invocations
  PROVE  /\ o \in Options /\ Reporting(o) \in Options
         /\ Reporting(o).load = o.load /\ Reporting(o).save = o.save /\ Reporting(o).export = o.export
         /\ Reporting(o).cfr_plus = o.cfr_plus /\ Reporting(o).mccfr = o.mccfr
         /\ Reporting(o).seed = o.seed
<1>1. o \in Options
  BY SessionAssumption
<1> QED
  BY <1>1 DEF Reporting, Options

\* The trainer and the store before a run has any.
LEMMA NoTrainerType == NoTrainer \in Trainers /\ <<>> \in Stores
<1>1. NoTrainer \in Trainers
  <2>1. <<0, 0, 0, 0>> \in Seq(Nat) /\ Len(<<0, 0, 0, 0>>) = 4
    OBVIOUS
  <2> QED
    BY <2>1 DEF NoTrainer, Trainers, Variants
<1>2. <<>> \in Stores
  <2>1. <<>> = [k \in {} |-> <<>>[k]] /\ {} \in SUBSET GameKeys
    OBVIOUS
  <2>2. \A k \in {} : <<>>[k] \in Nodes(k)
    OBVIOUS
  <2> QED
    BY <2>1, <2>2, StoresIn
<1> QED
  BY <1>1, <1>2

\* The trainer that accepted options ask for.
LEMMA NewTrainerType ==
  ASSUME NEW o \in Invocations, Accepted(o)
  PROVE  /\ NewTrainer(o) \in Trainers /\ NewTrainer(Reporting(o)) = NewTrainer(o)
         /\ NewTrainer(o).training_iterations = 0
<1>1. o \in Options /\ o.cfr_plus \in BOOLEAN /\ o.mccfr \in BOOLEAN /\ o.seed \in Int
  BY ReportingKeeps DEF Options
<1>2. ~(o.cfr_plus /\ o.mccfr)
  BY DEF Accepted
<1>3. NewTrainer(Reporting(o)) = NewTrainer(o)
  BY ReportingKeeps DEF NewTrainer
<1> DEFINE variant == IF o.cfr_plus THEN "CFR_PLUS" ELSE IF o.mccfr THEN "MCCFR_EXTERNAL" ELSE "CFR"
           rng == IF o.mccfr THEN (IF o.seed >= 0 THEN o.seed ELSE 0) ELSE 0
<1>4. variant \in Variants /\ rng \in Nat /\ (variant # "MCCFR_EXTERNAL" => rng = 0)
  BY <1>1, <1>2 DEF Variants
<1>5. NewTrainer(o) = [variant |-> variant, rng |-> rng, training_iterations |-> 0,
                       stats |-> <<0, 0, 0, 0>>]
  <2>1. NewTrainer(o) = [NoTrainer EXCEPT !.variant = variant, !.rng = rng]
    BY DEF NewTrainer
  <2> HIDE DEF variant, rng
  <2> QED
    BY <2>1 DEF NoTrainer
<1>6. <<0, 0, 0, 0>> \in Seq(Nat) /\ Len(<<0, 0, 0, 0>>) = 4
  OBVIOUS
<1> HIDE DEF variant, rng
<1>7. NewTrainer(o) \in Trainers
  BY <1>4, <1>5, <1>6 DEF Trainers
<1> QED
  BY <1>3, <1>5, <1>7

\* The options of the run.
LEMMA OptsType ==
  ASSUME TypeInv, pc # "idle"
  PROVE  opts \in Options /\ opts.iterations \in Nat /\ opts.report_every \in Nat
<1>1. PICK o \in Invocations : opts = Reporting(o)
  BY DEF TypeInv
<1> QED
  BY <1>1, ReportingKeeps DEF Options

\* Its new trainer has trained for no iteration.
LEMMA InitTrainerType ==
  ASSUME TypeInv, pc # "idle"
  PROVE  NewTrainer(opts) \in Trainers /\ Exact(NewTrainer(opts), <<>>)
<1>1. PICK o \in Invocations : Accepted(o) /\ opts = Reporting(o)
  BY DEF TypeInv
<1>2. NewTrainer(opts) = NewTrainer(o) /\ NewTrainer(o) \in Trainers
        /\ NewTrainer(o).training_iterations = 0
  BY <1>1, NewTrainerType
<1>3. Trained(NewTrainer(o), <<>>, 0) = [trainer |-> NewTrainer(o), nodes |-> <<>>]
  BY <1>2, NoTrainerType, TrainedNext
<1> QED
  BY <1>1, <1>2, <1>3 DEF Exact

-----------------------------------------------------------------------------
\* The names without the number of a temporary one.

\* The names of a path and of its temporary files.
LEMMA Entries ==
  ASSUME NEW path, NEW n \in Nat
  PROVE  /\ Entry(path)[1] = path.name /\ Entry(path)[2] = 0
         /\ TemporaryEntry(path, n)[2] # 0 /\ TemporaryEntry(path, n) # Entry(path)
BY DEF Entry, TemporaryEntry

\* A directory with one entry more or changed, and with one less.
LEMMA WithEntry ==
  ASSUME NEW e, NEW words
  PROVE  /\ DOMAIN With(e, words) = DOMAIN disk \cup {e}
         /\ \A f \in DOMAIN disk : f \in DOMAIN With(e, words)
         /\ With(e, words)[e] = words
         /\ \A f \in DOMAIN disk : f # e => With(e, words)[f] = disk[f]
BY DEF With

LEMMA WithoutEntry ==
  ASSUME NEW e
  PROVE  /\ DOMAIN Without(e) = DOMAIN disk \ {e}
         /\ \A f \in DOMAIN disk : f # e => Without(e)[f] = disk[f]
BY DEF Without

\* Only files under temporary names disappear.
LEMMA EntriesStay ==
  ASSUME TypeInv, Next, NEW e \in DOMAIN disk, e[2] = 0
  PROVE  e \in DOMAIN disk'
<1>0. attempt \in Nat
  BY DEF TypeInv
<1>1. CASE UNCHANGED <<disk, tampered>>
  BY <1>1
<1>2. CASE OpenTemporary
  <2>1. disk' = disk \/ \E n : disk' = With(TemporaryEntry(opts.save, n), <<>>)
    BY <1>2 DEF OpenTemporary
  <2> QED
    BY <2>1, WithEntry
<1>3. CASE CloseTemporary
  <2>1. \E words : disk' = With(TemporaryEntry(opts.save, attempt), words)
    BY <1>3 DEF CloseTemporary
  <2> QED
    BY <2>1, WithEntry
<1>4. CASE Rename
  BY <1>0, <1>4, Entries DEF Rename
<1>5. CASE RemoveTemporary
  <2>1. /\ UNCHANGED disk \/ disk' = Without(TemporaryEntry(opts.save, attempt))
        /\ e # TemporaryEntry(opts.save, attempt)
    BY <1>0, <1>5, Entries DEF RemoveTemporary
  <2> QED
    BY <2>1, WithoutEntry
<1>6. CASE OpenExport
  <2>1. disk' = disk \/ disk' = With(Entry(opts.export), <<>>)
    BY <1>6 DEF OpenExport
  <2> QED
    BY <2>1, WithEntry
<1>7. CASE WriteExport
  <2>1. \E words : disk' = With(Entry(opts.export), words)
    BY <1>7 DEF WriteExport
  <2> QED
    BY <2>1, WithEntry
<1>8. CASE Crash
  <2>1. disk' = disk \/ (\E words : disk' = With(TemporaryEntry(opts.save, attempt), words))
          \/ \E words : disk' = With(Entry(opts.export), words)
    BY <1>8 DEF Crash
  <2> QED
    BY <2>1, WithEntry
<1>9. CASE Damage
  <2>1. \E f, words : disk' = With(f, words)
    BY <1>9 DEF Damage
  <2> QED
    BY <2>1, WithEntry
<1>10. CASE CreateForeign
  <2>1. \E words : disk' = With(Entry(opts.export), words)
    BY <1>10 DEF CreateForeign
  <2> QED
    BY <2>1, WithEntry
<1> QED
  BY <1>1, <1>2, <1>3, <1>4, <1>5, <1>6, <1>7, <1>8, <1>9, <1>10, DiskMoves

\* CreateForeign and the other threads touch no file that is there.
Aside == CreateForeign \/ Worker

\* Neither changes a file, nor where the run is, what it reads or what it writes.
LEMMA AsideKeeps ==
  ASSUME Aside, NEW e \in DOMAIN disk
  PROVE  e \in DOMAIN disk' /\ disk'[e] = disk[e]
<1>1. CASE CreateForeign
  <2>1. e # Entry(opts.export) /\ \E words : disk' = With(Entry(opts.export), words)
    BY <1>1 DEF CreateForeign, Exists
  <2>2. PICK words : disk' = With(Entry(opts.export), words)
    BY <2>1
  <2>3. With(Entry(opts.export), words)[e] = disk[e] /\ e \in DOMAIN With(Entry(opts.export), words)
    BY <2>1 DEF With
  <2> QED
    BY <2>2, <2>3
<1>2. CASE Worker
  BY <1>2 DEF Worker, WorkerBegins, WorkerEnds, WorkerInserts
<1> QED
  BY <1>1, <1>2 DEF Aside

LEMMA AsideStays ==
  ASSUME Aside
  PROVE  /\ UNCHANGED <<world, pc, opts, completed, trainer, reader, keys, index, copied, out,
                        attempt, status, exit>>
         /\ tampered => tampered'
         /\ ~world.workers => UNCHANGED <<store, busy, moments>> \/ busy # {}
<1>1. CASE CreateForeign
  BY <1>1 DEF CreateForeign, writing, workers
<1>2. CASE WorkerBegins
  BY <1>2 DEF WorkerBegins, writing, files
<1>3. CASE WorkerEnds
  BY <1>3 DEF WorkerEnds, writing, files
<1>4. CASE WorkerInserts
  BY <1>4 DEF WorkerInserts, writing, files
<1> QED
  BY <1>1, <1>2, <1>3, <1>4 DEF Aside, Worker

-----------------------------------------------------------------------------
\* Each part of the invariant after a step.

\* A block of iterations is that many iterations of trainer and store.
LEMMA TrainBlockDoes ==
  ASSUME TypeInv, TrainBlock, opts \in Options
  PROVE  /\ Block \in Nat /\ completed' \in Nat
         /\ Trained(trainer, store, Block) \in Pairs
         /\ [trainer |-> trainer', nodes |-> store'] = Trained(trainer, store, Block)
         /\ trainer' \in Trainers /\ store' \in Stores
         /\ trainer'.training_iterations = trainer.training_iterations + Block
<1>1. Block \in Nat /\ completed \in Nat
  BY DEF TypeInv, TrainBlock, Block, Options
<1>2. trainer \in Trainers /\ store \in Stores
  BY DEF TypeInv
<1>3. PICK after : after = Trained(trainer, store, Block)
  OBVIOUS
<1>4. after \in Pairs /\ after.trainer.training_iterations = trainer.training_iterations + Block
  BY <1>1, <1>2, <1>3, TrainedKeeps
<1>5. trainer' = after.trainer /\ store' = after.nodes /\ completed' = completed + Block
  BY <1>3 DEF TrainBlock
<1>6. after = [trainer |-> after.trainer, nodes |-> after.nodes]
        /\ after.trainer \in Trainers /\ after.nodes \in Stores
  BY <1>4 DEF Pairs
<1> QED
  BY <1>1, <1>3, <1>4, <1>5, <1>6

\* A function on 1..n as a list of n values.
LEMMA Sized ==
  ASSUME NEW n \in Nat, NEW s, s = [a \in 1..n |-> s[a]], \A a \in 1..n : s[a] \in Nat
  PROVE  s \in Seq(Nat) /\ Len(s) = n
<1>1. s \in [1..n -> Nat]
  OBVIOUS
<1> QED
  BY <1>1

\* The node that another thread creates.
LEMMA ZeroNode ==
  ASSUME NEW k \in GameKeys, NEW zero, zero = [a \in 1..ActionCount[k] |-> 0]
  PROVE  [regret_sums |-> zero, strategy_sums |-> zero] \in Nodes(k)
<1>1. ActionCount[k] \in Nat
  BY SessionAssumption, FormatAssumption
<1>2. zero \in Seq(Nat) /\ Len(zero) = ActionCount[k]
  BY <1>1
<1> QED
  BY <1>2 DEF Nodes

\* The other threads keep the store a store, with the same nodes or one more.
LEMMA WorkersKeepStores ==
  ASSUME Worker, store \in Stores, busy \subseteq DOMAIN store
  PROVE  store' \in Stores /\ DOMAIN store \subseteq DOMAIN store'
<1>1. DOMAIN store \subseteq GameKeys /\ \A k \in DOMAIN store : store[k] \in Nodes(k)
  BY StoresOut
<1>2. CASE WorkerBegins
  <2>1. PICK k \in DOMAIN store, sign \in {0, 8} :
           store' = [store EXCEPT ![k].regret_sums = [a \in DOMAIN @ |-> ((@[a] + 1) % 7) + sign]]
    BY <1>2 DEF WorkerBegins
  <2> DEFINE old == store[k].regret_sums
             sums == [a \in DOMAIN old |-> ((old[a] + 1) % 7) + sign]
             node == [store[k] EXCEPT !.regret_sums = sums]
  <2>2. k \in GameKeys /\ store[k] \in Nodes(k) /\ old \in Seq(Nat) /\ Len(old) = ActionCount[k]
    BY <1>1, NodesOut
  <2>3. \A x \in Nat : ((x + 1) % 7) + sign \in Nat
    OBVIOUS
  <2>4. sums \in Seq(Nat) /\ Len(sums) = ActionCount[k]
    <3>1. DOMAIN old = 1..Len(old) /\ Len(old) \in Nat /\ \A a \in DOMAIN old : old[a] \in Nat
      BY <2>2
    <3>2. \A a \in 1..Len(old) : sums[a] \in Nat
      BY <2>3, <3>1
    <3>3. DOMAIN sums = 1..Len(old)
      BY <3>1
    <3>4. sums = [a \in 1..Len(old) |-> sums[a]]
      BY <3>1
    <3> HIDE DEF sums, old
    <3> QED
      BY <2>2, <3>1, <3>2, <3>4, Sized
  <2> HIDE DEF sums
  <2>5. node \in Nodes(k)
    BY <2>2, <2>4 DEF Nodes
  <2>6. store' = [store EXCEPT ![k] = node]
    BY <2>1 DEF sums
  <2> HIDE DEF node, old
  <2>7. DOMAIN store' = DOMAIN store /\ \A j \in DOMAIN store : store'[j] \in Nodes(j)
    BY <1>1, <2>5, <2>6
  <2>8. store' = [j \in DOMAIN store |-> store'[j]]
    BY <2>6
  <2> QED
    BY <1>1, <2>7, <2>8, StoresIn
<1>3. CASE WorkerEnds
  <2>1. PICK k \in busy :
           store' = [store EXCEPT ![k].strategy_sums = [a \in DOMAIN @ |-> (@[a] + 1) % 7]]
    BY <1>3 DEF WorkerEnds
  <2> DEFINE old == store[k].strategy_sums
             sums == [a \in DOMAIN old |-> (old[a] + 1) % 7]
             node == [store[k] EXCEPT !.strategy_sums = sums]
  <2>2. k \in DOMAIN store /\ k \in GameKeys /\ store[k] \in Nodes(k) /\ old \in Seq(Nat)
          /\ Len(old) = ActionCount[k]
    BY <1>1, NodesOut
  <2>3. \A x \in Nat : (x + 1) % 7 \in Nat
    OBVIOUS
  <2>4. sums \in Seq(Nat) /\ Len(sums) = ActionCount[k]
    <3>1. DOMAIN old = 1..Len(old) /\ Len(old) \in Nat /\ \A a \in DOMAIN old : old[a] \in Nat
      BY <2>2
    <3>2. \A a \in 1..Len(old) : sums[a] \in Nat
      BY <2>3, <3>1
    <3>3. DOMAIN sums = 1..Len(old)
      BY <3>1
    <3>4. sums = [a \in 1..Len(old) |-> sums[a]]
      BY <3>1
    <3> HIDE DEF sums, old
    <3> QED
      BY <2>2, <3>1, <3>2, <3>4, Sized
  <2> HIDE DEF sums
  <2>5. node \in Nodes(k)
    BY <2>2, <2>4 DEF Nodes
  <2>6. store' = [store EXCEPT ![k] = node]
    BY <2>1 DEF sums
  <2> HIDE DEF node, old
  <2>7. DOMAIN store' = DOMAIN store /\ \A j \in DOMAIN store : store'[j] \in Nodes(j)
    BY <1>1, <2>2, <2>5, <2>6
  <2>8. store' = [j \in DOMAIN store |-> store'[j]]
    BY <2>6
  <2> QED
    BY <1>1, <2>7, <2>8, StoresIn
<1>4. CASE WorkerInserts
  <2>1. PICK k \in GameKeys \ DOMAIN store :
           LET zero == [a \in 1..ActionCount[k] |-> 0]
           IN  store' = [j \in DOMAIN store \cup {k} |->
                           IF j = k THEN [regret_sums |-> zero, strategy_sums |-> zero]
                           ELSE store[j]]
    BY <1>4 DEF WorkerInserts
  <2>2. PICK zero : zero = [a \in 1..ActionCount[k] |-> 0]
    OBVIOUS
  <2>3. PICK node : node = [regret_sums |-> zero, strategy_sums |-> zero]
    OBVIOUS
  <2>4. node \in Nodes(k)
    BY <2>2, <2>3, ZeroNode
  <2>5. store' = [j \in DOMAIN store \cup {k} |-> IF j = k THEN node ELSE store[j]]
    BY <2>1, <2>2, <2>3
  <2>6. \A j \in DOMAIN store \cup {k} : store'[j] \in Nodes(j)
    BY <1>1, <2>4, <2>5
  <2>7. store' = [j \in DOMAIN store \cup {k} |-> store'[j]] /\ DOMAIN store' = DOMAIN store \cup {k}
    BY <2>5
  <2>8. DOMAIN store \cup {k} \in SUBSET GameKeys
    BY <1>1
  <2> QED
    BY <2>6, <2>7, <2>8, StoresIn
<1> QED
  BY <1>2, <1>3, <1>4 DEF Worker

\* The format in use is one of two.
LEMMA ZstdType ==
  ASSUME TypeInv
  PROVE  world.zstd \in BOOLEAN /\ world.workers \in BOOLEAN
BY SessionAssumption DEF TypeInv

\* What Publish binds is the file.
LEMMA PublishDoes ==
  ASSUME TypeInv, ReaderInv, Publish
  PROVE  \/ pc' = "cleanup" /\ UNCHANGED <<trainer, store>>
         \/ /\ pc' = "loaded" /\ trainer' \in Trainers /\ store' \in Stores
            /\ disk[Entry(opts.load)] = Framed(Payload(trainer', store'), world.zstd)
            /\ (~world.workers /\ ~tampered) => Exact(trainer', store')
<1>1. PICK r : r = ReadChecksum(Words, reader)
  OBVIOUS
<1>2. PICK f : f = disk[Entry(opts.load)]
  OBVIOUS
<1>3. pc = "read" /\ reader.left = 0 /\ Words = Unframed(f, world.zstd)
  BY <1>2 DEF Publish, Words
<1>4. CASE ~(r.status = "SUCCESS" /\ EndsCleanly(f, world.zstd, r.pos))
  BY <1>1, <1>2, <1>4 DEF Publish, Fail, Goto
<1>5. CASE r.status = "SUCCESS" /\ EndsCleanly(f, world.zstd, r.pos)
  <2>1. /\ trainer' = [variant |-> r.variant, rng |-> r.rng, stats |-> r.stats,
                       training_iterations |-> r.training_iterations]
        /\ store' = r.nodes /\ pc' = "loaded"
    BY <1>1, <1>2, <1>5 DEF Publish, Goto
  <2>2. CASE \E t \in Trainers, s \in Stores :
                /\ ValidStore(t, s) /\ Like(f, world.zstd, t, s)
                /\ (~world.workers /\ ~tampered) => Exact(t, s)
                /\ \E i \in 0..Count(s) : reader = ReaderAt(t, s, i)
    <3>1. PICK t \in Trainers, s \in Stores :
                /\ ValidStore(t, s) /\ Like(f, world.zstd, t, s)
                /\ (~world.workers /\ ~tampered) => Exact(t, s)
                /\ \E i \in 0..Count(s) : reader = ReaderAt(t, s, i)
      BY <2>2
    <3>2. PICK i \in 0..Count(s) : reader = ReaderAt(t, s, i)
      BY <3>1
    <3>3. Count(s) \in Nat
      BY KeysOf
    <3>4. i = Count(s)
      <4>1. reader.left = Count(s) - i
        BY <3>2 DEF ReaderAt
      <4> QED
        BY <1>3, <3>3, <4>1
    <3>5. PICK P : P = Payload(t, s)
      OBVIOUS
    <3>6. reader = ReaderAt(t, s, Count(s)) /\ r = ReadChecksum(Words, ReaderAt(t, s, Count(s)))
      BY <1>1, <3>2, <3>4
    <3>7. Len(Words) >= Len(P) /\ r.pos = Len(P) + 1
      BY <1>5, <3>5, <3>6, ChecksumRead
    <3>8. ~EndsElsewhere(f, world.zstd, P)
      BY <1>3, <1>5, <3>7 DEF EndsElsewhere
    <3>9. f = Framed(P, world.zstd)
      BY <3>1, <3>5, <3>8 DEF Like
    <3>10. reader \in Readers
      <4>1. Count(s) \in 0..Count(s)
        BY <3>3
      <4> QED
        BY <3>6, <4>1, ReaderAtType
    <3>11. "status" \in DOMAIN reader /\ reader.pos \in Int
      BY <3>10 DEF Readers
    <3>12. r = [reader EXCEPT !.pos = reader.pos + 1]
      BY <1>1, <1>5, <3>11, ChecksumFields
    <3>13. /\ r.variant = reader.variant /\ r.rng = reader.rng /\ r.stats = reader.stats
           /\ r.training_iterations = reader.training_iterations /\ r.nodes = reader.nodes
      BY <3>10, <3>12 DEF Readers
    <3>14. /\ [variant |-> reader.variant, rng |-> reader.rng, stats |-> reader.stats,
               training_iterations |-> reader.training_iterations] = t
           /\ reader.nodes = s
      BY <3>6, Published
    <3>15. trainer' = t /\ store' = s
      BY <2>1, <3>13, <3>14
    <3> QED
      BY <1>2, <2>1, <3>1, <3>5, <3>9, <3>15
  <2>3. CASE Unsealed(f, world.zstd) /\ Lost(reader)
    <3>1. "status" \in DOMAIN reader /\ reader.pos \in Int
      BY <2>3 DEF Lost
    <3>2. /\ Len(Words) >= reader.pos /\ Words[reader.pos] = Checksum(SubSeq(Words, 1, reader.pos - 1))
          /\ r = [reader EXCEPT !.pos = reader.pos + 1]
      BY <1>1, <1>5, <3>1, ChecksumFields
    <3>3. r.pos = reader.pos + 1
      BY <2>3, <3>2 DEF Lost
    <3> QED
      BY <1>3, <1>5, <2>3, <3>1, <3>2, <3>3 DEF Unsealed
  <2> QED
    BY <1>2, <1>3, <2>2, <2>3 DEF ReaderInv
<1> QED
  BY <1>4, <1>5

\* TypeInv.
LEMMA TypeKept ==
  ASSUME TypeInv, BusyInv, ReaderInv, Next
  PROVE  TypeInv'
<1>1. world' \in Worlds
  BY WorldStays DEF TypeInv
<1>2. trainer' \in Trainers /\ store' \in Stores
  <2>0. trainer \in Trainers /\ store \in Stores /\ busy \subseteq DOMAIN store
    BY DEF TypeInv, BusyInv
  <2>1. CASE InitTrainer
    <3>1. pc # "idle" /\ (trainer' = trainer \/ trainer' = NewTrainer(opts)) /\ store' = store
      BY <2>1 DEF InitTrainer
    <3> QED
      BY <2>0, <3>1, InitTrainerType
  <2>2. CASE Publish
    BY <2>0, <2>2, PublishDoes
  <2>3. CASE TrainBlock
    <3>1. pc # "idle"
      BY <2>3 DEF TrainBlock
    <3> QED
      BY <2>3, <3>1, OptsType, TrainBlockDoes
  <2>4. CASE Cleanup \/ Crash
    BY <2>4, NoTrainerType DEF Cleanup, Crash, Forget
  <2>5. CASE Worker
    <3>1. trainer' = trainer
      BY <2>5 DEF Worker, WorkerBegins, WorkerEnds, WorkerInserts
    <3> QED
      BY <2>0, <2>5, <3>1, WorkersKeepStores
  <2> QED
    BY <2>0, <2>1, <2>2, <2>3, <2>4, <2>5, StoreMoves DEF Worker
<1>3. completed' \in Nat
  <2>1. CASE TrainBlock
    <3>1. pc # "idle"
      BY <2>1 DEF TrainBlock
    <3> QED
      BY <2>1, <3>1, OptsType, TrainBlockDoes
  <2>2. completed' = completed \/ completed' = 0 \/ TrainBlock
    BY CompletedMoves
  <2> QED
    BY <2>1, <2>2 DEF TypeInv
<1>4. attempt' \in Nat
  <2>1. CASE OpenTemporary
    BY <2>1, SessionAssumption DEF OpenTemporary, TypeInv
  <2>2. CASE Cleanup \/ Crash
    BY <2>2 DEF Cleanup, Crash, Forget
  <2> QED
    BY <2>1, <2>2, AttemptMoves DEF TypeInv
<1>5. pc' # "idle" => \E o \in Invocations : Accepted(o) /\ opts' = Reporting(o)
  <2>1. CASE Invoke
    BY <2>1 DEF Invoke
  <2>2. CASE Cleanup \/ Crash
    BY <2>2 DEF Cleanup, Crash, Forget
  <2>3. CASE UNCHANGED opts /\ ~Invoke
    <3>1. pc = "idle" => pc' = "idle"
      BY <2>3, IdleMoves
    <3> QED
      BY <2>3, <3>1 DEF TypeInv
  <2> QED
    BY <2>1, <2>2, <2>3, OptsMoves
<1> QED
  BY <1>1, <1>2, <1>3, <1>4, <1>5 DEF TypeInv

\* IdleInv: nothing is trained or loaded before the options are accepted.
LEMMA IdleKept ==
  ASSUME TypeInv, IdleInv, BusyInv, ReaderInv, Next
  PROVE  IdleInv'
<1>0. Follows(pc, pc')
  BY Stages
<1>1. CASE UNCHANGED <<trainer, store>>
  <2>1. CASE pc' = "idle" /\ pc # "idle"
    <3>1. Cleanup \/ Crash
      BY <2>1, IntoIdle
    <3> QED
      BY <3>1 DEF Cleanup, Crash, Forget, IdleInv
  <2>2. CASE ~(pc' = "idle" /\ pc # "idle")
    <3>1. pc' \in Early => pc \in Early
      BY <1>0, <2>2 DEF Early, Follows
    <3> QED
      BY <1>1, <3>1 DEF IdleInv
  <2> QED
    BY <2>1, <2>2
<1>2. CASE InitTrainer
  <2>1. UNCHANGED <<trainer, store>> \/ pc' = "train"
    BY <1>2 DEF InitTrainer, Goto
  <2> QED
    BY <1>1, <2>1 DEF IdleInv, Early
<1>3. CASE Publish
  <2>1. UNCHANGED <<trainer, store>> \/ pc' = "loaded"
    BY <1>3, PublishDoes
  <2> QED
    BY <1>1, <2>1 DEF IdleInv, Early
<1>4. CASE TrainBlock
  BY <1>4 DEF TrainBlock, IdleInv, Early
<1>5. CASE Cleanup \/ Crash
  BY <1>5 DEF Cleanup, Crash, Forget, IdleInv
<1>6. CASE WorkerBegins \/ WorkerInserts
  BY <1>6 DEF WorkerBegins, WorkerInserts, writing, files, IdleInv, Early
<1>7. CASE WorkerEnds
  <2>1. pc' = pc /\ busy # {}
    BY <1>7 DEF WorkerEnds
  <2> QED
    BY <2>1 DEF BusyInv, IdleInv
<1> QED
  BY <1>1, <1>2, <1>3, <1>4, <1>5, <1>6, <1>7, StoreMoves

\* BusyInv: other threads commit to one node at a time, and only while a checkpoint is written.
LEMMA BusyKept ==
  ASSUME TypeInv, IdleInv, BusyInv, ReaderInv, Next
  PROVE  BusyInv'
<1> DEFINE Calm == Early \cup {"loaded", "evaluate", "train", "save"}
<1>0. /\ busy \subseteq DOMAIN store /\ (\A j, k \in busy : j = k)
      /\ (busy # {} => world.workers) /\ (pc \in Calm => busy = {}) /\ store \in Stores
      /\ world' = world
  BY WorldStays DEF BusyInv, TypeInv
<1>1. pc' \in Calm => pc \in Calm \/ pc' = "idle"
  BY Stages DEF Follows, Early
<1>2. CASE UNCHANGED busy
  <2>1. busy = {} \/ DOMAIN store \subseteq DOMAIN store'
    <3>1. CASE UNCHANGED <<trainer, store>>
      BY <3>1
    <3>2. CASE InitTrainer \/ Publish \/ TrainBlock
      <4>1. pc \in {"init", "read", "train"}
        BY <3>2 DEF InitTrainer, Publish, TrainBlock
      <4> QED
        BY <1>0, <4>1 DEF Early
    <3>3. CASE Cleanup \/ Crash
      BY <1>2, <3>3 DEF Cleanup, Crash, Forget
    <3>4. CASE WorkerBegins \/ WorkerEnds \/ WorkerInserts
      BY <1>0, <3>4, WorkersKeepStores DEF Worker
    <3> QED
      BY <3>1, <3>2, <3>3, <3>4, StoreMoves
  <2>2. pc' = "idle" => busy = {}
    <3>1. pc' = "idle" => pc = "idle" \/ Cleanup \/ Crash
      BY IntoIdle
    <3> QED
      BY <1>0, <1>2, <3>1 DEF Cleanup, Crash, Forget, Early
  <2> QED
    BY <1>0, <1>1, <1>2, <2>1, <2>2 DEF BusyInv
<1>3. CASE Cleanup \/ Crash
  BY <1>3 DEF Cleanup, Crash, Forget, BusyInv
<1>4. CASE WorkerBegins
  <2>1. PICK k \in DOMAIN store : busy' = {k}
    BY <1>4 DEF WorkerBegins
  <2>2. world.workers /\ pc' = pc /\ pc \in {"collect", "header", "copy", "record"}
    BY <1>4 DEF WorkerBegins, writing, files
  <2>3. DOMAIN store \subseteq DOMAIN store'
    BY <1>0, <1>4, WorkersKeepStores DEF Worker
  <2> QED
    BY <1>0, <2>1, <2>2, <2>3 DEF BusyInv, Early
<1>5. CASE WorkerEnds
  BY <1>5 DEF WorkerEnds, BusyInv
<1> QED
  BY <1>2, <1>3, <1>4, <1>5, BusyMoves

\* TempInv: a run creates its temporary file under a free name and is the only one to rename
\* or remove it; what it does not get rid of is left.
LEMMA TempKept ==
  ASSUME TypeInv, TempInv, Next
  PROVE  TempInv'
<1>0. attempt \in Nat
  BY DEF TypeInv
<1>1. left \subseteq Temporaries /\ Temporaries \ left = IF pc \in Writing THEN {Own} ELSE {}
  BY DEF TempInv
<1>2. ASSUME UNCHANGED left, Temporaries' = Temporaries, pc' \in Writing <=> pc \in Writing,
             pc \in Writing => UNCHANGED Own
      PROVE  TempInv'
  BY <1>1, <1>2 DEF TempInv
<1>3. CASE OpenTemporary
  <2>1. pc = "save" /\ UNCHANGED <<left, opts>>
    BY <1>3 DEF OpenTemporary, files
  <2>2. CASE UNCHANGED disk /\ pc' \in {"export", "cleanup"}
    BY <1>2, <2>1, <2>2 DEF Temporaries, Writing
  <2>3. CASE pc' = "collect" /\ \E n \in Nat :
                 Free(n) /\ disk' = With(TemporaryEntry(opts.save, n), <<>>) /\ attempt' = n
    <3>1. attempt' \in Nat /\ Own' = TemporaryEntry(opts.save, attempt')
      BY <2>1, <2>3 DEF Own, TemporaryEntry
    <3>2. Own' \notin DOMAIN disk /\ DOMAIN disk' = DOMAIN disk \cup {Own'}
      BY <2>3, <3>1 DEF Free, Exists, With
    <3>3. Own'[2] # 0
      BY <3>1, Entries
    <3>4. Temporaries' = Temporaries \cup {Own'} /\ Own' \notin Temporaries
      BY <3>2, <3>3 DEF Temporaries
    <3>5. Temporaries = left
      BY <1>1, <2>1 DEF Writing
    <3> QED
      BY <2>1, <2>3, <3>4, <3>5 DEF TempInv, Writing
  <2> QED
    BY <1>3, <2>2, <2>3, SessionAssumption DEF OpenTemporary, Goto, Fail
<1>4. CASE Rename
  <2>1. pc \in Writing /\ UNCHANGED <<left, Own>>
    BY <1>4 DEF Rename, files, writing, Writing, Own, TemporaryEntry
  <2>2. CASE pc' = "remove" /\ UNCHANGED disk
    BY <1>2, <2>1, <2>2 DEF Temporaries, Writing
  <2>3. CASE pc' = "export" /\ DOMAIN disk' = (DOMAIN disk \cup {Entry(opts.save)}) \ {Own}
    <3>1. Temporaries' = Temporaries \ {Own}
      BY <2>3, Entries DEF Temporaries
    <3> QED
      BY <1>1, <2>1, <2>3, <3>1 DEF TempInv, Writing
  <2> QED
    BY <1>4, <2>2, <2>3 DEF Rename, Goto, Own
<1>5. CASE RemoveTemporary
  <2>1. pc \in Writing /\ pc' \notin Writing
    BY <1>5 DEF RemoveTemporary, Fail, Goto, Writing
  <2>2. CASE disk' = Without(Own) /\ UNCHANGED left
    <3>1. Temporaries' = Temporaries \ {Own}
      BY <2>2 DEF Temporaries, Without
    <3> QED
      BY <1>1, <2>1, <2>2, <3>1 DEF TempInv
  <2>3. CASE left' = left \cup {Own} /\ UNCHANGED disk
    BY <1>1, <2>1, <2>3 DEF TempInv, Temporaries
  <2> QED
    BY <1>5, <2>2, <2>3 DEF RemoveTemporary, Own
<1>6. CASE Crash
  <2>1. pc' \notin Writing /\ left' = IF pc \in Writing THEN left \cup {Own} ELSE left
    BY <1>6 DEF Crash, Forget, Writing, Own
  <2>2. Temporaries' = Temporaries
    <3>1. CASE pc \in {"collect", "header", "copy", "record", "close"}
      <4>1. \E words : disk' = With(Own, words)
        BY <1>6, <3>1 DEF Crash, Own
      <4>2. Own \in DOMAIN disk
        BY <1>1, <3>1 DEF Temporaries, Writing
      <4> QED
        BY <4>1, <4>2 DEF With, Temporaries
    <3>2. CASE pc \notin {"collect", "header", "copy", "record", "close"}
      <4>1. disk' = disk \/ \E words : disk' = With(Entry(opts.export), words)
        BY <1>6, <3>2 DEF Crash
      <4> QED
        BY <4>1, Entries DEF With, Temporaries
    <3> QED
      BY <3>1, <3>2
  <2> QED
    BY <1>1, <2>1, <2>2 DEF TempInv
<1>7. CASE ~OpenTemporary /\ ~Rename /\ ~RemoveTemporary /\ ~Crash
  <2>1. UNCHANGED left /\ (pc' \in Writing <=> pc \in Writing)
    BY <1>7, LeftMoves, WritingMoves
  <2>2. pc \in Writing => UNCHANGED <<opts, attempt>>
    BY <1>7, OptsMoves, AttemptMoves DEF Invoke, Cleanup, Writing
  <2>3. ASSUME Temporaries' = Temporaries
        PROVE  TempInv'
    BY <1>2, <2>1, <2>2, <2>3 DEF Own, TemporaryEntry
  <2>4. CASE UNCHANGED disk
    BY <2>3, <2>4 DEF Temporaries
  <2>5. CASE CloseTemporary
    <3>1. pc \in Writing /\ \E words : disk' = With(Own, words)
      BY <2>5 DEF CloseTemporary, Writing, Own
    <3>2. Own \in DOMAIN disk
      BY <1>1, <3>1 DEF Temporaries
    <3> QED
      BY <2>3, <3>1, <3>2 DEF With, Temporaries
  <2>6. CASE OpenExport \/ WriteExport \/ CreateForeign
    <3>1. disk' = disk \/ \E words : disk' = With(Entry(opts.export), words)
      BY <2>6 DEF OpenExport, WriteExport, CreateForeign
    <3> QED
      BY <2>3, <3>1, Entries DEF With, Temporaries
  <2>7. CASE Damage
    <3>1. \E f \in DOMAIN disk : \E words : disk' = With(f, words)
      BY <2>7 DEF Damage
    <3> QED
      BY <2>3, <3>1 DEF With, Temporaries
  <2> QED
    BY <1>7, <2>4, <2>5, <2>6, <2>7, DiskMoves
<1> QED
  BY <1>3, <1>4, <1>5, <1>6, <1>7

\* LoadInv: the file that the run was asked to load is still there.
LEMMA LoadKept ==
  ASSUME TypeInv, LoadInv, Next
  PROVE  LoadInv'
<1>0. Follows(pc, pc') /\ (UNCHANGED opts \/ pc' \in {"idle", "inspect"})
  BY Stages, OptsMoves DEF Invoke, Cleanup, Crash, Forget
<1>1. pc' = "init" => opts'.load = NoPath
  <2>1. pc' = "init" => pc = "init" \/ (pc = "inspect" /\ opts.load = NoPath)
    BY InitMoves
  <2> QED
    BY <1>0, <2>1 DEF LoadInv
<1>2. ASSUME pc' \in Opened, pc' \in {"read", "loaded"} \/ opts'.load # NoPath
      PROVE  Exists(Entry(opts.load))'
  <2>1. opts' = opts
    BY <1>0, <1>2 DEF Opened, Writing
  <2>2. Exists(Entry(opts.load))
    <3>1. CASE pc = "open"
      <4>1. pc' = "read"
        BY <1>0, <1>2, <3>1 DEF Follows, Opened, Writing
      <4>2. OpenLoad
        BY <3>1, <4>1, Arrive, AsideStays DEF Arrivals, ReadRecord, Aside
      <4> QED
        BY <4>1, <4>2 DEF OpenLoad, Fail, Goto
    <3>2. CASE pc # "open"
      <4>1. pc \in Opened \/ (pc = "init" /\ pc' = "train")
        BY <1>0, <1>2, <3>2 DEF Follows, Opened, Writing
      <4>2. pc' \in {"read", "loaded"} => pc \in {"read", "loaded"}
        BY <1>0, <3>2 DEF Follows
      <4> QED
        BY <1>2, <2>1, <4>1, <4>2 DEF LoadInv
    <3> QED
      BY <3>1, <3>2
  <2>3. Entry(opts.load) \in DOMAIN disk /\ Entry(opts.load)[2] = 0
    BY <2>2 DEF Exists, Entry
  <2> QED
    BY <2>1, <2>3, EntriesStay DEF Exists, Entry
<1> QED
  BY <1>1, <1>2 DEF LoadInv

-----------------------------------------------------------------------------
\* The reader.

\* A checkpoint is like the one of its trainer and store.
LEMMA FramedLike ==
  ASSUME NEW t \in Trainers, NEW s \in Stores, NEW zstd \in BOOLEAN
  PROVE  Like(Framed(Payload(t, s), zstd), zstd, t, s)
<1>1. PICK P \in Seq(Nat) : P = Payload(t, s)
  BY PayloadLong
<1>2. Unframed(Framed(P, zstd), zstd) = P
  BY FrameRead
<1>3. P \in Seq(Int)
  BY NatWords
<1>4. Agrees(P, P)
  BY <1>3 DEF Agrees
<1> QED
  BY <1>1, <1>2, <1>4 DEF Like

\* What a file is to the program.
LEMMA FileIs ==
  ASSUME TypeInv, DiskInv, NEW e \in DOMAIN disk, e[2] = 0
  PROVE  \/ \E t \in Trainers, s \in Stores :
               /\ ValidStore(t, s) /\ Like(disk[e], world.zstd, t, s)
               /\ (~world.workers /\ ~tampered) => Exact(t, s)
         \/ Unsealed(disk[e], world.zstd)
         \/ Rejected(disk[e], world.zstd)
<1>0. world.zstd \in BOOLEAN
  BY ZstdType
<1>1. CASE tampered
  <2>1. Understood(disk[e], world.zstd)
    BY <1>1 DEF DiskInv, FileOk
  <2> QED
    BY <1>1, <2>1 DEF Understood
<1>2. CASE ~tampered /\ IsText(disk[e])
  BY <1>0, <1>2, TextRejected
<1>3. CASE ~tampered /\ Saved(disk[e])
  <2>1. CASE world.workers
    <3>1. PICK t \in Trainers, s \in Stores :
             ValidStore(t, s) /\ disk[e] = Framed(Payload(t, s), world.zstd)
      BY <1>3, <2>1 DEF Saved, Whole
    <3>2. Like(disk[e], world.zstd, t, s)
      BY <1>0, <3>1, FramedLike
    <3> QED
      BY <2>1, <3>1, <3>2
  <2>2. CASE ~world.workers
    <3>1. PICK t \in Trainers, s \in Stores :
             ValidStore(t, s) /\ disk[e] = Framed(Payload(t, s), world.zstd) /\ Exact(t, s)
      BY <1>3, <2>2 DEF Saved, WholeExact
    <3>2. Like(disk[e], world.zstd, t, s)
      BY <1>0, <3>1, FramedLike
    <3> QED
      BY <3>1, <3>2
  <2> QED
    BY <2>1, <2>2
<1>4. tampered \/ Saved(disk[e]) \/ IsText(disk[e])
  BY DEF DiskInv, FileOk
<1> QED
  BY <1>1, <1>2, <1>3, <1>4

\* A reader that is lost stays lost.
LEMMA LostFails ==
  ASSUME NEW r, Lost(r), NEW x
  PROVE  Lost(Failed(r, x))
BY DEF Lost, Failed

LEMMA HeaderLost ==
  ASSUME NEW w, ReadHeader(w).status = "SUCCESS"
  PROVE  Lost(ReadHeader(w))
<1> DEFINE at == 3 + w[3]
           name == CHOOSE v \in Variants : VariantCode[v] = w[at + 1]
           size == at + 1 + (IF name = "MCCFR_EXTERNAL" THEN 1 ELSE 0)
<1>1. Failed(NewReader, "FORMAT_ERROR").status = "FORMAT_ERROR"
        /\ Failed(NewReader, "INCOMPATIBLE_GAME").status = "INCOMPATIBLE_GAME"
  BY FailedStatus DEF NewReader
<1>2. ReadHeader(w) # Failed(NewReader, "FORMAT_ERROR")
        /\ ReadHeader(w) # Failed(NewReader, "INCOMPATIBLE_GAME")
  BY <1>1
<1>3. w[3] \in 1..SchemaIdMaxLength /\ ReadHeader(w) = HeaderFields(w, size, name)
  BY <1>2 DEF ReadHeader
<1>4. size \in Int
  BY <1>3 DEF SchemaIdMaxLength
<1> HIDE DEF size, name
<1> QED
  BY <1>3, <1>4 DEF HeaderFields, Lost

LEMMA RecordLost ==
  ASSUME NEW w, NEW r, Lost(r)
  PROVE  Lost(ReadNode(w, r))
<1> DEFINE count == w[r.pos + 1]
           next == r.pos + 2 + 2 * count
           key == DecodeKey(w[r.pos])
           node == [regret_sums |-> SubSeq(w, r.pos + 2, r.pos + 1 + count),
                    strategy_sums |-> SubSeq(w, r.pos + 2 + count, next - 1)]
           nodes == [k \in DOMAIN r.nodes \cup {key} |-> IF k = key THEN node ELSE r.nodes[k]]
<1>1. ReadNode(w, r) = Failed(r, "FORMAT_ERROR")
        \/ (count \in 1..MaxLegalActions
             /\ ReadNode(w, r) = [r EXCEPT !.pos = next, !.left = @ - 1, !.nodes = nodes])
  BY DEF ReadNode
<1>2. CASE ReadNode(w, r) = Failed(r, "FORMAT_ERROR")
  BY <1>2, LostFails
<1>3. CASE count \in 1..MaxLegalActions
             /\ ReadNode(w, r) = [r EXCEPT !.pos = next, !.left = @ - 1, !.nodes = nodes]
  <2>1. next \in Int
    BY <1>3, FormatAssumption DEF Lost
  <2> HIDE DEF next, nodes
  <2> QED
    BY <1>3, <2>1 DEF Lost
<1> QED
  BY <1>1, <1>2, <1>3

\* ReaderInv.
LEMMA ReaderKept ==
  ASSUME TypeInv, BusyInv, DiskInv, LoadInv, ReaderInv, Next
  PROVE  ReaderInv'
<1> SUFFICES ASSUME pc' = "read" PROVE ReaderInv'
  BY DEF ReaderInv
<1> DEFINE entry == Entry(opts.load)
           f == disk[entry]
<1>0. world.zstd \in BOOLEAN
  BY ZstdType
<1>1. CASE OpenLoad
  <2>1. /\ entry \in DOMAIN disk /\ reader' = ReadHeader(Words) /\ ReadHeader(Words).status = "SUCCESS"
        /\ UNCHANGED <<world, disk, opts, tampered>> /\ Words = Unframed(f, world.zstd)
    BY <1>1 DEF OpenLoad, Proceed, Fail, Goto, Exists, Words, files
  <2>2. CASE \E t \in Trainers, s \in Stores :
               /\ ValidStore(t, s) /\ Like(f, world.zstd, t, s)
               /\ (~world.workers /\ ~tampered) => Exact(t, s)
    <3>1. PICK t \in Trainers, s \in Stores :
               /\ ValidStore(t, s) /\ Like(f, world.zstd, t, s)
               /\ (~world.workers /\ ~tampered) => Exact(t, s)
      BY <2>2
    <3>2. Agrees(Words, Payload(t, s))
      BY <2>1, <3>1 DEF Like
    <3>3. reader' = ReaderAt(t, s, 0)
      BY <2>1, <3>2, HeaderRead
    <3>4. 0 \in 0..Count(s)
      BY KeysOf
    <3> HIDE DEF f, entry
    <3>5. f = disk'[Entry(opts'.load)]
      BY <2>1 DEF f, entry
    <3>6. Like(disk'[Entry(opts'.load)], world'.zstd, t, s)
            /\ ((~world'.workers /\ ~tampered') => Exact(t, s))
      BY <2>1, <3>1, <3>5
    <3> QED
      BY <3>1, <3>3, <3>4, <3>6 DEF ReaderInv
  <2>3. CASE Unsealed(f, world.zstd)
    <3>1. Lost(reader')
      BY <2>1, HeaderLost
    <3> QED
      BY <2>1, <2>3, <3>1 DEF ReaderInv
  <2>4. ~Rejected(f, world.zstd)
    BY <2>1 DEF Rejected
  <2>5. entry[2] = 0
    BY DEF Entry
  <2> QED
    BY <2>1, <2>2, <2>3, <2>4, <2>5, FileIs
<1>2. CASE ReadRecord
  <2>1. /\ pc = "read" /\ reader.left > 0 /\ reader' = ReadNode(Words, reader)
        /\ ReadNode(Words, reader).status = "SUCCESS"
        /\ UNCHANGED <<world, disk, opts, tampered>> /\ Words = Unframed(f, world.zstd)
    BY <1>2 DEF ReadRecord, Proceed, Fail, Goto, Words, files
  <2>2. CASE \E t \in Trainers, s \in Stores :
               /\ ValidStore(t, s) /\ Like(f, world.zstd, t, s)
               /\ (~world.workers /\ ~tampered) => Exact(t, s)
               /\ \E i \in 0..Count(s) : reader = ReaderAt(t, s, i)
    <3>1. PICK t \in Trainers, s \in Stores :
               /\ ValidStore(t, s) /\ Like(f, world.zstd, t, s)
               /\ (~world.workers /\ ~tampered) => Exact(t, s)
               /\ \E i \in 0..Count(s) : reader = ReaderAt(t, s, i)
      BY <2>2
    <3>2. PICK i \in 0..Count(s) : reader = ReaderAt(t, s, i)
      BY <3>1
    <3>3. Count(s) \in Nat
      BY KeysOf
    <3>4. i \in 0..(Count(s) - 1) /\ i + 1 \in 0..Count(s)
      <4>1. reader.left = Count(s) - i
        BY <3>2 DEF ReaderAt
      <4> QED
        BY <2>1, <3>3, <4>1
    <3>5. Agrees(Words, Payload(t, s))
      BY <2>1, <3>1 DEF Like
    <3>6. reader' = ReaderAt(t, s, i + 1)
      BY <2>1, <3>1, <3>2, <3>4, <3>5, RecordRead
    <3> HIDE DEF f, entry
    <3>7. f = disk'[Entry(opts'.load)]
      BY <2>1 DEF f, entry
    <3>8. Like(disk'[Entry(opts'.load)], world'.zstd, t, s)
            /\ ((~world'.workers /\ ~tampered') => Exact(t, s))
      BY <2>1, <3>1, <3>7
    <3> QED
      BY <3>1, <3>4, <3>6, <3>8 DEF ReaderInv
  <2>3. CASE Unsealed(f, world.zstd) /\ Lost(reader)
    <3>1. Lost(reader')
      BY <2>1, <2>3, RecordLost
    <3> QED
      BY <2>1, <2>3, <3>1 DEF ReaderInv
  <2> QED
    BY <2>1, <2>2, <2>3 DEF ReaderInv
<1>3. CASE Aside
  <2>1. pc = "read" /\ UNCHANGED <<world, opts, reader>> /\ (tampered => tampered')
    BY <1>3, AsideStays
  <2>2. entry \in DOMAIN disk
    BY <2>1 DEF LoadInv, Opened, Exists
  <2>3. disk'[entry] = f
    BY <1>3, <2>2, AsideKeeps
  <2>4. CASE Unsealed(f, world.zstd) /\ Lost(reader)
    BY <2>1, <2>3, <2>4 DEF ReaderInv
  <2>5. CASE \E t \in Trainers, s \in Stores :
               /\ ValidStore(t, s) /\ Like(f, world.zstd, t, s)
               /\ (~world.workers /\ ~tampered) => Exact(t, s)
               /\ \E i \in 0..Count(s) : reader = ReaderAt(t, s, i)
    <3>1. PICK t \in Trainers, s \in Stores :
               /\ ValidStore(t, s) /\ Like(f, world.zstd, t, s)
               /\ (~world.workers /\ ~tampered) => Exact(t, s)
               /\ \E i \in 0..Count(s) : reader = ReaderAt(t, s, i)
      BY <2>5
    <3> HIDE DEF f, entry
    <3>2. f = disk'[Entry(opts'.load)]
      BY <2>1, <2>3 DEF f, entry
    <3>3. Like(disk'[Entry(opts'.load)], world'.zstd, t, s)
            /\ ((~world'.workers /\ ~tampered') => Exact(t, s))
      BY <2>1, <3>1, <3>2
    <3> QED
      BY <2>1, <3>1, <3>3 DEF ReaderInv
  <2> QED
    BY <2>1, <2>4, <2>5 DEF ReaderInv
<1> QED
  BY <1>1, <1>2, <1>3, Arrive DEF Arrivals, Aside

\* LoadedInv: what was loaded is what the file holds.
LEMMA LoadedKept ==
  ASSUME TypeInv, LoadInv, ReaderInv, BusyInv, LoadedInv, Next
  PROVE  LoadedInv'
<1> SUFFICES ASSUME pc' = "loaded" PROVE LoadedInv'
  BY DEF LoadedInv
<1>1. CASE Publish
  <2>1. UNCHANGED <<disk, opts, world>>
    BY <1>1 DEF Publish, files
  <2>2. disk[Entry(opts.load)] = Framed(Payload(trainer', store'), world.zstd)
    BY <1>1, PublishDoes
  <2> QED
    BY <2>1, <2>2 DEF LoadedInv
<1>2. CASE Aside
  <2>1. pc = "loaded" /\ UNCHANGED <<world, opts, trainer>>
    BY <1>2, AsideStays
  <2>2. store' = store
    <3>1. busy = {}
      BY <2>1 DEF BusyInv
    <3> QED
      BY <1>2, <2>1, <3>1 DEF Aside, Worker, CreateForeign, WorkerBegins, WorkerEnds, WorkerInserts
  <2>3. Entry(opts.load) \in DOMAIN disk
    BY <2>1 DEF LoadInv, Opened, Exists
  <2>4. disk'[Entry(opts.load)] = disk[Entry(opts.load)]
    BY <1>2, <2>3, AsideKeeps
  <2> QED
    BY <2>1, <2>2, <2>4 DEF LoadedInv
<1> QED
  BY <1>1, <1>2, Arrive DEF Arrivals, Aside

\* ExactInv: blocks of training add up, whether loaded or trained before (TrainedSum).
LEMMA ExactKept ==
  ASSUME TypeInv, IdleInv, BusyInv, ReaderInv, ExactInv, Next
  PROVE  ExactInv'
<1> SUFFICES ASSUME pc' \in Trains, ~world.workers, ~tampered PROVE Exact(trainer', store')
  <2>1. world' = world
    BY WorldStays
  <2>2. ~tampered' => ~tampered
    BY TamperedMoves DEF Damage, CreateForeign
  <2> QED
    BY <2>1, <2>2 DEF ExactInv, Exact
<1>1. CASE InitTrainer
  <2>1. pc = "init" /\ trainer' = NewTrainer(opts) /\ store' = store
    BY <1>1 DEF InitTrainer, Fail, Goto, Trains, Writing
  <2>2. store = <<>>
    BY <2>1 DEF IdleInv, Early
  <2> QED
    BY <2>1, <2>2, InitTrainerType
<1>2. CASE Publish
  <2>1. pc' # "cleanup"
    BY DEF Trains, Writing
  <2> QED
    BY <1>2, <2>1, PublishDoes
<1>3. CASE TrainBlock
  <2>1. pc = "train"
    BY <1>3 DEF TrainBlock
  <2>2. PICK o \in Invocations :
          /\ Accepted(o)
          /\ [trainer |-> trainer, nodes |-> store]
               = Trained(NewTrainer(o), <<>>, trainer.training_iterations)
    BY <2>1 DEF ExactInv, Exact, Trains
  <2>3. PICK t \in Trainers : t = NewTrainer(o)
    BY <2>2, NewTrainerType
  <2>4. PICK n \in Nat : n = trainer.training_iterations
    BY DEF TypeInv, Trainers
  <2>5. PICK m \in Nat : m = Block
    BY <1>3, <2>1, OptsType, TrainBlockDoes
  <2>6. Trained(t, <<>>, n).trainer = trainer /\ Trained(t, <<>>, n).nodes = store
    BY <2>2, <2>3, <2>4
  <2>7. Trained(trainer, store, m) = Trained(t, <<>>, n + m)
    <3>1. Trained(Trained(t, <<>>, n).trainer, Trained(t, <<>>, n).nodes, m) = Trained(t, <<>>, n + m)
      BY NoTrainerType, TrainedSum
    <3> QED
      BY <2>6, <3>1
  <2>8. /\ [trainer |-> trainer', nodes |-> store'] = Trained(trainer, store, m)
        /\ trainer'.training_iterations = n + m
    BY <1>3, <2>1, <2>4, <2>5, OptsType, TrainBlockDoes
  <2>9. [trainer |-> trainer', nodes |-> store']
          = Trained(NewTrainer(o), <<>>, trainer'.training_iterations)
    BY <2>3, <2>7, <2>8
  <2> QED
    BY <2>2, <2>9 DEF Exact
<1>4. CASE Cleanup \/ Crash
  BY <1>4 DEF Cleanup, Crash, Forget, Trains, Writing
<1>5. CASE WorkerBegins \/ WorkerEnds \/ WorkerInserts
  BY <1>5 DEF WorkerBegins, WorkerEnds, WorkerInserts, BusyInv
<1>6. CASE UNCHANGED <<trainer, store>> /\ ~InitTrainer /\ ~Publish
  <2>1. pc \in Trains
    <3>1. Follows(pc, pc')
      BY Stages
    <3>2. pc' = "loaded" => pc = "loaded"
      BY <1>6, Arrive, AsideStays DEF Arrivals, Aside
    <3>3. pc' = "train" => pc \in {"loaded", "train"}
      BY <1>6, Arrive, AsideStays DEF Arrivals, Aside, CloseLoad, TrainBlock
    <3> QED
      BY <3>1, <3>2, <3>3 DEF Follows, Trains, Writing
  <2> QED
    BY <1>6, <2>1 DEF ExactInv
<1> QED
  BY <1>1, <1>2, <1>3, <1>4, <1>5, <1>6, StoreMoves

-----------------------------------------------------------------------------
\* What was collected.

\* The order of the keys does not depend on the nodes.
LEMMA SameKeys ==
  ASSUME NEW r, NEW s, DOMAIN r = DOMAIN s
  PROVE  SortedKeys(r) = SortedKeys(s)
BY DEF SortedKeys

\* A list of keys has each of them once.
LEMMA KeysList ==
  ASSUME NEW s, DOMAIN s \subseteq GameKeys
  PROVE  LET ks == SortedKeys(s)
         IN  /\ ks \in Seq(DOMAIN s) /\ DOMAIN ks = 1..Len(ks) /\ Len(ks) \in Nat
             /\ \A i \in 1..Len(ks) : ks[i] \in DOMAIN s /\ ks[i] \in GameKeys
             /\ \A i, j \in 1..Len(ks) : ks[i] = ks[j] => i = j
             /\ \A k \in DOMAIN s : \E i \in 1..Len(ks) : ks[i] = k
<1> DEFINE ks == SortedKeys(s)
<1>1. IsFiniteSet(DOMAIN s) /\ DOMAIN s \in SUBSET Int
  BY FS_Subset, SessionAssumption, GameKeysInt
<1>2. /\ ks \in Seq(DOMAIN s) /\ DOMAIN ks = 1..Len(ks)
      /\ \A i, j \in DOMAIN ks : ks[i] = ks[j] => i = j
      /\ \A k \in DOMAIN s : \E i \in DOMAIN ks : ks[i] = k
  BY <1>1, SortedKeysList
<1> HIDE DEF ks
<1>3. Len(ks) \in Nat /\ \A i \in 1..Len(ks) : ks[i] \in DOMAIN s
  BY <1>2
<1> QED
  BY <1>2, <1>3 DEF ks

\* What a write knows about the list that it collected.
LEMMA MomentKeys ==
  ASSUME TypeInv, MomentInv, pc \in Filling
  PROVE  /\ keys \in Seq(DOMAIN moments) /\ DOMAIN keys = 1..Len(keys) /\ Len(keys) \in Nat
         /\ \A i \in 1..Len(keys) : keys[i] \in DOMAIN moments /\ keys[i] \in GameKeys
         /\ \A i, j \in 1..Len(keys) : keys[i] = keys[j] => i = j
         /\ \A k \in DOMAIN moments : \E i \in 1..Len(keys) : keys[i] = k
         /\ keys = SortedKeys(moments)
<1>1. DOMAIN moments \subseteq GameKeys /\ keys = SortedKeys(moments)
  BY StoresOut DEF TypeInv, MomentInv
<1> QED
  BY <1>1, KeysList

\* MomentInv.
LEMMA MomentKept ==
  ASSUME TypeInv, BusyInv, MomentInv, Next
  PROVE  MomentInv'
<1> SUFFICES ASSUME pc' \in Filling PROVE MomentInv'
  BY DEF MomentInv
<1>1. CASE Collect
  <2>1. /\ keys' = SortedKeys(store) /\ index' = 1 /\ pc' = "header"
        /\ moments' = [k \in DOMAIN store |-> IF k \in busy THEN {} ELSE {store[k]}]
        /\ UNCHANGED <<world, store, busy>>
    BY <1>1 DEF Collect, Goto, files
  <2>2. DOMAIN moments' = DOMAIN store
    BY <2>1
  <2>3. keys' = SortedKeys(moments')
    BY <2>1, <2>2, SameKeys
  <2>4. \A k \in DOMAIN moments' : k \in busy' \/ store'[k] \in moments'[k]
    BY <2>1
  <2>5. Len(keys') \in Nat
    <3>1. DOMAIN store \subseteq GameKeys
      BY StoresOut DEF TypeInv
    <3> QED
      BY <2>1, <3>1, KeysList
  <2>6. index' \in 1..(Len(keys') + 1)
    BY <2>1, <2>5
  <2> QED
    BY <2>1, <2>2, <2>3, <2>4, <2>6 DEF MomentInv
<1>2. CASE WriteHeader
  BY <1>2 DEF WriteHeader, Goto, MomentInv, Filling, files, workers
<1>3. CASE CopyNode /\ pc' = "record"
  <2>1. /\ pc = "copy" /\ index <= Len(keys) /\ keys[index] \notin busy /\ copied' = store[keys[index]]
        /\ UNCHANGED <<world, store, keys, index, busy, moments>>
    BY <1>3 DEF CopyNode, Goto, files, workers
  <2>2. pc \in Filling
    BY <2>1 DEF Filling
  <2>3. index \in 1..Len(keys)
    BY <2>1, <2>2, MomentKeys DEF MomentInv
  <2>4. keys[index] \in DOMAIN moments
    BY <2>2, <2>3, MomentKeys
  <2>5. copied' \in moments[keys[index]]
    BY <2>1, <2>2, <2>4 DEF MomentInv
  <2> QED
    BY <1>3, <2>1, <2>2, <2>5 DEF MomentInv
<1>4. CASE WriteRecord
  <2>1. /\ pc = "record" /\ pc' = "copy" /\ index' = index + 1
        /\ UNCHANGED <<world, store, keys, busy, moments>>
    BY <1>4 DEF WriteRecord, Goto, files, workers
  <2>2. pc \in Filling
    BY <2>1 DEF Filling
  <2>3. index' \in 1..(Len(keys') + 1)
    <3>1. Len(keys) \in Nat
      BY <2>2, MomentKeys
    <3>2. index \in 1..(Len(keys) + 1) /\ index <= Len(keys)
      BY <2>1, <2>2 DEF MomentInv
    <3> QED
      BY <2>1, <3>1, <3>2
  <2> QED
    BY <2>1, <2>2, <2>3 DEF MomentInv
<1>5. CASE Aside
  <2>1. UNCHANGED <<world, pc, keys, index, copied>> /\ pc \in Filling
    BY <1>5, AsideStays
  <2>2. /\ keys = SortedKeys(moments) /\ DOMAIN moments \subseteq DOMAIN store
        /\ ~world.workers => DOMAIN moments = DOMAIN store
        /\ index \in 1..(Len(keys) + 1)
        /\ pc = "record" => index <= Len(keys) /\ copied \in moments[keys[index]]
        /\ pc = "header" => index = 1
        /\ \A k \in DOMAIN moments : k \in busy \/ store[k] \in moments[k]
    BY <2>1 DEF MomentInv
  <2>3. CASE CreateForeign
    BY <2>1, <2>2, <2>3 DEF CreateForeign, workers, MomentInv
  <2>4. CASE WorkerBegins
    <3>1. PICK k \in DOMAIN store : (\E node : store' = [store EXCEPT ![k] = node]) /\ busy' = {k}
      BY <2>4 DEF WorkerBegins
    <3>2. moments' = moments /\ world.workers /\ busy = {}
      BY <2>4 DEF WorkerBegins
    <3>3. \A j \in DOMAIN moments : j \in busy' \/ store'[j] \in moments'[j]
      BY <2>2, <3>1, <3>2
    <3> QED
      BY <2>1, <2>2, <3>1, <3>2, <3>3 DEF MomentInv
  <2>5. CASE WorkerEnds
    <3>1. PICK k \in busy :
             /\ \E node : store' = [store EXCEPT ![k] = node]
             /\ moments' = IF k \in DOMAIN moments
                           THEN [moments EXCEPT ![k] = @ \cup {store'[k]}] ELSE moments
      BY <2>5 DEF WorkerEnds
    <3>2. busy' = {} /\ world.workers /\ (\A j \in busy : j = k) /\ k \in DOMAIN store
      BY <2>5 DEF WorkerEnds, BusyInv
    <3>3. DOMAIN moments' = DOMAIN moments /\ DOMAIN store' = DOMAIN store
      BY <3>1
    <3>4. SortedKeys(moments') = SortedKeys(moments)
      BY <3>3, SameKeys
    <3>5. \A j \in DOMAIN moments : moments[j] \subseteq moments'[j]
      BY <3>1
    <3>6. \A j \in DOMAIN moments' : store'[j] \in moments'[j]
      <4> SUFFICES ASSUME NEW j \in DOMAIN moments PROVE store'[j] \in moments'[j]
        BY <3>3
      <4>1. CASE j = k
        BY <3>1, <4>1
      <4>2. CASE j # k
        BY <2>2, <3>1, <3>2, <4>2
      <4> QED
        BY <4>1, <4>2
    <3>7. pc = "record" => copied \in moments'[keys[index]]
      <4>1. pc = "record" => keys[index] \in DOMAIN moments
        BY <2>1, <2>2, MomentKeys
      <4> QED
        BY <2>2, <3>5, <4>1
    <3> QED
      BY <2>1, <2>2, <3>2, <3>3, <3>4, <3>6, <3>7 DEF MomentInv
  <2>6. CASE WorkerInserts
    <3>1. /\ \A j \in DOMAIN store : j \in DOMAIN store' /\ store'[j] = store[j]
          /\ world.workers /\ UNCHANGED <<moments, busy>>
      BY <2>6 DEF WorkerInserts
    <3>2. \A j \in DOMAIN moments' : j \in busy' \/ store'[j] \in moments'[j]
      BY <2>2, <3>1
    <3> QED
      BY <2>1, <2>2, <3>1, <3>2 DEF MomentInv
  <2> QED
    BY <1>5, <2>3, <2>4, <2>5, <2>6 DEF Aside, Worker
<1>6. Collect \/ WriteHeader \/ (CopyNode /\ pc' = "record") \/ WriteRecord \/ Aside
  BY Arrive DEF Arrivals, Filling, Aside
<1> QED
  BY <1>1, <1>2, <1>3, <1>4, <1>5, <1>6

-----------------------------------------------------------------------------
\* What is written.

\* The nodes of a copy as rows.
LEMMA CopyRows ==
  ASSUME TypeInv, MomentInv, pc \in Filling, NEW c \in Stores, DOMAIN c = DOMAIN moments
  PROVE  /\ Rows(keys, c) \in Seq(Lists(Nat)) /\ Len(Rows(keys, c)) = Len(keys)
         /\ \A i \in 1..Len(keys) : Rows(keys, c)[i] = Record(keys[i], c[keys[i]])
         /\ Header(trainer, Len(keys)) \in Lists(Nat)
         /\ \A i \in 1..Len(keys) : c[keys[i]] \in Nodes(keys[i])
<1>1. \A i \in 1..Len(keys) : keys[i] \in DOMAIN moments /\ keys[i] \in GameKeys
  BY MomentKeys
<1>2. Len(keys) \in Nat /\ DOMAIN keys = 1..Len(keys) /\ keys \in Seq(DOMAIN moments)
  BY MomentKeys
<1>3. keys \in Seq(GameKeys)
  <2>1. DOMAIN c \subseteq GameKeys
    BY StoresOut
  <2> QED
    BY <1>2, <2>1
<1>4. \A i \in 1..Len(keys) : c[keys[i]] \in Nodes(keys[i])
  BY <1>1, StoresOut
<1>5. Header(trainer, Len(keys)) \in Lists(Nat)
  <2>1. trainer \in Trainers
    BY DEF TypeInv
  <2> QED
    BY <1>2, <2>1, HeaderWords DEF IsHeader, Lists
<1> QED
  BY <1>3, <1>4, <1>5, RowsType

\* d is c with x for k.
Updates(d, c, k, x) == d = [c EXCEPT ![k] = x]

\* Before the first record, and after one more.
LEMMA CopiesBegin ==
  ASSUME TypeInv, MomentInv, pc \in Filling, NEW c \in Stores, DOMAIN c = DOMAIN moments
  PROVE  Joined(Header(trainer, Len(keys)), Rows(keys, c), 0) = Header(trainer, Len(keys))
BY CopyRows, JoinedZero

\* d has one record more, of x.
OneMore(d, c, n, x) ==
  /\ d \in Stores /\ DOMAIN d = DOMAIN moments
  /\ Joined(Header(trainer, Len(keys)), Rows(keys, d), n)
       = Joined(Header(trainer, Len(keys)), Rows(keys, c), n - 1) \o Record(keys[n], x)
  /\ d[keys[n]] = x /\ \A j \in 1..(n - 1) : d[keys[j]] = c[keys[j]]

\* A copy with the node that is written next.
LEMMA CopiesNext ==
  ASSUME TypeInv, MomentInv, pc \in Filling, NEW c \in Stores, DOMAIN c = DOMAIN moments,
         NEW n \in 1..Len(keys), NEW x \in Nodes(keys[n]),
         NEW d, Updates(d, c, keys[n], x)
  PROVE  OneMore(d, c, n, x)
<1>1. keys[n] \in DOMAIN c /\ Len(keys) \in Nat
  BY MomentKeys
<1>2. DOMAIN d = DOMAIN c /\ d[keys[n]] = x /\ \A k \in DOMAIN c : k # keys[n] => d[k] = c[k]
  BY <1>1 DEF Updates
<1>3. d \in Stores
  <2>1. DOMAIN c \in SUBSET GameKeys /\ \A k \in DOMAIN c : c[k] \in Nodes(k)
    BY StoresOut
  <2>2. \A k \in DOMAIN c : d[k] \in Nodes(k)
    <3> SUFFICES ASSUME NEW k \in DOMAIN c PROVE d[k] \in Nodes(k)
      OBVIOUS
    <3>1. CASE k = keys[n]
      BY <1>2, <3>1
    <3>2. CASE k # keys[n]
      BY <1>2, <2>1, <3>2
    <3> QED
      BY <3>1, <3>2
  <2>3. d = [k \in DOMAIN c |-> d[k]]
    BY DEF Updates
  <2> QED
    BY <2>1, <2>2, <2>3, StoresIn
<1>4. \A j \in 1..(n - 1) : d[keys[j]] = c[keys[j]]
  <2> SUFFICES ASSUME NEW j \in 1..(n - 1) PROVE d[keys[j]] = c[keys[j]]
    OBVIOUS
  <2>1. j \in 1..Len(keys) /\ j # n
    BY <1>1
  <2>2. keys[j] \in DOMAIN c /\ keys[j] # keys[n]
    BY <2>1, MomentKeys
  <2> QED
    BY <1>2, <2>2
<1>5. PICK first \in Lists(Nat) : first = Header(trainer, Len(keys))
  BY CopyRows
<1>6. PICK rows \in Seq(Lists(Nat)) :
        rows = Rows(keys, c) /\ Len(rows) = Len(keys)
          /\ \A i \in 1..Len(keys) : rows[i] = Record(keys[i], c[keys[i]])
  BY CopyRows
<1>7. PICK more \in Seq(Lists(Nat)) :
        more = Rows(keys, d) /\ Len(more) = Len(keys)
          /\ \A i \in 1..Len(keys) : more[i] = Record(keys[i], d[keys[i]])
  BY <1>2, <1>3, CopyRows
<1>8. n - 1 \in 0..(Len(more) - 1) /\ n - 1 \in 0..Len(rows) /\ n - 1 <= Len(more) /\ (n - 1) + 1 = n
  BY <1>1, <1>6, <1>7
<1>9. Joined(first, more, n) = Joined(first, more, n - 1) \o more[n]
  <2>1. Joined(first, more, (n - 1) + 1) = Joined(first, more, n - 1) \o more[(n - 1) + 1]
    BY <1>8, JoinedNext
  <2> QED
    BY <1>8, <2>1
<1>10. \A i \in 1..(n - 1) : rows[i] = more[i]
  <2> SUFFICES ASSUME NEW i \in 1..(n - 1) PROVE rows[i] = more[i]
    OBVIOUS
  <2>1. i \in 1..Len(keys)
    BY <1>1
  <2> QED
    BY <1>4, <1>6, <1>7, <2>1
<1>11. Joined(first, rows, n - 1) = Joined(first, more, n - 1)
  BY <1>8, <1>10, JoinedSame
<1>12. more[n] = Record(keys[n], x)
  BY <1>2, <1>7
<1>13. Joined(first, more, n) = Joined(first, rows, n - 1) \o Record(keys[n], x)
  BY <1>9, <1>11, <1>12
<1> QED
  BY <1>2, <1>3, <1>4, <1>5, <1>6, <1>7, <1>13 DEF OneMore

\* WriterInv.
LEMMA WriterKept ==
  ASSUME TypeInv, BusyInv, MomentInv, WriterInv, Next
  PROVE  WriterInv'
<1> SUFFICES ASSUME pc' \in {"copy", "record"} PROVE WriterInv'
  BY DEF WriterInv
<1>1. CASE WriteHeader
  <2>1. /\ pc = "header" /\ pc' = "copy" /\ out' = Header(trainer, Len(keys))
        /\ UNCHANGED <<world, trainer, store, keys, index, moments>>
    BY <1>1 DEF WriteHeader, Goto, files, workers
  <2>2. pc \in Filling /\ index = 1 /\ DOMAIN moments \subseteq DOMAIN store
          /\ (~world.workers => DOMAIN moments = DOMAIN store)
    BY <2>1 DEF MomentInv, Filling
  <2>3. PICK c : c = [k \in DOMAIN moments |-> store[k]]
    OBVIOUS
  <2>4. store \in Stores
    BY DEF TypeInv
  <2>5. c \in Stores /\ DOMAIN c = DOMAIN moments
    <3>1. DOMAIN moments \in SUBSET GameKeys /\ \A k \in DOMAIN moments : store[k] \in Nodes(k)
      BY <2>2, <2>4, StoresOut
    <3>2. c = [k \in DOMAIN moments |-> c[k]] /\ \A k \in DOMAIN moments : c[k] \in Nodes(k)
      BY <2>3, <3>1
    <3> QED
      BY <2>3, <3>1, <3>2, StoresIn
  <2>6. ~world.workers => c = store
    BY <2>2, <2>3, <2>4, StoresOut
  <2>7. out' = Joined(Header(trainer, Len(keys)), Rows(keys, c), index - 1)
    BY <2>1, <2>2, <2>5, CopiesBegin
  <2>8. \A j \in 1..(index - 1) : FALSE
    BY <2>2
  <2>9. Copies(c)'
    BY <2>1, <2>5, <2>6, <2>7, <2>8 DEF Copies
  <2> QED
    BY <2>1, <2>5, <2>9 DEF WriterInv
<1>2. CASE CopyNode /\ pc' = "record"
  <2>1. /\ pc = "copy" /\ index <= Len(keys) /\ copied' = store[keys[index]]
        /\ ValidNode(store[keys[index]], trainer.variant)
        /\ UNCHANGED <<world, trainer, store, keys, index, out, moments>>
    BY <1>2 DEF CopyNode, Goto, files, workers
  <2>2. PICK c \in Stores : Copies(c)
    BY <2>1 DEF WriterInv
  <2>3. Copies(c)'
    BY <2>1, <2>2 DEF Copies
  <2>4. copied' \in Nodes(keys[index])
    <3>1. index \in 1..Len(keys) /\ DOMAIN moments \subseteq DOMAIN store
      BY <2>1, MomentKeys DEF MomentInv, Filling
    <3>2. keys[index] \in DOMAIN store
      BY <2>1, <3>1, MomentKeys DEF Filling
    <3> QED
      BY <2>1, <3>2, StoresOut DEF TypeInv
  <2> QED
    BY <2>1, <2>3, <2>4 DEF WriterInv
<1>3. CASE WriteRecord
  <2>1. /\ pc = "record" /\ pc' = "copy" /\ index' = index + 1
        /\ out' = out \o Record(keys[index], copied)
        /\ UNCHANGED <<world, trainer, store, keys, moments>>
    BY <1>3 DEF WriteRecord, Goto, files, workers
  <2>2. PICK c \in Stores : Copies(c)
    BY <2>1 DEF WriterInv
  <2>3. /\ DOMAIN c = DOMAIN moments /\ (~world.workers => c = store)
        /\ (\A j \in 1..(index - 1) : ValidNode(c[keys[j]], trainer.variant))
        /\ out = Joined(Header(trainer, Len(keys)), Rows(keys, c), index - 1)
    BY <2>2 DEF Copies
  <2>4. /\ copied \in Nodes(keys[index]) /\ ValidNode(copied, trainer.variant)
        /\ ~world.workers => copied = store[keys[index]]
    BY <2>1 DEF WriterInv
  <2>5. pc \in Filling /\ index \in 1..Len(keys)
    <3>1. pc \in Filling
      BY <2>1 DEF Filling
    <3>2. index \in 1..(Len(keys) + 1) /\ index <= Len(keys)
      BY <2>1, <3>1 DEF MomentInv
    <3> QED
      BY <3>1, <3>2, MomentKeys
  <2>6. PICK d : d = [c EXCEPT ![keys[index]] = copied]
    OBVIOUS
  <2>7. /\ d \in Stores /\ DOMAIN d = DOMAIN moments
        /\ Joined(Header(trainer, Len(keys)), Rows(keys, d), index)
             = Joined(Header(trainer, Len(keys)), Rows(keys, c), index - 1) \o Record(keys[index], copied)
        /\ d[keys[index]] = copied /\ \A j \in 1..(index - 1) : d[keys[j]] = c[keys[j]]
    <3>1. PICK n \in 1..Len(keys) : n = index
      BY <2>5
    <3>2. copied \in Nodes(keys[n]) /\ Updates(d, c, keys[n], copied) /\ DOMAIN c = DOMAIN moments
      BY <2>3, <2>4, <2>6, <3>1 DEF Updates
    <3>3. OneMore(d, c, n, copied)
      BY <2>5, <3>2, CopiesNext
    <3> QED
      BY <3>1, <3>3 DEF OneMore
  <2>8. out' = Joined(Header(trainer, Len(keys)), Rows(keys, d), index' - 1)
    BY <2>1, <2>3, <2>5, <2>7
  <2>9. \A j \in 1..(index' - 1) : ValidNode(d[keys[j]], trainer.variant)
    <3> SUFFICES ASSUME NEW j \in 1..(index' - 1) PROVE ValidNode(d[keys[j]], trainer.variant)
      OBVIOUS
    <3>1. j = index \/ j \in 1..(index - 1)
      BY <2>1, <2>5
    <3>2. d[keys[j]] = copied \/ (j \in 1..(index - 1) /\ d[keys[j]] = c[keys[j]])
      BY <2>7, <3>1
    <3> QED
      BY <2>3, <2>4, <3>2
  <2>10. ~world.workers => d = store
    <3> SUFFICES ASSUME ~world.workers PROVE d = store
      OBVIOUS
    <3>1. c = store /\ copied = c[keys[index]]
      BY <2>3, <2>4
    <3>2. c = [k \in DOMAIN c |-> c[k]]
      BY StoresOut
    <3> QED
      BY <2>6, <3>1, <3>2
  <2>11. Copies(d)'
    BY <2>1, <2>7, <2>8, <2>9, <2>10 DEF Copies
  <2> QED
    BY <2>1, <2>7, <2>11 DEF WriterInv
<1>4. CASE Aside
  <2>1. UNCHANGED <<world, pc, keys, index, copied, trainer, out>>
    BY <1>4, AsideStays
  <2>2. ~world.workers => UNCHANGED <<store, busy, moments>>
    BY <1>4, AsideStays DEF BusyInv
  <2>3. DOMAIN moments' = DOMAIN moments
    BY <1>4 DEF Aside, Worker, CreateForeign, WorkerBegins, WorkerEnds, WorkerInserts, workers
  <2>4. PICK c \in Stores : Copies(c)
    BY <2>1 DEF WriterInv
  <2>5. Copies(c)'
    BY <2>1, <2>2, <2>3, <2>4 DEF Copies
  <2>6. pc' = "record" => /\ copied' \in Nodes(keys'[index']) /\ ValidNode(copied', trainer'.variant)
                          /\ ~world'.workers => copied' = store'[keys'[index']]
    BY <2>1, <2>2 DEF WriterInv
  <2> QED
    BY <2>5, <2>6 DEF WriterInv
<1>5. WriteHeader \/ (CopyNode /\ pc' = "record") \/ WriteRecord \/ Aside
  BY Arrive DEF Arrivals, Aside
<1> QED
  BY <1>1, <1>2, <1>3, <1>4, <1>5

-----------------------------------------------------------------------------
\* The stream that was closed.

\* The payload of a copy of the nodes, in the order that was collected.
LEMMA PayloadOf ==
  ASSUME NEW t, NEW c, NEW ks, ks = SortedKeys(c)
  PROVE  Payload(t, c) = Sealed(Joined(Header(t, Len(ks)), Rows(ks, c), Len(ks)))
BY DEF Payload, Rows

\* What the stream of the writer becomes.
IsClosed(words) ==
  \E c \in Stores : /\ ValidStore(trainer, c) /\ words = Framed(Payload(trainer, c), world.zstd)
                    /\ ~world.workers => c = store

\* The stream with its checksum, and its frame, is a whole checkpoint.
LEMMA Closes ==
  ASSUME TypeInv, MomentInv, WriterInv, WriteChecksum
  PROVE  IsClosed(out')
<1>1. pc = "copy" /\ index > Len(keys) /\ out' = Framed(Sealed(out), world.zstd)
  BY DEF WriteChecksum
<1>2. PICK c \in Stores : Copies(c)
  BY <1>1 DEF WriterInv
<1>3. pc \in Filling
  BY <1>1 DEF Filling
<1>4. index = Len(keys) + 1
  <2>1. Len(keys) \in Nat
    BY <1>3, MomentKeys
  <2>2. index \in 1..(Len(keys) + 1)
    BY <1>3 DEF MomentInv
  <2> QED
    BY <1>1, <2>1, <2>2
<1>5. index - 1 = Len(keys)
  BY <1>3, <1>4, MomentKeys
<1>6. /\ DOMAIN c = DOMAIN moments /\ (~world.workers => c = store)
      /\ \A j \in 1..Len(keys) : ValidNode(c[keys[j]], trainer.variant)
      /\ out = Joined(Header(trainer, Len(keys)), Rows(keys, c), Len(keys))
  BY <1>2, <1>5 DEF Copies
<1>7. keys = SortedKeys(c)
  BY <1>3, <1>6, MomentKeys, SameKeys
<1>8. Payload(trainer, c) = Sealed(out)
  BY <1>6, <1>7, PayloadOf
<1>9. ValidStore(trainer, c)
  <2> SUFFICES ASSUME NEW k \in DOMAIN c PROVE ValidNode(c[k], trainer.variant)
    BY DEF ValidStore
  <2>1. PICK j \in 1..Len(keys) : keys[j] = k
    BY <1>3, <1>6, MomentKeys
  <2> QED
    BY <1>6, <2>1
<1>10. out' = Framed(Payload(trainer, c), world.zstd)
  BY <1>1, <1>8
<1> QED
  BY <1>6, <1>9, <1>10 DEF IsClosed

\* ClosedInv.
LEMMA ClosedKept ==
  ASSUME TypeInv, BusyInv, MomentInv, WriterInv, ClosedInv, Next
  PROVE  ClosedInv'
<1> SUFFICES ASSUME pc' \in {"close", "rename"}, status' = "SUCCESS" PROVE ClosedInv'
  BY DEF ClosedInv
<1>1. CASE WriteChecksum
  <2>1. pc' = "close" /\ UNCHANGED <<trainer, store, world>>
    BY <1>1 DEF WriteChecksum, Goto, files
  <2>2. PICK c \in Stores : /\ ValidStore(trainer, c) /\ out' = Framed(Payload(trainer, c), world.zstd)
                            /\ ~world.workers => c = store
    BY <1>1, Closes DEF IsClosed
  <2> QED
    BY <2>1, <2>2 DEF ClosedInv
<1>2. CASE CloseTemporary
  <2>1. /\ pc = "close" /\ pc' = "rename" /\ status = "SUCCESS"
        /\ disk' = With(TemporaryEntry(opts.save, attempt), out)
        /\ UNCHANGED <<trainer, store, world, opts, attempt, out>>
    BY <1>2 DEF CloseTemporary, Goto, files
  <2>2. PICK c \in Stores : /\ ValidStore(trainer, c) /\ out = Framed(Payload(trainer, c), world.zstd)
                            /\ ~world.workers => c = store
    BY <2>1 DEF ClosedInv
  <2>3. TemporaryEntry(opts.save, attempt) \in DOMAIN disk'
          /\ disk'[TemporaryEntry(opts.save, attempt)] = out
    BY <2>1, WithEntry, ZenonT(30)
  <2> QED
    BY <2>1, <2>2, <2>3 DEF ClosedInv, Exists, TemporaryEntry
<1>3. CASE Aside
  <2>1. UNCHANGED <<world, pc, opts, trainer, out, attempt, status>>
    BY <1>3, AsideStays
  <2>2. ~world.workers => store' = store
    BY <1>3, AsideStays DEF BusyInv
  <2>3. PICK c \in Stores : /\ ValidStore(trainer, c) /\ out = Framed(Payload(trainer, c), world.zstd)
                            /\ ~world.workers => c = store
    BY <2>1 DEF ClosedInv
  <2>4. pc = "rename" => LET e == TemporaryEntry(opts.save, attempt)
                         IN  e \in DOMAIN disk' /\ disk'[e] = out
    BY <1>3, <2>1, AsideKeeps DEF ClosedInv, Exists
  <2> QED
    BY <2>1, <2>2, <2>3, <2>4 DEF ClosedInv, Exists, TemporaryEntry
<1>4. ~CopyNode /\ ~WriteFails
  BY DEF CopyNode, WriteFails, Goto
<1> QED
  BY <1>1, <1>2, <1>3, <1>4, Arrive DEF Arrivals, Aside

\* A successful rename: the temporary file takes the name, and nothing else changes.
LEMMA RenameDoes ==
  ASSUME TypeInv, ClosedInv, Rename, pc' = "export"
  PROVE  /\ status = "SUCCESS" /\ IsClosed(disk'[Entry(opts.save)])
         /\ DOMAIN disk' = (DOMAIN disk \cup {Entry(opts.save)}) \ {TemporaryEntry(opts.save, attempt)}
         /\ Entry(opts.save) \in DOMAIN disk'
         /\ \A e \in DOMAIN disk' : e # Entry(opts.save) => disk'[e] = disk[e]
         /\ UNCHANGED <<world, opts, trainer, store, tampered>>
<1>1. /\ status = "SUCCESS" /\ pc = "rename"
      /\ disk' = [e \in (DOMAIN disk \cup {Entry(opts.save)})
                              \ {TemporaryEntry(opts.save, attempt)} |->
                         IF e = Entry(opts.save) THEN disk[TemporaryEntry(opts.save, attempt)]
                         ELSE disk[e]]
      /\ UNCHANGED <<world, opts, trainer, store, tampered>>
  BY DEF Rename, Goto, files
<1>2. attempt \in Nat
  BY DEF TypeInv
<1>3. Entry(opts.save) # TemporaryEntry(opts.save, attempt)
  BY <1>2, Entries
<1>4. disk'[Entry(opts.save)] = disk[TemporaryEntry(opts.save, attempt)]
  BY <1>1, <1>3
<1>5. disk'[Entry(opts.save)] = out /\ IsClosed(out)
  BY <1>1, <1>4 DEF ClosedInv, IsClosed
<1> QED
  BY <1>1, <1>3, <1>5

-----------------------------------------------------------------------------
\* The text of an export.

IntBegins(v, u) == v \in Seq(Int) /\ Len(u) <= Len(v) /\ \A j \in 1..Len(u) : v[j] = u[j]

\* What is joined begins with what it starts from.
LEMMA JoinedBegins ==
  ASSUME NEW first \in Seq(Int), NEW rows \in Seq(Seq(Int))
  PROVE  IntBegins(Joined(first, rows, Len(rows)), first)
<1>0. Lists(Int) = Seq(Int)
  BY DEF Lists
<1>1. first \in Lists(Int) /\ rows \in Seq(Lists(Int))
  BY <1>0
<1>2. PICK n \in Nat : n = Len(rows)
  OBVIOUS
<1> DEFINE T == {i \in 0..n : IntBegins(Joined(first, rows, i), first)}
<1>3. 0 \in T
  <2>1. Joined(first, rows, 0) = first
    BY <1>1, JoinedZero
  <2>2. IntBegins(first, first)
    BY DEF IntBegins
  <2> QED
    BY <2>1, <2>2
<1>4. ASSUME NEW i \in 0..(n - 1), i \in T PROVE i + 1 \in T
  <2>1. PICK u \in Seq(Int) : u = Joined(first, rows, i)
    BY <1>4 DEF IntBegins
  <2>2. PICK r \in Seq(Int) : r = rows[i + 1]
    <3>1. i + 1 \in 1..Len(rows)
      BY <1>2
    <3> QED
      BY <3>1
  <2>3. Joined(first, rows, i + 1) = u \o r
    <3>1. i \in 0..(Len(rows) - 1)
      BY <1>2
    <3> QED
      BY <1>1, <2>1, <2>2, <3>1, JoinedNext
  <2>4. PICK v \in Seq(Int) : v = u \o r /\ IntJoins(u, r, v)
    BY IntConcat DEF IntJoins
  <2>5. IntBegins(u, first)
    BY <1>4, <2>1
  <2>6. IntBegins(v, first)
    <3>1. Len(first) <= Len(u) /\ \A j \in 1..Len(first) : u[j] = first[j]
      BY <2>5 DEF IntBegins
    <3>2. Len(v) = Len(u) + Len(r) /\ \A j \in 1..Len(u) : v[j] = u[j]
      BY <2>4 DEF IntJoins
    <3>3. \A j \in 1..Len(first) : j \in 1..Len(u)
      BY <3>1
    <3> QED
      BY <3>1, <3>2, <3>3 DEF IntBegins
  <2>7. i + 1 \in 0..n
    OBVIOUS
  <2> QED
    BY <2>3, <2>4, <2>6, <2>7
<1> HIDE DEF T
<1>5. \A i \in 0..n : i \in T
  BY <1>3, <1>4, BoundedInduction
<1>6. n \in T
  BY <1>5
<1> QED
  BY <1>2, <1>6 DEF T

\* A line of an export.
LEMMA TextRow ==
  ASSUME NEW k \in GameKeys, NEW x \in Nodes(k)
  PROVE  <<k, Len(x.strategy_sums)>> \o x.strategy_sums \in Seq(Int)
<1>1. k \in Int /\ x.strategy_sums \in Seq(Int) /\ Len(x.strategy_sums) \in Int
  BY GameKeysInt, NodesOut, NatWords
<1>2. \A a, b \in Int : <<a, b>> \in Seq(Int)
  OBVIOUS
<1>3. <<k, Len(x.strategy_sums)>> \in Seq(Int)
  BY <1>1, <1>2
<1>4. \A u, v \in Seq(Int) : u \o v \in Seq(Int)
  OBVIOUS
<1> QED
  BY <1>1, <1>3, <1>4

\* An export begins with the version of its format.
LEMMA TextWords ==
  ASSUME NEW t \in Trainers, NEW s \in Stores
  PROVE  Text(t, s) \in Seq(Int) /\ Len(Text(t, s)) >= 4 /\ Text(t, s)[1] = Version
<1> DEFINE ks == SortedKeys(s)
           line(k) == <<k, Len(s[k].strategy_sums)>> \o s[k].strategy_sums
           rows == [i \in DOMAIN ks |-> line(ks[i])]
           first == <<Version, VariantCode[t.variant], t.training_iterations, Len(ks)>>
<1>1. Text(t, s) = Joined(first, rows, Len(ks))
  BY DEF Text
<1>2. /\ Count(s) \in Nat /\ DOMAIN ks = 1..Count(s) /\ Len(ks) = Count(s)
      /\ \A i \in 1..Count(s) : ks[i] \in GameKeys /\ s[ks[i]] \in Nodes(ks[i])
  BY KeysOf DEF Count
<1>3. \A i \in 1..Count(s) : line(ks[i]) \in Seq(Int)
  BY <1>2, TextRow
<1>4. rows \in Seq(Seq(Int)) /\ Len(rows) = Count(s)
  <2>1. rows = [i \in 1..Count(s) |-> line(ks[i])]
    BY <1>2
  <2> HIDE DEF line, ks
  <2>2. rows \in [1..Count(s) -> Seq(Int)]
    BY <1>3, <2>1
  <2> HIDE DEF rows
  <2> QED
    BY <1>2, <2>2
<1>5. first \in Seq(Int) /\ Len(first) = 4 /\ first[1] = Version
  <2>1. VariantCode[t.variant] \in Int /\ t.training_iterations \in Int /\ Len(ks) \in Int
          /\ Version \in Int
    BY <1>2, CodesDiffer DEF Trainers, Version
  <2> HIDE DEF ks
  <2> QED
    BY <2>1
<1> HIDE DEF rows, first
<1>6. IntBegins(Joined(first, rows, Len(rows)), first)
  BY <1>4, <1>5, JoinedBegins
<1>7. 1 \in 1..Len(first)
  BY <1>5
<1>8. Len(rows) = Len(ks)
  BY <1>2, <1>4
<1>9. IntBegins(Text(t, s), first)
  BY <1>1, <1>6, <1>8
<1> QED
  BY <1>5, <1>7, <1>9 DEF IntBegins

\* So does what is there of an export that was not flushed.
LEMMA TextIs ==
  ASSUME NEW t \in Trainers, NEW s \in Stores
  PROVE  /\ IsText(Text(t, s)) /\ \A w \in Flushed(Text(t, s)) : IsText(w)
<1>1. PICK T \in Seq(Int) : T = Text(t, s) /\ Len(T) >= 4 /\ T[1] = Version
  BY TextWords
<1>2. ASSUME NEW n \in {0, Len(T) \div 2, Len(T)} PROVE IsText(SubSeq(T, 1, n))
  <2>1. Len(T) \in Nat
    OBVIOUS
  <2>2. Len(T) \div 2 \in 2..Len(T)
    BY <1>1, <2>1
  <2>3. n = 0 \/ n \in 2..Len(T)
    BY <1>1, <2>1, <2>2
  <2>4. n \in 0..Len(T)
    BY <2>1, <2>3
  <2>5. PICK w : w = SubSeq(T, 1, n) /\ w \in Seq(Int) /\ Len(w) = n /\ \A i \in 1..n : w[i] = T[i]
    BY <2>4, CutWords
  <2>6. IsText(w)
    BY <1>1, <2>3, <2>5 DEF IsText
  <2> QED
    BY <2>5, <2>6
<1>3. IsText(T)
  BY <1>1 DEF IsText
<1>4. \A w \in Flushed(T) : IsText(w)
  BY <1>2 DEF Flushed
<1> QED
  BY <1>1, <1>3, <1>4

\* A new file counts as one.
LEMMA EmptyText == IsText(<<>>)
BY DEF IsText

-----------------------------------------------------------------------------
\* The export and the end.

\* Opening an export creates its file, and nothing else changes.
LEMMA ExportDoes ==
  ASSUME OpenExport, pc' = "text"
  PROVE  /\ pc = "export" /\ opts.export # NoPath /\ Entry(opts.export) \notin DOMAIN disk
         /\ disk' = With(Entry(opts.export), <<>>)
         /\ UNCHANGED <<world, opts, trainer, store, tampered>>
BY DEF OpenExport, Goto, Fail, Exists, files

\* The export is opened under a name that no checkpoint has.
LEMMA ExportName ==
  ASSUME TypeInv, LoadInv, SavedInv, OpenExport, pc' = "text"
  PROVE  /\ opts.export.name \notin CheckpointNames
         /\ opts.save # NoPath => opts.save.name # opts.export.name
<1>1. pc = "export" /\ opts.export # NoPath /\ Entry(opts.export) \notin DOMAIN disk
  BY ExportDoes
<1>2. PICK o \in Invocations : Accepted(o) /\ opts = Reporting(o)
  BY <1>1 DEF TypeInv
<1>3. o.load = opts.load /\ o.save = opts.save /\ o.export = opts.export
  BY <1>2, ReportingKeeps
<1>4. opts.load # NoPath => Entry(opts.load) \in DOMAIN disk
  BY <1>1 DEF LoadInv, Opened, Exists
<1>5. opts.save # NoPath => Entry(opts.save) \in DOMAIN disk
  BY <1>1 DEF SavedInv, Exists
<1>6. opts.load # NoPath => opts.load.name # opts.export.name
  BY <1>1, <1>4 DEF Entry
<1>7. opts.save # NoPath => opts.save.name # opts.export.name
  BY <1>1, <1>5 DEF Entry
<1>8. \A path \in {o.load, o.save} : path = NoPath \/ path.name # o.export.name
  BY <1>3, <1>6, <1>7
<1>9. o.export.name \notin CheckpointNames
  BY <1>1, <1>2, <1>3, <1>8 DEF CheckpointNames
<1> QED
  BY <1>3, <1>7, <1>9

\* TextInv.
LEMMA TextKept ==
  ASSUME TypeInv, LoadInv, SavedInv, TextInv, Next
  PROVE  TextInv'
<1> SUFFICES ASSUME pc' = "text" PROVE TextInv'
  BY DEF TextInv
<1>1. CASE OpenExport
  <2>1. opts' = opts /\ disk' = With(Entry(opts.export), <<>>)
    BY <1>1, ExportDoes
  <2>2. \E words : disk' = With(Entry(opts.export), words)
    BY <2>1
  <2>3. Entry(opts.export) \in DOMAIN disk'
    BY <2>2 DEF With
  <2>4. /\ opts.export.name \notin CheckpointNames
        /\ opts.save # NoPath => opts.save.name # opts.export.name
    BY <1>1, ExportName
  <2> QED
    BY <2>1, <2>3, <2>4 DEF TextInv, Exists, Entry
<1>2. CASE Aside
  <2>1. pc = "text" /\ opts' = opts
    BY <1>2, AsideStays
  <2>2. Entry(opts.export) \in DOMAIN disk'
    BY <1>2, <2>1, AsideKeeps DEF TextInv, Exists
  <2> QED
    BY <2>1, <2>2 DEF TextInv, Exists, Entry
<1> QED
  BY <1>1, <1>2, Arrive DEF Arrivals, Aside

\* SavedInv: once saved, the checkpoint stays until the run ends.
LEMMA SavedKept ==
  ASSUME TypeInv, BusyInv, ClosedInv, SavedInv, TextInv, Next
  PROVE  SavedInv'
<1> SUFFICES ASSUME pc' \in {"export", "text"} \/ (pc' = "cleanup" /\ exit' = "SUCCESS"),
                    opts'.save # NoPath
             PROVE  /\ Entry(opts'.save) \in DOMAIN disk'
                    /\ ~world'.workers =>
                          disk'[Entry(opts'.save)] = Framed(Payload(trainer', store'), world'.zstd)
  BY DEF SavedInv, Exists, Entry
<1>1. CASE Rename /\ pc' = "export"
  <2>1. /\ IsClosed(disk'[Entry(opts.save)]) /\ Entry(opts.save) \in DOMAIN disk'
        /\ UNCHANGED <<world, opts, trainer, store, tampered>>
    BY <1>1, RenameDoes
  <2> QED
    BY <2>1 DEF IsClosed
<1>2. CASE OpenTemporary /\ pc' = "export"
  BY <1>2 DEF OpenTemporary, Goto, Fail
<1>3. CASE OpenExport
  <2>1. pc = "export" /\ UNCHANGED <<world, opts, trainer, store>>
    BY <1>3 DEF OpenExport, files
  <2>2. /\ Entry(opts.save) \in DOMAIN disk
        /\ ~world.workers => disk[Entry(opts.save)] = Framed(Payload(trainer, store), world.zstd)
    BY <2>1 DEF SavedInv, Exists
  <2>3. disk' = disk \/ (Entry(opts.export) \notin DOMAIN disk /\
                         \E words : disk' = With(Entry(opts.export), words))
    BY <1>3 DEF OpenExport, Exists
  <2>4. Entry(opts.save) \in DOMAIN disk' /\ disk'[Entry(opts.save)] = disk[Entry(opts.save)]
    BY <2>2, <2>3 DEF With
  <2> QED
    BY <2>1, <2>2, <2>4
<1>4. CASE WriteExport
  <2>1. pc = "text" /\ UNCHANGED <<world, opts, trainer, store>>
    BY <1>4 DEF WriteExport, files
  <2>2. /\ Entry(opts.save) \in DOMAIN disk
        /\ ~world.workers => disk[Entry(opts.save)] = Framed(Payload(trainer, store), world.zstd)
    BY <2>1 DEF SavedInv, Exists
  <2>3. \E words : disk' = With(Entry(opts.export), words)
    BY <1>4 DEF WriteExport
  <2>4. Entry(opts.save) # Entry(opts.export)
    BY <2>1 DEF TextInv, Entry
  <2>5. Entry(opts.save) \in DOMAIN disk' /\ disk'[Entry(opts.save)] = disk[Entry(opts.save)]
    BY <2>2, <2>3, <2>4 DEF With
  <2> QED
    BY <2>1, <2>2, <2>5
<1>5. CASE Aside
  <2>1. UNCHANGED <<world, pc, opts, trainer, exit>>
    BY <1>5, AsideStays
  <2>2. ~world.workers => store' = store
    BY <1>5, AsideStays DEF BusyInv
  <2>3. /\ Entry(opts.save) \in DOMAIN disk
        /\ ~world.workers => disk[Entry(opts.save)] = Framed(Payload(trainer, store), world.zstd)
    BY <2>1 DEF SavedInv, Exists
  <2>4. Entry(opts.save) \in DOMAIN disk' /\ disk'[Entry(opts.save)] = disk[Entry(opts.save)]
    BY <1>5, <2>3, AsideKeeps
  <2> QED
    BY <2>1, <2>2, <2>3, <2>4
<1> QED
  BY <1>1, <1>2, <1>3, <1>4, <1>5, Arrive DEF Arrivals, Aside, Rename

\* SuccessMeansSaved, which is part of the invariant.
LEMMA SuccessKept ==
  ASSUME TypeInv, BusyInv, ClosedInv, SavedInv, TextInv, SuccessMeansSaved, Next
  PROVE  SuccessMeansSaved'
<1> SUFFICES ASSUME pc' = "cleanup", exit' = "SUCCESS", ~world'.workers
             PROVE  /\ opts'.save # NoPath =>
                       /\ Exists(Entry(opts.save))'
                       /\ disk'[Entry(opts'.save)] = Framed(Payload(trainer', store'), world'.zstd)
                    /\ opts'.export # NoPath =>
                       /\ Exists(Entry(opts.export))'
                       /\ disk'[Entry(opts'.export)] = Text(trainer', store')
  BY DEF SuccessMeansSaved, Entry
<1>1. opts'.save # NoPath =>
                       /\ Exists(Entry(opts.save))'
                       /\ disk'[Entry(opts'.save)] = Framed(Payload(trainer', store'), world'.zstd)
  BY SavedKept DEF SavedInv, Entry
<1>2. ASSUME opts'.export # NoPath
      PROVE  Entry(opts'.export) \in DOMAIN disk' /\ disk'[Entry(opts'.export)] = Text(trainer', store')
  <2>1. CASE OpenExport
    BY <1>2, <2>1 DEF OpenExport, Goto, Fail
  <2>2. CASE WriteExport
    <3>1. /\ disk' = With(Entry(opts.export), Text(trainer, store))
          /\ UNCHANGED <<opts, trainer, store>>
      BY <2>2 DEF WriteExport, Goto, Fail, files
    <3>2. PICK T : T = Text(trainer, store)
      OBVIOUS
    <3>3. disk' = With(Entry(opts.export), T)
      BY <3>1, <3>2
    <3>4. Entry(opts.export) \in DOMAIN disk' /\ disk'[Entry(opts.export)] = T
      BY <3>3 DEF With
    <3> QED
      BY <3>1, <3>2, <3>4
  <2>3. CASE Aside
    <3>1. UNCHANGED <<world, pc, opts, trainer, exit>>
      BY <2>3, AsideStays
    <3>2. store' = store
      BY <2>3, <3>1, AsideStays DEF BusyInv
    <3>3. Entry(opts.export) \in DOMAIN disk /\ disk[Entry(opts.export)] = Text(trainer, store)
      BY <1>2, <3>1 DEF SuccessMeansSaved, Exists
    <3>4. Entry(opts.export) \in DOMAIN disk' /\ disk'[Entry(opts.export)] = disk[Entry(opts.export)]
      BY <2>3, <3>3, AsideKeeps
    <3> QED
      BY <3>1, <3>2, <3>3, <3>4
  <2> QED
    BY <2>1, <2>2, <2>3, Arrive DEF Arrivals, Aside
<1> QED
  BY <1>1, <1>2 DEF Exists, Entry

-----------------------------------------------------------------------------
\* The files.

\* Whole checkpoints and exports are understood.
LEMMA WholeUnderstood ==
  ASSUME NEW t \in Trainers, NEW s \in Stores, ValidStore(t, s), NEW zstd \in BOOLEAN
  PROVE  Understood(Framed(Payload(t, s), zstd), zstd)
BY FramedLike DEF Understood

LEMMA SavedWhole ==
  ASSUME NEW f, Saved(f)
  PROVE  Whole(f, world.zstd)
BY DEF Saved, Whole, WholeExact

LEMMA SavedUnderstood ==
  ASSUME TypeInv, NEW f, Saved(f) \/ IsText(f)
  PROVE  Understood(f, world.zstd)
<1>0. world.zstd \in BOOLEAN
  BY ZstdType
<1>1. CASE Saved(f)
  <2>1. PICK t \in Trainers, s \in Stores : ValidStore(t, s) /\ f = Framed(Payload(t, s), world.zstd)
    BY <1>1, SavedWhole DEF Whole
  <2> QED
    BY <1>0, <2>1, WholeUnderstood
<1>2. CASE IsText(f)
  BY <1>0, <1>2, TextRejected DEF Understood
<1> QED
  BY <1>1, <1>2

\* A file that is not touched stays what it is.
LEMMA FileStays ==
  ASSUME TypeInv, NEW name, NEW f, FileOk(name, f), world' = world, tampered => tampered'
  PROVE  FileOk(name, f)'
<1>1. CASE tampered
  BY <1>1 DEF FileOk
<1>2. CASE ~tampered
  <2>1. (Saved(f) \/ IsText(f)) /\ (name \in CheckpointNames => Saved(f))
    BY <1>2 DEF FileOk
  <2>2. Understood(f, world.zstd)
    BY <2>1, SavedUnderstood
  <2>3. Saved(f)' <=> Saved(f)
    BY DEF Saved, WholeExact, Whole
  <2> QED
    BY <2>1, <2>2, <2>3 DEF FileOk
<1> QED
  BY <1>1, <1>2

\* An export may lie under a name that no checkpoint has.
LEMMA TextOk ==
  ASSUME TypeInv, NEW name, name \notin CheckpointNames, NEW f, IsText(f)
  PROVE  FileOk(name, f)
BY SavedUnderstood DEF FileOk

\* The checkpoint that was closed may take any name.
LEMMA ClosedOk ==
  ASSUME TypeInv, ExactInv, pc \in Trains, NEW f, IsClosed(f), NEW name
  PROVE  FileOk(name, f)
<1>0. world.zstd \in BOOLEAN /\ trainer \in Trainers
  BY ZstdType DEF TypeInv
<1>1. PICK c \in Stores : /\ ValidStore(trainer, c) /\ f = Framed(Payload(trainer, c), world.zstd)
                          /\ ~world.workers => c = store
  BY DEF IsClosed
<1>2. CASE tampered
  <2>1. Understood(f, world.zstd)
    BY <1>0, <1>1, WholeUnderstood
  <2> QED
    BY <1>2, <2>1 DEF FileOk
<1>3. CASE ~tampered
  <2>1. CASE world.workers
    <3>1. Whole(f, world.zstd)
      BY <1>0, <1>1 DEF Whole
    <3> QED
      BY <1>3, <2>1, <3>1 DEF FileOk, Saved
  <2>2. CASE ~world.workers
    <3>1. Exact(trainer, store)
      BY <1>3, <2>2 DEF ExactInv
    <3>2. WholeExact(f, world.zstd)
      BY <1>0, <1>1, <2>2, <3>1 DEF WholeExact
    <3> QED
      BY <1>3, <2>2, <3>2 DEF FileOk, Saved
  <2> QED
    BY <2>1, <2>2
<1> QED
  BY <1>2, <1>3

\* Somebody damaged a file.
LEMMA DamagedUnderstood ==
  ASSUME TypeInv, NEW f, f # <<>>, Saved(f) \/ IsText(f), NEW d \in Damages(f)
  PROVE  Understood(d, world.zstd)
<1>0. world.zstd \in BOOLEAN
  BY ZstdType
<1>1. CASE IsText(f)
  <2>1. Rejected(d, world.zstd)
    BY <1>0, <1>1, DamagedText
  <2> QED
    BY <2>1 DEF Understood
<1>2. CASE Saved(f)
  <2>1. PICK t \in Trainers, s \in Stores : ValidStore(t, s) /\ f = Framed(Payload(t, s), world.zstd)
    BY <1>2, SavedWhole DEF Whole
  <2>2. CASE world.zstd = TRUE
    <3>1. d \in Damages(Framed(Payload(t, s), TRUE))
      BY <2>1, <2>2
    <3>2. Understood(d, TRUE)
      BY <2>1, <2>2, <3>1, DamagedFrame
    <3> QED
      BY <2>2, <3>2
  <2>3. CASE world.zstd = FALSE
    <3>1. Payload(t, s) \in Seq(Nat)
      BY PayloadLong
    <3>2. f = Payload(t, s)
      BY <2>1, <2>3, <3>1, Frame
    <3>3. Understood(d, FALSE)
      BY <2>1, <2>3, <3>2, DamagedPlain
    <3> QED
      BY <2>3, <3>3
  <2> QED
    BY <1>0, <2>2, <2>3
<1> QED
  BY <1>1, <1>2

\* A file that others wrote is refused.
LEMMA ForeignUnderstood ==
  ASSUME NEW zstd \in BOOLEAN
  PROVE  Understood(<<99>>, zstd)
<1>1. <<99>> \in Seq(Int) /\ <<99>>[1] \in {1, 2, 99}
  OBVIOUS
<1>2. Rejected(<<99>>, zstd)
  BY <1>1, NotAPayload
<1> QED
  BY <1>2 DEF Understood

\* DiskInv.
LEMMA DiskKept ==
  ASSUME TypeInv, LoadInv, ExactInv, ClosedInv, SavedInv, TextInv, DiskInv, Next
  PROVE  DiskInv'
<1> SUFFICES ASSUME NEW e \in DOMAIN disk', e[2] = 0, NEW file, file = disk'[e]
             PROVE  FileOk(e[1], file)'
  BY DEF DiskInv
<1>0. /\ world' = world /\ (tampered => tampered') /\ attempt \in Nat
      /\ trainer \in Trainers /\ store \in Stores
  <2>1. tampered => tampered'
    <3>1. tampered' = tampered \/ tampered' = TRUE
      BY TamperedMoves DEF Damage, CreateForeign
    <3> QED
      BY <3>1
  <2> QED
    BY <2>1, WorldStays DEF TypeInv
<1>1. ASSUME e \in DOMAIN disk, disk'[e] = disk[e]
      PROVE  FileOk(e[1], file)'
  <2>1. FileOk(e[1], file)
    BY <1>1 DEF DiskInv
  <2> QED
    BY <1>0, <2>1, FileStays
<1>2. ASSUME FileOk(e[1], file)
      PROVE  FileOk(e[1], file)'
  BY <1>0, <1>2, FileStays
<1>3. ASSUME NEW path, NEW n \in Nat, NEW words, disk' = With(TemporaryEntry(path, n), words)
      PROVE  FileOk(e[1], file)'
  <2>1. e # TemporaryEntry(path, n)
    BY Entries
  <2> QED
    BY <1>1, <1>3, <2>1 DEF With
<1>4. ASSUME NEW words, IsText(words), opts.export.name \notin CheckpointNames,
             disk' = With(Entry(opts.export), words)
      PROVE  FileOk(e[1], file)'
  <2>1. CASE e = Entry(opts.export)
    <3>1. file = words /\ e[1] = opts.export.name
      BY <1>4, <2>1 DEF With, Entry
    <3>2. FileOk(e[1], words)
      BY <1>4, <3>1, TextOk
    <3> QED
      BY <1>2, <3>1, <3>2
  <2>2. CASE e # Entry(opts.export)
    BY <1>1, <1>4, <2>2 DEF With
  <2> QED
    BY <2>1, <2>2
<1>5. CASE UNCHANGED disk
  BY <1>1, <1>5
<1>6. CASE OpenTemporary
  <2>1. disk' = disk \/ \E n \in Nat : disk' = With(TemporaryEntry(opts.save, n), <<>>)
    BY <1>6, SessionAssumption DEF OpenTemporary
  <2>2. disk' = disk \/ \E n \in Nat : \E words : disk' = With(TemporaryEntry(opts.save, n), words)
    BY <2>1
  <2> QED
    BY <1>3, <1>5, <2>2
<1>7. CASE CloseTemporary
  <2>1. \E words : disk' = With(TemporaryEntry(opts.save, attempt), words)
    BY <1>7 DEF CloseTemporary
  <2> QED
    BY <1>0, <1>3, <2>1
<1>8. CASE Rename /\ pc' = "export"
  <2>1. /\ IsClosed(disk'[Entry(opts.save)])
        /\ DOMAIN disk' = (DOMAIN disk \cup {Entry(opts.save)}) \ {TemporaryEntry(opts.save, attempt)}
        /\ \A f \in DOMAIN disk' : f # Entry(opts.save) => disk'[f] = disk[f]
    BY <1>8, RenameDoes
  <2>2. CASE e = Entry(opts.save)
    <3>1. IsClosed(file)
      BY <2>1, <2>2
    <3>2. pc \in Trains
      BY <1>8 DEF Rename, Trains, Writing
    <3>3. FileOk(e[1], file)
      BY <3>1, <3>2, ClosedOk
    <3> QED
      BY <1>2, <3>3
  <2>3. CASE e # Entry(opts.save)
    BY <1>1, <2>1, <2>3
  <2> QED
    BY <2>2, <2>3
<1>9. CASE Rename /\ pc' # "export"
  BY <1>5, <1>9 DEF Rename, Goto
<1>10. CASE RemoveTemporary
  <2>1. UNCHANGED disk \/ disk' = Without(TemporaryEntry(opts.save, attempt))
    BY <1>10 DEF RemoveTemporary
  <2> QED
    BY <1>1, <1>5, <2>1 DEF Without
<1>11. CASE OpenExport
  <2>1. CASE pc' = "text"
    <3>1. disk' = With(Entry(opts.export), <<>>) /\ opts.export.name \notin CheckpointNames
      BY <1>11, <2>1, ExportDoes, ExportName
    <3>2. PICK words : words = <<>>
      OBVIOUS
    <3>3. IsText(words) /\ disk' = With(Entry(opts.export), words)
      BY <3>1, <3>2, EmptyText
    <3> QED
      BY <1>4, <3>1, <3>3
  <2>2. CASE pc' # "text"
    BY <1>5, <1>11, <2>2 DEF OpenExport, Goto
  <2> QED
    BY <2>1, <2>2
<1>12. CASE pc = "text" /\ (WriteExport \/ Crash)
  <2>1. \E words : /\ words = Text(trainer, store) \/ words \in Flushed(Text(trainer, store))
                   /\ disk' = With(Entry(opts.export), words)
    BY <1>12 DEF WriteExport, Crash
  <2>2. PICK words : IsText(words) /\ disk' = With(Entry(opts.export), words)
    BY <1>0, <2>1, TextIs
  <2>3. opts.export.name \notin CheckpointNames
    BY <1>12 DEF TextInv
  <2> QED
    BY <1>4, <2>2, <2>3
<1>13. CASE pc # "text" /\ Crash
  <2>1. disk' = disk \/ \E words : disk' = With(TemporaryEntry(opts.save, attempt), words)
    BY <1>13 DEF Crash
  <2> QED
    BY <1>0, <1>3, <1>5, <2>1
<1>14. CASE Damage
  <2>1. PICK f \in DOMAIN disk :
           disk[f] # <<>> /\ \E words \in Damages(disk[f]) : disk' = With(f, words)
    BY <1>14 DEF Damage
  <2>2. PICK words \in Damages(disk[f]) : disk' = With(f, words)
    BY <2>1
  <2>3. CASE e = f
    <3>1. ~tampered /\ tampered' = TRUE
      BY <1>14 DEF Damage
    <3>2. FileOk(f[1], disk[f])
      BY <2>3 DEF DiskInv
    <3>3. Saved(disk[f]) \/ IsText(disk[f])
      BY <3>1, <3>2 DEF FileOk
    <3>4. Understood(words, world.zstd)
      BY <2>1, <2>2, <3>3, DamagedUnderstood
    <3>5. file = words
      BY <2>2, <2>3 DEF With
    <3> QED
      BY <1>0, <3>1, <3>4, <3>5 DEF FileOk
  <2>4. CASE e # f
    BY <1>1, <2>2, <2>4 DEF With
  <2> QED
    BY <2>3, <2>4
<1>15. CASE CreateForeign
  <2>1. PICK words : words = <<99>>
    OBVIOUS
  <2>2. tampered' = TRUE /\ disk' = With(Entry(opts.export), words)
    BY <1>15, <2>1 DEF CreateForeign
  <2>3. CASE e = Entry(opts.export)
    <3>1. file = words
      BY <2>2, <2>3 DEF With
    <3>2. Understood(words, world.zstd)
      BY <2>1, ZstdType, ForeignUnderstood
    <3> QED
      BY <1>0, <2>2, <3>1, <3>2 DEF FileOk
  <2>4. CASE e # Entry(opts.export)
    BY <1>1, <2>2, <2>4 DEF With
  <2> QED
    BY <2>3, <2>4
<1>16. WriteExport => pc = "text"
  BY DEF WriteExport
<1> QED
  BY <1>5, <1>6, <1>7, <1>8, <1>9, <1>10, <1>11, <1>12, <1>13, <1>14, <1>15, <1>16, DiskMoves

-----------------------------------------------------------------------------
\* The invariant holds at the start and is kept.

\* The checkpoints of earlier sessions.
LEMMA EarlierSaved ==
  ASSUME world \in Worlds, NEW d \in Earlier(world)
  PROVE  \A e \in DOMAIN d : e[2] = 0 /\ Saved(d[e])
<1>1. PICK o \in Invocations :
        /\ Accepted(o)
        /\ d = [e \in {Entry(o.save)} |->
                  LET after == Trained(NewTrainer(o), <<>>, o.iterations)
                  IN  Framed(Payload(after.trainer, after.nodes), world.zstd)]
  BY DEF Earlier
<1>2. PICK n \in Nat : n = o.iterations
  BY ReportingKeeps DEF Options
<1>3. PICK t \in Trainers : t = NewTrainer(o) /\ t.training_iterations = 0
  BY <1>1, NewTrainerType
<1>4. PICK after : after = Trained(t, <<>>, n)
  OBVIOUS
<1>5. /\ after \in Pairs /\ after.trainer.training_iterations = n
      /\ ValidStore(after.trainer, after.nodes)
  <2>1. ValidStore(t, <<>>)
    BY DEF ValidStore
  <2>2. after.trainer.training_iterations = 0 + n
    BY <1>3, <1>4, NoTrainerType, TrainedKeeps
  <2> QED
    BY <1>4, <2>1, <2>2, NoTrainerType, TrainedKeeps
<1>6. /\ after.trainer \in Trainers /\ after.nodes \in Stores
      /\ after = [trainer |-> after.trainer, nodes |-> after.nodes]
  BY <1>5 DEF Pairs
<1>7. Exact(after.trainer, after.nodes)
  <2>1. [trainer |-> after.trainer, nodes |-> after.nodes]
          = Trained(NewTrainer(o), <<>>, after.trainer.training_iterations)
    BY <1>3, <1>4, <1>5, <1>6
  <2> QED
    BY <1>1, <2>1 DEF Exact
<1>8. PICK f : f = Framed(Payload(after.trainer, after.nodes), world.zstd)
  OBVIOUS
<1>9. Saved(f)
  <2>1. WholeExact(f, world.zstd)
    BY <1>5, <1>6, <1>7, <1>8 DEF WholeExact
  <2>2. Whole(f, world.zstd)
    BY <1>5, <1>6, <1>8 DEF Whole
  <2> QED
    BY <2>1, <2>2 DEF Saved
<1>10. d = [e \in {Entry(o.save)} |-> f]
  BY <1>1, <1>2, <1>3, <1>4, <1>8
<1> QED
  BY <1>9, <1>10 DEF Entry

\* The initial state.
LEMMA SessionStarts ==
  ASSUME Init
  PROVE  SessionInv
<1>1. /\ world \in Worlds /\ disk \in {<<>>} \cup Earlier(world) /\ pc = "idle" /\ completed = 0
      /\ trainer = NoTrainer /\ store = <<>> /\ attempt = 0 /\ busy = {} /\ tampered = FALSE
      /\ left = {}
  BY DEF Init
<1>2. TypeInv
  BY <1>1, NoTrainerType DEF TypeInv
<1>3. \A e \in DOMAIN disk : e[2] = 0 /\ Saved(disk[e])
  <2>1. CASE disk = <<>>
    BY <2>1
  <2>2. CASE disk \in Earlier(world)
    BY <1>1, <2>2, EarlierSaved
  <2> QED
    BY <1>1, <2>1, <2>2
<1>4. DiskInv
  BY <1>1, <1>3 DEF DiskInv, FileOk
<1>5. TempInv
  BY <1>1, <1>3 DEF TempInv, Temporaries, Writing
<1>6. IdleInv /\ BusyInv
  BY <1>1 DEF IdleInv, BusyInv
<1>7. LoadInv /\ ReaderInv /\ LoadedInv /\ ExactInv
  BY <1>1 DEF LoadInv, Opened, Writing, ReaderInv, LoadedInv, ExactInv, Trains
<1>8. MomentInv /\ WriterInv /\ ClosedInv
  BY <1>1 DEF MomentInv, Filling, WriterInv, ClosedInv
<1>9. SavedInv /\ TextInv /\ SuccessMeansSaved
  BY <1>1 DEF SavedInv, TextInv, SuccessMeansSaved
<1> QED
  BY <1>2, <1>4, <1>5, <1>6, <1>7, <1>8, <1>9 DEF SessionInv

\* A stutter.
LEMMA SessionStutters ==
  ASSUME SessionInv, UNCHANGED vars
  PROVE  SessionInv'
<1>1. /\ UNCHANGED <<world, disk, pc, opts, completed, trainer, store, reader, keys, index, copied>>
      /\ UNCHANGED <<out, attempt, status, exit, busy, moments, tampered, crashed, left, runs,
                     commits>>
  BY DEF vars
<1>2. TypeInv' /\ IdleInv' /\ BusyInv'
  BY <1>1 DEF SessionInv, TypeInv, IdleInv, BusyInv
<1>3. DiskInv'
  BY <1>1 DEF SessionInv, DiskInv, FileOk, Saved, Whole, WholeExact, Exact
<1>4. TempInv' /\ LoadInv'
  BY <1>1 DEF SessionInv, TempInv, Temporaries, Own, LoadInv, Exists, Entry, TemporaryEntry
<1>5. ReaderInv'
  BY <1>1 DEF SessionInv, ReaderInv
<1>6. LoadedInv' /\ ExactInv'
  BY <1>1 DEF SessionInv, LoadedInv, ExactInv
<1>7. MomentInv'
  BY <1>1 DEF SessionInv, MomentInv
<1>8. WriterInv'
  BY <1>1 DEF SessionInv, WriterInv, Copies
<1>9. ClosedInv'
  BY <1>1 DEF SessionInv, ClosedInv, Exists, TemporaryEntry
<1>10. SavedInv' /\ TextInv' /\ SuccessMeansSaved'
  BY <1>1 DEF SessionInv, SavedInv, TextInv, SuccessMeansSaved, Exists
<1> QED
  BY <1>2, <1>3, <1>4, <1>5, <1>6, <1>7, <1>8, <1>9, <1>10 DEF SessionInv

\* A step: one lemma per part of the invariant.
LEMMA SessionStep ==
  ASSUME SessionInv, [Next]_vars
  PROVE  SessionInv'
<1>1. CASE UNCHANGED vars
  BY <1>1, SessionStutters
<1>2. CASE Next
  <2>0. /\ TypeInv /\ IdleInv /\ BusyInv /\ DiskInv /\ TempInv /\ LoadInv /\ ReaderInv /\ LoadedInv
        /\ ExactInv /\ MomentInv /\ WriterInv /\ ClosedInv /\ SavedInv /\ TextInv /\ SuccessMeansSaved
    BY DEF SessionInv
  <2>1. TypeInv'
    BY <1>2, <2>0, TypeKept
  <2>2. IdleInv'
    BY <1>2, <2>0, IdleKept
  <2>3. BusyInv'
    BY <1>2, <2>0, BusyKept
  <2>4. DiskInv'
    BY <1>2, <2>0, DiskKept
  <2>5. TempInv'
    BY <1>2, <2>0, TempKept
  <2>6. LoadInv'
    BY <1>2, <2>0, LoadKept
  <2>7. ReaderInv'
    BY <1>2, <2>0, ReaderKept
  <2>8. LoadedInv'
    BY <1>2, <2>0, LoadedKept
  <2>9. ExactInv'
    BY <1>2, <2>0, ExactKept
  <2>10. MomentInv'
    BY <1>2, <2>0, MomentKept
  <2>11. WriterInv'
    BY <1>2, <2>0, WriterKept
  <2>12. ClosedInv'
    BY <1>2, <2>0, ClosedKept
  <2>13. SavedInv'
    BY <1>2, <2>0, SavedKept
  <2>14. TextInv'
    BY <1>2, <2>0, TextKept
  <2>15. SuccessMeansSaved'
    BY <1>2, <2>0, SuccessKept
  <2> QED
    BY <2>1, <2>2, <2>3, <2>4, <2>5, <2>6, <2>7, <2>8, <2>9, <2>10, <2>11, <2>12, <2>13, <2>14,
       <2>15 DEF SessionInv
<1> QED
  BY <1>1, <1>2

\* The inductive invariant of the runs on one directory.
THEOREM SessionInvariant == Spec => []SessionInv
<1>1. Init => SessionInv
  BY SessionStarts
<1>2. SessionInv /\ [Next]_vars => SessionInv'
  BY SessionStep
<1> QED
  BY <1>1, <1>2, PTL DEF Spec

-----------------------------------------------------------------------------
\* What a user of the program relies on.

\* SavedFileComplete: at whatever step a run is killed and whichever of its calls fails, a
\* file under a name given to --save reads back as a whole checkpoint; the temporary files
\* between two runs are exactly those whose writer was killed or failed to remove them
\* (write_trainer_file).
THEOREM CheckpointsAreComplete == Spec => []SavedFileComplete
<1>1. SessionInv => SavedFileComplete
  <2> SUFFICES ASSUME SessionInv PROVE SavedFileComplete
    OBVIOUS
  <2>0. TypeInv /\ DiskInv /\ TempInv /\ world.zstd \in BOOLEAN
    BY ZstdType DEF SessionInv
  <2>1. ASSUME ~tampered, NEW e \in Checkpoints
        PROVE  Read(disk[e], world.zstd).status = "SUCCESS"
    <3>1. e \in DOMAIN disk /\ e[2] = 0 /\ e[1] \in CheckpointNames
      BY DEF Checkpoints
    <3>2. Saved(disk[e])
      BY <2>0, <2>1, <3>1 DEF DiskInv, FileOk
    <3>3. PICK t \in Trainers, s \in Stores :
             ValidStore(t, s) /\ disk[e] = Framed(Payload(t, s), world.zstd)
      BY <3>2, SavedWhole DEF Whole
    <3> QED
      BY <2>0, <3>3, ReadPayload
  <2>2. pc = "idle" => Temporaries = left
    BY <2>0 DEF TempInv, Writing
  <2> QED
    BY <2>1, <2>2 DEF SavedFileComplete, Temporaries
<1> QED
  BY <1>1, SessionInvariant, PTL

\* LoadAllOrNothing: checkpoint_read binds trainer and store only after the last byte, and
\* then to exactly what the file holds; a damaged file leaves both as they were.
THEOREM LoadsAllOrNothing == Spec => []LoadAllOrNothing
<1>1. SessionInv => LoadAllOrNothing
  BY DEF SessionInv, IdleInv, Early, LoadedInv, LoadAllOrNothing
<1> QED
  BY <1>1, SessionInvariant, PTL

\* RecordsUntorn: a record that checkpoint_write writes while other threads commit is the node
\* as it was between two of their commits (copy_node_snapshot).
THEOREM RecordsAreUntorn == Spec => []RecordsUntorn
<1>1. SessionInv => RecordsUntorn
  BY DEF SessionInv, MomentInv, Filling, RecordsUntorn
<1> QED
  BY <1>1, SessionInvariant, PTL

\* ResumeIsExact: after a load, and after any training behind it, trainer and nodes are those
\* of one run that was never interrupted.
THEOREM ResumesExactly == Spec => []ResumeIsExact
<1>1. SessionInv => ResumeIsExact
  <2> SUFFICES ASSUME SessionInv,
                      pc \in {"loaded", "train", "evaluate", "save", "collect", "export"},
                      ~world.workers, ~tampered
               PROVE  \E o \in Invocations :
                        [trainer |-> trainer, nodes |-> store]
                          = Trained(NewTrainer(o), <<>>, trainer.training_iterations)
    BY DEF ResumeIsExact
  <2>1. Exact(trainer, store)
    BY DEF SessionInv, ExactInv, Trains, Writing
  <2> QED
    BY <2>1 DEF Exact
<1> QED
  BY <1>1, SessionInvariant, PTL

\* SuccessMeansSaved: a run that ends with success has left the checkpoint and the export it
\* was asked for, whole.
THEOREM SuccessIsSaved == Spec => []SuccessMeansSaved
<1>1. SessionInv => SuccessMeansSaved
  BY DEF SessionInv
<1> QED
  BY <1>1, SessionInvariant, PTL

\* ExportNeverOverwrites: no step of the program changes a file under the export name that it
\* did not create itself (the exclusive creation of the export, after the early check).
THEOREM ExportsNeverOverwrite == Spec => ExportNeverOverwrites
<1> DEFINE Spared == \A path \in {opts.export} :
          (Exists(Entry(path)) /\ pc \notin {"idle", "text", "rename"}) =>
              Exists(Entry(path))' /\ disk'[Entry(path)] = disk[Entry(path)]
<1>1. SessionInv /\ [Next]_vars => [Spared]_vars
  <2> SUFFICES ASSUME SessionInv, Next, Entry(opts.export) \in DOMAIN disk,
                      pc \notin {"idle", "text", "rename"}
               PROVE  /\ Entry(opts.export) \in DOMAIN disk'
                      /\ disk'[Entry(opts.export)] = disk[Entry(opts.export)]
    BY DEF Exists, Entry
  <2>0. attempt \in Nat
    BY DEF SessionInv, TypeInv
  <2>1. ASSUME NEW path, NEW n \in Nat, NEW words, disk' = With(TemporaryEntry(path, n), words)
        PROVE  /\ Entry(opts.export) \in DOMAIN disk'
               /\ disk'[Entry(opts.export)] = disk[Entry(opts.export)]
    <3>1. Entry(opts.export) # TemporaryEntry(path, n)
      BY DEF Entry, TemporaryEntry
    <3> QED
      BY <2>1, <3>1 DEF With
  <2>2. CASE UNCHANGED disk
    BY <2>2
  <2>3. CASE OpenTemporary
    <3>1. disk' = disk \/ \E n \in Nat : disk' = With(TemporaryEntry(opts.save, n), <<>>)
      BY <2>3, SessionAssumption DEF OpenTemporary
    <3>2. disk' = disk \/ \E n \in Nat : \E words : disk' = With(TemporaryEntry(opts.save, n), words)
      BY <3>1
    <3> QED
      BY <2>1, <2>2, <3>2
  <2>4. CASE CloseTemporary \/ Crash
    <3>1. disk' = disk \/ \E words : disk' = With(TemporaryEntry(opts.save, attempt), words)
      BY <2>4 DEF CloseTemporary, Crash
    <3> QED
      BY <2>0, <2>1, <2>2, <3>1
  <2>5. CASE RemoveTemporary
    <3>1. /\ UNCHANGED disk \/ disk' = Without(TemporaryEntry(opts.save, attempt))
          /\ Entry(opts.export) # TemporaryEntry(opts.save, attempt)
      BY <2>0, <2>5, Entries DEF RemoveTemporary, Entry, TemporaryEntry
    <3> QED
      BY <2>2, <3>1 DEF Without
  <2>6. CASE OpenExport
    BY <2>2, <2>6 DEF OpenExport, Exists
  <2>7. CASE CreateForeign
    <3>1. Aside
      BY <2>7 DEF Aside
    <3> QED
      BY <3>1, AsideKeeps
  <2>8. ~Rename /\ ~WriteExport /\ ~Damage
    BY DEF Rename, WriteExport, Damage
  <2> QED
    BY <2>2, <2>3, <2>4, <2>5, <2>6, <2>7, <2>8, DiskMoves
<1>2. []SessionInv /\ [][Next]_vars => [][Spared]_vars
  BY <1>1, PTL
<1>3. [][Spared]_vars => ExportNeverOverwrites
  BY DEF ExportNeverOverwrites
<1> QED
  BY <1>2, <1>3, SessionInvariant, PTL DEF Spec
=============================================================================
