----------------------------- MODULE MccfrProofs -----------------------------
(***************************************************************************)
(* Proofs about the traversal of Mccfr: what it uses of the nodes and what *)
(* it leaves behind, for every game, any number of calls, of failures and  *)
(* of commits by others; and about sample_index, which it draws actions    *)
(* with, for every number of draws and every distribution with no more     *)
(* positive actions than draws.                                            *)
(***************************************************************************)
EXTENDS Mccfr, TLAPS, WellFoundedInduction, FiniteSetTheorems

-----------------------------------------------------------------------------
\* Induction over the naturals in terms of sets: a set takes the place of a predicate.

\* A nonempty set of naturals has a least element.
LEMMA LeastNat ==
  ASSUME NEW T, T \subseteq Nat, T # {}
  PROVE  \E x \in T : \A y \in T : x <= y
<1> DEFINE R == {ss \in Nat \X Nat : ss[1] < ss[2]}
<1>1. IsWellFoundedOn(R, Nat)
  BY NatLessThanWellFounded DEF OpToRel
<1>2. PICK x \in T : \A y \in T : ~(<<y, x>> \in R)
  BY <1>1, WFMin, Zenon
<1>3. ASSUME NEW y \in T PROVE x <= y
  <2>1. x \in Nat /\ y \in Nat
    OBVIOUS
  <2>2. ~(y < x)
    BY <1>2, <2>1
  <2> QED BY <2>1, <2>2
<1> QED BY <1>3

\* A set of naturals with 0 and with the successor of each of its elements is all of them.
LEMMA SetInduction ==
  ASSUME NEW T, T \subseteq Nat, 0 \in T, \A n \in T : n + 1 \in T
  PROVE  T = Nat
<1> SUFFICES ASSUME T # Nat PROVE FALSE
  OBVIOUS
<1> DEFINE U == Nat \ T
<1>1. U \subseteq Nat /\ U # {}
  OBVIOUS
<1> HIDE DEF U
<1>2. PICK x \in U : \A y \in U : x <= y
  BY <1>1, LeastNat
<1>3. x # 0
  BY <1>2 DEF U
<1>4. x - 1 \in T
  BY <1>2, <1>3 DEF U
<1>5. x \in T
  BY <1>2, <1>4 DEF U
<1> QED BY <1>2, <1>5 DEF U

\* The same up to a bound.
LEMMA BoundedInduction ==
  ASSUME NEW n \in Nat, NEW T, 0 \in T, \A i \in 0..(n - 1) : i \in T => i + 1 \in T
  PROVE  \A i \in 0..n : i \in T
<1> DEFINE U == {i \in Nat : i <= n => i \in T}
<1>1. 0 \in U
  OBVIOUS
<1>2. ASSUME NEW i \in U PROVE i + 1 \in U
  OBVIOUS
<1>3. U = Nat
  <2>1. U \subseteq Nat
    OBVIOUS
  <2> HIDE DEF U
  <2> QED BY <1>1, <1>2, <2>1, SetInduction
<1> QED BY <1>3

\* The same from a bound down.
LEMMA DownwardInduction ==
  ASSUME NEW n \in Nat, NEW T, n \in T, \A i \in 1..n : i \in T => i - 1 \in T
  PROVE  \A i \in 0..n : i \in T
<1> DEFINE U == {j \in 0..n : n - j \in T}
<1>1. 0 \in U
  OBVIOUS
<1>2. ASSUME NEW j \in 0..(n - 1), j \in U PROVE j + 1 \in U
  <2>1. n - j \in 1..n /\ n - j \in T /\ (n - j) - 1 = n - (j + 1)
    BY <1>2
  <2>2. n - (j + 1) \in T
    BY <2>1
  <2> QED BY <2>2
<1>3. \A j \in 0..n : j \in U
  <2> HIDE DEF U
  <2> QED BY <1>1, <1>2, BoundedInduction
<1>4. ASSUME NEW i \in 0..n PROVE i \in T
  <2>1. n - i \in 0..n /\ n - (n - i) = i
    OBVIOUS
  <2>2. n - (n - i) \in T
    BY <1>3, <2>1
  <2> QED BY <2>1, <2>2
<1> QED BY <1>4

\* Some function has first at 0, and at each later index a step from the value before.
HasSteps(S, first, step, n) ==
  \E g \in [0..n -> S] : g[0] = first /\ \A i \in 1..n : g[i] = step[i][g[i - 1]]

\* Such a function exists.
LEMMA StepFunction ==
  ASSUME NEW S, NEW first \in S, NEW step \in [Nat -> [S -> S]], NEW n \in Nat
  PROVE  HasSteps(S, first, step, n)
<1> DEFINE Good(g, m) == g[0] = first /\ \A i \in 1..m : g[i] = step[i][g[i - 1]]
           Ok == {m \in Nat : \E g \in [0..m -> S] : Good(g, m)}
<1>1. 0 \in Ok
  <2> DEFINE g == [i \in 0..0 |-> first]
  <2>1. g \in [0..0 -> S]
    OBVIOUS
  <2>2. Good(g, 0)
    OBVIOUS
  <2> HIDE DEF g, Good
  <2>3. \E h \in [0..0 -> S] : Good(h, 0)
    BY <2>1, <2>2
  <2> QED BY <2>3
<1>2. ASSUME NEW m \in Ok PROVE m + 1 \in Ok
  <2>1. PICK g \in [0..m -> S] : Good(g, m)
    OBVIOUS
  <2> DEFINE h == [i \in 0..(m + 1) |-> IF i <= m THEN g[i] ELSE step[m + 1][g[m]]]
  <2>2. h \in [0..(m + 1) -> S]
    BY <2>1
  <2>3. Good(h, m + 1)
    BY <2>1
  <2> HIDE DEF h, Good
  <2>4. \E f \in [0..(m + 1) -> S] : Good(f, m + 1)
    BY <2>2, <2>3
  <2> QED BY <2>4
<1>3. Ok = Nat
  <2>1. Ok \subseteq Nat
    OBVIOUS
  <2> HIDE DEF Ok
  <2> QED BY <1>1, <1>2, <2>1, SetInduction
<1> QED BY <1>3 DEF HasSteps

-----------------------------------------------------------------------------
\* Sequences whose elements are of no particular set.

IsSeq(s) == s \in Seq({s[i] : i \in DOMAIN s})

\* A sequence is a finite sequence of some set of values.
LEMMA SeqIntro ==
  ASSUME NEW S, NEW s \in Seq(S)
  PROVE  IsSeq(s)
<1>1. s \in [1..Len(s) -> {s[i] : i \in DOMAIN s}] /\ Len(s) \in Nat
  OBVIOUS
<1> QED BY <1>1 DEF IsSeq

\* Append adds one element at the end.
LEMMA AppendFacts ==
  ASSUME NEW s, IsSeq(s), NEW e
  PROVE  /\ IsSeq(Append(s, e))
         /\ Len(s) \in Nat /\ Len(Append(s, e)) = Len(s) + 1
         /\ DOMAIN s = 1..Len(s) /\ DOMAIN Append(s, e) = 1..(Len(s) + 1)
         /\ Append(s, e)[Len(s) + 1] = e
         /\ \A i \in 1..Len(s) : Append(s, e)[i] = s[i]
<1> DEFINE S == {s[i] : i \in DOMAIN s} \union {e}
<1>1. s \in Seq(S) /\ e \in S
  <2>1. s \in Seq({s[i] : i \in DOMAIN s})
    BY DEF IsSeq
  <2>2. Len(s) \in Nat /\ s \in [1..Len(s) -> {s[i] : i \in DOMAIN s}]
    BY <2>1
  <2>3. s \in [1..Len(s) -> S]
    BY <2>2
  <2> QED BY <2>2, <2>3
<1> HIDE DEF S
<1>2. Append(s, e) \in Seq(S)
  BY <1>1
<1>3. IsSeq(Append(s, e))
  BY <1>2, SeqIntro
<1> QED BY <1>1, <1>2, <1>3

\* Front drops the last element.
LEMMA FrontFacts ==
  ASSUME NEW s, IsSeq(s), s # <<>>
  PROVE  /\ IsSeq(Front(s))
         /\ Len(s) \in Nat \ {0} /\ Len(Front(s)) = Len(s) - 1
         /\ \A i \in 1..(Len(s) - 1) : Front(s)[i] = s[i]
<1>1. s \in Seq({s[i] : i \in DOMAIN s})
  BY DEF IsSeq
<1>2. Len(s) \in Nat \ {0}
  BY <1>1
<1>3. Front(s) \in Seq({s[i] : i \in DOMAIN s})
  BY <1>1, <1>2 DEF Front
<1>4. IsSeq(Front(s))
  BY <1>3, SeqIntro
<1>5. Len(Front(s)) = Len(s) - 1
  <2>1. CASE Len(s) = 1
    BY <1>1, <2>1 DEF Front
  <2>2. CASE 1 <= Len(s) - 1
    BY <1>1, <1>2, <2>2 DEF Front
  <2>3. \A k \in Nat \ {0} : k = 1 \/ 1 <= k - 1
    OBVIOUS
  <2> QED BY <1>2, <2>1, <2>2, <2>3, Zenon
<1>6. ASSUME NEW i \in 1..(Len(s) - 1) PROVE Front(s)[i] = s[i]
  BY <1>1, <1>2 DEF Front
<1> QED BY <1>2, <1>4, <1>5, <1>6

-----------------------------------------------------------------------------
\* The inductive invariant.

Shape ==
  /\ IsSeq(state) /\ IsSeq(stack) /\ IsSeq(successes)
  /\ Len(state) >= 1 /\ state[1] = 1
  /\ pc \in {"idle", "branch", "return", "commit"}
  /\ DOMAIN caller = {"rng", "utility", "visited", "status"}
  /\ DOMAIN ret = {"status", "utility"}

SnapshotFields == {"strategy", "actions", "sampled", "entry"}
WorkspaceShape(w) ==
  /\ DOMAIN w = {"snapshots", "visits", "averageOnly", "rng", "utility"}
  /\ \A k \in DOMAIN w.snapshots : DOMAIN w.snapshots[k] = SnapshotFields

\* One action is applied for every frame, unless an undo failed.
Depth ==
  /\ pc # "idle" => IF pc = "return" /\ ret.status = UndoFailed
                    THEN Len(state) > Len(stack) + 1 ELSE Len(state) = Len(stack) + 1
  /\ pc = "commit" => stack = <<>>
  /\ pc = "idle" => (caller.status = UndoFailed) = (Len(state) > 1)

\* The history holds what every node of the store is, and every snapshot.
History ==
  pc # "idle" =>
    /\ DOMAIN seen = DOMAIN store
    /\ \A k \in DOMAIN store : store[k] \in seen[k]
    /\ \A k \in DOMAIN ws.snapshots : k \in DOMAIN seen /\ ws.snapshots[k].strategy \in seen[k]

Account ==
  /\ \A i \in DOMAIN successes :
        /\ successes[i].from = IF i = 1 THEN 0 ELSE successes[i - 1].to
        /\ successes[i].sum = Sum(IF i = 1 THEN <<>> ELSE successes[i - 1].sum,
                                  successes[i].deltas)
  /\ IF successes = <<>> THEN caller.rng = 0 /\ total = <<>>
     ELSE caller.rng = Last(successes).to /\ total = Last(successes).sum

Inv == Shape /\ WorkspaceShape(ws) /\ Depth /\ History /\ Account

-----------------------------------------------------------------------------
\* What the operations on the workspace do to the snapshots.

SameStrategies(w, v) ==
  /\ DOMAIN v.snapshots = DOMAIN w.snapshots
  /\ \A k \in DOMAIN w.snapshots : v.snapshots[k].strategy = w.snapshots[k].strategy

\* Adding to an entry leaves the retained strategies as they are.
LEMMA AddToEntryFacts ==
  ASSUME NEW w, WorkspaceShape(w), NEW key, NEW regret, NEW strategy
  PROVE  WorkspaceShape(AddToEntry(w, key, regret, strategy))
         /\ SameStrategies(w, AddToEntry(w, key, regret, strategy))
<1>1. PICK e : AddToEntry(w, key, regret, strategy) = [w EXCEPT !.snapshots[key].entry = e]
  BY DEF AddToEntry
<1> QED BY <1>1 DEF WorkspaceShape, SnapshotFields, SameStrategies

\* So does counting a visit.
LEMMA VisitedFacts ==
  ASSUME WorkspaceShape(ws)
  PROVE  WorkspaceShape(Visited) /\ Visited.snapshots = ws.snapshots
BY DEF WorkspaceShape, Visited, SnapshotFields

\* A snapshot taken now is of the strategy the node has now.
LEMMA SnapshotFacts ==
  ASSUME NEW w, WorkspaceShape(w), NEW n
  PROVE  LET v == GetStrategySnapshot(w, n)
         IN  /\ WorkspaceShape(v)
             /\ DOMAIN v.snapshots = DOMAIN w.snapshots \union {n.key}
             /\ \A k \in DOMAIN w.snapshots : v.snapshots[k] = w.snapshots[k]
             /\ n.key \notin DOMAIN w.snapshots =>
                  v.snapshots[n.key].strategy = StoreWith(n)[n.key]
<1>1. CASE n.key \in DOMAIN w.snapshots
  BY <1>1 DEF GetStrategySnapshot
<1>2. CASE n.key \notin DOMAIN w.snapshots
  <2> DEFINE more == With(w.snapshots, n.key, Snapshot(n))
  <2>1. GetStrategySnapshot(w, n) = [w EXCEPT !.snapshots = more]
    BY <1>2 DEF GetStrategySnapshot
  <2>2. /\ DOMAIN more = DOMAIN w.snapshots \union {n.key}
        /\ \A k \in DOMAIN w.snapshots : more[k] = w.snapshots[k]
        /\ more[n.key] = Snapshot(n)
    BY <1>2 DEF With
  <2>3. DOMAIN Snapshot(n) = SnapshotFields /\ Snapshot(n).strategy = StoreWith(n)[n.key]
    BY DEF SnapshotFields, Snapshot
  <2> HIDE DEF more
  <2> QED BY <2>1, <2>2, <2>3 DEF WorkspaceShape
<1> QED BY <1>1, <1>2

\* The step that reads a node keeps the history, whatever is recorded on top.
LEMMA ReadKeepsHistory ==
  ASSUME Inv, pc = "branch", NEW n, ReadNode(n),
         LET w == GetStrategySnapshot(Visited, n)
         IN  WorkspaceShape(ws') /\ SameStrategies(w, ws')
  PROVE  /\ DOMAIN seen' = DOMAIN store'
         /\ \A k \in DOMAIN store' : store'[k] \in seen'[k]
         /\ \A k \in DOMAIN ws'.snapshots :
               k \in DOMAIN seen' /\ ws'.snapshots[k].strategy \in seen'[k]
<1> DEFINE w == GetStrategySnapshot(Visited, n)
<1>1. /\ DOMAIN seen = DOMAIN store
      /\ \A k \in DOMAIN store : store[k] \in seen[k]
      /\ \A k \in DOMAIN ws.snapshots : k \in DOMAIN seen /\ ws.snapshots[k].strategy \in seen[k]
  BY DEF Inv, History
<1>2. /\ DOMAIN w.snapshots = DOMAIN ws.snapshots \union {n.key}
      /\ \A k \in DOMAIN ws.snapshots : w.snapshots[k] = ws.snapshots[k]
      /\ n.key \notin DOMAIN ws.snapshots => w.snapshots[n.key].strategy = store'[n.key]
  <2>1. WorkspaceShape(Visited) /\ Visited.snapshots = ws.snapshots
    BY VisitedFacts DEF Inv
  <2>2. /\ DOMAIN w.snapshots = DOMAIN Visited.snapshots \union {n.key}
        /\ \A k \in DOMAIN Visited.snapshots : w.snapshots[k] = Visited.snapshots[k]
        /\ n.key \notin DOMAIN Visited.snapshots =>
             w.snapshots[n.key].strategy = StoreWith(n)[n.key]
    BY <2>1, SnapshotFacts
  <2>3. store' = StoreWith(n)
    BY DEF ReadNode
  <2> HIDE DEF w
  <2> QED BY <2>1, <2>2, <2>3
<1>3. /\ DOMAIN store' = DOMAIN store \union {n.key}
      /\ \A k \in DOMAIN store : store'[k] = store[k]
  BY DEF ReadNode, StoreWith, With
<1>4. /\ DOMAIN seen' = DOMAIN seen \union {n.key}
      /\ \A k \in DOMAIN seen : seen'[k] = seen[k]
      /\ n.key \notin DOMAIN seen => seen'[n.key] = {store'[n.key]}
  BY DEF ReadNode, With
<1>5. \A k \in DOMAIN store' : store'[k] \in seen'[k]
  BY <1>1, <1>3, <1>4
<1> HIDE DEF w
<1>6. \A k \in DOMAIN w.snapshots : k \in DOMAIN seen' /\ w.snapshots[k].strategy \in seen'[k]
  BY <1>1, <1>2, <1>3, <1>4, <1>5
<1> QED BY <1>1, <1>3, <1>4, <1>5, <1>6 DEF SameStrategies, w

-----------------------------------------------------------------------------
\* The steps of the recursion keep the depth.

\* A recursive call: the state grows by one action, the stack by one frame.
LEMMA EnterFacts ==
  ASSUME Inv, pc = "branch", NEW a, NEW reach, NEW frame, Enter(a, reach, frame),
         UNCHANGED <<caller, successes>>
  PROVE  Shape' /\ Depth' /\ pc' = "branch"
<1>1. IsSeq(state) /\ IsSeq(stack) /\ Len(state) = Len(stack) + 1 /\ Len(state) >= 1 /\ state[1] = 1
  BY DEF Inv, Shape, Depth
<1>2. PICK e : state' = Append(state, e)
  BY DEF Enter, Child
<1>3. stack' = Append(stack, frame) /\ pc' = "branch" /\ ret' = ret
  BY DEF Enter
<1>4. IsSeq(state') /\ Len(state') = Len(state) + 1 /\ state'[1] = 1 /\ Len(state) \in Nat
  BY <1>1, <1>2, AppendFacts
<1>5. IsSeq(stack') /\ Len(stack') = Len(stack) + 1 /\ Len(stack) \in Nat
  BY <1>1, <1>3, AppendFacts
<1>6. Shape'
  BY <1>3, <1>4, <1>5 DEF Inv, Shape
<1>7. Depth'
  BY <1>1, <1>3, <1>4, <1>5 DEF Depth
<1> QED BY <1>3, <1>6, <1>7

\* A return: neither the state nor the stack changes until the caller undoes the action.
LEMMA LeaveFacts ==
  ASSUME Inv, pc = "branch", NEW status, NEW utility, Leave(status, utility),
         status # UndoFailed, UNCHANGED <<caller, successes>>
  PROVE  Shape' /\ Depth' /\ pc' = "return"
<1>1. /\ pc' = "return" /\ ret' = [status |-> status, utility |-> utility]
      /\ UNCHANGED <<state, stack, arg>>
  BY DEF Leave
<1>2. Shape'
  BY <1>1 DEF Inv, Shape
<1>3. Depth'
  BY <1>1 DEF Inv, Depth
<1> QED BY <1>1, <1>2, <1>3

\* What a step that leaves the store and the strategies alone keeps.
LEMMA QuietFacts ==
  ASSUME Inv, pc # "idle", UNCHANGED <<store, seen, caller, total, successes>>,
         WorkspaceShape(ws'), SameStrategies(ws, ws')
  PROVE  WorkspaceShape(ws)' /\ History' /\ Account'
<1>1. History'
  BY DEF Inv, History, SameStrategies
<1>2. Account'
  BY DEF Inv, Account
<1> QED BY <1>1, <1>2

\* What nobody touches stays as it is.
LEMMA SameStrategiesReflexive == \A w : SameStrategies(w, w)
BY DEF SameStrategies

\* The status values differ.
LEMMA Constants ==
  /\ Success # UndoFailed /\ Failed # UndoFailed /\ Invalid # UndoFailed
  /\ Failed # Success /\ Invalid # Success
BY DEF Success, Failed, Invalid, UndoFailed

-----------------------------------------------------------------------------
\* Every action preserves the invariant: the entry of a node first.

\* A call resets the workspace, so that it retains nothing when the history starts.
LEMMA BeginStep == ASSUME Inv, Begin PROVE Inv'
<1>1. /\ pc = "idle" /\ state = Root /\ ws' = ResetWorkspace(ws)
      /\ pc' = "branch" /\ stack' = <<>>
      /\ seen' = [k \in DOMAIN store |-> {store[k]}]
      /\ UNCHANGED <<store, state, ret, caller, total, successes>>
  BY DEF Begin
<1>2. IsSeq(stack') /\ Len(stack') = 0
  <2>1. <<>> \in Seq({})
    OBVIOUS
  <2>2. IsSeq(<<>>)
    BY <2>1, SeqIntro
  <2> QED BY <1>1, <2>2
<1>3. Len(state') = 1
  BY <1>1 DEF Root
<1>4. Shape'
  BY <1>1, <1>2 DEF Inv, Shape
<1>5. DOMAIN ws'.snapshots = {} /\ WorkspaceShape(ws')
  BY <1>1 DEF ResetWorkspace, Inv, WorkspaceShape
<1>6. Depth'
  BY <1>1, <1>2, <1>3 DEF Depth
<1>7. History'
  BY <1>1, <1>5 DEF History
<1>8. Account'
  BY <1>1 DEF Inv, Account
<1> QED BY <1>4, <1>5, <1>6, <1>7, <1>8 DEF Inv

\* A call of the adapter fails: the branch returns, nothing else changes.
LEMMA BranchFailsStep == ASSUME Inv, BranchFails PROVE Inv'
<1>1. /\ pc = "branch" /\ ws' = Visited /\ Leave(Failed, 0)
      /\ UNCHANGED <<caller, total, successes, store, seen>>
  BY DEF BranchFails, outside
<1>2. Shape' /\ Depth'
  BY <1>1, LeaveFacts, Constants
<1>3. WorkspaceShape(ws') /\ SameStrategies(ws, ws')
  BY <1>1, VisitedFacts DEF Inv, SameStrategies
<1> QED BY <1>1, <1>2, <1>3, QuietFacts DEF Inv

\* A terminal node only returns a utility.
LEMMA TerminalNodeStep == ASSUME Inv, TerminalNode PROVE Inv'
<1>1. /\ pc = "branch" /\ ws' = Visited /\ Leave(Success, CurrentPosition.utility[target])
      /\ UNCHANGED <<caller, total, successes, store, seen>>
  BY DEF TerminalNode, outside
<1>2. Shape' /\ Depth'
  BY <1>1, LeaveFacts, Constants
<1>3. WorkspaceShape(ws') /\ SameStrategies(ws, ws')
  BY <1>1, VisitedFacts DEF Inv, SameStrategies
<1> QED BY <1>1, <1>2, <1>3, QuietFacts DEF Inv

\* A node with other actions is refused after the visit is counted.
LEMMA MismatchedNodeStep == ASSUME Inv, MismatchedNode PROVE Inv'
<1>1. /\ pc = "branch" /\ ws' = Visited /\ Leave(Invalid, 0)
      /\ UNCHANGED <<caller, total, successes, store, seen>>
  BY DEF MismatchedNode, outside
<1>2. Shape' /\ Depth'
  BY <1>1, LeaveFacts, Constants
<1>3. WorkspaceShape(ws') /\ SameStrategies(ws, ws')
  BY <1>1, VisitedFacts DEF Inv, SameStrategies
<1> QED BY <1>1, <1>2, <1>3, QuietFacts DEF Inv

\* A chance node draws and recurses; it retains nothing.
LEMMA ChanceNodeStep == ASSUME Inv, ChanceNode PROVE Inv'
<1> DEFINE n == CurrentPosition
<1>1. pc = "branch" /\ UNCHANGED <<caller, total, successes, store, seen>>
  BY DEF ChanceNode, outside
<1>2. \/ Leave(Invalid, 0) /\ ws' = Visited
      \/ \E d \in 0..Draws - 1 :
           /\ ws' = [Visited EXCEPT !.rng = @ + 1]
           /\ \/ Enter(SampleIndex(n.weight, d), arg, [kind |-> "chance"])
              \/ Leave(Failed, 0)
  BY DEF ChanceNode
<1>3. Shape' /\ Depth'
  BY <1>1, <1>2, EnterFacts, LeaveFacts, Constants
<1>4. WorkspaceShape(Visited) /\ SameStrategies(ws, Visited)
  BY VisitedFacts DEF Inv, SameStrategies
<1>5. WorkspaceShape([Visited EXCEPT !.rng = @ + 1])
      /\ SameStrategies(ws, [Visited EXCEPT !.rng = @ + 1])
  BY <1>4 DEF WorkspaceShape, SameStrategies
<1>6. WorkspaceShape(ws') /\ SameStrategies(ws, ws')
  BY <1>2, <1>4, <1>5
<1> QED BY <1>1, <1>3, <1>6, QuietFacts DEF Inv

-----------------------------------------------------------------------------
\* The nodes of the players.

\* A step that reads a node keeps the invariant when it records nothing but deltas.
LEMMA ReadStep ==
  ASSUME Inv, pc = "branch", NEW n, ReadNode(n), NEW w, w = GetStrategySnapshot(Visited, n),
         WorkspaceShape(ws'), SameStrategies(w, ws'), Shape', Depth',
         UNCHANGED <<caller, total, successes>>
  PROVE  Inv'
<1>1. History'
  BY ReadKeepsHistory DEF History
<1>2. Account'
  BY DEF Inv, Account
<1> QED BY <1>1, <1>2 DEF Inv

\* Reading a node leaves a workspace.
LEMMA ReadShape ==
  ASSUME Inv, NEW n
  PROVE  WorkspaceShape(GetStrategySnapshot(Visited, n))
BY VisitedFacts, SnapshotFacts DEF Inv

\* A node of the target player retains a strategy and enters its first action.
LEMMA TargetNodeStep == ASSUME Inv, TargetNode PROVE Inv'
<1> DEFINE n == CurrentPosition
           w == GetStrategySnapshot(Visited, n)
           p == w.snapshots[n.key].strategy
           frame == [kind |-> "target", key |-> n.key, reach |-> arg, utilities |-> <<>>]
<1>1. /\ pc = "branch" /\ ReadNode(n) /\ ws' = w
      /\ Enter(1, (arg * p[1]) \div Scale, frame) \/ Leave(Failed, 0)
      /\ UNCHANGED <<caller, total, successes>>
  BY DEF TargetNode, outside, PlayerNodeReady
<1> HIDE DEF p, frame
<1>2. Shape' /\ Depth'
  BY <1>1, EnterFacts, LeaveFacts, Constants
<1>3. WorkspaceShape(ws') /\ SameStrategies(w, ws')
  BY <1>1, ReadShape, SameStrategiesReflexive
<1> QED BY <1>1, <1>2, <1>3, ReadStep

\* An opponent's node retains a strategy, samples once and enters.
LEMMA OpponentNodeStep == ASSUME Inv, OpponentNode PROVE Inv'
<1> DEFINE n == CurrentPosition
           w == GetStrategySnapshot(Visited, n)
           V(a, r) == [w EXCEPT !.snapshots[n.key].sampled = a, !.rng = r]
<1>1. /\ pc = "branch" /\ ReadNode(n)
      /\ UNCHANGED <<caller, total, successes>>
  BY DEF OpponentNode, outside, PlayerNodeReady
<1>2. \E a, r : /\ ws' \in {V(a, r), RecordSampledStrategy(V(a, r), n.key, Unit)}
                /\ Enter(a, arg, [kind |-> "opponent"]) \/ Leave(Failed, 0)
  <2> DEFINE fresh == w.snapshots[n.key].sampled = 0
             A(d) == IF fresh THEN SampleIndex(w.snapshots[n.key].strategy, d)
                     ELSE w.snapshots[n.key].sampled
             R == IF fresh THEN w.rng + 1 ELSE w.rng
  <2>1. PICK d \in IF fresh THEN 0..Draws - 1 ELSE {0} :
          /\ ws' = IF game.players <= 2 THEN RecordSampledStrategy(V(A(d), R), n.key, Unit)
                   ELSE V(A(d), R)
          /\ Enter(A(d), arg, [kind |-> "opponent"]) \/ Leave(Failed, 0)
    BY DEF OpponentNode
  <2> HIDE DEF V, A, R
  <2> QED BY <2>1
<1>3. PICK a, r : /\ ws' \in {V(a, r), RecordSampledStrategy(V(a, r), n.key, Unit)}
                  /\ Enter(a, arg, [kind |-> "opponent"]) \/ Leave(Failed, 0)
  BY <1>2
<1>4. Shape' /\ Depth'
  BY <1>1, <1>3, EnterFacts, LeaveFacts, Constants
<1>5. WorkspaceShape(w)
  BY ReadShape
<1> HIDE DEF w
<1>6. WorkspaceShape(V(a, r)) /\ SameStrategies(w, V(a, r))
  BY <1>5 DEF WorkspaceShape, SameStrategies, SnapshotFields
<1> DEFINE v == V(a, r)
<1> HIDE DEF V
<1>7. PICK x, y : RecordSampledStrategy(v, n.key, Unit) = AddToEntry(v, n.key, x, y)
  BY DEF RecordSampledStrategy
<1>8. WorkspaceShape(AddToEntry(v, n.key, x, y)) /\ SameStrategies(v, AddToEntry(v, n.key, x, y))
  BY <1>6, AddToEntryFacts
<1> HIDE DEF v
<1>9. WorkspaceShape(ws') /\ SameStrategies(w, ws')
  BY <1>3, <1>6, <1>7, <1>8 DEF SameStrategies, v
<1> QED BY <1>1, <1>4, <1>9, ReadStep DEF w

\* In the average pass a node retains a strategy, adds it and enters a uniform action.
LEMMA AverageNodeStep == ASSUME Inv, AverageNode PROVE Inv'
<1> DEFINE n == CurrentPosition
           w == GetStrategySnapshot(Visited, n)
           u == RecordSampledStrategy(w, n.key, arg)
<1>1. /\ pc = "branch" /\ ReadNode(n)
      /\ UNCHANGED <<caller, total, successes>>
  BY DEF AverageNode, outside, PlayerNodeReady
<1>2. PICK v : v \in {w, u} /\ ws' = [v EXCEPT !.rng = @ + 1]
  BY DEF AverageNode
<1>3. \/ Leave(Success, 0) \/ Leave(Failed, 0)
      \/ \E a, reach : Enter(a, reach, [kind |-> "average"])
  BY DEF AverageNode
<1>4. Shape' /\ Depth'
  BY <1>1, <1>3, EnterFacts, LeaveFacts, Constants
<1>5. WorkspaceShape(w)
  BY ReadShape
<1> HIDE DEF w
<1>6. PICK x, y : u = AddToEntry(w, n.key, x, y)
  BY DEF RecordSampledStrategy
<1> HIDE DEF u
<1>7. WorkspaceShape(v) /\ SameStrategies(w, v)
  BY <1>2, <1>5, <1>6, AddToEntryFacts, SameStrategiesReflexive
<1>8. WorkspaceShape(ws') /\ SameStrategies(w, ws')
  BY <1>2, <1>7 DEF WorkspaceShape, SameStrategies
<1> QED BY <1>1, <1>4, <1>8, ReadStep DEF w

-----------------------------------------------------------------------------
\* The way back.

\* Replacing an element of a sequence keeps it one of the same length.
LEMMA ExceptFacts ==
  ASSUME NEW s, IsSeq(s), NEW i, NEW e
  PROVE  IsSeq([s EXCEPT ![i] = e]) /\ Len([s EXCEPT ![i] = e]) = Len(s)
<1> DEFINE S == {s[j] : j \in DOMAIN s} \union {e}
           t == [s EXCEPT ![i] = e]
<1>1. Len(s) \in Nat /\ s \in [1..Len(s) -> {s[j] : j \in DOMAIN s}]
  <2>1. s \in Seq({s[j] : j \in DOMAIN s})
    BY DEF IsSeq
  <2> QED BY <2>1
<1>2. t \in [1..Len(s) -> S]
  BY <1>1
<1>3. t \in Seq(S) /\ Len(t) = Len(s)
  BY <1>1, <1>2
<1> QED BY <1>3, SeqIntro

\* An undo that fails leaves the state below the root, and says so to the end.
LEMMA UndoFailsStep == ASSUME Inv, UndoFails PROVE Inv'
<1>1. /\ pc = "return" /\ stack # <<>> /\ stack' = Front(stack)
      /\ ret' = [status |-> UndoFailed, utility |-> 0]
      /\ UNCHANGED <<caller, total, successes, store, state, pc, ws, seen>>
  BY DEF UndoFails, outside
<1>2. IsSeq(stack') /\ Len(stack) \in Nat /\ Len(stack') = Len(stack) - 1
  BY <1>1, FrontFacts DEF Inv, Shape
<1>3. Shape'
  BY <1>1, <1>2 DEF Inv, Shape
<1>4. Len(state) \in Nat /\ Len(state) > Len(stack)
  BY <1>1, <1>2, AppendFacts DEF Inv, Shape, Depth
<1>5. Depth'
  BY <1>1, <1>2, <1>4 DEF Depth
<1>6. WorkspaceShape(ws') /\ SameStrategies(ws, ws')
  BY <1>1 DEF Inv, SameStrategies
<1> QED BY <1>1, <1>3, <1>5, <1>6, QuietFacts DEF Inv

\* Where one action is undone and one frame removed, the depths stay apart as they were.
LEMMA BackFacts ==
  ASSUME Inv, pc = "return", stack # <<>>, state' = Front(state), stack' = Front(stack),
         UNCHANGED <<pc, caller, successes>>, DOMAIN ret' = {"status", "utility"},
         (ret'.status = UndoFailed) = (ret.status = UndoFailed)
  PROVE  Shape' /\ Depth'
<1>1. IsSeq(stack') /\ Len(stack) \in Nat \ {0} /\ Len(stack') = Len(stack) - 1
  BY FrontFacts DEF Inv, Shape
<1>2. /\ Len(state) \in Nat
      /\ IF ret.status = UndoFailed THEN Len(state) > Len(stack) + 1
         ELSE Len(state) = Len(stack) + 1
  BY AppendFacts DEF Inv, Shape, Depth
<1>3. state # <<>> /\ Len(state) > 1
  BY <1>1, <1>2
<1>4. IsSeq(state') /\ Len(state') = Len(state) - 1 /\ state'[1] = state[1]
  <2>1. IsSeq(state)
    BY DEF Inv, Shape
  <2>2. /\ IsSeq(Front(state)) /\ Len(Front(state)) = Len(state) - 1
        /\ \A i \in 1..(Len(state) - 1) : Front(state)[i] = state[i]
    BY <1>3, <2>1, FrontFacts
  <2>3. 1 \in 1..(Len(state) - 1)
    BY <1>2, <1>3
  <2> QED BY <2>2, <2>3
<1>5. Shape'
  BY <1>1, <1>2, <1>3, <1>4 DEF Inv, Shape
<1>6. Depth'
  BY <1>1, <1>2, <1>4 DEF Depth
<1> QED BY <1>5, <1>6

\* A return through a frame without alternatives undoes one action.
LEMMA PopFrameStep == ASSUME Inv, PopFrame PROVE Inv'
<1>1. /\ pc = "return" /\ stack # <<>> /\ state' = Front(state) /\ stack' = Front(stack)
      /\ \E u : ret' = [ret EXCEPT !.utility = u]
      /\ UNCHANGED <<caller, total, successes, store, pc, ws, seen>>
  BY DEF PopFrame, outside
<1>2. DOMAIN ret' = {"status", "utility"} /\ ret'.status = ret.status
  BY <1>1 DEF Inv, Shape
<1>3. Shape' /\ Depth'
  BY <1>1, <1>2, BackFacts
<1>4. WorkspaceShape(ws') /\ SameStrategies(ws, ws')
  BY <1>1 DEF Inv, SameStrategies
<1> QED BY <1>1, <1>3, <1>4, QuietFacts DEF Inv

\* A return to the target player's node: the next action, or the regrets.
LEMMA TargetReturnStep == ASSUME Inv, TargetReturn PROVE Inv'
<1> DEFINE above == Front(state)
<1>1. /\ pc = "return" /\ stack # <<>> /\ ret.status = Success
      /\ UNCHANGED <<caller, total, successes, store, seen>>
  BY DEF TargetReturn, outside
<1>2. ret.status # UndoFailed /\ Success # UndoFailed /\ Failed # UndoFailed
  BY <1>1, Constants
<1>3. CASE \E a, e : /\ state' = Child(game, above, a) /\ stack' = [stack EXCEPT ![Len(stack)] = e]
                     /\ pc' = "branch" /\ UNCHANGED <<ret, ws>>
  <2>1. PICK x, e : /\ state' = Append(above, x) /\ stack' = [stack EXCEPT ![Len(stack)] = e]
                    /\ pc' = "branch" /\ UNCHANGED <<ret, ws>>
    BY <1>3 DEF Child
  <2>2. IsSeq(stack') /\ Len(stack') = Len(stack)
    BY <2>1, ExceptFacts DEF Inv, Shape
  <2>3. Len(stack) \in Nat \ {0}
    BY <1>1, FrontFacts DEF Inv, Shape
  <2>4. Len(state) = Len(stack) + 1 /\ state # <<>>
    BY <1>1, <1>2, <2>3 DEF Inv, Depth
  <2>5. IsSeq(above) /\ Len(above) = Len(state) - 1 /\ above[1] = state[1]
    <3>1. IsSeq(state) /\ state # <<>>
      BY <2>4 DEF Inv, Shape
    <3>2. /\ IsSeq(Front(state)) /\ Len(Front(state)) = Len(state) - 1
          /\ \A i \in 1..(Len(state) - 1) : Front(state)[i] = state[i]
      BY <3>1, FrontFacts
    <3>3. 1 \in 1..(Len(state) - 1)
      BY <2>3, <2>4
    <3> QED BY <3>2, <3>3
  <2>6. IsSeq(state') /\ Len(state') = Len(above) + 1 /\ state'[1] = above[1]
    BY <2>1, <2>3, <2>4, <2>5, AppendFacts
  <2>7. Shape'
    BY <1>1, <2>1, <2>2, <2>3, <2>4, <2>5, <2>6 DEF Inv, Shape
  <2>8. Depth'
    BY <2>1, <2>2, <2>3, <2>4, <2>5, <2>6 DEF Depth
  <2>9. WorkspaceShape(ws') /\ SameStrategies(ws, ws')
    BY <2>1 DEF Inv, SameStrategies
  <2> QED BY <1>1, <2>7, <2>8, <2>9, QuietFacts DEF Inv
<1>4. CASE /\ state' = above /\ stack' = Front(stack) /\ UNCHANGED pc
           /\ \E s \in {Success, Failed} : \E u : ret' = [status |-> s, utility |-> u]
           /\ \/ UNCHANGED ws
              \/ \E key, x, y : ws' = AddToEntry(ws, key, x, y)
  <2>1. DOMAIN ret' = {"status", "utility"} /\ ret'.status # UndoFailed
    BY <1>2, <1>4
  <2>2. Shape' /\ Depth'
    BY <1>1, <1>2, <1>4, <2>1, BackFacts
  <2>3. WorkspaceShape(ws') /\ SameStrategies(ws, ws')
    BY <1>4, AddToEntryFacts, SameStrategiesReflexive DEF Inv
  <2> QED BY <1>1, <2>2, <2>3, QuietFacts DEF Inv
<1>5. QED
  <2> DEFINE frame == Last(stack)
             p == ws.snapshots[frame.key].strategy
             utilities == Append(frame.utilities, ret.utility)
             a == Len(utilities) + 1
             nodeUtility == SumFunction([b \in DOMAIN utilities |-> p[b] * utilities[b]]) \div Scale
  <2>1. \/ /\ state' = Child(game, above, a) /\ pc' = "branch" /\ UNCHANGED <<ret, ws>>
           /\ stack' = [stack EXCEPT ![Len(stack)].utilities = utilities]
        \/ /\ state' = above /\ stack' = Front(stack) /\ UNCHANGED <<pc, ws>>
           /\ ret' = [status |-> Failed, utility |-> 0]
        \/ /\ state' = above /\ stack' = Front(stack) /\ UNCHANGED pc
           /\ ret' = [status |-> Success, utility |-> nodeUtility]
           /\ ws' = RecordTargetDeltas(ws, frame.key, utilities, nodeUtility, frame.reach)
    BY DEF TargetReturn
  <2> HIDE DEF above, utilities, nodeUtility, a, frame
  <2>2. \E key, x, y : RecordTargetDeltas(ws, frame.key, utilities, nodeUtility, frame.reach)
                         = AddToEntry(ws, key, x, y)
    BY DEF RecordTargetDeltas
  <2>3. \E e : [stack EXCEPT ![Len(stack)].utilities = utilities] = [stack EXCEPT ![Len(stack)] = e]
    OBVIOUS
  <2> QED BY <1>3, <1>4, <2>1, <2>2, <2>3

-----------------------------------------------------------------------------
\* The end of a call, and the other workers.

\* What the depth is once every frame is gone.
LEMMA EmptyStack ==
  ASSUME Inv, stack = <<>>
  PROVE  Len(stack) = 0 /\ Len(state) \in Nat /\ Len(state) >= 1
BY AppendFacts DEF Inv, Shape

\* The first pass ends at the root and the average pass begins there.
LEMMA EndPassStep == ASSUME Inv, EndPass PROVE Inv'
<1>1. /\ pc = "return" /\ stack = <<>> /\ ret.status = Success /\ pc' \in {"branch", "commit"}
      /\ \E f, u : ws' \in {ws, [ws EXCEPT !.averageOnly = f, !.utility = u],
                              [ws EXCEPT !.utility = u]}
      /\ UNCHANGED <<caller, total, successes, store, state, stack, ret, seen>>
  BY DEF EndPass, outside
<1>2. Len(state) = Len(stack) + 1
  BY <1>1, Constants DEF Inv, Depth
<1>3. Shape' /\ Depth'
  BY <1>1, <1>2 DEF Inv, Shape, Depth
<1>4. WorkspaceShape(ws') /\ SameStrategies(ws, ws')
  BY <1>1 DEF Inv, SameStrategies, WorkspaceShape
<1> QED BY <1>1, <1>3, <1>4, QuietFacts DEF Inv

\* A call that ends in an error leaves what the caller owns, except the status.
LEMMA FinishFacts ==
  ASSUME Inv, NEW status, FinishWithError(status), status = UndoFailed <=> Len(state) > 1
  PROVE  Inv'
<1>1. /\ pc' = "idle" /\ caller' = [caller EXCEPT !.status = status]
      /\ UNCHANGED <<total, successes, store, state, stack, ret, ws, seen>>
  BY DEF FinishWithError, OutputsAfterError
<1>2. caller'.status = status /\ caller'.rng = caller.rng /\ DOMAIN caller' = DOMAIN caller
  BY <1>1 DEF Inv, Shape
<1>3. Shape' /\ Depth' /\ WorkspaceShape(ws')
  BY <1>1, <1>2 DEF Inv, Shape, Depth
<1>4. History' /\ Account'
  BY <1>1, <1>2 DEF Inv, History, Account
<1> QED BY <1>1, <1>3, <1>4 DEF Inv

\* The traversal ends in an error.
LEMMA EndWithErrorStep == ASSUME Inv, EndWithError PROVE Inv'
<1>1. pc = "return" /\ stack = <<>> /\ FinishWithError(ret.status)
  BY DEF EndWithError
<1>2. ret.status = UndoFailed <=> Len(state) > 1
  <2>1. Len(stack) = 0 /\ Len(state) \in Nat
    BY <1>1, EmptyStack
  <2>2. IF ret.status = UndoFailed THEN Len(state) > 0 + 1 ELSE Len(state) = 0 + 1
    BY <1>1, <2>1 DEF Inv, Depth
  <2>3. \A k \in Nat : (k > 0 + 1 <=> k > 1) /\ (k = 0 + 1 => ~(k > 1))
    OBVIOUS
  <2> QED BY <2>1, <2>2, <2>3, Zenon
<1> QED BY <1>1, <1>2, FinishFacts

\* The commit is refused: it has changed no node.
LEMMA CommitFailsStep == ASSUME Inv, CommitFails PROVE Inv'
<1>1. pc = "commit" /\ FinishWithError(Failed) /\ stack = <<>>
  BY DEF CommitFails, Inv, Depth
<1>2. Failed = UndoFailed <=> Len(state) > 1
  <2>1. Len(stack) = 0 /\ Len(state) \in Nat
    BY <1>1, EmptyStack
  <2>2. Len(state) = 0 + 1
    BY <1>1, <2>1 DEF Inv, Depth
  <2> QED BY <2>1, <2>2, Constants
<1> QED BY <1>1, <1>2, FinishFacts

\* The commit succeeds: sums and caller's outputs move together.
LEMMA CommitStep == ASSUME Inv, Commit PROVE Inv'
<1> DEFINE s == [from |-> caller.rng, to |-> ws.rng, deltas |-> Deltas, sum |-> total']
<1>1. /\ pc = "commit" /\ pc' = "idle" /\ total' = Sum(total, Deltas)
      /\ caller' = [rng |-> ws.rng, utility |-> ws.utility, visited |-> ws.visits, status |-> Success]
      /\ successes' = Append(successes, s)
      /\ UNCHANGED <<state, stack, ret, ws>>
  BY DEF Commit
<1>2. stack = <<>> /\ Len(state) = 1
  BY <1>1, EmptyStack DEF Inv, Depth
<1>3. /\ IsSeq(successes') /\ Len(successes) \in Nat /\ Len(successes') = Len(successes) + 1
      /\ DOMAIN successes = 1..Len(successes) /\ DOMAIN successes' = 1..(Len(successes) + 1)
      /\ successes'[Len(successes) + 1] = s
      /\ \A i \in 1..Len(successes) : successes'[i] = successes[i]
  BY <1>1, AppendFacts DEF Inv, Shape
<1>4. Shape'
  BY <1>1, <1>3 DEF Inv, Shape
<1>5. Depth'
  BY <1>1, <1>2, Constants DEF Depth
<1>6. History' /\ WorkspaceShape(ws')
  BY <1>1 DEF History, Inv
<1>7. Account'
  <2>1. successes # <<>> => Len(successes) # 0
    BY <1>3, FrontFacts DEF Inv, Shape
  <2>2. successes = <<>> => Len(successes) = 0
    OBVIOUS
  <2>3. successes' # <<>> /\ Last(successes') = s
    <3>1. Len(successes') # 0 /\ Last(successes') = s
      BY <1>3 DEF Last
    <3> QED BY <3>1
  <2>4. s.from = (IF successes = <<>> THEN 0 ELSE successes[Len(successes)].to)
        /\ s.sum = Sum(IF successes = <<>> THEN <<>> ELSE successes[Len(successes)].sum, s.deltas)
    BY <1>1 DEF Inv, Account, Last
  <2>5. caller'.rng = s.to /\ total' = s.sum
    BY <1>1
  <2> HIDE DEF s
  <2>6. ASSUME NEW i \in DOMAIN successes'
        PROVE  /\ successes'[i].from = IF i = 1 THEN 0 ELSE successes'[i - 1].to
               /\ successes'[i].sum = Sum(IF i = 1 THEN <<>> ELSE successes'[i - 1].sum,
                                          successes'[i].deltas)
    <3>1. CASE i = Len(successes) + 1
      <4>1. CASE successes = <<>>
        BY <1>3, <2>2, <2>4, <3>1, <4>1
      <4>2. CASE successes # <<>>
        <5>1. i # 1 /\ i - 1 = Len(successes) /\ successes'[i - 1] = successes[Len(successes)]
          BY <1>3, <2>1, <3>1, <4>2
        <5> QED BY <1>3, <2>4, <3>1, <4>2, <5>1
      <4> QED BY <4>1, <4>2
    <3>2. CASE i # Len(successes) + 1
      <4>1. i \in DOMAIN successes /\ successes'[i] = successes[i]
        BY <1>3, <3>2
      <4>2. i # 1 => successes'[i - 1] = successes[i - 1]
        BY <1>3, <4>1
      <4> QED BY <4>1, <4>2 DEF Inv, Account
    <3> QED BY <3>1, <3>2
  <2> QED BY <2>3, <2>5, <2>6 DEF Account
<1> QED BY <1>4, <1>5, <1>6, <1>7 DEF Inv

\* Another worker changes a node: what was retained is still one of the strategies seen.
LEMMA OthersCommitStep == ASSUME Inv, OthersCommit PROVE Inv'
<1>1. PICK k \in DOMAIN store, v \in Vectors :
        /\ store' = [store EXCEPT ![k] = v]
        /\ seen' = [seen EXCEPT ![k] = @ \union {v}]
  BY DEF OthersCommit
<1>2. pc # "idle" /\ UNCHANGED <<caller, total, successes, state, pc, stack, ret, ws>>
  BY DEF OthersCommit, outside, control
<1>3. /\ DOMAIN seen = DOMAIN store
      /\ \A l \in DOMAIN store : store[l] \in seen[l]
      /\ \A l \in DOMAIN ws.snapshots : l \in DOMAIN seen /\ ws.snapshots[l].strategy \in seen[l]
  BY <1>2 DEF Inv, History
<1>4. DOMAIN store' = DOMAIN store /\ DOMAIN seen' = DOMAIN seen
  BY <1>1
<1>5. \A l \in DOMAIN store' : store'[l] \in seen'[l]
  BY <1>1, <1>3
<1>6. \A l \in DOMAIN seen : seen[l] \subseteq seen'[l]
  BY <1>1
<1>7. History'
  BY <1>2, <1>3, <1>4, <1>5, <1>6 DEF History
<1>8. Shape' /\ Depth' /\ WorkspaceShape(ws') /\ Account'
  BY <1>2 DEF Inv, Shape, Depth, Account
<1> QED BY <1>7, <1>8 DEF Inv

-----------------------------------------------------------------------------
\* The invariant holds before the first call.
LEMMA InitInv == Init => Inv
<1> SUFFICES ASSUME Init PROVE Inv
  OBVIOUS
<1>1. <<>> \in Seq({}) /\ Root \in Seq({1})
  BY DEF Root
<1>2. IsSeq(<<>>) /\ IsSeq(Root)
  BY <1>1, SeqIntro
<1>3. Len(Root) = 1 /\ Root[1] = 1
  BY DEF Root
<1>4. Shape
  BY <1>2, <1>3 DEF Init, Shape
<1>5. WorkspaceShape(ws) /\ History
  BY DEF Init, WorkspaceShape, History
<1>6. Depth
  BY <1>3, Constants DEF Init, Depth
<1>7. Account
  BY DEF Init, Account
<1> QED BY <1>4, <1>5, <1>6, <1>7 DEF Inv

\* Every step preserves it.
LEMMA NextInv == Inv /\ [Next]_vars => Inv'
<1> SUFFICES ASSUME Inv, [Next]_vars PROVE Inv'
  OBVIOUS
<1>1. CASE UNCHANGED vars
  BY <1>1 DEF vars, Inv, Shape, WorkspaceShape, Depth, History, Account
<1>2. CASE Finished
  BY <1>1, <1>2 DEF Finished
<1> QED
  BY <1>1, <1>2, BeginStep, BranchFailsStep, TerminalNodeStep, ChanceNodeStep,
     MismatchedNodeStep, TargetNodeStep, OpponentNodeStep, AverageNodeStep, UndoFailsStep,
     PopFrameStep, TargetReturnStep, EndPassStep, EndWithErrorStep, CommitFailsStep,
     CommitStep, OthersCommitStep DEF Next

\* It is an invariant of the specification.
LEMMA InvAlways == Spec => []Inv
BY InitInv, NextInv, PTL DEF Spec

\* A strategy the traversal uses is one its node had since the call began, whatever
\* other workers commit and whatever fails.
THEOREM SnapshotsAreFresh == Spec => []SnapshotIsFresh
<1>1. Inv => SnapshotIsFresh
  BY DEF Inv, History, SnapshotIsFresh
<1> QED BY <1>1, InvAlways, PTL

\* What reached the nodes and the random stream are the successful calls, and the
\* game state is back at the root unless an undo failed.
THEOREM OnlySuccessesLeaveTraces == Spec => []OnlySuccessesCount
<1>1. Inv => OnlySuccessesCount
  <2> SUFFICES ASSUME Inv PROVE OnlySuccessesCount
    OBVIOUS
  <2>1. ASSUME pc = "idle", caller.status # UndoFailed PROVE state = Root
    <3>1. /\ state \in [1..Len(state) -> {state[i] : i \in DOMAIN state}] /\ Len(state) \in Nat
          /\ Len(state) >= 1 /\ ~(Len(state) > 1) /\ state[1] = 1
      <4>1. state \in Seq({state[i] : i \in DOMAIN state})
        BY DEF Inv, Shape, IsSeq
      <4>2. state \in [1..Len(state) -> {state[i] : i \in DOMAIN state}] /\ Len(state) \in Nat
        BY <4>1
      <4> QED BY <2>1, <4>2 DEF Inv, Shape, Depth
    <3>2. Len(state) = 1
      BY <3>1
    <3>3. state = [i \in 1..1 |-> 1]
      BY <3>1, <3>2
    <3> QED BY <3>3 DEF Root
  <2>2. pc = "idle" => IF caller.status = UndoFailed THEN Len(state) > 1 ELSE state = Root
    BY <2>1 DEF Inv, Depth
  <2> QED BY <2>2 DEF Inv, Account, OnlySuccessesCount
<1> QED BY <1>1, InvAlways, PTL

\* What the caller guarantees: weights that are not negative, one of them positive, and
\* a draw for each positive one.
Distribution(p) ==
  /\ p \in Seq(Nat) /\ Draws \in Nat
  /\ Positive(p) # {} /\ Cardinality(Positive(p)) <= Draws

\* The positive actions after a.
LaterThan(p, a) == {b \in Positive(p) : b > a}

-----------------------------------------------------------------------------
\* Division.

\* The quotient of natural numbers is the largest multiple not above.
LEMMA Division ==
  ASSUME NEW x \in Nat, NEW t \in Nat \ {0}
  PROVE  x \div t \in Nat /\ (x \div t) * t <= x /\ x < (x \div t) * t + t
OBVIOUS

\* A numerator that grows by the divisor grows the quotient by one.
LEMMA DivisionSteps ==
  ASSUME NEW x \in Nat, NEW y \in Nat, NEW t \in Nat \ {0}, x + t <= y
  PROVE  x \div t + 1 <= y \div t
BY Division

-----------------------------------------------------------------------------
\* The positive actions.

\* They are a finite set of the indices.
LEMMA PositiveFacts ==
  ASSUME NEW p, Distribution(p)
  PROVE  /\ Len(p) \in Nat \ {0} /\ DOMAIN p = 1..Len(p) /\ p \in [1..Len(p) -> Nat]
         /\ Positive(p) \subseteq 1..Len(p) /\ IsFiniteSet(Positive(p))
<1>1. Len(p) \in Nat /\ DOMAIN p = 1..Len(p) /\ p \in [1..Len(p) -> Nat]
  BY DEF Distribution
<1>2. Positive(p) \subseteq 1..Len(p)
  BY <1>1 DEF Positive
<1>3. IsFiniteSet(1..Len(p))
  BY <1>1, FS_Interval
<1>4. IsFiniteSet(Positive(p))
  BY <1>2, <1>3, FS_Subset
<1>5. Len(p) # 0
  BY <1>1, <1>2 DEF Distribution
<1> QED BY <1>1, <1>2, <1>4, <1>5

\* Past a positive action there is one fewer.
LEMMA LaterFacts ==
  ASSUME NEW p, Distribution(p), NEW a \in 0..Len(p)
  PROVE  /\ IsFiniteSet(LaterThan(p, a)) /\ Cardinality(LaterThan(p, a)) \in Nat
         /\ Cardinality(LaterThan(p, a)) <= Draws
         /\ Limit(p, a) = Draws - Cardinality(LaterThan(p, a))
         /\ Limit(p, a) \in Nat
         /\ LaterThan(p, a) # {} => Limit(p, a) <= Draws - 1
         /\ a # 0 /\ a \notin Positive(p) => Limit(p, a) = Limit(p, a - 1)
         /\ a # 0 /\ a \in Positive(p) => Limit(p, a) = Limit(p, a - 1) + 1
<1>1. ASSUME NEW b \in 0..Len(p)
      PROVE  /\ IsFiniteSet(LaterThan(p, b)) /\ Cardinality(LaterThan(p, b)) \in Nat
             /\ Cardinality(LaterThan(p, b)) <= Draws
             /\ LaterThan(p, b) # {} => Cardinality(LaterThan(p, b)) # 0
             /\ Limit(p, b) = Draws - Cardinality(LaterThan(p, b))
  <2>1. LaterThan(p, b) \subseteq Positive(p)
    BY DEF LaterThan
  <2>2. IsFiniteSet(LaterThan(p, b))
    BY <2>1, PositiveFacts, FS_Subset
  <2>3. Cardinality(LaterThan(p, b)) \in Nat
    BY <2>2, FS_CardinalityType
  <2>4. Cardinality(LaterThan(p, b)) <= Cardinality(Positive(p)) /\ Cardinality(Positive(p)) \in Nat
    BY <2>1, PositiveFacts, FS_Subset, FS_CardinalityType
  <2>5. LaterThan(p, b) # {} => Cardinality(LaterThan(p, b)) # 0
    BY <2>2, FS_EmptySet
  <2>6. Limit(p, b) = Draws - Cardinality(LaterThan(p, b))
    BY DEF Limit, LaterThan
  <2> QED BY <2>2, <2>3, <2>4, <2>5, <2>6 DEF Distribution
<1>2. Draws \in Nat
  BY DEF Distribution
<1>3. ASSUME a # 0, a \notin Positive(p) PROVE Limit(p, a) = Limit(p, a - 1)
  <2>1. a - 1 \in 0..Len(p)
    BY <1>3, PositiveFacts
  <2>2. LaterThan(p, a) = LaterThan(p, a - 1)
    BY <1>3, <2>1, PositiveFacts DEF LaterThan
  <2> QED BY <1>1, <2>1, <2>2
<1>4. ASSUME a # 0, a \in Positive(p) PROVE Limit(p, a) = Limit(p, a - 1) + 1
  <2>1. a - 1 \in 0..Len(p)
    BY <1>4, PositiveFacts
  <2>2. LaterThan(p, a - 1) = LaterThan(p, a) \union {a} /\ a \notin LaterThan(p, a)
    BY <1>4, <2>1, PositiveFacts DEF LaterThan
  <2>3. Cardinality(LaterThan(p, a - 1)) = Cardinality(LaterThan(p, a)) + 1
    BY <1>1, <2>2, FS_AddElement
  <2>4. Limit(p, a) = Draws - Cardinality(LaterThan(p, a))
        /\ Limit(p, a - 1) = Draws - Cardinality(LaterThan(p, a - 1))
    BY <1>1, <2>1
  <2>5. Cardinality(LaterThan(p, a)) \in Nat
    BY <1>1
  <2> QED BY <1>2, <2>3, <2>4, <2>5
<1> QED BY <1>1, <1>2, <1>3, <1>4

\* There is a last positive action, and nothing positive after it.
LEMMA LastFacts ==
  ASSUME NEW p, Distribution(p)
  PROVE  \E l \in Positive(p) :
            \A a \in Positive(p) : a <= l /\ (IsLast(p, a) <=> a = l)
                                   /\ (LaterThan(p, a) = {} <=> a = l)
<1> DEFINE T == {Len(p) - a : a \in Positive(p)}
<1>1. T \subseteq Nat /\ T # {}
  BY PositiveFacts DEF Distribution
<1>2. PICK x \in T : \A y \in T : x <= y
  BY <1>1, LeastNat
<1>3. PICK l \in Positive(p) : x = Len(p) - l
  BY <1>2
<1>4. ASSUME NEW a \in Positive(p) PROVE a <= l
  <2>1. Len(p) - l <= Len(p) - a
    BY <1>2, <1>3
  <2>2. a \in Int /\ l \in Int /\ Len(p) \in Int
    BY PositiveFacts
  <2> QED BY <2>1, <2>2
<1>5. \A a \in Positive(p) : a \in Int
  BY PositiveFacts
<1>6. ASSUME NEW a \in Positive(p) PROVE (IsLast(p, a) <=> a = l) /\ (LaterThan(p, a) = {} <=> a = l)
  BY <1>4, <1>5 DEF IsLast, LaterThan
<1> QED BY <1>4, <1>6

-----------------------------------------------------------------------------
\* The running sums.

\* The running sums obey their recurrence.
LEMMA CumulativeFacts ==
  ASSUME NEW p, Distribution(p)
  PROVE  /\ Cumulative(p) \in [0..Len(p) -> Nat]
         /\ Cumulative(p)[0] = 0
         /\ \A a \in 1..Len(p) : Cumulative(p)[a] = Cumulative(p)[a - 1] + p[a]
<1> DEFINE n == Len(p)
           F(g) == [a \in 0..n |-> IF a = 0 THEN 0 ELSE g[a - 1] + p[a]]
           step == [a \in Nat |-> [x \in Nat |-> IF a \in 1..n THEN x + p[a] ELSE 0]]
<1>1. n \in Nat /\ p \in [1..n -> Nat]
  BY PositiveFacts
<1> HIDE DEF n
<1>2. step \in [Nat -> [Nat -> Nat]] /\ 0 \in Nat
  BY <1>1
<1>3. \A a \in 1..n, x \in Nat : step[a][x] = x + p[a]
  BY <1>1
<1> HIDE DEF step
<1>4. PICK g \in [0..n -> Nat] : g[0] = 0 /\ \A a \in 1..n : g[a] = step[a][g[a - 1]]
  <2>1. step \in [Nat -> [Nat -> Nat]]
    BY <1>2
  <2>2. 0 \in Nat
    OBVIOUS
  <2>3. HasSteps(Nat, 0, step, n)
    BY <1>1, <2>1, <2>2, StepFunction
  <2> QED BY <2>3 DEF HasSteps
<1>5. \A a \in 1..n : g[a] = g[a - 1] + p[a]
  <2> TAKE a \in 1..n
  <2>1. g[a - 1] \in Nat
    BY <1>1, <1>4
  <2> QED BY <1>3, <1>4, <2>1
<1>6. g = F(g)
  BY <1>1, <1>4, <1>5
<1>7. Cumulative(p) = CHOOSE h : h = F(h)
  BY DEF Cumulative, n
<1>8. Cumulative(p) = F(Cumulative(p))
  <2> HIDE DEF F
  <2> QED BY <1>6, <1>7
<1>9. \A a \in 1..n : Cumulative(p)[a] = Cumulative(p)[a - 1] + p[a]
  BY <1>8, <1>1
<1>10. Cumulative(p)[0] = 0
  BY <1>8, <1>1
<1>11. Cumulative(p) \in [0..n -> Nat]
  <2> DEFINE T == {a \in Nat : a <= n => Cumulative(p)[a] \in Nat}
  <2>1. 0 \in T /\ \A i \in 0..(n - 1) : i \in T => i + 1 \in T
    BY <1>1, <1>9, <1>10
  <2>2. \A i \in 0..n : i \in T
    <3> HIDE DEF T
    <3> QED BY <1>1, <2>1, BoundedInduction
  <2> QED BY <1>8, <2>2
<1> QED BY <1>9, <1>10, <1>11 DEF n

\* The whole is positive and no part is more than it.
LEMMA TotalFacts ==
  ASSUME NEW p, Distribution(p)
  PROVE  /\ Cumulative(p)[Len(p)] \in Nat \ {0}
         /\ \A a \in 0..Len(p) : Cumulative(p)[a] <= Cumulative(p)[Len(p)]
<1> DEFINE n == Len(p)
           c == Cumulative(p)
           T == {i \in 0..n : c[i] <= c[n]}
<1>1. n \in Nat /\ p \in [1..n -> Nat] /\ Positive(p) \subseteq 1..n
  BY PositiveFacts
<1>2. c \in [0..n -> Nat] /\ \A a \in 1..n : c[a] = c[a - 1] + p[a]
  BY CumulativeFacts
<1> HIDE DEF n, c
<1>3. n \in T /\ \A i \in 1..n : i \in T => i - 1 \in T
  BY <1>1, <1>2
<1>4. \A i \in 0..n : i \in T
  <2> HIDE DEF T
  <2> QED BY <1>1, <1>3, DownwardInduction
<1>5. PICK a \in Positive(p) : TRUE
  BY DEF Distribution
<1>6. a \in 1..n /\ p[a] > 0
  BY <1>1, <1>5 DEF Positive
<1>7. c[a] <= c[n] /\ c[a] > 0
  BY <1>1, <1>2, <1>4, <1>6
<1>8. c[n] \in Nat \ {0}
  BY <1>1, <1>2, <1>6, <1>7
<1> QED BY <1>4, <1>8 DEF n, c

-----------------------------------------------------------------------------
\* The ends of the intervals.

EndpointStep(p, a, x) ==
  IF a \notin Positive(p) \/ IsLast(p, a) THEN x
  ELSE Smaller(Larger(Scaled(p, a), x + 1), Limit(p, a))

\* A share is a number.
LEMMA ScaledFacts ==
  ASSUME NEW p, Distribution(p), NEW a \in 0..Len(p)
  PROVE  Scaled(p, a) \in Int
<1>1. Cumulative(p)[a] \in Nat /\ Cumulative(p)[Len(p)] \in Nat \ {0} /\ Draws \in Nat
  BY CumulativeFacts, TotalFacts DEF Distribution
<1>2. Cumulative(p)[a] * Draws \in Nat
  BY <1>1
<1> QED BY <1>1, <1>2, Division DEF Scaled, Smaller

\* The endpoints obey the recurrence of the loop.
LEMMA EndpointsFacts ==
  ASSUME NEW p, Distribution(p)
  PROVE  /\ Endpoints(p) \in [0..Len(p) -> Int]
         /\ Endpoints(p)[0] = 0
         /\ \A a \in 1..Len(p) : Endpoints(p)[a] = EndpointStep(p, a, Endpoints(p)[a - 1])
<1> DEFINE n == Len(p)
           F(g) == [a \in 0..n |-> IF a = 0 THEN 0 ELSE EndpointStep(p, a, g[a - 1])]
           step == [a \in Nat |-> [x \in Int |-> IF a \in 1..n THEN EndpointStep(p, a, x) ELSE 0]]
<1>1. n \in Nat
  BY PositiveFacts
<1>2. ASSUME NEW a \in 1..n, NEW x \in Int PROVE EndpointStep(p, a, x) \in Int
  <2>1. Scaled(p, a) \in Int /\ Limit(p, a) \in Int
    BY <1>1, ScaledFacts, LaterFacts
  <2> QED BY <2>1 DEF EndpointStep, Smaller, Larger
<1> HIDE DEF n
<1>3. step \in [Nat -> [Int -> Int]] /\ 0 \in Int
  BY <1>2
<1>4. \A a \in 1..n, x \in Int : step[a][x] = EndpointStep(p, a, x)
  BY <1>1
<1> HIDE DEF step
<1>5. PICK g \in [0..n -> Int] : g[0] = 0 /\ \A a \in 1..n : g[a] = step[a][g[a - 1]]
  <2>1. step \in [Nat -> [Int -> Int]]
    BY <1>3
  <2>2. 0 \in Int
    OBVIOUS
  <2>3. HasSteps(Int, 0, step, n)
    BY <1>1, <2>1, <2>2, StepFunction
  <2> QED BY <2>3 DEF HasSteps
<1>6. \A a \in 1..n : g[a] = EndpointStep(p, a, g[a - 1])
  BY <1>1, <1>4, <1>5
<1>7. g = F(g)
  BY <1>1, <1>5, <1>6
<1>8. Endpoints(p) = CHOOSE h : h = F(h)
  BY DEF Endpoints, EndpointStep, n
<1>9. Endpoints(p) = F(Endpoints(p))
  <2> HIDE DEF F
  <2> QED BY <1>7, <1>8
<1>10. \A a \in 1..n : Endpoints(p)[a] = EndpointStep(p, a, Endpoints(p)[a - 1])
  BY <1>9, <1>1
<1>11. Endpoints(p)[0] = 0
  BY <1>9, <1>1
<1>12. Endpoints(p) \in [0..n -> Int]
  <2> DEFINE T == {a \in Nat : a <= n => Endpoints(p)[a] \in Int}
  <2>1. 0 \in T
    BY <1>11
  <2>2. ASSUME NEW i \in 0..(n - 1), i \in T PROVE i + 1 \in T
    <3>1. i + 1 \in 1..n /\ (i + 1) - 1 = i /\ Endpoints(p)[i] \in Int
      BY <1>1, <2>2
    <3>2. Endpoints(p)[i + 1] = EndpointStep(p, i + 1, Endpoints(p)[i])
      BY <1>10, <3>1
    <3>3. EndpointStep(p, i + 1, Endpoints(p)[i]) \in Int
      BY <1>2, <3>1
    <3>4. i + 1 \in Nat /\ Endpoints(p)[i + 1] \in Int
      BY <3>1, <3>2, <3>3
    <3> QED BY <3>4
  <2>3. \A i \in 0..n : i \in T
    <3> HIDE DEF T
    <3> QED BY <1>1, <2>1, <2>2, BoundedInduction
  <2> QED BY <1>9, <2>3
<1> QED BY <1>10, <1>11, <1>12 DEF n

\* The room kept for the actions to come makes every positive action but the last move
\* the endpoint.
LEMMA EndpointSteps ==
  ASSUME NEW p, Distribution(p), NEW a \in 1..Len(p), NEW x \in Int, x <= Limit(p, a - 1)
  PROVE  /\ EndpointStep(p, a, x) \in Int
         /\ x <= EndpointStep(p, a, x) /\ EndpointStep(p, a, x) <= Limit(p, a)
         /\ a \in Positive(p) /\ ~IsLast(p, a) => x < EndpointStep(p, a, x)
<1>1. Scaled(p, a) \in Int /\ Limit(p, a) \in Nat /\ Limit(p, a - 1) \in Nat
  <2>1. a \in 0..Len(p) /\ a - 1 \in 0..Len(p)
    BY PositiveFacts
  <2> QED BY <2>1, ScaledFacts, LaterFacts
<1>2. Limit(p, a) = IF a \in Positive(p) THEN Limit(p, a - 1) + 1 ELSE Limit(p, a - 1)
  <2>1. a \in 0..Len(p) /\ a # 0
    BY PositiveFacts
  <2> QED BY <2>1, LaterFacts
<1>3. CASE a \notin Positive(p)
  BY <1>1, <1>2, <1>3 DEF EndpointStep
<1>4. CASE a \in Positive(p) /\ IsLast(p, a)
  BY <1>1, <1>2, <1>4 DEF EndpointStep
<1>5. CASE a \in Positive(p) /\ ~IsLast(p, a)
  BY <1>1, <1>2, <1>5 DEF EndpointStep, Smaller, Larger
<1> QED BY <1>3, <1>4, <1>5

\* They grow, strictly at a positive action, and leave a draw to each later one.
LEMMA EndpointBounds ==
  ASSUME NEW p, Distribution(p)
  PROVE  /\ \A a \in 0..Len(p) : 0 <= Endpoints(p)[a] /\ Endpoints(p)[a] <= Limit(p, a)
         /\ \A a \in 1..Len(p) :
              /\ Endpoints(p)[a - 1] <= Endpoints(p)[a]
              /\ a \in Positive(p) /\ ~IsLast(p, a) => Endpoints(p)[a - 1] < Endpoints(p)[a]
<1> DEFINE n == Len(p)
           e == Endpoints(p)
           T == {a \in 0..n : 0 <= e[a] /\ e[a] <= Limit(p, a)}
<1>1. n \in Nat
  BY PositiveFacts
<1>2. /\ e \in [0..n -> Int] /\ e[0] = 0
      /\ \A a \in 1..n : e[a] = EndpointStep(p, a, e[a - 1])
  BY EndpointsFacts
<1>3. \A a \in 0..n : Limit(p, a) \in Nat
  BY LaterFacts
<1>4. ASSUME NEW a \in 1..n, NEW x \in Int, x <= Limit(p, a - 1)
      PROVE  /\ x <= EndpointStep(p, a, x) /\ EndpointStep(p, a, x) <= Limit(p, a)
             /\ a \in Positive(p) /\ ~IsLast(p, a) => x < EndpointStep(p, a, x)
  BY <1>4, EndpointSteps
<1> HIDE DEF n, e
<1>5. ASSUME NEW a \in 1..n, a - 1 \in T
      PROVE  /\ 0 <= e[a] /\ e[a] <= Limit(p, a) /\ e[a - 1] <= e[a]
             /\ a \in Positive(p) /\ ~IsLast(p, a) => e[a - 1] < e[a]
  <2>1. a \in 0..n /\ a - 1 \in 0..n /\ e[a - 1] \in Int /\ e[a] \in Int
    BY <1>1, <1>2
  <2>2. 0 <= e[a - 1] /\ e[a - 1] <= Limit(p, a - 1)
    BY <1>5
  <2>3. /\ e[a - 1] <= e[a] /\ e[a] <= Limit(p, a)
        /\ a \in Positive(p) /\ ~IsLast(p, a) => e[a - 1] < e[a]
    BY <1>2, <1>4, <2>1, <2>2
  <2> QED BY <2>1, <2>2, <2>3
<1>6. 0 \in T
  BY <1>1, <1>2, <1>3
<1>7. ASSUME NEW i \in 0..(n - 1), i \in T PROVE i + 1 \in T
  <2>1. i + 1 \in 1..n /\ i + 1 \in 0..n /\ (i + 1) - 1 \in T
    BY <1>1, <1>7
  <2> QED BY <1>5, <2>1
<1>8. \A a \in 0..n : a \in T
  <2> HIDE DEF T
  <2> QED BY <1>1, <1>6, <1>7, BoundedInduction
<1>9. \A a \in 1..n : a - 1 \in T
  <2>1. \A a \in 1..n : a - 1 \in 0..n
    BY <1>1
  <2> HIDE DEF T
  <2> QED BY <1>8, <2>1
<1>10. \A a \in 1..n : /\ e[a - 1] <= e[a]
                       /\ a \in Positive(p) /\ ~IsLast(p, a) => e[a - 1] < e[a]
  <2> HIDE DEF T
  <2> QED BY <1>5, <1>9
<1> QED BY <1>8, <1>10 DEF n, e

\* The endpoints are in order.
LEMMA EndpointOrder ==
  ASSUME NEW p, Distribution(p), NEW b \in 0..Len(p)
  PROVE  \A a \in 0..b : Endpoints(p)[a] <= Endpoints(p)[b]
<1> DEFINE e == Endpoints(p)
           T == {a \in 0..b : e[a] <= e[b]}
<1>1. b \in Nat /\ Len(p) \in Nat
  BY PositiveFacts
<1>2. e \in [0..Len(p) -> Int] /\ \A a \in 1..Len(p) : e[a - 1] <= e[a]
  BY EndpointsFacts, EndpointBounds
<1> HIDE DEF e
<1>3. b \in T
  BY <1>1, <1>2
<1>4. ASSUME NEW a \in 1..b, a \in T PROVE a - 1 \in T
  <2>1. /\ a \in 1..Len(p) /\ a - 1 \in 0..b
        /\ a - 1 \in 0..Len(p) /\ a \in 0..Len(p) /\ b \in 0..Len(p)
    BY <1>1
  <2>a. e[a - 1] \in Int /\ e[a] \in Int /\ e[b] \in Int
    BY <1>2, <2>1
  <2>b. e[a - 1] <= e[a] /\ e[a] <= e[b]
    BY <1>2, <1>4, <2>1
  <2>2. e[a - 1] <= e[a] /\ e[a] <= e[b] /\ e[a - 1] \in Int /\ e[a] \in Int /\ e[b] \in Int
    BY <2>a, <2>b
  <2>3. e[a - 1] <= e[b]
    BY <2>2
  <2> QED BY <2>1, <2>3
<1>5. \A a \in 0..b : a \in T
  <2> HIDE DEF T
  <2> QED BY <1>1, <1>3, <1>4, DownwardInduction
<1> QED BY <1>5 DEF e

-----------------------------------------------------------------------------
\* The action of a draw: the first positive one whose interval ends after it.

\* The loop stops at the first positive action that it may stop at.
LEMMA SampleFacts ==
  ASSUME NEW p, Distribution(p), NEW draw
  PROVE  /\ SampleIndex(p, draw) \in Positive(p)
         /\ Chosen(p, draw, SampleIndex(p, draw))
         /\ \A b \in Positive(p) : Chosen(p, draw, b) => SampleIndex(p, draw) <= b
<1> DEFINE T == {a \in Positive(p) : Chosen(p, draw, a)}
<1>1. T \subseteq Nat
  BY PositiveFacts
<1>2. T # {}
  BY LastFacts DEF Chosen
<1>3. PICK a \in T : \A b \in T : a <= b
  <2> HIDE DEF T
  <2> QED BY <1>1, <1>2, LeastNat
<1>4. \E a1 \in Positive(p) :
        /\ Chosen(p, draw, a1)
        /\ \A b \in Positive(p) : Chosen(p, draw, b) => a1 <= b
  BY <1>3
<1> QED BY <1>4 DEF SampleIndex

OwnInterval(p, a) ==
  {draw \in 0..Draws - 1 : /\ Endpoints(p)[a - 1] <= draw
                           /\ IsLast(p, a) \/ draw < Endpoints(p)[a]}

\* The draws of a positive action are those from the endpoint before it on, up to its
\* own endpoint or, for the last one, all the rest.
LEMMA OwnedFacts ==
  ASSUME NEW p, Distribution(p), NEW a \in Positive(p)
  PROVE  Owned(p, a) = OwnInterval(p, a)
<1> DEFINE e == Endpoints(p)
<1>1. /\ a \in 1..Len(p) /\ Len(p) \in Nat /\ Draws \in Nat
      /\ e \in [0..Len(p) -> Int] /\ Positive(p) \subseteq 1..Len(p)
  BY PositiveFacts, EndpointsFacts DEF Distribution
<1>2. PICK l \in Positive(p) : \A b \in Positive(p) : b <= l /\ (IsLast(p, b) <=> b = l)
  BY LastFacts
<1>3. ASSUME NEW draw \in 0..Draws - 1, SampleIndex(p, draw) = a
      PROVE  e[a - 1] <= draw /\ (IsLast(p, a) \/ draw < e[a])
  <2>1. Chosen(p, draw, a) /\ \A b \in Positive(p) : Chosen(p, draw, b) => a <= b
    BY <1>3, SampleFacts
  <2>2. IsLast(p, a) \/ draw < e[a]
    BY <2>1 DEF Chosen
  <2> DEFINE T == {i \in 0..(a - 1) : e[i] <= draw}
  <2>3. 0 \in T
    BY <1>1, EndpointsFacts
  <2>4. ASSUME NEW i \in 0..((a - 1) - 1), i \in T PROVE i + 1 \in T
    <3>1. i + 1 \in 1..Len(p) /\ (i + 1) - 1 = i /\ i + 1 \in 0..(a - 1) /\ ~(a <= i + 1)
      BY <1>1
    <3>2. CASE i + 1 \in Positive(p)
      <4>1. ~(draw < e[i + 1])
        BY <2>1, <3>1, <3>2 DEF Chosen
      <4>2. e[i + 1] \in Int
        BY <1>1, <3>1
      <4> QED BY <3>1, <4>1, <4>2
    <3>3. CASE i + 1 \notin Positive(p)
      <4>1. e[i + 1] = e[i]
        BY <3>1, <3>3, EndpointsFacts DEF EndpointStep
      <4> QED BY <2>4, <3>1, <4>1
    <3> QED BY <3>2, <3>3
  <2>5. a - 1 \in Nat
    BY <1>1
  <2>6. \A i \in 0..(a - 1) : i \in T
    <3> HIDE DEF T
    <3> QED BY <2>3, <2>4, <2>5, BoundedInduction
  <2>7. a - 1 \in T
    BY <2>5, <2>6
  <2> QED BY <2>2, <2>7
<1>4. ASSUME NEW draw \in 0..Draws - 1, e[a - 1] <= draw, IsLast(p, a) \/ draw < e[a]
      PROVE  SampleIndex(p, draw) = a
  <2>1. Chosen(p, draw, a)
    BY <1>4 DEF Chosen
  <2>2. SampleIndex(p, draw) \in Positive(p) /\ Chosen(p, draw, SampleIndex(p, draw))
        /\ SampleIndex(p, draw) <= a
    BY <2>1, SampleFacts
  <2>3. ASSUME NEW b \in Positive(p), Chosen(p, draw, b), b < a PROVE FALSE
    <3>1. b <= l /\ a <= l /\ (IsLast(p, b) <=> b = l) /\ l \in Int /\ b \in Int /\ a \in Int
      BY <1>1, <1>2
    <3>2. draw < e[b]
      BY <2>3, <3>1 DEF Chosen
    <3>3. a - 1 \in 0..Len(p) /\ b \in 0..(a - 1) /\ b \in 0..Len(p)
      BY <1>1, <2>3
    <3>4. e[b] <= e[a - 1]
      BY <3>3, EndpointOrder
    <3>5. e[b] \in Int /\ e[a - 1] \in Int
      BY <1>1, <3>3
    <3> QED BY <1>4, <3>2, <3>4, <3>5
  <2>4. ~(SampleIndex(p, draw) < a)
    BY <2>2, <2>3
  <2>5. SampleIndex(p, draw) \in Int /\ a \in Int
    BY <1>1, <2>2
  <2> QED BY <2>2, <2>4, <2>5
<1>5. \A draw \in 0..Draws - 1 :
        SampleIndex(p, draw) = a <=> (e[a - 1] <= draw /\ (IsLast(p, a) \/ draw < e[a]))
  BY <1>3, <1>4
<1>6. \A draw : draw \in Owned(p, a) <=> draw \in 0..Draws - 1 /\ SampleIndex(p, draw) = a
  BY DEF Owned
<1>7. \A draw : draw \in OwnInterval(p, a) <=>
                 draw \in 0..Draws - 1 /\ e[a - 1] <= draw /\ (IsLast(p, a) \/ draw < e[a])
  BY DEF OwnInterval
<1> QED BY <1>5, <1>6, <1>7

\* Every action of positive probability has a draw, and no other action has one.
THEOREM SamplerCovers ==
  ASSUME NEW p, Distribution(p)
  PROVE  CoversPositiveActions(p)
<1>1. DOMAIN p = 1..Len(p) /\ Positive(p) \subseteq 1..Len(p) /\ Len(p) \in Nat /\ Draws \in Nat
      /\ Endpoints(p) \in [0..Len(p) -> Int]
  BY PositiveFacts, EndpointsFacts DEF Distribution
<1>2. ASSUME NEW a \in Positive(p) PROVE Owned(p, a) # {}
  <2> DEFINE draw == Endpoints(p)[a - 1]
  <2>1. a \in 1..Len(p) /\ a - 1 \in 0..Len(p) /\ draw \in Int
    BY <1>1
  <2>2. a \in LaterThan(p, a - 1)
    BY <2>1 DEF LaterThan
  <2>3. 0 <= draw /\ draw <= Limit(p, a - 1) /\ Limit(p, a - 1) <= Draws - 1
        /\ Limit(p, a - 1) \in Nat
    BY <2>1, <2>2, EndpointBounds, LaterFacts
  <2>4. IsLast(p, a) \/ draw < Endpoints(p)[a]
    BY <2>1, EndpointBounds
  <2> HIDE DEF draw
  <2>5. draw \in 0..Draws - 1
    BY <1>1, <2>1, <2>3
  <2>6. draw \in OwnInterval(p, a)
    BY <2>1, <2>4, <2>5 DEF draw, OwnInterval
  <2> QED BY <2>6, OwnedFacts
<1>3. ASSUME NEW a \in DOMAIN p, a \notin Positive(p) PROVE Owned(p, a) = {}
  BY <1>3, SampleFacts DEF Owned
<1>4. \A a \in DOMAIN p : p[a] > 0 <=> a \in Positive(p)
  BY DEF Positive
<1>5. \A a \in DOMAIN p : (p[a] > 0) = (Owned(p, a) # {})
  <2> TAKE a \in DOMAIN p
  <2>1. CASE a \in Positive(p)
    BY <1>2, <1>4, <2>1
  <2>2. CASE a \notin Positive(p)
    BY <1>3, <1>4, <2>2
  <2> QED BY <2>1, <2>2
<1> QED BY <1>5 DEF CoversPositiveActions

-----------------------------------------------------------------------------
\* The shares, when no positive probability is below the resolution of a draw.

Total(p) == Cumulative(p)[Len(p)]
Fine(p) == \A a \in Positive(p) : Draws * p[a] >= Total(p)
Share(p, a) == (Cumulative(p)[a] * Draws) \div Total(p)

\* What is left for the later actions is a draw for each of them at least.
LEMMA LaterShares ==
  ASSUME NEW p, Distribution(p), Fine(p)
  PROVE  \A a \in 0..Len(p) : Cumulative(p)[a] * Draws <= Total(p) * Limit(p, a)
<1> DEFINE n == Len(p)
           c == Cumulative(p)
           t == Total(p)
           T == {a \in 0..n : c[a] * Draws <= t * Limit(p, a)}
<1>1. /\ n \in Nat /\ Draws \in Nat /\ p \in [1..n -> Nat] /\ c \in [0..n -> Nat]
      /\ t \in Nat \ {0} /\ t = c[n] /\ Positive(p) \subseteq 1..n
      /\ \A a \in 1..n : c[a] = c[a - 1] + p[a]
  BY PositiveFacts, CumulativeFacts, TotalFacts DEF Distribution, Total
<1>2. \A a \in 0..n : Limit(p, a) \in Nat
  BY LaterFacts
<1>3. \A a \in 1..n : Limit(p, a) = IF a \in Positive(p) THEN Limit(p, a - 1) + 1
                                   ELSE Limit(p, a - 1)
  <2> TAKE a \in 1..n
  <2>1. a \in 0..Len(p) /\ a # 0
    BY <1>1
  <2> QED BY <2>1, LaterFacts
<1>4. Limit(p, n) = Draws
  <2>1. LaterThan(p, n) = {} /\ n \in 0..Len(p)
    BY <1>1 DEF LaterThan
  <2>2. Limit(p, n) = Draws - Cardinality(LaterThan(p, n))
    BY <2>1, LaterFacts
  <2>3. Cardinality(LaterThan(p, n)) = 0
    BY <2>1, FS_EmptySet
  <2> QED BY <1>1, <2>2, <2>3
<1>5. \A a \in Positive(p) : Draws * p[a] >= t
  BY DEF Fine
<1>6. \A a \in 1..n : a \notin Positive(p) => p[a] = 0
  BY <1>1 DEF Positive
<1> HIDE DEF n, c, t
<1>7. n \in T
  BY <1>1, <1>4
<1>8. ASSUME NEW a \in 1..n, a \in T PROVE a - 1 \in T
  <2> DEFINE x == c[a - 1]
             m == Limit(p, a - 1)
  <2>1. a - 1 \in 0..n /\ a \in 0..n /\ x \in Nat /\ m \in Nat /\ p[a] \in Nat
    BY <1>1, <1>2
  <2>2. (x + p[a]) * Draws <= t * Limit(p, a)
    BY <1>1, <1>8
  <2> HIDE DEF x, m
  <2>3. CASE a \in Positive(p)
    <3>1. (x + p[a]) * Draws <= t * (m + 1)
      BY <1>3, <2>2, <2>3 DEF m
    <3>2. Draws * p[a] >= t
      BY <1>5, <2>3
    <3>3. (x + p[a]) * Draws = x * Draws + Draws * p[a] /\ t * (m + 1) = t * m + t
      BY <1>1, <2>1
    <3>4. x * Draws \in Nat /\ Draws * p[a] \in Nat /\ t * m \in Nat /\ t \in Nat
      BY <1>1, <2>1
    <3>5. x * Draws <= t * m
      BY <3>1, <3>2, <3>3, <3>4
    <3> QED BY <2>1, <3>5 DEF x, m
  <2>4. CASE a \notin Positive(p)
    <3>1. (x + 0) * Draws <= t * m
      BY <1>3, <1>6, <2>2, <2>4 DEF m
    <3>2. x * Draws <= t * m
      BY <1>1, <2>1, <3>1
    <3> QED BY <2>1, <3>2 DEF x, m
  <2> QED BY <2>3, <2>4
<1>9. \A a \in 0..n : a \in T
  <2> HIDE DEF T
  <2> QED BY <1>1, <1>7, <1>8, DownwardInduction
<1> QED BY <1>9 DEF n, c, t

\* Before the last positive action the endpoint is the share.
LEMMA EndpointIsShare ==
  ASSUME NEW p, Distribution(p), Fine(p)
  PROVE  /\ \A a \in 0..Len(p) : LaterThan(p, a) # {} => Endpoints(p)[a] = Share(p, a)
         /\ \A a \in 0..Len(p) : Share(p, a) \in Nat
         /\ \A a \in 0..Len(p) : LaterThan(p, a) = {} => Share(p, a) = Draws
<1> DEFINE n == Len(p)
           c == Cumulative(p)
           t == Total(p)
           e == Endpoints(p)
           T == {a \in 0..n : LaterThan(p, a) # {} => e[a] = Share(p, a)}
<1>1. /\ n \in Nat /\ Draws \in Nat /\ p \in [1..n -> Nat] /\ c \in [0..n -> Nat]
      /\ t \in Nat \ {0} /\ t = c[n] /\ Positive(p) \subseteq 1..n /\ c[0] = 0
      /\ \A a \in 1..n : c[a] = c[a - 1] + p[a]
  BY PositiveFacts, CumulativeFacts, TotalFacts DEF Distribution, Total
<1>2. ASSUME NEW a \in 0..n
      PROVE  /\ c[a] * Draws \in Nat /\ Share(p, a) \in Nat
             /\ Share(p, a) * t <= c[a] * Draws /\ c[a] * Draws < Share(p, a) * t + t
  <2>1. c[a] * Draws \in Nat
    BY <1>1
  <2> QED BY <1>1, <2>1, Division DEF Share
<1>3. \A a \in Positive(p) : Draws * p[a] >= t
  BY DEF Fine
<1>4. \A a \in 1..n : a \notin Positive(p) => p[a] = 0
  BY <1>1 DEF Positive
<1>5. ASSUME NEW a \in 0..n PROVE c[a] * Draws <= t * Limit(p, a) /\ Limit(p, a) \in Nat
  BY LaterShares, LaterFacts
<1>6. ASSUME NEW a \in 0..n PROVE Share(p, a) <= Limit(p, a)
  <2>1. Share(p, a) * t <= t * Limit(p, a)
    BY <1>1, <1>2, <1>5
  <2> DEFINE s == Share(p, a)
             m == Limit(p, a)
  <2>2. s \in Nat /\ m \in Nat
    BY <1>2, <1>5
  <2>3. \A u, v, w \in Nat : w # 0 /\ u * w <= w * v => u <= v
    OBVIOUS
  <2> HIDE DEF s, m, t
  <2> QED BY <1>1, <2>1, <2>2, <2>3 DEF s, m
<1>7. ASSUME NEW a \in 1..n PROVE a \in 0..n /\ a - 1 \in 0..n /\ a \in Int
  BY <1>1
<1>8. ASSUME NEW a \in 1..n, a \notin Positive(p)
      PROVE  Share(p, a) = Share(p, a - 1)
  <2>1. c[a] = c[a - 1]
    BY <1>1, <1>4, <1>7, <1>8
  <2> QED BY <2>1 DEF Share
<1>9. ASSUME NEW a \in 1..n, a \in Positive(p)
      PROVE  Share(p, a - 1) + 1 <= Share(p, a)
  <2> DEFINE x == c[a - 1] * Draws
             y == c[a] * Draws
  <2>1. x \in Nat /\ y \in Nat
    BY <1>2, <1>7
  <2>2. x + t <= y
    <3>1. c[a] = c[a - 1] + p[a] /\ c[a - 1] \in Nat /\ p[a] \in Nat /\ Draws * p[a] >= t
      BY <1>1, <1>3, <1>7, <1>9
    <3>2. y = c[a - 1] * Draws + Draws * p[a]
      BY <1>1, <3>1
    <3>3. Draws * p[a] \in Nat
      BY <1>1, <3>1
    <3>4. y = x + Draws * p[a]
      BY <3>2
    <3> HIDE DEF x, y, t
    <3> QED BY <1>1, <2>1, <3>1, <3>3, <3>4
  <2> HIDE DEF x, y, t
  <2>3. x \div t + 1 <= y \div t
    BY <1>1, <2>1, <2>2, DivisionSteps
  <2> QED BY <2>3 DEF x, y, t, Share
<1>10. \A a \in 0..n : a \in T
  <2>1. 0 \in T
    <3>1. Share(p, 0) = 0
      <4>1. 0 \in 0..n /\ c[0] * Draws = 0
        BY <1>1
      <4>2. 0 \div t = 0
        BY <1>1
      <4> QED BY <4>1, <4>2 DEF Share
    <3> QED BY <1>1, <3>1, EndpointsFacts
  <2>2. ASSUME NEW i \in 0..(n - 1), i \in T PROVE i + 1 \in T
    <3> DEFINE a == i + 1
    <3>1. a \in 1..n /\ a \in 0..n /\ a - 1 = i /\ i \in 0..n
      BY <1>1
    <3> HIDE DEF a
    <3>2. SUFFICES ASSUME LaterThan(p, a) # {} PROVE e[a] = Share(p, a)
      BY <3>1 DEF a
    <3>3. LaterThan(p, i) # {}
      <4>1. LaterThan(p, a) \subseteq LaterThan(p, i)
        BY <1>1, <3>1 DEF LaterThan
      <4> QED BY <3>2, <4>1
    <3>4. e[i] = Share(p, i) /\ e[a] = EndpointStep(p, a, e[i])
      BY <2>2, <3>1, <3>3, EndpointsFacts
    <3>5. CASE a \notin Positive(p)
      BY <1>8, <3>1, <3>4, <3>5 DEF EndpointStep
    <3>6. CASE a \in Positive(p)
      <4>1. ~IsLast(p, a)
        BY <3>2, <3>6, <1>1 DEF IsLast, LaterThan
      <4>2. Limit(p, a) <= Draws - 1 /\ Share(p, a) <= Limit(p, a)
        BY <1>6, <3>1, <3>2, LaterFacts
      <4>3. Share(p, i) + 1 <= Share(p, a)
        BY <1>9, <3>1, <3>6
      <4>4. Share(p, a) \in Nat /\ Share(p, i) \in Nat /\ Limit(p, a) \in Nat
        BY <1>2, <1>5, <3>1
      <4>5. Scaled(p, a) = Smaller(Share(p, a), Draws - 1)
        BY DEF Scaled, Share, Total
      <4>6. Scaled(p, a) = Share(p, a)
        BY <1>1, <4>2, <4>4, <4>5 DEF Smaller
      <4>7. e[a] = Smaller(Larger(Share(p, a), Share(p, i) + 1), Limit(p, a))
        BY <3>4, <3>6, <4>1, <4>6 DEF EndpointStep
      <4> QED BY <4>2, <4>3, <4>4, <4>7 DEF Smaller, Larger
    <3> QED BY <3>5, <3>6
  <2> HIDE DEF T
  <2> QED BY <1>1, <2>1, <2>2, BoundedInduction
<1>11. ASSUME NEW a \in 0..n, LaterThan(p, a) = {} PROVE Share(p, a) = Draws
  <2> DEFINE U == {i \in 0..n : a <= i => Share(p, i) = Draws}
  <2>1. n \in U
    <3>1. \A u \in Nat, w \in Nat \ {0} : (w * u) \div w = u
      <4> TAKE u \in Nat, w \in Nat \ {0}
      <4>1. w * u \in Nat /\ ((w * u) \div w) * w <= w * u
            /\ w * u < ((w * u) \div w) * w + w /\ (w * u) \div w \in Nat
        BY Division
      <4> QED BY <4>1
    <3>2. Share(p, n) = (t * Draws) \div t
      BY <1>1 DEF Share
    <3> HIDE DEF t
    <3> QED BY <1>1, <3>1, <3>2
  <2>2. ASSUME NEW i \in 1..n, i \in U PROVE i - 1 \in U
    <3>1. i \in 0..n /\ i - 1 \in 0..n /\ i \in Int /\ a \in Int
      BY <1>1
    <3>2. SUFFICES ASSUME a <= i - 1 PROVE Share(p, i - 1) = Draws
      BY <3>1
    <3>3. i \notin Positive(p)
      BY <1>11, <3>1, <3>2 DEF LaterThan
    <3>4. Share(p, i) = Draws
      BY <2>2, <3>1, <3>2
    <3> QED BY <1>8, <3>3, <3>4
  <2>3. a \in U
    <3> HIDE DEF U
    <3> QED BY <1>1, <2>1, <2>2, DownwardInduction
  <2>4. a <= a
    BY <1>1
  <2> QED BY <2>3, <2>4
<1> QED BY <1>2, <1>10, <1>11

\* The draws of an action are the part of its share.
LEMMA OwnedCount ==
  ASSUME NEW p, Distribution(p), Fine(p), NEW a \in 1..Len(p)
  PROVE  Cardinality(Owned(p, a)) = Share(p, a) - Share(p, a - 1)
<1> DEFINE lo == Share(p, a - 1)
           hi == Share(p, a)
<1>1. /\ a \in 0..Len(p) /\ a - 1 \in 0..Len(p) /\ a \in Int /\ Draws \in Nat
      /\ Positive(p) \subseteq 1..Len(p)
  BY PositiveFacts DEF Distribution
<1>2. lo \in Nat /\ hi \in Nat
  BY <1>1, EndpointIsShare
<1>3. CASE a \in Positive(p)
  <2>1. a \in LaterThan(p, a - 1)
    BY <1>1, <1>3 DEF LaterThan
  <2>2. Endpoints(p)[a - 1] = lo
    BY <1>1, <2>1, EndpointIsShare
  <2>3. IsLast(p, a) <=> LaterThan(p, a) = {}
    BY <1>3, LastFacts
  <2>4. IsLast(p, a) => hi = Draws
    BY <1>1, <2>3, EndpointIsShare
  <2>5. ~IsLast(p, a) => /\ Endpoints(p)[a] = hi /\ hi <= Draws - 1
                         /\ Endpoints(p)[a - 1] < Endpoints(p)[a]
    <3>1. ASSUME LaterThan(p, a) # {}
          PROVE  /\ Endpoints(p)[a] = hi /\ hi <= Limit(p, a) /\ Limit(p, a) <= Draws - 1
                 /\ Limit(p, a) \in Nat
      BY <1>1, <3>1, EndpointIsShare, EndpointBounds, LaterFacts
    <3>2. ASSUME LaterThan(p, a) # {} PROVE hi <= Draws - 1
      BY <1>1, <1>2, <3>1, <3>2
    <3>3. ~IsLast(p, a) => Endpoints(p)[a - 1] < Endpoints(p)[a]
      BY <1>3, EndpointBounds
    <3> QED BY <2>3, <3>1, <3>2, <3>3
  <2>6. lo <= Draws - 1
    <3>1. lo <= Limit(p, a - 1) /\ Limit(p, a - 1) <= Draws - 1 /\ Limit(p, a - 1) \in Nat
      BY <1>1, <2>1, <2>2, EndpointBounds, LaterFacts
    <3> QED BY <1>1, <1>2, <3>1
  <2>7. Owned(p, a) = {draw \in 0..Draws - 1 : lo <= draw /\ (IsLast(p, a) \/ draw < Endpoints(p)[a])}
    <3>1. Owned(p, a) = OwnInterval(p, a)
      BY <1>3, OwnedFacts
    <3> HIDE DEF lo
    <3> QED BY <2>2, <3>1 DEF OwnInterval
  <2> HIDE DEF lo, hi
  <2>8. Owned(p, a) = lo..(hi - 1) /\ lo <= hi - 1
    <3>1. CASE IsLast(p, a)
      BY <1>1, <1>2, <2>4, <2>6, <2>7, <3>1
    <3>2. CASE ~IsLast(p, a)
      <4>1. lo < hi /\ hi <= Draws - 1
        BY <2>2, <2>5, <3>2
      <4> QED BY <1>1, <1>2, <2>5, <2>7, <3>2, <4>1
    <3> QED BY <3>1, <3>2
  <2>9. lo \in Int /\ hi - 1 \in Int
    BY <1>2
  <2>10. Cardinality(lo..(hi - 1)) = (hi - 1) - lo + 1
    BY <2>8, <2>9, FS_Interval
  <2>11. Cardinality(Owned(p, a)) = hi - lo
    BY <1>2, <2>8, <2>10
  <2> QED BY <2>11 DEF lo, hi
<1>4. CASE a \notin Positive(p)
  <2>1. Owned(p, a) = {}
    BY <1>4, SampleFacts DEF Owned
  <2>2. Cumulative(p)[a] = Cumulative(p)[a - 1]
    <3>1. p[a] = 0 /\ Cumulative(p)[a - 1] \in Nat
      BY <1>1, <1>4, PositiveFacts, CumulativeFacts DEF Positive
    <3> QED BY <3>1, CumulativeFacts
  <2>3. hi = lo
    BY <2>2 DEF Share
  <2>4. Cardinality(Owned(p, a)) = 0
    BY <2>1, FS_EmptySet
  <2> HIDE DEF lo, hi
  <2>5. Cardinality(Owned(p, a)) = hi - lo
    BY <1>2, <2>3, <2>4
  <2> QED BY <2>5 DEF lo, hi
<1> QED BY <1>3, <1>4

\* When no positive probability is below the resolution of a draw, an action has its
\* share of the draws to less than one draw.
THEOREM SamplerShares ==
  ASSUME NEW p, Distribution(p)
  PROVE  SharesDraws(p)
<1> DEFINE t == Total(p)
           Excess(a) == Cardinality(Owned(p, a)) * t - Draws * p[a]
<1>1. Total(p) = Cumulative(p)[Len(p)] /\ t \in Nat \ {0} /\ Draws \in Nat /\ DOMAIN p = 1..Len(p)
  BY TotalFacts, PositiveFacts DEF Total, Distribution
<1>2. ASSUME Fine(p), NEW a \in 1..Len(p) PROVE Excess(a) < t /\ Excess(a) > -t
  <2> DEFINE c1 == Cumulative(p)[a]
             c0 == Cumulative(p)[a - 1]
             s1 == Share(p, a)
             s0 == Share(p, a - 1)
  <2>1. a \in 0..Len(p) /\ a - 1 \in 0..Len(p)
    BY PositiveFacts
  <2>2. c1 \in Nat /\ c0 \in Nat /\ p[a] \in Nat /\ c1 = c0 + p[a]
    BY <2>1, CumulativeFacts, PositiveFacts
  <2>3. c1 * Draws \in Nat /\ c0 * Draws \in Nat
    BY <1>1, <2>2
  <2>4. s1 \in Nat /\ s1 * t <= c1 * Draws /\ c1 * Draws < s1 * t + t
    BY <1>1, <2>3, Division DEF Share
  <2>5. s0 \in Nat /\ s0 * t <= c0 * Draws /\ c0 * Draws < s0 * t + t
    BY <1>1, <2>3, Division DEF Share
  <2>6. Cardinality(Owned(p, a)) = s1 - s0
    BY <1>2, OwnedCount
  <2> HIDE DEF c1, c0, s1, s0, t
  <2>7. Draws * p[a] = c1 * Draws - c0 * Draws
    <3>1. p[a] = c1 - c0
      BY <2>2
    <3> QED BY <1>1, <2>2, <3>1
  <2>8. (s1 - s0) * t = s1 * t - s0 * t /\ s1 * t \in Nat /\ s0 * t \in Nat
    BY <1>1, <2>4, <2>5
  <2>9. Excess(a) = (s1 * t - s0 * t) - (c1 * Draws - c0 * Draws)
    BY <2>6, <2>7, <2>8
  <2> QED BY <1>1, <2>3, <2>4, <2>5, <2>8, <2>9
<1> HIDE DEF t
<1>3. (\A a \in Positive(p) : Draws * p[a] >= t) => \A a \in DOMAIN p : Excess(a) < t /\ Excess(a) > -t
  BY <1>1, <1>2 DEF Fine, t
<1> QED BY <1>1, <1>3 DEF SharesDraws, t

=============================================================================
