-------------------------- MODULE NodeCommitProofs --------------------------
(***************************************************************************)
(* Proofs about the commit of a traversal, for any finite set of nodes and *)
(* any threads, deltas, bounds and (even) version modulus.                 *)
(***************************************************************************)
EXTENDS NodeCommit, FiniteSetTheorems, SequenceTheorems, TLAPS

PcValues == {"idle", "lock", "backoff", "begin", "store", "clamp",
             "clamping", "clamped", "accumulate", "unlock"}
RpcValues == {"idle", "version", "load", "check"}
Vector == [Actions -> Int]
Delta  == [regret : Vector, strategy : Vector]

\* The initial accumulators and an empty workspace have their types.
LEMMA ZeroIsVector == Zero \in Vector /\ NoDelta \in Delta
BY DEF Zero, NoDelta, Vector, Delta

\* The positive part of a regret array is a regret array.
LEMMA PositivePartIsVector ==
  ASSUME NEW v \in Vector
  PROVE  PositivePart(v) \in Vector
BY DEF PositivePart, Vector

\* The entries of a sorted workspace are distinct nodes.
LEMMA EntriesAreNodes ==
  ASSUME NEW rank \in [Nodes -> Nat], NEW s \in SortedEntries(rank)
  PROVE  /\ s \in Seq(Nodes)
         /\ \A i, j \in 1..Len(s) : i # j => s[i] # s[j]
<1>1. Cardinality(Nodes) \in Nat
  BY NodeCommitAssumption, FS_CardinalityType
<1>2. PICK m \in 0..Cardinality(Nodes) : s \in [1..m -> Nodes]
  BY DEF SortedEntries
<1>3. s \in Seq(Nodes) /\ Len(s) = m
  BY <1>1, <1>2
<1>4. \A i, j \in 1..Len(s) : i < j => rank[s[i]] < rank[s[j]]
  BY <1>2, <1>3 DEF SortedEntries
<1>5. ASSUME NEW i \in 1..Len(s), NEW j \in 1..Len(s), i # j
      PROVE  s[i] # s[j]
  <2>1. i < j \/ j < i
    BY <1>5, <1>3, <1>1
  <2>2. rank[s[i]] \in Nat /\ rank[s[j]] \in Nat
    BY <1>2, <1>3
  <2>3. QED
    BY <1>4, <2>1, <2>2
<1>6. QED
  BY <1>3, <1>5

\* What a single-node operation adds is a delta.
LEMMA ApiDeltasAreDeltas ==
  ASSUME NEW o
  PROVE  ApiDeltas(o) \subseteq Delta
<1>1. Deltas \subseteq Delta
  BY NodeCommitAssumption DEF Delta, Vector
<1>2. \A d \in Deltas, a \in Actions :
        [regret |-> Only(d.regret, a), strategy |-> Zero] \in Delta
  BY <1>1, ZeroIsVector DEF Only, Delta, Vector
<1>3. \A d \in Deltas : [regret |-> Zero, strategy |-> d.strategy] \in Delta
  BY <1>1, ZeroIsVector DEF Delta, Vector
<1>4. QED
  BY <1>1, <1>2, <1>3, ZeroIsVector DEF ApiDeltas

\* The candidate values of an entry have the type of its deltas.
LEMMA CandidatesAreDeltas ==
  ASSUME TypeOK, NEW n \in Nodes, NEW d \in Delta
  PROVE  Candidates(n, d) \in Delta
BY DEF TypeOK, Candidates, Delta, Vector

-----------------------------------------------------------------------------
(* Type correctness.                                                       *)

\* The initial states are type correct.
LEMMA TypeInit == Init => TypeOK
<1> SUFFICES ASSUME Init PROVE TypeOK
  OBVIOUS
<1>1. InfoNodeInit /\ ReaderInit
  BY DEF Init
<1>2. /\ lock \in [Nodes -> Writers \union {NoThread}]
      /\ version \in [Nodes -> 0..(VersionModulus - 1)]
      /\ regret \in [Nodes -> Vector] /\ strategy \in [Nodes -> Vector]
  BY <1>1, InfoNodeAssumption, ZeroIsVector DEF InfoNodeInit
<1>3. (CHOOSE n \in Nodes : TRUE) \in Nodes
  BY NodeCommitAssumption
<1>4. /\ rpc \in [Readers -> {"idle", "version", "load", "check"}]
      /\ rnode \in [Readers -> Nodes]
      /\ rversion \in [Readers -> 0..(VersionModulus - 1)]
      /\ rtodo \in [Readers -> SUBSET Actions]
      /\ snap \in [Readers -> Vector]
      /\ moved \in [Readers -> 0..VersionModulus]
      /\ reads \in [Readers -> 0..MaxReads]
  BY <1>1, <1>3, InfoNodeAssumption, ZeroIsVector DEF ReaderInit
<1>5. <<>> \in Seq(Nodes)
  BY EmptySeq
<1>6. /\ pc \in [Writers -> {"idle", "lock", "backoff", "begin", "store", "clamp",
                             "clamping", "clamped", "accumulate", "unlock"}]
      /\ op \in [Writers -> {"commit"} \union NodeOps]
      /\ order \in [Writers -> Seq(Nodes)]
      /\ arena \in [Writers -> [Nodes -> Delta]]
      /\ locked \in [Writers -> Nat] /\ cursor \in [Writers -> Nat]
      /\ todo \in [Writers -> SUBSET Actions]
      /\ calls \in [Writers -> 0..MaxCalls]
  BY <1>5, ZeroIsVector, NodeCommitAssumption DEF Init
<1>7. QED
  BY <1>2, <1>4, <1>6 DEF TypeOK, Vector, Delta

\* The part of TypeOK that the actions of a writer leave to each other.
LEMMA BeginTypes ==
  ASSUME TypeOK, NEW t \in Writers, NEW o \in {"commit"} \union NodeOps,
         NEW entries \in Seq(Nodes), NEW d \in [Nodes -> Delta],
         Begin(t, o, entries, d), UNCHANGED readerVars
  PROVE  TypeOK'
<1>1. calls[t] + 1 \in 0..MaxCalls
  BY NodeCommitAssumption DEF TypeOK, Begin
<1>2. /\ pc' \in [Writers -> {"idle", "lock", "backoff", "begin", "store", "clamp",
                              "clamping", "clamped", "accumulate", "unlock"}]
      /\ op' \in [Writers -> {"commit"} \union NodeOps]
      /\ order' \in [Writers -> Seq(Nodes)]
      /\ arena' \in [Writers -> [Nodes -> Delta]]
      /\ locked' \in [Writers -> Nat] /\ cursor' \in [Writers -> Nat]
      /\ calls' \in [Writers -> 0..MaxCalls]
  BY <1>1 DEF TypeOK, Begin, Delta, Vector
<1>3. QED
  BY <1>2 DEF TypeOK, Begin, Delta, Vector, nodeVars, readerVars

\* A version step keeps the version inside its width.
LEMMA BumpTypes ==
  ASSUME TypeOK, NEW n \in Nodes, BumpVersion(n)
  PROVE  /\ version' \in [Nodes -> 0..(VersionModulus - 1)]
         /\ moved' \in [Readers -> 0..VersionModulus]
<1>1. VersionModulus \in Nat /\ VersionModulus > 0
  BY InfoNodeAssumption
<1>2. (IF version[n] + 1 = VersionModulus THEN 0 ELSE version[n] + 1)
        \in 0..(VersionModulus - 1)
  BY <1>1 DEF TypeOK
<1>3. version' \in [Nodes -> 0..(VersionModulus - 1)]
  BY <1>2 DEF TypeOK, BumpVersion
<1>4. \A r \in Readers : moved[r] < VersionModulus => moved[r] + 1 \in 0..VersionModulus
  BY <1>1 DEF TypeOK
<1>5. moved' \in [Readers -> 0..VersionModulus]
  BY <1>4 DEF TypeOK, BumpVersion
<1>6. QED
  BY <1>3, <1>5

\* What is about to be stored in an accumulator is a number.
LEMMA ValueTypes ==
  ASSUME TypeOK, NEW t \in Writers, NEW n \in Nodes, NEW a \in Actions
  PROVE  Value(t, n, a).regret \in Int /\ Value(t, n, a).strategy \in Int
<1>1. arena[t][n] \in [regret : Vector, strategy : Vector]
  BY DEF TypeOK, Vector
<1>2. /\ arena[t][n].regret[a] \in Int /\ arena[t][n].strategy[a] \in Int
      /\ regret[n][a] \in Int /\ strategy[n][a] \in Int
  BY <1>1 DEF TypeOK, Vector
<1>3. QED
  BY <1>2 DEF Value

\* Storing a regret keeps the array a regret array.
LEMMA StoreTypes ==
  ASSUME TypeOK, NEW n \in Nodes, NEW a \in Actions, NEW x \in Int
  PROVE  /\ [regret EXCEPT ![n][a] = x] \in [Nodes -> [Actions -> Int]]
         /\ [strategy EXCEPT ![n][a] = x] \in [Nodes -> [Actions -> Int]]
<1>1. /\ [regret[n] EXCEPT ![a] = x] \in [Actions -> Int]
      /\ [strategy[n] EXCEPT ![a] = x] \in [Actions -> Int]
  BY DEF TypeOK
<1>2. QED
  BY <1>1 DEF TypeOK

-----------------------------------------------------------------------------
(* The inductive invariant.                                                *)

Applying == {"begin", "store", "clamp", "clamping", "clamped", "accumulate"}

\* Where a thread's program counter is tells how many of its locks it holds
\* and that its cursor is on an entry; its entries are distinct nodes.
Shape(t) ==
  /\ \A i, j \in 1..Len(order[t]) : i # j => order[t][i] # order[t][j]
  /\ locked[t] <= Len(order[t])
  /\ pc[t] = "idle" => locked[t] = 0
  /\ pc[t] = "backoff" => cursor[t] \in 1..Len(order[t])
  /\ pc[t] \in Applying => locked[t] = Len(order[t]) /\ cursor[t] \in 1..Len(order[t])
  /\ op[t] # "commit" => t \notin McThreads
  /\ pc[t] = "accumulate" => op[t] # "commit"
  /\ op[t] = "read" => Len(order[t]) = 1

\* The owner of a lock is the thread that counts it among its locked entries.
LockOwner ==
  \A n \in Nodes, t \in Writers :
    lock[n] = t <=> \E i \in 1..locked[t] : order[t][i] = n

\* While a reader is between its version loads, moved tells how far the
\* version is ahead; as long as it has not moved, what was loaded is still
\* what the node holds.
ReaderView(r) ==
  rpc[r] \in {"load", "check"} =>
    /\ rversion[r] % 2 = 0
    /\ moved[r] < VersionModulus =>
         \/ version[rnode[r]] = rversion[r] + moved[r]
         \/ version[rnode[r]] = rversion[r] + moved[r] - VersionModulus
    /\ moved[r] = 0 =>
         \A a \in Actions \ rtodo[r] : snap[r][a] = regret[rnode[r]][a]
    /\ rpc[r] = "check" => rtodo[r] = {}

Sound(v) == Finite(v.regret) /\ Finite(v.strategy) /\ v.strategy >= 0

\* Action a of entry i is validated and has not been stored yet.
Unwritten(t, i, a) ==
  /\ pc[t] \in Applying
  /\ i \in cursor[t]..Len(order[t])
  /\ \/ i > cursor[t]
     \/ pc[t] \in {"begin", "accumulate"}
     \/ (pc[t] = "store" /\ a \in todo[t])

\* What was validated is still true of every value that is yet to be stored.
ValidatedHolds(t) ==
  \A i \in 1..Len(order[t]), a \in Actions :
    Unwritten(t, i, a) => Sound(Value(t, order[t][i], a))

Base == TypeOK /\ (\A t \in Writers : Shape(t)) /\ LockOwner

IInv ==
  /\ Base
  /\ VersionMarksWriter
  /\ \A r \in Readers : ReaderView(r)
  /\ AccumulatorsStayFinite
  /\ \A t \in Writers : ValidatedHolds(t)

\* The entry that a thread writes belongs to a node.
LEMMA TargetIsNode ==
  ASSUME Base, NEW t \in Writers, pc[t] \in Applying
  PROVE  Target(t) \in Nodes
BY DEF Base, TypeOK, Shape, Target

\* The workspace a commit starts with is well formed: each node once.
LEMMA StartCommitEntries ==
  ASSUME NEW t \in Writers, StartCommit(t)
  PROVE  \E entries \in Seq(Nodes), d \in [Nodes -> Delta] :
           /\ \A i, j \in 1..Len(entries) : i # j => entries[i] # entries[j]
           /\ Begin(t, "commit", entries, d)
<1>1. PICK entries \in SortedEntries(LockRank(t)) :
        \E d \in [{entries[i] : i \in DOMAIN entries} -> Deltas] :
          Begin(t, "commit", entries,
                [n \in Nodes |-> IF n \in DOMAIN d THEN d[n] ELSE NoDelta])
  BY DEF StartCommit
<1>2. PICK d \in [{entries[i] : i \in DOMAIN entries} -> Deltas] :
        Begin(t, "commit", entries,
              [n \in Nodes |-> IF n \in DOMAIN d THEN d[n] ELSE NoDelta])
  BY <1>1
<1>3. LockRank(t) \in [Nodes -> Nat]
  BY NodeCommitAssumption DEF LockRank
<1>4. /\ entries \in Seq(Nodes)
      /\ \A i, j \in 1..Len(entries) : i # j => entries[i] # entries[j]
  BY <1>1, <1>3, EntriesAreNodes
<1>5. Deltas \subseteq Delta
  BY NodeCommitAssumption DEF Delta, Vector
<1>6. [n \in Nodes |-> IF n \in DOMAIN d THEN d[n] ELSE NoDelta] \in [Nodes -> Delta]
  BY <1>2, <1>5, ZeroIsVector
<1>7. QED
  BY <1>2, <1>4, <1>6

\* A single-node operation starts with the one node it was given.
LEMMA StartNodeOpEntries ==
  ASSUME NEW t \in Writers, StartNodeOp(t)
  PROVE  /\ t \in ApiThreads
         /\ \E o \in NodeOps, n \in Nodes, d \in [Nodes -> Delta] :
              Begin(t, o, <<n>>, d)
<1>1. t \in ApiThreads
  BY DEF StartNodeOp
<1>2. PICK o \in ApiOps, n \in Nodes : \E d \in ApiDeltas(o) :
        Begin(t, o, <<n>>, [m \in Nodes |-> IF m = n THEN d ELSE NoDelta])
  BY DEF StartNodeOp
<1>3. PICK d \in ApiDeltas(o) :
        Begin(t, o, <<n>>, [m \in Nodes |-> IF m = n THEN d ELSE NoDelta])
  BY <1>2
<1>4. d \in Delta
  BY <1>3, ApiDeltasAreDeltas
<1>5. [m \in Nodes |-> IF m = n THEN d ELSE NoDelta] \in [Nodes -> Delta]
  BY <1>4, ZeroIsVector
<1>6. o \in NodeOps
  BY <1>2, NodeCommitAssumption
<1>7. QED
  BY <1>1, <1>3, <1>5, <1>6

\* Every step of a commit keeps the types.
LEMMA TypeWriter ==
  ASSUME Base, NEW t \in Writers, WriterStep(t)
  PROVE  TypeOK'
<1> USE DEF Base
<1>p. pc \in [Writers -> PcValues] /\ cursor \in [Writers -> Nat]
      /\ locked \in [Writers -> Nat] /\ order \in [Writers -> Seq(Nodes)]
      /\ lock \in [Nodes -> Writers \union {NoThread}]
  BY DEF TypeOK, PcValues
<1>r. UNCHANGED readerVars
  BY DEF WriterStep
<1>1. CASE StartCommit(t)
  <2>1. PICK entries \in Seq(Nodes), d \in [Nodes -> Delta] :
          Begin(t, "commit", entries, d)
    BY <1>1, StartCommitEntries
  <2>2. QED
    BY <2>1, <1>r, BeginTypes
<1>2. CASE StartNodeOp(t)
  <2>1. PICK o \in NodeOps, n \in Nodes, d \in [Nodes -> Delta] :
          Begin(t, o, <<n>>, d)
    BY <1>2, StartNodeOpEntries
  <2>2. <<n>> \in Seq(Nodes)
    OBVIOUS
  <2>3. QED
    BY <2>1, <2>2, <1>r, BeginTypes
<1>3. CASE LockNext(t)
  <2>1. lock' \in [Nodes -> Writers \union {NoThread}]
    BY <1>3, <1>p DEF LockNext, TryLock
  <2>2. locked[t] + 1 \in Nat /\ locked' = [locked EXCEPT ![t] = locked[t] + 1]
    BY <1>3, <1>p DEF LockNext
  <2>3. locked' \in [Writers -> Nat]
    BY <2>2, <1>p
  <2>4. QED
    BY <1>3, <1>r, <2>1, <2>3 DEF TypeOK, LockNext, readerVars
<1>4. CASE Conflict(t)
  BY SMTT(20), <1>4, <1>r DEF TypeOK, Conflict, readerVars, nodeVars
<1>5. CASE BackOff(t)
  <2>1. lock' \in [Nodes -> Writers \union {NoThread}]
    BY <1>5, <1>p DEF BackOff, Unlock
  <2>2. locked[t] - 1 \in Nat /\ locked' = [locked EXCEPT ![t] = locked[t] - 1]
    BY <1>5, <1>p DEF BackOff
  <2>3. locked' \in [Writers -> Nat]
    BY <2>2, <1>p
  <2>4. QED
    BY <1>5, <1>r, <2>1, <2>3 DEF TypeOK, BackOff, readerVars
<1>6. CASE Retry(t)
  BY <1>6, <1>r DEF TypeOK, Retry, readerVars, nodeVars
<1>7. CASE Check(t)
  <2>1. arena' \in [Writers -> [Nodes -> Delta]]
    <3>0. \A n \in Nodes : arena[t][n] \in Delta
      BY DEF TypeOK, Delta, Vector
    <3>1. \A n \in Nodes : Candidates(n, arena[t][n]) \in Delta
      BY <3>0, CandidatesAreDeltas
    <3>2. [n \in Nodes |-> IF \E i \in DOMAIN order[t] : order[t][i] = n
                           THEN Candidates(n, arena[t][n])
                           ELSE NoDelta] \in [Nodes -> Delta]
      BY <3>1, ZeroIsVector
    <3>3. arena \in [Writers -> [Nodes -> Delta]]
      BY DEF TypeOK, Delta, Vector
    <3>4. QED
      BY <1>7, <3>2, <3>3 DEF Check
  <2>2. pc' \in [Writers -> PcValues]
    BY <1>7, <1>p DEF Check, PcValues
  <2>3. cursor' \in [Writers -> Nat]
    <3>1. cursor' = cursor \/ cursor' = [cursor EXCEPT ![t] = 1]
      BY <1>7 DEF Check
    <3>2. QED
      BY <3>1, <1>p
  <2>4. QED
    BY <1>7, <1>r, <2>1, <2>2, <2>3
    DEF TypeOK, Check, readerVars, nodeVars, Delta, Vector, PcValues
<1>8. CASE BeginEntry(t)
  <2>1. Target(t) \in Nodes
    BY <1>8, TargetIsNode DEF BeginEntry, Applying
  <2>2. /\ version' \in [Nodes -> 0..(VersionModulus - 1)]
        /\ moved' \in [Readers -> 0..VersionModulus]
    BY <1>8, <2>1, BumpTypes DEF BeginEntry, BeginUpdate
  <2>3. Touched(t) \subseteq Actions
    BY DEF Touched
  <2>4. QED
    BY <1>8, <1>r, <2>2, <2>3 DEF TypeOK, BeginEntry, readerVars
<1>9. CASE StoreAction(t)
  <2>1. Target(t) \in Nodes
    BY <1>9, TargetIsNode DEF StoreAction, Applying
  <2>2. PICK a \in todo[t] :
          /\ regret' = [regret EXCEPT ![Target(t)][a] = Value(t, Target(t), a).regret]
          /\ strategy' = [strategy EXCEPT ![Target(t)][a] =
                            Value(t, Target(t), a).strategy]
          /\ todo' = [todo EXCEPT ![t] = @ \ {a}]
    BY <1>9 DEF StoreAction, StoreRegret
  <2>3. a \in Actions
    BY DEF TypeOK
  <2>4. /\ regret' \in [Nodes -> [Actions -> Int]]
        /\ strategy' \in [Nodes -> [Actions -> Int]]
    BY <2>1, <2>2, <2>3, ValueTypes, StoreTypes
  <2>5. todo' \in [Writers -> SUBSET Actions]
    BY <2>2 DEF TypeOK
  <2>6. QED
    BY <1>9, <1>r, <2>4, <2>5 DEF TypeOK, StoreAction, readerVars
<1>10. CASE EndEntry(t)
  <2>1. Target(t) \in Nodes
    BY <1>10, TargetIsNode DEF EndEntry, Applying
  <2>2. /\ version' \in [Nodes -> 0..(VersionModulus - 1)]
        /\ moved' \in [Readers -> 0..VersionModulus]
    BY <1>10, <2>1, BumpTypes DEF EndEntry, EndUpdate
  <2>3. /\ pc' \in [Writers -> PcValues]
        /\ cursor' \in [Writers -> Nat]
    <3>1. \E x \in PcValues : pc' = [pc EXCEPT ![t] = x]
      BY <1>10 DEF EndEntry, FinishEntry, PcValues
    <3>2. cursor[t] + 1 \in Nat
      BY <1>p
    <3>3. cursor' = cursor \/ cursor' = [cursor EXCEPT ![t] = cursor[t] + 1]
      BY <1>10 DEF EndEntry, FinishEntry
    <3>4. QED
      BY <3>1, <3>2, <3>3, <1>p
  <2>4. QED
    BY <1>10, <1>r, <2>2, <2>3 DEF TypeOK, EndEntry, readerVars, PcValues
<1>11. CASE ClampBegin(t)
  <2>1. Target(t) \in Nodes
    BY <1>11, TargetIsNode DEF ClampBegin, Applying
  <2>2. /\ version' \in [Nodes -> 0..(VersionModulus - 1)]
        /\ moved' \in [Readers -> 0..VersionModulus]
    BY <1>11, <2>1, BumpTypes DEF ClampBegin, BeginUpdate
  <2>3. QED
    BY <1>11, <1>r, <2>2 DEF TypeOK, ClampBegin, readerVars
<1>12. CASE ClampStore(t)
  <2>1. Target(t) \in Nodes
    BY <1>12, TargetIsNode DEF ClampStore, Applying
  <2>2. PICK a \in Actions : regret' = [regret EXCEPT ![Target(t)][a] = 0]
    BY <1>12 DEF ClampStore, StoreRegret
  <2>3. regret' \in [Nodes -> [Actions -> Int]]
    BY <2>1, <2>2, StoreTypes
  <2>4. QED
    BY <1>12, <1>r, <2>3 DEF TypeOK, ClampStore, readerVars
<1>13. CASE ClampEnd(t)
  <2>1. Target(t) \in Nodes
    BY <1>13, TargetIsNode DEF ClampEnd, Applying
  <2>2. /\ version' \in [Nodes -> 0..(VersionModulus - 1)]
        /\ moved' \in [Readers -> 0..VersionModulus]
    BY <1>13, <2>1, BumpTypes DEF ClampEnd, EndUpdate
  <2>3. QED
    BY <1>13, <1>r, <2>2 DEF TypeOK, ClampEnd, readerVars
<1>14. CASE ClampDone(t)
  <2>1. /\ pc' \in [Writers -> PcValues]
        /\ cursor' \in [Writers -> Nat]
    <3>1. \E x \in PcValues : pc' = [pc EXCEPT ![t] = x]
      BY <1>14 DEF ClampDone, FinishEntry, PcValues
    <3>2. cursor[t] + 1 \in Nat
      BY <1>p
    <3>3. cursor' = cursor \/ cursor' = [cursor EXCEPT ![t] = cursor[t] + 1]
      BY <1>14 DEF ClampDone, FinishEntry
    <3>4. QED
      BY <3>1, <3>2, <3>3, <1>p
  <2>2. QED
    BY <1>14, <1>r, <2>1 DEF TypeOK, ClampDone, readerVars, nodeVars, PcValues
<1>15. CASE Accumulate(t)
  <2>1. Target(t) \in Nodes
    BY <1>15, TargetIsNode DEF Accumulate, Applying
  <2>2. arena[t][Target(t)] \in Delta
    BY <2>1 DEF TypeOK, Delta, Vector
  <2>3. Candidates(Target(t), arena[t][Target(t)]).strategy \in [Actions -> Int]
    BY <2>1, <2>2, CandidatesAreDeltas DEF Delta, Vector
  <2>4. QED
    BY <1>15, <1>r, <2>3 DEF TypeOK, Accumulate, readerVars
<1>16. CASE LockedRead(t)
  BY <1>16, <1>r DEF TypeOK, LockedRead, readerVars, nodeVars
<1>17. CASE UnlockLast(t)
  <2>1. lock' \in [Nodes -> Writers \union {NoThread}]
    BY <1>17, <1>p DEF UnlockLast, Unlock
  <2>2. locked[t] - 1 \in Nat /\ locked' = [locked EXCEPT ![t] = locked[t] - 1]
    BY <1>17, <1>p DEF UnlockLast
  <2>3. locked' \in [Writers -> Nat]
    BY <2>2, <1>p
  <2>4. QED
    BY <1>17, <1>r, <2>1, <2>3 DEF TypeOK, UnlockLast, readerVars
<1>18. CASE Return(t)
  <2>1. /\ order' \in [Writers -> Seq(Nodes)]
        /\ arena' \in [Writers -> [Nodes -> Delta]]
    BY <1>18, ZeroIsVector, EmptySeq DEF TypeOK, Return, Delta, Vector
  <2>2. QED
    BY <1>18, <1>r, <2>1 DEF TypeOK, Return, readerVars, nodeVars, Delta, Vector
<1>19. QED
  BY <1>1, <1>2, <1>3, <1>4, <1>5, <1>6, <1>7, <1>8, <1>9, <1>10, <1>11, <1>12,
     <1>13, <1>14, <1>15, <1>16, <1>17, <1>18 DEF WriterStep

\* Every step of a lock-free reader keeps the types.
LEMMA TypeReader ==
  ASSUME TypeOK, NEW r \in Readers, ReaderStep(r), UNCHANGED commitVars
  PROVE  TypeOK'
<1>u. UNCHANGED nodeVars /\ UNCHANGED commitVars
  BY DEF ReaderStep
<1>p. /\ rpc \in [Readers -> RpcValues] /\ rnode \in [Readers -> Nodes]
      /\ version \in [Nodes -> 0..(VersionModulus - 1)]
      /\ rversion \in [Readers -> 0..(VersionModulus - 1)]
      /\ rtodo \in [Readers -> SUBSET Actions] /\ snap \in [Readers -> Vector]
      /\ moved \in [Readers -> 0..VersionModulus] /\ reads \in [Readers -> 0..MaxReads]
  BY DEF TypeOK, RpcValues, Vector
<1>1. CASE ReadStart(r)
  <2>1. /\ rnode' \in [Readers -> Nodes] /\ reads' \in [Readers -> 0..MaxReads]
        /\ rpc' \in [Readers -> RpcValues]
    BY <1>1, <1>p, InfoNodeAssumption DEF ReadStart, RpcValues
  <2>2. QED
    BY <1>1, <1>u, <2>1 DEF TypeOK, ReadStart, RpcValues, nodeVars, commitVars
<1>2. CASE ReadVersion(r)
  <2>1. /\ moved' \in [Readers -> 0..VersionModulus]
        /\ rversion' \in [Readers -> 0..(VersionModulus - 1)]
        /\ rtodo' \in [Readers -> SUBSET Actions] /\ rpc' \in [Readers -> RpcValues]
    BY <1>2, <1>p, InfoNodeAssumption DEF ReadVersion, RpcValues
  <2>2. QED
    BY <1>2, <1>u, <2>1 DEF TypeOK, ReadVersion, RpcValues, nodeVars, commitVars
<1>3. CASE ReadRegret(r)
  <2>1. PICK a \in rtodo[r] :
          /\ snap' = [snap EXCEPT ![r][a] = regret[rnode[r]][a]]
          /\ rtodo' = [rtodo EXCEPT ![r] = @ \ {a}]
    BY <1>3 DEF ReadRegret
  <2>2. a \in Actions /\ regret[rnode[r]][a] \in Int
    BY DEF TypeOK
  <2>3. [snap[r] EXCEPT ![a] = regret[rnode[r]][a]] \in [Actions -> Int]
    BY <2>2 DEF TypeOK
  <2>4. snap' \in [Readers -> [Actions -> Int]] /\ rtodo' \in [Readers -> SUBSET Actions]
    BY <2>1, <2>3 DEF TypeOK
  <2>5. QED
    BY <1>3, <2>4 DEF TypeOK, ReadRegret, ReaderStep, nodeVars, commitVars
<1>4. CASE ReadCheck(r)
  <2>1. /\ moved' \in [Readers -> 0..VersionModulus]
        /\ snap' \in [Readers -> Vector] /\ rpc' \in [Readers -> RpcValues]
    BY <1>4, <1>p, InfoNodeAssumption, ZeroIsVector DEF ReadCheck, RpcValues
  <2>2. QED
    BY <1>4, <1>u, <2>1 DEF TypeOK, ReadCheck, RpcValues, Vector, nodeVars, commitVars
<1>5. QED
  BY <1>1, <1>2, <1>3, <1>4 DEF ReaderStep

-----------------------------------------------------------------------------
(* Control: Shape and LockOwner.                                           *)

\* A writer changes its own control state only.
LEMMA WriterFrame ==
  ASSUME TypeOK, NEW t \in Writers, NEW u \in Writers, u # t, WriterStep(t)
  PROVE  /\ pc'[u] = pc[u] /\ op'[u] = op[u] /\ order'[u] = order[u]
         /\ arena'[u] = arena[u] /\ locked'[u] = locked[u]
         /\ cursor'[u] = cursor[u] /\ todo'[u] = todo[u]
<1>p. /\ DOMAIN pc = Writers /\ DOMAIN op = Writers /\ DOMAIN order = Writers
      /\ DOMAIN arena = Writers /\ DOMAIN locked = Writers
      /\ DOMAIN cursor = Writers /\ DOMAIN todo = Writers
  BY DEF TypeOK
<1>1. CASE StartCommit(t)
  BY <1>1, <1>p DEF StartCommit, Begin
<1>2. CASE StartNodeOp(t)
  BY <1>2, <1>p DEF StartNodeOp, Begin
<1>3. CASE LockNext(t)
  BY <1>3, <1>p DEF LockNext
<1>4. CASE Conflict(t)
  BY <1>4, <1>p DEF Conflict
<1>5. CASE BackOff(t)
  BY <1>5, <1>p DEF BackOff
<1>6. CASE Retry(t)
  BY <1>6, <1>p DEF Retry
<1>7. CASE Check(t)
  BY <1>7, <1>p DEF Check
<1>8. CASE BeginEntry(t)
  BY <1>8, <1>p DEF BeginEntry
<1>9. CASE StoreAction(t)
  BY <1>9, <1>p DEF StoreAction
<1>10. CASE EndEntry(t)
  BY <1>10, <1>p DEF EndEntry, FinishEntry
<1>11. CASE ClampBegin(t)
  BY <1>11, <1>p DEF ClampBegin
<1>12. CASE ClampStore(t)
  BY <1>12, <1>p DEF ClampStore
<1>13. CASE ClampEnd(t)
  BY <1>13, <1>p DEF ClampEnd
<1>14. CASE ClampDone(t)
  BY <1>14, <1>p DEF ClampDone, FinishEntry
<1>15. CASE Accumulate(t)
  BY <1>15, <1>p DEF Accumulate
<1>16. CASE LockedRead(t)
  BY <1>16, <1>p DEF LockedRead
<1>17. CASE UnlockLast(t)
  BY <1>17, <1>p DEF UnlockLast
<1>18. CASE Return(t)
  BY <1>18, <1>p DEF Return
<1>19. QED
  BY <1>1, <1>2, <1>3, <1>4, <1>5, <1>6, <1>7, <1>8, <1>9, <1>10,
     <1>11, <1>12, <1>13, <1>14, <1>15, <1>16, <1>17, <1>18 DEF WriterStep

\* Every step of a commit keeps the shape of its own call (locked_count,
\* cursor and control point agree), and of every other.
LEMMA ShapeWriter ==
  ASSUME Base, NEW t \in Writers, WriterStep(t)
  PROVE  \A u \in Writers : Shape(u)'
<1>1. ASSUME NEW u \in Writers, u # t PROVE Shape(u)'
  BY <1>1, WriterFrame DEF Base, Shape
<1>2. Shape(t)
  BY DEF Base
<1>3. /\ pc \in [Writers -> PcValues] /\ op \in [Writers -> {"commit"} \union NodeOps]
      /\ order \in [Writers -> Seq(Nodes)]
      /\ locked \in [Writers -> Nat] /\ cursor \in [Writers -> Nat]
  BY DEF Base, TypeOK, PcValues
<1>4. /\ order[t] \in Seq(Nodes) /\ Len(order[t]) \in Nat
      /\ locked[t] \in Nat /\ cursor[t] \in Nat
  BY <1>3
<1>5. Shape(t)'
  <2>1. CASE StartCommit(t)
    <3>1. PICK entries \in Seq(Nodes), d \in [Nodes -> Delta] :
            /\ \A i, j \in 1..Len(entries) : i # j => entries[i] # entries[j]
            /\ Begin(t, "commit", entries, d)
      BY <2>1, StartCommitEntries
    <3>2. /\ pc'[t] = "lock" /\ op'[t] = "commit" /\ order'[t] = entries
          /\ locked'[t] = 0
      BY <3>1, <1>3 DEF Begin
    <3>3. QED
      BY <3>1, <3>2 DEF Shape, Applying
  <2>2. CASE StartNodeOp(t)
    <3>1. PICK o \in NodeOps, n \in Nodes, d \in [Nodes -> Delta] :
            Begin(t, o, <<n>>, d)
      BY <2>2, StartNodeOpEntries
    <3>2. /\ pc'[t] = "lock" /\ op'[t] = o /\ order'[t] = <<n>> /\ locked'[t] = 0
      BY <3>1, <1>3 DEF Begin
    <3>3. t \notin McThreads
      BY <2>2, NodeCommitAssumption DEF StartNodeOp
    <3>4. Len(<<n>>) = 1
      OBVIOUS
    <3>5. QED
      BY <3>2, <3>3, <3>4 DEF Shape, Applying
  <2>3. CASE LockNext(t)
    <3>1. /\ pc'[t] = "lock" /\ op'[t] = op[t] /\ order'[t] = order[t]
          /\ locked'[t] = locked[t] + 1 /\ locked[t] # Len(order[t])
      BY <2>3, <1>3 DEF LockNext, AllLocked
    <3>2. QED
      BY <3>1, <1>2, <1>4 DEF Shape, Applying
  <2>4. CASE Conflict(t)
    <3>1. /\ pc'[t] = "backoff" /\ op'[t] = op[t] /\ order'[t] = order[t]
          /\ locked'[t] = locked[t] /\ cursor'[t] = locked[t] + 1
          /\ locked[t] # Len(order[t])
      BY <2>4, <1>3 DEF Conflict, AllLocked
    <3>2. QED
      BY <3>1, <1>2, <1>4 DEF Shape, Applying
  <2>5. CASE BackOff(t)
    <3>1. /\ pc'[t] = "backoff" /\ pc[t] = "backoff" /\ op'[t] = op[t]
          /\ order'[t] = order[t] /\ cursor'[t] = cursor[t]
          /\ locked'[t] = locked[t] - 1
      BY <2>5, <1>3 DEF BackOff
    <3>2. QED
      BY <3>1, <1>2, <1>4 DEF Shape, Applying
  <2>6. CASE Retry(t)
    <3>1. /\ pc'[t] = "lock" /\ op'[t] = op[t] /\ order'[t] = order[t]
          /\ locked'[t] = locked[t]
      BY <2>6, <1>3 DEF Retry
    <3>2. QED
      BY <3>1, <1>2, <1>4 DEF Shape, Applying
  <2>7. CASE Check(t)
    <3>1. /\ op'[t] = op[t] /\ order'[t] = order[t]
          /\ locked'[t] = locked[t] /\ locked[t] = Len(order[t])
      BY <2>7, <1>3 DEF Check, AllLocked
    <3>2. CASE EntriesValid(t) /\ Len(order[t]) > 0
      <4>1. /\ pc'[t] = IF op[t] = "accumulate" THEN "accumulate" ELSE "begin"
            /\ cursor'[t] = 1
        BY <2>7, <3>2, <1>3 DEF Check
      <4>2. QED
        BY <4>1, <3>1, <3>2, <1>2, <1>4 DEF Shape, Applying
    <3>3. CASE ~(EntriesValid(t) /\ Len(order[t]) > 0)
      <4>1. pc'[t] = "unlock"
        BY <2>7, <3>3, <1>3 DEF Check
      <4>2. QED
        BY <4>1, <3>1, <1>2, <1>4 DEF Shape, Applying
    <3>4. QED
      BY <3>2, <3>3
  <2>8. CASE \/ BeginEntry(t) \/ StoreAction(t)
             \/ ClampBegin(t) \/ ClampStore(t) \/ ClampEnd(t)
    <3>1. /\ pc[t] \in Applying \ {"accumulate"} /\ pc'[t] \in Applying \ {"accumulate"}
          /\ op'[t] = op[t] /\ order'[t] = order[t]
          /\ locked'[t] = locked[t] /\ cursor'[t] = cursor[t]
      BY <2>8, <1>3
      DEF BeginEntry, StoreAction, ClampBegin, ClampStore, ClampEnd, Applying
    <3>2. QED
      BY <3>1, <1>2, <1>4 DEF Shape, Applying
  <2>9. CASE EndEntry(t) \/ ClampDone(t)
    <3>1. /\ pc[t] \in {"store", "clamp"}
          /\ op'[t] = op[t] /\ order'[t] = order[t] /\ locked'[t] = locked[t]
      BY <2>9, <1>3 DEF EndEntry, ClampDone
    <3>2. \/ (pc'[t] = "clamp" /\ cursor'[t] = cursor[t])
          \/ pc'[t] = "unlock"
          \/ (/\ pc'[t] = "begin" /\ cursor'[t] = cursor[t] + 1
              /\ cursor[t] < Len(order[t]))
      BY <2>9, <1>3 DEF EndEntry, ClampDone, FinishEntry
    <3>3. QED
      BY <3>1, <3>2, <1>2, <1>4 DEF Shape, Applying
  <2>10. CASE Accumulate(t) \/ LockedRead(t)
    <3>1. /\ pc'[t] = "unlock" /\ op'[t] = op[t] /\ order'[t] = order[t]
          /\ locked'[t] = locked[t]
      BY <2>10, <1>3 DEF Accumulate, LockedRead
    <3>2. QED
      BY <3>1, <1>2, <1>4 DEF Shape, Applying
  <2>11. CASE UnlockLast(t)
    <3>1. /\ pc'[t] = "unlock" /\ op'[t] = op[t] /\ order'[t] = order[t]
          /\ locked'[t] = locked[t] - 1
      BY <2>11, <1>3 DEF UnlockLast
    <3>2. QED
      BY <3>1, <1>2, <1>4 DEF Shape, Applying
  <2>12. CASE Return(t)
    <3>1. /\ pc'[t] = "idle" /\ op'[t] = "commit" /\ order'[t] = <<>>
          /\ locked'[t] = 0
      BY <2>12, <1>3 DEF Return
    <3>2. Len(<<>>) = 0
      OBVIOUS
    <3>3. QED
      BY <3>1, <3>2 DEF Shape, Applying
  <2>13. QED
    BY <2>1, <2>2, <2>3, <2>4, <2>5, <2>6, <2>7, <2>8, <2>9, <2>10, <2>11, <2>12
    DEF WriterStep
<1>6. QED
  BY <1>1, <1>5

\* Every step keeps the lock bytes and the locked prefixes of the workspaces
\* in agreement.
LEMMA LockWriter ==
  ASSUME Base, NEW t \in Writers, WriterStep(t)
  PROVE  LockOwner'
<1>1. /\ order \in [Writers -> Seq(Nodes)] /\ locked \in [Writers -> Nat]
      /\ lock \in [Nodes -> Writers \union {NoThread}]
  BY DEF Base, TypeOK
<1>2. /\ order[t] \in Seq(Nodes) /\ Len(order[t]) \in Nat /\ locked[t] \in Nat
  BY <1>1
<1>3. NoThread \notin Writers
  BY InfoNodeAssumption
<1>4. Shape(t) /\ LockOwner
  BY DEF Base
<1>5. \A u \in Writers : u # t => order'[u] = order[u] /\ locked'[u] = locked[u]
  BY WriterFrame DEF Base
<1>6. CASE lock' = lock /\ locked'[t] = locked[t] /\ (order'[t] = order[t] \/ locked[t] = 0)
  <2>1. \A u \in Writers, n \in Nodes :
          (\E i \in 1..locked'[u] : order'[u][i] = n)
            <=> (\E i \in 1..locked[u] : order[u][i] = n)
    BY <1>5, <1>6
  <2>2. QED
    BY <1>4, <1>6, <2>1 DEF LockOwner
<1>7. CASE LockNext(t)
  <2> DEFINE k == locked[t] + 1
  <2>1. /\ lock[order[t][k]] = NoThread
        /\ lock' = [lock EXCEPT ![order[t][k]] = t]
        /\ locked'[t] = k /\ order'[t] = order[t] /\ locked[t] # Len(order[t])
    BY <1>7, <1>1 DEF LockNext, TryLock, AllLocked
  <2>2. k \in 1..Len(order[t]) /\ order[t][k] \in Nodes
    BY <2>1, <1>4, <1>2 DEF Shape
  <2> HIDE DEF k
  <2>3. ASSUME NEW n \in Nodes
        PROVE  lock'[n] = t <=> \E i \in 1..locked'[t] : order'[t][i] = n
    <3>1. CASE n = order[t][k]
      BY <3>1, <2>1, <2>2, <1>1
    <3>2. CASE n # order[t][k]
      <4>1. lock'[n] = lock[n]
        BY <3>2, <2>1, <1>1
      <4>2. (\E i \in 1..k : order[t][i] = n) <=> (\E i \in 1..locked[t] : order[t][i] = n)
        BY <3>2, <1>2 DEF k
      <4>3. QED
        BY <4>1, <4>2, <2>1, <1>4 DEF LockOwner
    <3>3. QED
      BY <3>1, <3>2
  <2>4. ASSUME NEW n \in Nodes, NEW u \in Writers, u # t
        PROVE  lock'[n] = u <=> \E i \in 1..locked'[u] : order'[u][i] = n
    <3>1. lock'[n] = u <=> lock[n] = u
      BY <2>4, <2>1, <2>2, <1>1, <1>3
    <3>2. QED
      BY <3>1, <2>4, <1>5, <1>4 DEF LockOwner
  <2>5. QED
    BY <2>3, <2>4 DEF LockOwner
<1>8. CASE BackOff(t) \/ UnlockLast(t)
  <2> DEFINE k == locked[t]
  <2>1. /\ k > 0 /\ lock' = [lock EXCEPT ![order[t][k]] = NoThread]
        /\ locked'[t] = k - 1 /\ order'[t] = order[t]
    BY <1>8, <1>1 DEF BackOff, UnlockLast, Unlock
  <2>2. k \in 1..Len(order[t]) /\ order[t][k] \in Nodes
    BY <2>1, <1>4, <1>2 DEF Shape
  <2>3. lock[order[t][k]] = t
    BY <2>2, <1>4 DEF LockOwner
  <2>4. ASSUME NEW n \in Nodes
        PROVE  lock'[n] = t <=> \E i \in 1..locked'[t] : order'[t][i] = n
    <3>1. CASE n = order[t][k]
      <4>1. lock'[n] = NoThread
        BY <3>1, <2>1, <1>1
      <4>2. \A i \in 1..(k - 1) : order[t][i] # n
        BY <3>1, <2>2, <1>2, <1>4 DEF Shape
      <4>3. QED
        BY <4>1, <4>2, <2>1, <1>3
    <3>2. CASE n # order[t][k]
      <4>1. lock'[n] = lock[n]
        BY <3>2, <2>1, <1>1
      <4>2. (\E i \in 1..(k - 1) : order[t][i] = n)
              <=> (\E i \in 1..locked[t] : order[t][i] = n)
        BY <3>2, <1>2
      <4>3. QED
        BY <4>1, <4>2, <2>1, <1>4 DEF LockOwner
    <3>3. QED
      BY <3>1, <3>2
  <2>5. ASSUME NEW n \in Nodes, NEW u \in Writers, u # t
        PROVE  lock'[n] = u <=> \E i \in 1..locked'[u] : order'[u][i] = n
    <3>1. lock'[n] = u <=> lock[n] = u
      BY <2>5, <2>1, <2>2, <2>3, <1>1, <1>3
    <3>2. QED
      BY <3>1, <2>5, <1>5, <1>4 DEF LockOwner
  <2>6. QED
    BY <2>4, <2>5 DEF LockOwner
<1>9. CASE StartCommit(t) \/ StartNodeOp(t)
  <2>1. pc[t] = "idle" /\ lock' = lock /\ locked'[t] = 0
    BY <1>9, <1>1 DEF StartCommit, StartNodeOp, Begin, nodeVars
  <2>2. QED
    BY <2>1, <1>4, <1>6 DEF Shape
<1>10. CASE Return(t)
  <2>1. locked[t] = 0 /\ lock' = lock /\ locked'[t] = locked[t]
    BY <1>10 DEF Return, nodeVars
  <2>2. QED
    BY <2>1, <1>6
<1>11. CASE \/ Conflict(t) \/ Retry(t) \/ Check(t) \/ BeginEntry(t) \/ StoreAction(t)
            \/ EndEntry(t) \/ ClampBegin(t) \/ ClampStore(t) \/ ClampEnd(t)
            \/ ClampDone(t) \/ Accumulate(t) \/ LockedRead(t)
  <2>1. lock' = lock /\ locked' = locked /\ order' = order
    BY <1>11
    DEF Conflict, Retry, Check, BeginEntry, StoreAction, EndEntry, ClampBegin,
        ClampStore, ClampEnd, ClampDone, Accumulate, LockedRead, nodeVars
  <2>2. QED
    BY <2>1, <1>6
<1>12. QED
  BY <1>7, <1>8, <1>9, <1>10, <1>11 DEF WriterStep

-----------------------------------------------------------------------------
(* The version window and the lock-free reader.                            *)

\* A thread that applies its entries owns the node it is at.
LEMMA OwnsTarget ==
  ASSUME Base, NEW t \in Writers, pc[t] \in Applying
  PROVE  Target(t) \in Nodes /\ lock[Target(t)] = t
<1>1. /\ locked[t] = Len(order[t]) /\ cursor[t] \in 1..Len(order[t])
      /\ order[t] \in Seq(Nodes)
  BY DEF Base, Shape, TypeOK
<1>2. order[t][cursor[t]] \in Nodes
  BY <1>1
<1>3. lock[order[t][cursor[t]]] = t
  BY <1>1, <1>2 DEF Base, LockOwner
<1>4. QED
  BY <1>2, <1>3 DEF Target

\* A version step changes the parity of one version: the modulus is even.
LEMMA BumpFlips ==
  ASSUME TypeOK, NEW n \in Nodes, BumpVersion(n)
  PROVE  /\ version'[n] % 2 = 1 <=> version[n] % 2 = 0
         /\ \A m \in Nodes : m # n => version'[m] = version[m]
<1>1. version \in [Nodes -> 0..(VersionModulus - 1)] /\ version[n] \in Nat
  BY InfoNodeAssumption DEF TypeOK
<1>2. version'[n] = IF version[n] + 1 = VersionModulus THEN 0 ELSE version[n] + 1
  BY <1>1 DEF BumpVersion
<1>3. VersionModulus \in Nat /\ VersionModulus % 2 = 0
  BY InfoNodeAssumption
<1>4. \A v \in Nat : (v + 1) % 2 = 1 <=> v % 2 = 0
  OBVIOUS
<1>5. CASE version[n] + 1 = VersionModulus
  <2>1. version[n] % 2 # 0
    BY <1>1, <1>3, <1>4, <1>5
  <2>2. version'[n] = 0 /\ 0 % 2 = 0
    BY <1>2, <1>5
  <2>3. QED
    BY <2>1, <2>2, <1>1 DEF BumpVersion
<1>6. CASE version[n] + 1 # VersionModulus
  BY <1>1, <1>2, <1>4, <1>6 DEF BumpVersion
<1>7. QED
  BY <1>5, <1>6

InWindow == {"store", "clamping", "clamped"}

\* The window is opened and closed by version steps, and by nothing else.
LEMMA WindowWriter ==
  ASSUME Base, Base', VersionMarksWriter, NEW t \in Writers, WriterStep(t)
  PROVE  VersionMarksWriter'
<1>1. /\ pc \in [Writers -> PcValues] /\ order \in [Writers -> Seq(Nodes)]
      /\ cursor \in [Writers -> Nat]
      /\ version \in [Nodes -> 0..(VersionModulus - 1)] /\ TypeOK
  BY DEF Base, TypeOK, PcValues
<1>2. ASSUME NEW n \in Nodes, NEW u \in Writers PROVE Writing(u, n)' => lock'[n] = u
  <2>1. ASSUME pc'[u] \in Applying PROVE lock'[Target(u)'] = u
    <3>1. /\ locked'[u] = Len(order'[u]) /\ cursor'[u] \in 1..Len(order'[u])
          /\ order'[u] \in Seq(Nodes)
      BY <2>1 DEF Base, Shape, TypeOK
    <3>2. order'[u][cursor'[u]] \in Nodes
      BY <3>1
    <3>3. QED
      BY <3>1, <3>2 DEF Base, LockOwner, Target
  <2>2. QED
    BY <2>1 DEF Writing, Applying
<1>3. ASSUME NEW n \in Nodes
      PROVE  version'[n] % 2 = 1 <=> \E u \in Writers : Writing(u, n)'
  <2>1. ASSUME NEW u \in Writers, u # t PROVE Writing(u, n)' <=> Writing(u, n)
    BY <2>1, WriterFrame, <1>1 DEF Writing, Target
  <2>2. version[n] % 2 = 1 <=> \E u \in Writers : Writing(u, n)
    BY DEF VersionMarksWriter
  <2>3. pc[t] \in Applying => Target(t) \in Nodes /\ lock[Target(t)] = t
    BY OwnsTarget
  <2>4. \A u \in Writers : Writing(u, n) => lock[n] = u
    BY DEF VersionMarksWriter
  <2>5. version[n] % 2 = 1 \/ version[n] % 2 = 0
    BY <1>1
  <2>6. CASE BeginEntry(t) \/ ClampBegin(t)
    <3>1. /\ pc[t] \in Applying /\ pc[t] \notin InWindow /\ pc'[t] \in InWindow
          /\ order' = order /\ cursor' = cursor
          /\ BumpVersion(Target(t))
      BY <2>6, <1>1 DEF BeginEntry, ClampBegin, Applying, InWindow, BeginUpdate
    <3>2. Target(t)' = Target(t)
      BY <3>1 DEF Target
    <3>3. CASE n = Target(t)
      <4>1. version'[n] % 2 = 1 <=> version[n] % 2 = 0
        BY <3>1, <3>3, BumpFlips, <1>1
      <4>2. \A u \in Writers : ~Writing(u, n)
        BY <3>1, <3>3, <2>3, <2>4 DEF Writing, InWindow
      <4>3. Writing(t, n)'
        BY <3>1, <3>2, <3>3 DEF Writing, InWindow
      <4>4. QED
        BY <4>1, <4>2, <4>3, <2>2, <2>5
    <3>4. CASE n # Target(t)
      <4>1. version'[n] = version[n]
        BY <3>1, <3>4, <2>3, BumpFlips, <1>1
      <4>2. ~Writing(t, n) /\ ~Writing(t, n)'
        BY <3>2, <3>4 DEF Writing
      <4>3. QED
        BY <4>1, <4>2, <2>1, <2>2
    <3>5. QED
      BY <3>3, <3>4
  <2>7. CASE EndEntry(t) \/ ClampEnd(t)
    <3>1. /\ pc[t] \in Applying /\ pc[t] \in InWindow /\ pc'[t] \notin InWindow
          /\ BumpVersion(Target(t))
      BY <2>7, <1>1 DEF EndEntry, ClampEnd, FinishEntry, Applying, InWindow, EndUpdate
    <3>2. ~Writing(t, n)'
      BY <3>1 DEF Writing, InWindow
    <3>3. CASE n = Target(t)
      <4>1. version'[n] % 2 = 1 <=> version[n] % 2 = 0
        BY <3>1, <3>3, BumpFlips, <1>1
      <4>2. Writing(t, n)
        BY <3>1, <3>3 DEF Writing, InWindow
      <4>3. \A u \in Writers : ~Writing(u, n)'
        BY <3>2, <4>2, <2>1, <2>4
      <4>4. QED
        BY <4>1, <4>2, <4>3, <2>2, <2>5
    <3>4. CASE n # Target(t)
      <4>1. version'[n] = version[n]
        BY <3>1, <3>4, <2>3, BumpFlips, <1>1
      <4>2. ~Writing(t, n)
        BY <3>4 DEF Writing
      <4>3. QED
        BY <4>1, <4>2, <3>2, <2>1, <2>2
    <3>5. QED
      BY <3>3, <3>4
  <2>8. CASE StoreAction(t) \/ ClampStore(t)
    <3>1. /\ pc[t] \in InWindow /\ pc'[t] \in InWindow /\ version' = version
          /\ order' = order /\ cursor' = cursor
      BY <2>8, <1>1 DEF StoreAction, ClampStore, InWindow
    <3>2. Writing(t, n)' <=> Writing(t, n)
      BY <3>1 DEF Writing, InWindow, Target
    <3>3. QED
      BY <3>1, <3>2, <2>1, <2>2
  <2>9. CASE \/ StartCommit(t) \/ StartNodeOp(t) \/ LockNext(t) \/ Conflict(t)
             \/ BackOff(t) \/ Retry(t) \/ Check(t) \/ ClampDone(t) \/ Accumulate(t)
             \/ LockedRead(t) \/ UnlockLast(t) \/ Return(t)
    <3>1. pc[t] \notin InWindow /\ pc'[t] \notin InWindow /\ version' = version
      BY <2>9, <1>1
      DEF StartCommit, StartNodeOp, Begin, LockNext, Conflict, BackOff, Retry, Check,
          ClampDone, FinishEntry, Accumulate, LockedRead, UnlockLast, Return,
          nodeVars, InWindow
    <3>2. ~Writing(t, n) /\ ~Writing(t, n)'
      BY <3>1 DEF Writing, InWindow
    <3>3. QED
      BY <3>1, <3>2, <2>1, <2>2
  <2>10. QED
    BY <2>6, <2>7, <2>8, <2>9 DEF WriterStep
<1>4. QED
  BY <1>2, <1>3 DEF VersionMarksWriter

\* The node a thread stores to is inside its version window.
LEMMA StoreInWindow ==
  ASSUME Base, NEW t \in Writers, WriterStep(t)
  PROVE  \/ regret' = regret
         \/ /\ pc[t] \in InWindow /\ version' = version /\ moved' = moved
            /\ \A n \in Nodes : n # Target(t) => regret'[n] = regret[n]
<1>1. regret \in [Nodes -> [Actions -> Int]]
  BY DEF Base, TypeOK
<1>2. CASE StoreAction(t) \/ ClampStore(t)
  BY <1>1, <1>2 DEF StoreAction, ClampStore, StoreRegret, InWindow
<1>3. CASE ~(StoreAction(t) \/ ClampStore(t))
  BY <1>3
  DEF WriterStep, StartCommit, StartNodeOp, Begin, LockNext, Conflict, BackOff, Retry,
      Check, BeginEntry, EndEntry, ClampBegin, ClampEnd, ClampDone, Accumulate,
      LockedRead, UnlockLast, Return, nodeVars
<1>4. QED
  BY <1>2, <1>3

\* What one step of a writer does to a version that a reader watches.
LEMMA VersionSteps ==
  ASSUME Base, NEW t \in Writers, WriterStep(t)
  PROVE  \/ version' = version /\ moved' = moved
         \/ \E n \in Nodes : BumpVersion(n) /\ regret' = regret
<1>1. CASE BeginEntry(t) \/ EndEntry(t) \/ ClampBegin(t) \/ ClampEnd(t)
  <2>1. pc[t] \in Applying /\ BumpVersion(Target(t)) /\ regret' = regret
    BY <1>1
    DEF BeginEntry, EndEntry, ClampBegin, ClampEnd, BeginUpdate, EndUpdate, Applying
  <2>2. QED
    BY <2>1, TargetIsNode
<1>2. CASE ~(BeginEntry(t) \/ EndEntry(t) \/ ClampBegin(t) \/ ClampEnd(t))
  BY <1>2
  DEF WriterStep, StartCommit, StartNodeOp, Begin, LockNext, Conflict, BackOff, Retry,
      Check, StoreAction, ClampStore, ClampDone, Accumulate, LockedRead, UnlockLast,
      Return, nodeVars
<1>3. QED
  BY <1>1, <1>2

\* A step of a writer keeps what a reader in its loop may conclude: its loads
\* are current unless the version moved.
LEMMA ViewWriter ==
  ASSUME Base, VersionMarksWriter, NEW t \in Writers, WriterStep(t),
         NEW r \in Readers, ReaderView(r)
  PROVE  ReaderView(r)'
<1> DEFINE m == rnode[r]
<1>1. UNCHANGED readerVars
  BY DEF WriterStep
<1>2. /\ rnode'[r] = m /\ rpc'[r] = rpc[r] /\ rversion'[r] = rversion[r]
      /\ rtodo'[r] = rtodo[r] /\ snap'[r] = snap[r]
  BY <1>1 DEF readerVars
<1>3. /\ m \in Nodes /\ version[m] \in 0..(VersionModulus - 1)
      /\ rversion[r] \in 0..(VersionModulus - 1) /\ moved[r] \in 0..VersionModulus
      /\ VersionModulus \in Nat
  BY InfoNodeAssumption DEF Base, TypeOK
<1>4. SUFFICES ASSUME rpc[r] \in {"load", "check"} PROVE ReaderView(r)'
  BY <1>2 DEF ReaderView
<1>5. /\ rversion[r] % 2 = 0
      /\ moved[r] < VersionModulus =>
           \/ version[m] = rversion[r] + moved[r]
           \/ version[m] = rversion[r] + moved[r] - VersionModulus
      /\ moved[r] = 0 => \A a \in Actions \ rtodo[r] : snap[r][a] = regret[m][a]
      /\ rpc[r] = "check" => rtodo[r] = {}
  BY <1>4 DEF ReaderView
<1> HIDE DEF m
<1>6. CASE version' = version /\ moved' = moved
  <2>1. moved[r] = 0 => regret'[m] = regret[m]
    <3> SUFFICES ASSUME moved[r] = 0 PROVE regret'[m] = regret[m]
      OBVIOUS
    <3>1. version[m] % 2 = 0
      BY <1>3, <1>5
    <3>2. pc[t] \in InWindow => m # Target(t)
      BY <3>1, <1>3 DEF VersionMarksWriter, Writing, InWindow
    <3>3. QED
      BY <3>2, <1>3, StoreInWindow
  <2>2. QED
    BY <2>1, <1>2, <1>5, <1>6 DEF ReaderView, m
<1>7. CASE \E n \in Nodes : BumpVersion(n) /\ regret' = regret
  <2>1. PICK n \in Nodes : BumpVersion(n) /\ regret' = regret
    BY <1>7
  <2>2. /\ version'[m] = IF m # n THEN version[m]
                         ELSE IF version[m] + 1 = VersionModulus THEN 0 ELSE version[m] + 1
        /\ moved'[r] = IF m = n /\ moved[r] < VersionModulus
                       THEN moved[r] + 1 ELSE moved[r]
    BY <2>1, <1>3, <1>4 DEF BumpVersion, Base, TypeOK, m
  <2>3. moved'[r] < VersionModulus =>
          \/ version'[m] = rversion[r] + moved'[r]
          \/ version'[m] = rversion[r] + moved'[r] - VersionModulus
    BY <2>2, <1>3, <1>5
  <2>4. moved'[r] = 0 => moved[r] = 0
    BY <2>2, <1>3
  <2>5. QED
    BY <2>1, <2>3, <2>4, <1>2, <1>5 DEF ReaderView, m
<1>8. QED
  BY <1>6, <1>7, VersionSteps

\* A step of the reader itself keeps it.
LEMMA ViewReader ==
  ASSUME TypeOK, NEW r \in Readers, ReaderStep(r),
         NEW q \in Readers, ReaderView(q)
  PROVE  ReaderView(q)'
<1>1. version' = version /\ regret' = regret
  BY DEF ReaderStep, nodeVars
<1>2. /\ rpc \in [Readers -> RpcValues] /\ rnode \in [Readers -> Nodes]
      /\ rversion \in [Readers -> 0..(VersionModulus - 1)]
      /\ version \in [Nodes -> 0..(VersionModulus - 1)]
      /\ rtodo \in [Readers -> SUBSET Actions] /\ snap \in [Readers -> Vector]
      /\ moved \in [Readers -> 0..VersionModulus]
  BY DEF TypeOK, RpcValues, Vector
<1>3. CASE q # r
  <2>1. /\ rpc'[q] = rpc[q] /\ rnode'[q] = rnode[q] /\ rversion'[q] = rversion[q]
        /\ rtodo'[q] = rtodo[q] /\ snap'[q] = snap[q] /\ moved'[q] = moved[q]
    BY <1>2, <1>3 DEF ReaderStep, ReadStart, ReadVersion, ReadRegret, ReadCheck
  <2>2. QED
    BY <1>1, <2>1 DEF ReaderView
<1>4. CASE q = r
  <2>1. CASE ReadStart(r) \/ ReadCheck(r)
    <3>1. rpc'[r] \in {"version", "idle"}
      BY <2>1, <1>2 DEF ReadStart, ReadCheck
    <3>2. QED
      BY <3>1, <1>4 DEF ReaderView
  <2>2. CASE ReadVersion(r)
    <3>1. /\ rpc'[r] = "load" /\ rnode'[r] = rnode[r] /\ moved'[r] = 0
          /\ rversion'[r] = version[rnode[r]] /\ version[rnode[r]] % 2 = 0
          /\ rtodo'[r] = Actions
      BY <2>2, <1>2 DEF ReadVersion
    <3>2. version[rnode[r]] \in Int
      BY <1>2
    <3>3. QED
      BY <3>1, <3>2, <1>1, <1>4 DEF ReaderView
  <2>3. CASE ReadRegret(r)
    <3>1. PICK a \in rtodo[r] :
            /\ snap' = [snap EXCEPT ![r][a] = regret[rnode[r]][a]]
            /\ rtodo' = [rtodo EXCEPT ![r] = @ \ {a}]
      BY <2>3 DEF ReadRegret
    <3>2. /\ rnode'[r] = rnode[r] /\ moved'[r] = moved[r] /\ rversion'[r] = rversion[r]
          /\ rpc'[r] = (IF rtodo'[r] = {} THEN "check" ELSE "load")
          /\ rpc[r] = "load"
      BY <2>3, <1>2 DEF ReadRegret
    <3>3. rtodo'[r] = rtodo[r] \ {a} /\ a \in Actions
      BY <3>1, <1>2
    <3>4. \A b \in Actions :
            snap'[r][b] = IF b = a THEN regret[rnode[r]][a] ELSE snap[r][b]
      BY <3>1, <1>2 DEF Vector
    <3>5. moved[r] = 0 =>
            \A b \in Actions \ rtodo'[r] : snap'[r][b] = regret[rnode[r]][b]
      BY <3>2, <3>3, <3>4, <1>4 DEF ReaderView
    <3>6. QED
      BY <3>2, <3>5, <1>1, <1>4 DEF ReaderView
  <2>4. QED
    BY <2>1, <2>2, <2>3 DEF ReaderStep
<1>5. QED
  BY <1>3, <1>4

-----------------------------------------------------------------------------
(* The accumulators.                                                       *)

\* A step changes the sums of the node its thread is at, if any.
LEMMA SumsFrame ==
  ASSUME Base, NEW t \in Writers, WriterStep(t)
  PROVE  \/ regret' = regret /\ strategy' = strategy
         \/ /\ pc[t] \in Applying
            /\ \A n \in Nodes : n # Target(t) =>
                 regret'[n] = regret[n] /\ strategy'[n] = strategy[n]
<1>1. regret \in [Nodes -> [Actions -> Int]] /\ strategy \in [Nodes -> [Actions -> Int]]
  BY DEF Base, TypeOK
<1>2. CASE StoreAction(t) \/ ClampStore(t) \/ Accumulate(t)
  BY <1>1, <1>2 DEF StoreAction, ClampStore, Accumulate, StoreRegret, Applying
<1>3. CASE ~(StoreAction(t) \/ ClampStore(t) \/ Accumulate(t))
  BY <1>3
  DEF WriterStep, StartCommit, StartNodeOp, Begin, LockNext, Conflict, BackOff, Retry,
      Check, BeginEntry, EndEntry, ClampBegin, ClampEnd, ClampDone,
      LockedRead, UnlockLast, Return, nodeVars
<1>4. QED
  BY <1>2, <1>3

\* Effect of the three actions that write sums, element by element.
LEMMA StoreEffect ==
  ASSUME Base, NEW t \in Writers, StoreAction(t)
  PROVE  /\ Target(t) \in Nodes
         /\ \E a \in todo[t] :
              /\ a \in Actions /\ todo'[t] = todo[t] \ {a}
              /\ \A b \in Actions :
                   /\ regret'[Target(t)][b] = IF b = a THEN Value(t, Target(t), a).regret
                                              ELSE regret[Target(t)][b]
                   /\ strategy'[Target(t)][b] = IF b = a THEN Value(t, Target(t), a).strategy
                                                ELSE strategy[Target(t)][b]
<1>1. /\ regret \in [Nodes -> [Actions -> Int]] /\ strategy \in [Nodes -> [Actions -> Int]]
      /\ todo \in [Writers -> SUBSET Actions]
  BY DEF Base, TypeOK
<1>2. Target(t) \in Nodes
  BY TargetIsNode DEF StoreAction, Applying
<1>3. PICK a \in todo[t] :
        /\ regret' = [regret EXCEPT ![Target(t)][a] = Value(t, Target(t), a).regret]
        /\ strategy' = [strategy EXCEPT ![Target(t)][a] = Value(t, Target(t), a).strategy]
        /\ todo' = [todo EXCEPT ![t] = @ \ {a}]
  BY DEF StoreAction, StoreRegret
<1>4. a \in Actions /\ todo'[t] = todo[t] \ {a}
  BY <1>1, <1>3
<1>5. \A b \in Actions :
        /\ regret'[Target(t)][b] = IF b = a THEN Value(t, Target(t), a).regret
                                   ELSE regret[Target(t)][b]
        /\ strategy'[Target(t)][b] = IF b = a THEN Value(t, Target(t), a).strategy
                                     ELSE strategy[Target(t)][b]
  BY <1>1, <1>2, <1>3, <1>4
<1>6. QED
  BY <1>2, <1>4, <1>5

\* Every store keeps the accumulators finite, since it writes values that
\* were validated.
LEMMA FiniteWriter ==
  ASSUME Base, AccumulatorsStayFinite, NEW t \in Writers, ValidatedHolds(t), WriterStep(t)
  PROVE  AccumulatorsStayFinite'
<1>1. /\ regret \in [Nodes -> [Actions -> Int]] /\ strategy \in [Nodes -> [Actions -> Int]]
  BY DEF Base, TypeOK
<1>2. Finite(0)
  BY InfoNodeAssumption DEF Finite
<1>3. pc[t] \in Applying =>
        /\ cursor[t] \in 1..Len(order[t]) /\ Len(order[t]) \in Nat
        /\ order[t][cursor[t]] = Target(t) /\ Target(t) \in Nodes
  BY TargetIsNode DEF Base, Shape, Target, TypeOK
<1>4. SUFFICES ASSUME NEW n \in Nodes, NEW a \in Actions
               PROVE  Finite(regret'[n][a]) /\ Finite(strategy'[n][a])
                      /\ strategy'[n][a] >= 0
  BY DEF AccumulatorsStayFinite, Finite
<1>5. Finite(regret[n][a]) /\ Finite(strategy[n][a]) /\ strategy[n][a] >= 0
  BY DEF AccumulatorsStayFinite
<1>6. CASE regret'[n] = regret[n] /\ strategy'[n] = strategy[n]
  BY <1>5, <1>6
<1>7. CASE n = Target(t) /\ StoreAction(t)
  <2>1. PICK b \in todo[t] :
          /\ b \in Actions
          /\ \A c \in Actions :
               /\ regret'[n][c] = IF c = b THEN Value(t, n, b).regret ELSE regret[n][c]
               /\ strategy'[n][c] = IF c = b THEN Value(t, n, b).strategy
                                    ELSE strategy[n][c]
    BY <1>7, StoreEffect
  <2>2. pc[t] = "store"
    BY <1>7 DEF StoreAction
  <2>3. Unwritten(t, cursor[t], b)
    BY <2>1, <2>2, <1>3 DEF Unwritten, Applying
  <2>4. Sound(Value(t, n, b))
    BY <2>1, <2>2, <2>3, <1>3, <1>7 DEF ValidatedHolds, Applying
  <2>5. QED
    BY <2>1, <2>4, <1>5 DEF Sound
<1>8. CASE n = Target(t) /\ ClampStore(t)
  <2>1. PICK b \in Actions : regret' = [regret EXCEPT ![n][b] = 0]
    BY <1>8 DEF ClampStore, StoreRegret
  <2>2. regret'[n][a] = (IF a = b THEN 0 ELSE regret[n][a]) /\ strategy' = strategy
    BY <2>1, <1>1, <1>8 DEF ClampStore
  <2>3. QED
    BY <2>2, <1>2, <1>5
<1>9. CASE n = Target(t) /\ Accumulate(t)
  <2>1. pc[t] = "accumulate" /\ regret' = regret
        /\ strategy'[n] = Candidates(n, arena[t][n]).strategy
    BY <1>1, <1>9 DEF Accumulate
  <2>2. t \notin McThreads
    BY <2>1 DEF Base, Shape
  <2>3. strategy'[n][a] = Value(t, n, a).strategy
    BY <2>1, <2>2 DEF Candidates, Value
  <2>4. Unwritten(t, cursor[t], a)
    BY <2>1, <1>3 DEF Unwritten, Applying
  <2>5. Sound(Value(t, n, a))
    BY <2>1, <2>4, <1>3, <1>9 DEF ValidatedHolds, Applying
  <2>6. QED
    BY <2>1, <2>3, <2>5, <1>5 DEF Sound
<1>10. CASE ~(StoreAction(t) \/ ClampStore(t) \/ Accumulate(t))
  <2>1. regret' = regret /\ strategy' = strategy
    BY <1>10
    DEF WriterStep, StartCommit, StartNodeOp, Begin, LockNext, Conflict, BackOff, Retry,
        Check, BeginEntry, EndEntry, ClampBegin, ClampEnd, ClampDone,
        LockedRead, UnlockLast, Return, nodeVars
  <2>2. QED
    BY <2>1, <1>6
<1>11. QED
  BY <1>6, <1>7, <1>8, <1>9, <1>10, SumsFrame

\* What a thread is about to store depends on its own workspace and on the
\* node it writes only.
LEMMA ValueFrame ==
  ASSUME NEW u, NEW n, NEW a,
         arena'[u] = arena[u], regret'[n][a] = regret[n][a],
         strategy'[n][a] = strategy[n][a]
  PROVE  Value(u, n, a)' = Value(u, n, a)
BY DEF Value

\* Other threads cannot touch the nodes of validated entries: they are locked.
LEMMA ValidatedOthers ==
  ASSUME Base, NEW t \in Writers, WriterStep(t),
         NEW u \in Writers, u # t, ValidatedHolds(u)
  PROVE  ValidatedHolds(u)'
<1>1. /\ pc'[u] = pc[u] /\ order'[u] = order[u] /\ arena'[u] = arena[u]
      /\ cursor'[u] = cursor[u] /\ todo'[u] = todo[u]
  BY WriterFrame DEF Base
<1>2. SUFFICES ASSUME NEW i \in 1..Len(order[u]), NEW a \in Actions, Unwritten(u, i, a)
               PROVE  Sound(Value(u, order[u][i], a)')
  BY <1>1 DEF ValidatedHolds, Unwritten, Value, Sound, Finite
<1>3. PICK n \in Nodes : n = order[u][i]
  BY DEF Base, TypeOK
<1>4. lock[n] = u
  BY <1>2, <1>3 DEF Base, LockOwner, Shape, Unwritten
<1>5. regret'[n] = regret[n] /\ strategy'[n] = strategy[n]
  BY <1>4, SumsFrame, OwnsTarget
<1>6. Value(u, n, a)' = Value(u, n, a)
  BY <1>1, <1>5, ValueFrame
<1>7. Sound(Value(u, n, a))
  BY <1>2, <1>3 DEF ValidatedHolds
<1>8. Value(u, order[u][i], a)' = Value(u, n, a)'
  BY <1>1, <1>3 DEF Value
<1>9. QED
  BY <1>6, <1>7, <1>8

\* Validation makes every value of the entries sound.
LEMMA ValidatedCheck ==
  ASSUME Base, NEW t \in Writers, Check(t)
  PROVE  ValidatedHolds(t)'
<1>1. /\ pc \in [Writers -> PcValues] /\ order[t] \in Seq(Nodes) /\ order'[t] = order[t]
      /\ regret' = regret /\ strategy' = strategy
      /\ arena \in [Writers -> [Nodes -> Delta]]
  BY DEF Base, TypeOK, PcValues, Check, nodeVars, Delta, Vector
<1>2. CASE EntriesValid(t) /\ Len(order[t]) > 0
  <2>1. ASSUME NEW i \in 1..Len(order[t]), NEW a \in Actions
        PROVE  Sound(Value(t, order[t][i], a)')
    <3>1. PICK n \in Nodes : n = order[t][i]
      BY <1>1
    <3>2. DeltasValid(n, arena[t][n])
      BY <1>1, <1>2, <3>1 DEF EntriesValid
    <3>3. /\ Finite(regret[n][a] + arena[t][n].regret[a])
          /\ Finite(strategy[n][a] + arena[t][n].strategy[a])
          /\ strategy[n][a] + arena[t][n].strategy[a] >= 0
      BY <3>2 DEF DeltasValid
    <3>4. Value(t, n, a)' = [regret |-> regret[n][a] + arena[t][n].regret[a],
                             strategy |-> strategy[n][a] + arena[t][n].strategy[a]]
      <4>1. CASE t \in McThreads
        <5>1. arena'[t][n] = Candidates(n, arena[t][n])
          BY <1>1, <1>2, <3>1, <4>1 DEF Check
        <5>2. QED
          BY <5>1, <4>1 DEF Value, Candidates
      <4>2. CASE t \notin McThreads
        <5>1. arena' = arena
          BY <1>2, <4>2 DEF Check
        <5>2. QED
          BY <5>1, <4>2, <1>1 DEF Value
      <4>3. QED
        BY <4>1, <4>2
    <3>5. Value(t, order[t][i], a)' = Value(t, n, a)'
      BY <3>1, <1>1 DEF Value
    <3>6. QED
      BY <3>3, <3>4, <3>5 DEF Sound
  <2>2. QED
    BY <2>1, <1>1 DEF ValidatedHolds, Sound, Finite, Value
<1>3. CASE ~(EntriesValid(t) /\ Len(order[t]) > 0)
  <2>1. pc'[t] = "unlock"
    BY <1>1, <1>3 DEF Check
  <2>2. QED
    BY <2>1 DEF ValidatedHolds, Unwritten, Applying
<1>4. QED
  BY <1>2, <1>3

\* The thread's own steps store validated values and leave the rest alone.
LEMMA ValidatedSelf ==
  ASSUME Base, NEW t \in Writers, WriterStep(t), ValidatedHolds(t)
  PROVE  ValidatedHolds(t)'
<1>1. /\ pc \in [Writers -> PcValues] /\ order[t] \in Seq(Nodes)
      /\ cursor \in [Writers -> Nat] /\ cursor[t] \in Nat /\ Len(order[t]) \in Nat
      /\ todo \in [Writers -> SUBSET Actions]
  BY DEF Base, TypeOK, PcValues
<1>2. CASE Check(t)
  BY <1>2, ValidatedCheck
<1>3. CASE pc'[t] \notin Applying
  BY <1>3 DEF ValidatedHolds, Unwritten
<1>4. CASE \/ BeginEntry(t) \/ StoreAction(t) \/ EndEntry(t) \/ ClampDone(t)
           \/ ClampBegin(t) \/ ClampStore(t) \/ ClampEnd(t)
  <2>1. order'[t] = order[t] /\ arena'[t] = arena[t] /\ pc[t] \in Applying
    BY <1>4
    DEF BeginEntry, StoreAction, EndEntry, ClampDone, ClampBegin, ClampStore, ClampEnd,
        Applying
  <2>2. ASSUME NEW i \in 1..Len(order[t]), NEW a \in Actions, Unwritten(t, i, a)'
        PROVE  /\ Unwritten(t, i, a)
               /\ regret'[order[t][i]][a] = regret[order[t][i]][a]
               /\ strategy'[order[t][i]][a] = strategy[order[t][i]][a]
    <3>1. cursor[t] \in 1..Len(order[t])
      BY <2>1 DEF Base, Shape
    <3>2. CASE BeginEntry(t)
      <4>1. pc[t] = "begin" /\ cursor'[t] = cursor[t] /\ regret' = regret
            /\ strategy' = strategy
        BY <3>2 DEF BeginEntry
      <4>2. QED
        BY <4>1, <2>1, <2>2 DEF Unwritten
    <3>3. CASE StoreAction(t)
      <4>1. pc[t] = "store" /\ pc'[t] = "store" /\ cursor'[t] = cursor[t]
        BY <3>3 DEF StoreAction
      <4>2. PICK b \in todo[t] :
              /\ todo'[t] = todo[t] \ {b}
              /\ \A c \in Actions \ {b} :
                   /\ regret'[Target(t)][c] = regret[Target(t)][c]
                   /\ strategy'[Target(t)][c] = strategy[Target(t)][c]
        BY <3>3, StoreEffect
      <4>3. i > cursor[t] \/ (i = cursor[t] /\ a \in todo[t] \ {b})
        BY <4>1, <4>2, <2>1, <2>2, <1>1 DEF Unwritten
      <4>4. Unwritten(t, i, a)
        BY <4>1, <4>3, <2>1, <2>2 DEF Unwritten
      <4>5. CASE i > cursor[t]
        <5>1. order[t][i] # Target(t) /\ order[t][i] \in Nodes
          BY <4>5, <3>1, <1>1 DEF Base, Shape, Target
        <5>2. QED
          BY <5>1, <4>4, SumsFrame
      <4>6. CASE i = cursor[t] /\ a \in todo[t] \ {b}
        BY <4>2, <4>4, <4>6 DEF Target
      <4>7. QED
        BY <4>3, <4>5, <4>6
    <3>4. CASE EndEntry(t) \/ ClampDone(t)
      <4>1. /\ regret' = regret /\ strategy' = strategy
            /\ \/ pc'[t] = "clamp" /\ cursor'[t] = cursor[t]
               \/ pc'[t] = "begin" /\ cursor'[t] = cursor[t] + 1
               \/ pc'[t] = "unlock"
        BY <3>4, <1>1 DEF EndEntry, ClampDone, FinishEntry, nodeVars
      <4>2. i > cursor[t]
        BY <4>1, <2>2, <1>1 DEF Unwritten, Applying
      <4>3. QED
        BY <4>1, <4>2, <2>1, <1>1 DEF Unwritten
    <3>5. CASE ClampBegin(t) \/ ClampStore(t) \/ ClampEnd(t)
      <4>1. pc'[t] \in {"clamp", "clamping", "clamped"} /\ cursor'[t] = cursor[t]
        BY <3>5, <1>1 DEF ClampBegin, ClampStore, ClampEnd
      <4>2. i > cursor[t]
        BY <4>1, <2>2, <1>1 DEF Unwritten, Applying
      <4>3. order[t][i] # Target(t) /\ order[t][i] \in Nodes
        BY <4>2, <3>1, <1>1 DEF Base, Shape, Target
      <4>4. QED
        BY <4>2, <4>3, <2>1, <1>1, SumsFrame DEF Unwritten
    <3>6. QED
      BY <1>4, <3>2, <3>3, <3>4, <3>5
  <2>3. ASSUME NEW i \in 1..Len(order[t]), NEW a \in Actions, Unwritten(t, i, a)'
        PROVE  Sound(Value(t, order[t][i], a)')
    <3>1. PICK n \in Nodes : n = order[t][i]
      BY <1>1
    <3>2. Value(t, n, a)' = Value(t, n, a)
      BY <2>1, <2>2, <2>3, <3>1, ValueFrame
    <3>3. Sound(Value(t, n, a))
      BY <2>2, <2>3, <3>1 DEF ValidatedHolds
    <3>4. Value(t, order[t][i], a)' = Value(t, n, a)'
      BY <2>1, <3>1 DEF Value
    <3>5. QED
      BY <3>2, <3>3, <3>4
  <2>4. QED
    BY <2>1, <2>3 DEF ValidatedHolds, Sound, Finite, Value
<1>5. CASE \/ StartCommit(t) \/ StartNodeOp(t) \/ LockNext(t) \/ Conflict(t)
           \/ BackOff(t) \/ Retry(t) \/ Accumulate(t)
           \/ LockedRead(t) \/ UnlockLast(t) \/ Return(t)
  <2>1. pc'[t] \notin Applying
    BY <1>5, <1>1
    DEF StartCommit, StartNodeOp, Begin, LockNext, Conflict, BackOff, Retry,
        Accumulate, LockedRead, UnlockLast, Return, Applying
  <2>2. QED
    BY <2>1, <1>3
<1>6. QED
  BY <1>2, <1>4, <1>5 DEF WriterStep

-----------------------------------------------------------------------------
(* The theorems.                                                           *)

\* The inductive invariant holds initially.
LEMMA InvariantInit == Init => IInv
<1> SUFFICES ASSUME Init PROVE IInv
  OBVIOUS
<1>1. TypeOK
  BY TypeInit
<1>2. \A t \in Writers : /\ pc[t] = "idle" /\ op[t] = "commit" /\ order[t] = <<>>
                         /\ locked[t] = 0
  BY DEF Init
<1>3. \A n \in Nodes : lock[n] = NoThread /\ version[n] = 0
                       /\ regret[n] = Zero /\ strategy[n] = Zero
  BY DEF Init, InfoNodeInit
<1>4. Len(<<>>) = 0
  OBVIOUS
<1>5. \A t \in Writers : Shape(t)
  BY <1>2, <1>4 DEF Shape, Applying
<1>6. LockOwner
  BY <1>2, <1>3, InfoNodeAssumption DEF LockOwner
<1>7. VersionMarksWriter
  BY <1>2, <1>3 DEF VersionMarksWriter, Writing
<1>8. \A r \in Readers : ReaderView(r)
  BY DEF Init, ReaderInit, ReaderView
<1>9. AccumulatorsStayFinite
  BY <1>3, InfoNodeAssumption DEF AccumulatorsStayFinite, Finite, Zero
<1>10. \A t \in Writers : ValidatedHolds(t)
  BY <1>2 DEF ValidatedHolds, Unwritten, Applying
<1>11. QED
  BY <1>1, <1>5, <1>6, <1>7, <1>8, <1>9, <1>10 DEF IInv, Base

\* Every step keeps the inductive invariant.
LEMMA InvariantStep == IInv /\ [Next]_vars => IInv'
<1> SUFFICES ASSUME IInv, [Next]_vars PROVE IInv'
  OBVIOUS
<1>1. ASSUME NEW t \in Writers, WriterStep(t) PROVE IInv'
  <2>1. Base'
    BY <1>1, TypeWriter, ShapeWriter, LockWriter DEF IInv, Base
  <2>2. VersionMarksWriter'
    BY <1>1, <2>1, WindowWriter DEF IInv
  <2>3. \A r \in Readers : ReaderView(r)'
    BY <1>1, ViewWriter DEF IInv
  <2>4. AccumulatorsStayFinite'
    BY <1>1, FiniteWriter DEF IInv
  <2>5. \A u \in Writers : ValidatedHolds(u)'
    BY <1>1, ValidatedOthers, ValidatedSelf DEF IInv
  <2>6. QED
    BY <2>1, <2>2, <2>3, <2>4, <2>5 DEF IInv
<1>2. ASSUME NEW r \in Readers, ReaderStep(r), UNCHANGED commitVars PROVE IInv'
  <2>1. UNCHANGED nodeVars
    BY <1>2 DEF ReaderStep
  <2>2. TypeOK'
    BY <1>2, TypeReader DEF IInv, Base
  <2>3. /\ \A t \in Writers : Shape(t)' /\ ValidatedHolds(t)'
        /\ LockOwner' /\ VersionMarksWriter' /\ AccumulatorsStayFinite'
    BY <1>2, <2>1
    DEF IInv, Base, Shape, LockOwner, VersionMarksWriter, Writing, Target,
        AccumulatorsStayFinite, ValidatedHolds, Unwritten, Value,
        commitVars, nodeVars
  <2>4. \A q \in Readers : ReaderView(q)'
    BY <1>2, ViewReader DEF IInv, Base
  <2>5. QED
    BY <2>2, <2>3, <2>4 DEF IInv, Base
<1>3. CASE UNCHANGED vars
  BY <1>3
  DEF IInv, Base, TypeOK, Shape, LockOwner, VersionMarksWriter, Writing, Target,
      AccumulatorsStayFinite, ValidatedHolds, Unwritten, Value, ReaderView,
      vars, commitVars, nodeVars, readerVars
<1>4. QED
  BY <1>1, <1>2, <1>3 DEF Next, Done

\* The inductive invariant holds of every commit protocol: types, shape and
\* lock ownership, version windows, reader views and validated values
\* together.
THEOREM CommitInvariant == Spec => []IInv
<1>1. QED
  BY InvariantInit, InvariantStep, PTL DEF Spec

\* The state keeps its types, for any number of threads, nodes and calls.
THEOREM CommitTypeCorrect == Spec => []TypeOK
<1>1. IInv => TypeOK
  BY DEF IInv, Base
<1>2. QED
  BY <1>1, CommitInvariant, PTL

\* info_node_begin_update and _end_update bracket the stores of the lock
\* owner: a version is odd exactly then.
THEOREM VersionTheorem == Spec => []VersionMarksWriter
<1>1. IInv => VersionMarksWriter
  BY DEF IInv
<1>2. QED
  BY <1>1, CommitInvariant, PTL

\* What validation found finite is stored finite, whatever other threads do.
THEOREM FiniteTheorem == Spec => []AccumulatorsStayFinite
<1>1. IInv => AccumulatorsStayFinite
  BY DEF IInv
<1>2. QED
  BY <1>1, CommitInvariant, PTL

\* A reader whose view holds and whose versions agree has the array of a moment
\* outside every window.
LEMMA SnapshotsCoherent == IInv => AcceptedSnapshotCoherent
<1> SUFFICES ASSUME IInv, NEW r \in Readers, rpc[r] = "check",
                    version[rnode[r]] = rversion[r], moved[r] < VersionModulus
             PROVE  /\ snap[r] = regret[rnode[r]]
                    /\ ~ \E t \in Writers : Writing(t, rnode[r])
  BY DEF AcceptedSnapshotCoherent
<1>1. /\ rnode[r] \in Nodes /\ rversion[r] \in 0..(VersionModulus - 1)
      /\ moved[r] \in 0..VersionModulus /\ VersionModulus \in Nat
      /\ snap[r] \in Vector /\ regret[rnode[r]] \in Vector
  BY InfoNodeAssumption DEF IInv, Base, TypeOK, Vector
<1>2. ReaderView(r)
  BY DEF IInv
<1>3. moved[r] = 0 /\ rversion[r] % 2 = 0 /\ rtodo[r] = {}
  BY <1>1, <1>2 DEF ReaderView
<1>4. \A a \in Actions : snap[r][a] = regret[rnode[r]][a]
  BY <1>2, <1>3 DEF ReaderView
<1>5. snap[r] = regret[rnode[r]]
  BY <1>1, <1>4 DEF Vector
<1>6. ~ \E t \in Writers : Writing(t, rnode[r])
  BY <1>1, <1>3 DEF IInv, VersionMarksWriter
<1> QED BY <1>5, <1>6

\* The seqlock: an accepted lock-free snapshot is the array of one moment.
THEOREM SnapshotTheorem == Spec => []AcceptedSnapshotCoherent
<1> QED BY SnapshotsCoherent, CommitInvariant, PTL

-----------------------------------------------------------------------------
(* The refinement of RegretLedger.                                         *)

LedgerDeltas == Deltas \union UNION {ApiDeltas(o) : o \in ApiOps}

\* What a call is about to do is what its caller asked for: its entries still
\* have the caller's deltas until they are validated, a single-node operation
\* has one entry, and one that updates half of a node leaves the other half.
Asked(t) ==
  /\ pc[t] \in {"lock", "backoff"} =>
       \A i \in 1..Len(order[t]) : arena[t][order[t][i]] \in LedgerDeltas
  /\ op[t] # "commit" => t \in ApiThreads /\ Len(order[t]) = 1
  /\ op[t] = "accumulate" => \A n \in Nodes : arena[t][n].regret = Zero
  /\ op[t] = "add_regret" => \A n \in Nodes : arena[t][n].strategy = Zero
  /\ pc[t] = "accumulate" => op[t] = "accumulate"
  /\ pc[t] \in {"clamp", "clamping", "clamped"} => Clamps(t)

\* A commit starts with deltas of the traversal for each of its entries.
LEMMA StartCommitDeltas ==
  ASSUME NEW t \in Writers, StartCommit(t)
  PROVE  \E entries \in Seq(Nodes), d \in [Nodes -> Delta] :
           /\ \A i \in 1..Len(entries) : d[entries[i]] \in Deltas
           /\ Begin(t, "commit", entries, d)
<1>1. PICK entries \in SortedEntries(LockRank(t)) :
        \E d \in [{entries[i] : i \in DOMAIN entries} -> Deltas] :
          Begin(t, "commit", entries,
                [n \in Nodes |-> IF n \in DOMAIN d THEN d[n] ELSE NoDelta])
  BY DEF StartCommit
<1>2. PICK d \in [{entries[i] : i \in DOMAIN entries} -> Deltas] :
        Begin(t, "commit", entries,
              [n \in Nodes |-> IF n \in DOMAIN d THEN d[n] ELSE NoDelta])
  BY <1>1
<1>3. LockRank(t) \in [Nodes -> Nat]
  BY NodeCommitAssumption DEF LockRank
<1>4. entries \in Seq(Nodes)
  BY <1>1, <1>3, EntriesAreNodes
<1>5. Deltas \subseteq Delta
  BY NodeCommitAssumption DEF Delta, Vector
<1> DEFINE full == [n \in Nodes |-> IF n \in DOMAIN d THEN d[n] ELSE NoDelta]
<1>6. full \in [Nodes -> Delta]
  BY <1>2, <1>5, ZeroIsVector
<1>7. ASSUME NEW i \in 1..Len(entries) PROVE full[entries[i]] \in Deltas
  <2>1. entries[i] \in Nodes /\ entries[i] \in DOMAIN d
    BY <1>2, <1>4
  <2> QED BY <1>2, <2>1
<1> HIDE DEF full
<1> QED BY <1>2, <1>4, <1>6, <1>7 DEF full

\* A single-node operation starts with the deltas of its operation.
LEMMA StartNodeOpDeltas ==
  ASSUME NEW t \in Writers, StartNodeOp(t)
  PROVE  /\ t \in ApiThreads
         /\ \E o \in ApiOps, n \in Nodes, d \in [Nodes -> Delta] :
              /\ d[n] \in ApiDeltas(o)
              /\ o = "accumulate" => \A m \in Nodes : d[m].regret = Zero
              /\ o = "add_regret" => \A m \in Nodes : d[m].strategy = Zero
              /\ Begin(t, o, <<n>>, d)
<1>1. t \in ApiThreads
  BY DEF StartNodeOp
<1>2. PICK o \in ApiOps, n \in Nodes : \E d \in ApiDeltas(o) :
        Begin(t, o, <<n>>, [m \in Nodes |-> IF m = n THEN d ELSE NoDelta])
  BY DEF StartNodeOp
<1>3. PICK d \in ApiDeltas(o) :
        Begin(t, o, <<n>>, [m \in Nodes |-> IF m = n THEN d ELSE NoDelta])
  BY <1>2
<1> DEFINE full == [m \in Nodes |-> IF m = n THEN d ELSE NoDelta]
<1>4. full \in [Nodes -> Delta]
  BY <1>3, ApiDeltasAreDeltas, ZeroIsVector
<1>5. o = "accumulate" => d.regret = Zero
  BY <1>3 DEF ApiDeltas
<1>6. o = "add_regret" => d.strategy = Zero
  BY <1>3 DEF ApiDeltas
<1>7. NoDelta.regret = Zero /\ NoDelta.strategy = Zero
  BY DEF NoDelta
<1>8. /\ full[n] = d
      /\ o = "accumulate" => \A m \in Nodes : full[m].regret = Zero
      /\ o = "add_regret" => \A m \in Nodes : full[m].strategy = Zero
  BY <1>5, <1>6, <1>7
<1>9. Begin(t, o, <<n>>, full)
  BY <1>3
<1> HIDE DEF full
<1> QED BY <1>1, <1>2, <1>3, <1>4, <1>8, <1>9

\* Every step keeps what is known of its call, and of every other.
LEMMA AskedWriter ==
  ASSUME Base, NEW t \in Writers, WriterStep(t), NEW u \in Writers, Asked(u)
  PROVE  Asked(u)'
<1>1. CASE u # t
  BY <1>1, WriterFrame DEF Base, Asked, Clamps
<1>2. CASE u = t
  <2>t. /\ pc \in [Writers -> PcValues] /\ op \in [Writers -> {"commit"} \union NodeOps]
        /\ order \in [Writers -> Seq(Nodes)]
        /\ arena \in [Writers -> [Nodes -> Delta]]
    BY DEF Base, TypeOK, PcValues, Delta, Vector
  <2>a. Asked(t)
    BY <1>2
  <2> SUFFICES Asked(t)'
    BY <1>2
  <2>1. CASE StartCommit(t)
    <3>1. PICK entries \in Seq(Nodes), d \in [Nodes -> Delta] :
            /\ \A i \in 1..Len(entries) : d[entries[i]] \in Deltas
            /\ Begin(t, "commit", entries, d)
      BY <2>1, StartCommitDeltas
    <3>2. /\ pc'[t] = "lock" /\ op'[t] = "commit" /\ order'[t] = entries /\ arena'[t] = d
      BY <3>1, <2>t DEF Begin
    <3> QED BY <3>1, <3>2 DEF Asked, LedgerDeltas
  <2>2. CASE StartNodeOp(t)
    <3>1. PICK o \in ApiOps, n \in Nodes, d \in [Nodes -> Delta] :
              /\ d[n] \in ApiDeltas(o)
              /\ o = "accumulate" => \A m \in Nodes : d[m].regret = Zero
              /\ o = "add_regret" => \A m \in Nodes : d[m].strategy = Zero
              /\ Begin(t, o, <<n>>, d)
      BY <2>2, StartNodeOpDeltas
    <3>2. /\ pc'[t] = "lock" /\ op'[t] = o /\ order'[t] = <<n>> /\ arena'[t] = d
      BY <3>1, <2>t DEF Begin
    <3>3. t \in ApiThreads
      BY <2>2, StartNodeOpDeltas
    <3>4. d[n] \in LedgerDeltas
      BY <3>1 DEF LedgerDeltas
    <3>5. Len(<<n>>) = 1 /\ \A i \in 1..Len(<<n>>) : <<n>>[i] = n
      OBVIOUS
    <3> QED BY <3>1, <3>2, <3>3, <3>4, <3>5 DEF Asked
  <2>3. CASE \/ LockNext(t) \/ Conflict(t) \/ BackOff(t) \/ Retry(t)
             \/ LockedRead(t) \/ UnlockLast(t)
    <3>1. /\ order' = order /\ arena' = arena /\ op' = op
          /\ \/ pc[t] \in {"lock", "backoff"} /\ pc'[t] \in {"lock", "backoff", "unlock"}
             \/ pc'[t] = "unlock"
      BY <2>3, <2>t DEF LockNext, Conflict, BackOff, Retry, LockedRead, UnlockLast
    <3> QED BY <3>1, <2>a DEF Asked
  <2>4. CASE Check(t)
    <3>1. /\ order' = order /\ op' = op /\ pc[t] = "lock"
          /\ pc'[t] \in {"begin", "accumulate", "unlock"}
          /\ pc'[t] = "accumulate" => op[t] = "accumulate"
          /\ t \notin McThreads => arena' = arena
      BY <2>4, <2>t DEF Check
    <3>2. op[t] # "commit" => t \notin McThreads
      BY DEF Base, Shape
    <3> QED BY <3>1, <3>2, <2>a, <2>t DEF Asked
  <2>5. CASE \/ BeginEntry(t) \/ StoreAction(t) \/ EndEntry(t) \/ ClampDone(t)
             \/ ClampBegin(t) \/ ClampStore(t) \/ ClampEnd(t) \/ Accumulate(t)
    <3>1. /\ order' = order /\ arena' = arena /\ op' = op
          /\ \/ pc'[t] \in {"begin", "store", "unlock"}
             \/ pc'[t] \in {"clamp", "clamping", "clamped"} /\ Clamps(t)
      BY <2>5, <2>t, <2>a
      DEF BeginEntry, StoreAction, EndEntry, ClampDone, ClampBegin, ClampStore, ClampEnd,
          Accumulate, FinishEntry, Asked
    <3> QED BY <3>1, <2>a DEF Asked, Clamps
  <2>6. CASE Return(t)
    <3>1. pc'[t] = "idle" /\ op'[t] = "commit"
      BY <2>6, <2>t DEF Return
    <3> QED BY <3>1 DEF Asked
  <2> QED BY <2>1, <2>2, <2>3, <2>4, <2>5, <2>6 DEF WriterStep
<1> QED BY <1>1, <1>2

-----------------------------------------------------------------------------
(* The sums and the visible regrets of the ledger, node by node.           *)

\* What thread t makes of node n, once it has validated its entry for n.
After(t, n) ==
  [regret   |-> LET v == [a \in Actions |-> Written(t, n, a).regret]
                IN IF Clamps(t) THEN PositivePart(v) ELSE v,
   strategy |-> [a \in Actions |-> Written(t, n, a).strategy]]

\* What is committed to n if no thread but t has an entry for it.
Own(t, n) ==
  IF Pending(t, n) THEN After(t, n)
  ELSE [regret |-> regret[n], strategy |-> strategy[n]]

Storing(t, n) == pc[t] = "store" /\ Target(t) = n

\* A validated entry is one of a node whose lock its thread holds.
LEMMA PendingOwner ==
  Base => \A t \in Writers, n \in Nodes :
            /\ Pending(t, n) => lock[n] = t /\ pc[t] \in Applying
            /\ Storing(t, n) => Pending(t, n)
<1> SUFFICES ASSUME Base, NEW t \in Writers, NEW n \in Nodes
             PROVE  /\ Pending(t, n) => lock[n] = t /\ pc[t] \in Applying
                    /\ Storing(t, n) => Pending(t, n)
  OBVIOUS
<1>1. /\ pc[t] \in Applying => locked[t] = Len(order[t]) /\ cursor[t] \in 1..Len(order[t])
      /\ Len(order[t]) \in Nat
  BY DEF Base, Shape, TypeOK
<1>2. ASSUME Pending(t, n) PROVE lock[n] = t /\ pc[t] \in Applying
  <2>1. pc[t] \in Applying
    BY <1>2 DEF Pending, Applying
  <2>2. PICK i \in cursor[t]..Len(order[t]) : order[t][i] = n
    BY <1>2 DEF Pending
  <2>3. i \in 1..locked[t]
    BY <1>1, <2>1, <2>2
  <2> QED BY <2>1, <2>2, <2>3 DEF Base, LockOwner
<1>3. ASSUME Storing(t, n) PROVE Pending(t, n)
  <2>1. pc[t] \in Applying /\ pc[t] = "store" /\ order[t][cursor[t]] = n
    BY <1>3 DEF Storing, Applying, Target
  <2>2. cursor[t] \in cursor[t]..Len(order[t])
    BY <1>1, <2>1
  <2> QED BY <2>1, <2>2 DEF Pending
<1> QED BY <1>2, <1>3

\* Only one thread has a validated entry for a node: its owner.
CommittedIsOwn ==
  \A t \in Writers, n \in Nodes :
    Pending(t, n) \/ (\A u \in Writers \ {t} : ~Pending(u, n)) => Committed(n) = Own(t, n)

\* The sums of the ledger, as seen from the thread that writes them.
LEMMA CommittedIs == Base => CommittedIsOwn
<1> SUFFICES ASSUME Base, NEW t \in Writers, NEW n \in Nodes,
                    Pending(t, n) \/ (\A u \in Writers \ {t} : ~Pending(u, n))
             PROVE  Committed(n) = Own(t, n)
  BY DEF CommittedIsOwn
<1>1. \A u \in Writers : Pending(u, n) => u = t
  BY PendingOwner
<1>2. CASE Pending(t, n)
  <2>1. (CHOOSE u \in Writers : Pending(u, n)) = t
    BY <1>1, <1>2
  <2> QED BY <1>2, <2>1 DEF Committed, Own, After
<1>3. CASE ~Pending(t, n)
  BY <1>1, <1>3 DEF Committed, Own
<1> QED BY <1>2, <1>3

\* The regrets that readers of a node see, as long as no thread but t stores it.
OwnView(t, n) == PositivePart(IF Storing(t, n) THEN Committed(n).regret ELSE regret[n])

VisibleIsOwn ==
  \A t \in Writers, n \in Nodes :
    Storing(t, n) \/ (\A u \in Writers \ {t} : ~Storing(u, n)) => Visible(n) = OwnView(t, n)

\* While a thread stores a node, its readers see what it will be.
LEMMA VisibleIs == VisibleIsOwn
<1> SUFFICES ASSUME NEW t \in Writers, NEW n \in Nodes,
                    Storing(t, n) \/ (\A u \in Writers \ {t} : ~Storing(u, n))
             PROVE  Visible(n) = OwnView(t, n)
  BY DEF VisibleIsOwn
<1>1. (\E u \in Writers : Storing(u, n)) <=> Storing(t, n)
  OBVIOUS
<1> QED BY <1>1 DEF Visible, Storing, OwnView

\* What a thread will make of a node changes only with what it will write.
LEMMA AfterKept ==
  ASSUME NEW t, NEW n, \A a \in Actions : Written(t, n, a)' = Written(t, n, a)
  PROVE  After(t, n)' = After(t, n)
<1>1. /\ [a \in Actions |-> Written(t, n, a).regret]'
           = [a \in Actions |-> Written(t, n, a).regret]
      /\ [a \in Actions |-> Written(t, n, a).strategy]'
           = [a \in Actions |-> Written(t, n, a).strategy]
  OBVIOUS
<1> QED BY <1>1 DEF After, Clamps, PositivePart

\* Entries of the other threads are not disturbed.
LEMMA OwnOthers ==
  ASSUME Base, NEW t \in Writers, WriterStep(t), NEW u \in Writers, u # t, NEW n \in Nodes
  PROVE  /\ Pending(u, n)' <=> Pending(u, n)
         /\ Storing(u, n)' <=> Storing(u, n)
         /\ Pending(u, n) => Own(u, n)' = Own(u, n) /\ regret'[n] = regret[n]
<1>1. /\ pc'[u] = pc[u] /\ order'[u] = order[u] /\ arena'[u] = arena[u]
      /\ cursor'[u] = cursor[u] /\ todo'[u] = todo[u]
  BY WriterFrame DEF Base
<1>2. Pending(u, n)' <=> Pending(u, n)
  BY <1>1 DEF Pending
<1>3. Storing(u, n)' <=> Storing(u, n)
  BY <1>1 DEF Storing, Target
<1>4. ASSUME Pending(u, n) PROVE Own(u, n)' = Own(u, n) /\ regret'[n] = regret[n]
  <2>1. lock[n] = u
    BY <1>4, PendingOwner
  <2>2. regret'[n] = regret[n] /\ strategy'[n] = strategy[n]
    BY <2>1, SumsFrame, OwnsTarget
  <2>3. ASSUME NEW a \in Actions PROVE Written(u, n, a)' = Written(u, n, a)
    <3>1. Value(u, n, a)' = Value(u, n, a)
      BY <1>1, <2>2, ValueFrame
    <3> QED BY <1>1, <2>2, <3>1 DEF Written, Target
  <2>4. After(u, n)' = After(u, n)
    BY <2>3, AfterKept
  <2> QED BY <1>2, <1>4, <2>2, <2>4 DEF Own
<1> QED BY <1>2, <1>3, <1>4

\* A step that leaves its own entry for a node as it was leaves the sums of
\* the ledger as they were.
LEMMA CommittedKept ==
  ASSUME Base, Base', NEW t \in Writers, WriterStep(t), NEW n \in Nodes,
         Own(t, n)' = Own(t, n)
  PROVE  Committed(n)' = Committed(n)
<1>1. CommittedIsOwn'
  BY CommittedIs, PTL
<1>2. CASE \E u \in Writers \ {t} : Pending(u, n)
  <2>1. PICK u \in Writers \ {t} : Pending(u, n)
    BY <1>2
  <2>2. Pending(u, n)' /\ Own(u, n)' = Own(u, n)
    BY <2>1, OwnOthers
  <2>3. Committed(n) = Own(u, n)
    BY <2>1, CommittedIs DEF CommittedIsOwn
  <2>4. Committed(n)' = Own(u, n)'
    BY <1>1, <2>1, <2>2 DEF CommittedIsOwn
  <2> QED BY <2>2, <2>3, <2>4
<1>3. CASE \A u \in Writers \ {t} : ~Pending(u, n)
  <2>1. \A u \in Writers \ {t} : ~Pending(u, n)'
    BY <1>3, OwnOthers
  <2>2. Committed(n) = Own(t, n)
    BY <1>3, CommittedIs DEF CommittedIsOwn
  <2>3. Committed(n)' = Own(t, n)'
    BY <1>1, <2>1 DEF CommittedIsOwn
  <2> QED BY <2>2, <2>3
<1> QED BY <1>2, <1>3

\* ... and unless it changes what it alone would show of a node, so are the
\* regrets the node's readers see.
LEMMA VisibleKept ==
  ASSUME Base, NEW t \in Writers, WriterStep(t), NEW n \in Nodes,
         Committed(n)' = Committed(n), OwnView(t, n)' = OwnView(t, n)
  PROVE  Visible(n)' = Visible(n)
<1>1. VisibleIsOwn'
  BY VisibleIs, PTL
<1>2. CASE \E u \in Writers \ {t} : Storing(u, n)
  <2>1. PICK u \in Writers \ {t} : Storing(u, n)
    BY <1>2
  <2>2. Storing(u, n)'
    BY <2>1, OwnOthers
  <2>3. Visible(n) = OwnView(u, n)
    BY <2>1, VisibleIs DEF VisibleIsOwn
  <2>4. Visible(n)' = OwnView(u, n)'
    BY <1>1, <2>1, <2>2 DEF VisibleIsOwn
  <2>5. OwnView(u, n)' = OwnView(u, n)
    BY <2>1, <2>2 DEF OwnView, PositivePart
  <2> QED BY <2>3, <2>4, <2>5
<1>3. CASE \A u \in Writers \ {t} : ~Storing(u, n)
  <2>1. \A u \in Writers \ {t} : ~Storing(u, n)'
    BY <1>3, OwnOthers
  <2>2. Visible(n) = OwnView(t, n)
    BY <1>3, VisibleIs DEF VisibleIsOwn
  <2>3. Visible(n)' = OwnView(t, n)'
    BY <1>1, <2>1 DEF VisibleIsOwn
  <2> QED BY <2>2, <2>3
<1> QED BY <1>2, <1>3

\* A thread that applies its entries stays at one, goes to the next, or has
\* finished the last.
LEMMA ApplyingStep ==
  ASSUME Base, NEW t \in Writers, WriterStep(t), Asked(t), pc[t] \in Applying
  PROVE  /\ order'[t] = order[t] /\ arena'[t] = arena[t]
         /\ \/ pc'[t] \in Applying /\ cursor'[t] = cursor[t]
            \/ pc'[t] = "begin" /\ cursor'[t] = cursor[t] + 1 /\ cursor[t] < Len(order[t])
            \/ pc'[t] = "unlock" /\ cursor[t] = Len(order[t])
<1>1. /\ pc \in [Writers -> PcValues] /\ cursor \in [Writers -> Nat]
      /\ cursor[t] \in 1..Len(order[t]) /\ Len(order[t]) \in Nat
  BY DEF Base, TypeOK, Shape, PcValues
<1>2. CASE BeginEntry(t) \/ StoreAction(t) \/ ClampBegin(t) \/ ClampStore(t) \/ ClampEnd(t)
  BY <1>1, <1>2
  DEF BeginEntry, StoreAction, ClampBegin, ClampStore, ClampEnd, Applying
<1>3. CASE EndEntry(t) \/ ClampDone(t)
  BY <1>1, <1>3 DEF EndEntry, ClampDone, FinishEntry, Applying
<1>4. CASE Accumulate(t)
  <2>1. Len(order[t]) = 1
    BY <1>4 DEF Asked, Accumulate
  <2> QED BY <1>1, <1>4, <2>1 DEF Accumulate
<1>5. CASE \/ StartCommit(t) \/ StartNodeOp(t) \/ LockNext(t) \/ Conflict(t)
           \/ BackOff(t) \/ Retry(t) \/ Check(t) \/ LockedRead(t) \/ UnlockLast(t)
           \/ Return(t)
  BY <1>5
  DEF StartCommit, StartNodeOp, Begin, LockNext, Conflict, BackOff, Retry, Check,
      LockedRead, UnlockLast, Return, Applying
<1> QED BY <1>2, <1>3, <1>4, <1>5 DEF WriterStep

\* The entries other than the one at hand stay as they were.
LEMMA OwnElsewhere ==
  ASSUME Base, NEW t \in Writers, WriterStep(t), Asked(t), pc[t] \in Applying,
         NEW n \in Nodes, n # Target(t)
  PROVE  Own(t, n)' = Own(t, n)
<1>1. /\ cursor[t] \in 1..Len(order[t]) /\ Len(order[t]) \in Nat
      /\ order[t][cursor[t]] = Target(t)
  BY DEF Base, TypeOK, Shape, Target
<1>2. /\ order'[t] = order[t] /\ arena'[t] = arena[t]
      /\ \/ pc'[t] \in Applying /\ cursor'[t] = cursor[t]
         \/ pc'[t] = "begin" /\ cursor'[t] = cursor[t] + 1 /\ cursor[t] < Len(order[t])
         \/ pc'[t] = "unlock" /\ cursor[t] = Len(order[t])
  BY ApplyingStep
<1>3. regret'[n] = regret[n] /\ strategy'[n] = strategy[n]
  BY SumsFrame
<1>4. Pending(t, n) <=> \E i \in cursor[t]..Len(order[t]) : order[t][i] = n
  BY DEF Pending, Applying
<1>5. Pending(t, n)' <=> Pending(t, n)
  <2>1. CASE pc'[t] \in Applying /\ cursor'[t] = cursor[t]
    BY <1>2, <1>4, <2>1 DEF Pending, Applying
  <2>2. CASE pc'[t] = "begin" /\ cursor'[t] = cursor[t] + 1
    <3>1. \A i \in cursor[t]..Len(order[t]) :
            order[t][i] = n => i \in (cursor[t] + 1)..Len(order[t])
      BY <1>1
    <3>2. Pending(t, n)' <=> \E i \in (cursor[t] + 1)..Len(order[t]) : order[t][i] = n
      BY <1>2, <2>2 DEF Pending
    <3>3. (cursor[t] + 1)..Len(order[t]) \subseteq cursor[t]..Len(order[t])
      BY <1>1
    <3> QED BY <1>4, <3>1, <3>2, <3>3
  <2>3. CASE pc'[t] = "unlock" /\ cursor[t] = Len(order[t])
    <3>1. ~Pending(t, n)'
      BY <2>3 DEF Pending
    <3>2. \A i \in cursor[t]..Len(order[t]) : i = cursor[t]
      BY <1>1, <2>3
    <3> QED BY <1>1, <1>4, <3>1, <3>2
  <2> QED BY <1>2, <2>1, <2>2, <2>3
<1>6. ASSUME Pending(t, n) PROVE After(t, n)' = After(t, n)
  <2>1. ASSUME NEW a \in Actions PROVE Written(t, n, a)' = Written(t, n, a)
    <3>1. Value(t, n, a)' = Value(t, n, a)
      BY <1>2, <1>3, ValueFrame
    <3>2. Written(t, n, a) = Value(t, n, a)
      BY DEF Written
    <3>3. pc'[t] = "begin" \/ Target(t)' = Target(t)
      <4>1. pc'[t] # "unlock"
        BY <1>5, <1>6 DEF Pending
      <4> QED BY <1>2, <4>1 DEF Target
    <3>4. Written(t, n, a)' = Value(t, n, a)'
      BY <3>3 DEF Written
    <3> QED BY <3>1, <3>2, <3>4
  <2> QED BY <2>1, AfterKept
<1> QED BY <1>3, <1>5, <1>6 DEF Own

\* The sums of the entry at hand, before and after they are written.
LEMMA OwnTarget ==
  ASSUME Base, NEW t \in Writers, pc[t] \in Applying, NEW n \in Nodes, n = Target(t)
  PROVE  Pending(t, n) /\ Own(t, n) = After(t, n)
<1>1. Pending(t, n)
  <2>1. cursor[t] \in cursor[t]..Len(order[t])
    BY DEF Base, TypeOK, Shape
  <2> QED BY <2>1 DEF Pending, Applying, Target
<1> QED BY <1>1 DEF Own

\* A regret array without negative regrets is its positive part, and the
\* positive part has none.
LEMMA PositiveParts ==
  ASSUME NEW v \in Vector
  PROVE  /\ PositivePart(PositivePart(v)) = PositivePart(v)
         /\ (\A a \in Actions : v[a] >= 0) => PositivePart(v) = v
         /\ \A a \in Actions : v[a] < 0 =>
              PositivePart([v EXCEPT ![a] = 0]) = PositivePart(v)
<1>1. PositivePart(PositivePart(v)) = PositivePart(v)
  BY DEF PositivePart, Vector
<1>2. (\A a \in Actions : v[a] >= 0) => PositivePart(v) = v
  BY DEF PositivePart, Vector
<1>3. ASSUME NEW a \in Actions, v[a] < 0
      PROVE  PositivePart([v EXCEPT ![a] = 0]) = PositivePart(v)
  <2>1. \A b \in Actions :
          (IF [v EXCEPT ![a] = 0][b] > 0 THEN [v EXCEPT ![a] = 0][b] ELSE 0)
            = (IF v[b] > 0 THEN v[b] ELSE 0)
    BY <1>3 DEF Vector
  <2> QED BY <2>1 DEF PositivePart
<1> QED BY <1>1, <1>2, <1>3

\* What remains of an entry that is about to be left is what the node holds.
Settled(t, n) ==
  [regret   |-> IF Clamps(t) THEN PositivePart(regret[n]) ELSE regret[n],
   strategy |-> strategy[n]]

StoredSettled ==
  \A t \in Writers, n \in Nodes :
    /\ n = Target(t)
    /\ pc[t] \in {"clamp", "clamping", "clamped"} \/ (pc[t] = "store" /\ todo[t] = {})
    => After(t, n) = Settled(t, n)

\* An entry whose every action is stored is what the node holds, but for
\* regrets still to be clamped.
LEMMA AfterStored == Base => StoredSettled
<1> SUFFICES ASSUME Base, NEW t \in Writers, NEW n \in Nodes, n = Target(t),
                    \/ pc[t] \in {"clamp", "clamping", "clamped"}
                    \/ pc[t] = "store" /\ todo[t] = {}
             PROVE  After(t, n) = Settled(t, n)
  BY DEF StoredSettled
<1>1. \A a \in Actions :
        Written(t, n, a) = [regret |-> regret[n][a], strategy |-> strategy[n][a]]
  BY DEF Written
<1>2. regret[n] \in [Actions -> Int] /\ strategy[n] \in [Actions -> Int]
  BY DEF Base, TypeOK
<1>3. /\ [a \in Actions |-> Written(t, n, a).regret] = regret[n]
      /\ [a \in Actions |-> Written(t, n, a).strategy] = strategy[n]
  BY <1>1, <1>2
<1> QED BY <1>3 DEF After, Settled

\* The actions of a thread that applies its entries.
LEMMA ApplyingIs ==
  ASSUME NEW t, WriterStep(t), pc[t] \in Applying
  PROVE  \/ BeginEntry(t) \/ StoreAction(t) \/ EndEntry(t) \/ ClampBegin(t)
         \/ ClampStore(t) \/ ClampEnd(t) \/ ClampDone(t) \/ Accumulate(t)
<1>1. CASE \/ StartCommit(t) \/ StartNodeOp(t) \/ LockNext(t) \/ Conflict(t)
           \/ BackOff(t) \/ Retry(t) \/ Check(t) \/ LockedRead(t) \/ UnlockLast(t)
           \/ Return(t)
  BY <1>1
  DEF StartCommit, StartNodeOp, Begin, LockNext, Conflict, BackOff, Retry, Check,
      LockedRead, UnlockLast, Return, Applying
<1> QED BY <1>1 DEF WriterStep

\* Clamping a regret does not change the positive part.
LEMMA ClampKeepsPositive ==
  ASSUME Base, NEW t \in Writers, ClampBegin(t) \/ ClampStore(t) \/ ClampEnd(t),
         NEW n \in Nodes, n = Target(t)
  PROVE  PositivePart(regret[n])' = PositivePart(regret[n])
<1>1. CASE ClampBegin(t) \/ ClampEnd(t)
  <2>1. regret' = regret
    BY <1>1 DEF ClampBegin, ClampEnd
  <2> QED BY <2>1 DEF PositivePart
<1>2. CASE ClampStore(t)
  <2>1. PICK a \in Actions : regret[n][a] < 0 /\ regret' = [regret EXCEPT ![n][a] = 0]
    BY <1>2 DEF ClampStore, StoreRegret
  <2>2. regret[n] \in Vector /\ regret'[n] = [regret[n] EXCEPT ![a] = 0]
    BY <2>1 DEF Base, TypeOK, Vector
  <2>3. PositivePart([regret[n] EXCEPT ![a] = 0]) = PositivePart(regret[n])
    BY <2>1, <2>2, PositiveParts
  <2>4. PositivePart(regret[n])' = PositivePart([regret[n] EXCEPT ![a] = 0])
    BY <2>2 DEF PositivePart
  <2> QED BY <2>3, <2>4
<1> QED BY <1>1, <1>2

\* The node at hand goes from the values it will have to those it has.
LEMMA OwnAtHand ==
  ASSUME Base, Base', NEW t \in Writers, WriterStep(t), Asked(t), pc[t] \in Applying,
         NEW n \in Nodes, n = Target(t)
  PROVE  Own(t, n)' = Own(t, n)
<1>t. /\ pc \in [Writers -> PcValues] /\ order \in [Writers -> Seq(Nodes)]
      /\ regret \in [Nodes -> [Actions -> Int]] /\ strategy \in [Nodes -> [Actions -> Int]]
      /\ arena \in [Writers -> [Nodes -> Delta]] /\ todo \in [Writers -> SUBSET Actions]
      /\ cursor \in [Writers -> Nat] /\ Len(order[t]) \in Nat
  <2>1. TypeOK
    BY DEF Base
  <2>2. pc \in [Writers -> PcValues] /\ cursor \in [Writers -> Nat]
    BY <2>1 DEF TypeOK, PcValues
  <2>3. regret \in [Nodes -> [Actions -> Int]] /\ strategy \in [Nodes -> [Actions -> Int]]
    BY <2>1 DEF TypeOK
  <2>4. arena \in [Writers -> [Nodes -> Delta]] /\ todo \in [Writers -> SUBSET Actions]
    BY <2>1 DEF TypeOK, Delta, Vector
  <2>5. order \in [Writers -> Seq(Nodes)] /\ Len(order[t]) \in Nat
    BY <2>1 DEF TypeOK
  <2> QED BY <2>2, <2>3, <2>4, <2>5
<1>e. /\ cursor[t] \in 1..Len(order[t])
      /\ \A i, j \in 1..Len(order[t]) : i # j => order[t][i] # order[t][j]
  BY DEF Base, Shape
<1>s. StoredSettled /\ StoredSettled'
  <2>1. StoredSettled
    BY AfterStored
  <2>2. StoredSettled'
    BY AfterStored, PTL
  <2> QED BY <2>1, <2>2
<1>o. Own(t, n) = After(t, n)
  BY OwnTarget
\* The two ways to go on: at the same entry, or past it.
<1>h. ASSUME cursor'[t] = cursor[t], pc'[t] \in Applying
      PROVE  Target(t)' = n /\ Own(t, n)' = After(t, n)'
  <2>1. order'[t] = order[t]
    BY ApplyingStep
  <2>2. Target(t)' = n
    BY <1>h, <2>1 DEF Target
  <2>3. cursor[t] \in cursor[t]..Len(order[t]) /\ order[t][cursor[t]] = n
    BY <1>t, <1>e DEF Target
  <2>4. Pending(t, n)'
    BY <1>h, <2>1, <2>3 DEF Pending, Applying
  <2> QED BY <2>2, <2>4 DEF Own
<1>p. ASSUME FinishEntry(t), order' = order
      PROVE  Own(t, n)' = [regret |-> regret'[n], strategy |-> strategy'[n]]
  <2>1. CASE pc'[t] = "unlock"
    BY <2>1 DEF Own, Pending
  <2>2. CASE pc'[t] # "unlock"
    <3>1. cursor'[t] = cursor[t] + 1
      BY <1>p, <1>t, <2>2 DEF FinishEntry
    <3>2. ASSUME NEW i \in (cursor[t] + 1)..Len(order[t]) PROVE order[t][i] # n
      <4>1. i \in 1..Len(order[t]) /\ i # cursor[t]
        BY <1>t, <1>e
      <4> QED BY <1>e, <4>1 DEF Target
    <3>3. ~Pending(t, n)'
      BY <1>p, <3>1, <3>2 DEF Pending
    <3> QED BY <3>3 DEF Own
  <2> QED BY <2>1, <2>2
<1>1. CASE BeginEntry(t)
  <2>1. /\ pc[t] = "begin" /\ pc'[t] = "store" /\ todo'[t] = Touched(t)
        /\ cursor' = cursor /\ arena' = arena /\ regret' = regret /\ strategy' = strategy
    BY <1>1, <1>t DEF BeginEntry
  <2>2. Target(t)' = n /\ Own(t, n)' = After(t, n)'
    BY <1>h, <2>1 DEF Applying
  <2>3. ASSUME NEW a \in Actions PROVE Written(t, n, a)' = Written(t, n, a)
    <3>1. Value(t, n, a)' = Value(t, n, a)
      BY <2>1, ValueFrame
    <3>2. Written(t, n, a) = Value(t, n, a)
      BY <2>1 DEF Written
    <3>3. CASE a \in Touched(t)
      BY <2>1, <2>2, <3>1, <3>2, <3>3 DEF Written
    <3>4. CASE a \notin Touched(t)
      <4>1. op[t] = "add_regret" /\ arena[t][n].regret[a] = 0
        BY <3>4 DEF Touched
      <4>2. t \notin McThreads /\ arena[t][n].strategy[a] = 0
        BY <4>1 DEF Asked, Base, Shape, Zero
      <4>3. regret[n][a] \in Int /\ strategy[n][a] \in Int
        BY <1>t
      <4>4. Value(t, n, a) = [regret |-> regret[n][a], strategy |-> strategy[n][a]]
        BY <4>1, <4>2, <4>3 DEF Value
      <4>5. Written(t, n, a)' = [regret |-> regret[n][a], strategy |-> strategy[n][a]]
        BY <2>1, <2>2, <3>4 DEF Written
      <4> QED BY <3>2, <4>4, <4>5
    <3> QED BY <3>3, <3>4
  <2> QED BY <1>o, <2>2, <2>3, AfterKept
<1>2. CASE StoreAction(t)
  <2>1. pc[t] = "store" /\ pc'[t] = "store" /\ cursor' = cursor /\ arena' = arena
    BY <1>2 DEF StoreAction
  <2>2. Target(t)' = n /\ Own(t, n)' = After(t, n)'
    BY <1>h, <2>1 DEF Applying
  <2>3. PICK a \in todo[t] :
          /\ a \in Actions /\ todo'[t] = todo[t] \ {a}
          /\ \A b \in Actions :
               /\ regret'[n][b] = IF b = a THEN Value(t, n, a).regret ELSE regret[n][b]
               /\ strategy'[n][b] = IF b = a THEN Value(t, n, a).strategy
                                    ELSE strategy[n][b]
    BY <1>2, StoreEffect
  <2>4. ASSUME NEW b \in Actions PROVE Written(t, n, b)' = Written(t, n, b)
    <3>1. CASE b = a
      <4>1. Written(t, n, b) = Value(t, n, a)
        BY <2>1, <2>3, <3>1 DEF Written
      <4>2. Written(t, n, b)' = [regret |-> Value(t, n, a).regret,
                                 strategy |-> Value(t, n, a).strategy]
        BY <2>1, <2>2, <2>3, <3>1 DEF Written
      <4>3. Value(t, n, a) = [regret |-> Value(t, n, a).regret,
                              strategy |-> Value(t, n, a).strategy]
        BY DEF Value
      <4> QED BY <4>1, <4>2, <4>3
    <3>2. CASE b # a
      <4>1. regret'[n][b] = regret[n][b] /\ strategy'[n][b] = strategy[n][b]
        BY <2>3, <3>2
      <4>2. Value(t, n, b)' = Value(t, n, b)
        BY <2>1, <4>1, ValueFrame
      <4>3. b \in todo'[t] <=> b \in todo[t]
        BY <2>3, <3>2
      <4> QED BY <2>1, <2>2, <4>1, <4>2, <4>3 DEF Written
    <3> QED BY <3>1, <3>2
  <2> QED BY <1>o, <2>2, <2>4, AfterKept
<1>3. CASE EndEntry(t)
  <2>1. /\ pc[t] = "store" /\ todo[t] = {} /\ order' = order
        /\ regret' = regret /\ strategy' = strategy
        /\ IF Clamps(t) THEN pc'[t] = "clamp" /\ cursor' = cursor ELSE FinishEntry(t)
    BY <1>3, <1>t DEF EndEntry
  <2>2. Own(t, n) = Settled(t, n)
    BY <1>o, <1>s, <2>1 DEF StoredSettled
  <2>3. CASE Clamps(t)
    <3>1. Target(t)' = n /\ Own(t, n)' = After(t, n)' /\ pc'[t] = "clamp"
      BY <1>h, <2>1, <2>3 DEF Applying
    <3>2. Own(t, n)' = Settled(t, n)'
      BY <1>s, <3>1 DEF StoredSettled
    <3>3. Settled(t, n)' = Settled(t, n)
      BY <2>1 DEF Settled, Clamps, PositivePart
    <3> QED BY <2>2, <3>2, <3>3
  <2>4. CASE ~Clamps(t)
    BY <1>p, <2>1, <2>2, <2>4 DEF Settled
  <2> QED BY <2>3, <2>4
<1>4. CASE ClampBegin(t) \/ ClampStore(t) \/ ClampEnd(t)
  <2>1. /\ pc[t] \in {"clamp", "clamping", "clamped"}
        /\ pc'[t] \in {"clamp", "clamping", "clamped"}
        /\ cursor' = cursor /\ strategy' = strategy
    BY <1>4, <1>t DEF ClampBegin, ClampStore, ClampEnd
  <2>2. Target(t)' = n /\ Own(t, n)' = After(t, n)'
    BY <1>h, <2>1 DEF Applying
  <2>3. Own(t, n) = Settled(t, n) /\ Own(t, n)' = Settled(t, n)'
    BY <1>o, <1>s, <2>1, <2>2 DEF StoredSettled
  <2>4. Clamps(t)
    BY <2>1 DEF Asked
  <2>5. PositivePart(regret[n])' = PositivePart(regret[n])
    BY <1>4, <1>t, ClampKeepsPositive
  <2> QED BY <2>1, <2>3, <2>4, <2>5 DEF Settled, Clamps
<1>5. CASE ClampDone(t)
  <2>1. /\ pc[t] = "clamp" /\ order' = order /\ regret' = regret /\ strategy' = strategy
        /\ FinishEntry(t) /\ \A a \in Actions : regret[n][a] >= 0
    BY <1>5 DEF ClampDone, nodeVars
  <2>2. Own(t, n) = Settled(t, n)
    BY <1>o, <1>s, <2>1 DEF StoredSettled
  <2>3. PositivePart(regret[n]) = regret[n]
    BY <1>t, <2>1, PositiveParts DEF Vector
  <2> QED BY <1>p, <2>1, <2>2, <2>3 DEF Settled
<1>6. CASE Accumulate(t)
  <2>1. pc[t] = "accumulate" /\ pc'[t] = "unlock" /\ regret' = regret
        /\ strategy'[n] = [a \in Actions |-> strategy[n][a] + arena[t][n].strategy[a]]
    BY <1>6, <1>t DEF Accumulate, Candidates
  <2>2. op[t] = "accumulate" /\ arena[t][n].regret = Zero /\ t \notin McThreads
        /\ t \in ApiThreads
    BY <2>1 DEF Asked, Base, Shape
  <2>3. ~Clamps(t)
    BY <2>2, NodeCommitAssumption DEF Clamps
  <2>4. ASSUME NEW a \in Actions
        PROVE  Written(t, n, a) = [regret |-> regret[n][a],
                                   strategy |-> strategy[n][a] + arena[t][n].strategy[a]]
    <3>1. regret[n][a] \in Int /\ arena[t][n].regret[a] = 0
      BY <1>t, <2>2 DEF Zero
    <3>2. regret[n][a] + 0 = regret[n][a]
      BY <3>1
    <3> QED BY <2>1, <2>2, <3>1, <3>2 DEF Written, Value
  <2>5. /\ [a \in Actions |-> Written(t, n, a).regret] = regret[n]
        /\ [a \in Actions |-> Written(t, n, a).strategy] = strategy'[n]
    BY <1>t, <2>1, <2>4
  <2>6. After(t, n) = [regret |-> regret[n], strategy |-> strategy'[n]]
    BY <2>3, <2>5 DEF After
  <2>7. ~Pending(t, n)'
    BY <2>1 DEF Pending
  <2> QED BY <1>o, <2>1, <2>6, <2>7 DEF Own
<1> QED BY <1>1, <1>2, <1>3, <1>4, <1>5, <1>6, ApplyingIs

\* The actions of a thread outside its entries, but for the check.
Quiet(t) ==
  \/ StartCommit(t) \/ StartNodeOp(t) \/ LockNext(t) \/ Conflict(t) \/ BackOff(t)
  \/ Retry(t) \/ LockedRead(t) \/ UnlockLast(t) \/ Return(t)

\* They do not touch the sums.
LEMMA QuietFrame ==
  ASSUME TypeOK, NEW t \in Writers, Quiet(t)
  PROVE  /\ regret' = regret /\ strategy' = strategy
         /\ pc[t] \notin Applying /\ pc'[t] \notin Applying
         /\ answer' = answer \/ LockedRead(t)
<1>1. pc \in [Writers -> PcValues]
  BY DEF TypeOK, PcValues
<1> QED BY <1>1
    DEF Quiet, StartCommit, StartNodeOp, Begin, LockNext, Conflict, BackOff, Retry,
        LockedRead, UnlockLast, Return, nodeVars, Applying

\* Only the check of a commit changes what is committed.
LEMMA OwnKept ==
  ASSUME Base, Base', NEW t \in Writers, WriterStep(t), ~Check(t), Asked(t), NEW n \in Nodes
  PROVE  Own(t, n)' = Own(t, n)
<1>1. CASE pc[t] \in Applying
  BY <1>1, OwnElsewhere, OwnAtHand
<1>2. CASE Quiet(t)
  <2>1. /\ regret' = regret /\ strategy' = strategy
        /\ pc[t] \notin Applying /\ pc'[t] \notin Applying
    BY <1>2, QuietFrame DEF Base
  <2>2. ~Pending(t, n) /\ ~Pending(t, n)'
    BY <2>1 DEF Pending, Applying
  <2> QED BY <2>1, <2>2 DEF Own
<1>3. CASE BeginEntry(t) \/ StoreAction(t) \/ EndEntry(t) \/ ClampDone(t) \/ ClampBegin(t)
           \/ ClampStore(t) \/ ClampEnd(t) \/ Accumulate(t)
  <2>1. pc[t] \in Applying
    BY <1>3
    DEF BeginEntry, StoreAction, EndEntry, ClampDone, ClampBegin, ClampStore, ClampEnd,
        Accumulate, Applying
  <2> QED BY <1>1, <2>1
<1> QED BY <1>2, <1>3 DEF WriterStep, Quiet

\* A thread shows a node as it was, unless it begins to store it.
LEMMA ViewKept ==
  ASSUME Base, Base', NEW t \in Writers, WriterStep(t), Asked(t), NEW n \in Nodes,
         ~BeginEntry(t) \/ n # Target(t), Committed(n)' = Committed(n)
  PROVE  OwnView(t, n)' = OwnView(t, n)
<1>t. /\ pc \in [Writers -> PcValues] /\ regret[n] \in Vector
      /\ order \in [Writers -> Seq(Nodes)] /\ cursor \in [Writers -> Nat]
  BY DEF Base, TypeOK, PcValues, Vector
<1>1. CASE pc[t] \in Applying /\ n # Target(t)
  <2>1. regret'[n] = regret[n] /\ ~Storing(t, n)
    BY <1>1, SumsFrame DEF Storing
  <2>2. CASE pc'[t] = "store"
    <3>1. BeginEntry(t) \/ StoreAction(t)
      BY <1>1, <1>t, <2>2, ApplyingIs
      DEF EndEntry, FinishEntry, ClampBegin, ClampStore, ClampEnd, ClampDone, Accumulate
    <3>2. order' = order /\ cursor' = cursor
      BY <3>1 DEF BeginEntry, StoreAction
    <3>3. ~Storing(t, n)'
      BY <1>1, <3>2 DEF Storing, Target
    <3> QED BY <2>1, <3>3 DEF OwnView, PositivePart
  <2>3. CASE pc'[t] # "store"
    BY <2>1, <2>3 DEF OwnView, Storing, PositivePart
  <2> QED BY <2>2, <2>3
<1>2. CASE Quiet(t) \/ Check(t)
  <2>1. regret' = regret /\ pc[t] # "store" /\ pc'[t] # "store"
    <3>1. CASE Quiet(t)
      BY <3>1, QuietFrame DEF Base, Applying
    <3>2. CASE Check(t)
      BY <3>2, <1>t DEF Check, nodeVars
    <3> QED BY <1>2, <3>1, <3>2
  <2> QED BY <2>1 DEF OwnView, Storing, PositivePart
<1>3. CASE StoreAction(t) /\ n = Target(t)
  <2>1. Storing(t, n) /\ Storing(t, n)'
    BY <1>3 DEF StoreAction, Storing, Target
  <2> QED BY <2>1 DEF OwnView, PositivePart
<1>4. CASE EndEntry(t) /\ n = Target(t)
  <2>1. /\ pc[t] = "store" /\ todo[t] = {} /\ regret' = regret /\ pc'[t] # "store"
    BY <1>4, <1>t DEF EndEntry, FinishEntry
  <2>2. Storing(t, n) /\ ~Storing(t, n)'
    BY <1>4, <2>1 DEF Storing
  <2>3. Committed(n) = Settled(t, n)
    <3>1. Pending(t, n) /\ Own(t, n) = After(t, n)
      BY <1>4, <2>1, OwnTarget DEF Applying
    <3>2. Committed(n) = Own(t, n)
      BY <3>1, CommittedIs DEF CommittedIsOwn
    <3>3. After(t, n) = Settled(t, n)
      BY <1>4, <2>1, AfterStored DEF StoredSettled
    <3> QED BY <3>1, <3>2, <3>3
  <2>4. PositivePart(Committed(n).regret) = PositivePart(regret[n])
    BY <1>t, <2>3, PositiveParts DEF Settled
  <2>5. OwnView(t, n) = PositivePart(regret[n])
    BY <2>2, <2>4 DEF OwnView
  <2>6. OwnView(t, n)' = PositivePart(regret[n])'
    BY <2>2 DEF OwnView
  <2> QED BY <2>1, <2>5, <2>6 DEF PositivePart
<1>5. CASE (ClampBegin(t) \/ ClampStore(t) \/ ClampEnd(t)) /\ n = Target(t)
  <2>1. ~Storing(t, n) /\ ~Storing(t, n)'
    BY <1>5, <1>t DEF ClampBegin, ClampStore, ClampEnd, Storing
  <2>2. PositivePart(regret[n])' = PositivePart(regret[n])
    BY <1>5, ClampKeepsPositive
  <2>3. OwnView(t, n) = PositivePart(regret[n])
    BY <2>1 DEF OwnView
  <2>4. OwnView(t, n)' = PositivePart(regret[n])'
    BY <2>1 DEF OwnView
  <2> QED BY <2>2, <2>3, <2>4
<1>6. CASE (ClampDone(t) \/ Accumulate(t)) /\ n = Target(t)
  <2>1. pc[t] # "store" /\ pc'[t] # "store" /\ regret' = regret
    BY <1>6, <1>t DEF ClampDone, FinishEntry, Accumulate, nodeVars
  <2> QED BY <2>1 DEF OwnView, Storing, PositivePart
<1>7. Quiet(t) \/ Check(t) \/ pc[t] \in Applying
  BY DEF WriterStep, Quiet, BeginEntry, StoreAction, EndEntry, ClampDone, ClampBegin,
         ClampStore, ClampEnd, Accumulate, Applying
<1> QED BY <1>1, <1>2, <1>3, <1>4, <1>5, <1>6, <1>7, ApplyingIs

-----------------------------------------------------------------------------
(* Every step is one of the ledger's, or none.                             *)

\* What a step leaves of the ledger.
SumsSame == \A n \in Nodes : Committed(n)' = Committed(n)
ViewSame == \A n \in Nodes : Visible(n)' = Visible(n)

\* A step that leaves sums, views and answers alone is no step of the ledger.
LEMMA LedgerStutters ==
  ASSUME SumsSame, ViewSame, answer' = answer
  PROVE  UNCHANGED Ledger!ledgerVars
BY DEF SumsSame, ViewSame, Ledger!ledgerVars

\* A step other than a check leaves the sums alone; one that does not begin to
\* store a node leaves the views alone.
LEMMA LedgerFrame ==
  ASSUME Base, Base', NEW t \in Writers, WriterStep(t), Asked(t)
  PROVE  /\ ~Check(t) => SumsSame
         /\ SumsSame => \A n \in Nodes : ~BeginEntry(t) \/ n # Target(t) =>
                          Visible(n)' = Visible(n)
<1>1. ASSUME ~Check(t), NEW n \in Nodes PROVE Committed(n)' = Committed(n)
  BY <1>1, OwnKept, CommittedKept
<1>2. ASSUME SumsSame, NEW n \in Nodes, ~BeginEntry(t) \/ n # Target(t)
      PROVE  Visible(n)' = Visible(n)
  <2>1. Committed(n)' = Committed(n)
    BY <1>2 DEF SumsSame
  <2>2. OwnView(t, n)' = OwnView(t, n)
    BY <1>2, <2>1, ViewKept
  <2> QED BY <2>1, <2>2, VisibleKept
<1> QED BY <1>1, <1>2 DEF SumsSame

\* Beginning to store a node shows its readers what is committed to it.
LEMMA BeginExposes ==
  ASSUME Base, Base', NEW t \in Writers, WriterStep(t), Asked(t), BeginEntry(t)
  PROVE  Target(t) \in Nodes /\ Ledger!Expose(Target(t))
<1>n. PICK n \in Nodes : n = Target(t)
  BY TargetIsNode DEF BeginEntry, Applying
<1>1. n \in Nodes /\ pc[t] = "begin" /\ pc'[t] = "store" /\ order' = order
      /\ cursor' = cursor /\ answer' = answer
  BY DEF Base, TypeOK, BeginEntry
<1>2. ~Check(t)
  BY <1>1 DEF Check
<1>3. SumsSame
  BY <1>2, LedgerFrame
<1>4. \A m \in Nodes : m # n => Visible(m)' = Visible(m)
  BY <1>n, <1>3, LedgerFrame
<1>5. Storing(t, n)'
  BY <1>n, <1>1 DEF Storing, Target
<1>6. VisibleIsOwn'
  BY VisibleIs, PTL
<1>7. Visible(n)' = OwnView(t, n)'
  BY <1>1, <1>5, <1>6 DEF VisibleIsOwn
<1>8. OwnView(t, n)' = PositivePart(Committed(n).regret)'
  BY <1>5 DEF OwnView
<1>9. Visible(n)' = PositivePart(Committed(n).regret)
  BY <1>1, <1>3, <1>7, <1>8 DEF SumsSame, PositivePart
<1>p. Ledger!Pos(Committed(n).regret) = PositivePart(Committed(n).regret)
  BY DEF Ledger!Pos, PositivePart
<1>10. [m \in Nodes |-> Visible(m)]'
         = [[m \in Nodes |-> Visible(m)] EXCEPT ![n] = Ledger!Pos(Committed(n).regret)]
  BY <1>4, <1>9, <1>p
<1>11. [m \in Nodes |-> Committed(m)]' = [m \in Nodes |-> Committed(m)]
  BY <1>3 DEF SumsSame
<1>12. Ledger!Expose(n)
  BY <1>1, <1>10, <1>11 DEF Ledger!Expose
<1> QED BY <1>n, <1>12

\* A locked query answers with what is committed to its node.
LEMMA LockedReadGives ==
  ASSUME Base, Base', NEW t \in Writers, WriterStep(t), Asked(t), LockedRead(t)
  PROVE  \E n \in Nodes : Ledger!Give(t, n, Ledger!Pos(Committed(n).regret))
<1>1. /\ pc[t] = "lock" /\ op[t] = "read" /\ locked[t] = Len(order[t])
      /\ answer' = [answer EXCEPT ![t] = [node |-> order[t][1],
                                         current |-> PositivePart(regret[order[t][1]])]]
  BY DEF LockedRead, AllLocked
<1>2. Len(order[t]) = 1 /\ order[t] \in Seq(Nodes)
  BY <1>1 DEF Asked, Base, TypeOK
<1>3. PICK n \in Nodes : n = order[t][1]
  BY <1>2
<1>4. lock[n] = t
  BY <1>1, <1>2, <1>3 DEF Base, LockOwner
<1>5. ~Pending(t, n)
  BY <1>1 DEF Pending
<1>6. Committed(n) = [regret |-> regret[n], strategy |-> strategy[n]]
  <2>1. \A u \in Writers \ {t} : ~Pending(u, n)
    BY <1>4, PendingOwner
  <2> QED BY <1>5, <2>1, CommittedIs DEF CommittedIsOwn, Own
<1>p. Ledger!Pos(Committed(n).regret) = PositivePart(regret[n])
  BY <1>6 DEF Ledger!Pos, PositivePart
<1>7. ~Check(t) /\ ~BeginEntry(t)
  BY <1>1 DEF Check, BeginEntry
<1>8. SumsSame /\ ViewSame
  BY <1>7, LedgerFrame DEF ViewSame
<1>9. answer' = [answer EXCEPT ![t] = [node |-> n, current |-> Ledger!Pos(Committed(n).regret)]]
  BY <1>1, <1>3, <1>p
<1>10. /\ [m \in Nodes |-> Visible(m)]' = [m \in Nodes |-> Visible(m)]
       /\ [m \in Nodes |-> Committed(m)]' = [m \in Nodes |-> Committed(m)]
  BY <1>8 DEF SumsSame, ViewSame
<1>11. Ledger!Give(t, n, Ledger!Pos(Committed(n).regret))
  BY <1>9, <1>10 DEF Ledger!Give
<1> QED BY <1>11

\* A check that fails is no step of the ledger.
LEMMA FailedCheck ==
  ASSUME Base, Base', NEW t \in Writers, WriterStep(t), Asked(t), Check(t),
         ~(EntriesValid(t) /\ Len(order[t]) > 0)
  PROVE  UNCHANGED Ledger!ledgerVars
<1>1. /\ pc[t] = "lock" /\ pc'[t] = "unlock" /\ regret' = regret /\ strategy' = strategy
      /\ answer' = answer
  BY DEF Check, nodeVars, Base, TypeOK
<1>2. ASSUME NEW n \in Nodes PROVE Committed(n)' = Committed(n)
  <2>1. ~Pending(t, n) /\ ~Pending(t, n)'
    BY <1>1 DEF Pending
  <2>2. Own(t, n)' = Own(t, n)
    BY <1>1, <2>1 DEF Own
  <2> QED BY <2>2, CommittedKept
<1>3. SumsSame
  BY <1>2 DEF SumsSame
<1>4. ViewSame
  BY <1>1, <1>3, LedgerFrame DEF ViewSame, BeginEntry
<1> QED BY <1>1, <1>3, <1>4, LedgerStutters

\* What will be written to the nodes of a checked commit.
LEMMA CheckedValue ==
  ASSUME Base, NEW t \in Writers, Check(t), EntriesValid(t) /\ Len(order[t]) > 0,
         NEW n \in Nodes, \E i \in 1..Len(order[t]) : order[t][i] = n, NEW a \in Actions
  PROVE  Value(t, n, a)' = [regret |-> regret[n][a] + arena[t][n].regret[a],
                            strategy |-> strategy[n][a] + arena[t][n].strategy[a]]
<1>1. /\ order[t] \in Seq(Nodes) /\ arena \in [Writers -> [Nodes -> Delta]]
      /\ regret' = regret /\ strategy' = strategy
  BY DEF Base, TypeOK, Delta, Vector, Check, nodeVars
<1>2. CASE t \in McThreads
  <2>1. arena'[t][n] = Candidates(n, arena[t][n])
    BY <1>1, <1>2 DEF Check
  <2> QED BY <1>2, <2>1 DEF Value, Candidates
<1>3. CASE t \notin McThreads
  <2>1. arena' = arena
    BY <1>3 DEF Check
  <2> QED BY <1>1, <1>3, <2>1 DEF Value
<1> QED BY <1>2, <1>3

\* A check that succeeds commits every entry, and nothing else.
LEMMA CheckCommits ==
  ASSUME Base, Base', NEW t \in Writers, WriterStep(t), Asked(t), Check(t),
         EntriesValid(t) /\ Len(order[t]) > 0
  PROVE  \E S \in SUBSET Nodes : \E d \in [S -> LedgerDeltas] :
           Ledger!Commit(S, d, Clamps(t))
<1>1. /\ pc[t] = "lock" /\ locked[t] = Len(order[t])
      /\ pc'[t] \in {"begin", "accumulate"} /\ cursor'[t] = 1 /\ order' = order
      /\ regret' = regret /\ strategy' = strategy /\ answer' = answer
  BY DEF Check, AllLocked, nodeVars, Base, TypeOK
<1>2. order[t] \in Seq(Nodes) /\ Len(order[t]) \in Nat
  BY DEF Base, TypeOK
<1> DEFINE S == {n \in Nodes : \E i \in 1..Len(order[t]) : order[t][i] = n}
           d == [n \in S |-> arena[t][n]]
           sums == [n \in Nodes |-> Committed(n)]
           view == [n \in Nodes |-> Visible(n)]
<1>3. d \in [S -> LedgerDeltas]
  BY <1>1 DEF Asked
\* A node of the commit is locked, so that nothing is pending on it.
<1>4. ASSUME NEW n \in S
      PROVE  /\ Committed(n) = [regret |-> regret[n], strategy |-> strategy[n]]
             /\ Visible(n) = PositivePart(regret[n])
  <2>1. lock[n] = t
    BY <1>1 DEF Base, LockOwner
  <2>2. \A u \in Writers \ {t} : ~Pending(u, n) /\ ~Storing(u, n)
    BY <2>1, PendingOwner
  <2>3. ~Pending(t, n) /\ ~Storing(t, n)
    BY <1>1 DEF Pending, Storing
  <2>4. Committed(n) = [regret |-> regret[n], strategy |-> strategy[n]]
    BY <2>2, <2>3, CommittedIs DEF CommittedIsOwn, Own
  <2>5. Visible(n) = PositivePart(regret[n])
    BY <2>2, <2>3, VisibleIs DEF VisibleIsOwn, OwnView
  <2> QED BY <2>4, <2>5
<1>5. ASSUME NEW n \in S
      PROVE  LET v == [a \in Actions |-> regret[n][a] + arena[t][n].regret[a]] IN
             Committed(n)' =
               [regret   |-> IF Clamps(t) THEN PositivePart(v) ELSE v,
                strategy |-> [a \in Actions |-> strategy[n][a] + arena[t][n].strategy[a]]]
  <2>1. PICK i \in 1..Len(order[t]) : order[t][i] = n
    OBVIOUS
  <2>2. Pending(t, n)'
    BY <1>1, <2>1 DEF Pending
  <2>3. CommittedIsOwn'
    BY CommittedIs, PTL
  <2>4. Committed(n)' = After(t, n)'
    BY <2>2, <2>3 DEF CommittedIsOwn, Own
  <2>5. ASSUME NEW a \in Actions
        PROVE  Written(t, n, a)' = [regret |-> regret[n][a] + arena[t][n].regret[a],
                                    strategy |-> strategy[n][a] + arena[t][n].strategy[a]]
    <3>1. Value(t, n, a)' = [regret |-> regret[n][a] + arena[t][n].regret[a],
                             strategy |-> strategy[n][a] + arena[t][n].strategy[a]]
      BY <2>1, CheckedValue
    <3>2. Written(t, n, a)' = Value(t, n, a)'
      BY <1>1 DEF Written
    <3> QED BY <3>1, <3>2
  <2>6. /\ [a \in Actions |-> Written(t, n, a).regret]'
             = [a \in Actions |-> regret[n][a] + arena[t][n].regret[a]]
        /\ [a \in Actions |-> Written(t, n, a).strategy]'
             = [a \in Actions |-> strategy[n][a] + arena[t][n].strategy[a]]
    BY <2>5
  <2> QED BY <2>4, <2>6 DEF After, Clamps, PositivePart
<1>6. ASSUME NEW n \in Nodes \ S PROVE Committed(n)' = Committed(n)
  <2>1. ~Pending(t, n) /\ ~Pending(t, n)'
    BY <1>1 DEF Pending
  <2>2. Own(t, n)' = Own(t, n)
    BY <1>1, <2>1 DEF Own
  <2> QED BY <2>2, CommittedKept
<1>7. ASSUME NEW n \in Nodes PROVE Visible(n)' = Visible(n)
  <2>1. CASE n \notin S
    <3>1. OwnView(t, n)' = OwnView(t, n)
      BY <1>1, <1>6, <2>1, ViewKept DEF BeginEntry
    <3> QED BY <1>6, <2>1, <3>1, VisibleKept
  <2>2. CASE n \in S
    <3>1. lock[n] = t
      BY <1>1, <2>2 DEF Base, LockOwner
    <3>2. \A u \in Writers : ~Storing(u, n)'
      <4>1. \A u \in Writers \ {t} : ~Storing(u, n)
        BY <3>1, PendingOwner
      <4>2. \A u \in Writers \ {t} : ~Storing(u, n)'
        BY <4>1, OwnOthers
      <4>3. ~Storing(t, n)'
        BY <1>1 DEF Storing
      <4> QED BY <4>2, <4>3
    <3>3. VisibleIsOwn'
      BY VisibleIs, PTL
    <3>4. Visible(n)' = PositivePart(regret[n])'
      BY <3>2, <3>3 DEF VisibleIsOwn, OwnView
    <3> QED BY <1>1, <1>4, <2>2, <3>4 DEF PositivePart
  <2> QED BY <2>1, <2>2
<1>8. ASSUME NEW n \in S
      PROVE  /\ view[n] = Ledger!Pos(sums[n].regret)
             /\ Ledger!InRange(Ledger!Added(sums[n].regret, d[n].regret))
             /\ Ledger!InRange(Ledger!Added(sums[n].strategy, d[n].strategy))
  <2>1. DeltasValid(n, arena[t][n])
    BY <1>2 DEF EntriesValid
  <2>2. sums[n] = [regret |-> regret[n], strategy |-> strategy[n]] /\ d[n] = arena[t][n]
    BY <1>4
  <2>3. view[n] = Ledger!Pos(sums[n].regret)
    BY <1>4, <2>2 DEF Ledger!Pos, PositivePart
  <2> HIDE DEF S, d, sums, view
  <2> QED BY <2>1, <2>2, <2>3 DEF DeltasValid, Finite, Ledger!InRange, Ledger!Added
<1>9. sums' = [n \in Nodes |->
                 IF n \notin S THEN sums[n]
                 ELSE [regret |-> LET v == Ledger!Added(sums[n].regret, d[n].regret)
                                  IN IF Clamps(t) THEN Ledger!Pos(v) ELSE v,
                       strategy |-> Ledger!Added(sums[n].strategy, d[n].strategy)]]
  <2>1. ASSUME NEW n \in S
        PROVE  Committed(n)' =
                 [regret |-> LET v == Ledger!Added(sums[n].regret, d[n].regret)
                             IN IF Clamps(t) THEN Ledger!Pos(v) ELSE v,
                  strategy |-> Ledger!Added(sums[n].strategy, d[n].strategy)]
    <3>1. sums[n] = [regret |-> regret[n], strategy |-> strategy[n]] /\ d[n] = arena[t][n]
      BY <1>4
    <3> HIDE DEF S, d, sums, view
    <3> QED BY <1>5, <3>1 DEF Ledger!Pos, Ledger!Added, PositivePart
  <2>2. ASSUME NEW n \in Nodes \ S PROVE Committed(n)' = sums[n]
    BY <1>6
  <2> HIDE DEF S, d
  <2> QED BY <2>1, <2>2
<1>10. view' = view
  BY <1>7
<1>11. Ledger!Commit(S, d, Clamps(t))
  <2> HIDE DEF S, d
  <2> QED BY <1>1, <1>8, <1>9, <1>10 DEF Ledger!Commit
<1>12. S \in SUBSET Nodes
  OBVIOUS
<1> HIDE DEF S, d, sums, view
<1> QED BY <1>3, <1>11, <1>12

\* No reader has been overtaken by a whole round of versions (2^31 updates of
\* one node during one snapshot).
NoLap == \A r \in Readers : moved[r] < VersionModulus

\* A lock-free query answers with what its node shows.
LEMMA ReaderGives ==
  ASSUME IInv, NoLap, NEW r \in Readers, ReaderStep(r), UNCHANGED commitVars
  PROVE  \/ \E n \in Nodes : Ledger!Give(r, n, Visible(n))
         \/ UNCHANGED Ledger!ledgerVars
<1>1. regret' = regret /\ strategy' = strategy
  BY DEF ReaderStep, nodeVars
<1>2. SumsSame /\ ViewSame
  BY <1>1
  DEF SumsSame, ViewSame, Committed, Visible, Pending, Written, Target, Value, Clamps,
      PositivePart, commitVars
<1>3. CASE answer' = answer
  BY <1>2, <1>3, LedgerStutters
<1>4. CASE answer' # answer
  <2>1. /\ rpc[r] = "check" /\ version[rnode[r]] = rversion[r]
        /\ answer' = [answer EXCEPT ![r] = [node |-> rnode[r],
                                           current |-> PositivePart(snap[r])]]
    BY <1>4 DEF ReaderStep, ReadStart, ReadVersion, ReadRegret, ReadCheck
  <2>2. PICK n \in Nodes : n = rnode[r]
    BY DEF IInv, Base, TypeOK
  <2>3. AcceptedSnapshotCoherent
    BY SnapshotsCoherent
  <2>4. snap[r] = regret[n] /\ \A t \in Writers : ~Writing(t, n)
    BY <2>1, <2>2, <2>3 DEF AcceptedSnapshotCoherent, NoLap
  <2>5. \A t \in Writers : ~(pc[t] = "store" /\ Target(t) = n)
    BY <2>4 DEF Writing
  <2>6. Visible(n) = PositivePart(snap[r])
    BY <2>4, <2>5 DEF Visible
  <2>7. /\ [m \in Nodes |-> Visible(m)]' = [m \in Nodes |-> Visible(m)]
        /\ [m \in Nodes |-> Committed(m)]' = [m \in Nodes |-> Committed(m)]
    BY <1>2 DEF SumsSame, ViewSame
  <2>8. Ledger!Give(r, n, Visible(n))
    BY <2>1, <2>2, <2>6, <2>7 DEF Ledger!Give
  <2> QED BY <2>8
<1> QED BY <1>3, <1>4

\* The initial sums are the ledger's.
LEMMA LedgerInit == Init => Ledger!Init
<1> SUFFICES ASSUME Init PROVE Ledger!Init
  OBVIOUS
<1>1. /\ \A t \in Writers : pc[t] = "idle"
      /\ \A n \in Nodes : regret[n] = Zero /\ strategy[n] = Zero
      /\ answer = [x \in Readers \union Writers |-> NoAnswer]
  BY DEF Init, InfoNodeInit, ReaderInit
<1>2. Zero = Ledger!None
  BY DEF Zero, Ledger!None
<1>3. PositivePart(Zero) = Zero
  BY DEF PositivePart, Zero
<1>4. ASSUME NEW n \in Nodes
      PROVE  /\ Committed(n) = [regret |-> Zero, strategy |-> Zero]
             /\ Visible(n) = Zero
  <2>1. \A t \in Writers : ~Pending(t, n)
    BY <1>1 DEF Pending
  <2>2. Committed(n) = [regret |-> Zero, strategy |-> Zero]
    BY <1>1, <2>1 DEF Committed
  <2>3. Visible(n) = Zero
    BY <1>1, <1>3 DEF Visible
  <2> QED BY <2>2, <2>3
<1> QED BY <1>1, <1>2, <1>4 DEF Ledger!Init, NoAnswer

\* A step of a writer is a step of the ledger, or none.
LEMMA LedgerWriter ==
  ASSUME Base, Base', NEW t \in Writers, WriterStep(t), Asked(t)
  PROVE  Ledger!Next \/ UNCHANGED Ledger!ledgerVars
<1>1. CASE Check(t)
  <2>1. CASE EntriesValid(t) /\ Len(order[t]) > 0
    <3>1. PICK S \in SUBSET Nodes : \E d \in [S -> LedgerDeltas] :
            Ledger!Commit(S, d, Clamps(t))
      BY <1>1, <2>1, CheckCommits
    <3>2. PICK d \in [S -> LedgerDeltas] : Ledger!Commit(S, d, Clamps(t))
      BY <3>1
    <3>3. Clamps(t) \in {FALSE, Plus}
      BY NodeCommitAssumption DEF Clamps
    <3> QED BY <3>2, <3>3 DEF Ledger!Next, LedgerDeltas
  <2>2. CASE ~(EntriesValid(t) /\ Len(order[t]) > 0)
    BY <1>1, <2>2, FailedCheck
  <2> QED BY <2>1, <2>2
<1>2. CASE BeginEntry(t)
  BY <1>2, BeginExposes DEF Ledger!Next
<1>3. CASE LockedRead(t)
  <2>1. PICK n \in Nodes : Ledger!Give(t, n, Ledger!Pos(Committed(n).regret))
    BY <1>3, LockedReadGives
  <2>2. [m \in Nodes |-> Committed(m)][n] = Committed(n)
    OBVIOUS
  <2> QED BY <2>1, <2>2 DEF Ledger!Next
<1>4. CASE ~Check(t) /\ ~BeginEntry(t) /\ ~LockedRead(t)
  <2>1. SumsSame /\ ViewSame
    BY <1>4, LedgerFrame DEF ViewSame
  <2>2. answer' = answer
    BY <1>4
    DEF WriterStep, StartCommit, StartNodeOp, Begin, LockNext, Conflict, BackOff, Retry,
        StoreAction, EndEntry, ClampBegin, ClampStore, ClampEnd, ClampDone, Accumulate,
        UnlockLast, Return
  <2> QED BY <2>1, <2>2, LedgerStutters
<1> QED BY <1>1, <1>2, <1>3, <1>4

\* The deltas of a call are what its caller asked for, in every state.
AllAsked == \A t \in Writers : Asked(t)

\* What is known of the calls holds in every reachable state.
LEMMA AskedAlways == Spec => []AllAsked
<1>1. Init => AllAsked
  <2> SUFFICES ASSUME Init, NEW t \in Writers PROVE Asked(t)
    BY DEF AllAsked
  <2>1. pc[t] = "idle" /\ op[t] = "commit"
    BY DEF Init
  <2> QED BY <2>1 DEF Asked
<1>2. IInv /\ AllAsked /\ [Next]_vars => AllAsked'
  <2> SUFFICES ASSUME IInv, AllAsked, [Next]_vars PROVE AllAsked'
    OBVIOUS
  <2>1. ASSUME NEW t \in Writers, WriterStep(t) PROVE AllAsked'
    BY <2>1, AskedWriter DEF AllAsked, IInv
  <2>2. ASSUME UNCHANGED commitVars PROVE AllAsked'
    BY <2>2 DEF AllAsked, Asked, Clamps, commitVars
  <2> QED BY <2>1, <2>2 DEF Next, Done, vars
<1> QED BY <1>1, <1>2, CommitInvariant, PTL DEF Spec

\* Every step of the nodes is one of the ledger, or none.
LEMMA LedgerStep ==
  IInv /\ IInv' /\ AllAsked /\ NoLap /\ [Next]_vars => [Ledger!Next]_(Ledger!ledgerVars)
<1> SUFFICES ASSUME IInv, IInv', AllAsked, NoLap, [Next]_vars
             PROVE  Ledger!Next \/ UNCHANGED Ledger!ledgerVars
  OBVIOUS
<1>1. ASSUME NEW t \in Writers, WriterStep(t)
      PROVE  Ledger!Next \/ UNCHANGED Ledger!ledgerVars
  BY <1>1, LedgerWriter DEF IInv, AllAsked
<1>2. ASSUME NEW r \in Readers, ReaderStep(r), UNCHANGED commitVars
      PROVE  Ledger!Next \/ UNCHANGED Ledger!ledgerVars
  <2>1. CASE \E n \in Nodes : Ledger!Give(r, n, Visible(n))
    <3>1. PICK n \in Nodes : Ledger!Give(r, n, Visible(n))
      BY <2>1
    <3>2. [m \in Nodes |-> Visible(m)][n] = Visible(n)
      OBVIOUS
    <3> QED BY <3>1, <3>2 DEF Ledger!Next
  <2> QED BY <1>2, <2>1, ReaderGives
<1>3. CASE UNCHANGED vars
  <2>1. SumsSame /\ ViewSame /\ answer' = answer
    BY <1>3
    DEF SumsSame, ViewSame, Committed, Visible, Pending, Written, Target, Value, Clamps,
        PositivePart, vars, commitVars, nodeVars
  <2> QED BY <2>1, LedgerStutters
<1> QED BY <1>1, <1>2, <1>3 DEF Next, Done

\* Commits are atomic and lose no update, whatever the number of threads, nodes
\* and actions and however their locks and stores interleave; every query, with
\* or without a lock, answers with a committed state of its node.
THEOREM CommitImplementsLedger == Spec /\ []NoLap => ImplementsLedger
<1> QED BY LedgerInit, LedgerStep, AskedAlways, CommitInvariant, PTL
        DEF Spec, ImplementsLedger, Ledger!Spec
=============================================================================
