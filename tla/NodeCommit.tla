----------------------------- MODULE NodeCommit -----------------------------
(***************************************************************************)
(* The commit of a finished traversal: the deltas of its workspace reach   *)
(* every node they belong to, or none of them.                             *)
(*                                                                         *)
(*   CfrThreads  workspace_commit_deltas of src/traversal.c: blocking      *)
(*               locks in key order, check, apply (and clamp, in CFR+);    *)
(*   McThreads   workspace_commit_deltas of src/mccfr.c: try-locks in      *)
(*               address order, backing off from a conflict, prepare,      *)
(*               publish;                                                  *)
(*   ApiThreads  the single-node operations of src/info_node.c;            *)
(*   Readers     the lock-free strategy reader of InfoNode.                *)
(*                                                                         *)
(* The traversal that fills the workspace is abstracted to its outcome:    *)
(* any set of nodes, at most one entry per node, with any deltas.          *)
(***************************************************************************)
EXTENDS InfoNode, Sequences

CONSTANTS
  CfrThreads, McThreads, ApiThreads,
  KeyRank, PtrRank,   \* node |-> rank of its key, of its address
  Plus,               \* workspace->regret_matching_plus of the CfrThreads
  Deltas,             \* the deltas a traversal may have for a node
  ApiOps,             \* the single-node operations in use
  MaxCalls            \* bound: calls started by one writer

NodeOps == {"apply", "add_regret", "accumulate", "read"}

ASSUME NodeCommitAssumption ==
  /\ Writers = CfrThreads \union McThreads \union ApiThreads
  /\ CfrThreads \intersect (McThreads \union ApiThreads) = {}
  /\ McThreads \intersect ApiThreads = {}
  /\ Writers \intersect Readers = {}
  /\ IsFiniteSet(Nodes) /\ Nodes # {}
  /\ KeyRank \in [Nodes -> Nat] /\ PtrRank \in [Nodes -> Nat]
  /\ Plus \in BOOLEAN
  /\ Deltas \subseteq [regret : [Actions -> Int], strategy : [Actions -> Int]]
  /\ ApiOps \subseteq NodeOps
  /\ MaxCalls \in Nat

VARIABLES
  pc,       \* writer |-> control point
  op,       \* writer |-> the operation it runs
  order,    \* writer |-> the nodes of its entries, in lock order
  arena,    \* writer |-> per node, its deltas (after prepare: its candidates)
  locked,   \* writer |-> locked_count
  cursor,   \* writer |-> the entry being written, or the one in conflict
  todo,     \* writer |-> actions of that entry not yet stored
  calls     \* writer |-> calls started

commitVars == <<pc, op, order, arena, locked, cursor, todo, calls>>
vars == <<nodeVars, readerVars, moved, answer, commitVars>>

NoDelta == [regret |-> Zero, strategy |-> Zero]

Init ==
  /\ InfoNodeInit /\ ReaderInit
  /\ pc     = [t \in Writers |-> "idle"]
  /\ op     = [t \in Writers |-> "commit"]
  /\ order  = [t \in Writers |-> <<>>]
  /\ arena  = [t \in Writers |-> [n \in Nodes |-> NoDelta]]
  /\ locked = [t \in Writers |-> 0]
  /\ cursor = [t \in Writers |-> 0]
  /\ todo   = [t \in Writers |-> {}]
  /\ calls  = [t \in Writers |-> 0]

-----------------------------------------------------------------------------
(* Starting a call.                                                        *)

\* The entries of a workspace after the sort: each node at most once, in
\* strictly increasing rank.
SortedEntries(rank) ==
  {s \in UNION {[1..m -> Nodes] : m \in 0..Cardinality(Nodes)} :
     \A i, j \in DOMAIN s : i < j => rank[s[i]] < rank[s[j]]}

\* compare_entries orders by key, delta_entry_precedes by address.
LockRank(t) == IF t \in McThreads THEN PtrRank ELSE KeyRank

Begin(t, o, entries, deltas) ==
  /\ pc[t] = "idle" /\ calls[t] < MaxCalls
  /\ pc'     = [pc EXCEPT ![t] = "lock"]
  /\ op'     = [op EXCEPT ![t] = o]
  /\ order'  = [order EXCEPT ![t] = entries]
  /\ arena'  = [arena EXCEPT ![t] = deltas]
  /\ locked' = [locked EXCEPT ![t] = 0]
  /\ cursor' = [cursor EXCEPT ![t] = 0]
  /\ calls'  = [calls EXCEPT ![t] = @ + 1]
  /\ UNCHANGED <<todo, nodeVars, moved, answer>>

\* workspace_commit_deltas is entered with the deltas of a traversal.
StartCommit(t) ==
  /\ t \in CfrThreads \union McThreads
  /\ \E entries \in SortedEntries(LockRank(t)) :
       \E d \in [{entries[i] : i \in DOMAIN entries} -> Deltas] :
         Begin(t, "commit", entries,
               [n \in Nodes |-> IF n \in DOMAIN d THEN d[n] ELSE NoDelta])

Only(v, a) == [b \in Actions |-> IF b = a THEN v[a] ELSE 0]

\* What one call of a single-node operation adds to its node.
ApiDeltas(o) ==
  CASE o = "apply"      -> Deltas
    [] o = "add_regret" -> {[regret |-> Only(d.regret, a), strategy |-> Zero] :
                              d \in Deltas, a \in Actions}
    [] o = "accumulate" -> {[regret |-> Zero, strategy |-> d.strategy] :
                              d \in Deltas}
    [] OTHER            -> {NoDelta}

\* cfr_info_node_apply_deltas, _add_regret, _accumulate_strategy, and the
\* locked queries _current_strategy and _average_strategy ("read").
StartNodeOp(t) ==
  /\ t \in ApiThreads
  /\ \E o \in ApiOps, n \in Nodes : \E d \in ApiDeltas(o) :
       Begin(t, o, <<n>>, [m \in Nodes |-> IF m = n THEN d ELSE NoDelta])

-----------------------------------------------------------------------------
(* Acquiring the locks.                                                    *)

AllLocked(t) == locked[t] = Len(order[t])

\* The next lock in order.  A thread other than an MCCFR worker waits here
\* for as long as the lock is taken, keeping the locks it has.
LockNext(t) ==
  /\ pc[t] = "lock" /\ ~AllLocked(t)
  /\ TryLock(order[t][locked[t] + 1], t)
  /\ locked' = [locked EXCEPT ![t] = @ + 1]
  /\ UNCHANGED <<pc, op, order, arena, cursor, todo, calls,
                 version, regret, strategy, moved, answer>>

\* A mutant: the worker spins and keeps what it has.
ConflictHolding(t) ==
  /\ pc[t] = "lock" /\ ~AllLocked(t)
  /\ t \in McThreads
  /\ lock[order[t][locked[t] + 1]] # NoThread
  /\ UNCHANGED <<commitVars, nodeVars, moved, answer>>

\* An MCCFR worker that fails to lock a node gives up the locks it holds...
Conflict(t) ==
  /\ pc[t] = "lock" /\ ~AllLocked(t)
  /\ t \in McThreads
  /\ lock[order[t][locked[t] + 1]] # NoThread
  /\ cursor' = [cursor EXCEPT ![t] = locked[t] + 1]
  /\ pc' = [pc EXCEPT ![t] = "backoff"]
  /\ UNCHANGED <<op, order, arena, locked, todo, calls, nodeVars, moved, answer>>

\* A mutant: the index is one too far.
BackOffNext(t) ==
  /\ pc[t] = "backoff" /\ locked[t] > 0
  /\ Unlock(order[t][locked[t] + 1])
  /\ locked' = [locked EXCEPT ![t] = @ - 1]
  /\ UNCHANGED <<pc, op, order, arena, cursor, todo, calls,
                 version, regret, strategy, moved, answer>>

\* ... one at a time...
BackOff(t) ==
  /\ pc[t] = "backoff" /\ locked[t] > 0
  /\ Unlock(order[t][locked[t]])
  /\ locked' = [locked EXCEPT ![t] = @ - 1]
  /\ UNCHANGED <<pc, op, order, arena, cursor, todo, calls,
                 version, regret, strategy, moved, answer>>

\* ... and starts over once it has seen the node in conflict unlocked.
Retry(t) ==
  /\ pc[t] = "backoff" /\ locked[t] = 0
  /\ lock[order[t][cursor[t]]] = NoThread
  /\ pc' = [pc EXCEPT ![t] = "lock"]
  /\ cursor' = [cursor EXCEPT ![t] = 0]
  /\ UNCHANGED <<op, order, arena, locked, todo, calls, nodeVars, moved, answer>>

-----------------------------------------------------------------------------
(* Validating every entry under the locks.                                 *)

\* A mutant: the sums are not checked.
DeltasFinite(n, d) ==
  \A a \in Actions :
    Finite(d.regret[a]) /\ Finite(d.strategy[a]) /\ d.strategy[a] >= 0

DeltasValid(n, d) ==
  \A a \in Actions :
    /\ Finite(d.regret[a]) /\ Finite(d.strategy[a]) /\ d.strategy[a] >= 0
    /\ Finite(regret[n][a] + d.regret[a])
    /\ Finite(strategy[n][a] + d.strategy[a])
    /\ strategy[n][a] + d.strategy[a] >= 0

\* A mutant: one valid entry is enough.
SomeEntryValid(t) ==
  \E i \in DOMAIN order[t] : DeltasValid(order[t][i], arena[t][order[t][i]])

EntriesValid(t) ==
  \A i \in DOMAIN order[t] : DeltasValid(order[t][i], arena[t][order[t][i]])

\* The values that an entry's deltas lead to.
Candidates(n, d) ==
  [regret   |-> [a \in Actions |-> regret[n][a] + d.regret[a]],
   strategy |-> [a \in Actions |-> strategy[n][a] + d.strategy[a]]]

\* check_deltas_locked leaves the arena alone, prepare_values_locked
\* overwrites the deltas with the candidate values.
Check(t) ==
  /\ pc[t] = "lock" /\ AllLocked(t) /\ op[t] # "read"
  /\ IF EntriesValid(t) /\ Len(order[t]) > 0
     THEN /\ pc' = [pc EXCEPT ![t] =
                      IF op[t] = "accumulate" THEN "accumulate" ELSE "begin"]
          /\ cursor' = [cursor EXCEPT ![t] = 1]
          /\ arena' = IF t \in McThreads
                      THEN [arena EXCEPT ![t] =
                              [n \in Nodes |->
                                 IF \E i \in DOMAIN order[t] : order[t][i] = n
                                 THEN Candidates(n, arena[t][n])
                                 ELSE NoDelta]]
                      ELSE arena
     ELSE /\ pc' = [pc EXCEPT ![t] = "unlock"]
          /\ UNCHANGED <<cursor, arena>>
  /\ UNCHANGED <<op, order, locked, todo, calls, nodeVars, moved, answer>>

-----------------------------------------------------------------------------
(* Writing the entries, one node at a time.                                *)

Target(t) == order[t][cursor[t]]

\* add_regret stores one element, the other updates store all of them.
Touched(t) ==
  IF op[t] = "add_regret"
  THEN {a \in Actions : arena[t][Target(t)].regret[a] # 0}
  ELSE Actions

BeginEntry(t) ==
  /\ pc[t] = "begin"
  /\ BeginUpdate(Target(t))
  /\ todo' = [todo EXCEPT ![t] = Touched(t)]
  /\ pc' = [pc EXCEPT ![t] = "store"]
  /\ UNCHANGED <<op, order, arena, locked, cursor, calls,
                 lock, regret, strategy, answer>>

\* apply_validated_deltas adds the deltas, publish_validated_values stores
\* the candidates.
Value(t, n, a) ==
  LET d == arena[t][n]
  IN IF t \in McThreads
     THEN [regret |-> d.regret[a], strategy |-> d.strategy[a]]
     ELSE [regret |-> regret[n][a] + d.regret[a],
           strategy |-> strategy[n][a] + d.strategy[a]]

StoreAction(t) ==
  /\ pc[t] = "store"
  /\ \E a \in todo[t] :
       LET n == Target(t) IN
       /\ StoreRegret(n, a, Value(t, n, a).regret)
       /\ strategy' = [strategy EXCEPT ![n][a] = Value(t, n, a).strategy]
       /\ todo' = [todo EXCEPT ![t] = @ \ {a}]
  /\ UNCHANGED <<pc, op, order, arena, locked, cursor, calls,
                 lock, version, moved, answer>>

\* Where a thread goes once the entry at its cursor is written.
FinishEntry(t) ==
  IF cursor[t] < Len(order[t])
  THEN /\ cursor' = [cursor EXCEPT ![t] = @ + 1]
       /\ pc' = [pc EXCEPT ![t] = "begin"]
  ELSE /\ pc' = [pc EXCEPT ![t] = "unlock"]
       /\ UNCHANGED cursor

Clamps(t) == t \in CfrThreads /\ Plus

EndEntry(t) ==
  /\ pc[t] = "store" /\ todo[t] = {}
  /\ EndUpdate(Target(t))
  /\ IF Clamps(t)
     THEN pc' = [pc EXCEPT ![t] = "clamp"] /\ UNCHANGED cursor
     ELSE FinishEntry(t)
  /\ UNCHANGED <<op, order, arena, locked, todo, calls,
                 lock, regret, strategy, answer>>

\* clamp_regret_nonnegative_locked for each action: a negative regret is
\* cleared in a version window of its own (the order of the actions, which
\* no property depends on, is left open).
ClampBegin(t) ==
  /\ pc[t] = "clamp"
  /\ \E a \in Actions : regret[Target(t)][a] < 0
  /\ BeginUpdate(Target(t))
  /\ pc' = [pc EXCEPT ![t] = "clamping"]
  /\ UNCHANGED <<op, order, arena, locked, cursor, todo, calls,
                 lock, regret, strategy, answer>>

ClampStore(t) ==
  /\ pc[t] = "clamping"
  /\ \E a \in Actions :
       /\ regret[Target(t)][a] < 0
       /\ StoreRegret(Target(t), a, 0)
  /\ pc' = [pc EXCEPT ![t] = "clamped"]
  /\ UNCHANGED <<op, order, arena, locked, cursor, todo, calls,
                 lock, version, strategy, moved, answer>>

ClampEnd(t) ==
  /\ pc[t] = "clamped"
  /\ EndUpdate(Target(t))
  /\ pc' = [pc EXCEPT ![t] = "clamp"]
  /\ UNCHANGED <<op, order, arena, locked, cursor, todo, calls,
                 lock, regret, strategy, answer>>

ClampDone(t) ==
  /\ pc[t] = "clamp"
  /\ \A a \in Actions : regret[Target(t)][a] >= 0
  /\ FinishEntry(t)
  /\ UNCHANGED <<op, order, arena, locked, todo, calls, nodeVars, moved, answer>>

\* cfr_info_node_accumulate_strategy writes the strategy sums only, which
\* no lock-free reader looks at, and leaves the version alone.
Accumulate(t) ==
  /\ pc[t] = "accumulate"
  /\ strategy' = [strategy EXCEPT ![Target(t)] =
                    Candidates(Target(t), arena[t][Target(t)]).strategy]
  /\ pc' = [pc EXCEPT ![t] = "unlock"]
  /\ UNCHANGED <<op, order, arena, locked, cursor, todo, calls,
                 lock, version, regret, moved, answer>>

\* cfr_info_node_current_strategy and _average_strategy.
LockedRead(t) ==
  /\ pc[t] = "lock" /\ AllLocked(t) /\ op[t] = "read"
  /\ answer' = [answer EXCEPT ![t] =
                  [node |-> order[t][1],
                   current |-> PositivePart(regret[order[t][1]])]]
  /\ pc' = [pc EXCEPT ![t] = "unlock"]
  /\ UNCHANGED <<op, order, arena, locked, cursor, todo, calls, nodeVars, moved>>

-----------------------------------------------------------------------------
(* Releasing the locks, last one first; the workspace is then reused.      *)

UnlockLast(t) ==
  /\ pc[t] = "unlock" /\ locked[t] > 0
  /\ Unlock(order[t][locked[t]])
  /\ locked' = [locked EXCEPT ![t] = @ - 1]
  /\ UNCHANGED <<pc, op, order, arena, cursor, todo, calls,
                 version, regret, strategy, moved, answer>>

Return(t) ==
  /\ pc[t] = "unlock" /\ locked[t] = 0
  /\ pc'     = [pc EXCEPT ![t] = "idle"]
  /\ op'     = [op EXCEPT ![t] = "commit"]
  /\ order'  = [order EXCEPT ![t] = <<>>]
  /\ arena'  = [arena EXCEPT ![t] = [n \in Nodes |-> NoDelta]]
  /\ cursor' = [cursor EXCEPT ![t] = 0]
  /\ UNCHANGED <<locked, todo, calls, nodeVars, moved, answer>>

WriterStep(t) ==
  /\ \/ StartCommit(t) \/ StartNodeOp(t)
     \/ LockNext(t) \/ Conflict(t) \/ BackOff(t) \/ Retry(t)
     \/ Check(t) \/ BeginEntry(t) \/ StoreAction(t) \/ EndEntry(t)
     \/ ClampBegin(t) \/ ClampStore(t) \/ ClampEnd(t) \/ ClampDone(t)
     \/ Accumulate(t) \/ LockedRead(t)
     \/ UnlockLast(t) \/ Return(t)
  /\ UNCHANGED readerVars

\* Every call has returned and the bounds allow no other.
Finished ==
  /\ \A t \in Writers : pc[t] = "idle" /\ calls[t] = MaxCalls
  /\ \A r \in Readers : rpc[r] = "idle" /\ reads[r] = MaxReads

Done == Finished /\ UNCHANGED vars

Next ==
  \/ \E t \in Writers : WriterStep(t)
  \/ \E r \in Readers : ReaderStep(r) /\ UNCHANGED commitVars
  \/ Done

Spec == Init /\ [][Next]_vars
-----------------------------------------------------------------------------
(* Fairness: a started call keeps being scheduled.  A blocked thread spins *)
(* with cfr_spin_wait, which yields the processor, so a step that stays    *)
(* possible is taken.  Nothing makes a caller start another call.          *)

Started(t) == pc[t] # "idle" /\ WriterStep(t)
Reading(r) == rpc[r] # "idle" /\ ReaderStep(r) /\ UNCHANGED commitVars

FairSpec ==
  /\ Spec
  /\ \A t \in Writers : WF_vars(Started(t))
  /\ \A r \in Readers : WF_vars(Reading(r))

-----------------------------------------------------------------------------
(* Properties.                                                             *)

\* Type correctness of the nodes, the readers and the commits.
TypeOK ==
  /\ lock \in [Nodes -> Writers \union {NoThread}]
  /\ version \in [Nodes -> 0..(VersionModulus - 1)]
  /\ regret \in [Nodes -> [Actions -> Int]]
  /\ strategy \in [Nodes -> [Actions -> Int]]
  /\ rpc \in [Readers -> {"idle", "version", "load", "check"}]
  /\ rnode \in [Readers -> Nodes]
  /\ rversion \in [Readers -> 0..(VersionModulus - 1)]
  /\ rtodo \in [Readers -> SUBSET Actions]
  /\ snap \in [Readers -> [Actions -> Int]]
  /\ moved \in [Readers -> 0..VersionModulus]
  /\ reads \in [Readers -> 0..MaxReads]
  /\ pc \in [Writers -> {"idle", "lock", "backoff", "begin", "store", "clamp",
                         "clamping", "clamped", "accumulate", "unlock"}]
  /\ op \in [Writers -> {"commit"} \union NodeOps]
  /\ order \in [Writers -> Seq(Nodes)]
  /\ arena \in [Writers -> [Nodes -> [regret : [Actions -> Int],
                                      strategy : [Actions -> Int]]]]
  /\ locked \in [Writers -> Nat]
  /\ cursor \in [Writers -> Nat]
  /\ todo \in [Writers -> SUBSET Actions]
  /\ calls \in [Writers -> 0..MaxCalls]

\* A thread is inside a version window of the node it writes.
Writing(t, n) ==
  pc[t] \in {"store", "clamping", "clamped"} /\ Target(t) = n

\* The version of a node is odd exactly while one thread, the one that owns
\* the node's lock, is between info_node_begin_update and _end_update.
VersionMarksWriter ==
  \A n \in Nodes :
    /\ version[n] % 2 = 1 <=> \E t \in Writers : Writing(t, n)
    /\ \A t \in Writers : Writing(t, n) => lock[n] = t

\* A snapshot that the second version load of
\* cfr_info_node_current_strategy_concurrent accepts is the regret array of
\* one moment, outside every update, as long as fewer than VersionModulus
\* version steps fit between the two loads (2^31 updates of one node).
AcceptedSnapshotCoherent ==
  \A r \in Readers :
    (/\ rpc[r] = "check"
     /\ version[rnode[r]] = rversion[r]
     /\ moved[r] < VersionModulus)
      => /\ snap[r] = regret[rnode[r]]
         /\ ~ \E t \in Writers : Writing(t, rnode[r])

\* No accumulator ever leaves the finite range and no strategy sum is
\* negative: what workspace_check_locked_deltas and
\* workspace_prepare_locked_values validated is still true of the values
\* when they are stored.
AccumulatorsStayFinite ==
  \A n \in Nodes, a \in Actions :
    Finite(regret[n][a]) /\ Finite(strategy[n][a]) /\ strategy[n][a] >= 0

\* Every started call returns: no deadlock between threads that lock in key
\* order, threads that lock in address order and single-node operations, no
\* endless back-off, no reader that retries for ever.
EveryCallReturns ==
  /\ \A t \in Writers : pc[t] # "idle" ~> pc[t] = "idle"
  /\ \A r \in Readers : rpc[r] # "idle" ~> rpc[r] = "idle"

-----------------------------------------------------------------------------
(* Refinement of RegretLedger.  A commit takes effect when its last entry  *)
(* passes validation with every lock held: from then on the sums of its    *)
(* nodes are those it is about to store.                                   *)

\* The entry of n that thread t has validated and not finished writing.
Pending(t, n) ==
  /\ pc[t] \in {"begin", "store", "clamp", "clamping", "clamped", "accumulate"}
  /\ \E i \in cursor[t]..Len(order[t]) : order[t][i] = n

\* What action a of n will hold once t has written it.
Written(t, n, a) ==
  IF \/ n # Target(t)
     \/ pc[t] \in {"begin", "accumulate"}
     \/ pc[t] = "store" /\ a \in todo[t]
  THEN Value(t, n, a)
  ELSE [regret |-> regret[n][a], strategy |-> strategy[n][a]]

Committed(n) ==
  IF \E t \in Writers : Pending(t, n)
  THEN LET t == CHOOSE u \in Writers : Pending(u, n)
           v == [a \in Actions |-> Written(t, n, a).regret]
       IN [regret   |-> IF Clamps(t) THEN PositivePart(v) ELSE v,
           strategy |-> [a \in Actions |-> Written(t, n, a).strategy]]
  ELSE [regret |-> regret[n], strategy |-> strategy[n]]

Visible(n) ==
  IF \E t \in Writers : pc[t] = "store" /\ Target(t) = n
  THEN PositivePart(Committed(n).regret)
  ELSE PositivePart(regret[n])

Ledger == INSTANCE RegretLedger WITH
  Lockers  <- Writers,
  Changes  <- Deltas \union UNION {ApiDeltas(o) : o \in ApiOps},
  Clamping <- Plus,
  Nobody   <- NoThread,
  sums     <- [n \in Nodes |-> Committed(n)],
  visible  <- [n \in Nodes |-> Visible(n)]

\* Commits are atomic and no update is lost; every strategy query returns
\* the strategy of a committed state of its node.
ImplementsLedger == Ledger!Spec
=============================================================================
