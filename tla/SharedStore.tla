---------------------------- MODULE SharedStore ----------------------------
(***************************************************************************)
(* An InfoStore of src/info_store.c before, while and after                *)
(* cfr_info_store_prepare_concurrent shards it: one table under the        *)
(* store's reader/writer lock (RWLock, implemented by StoreLock), and the  *)
(* pointer concurrent_state that every operation loads to choose its path. *)
(*                                                                         *)
(* Once the store is sharded an operation is one step here: what is inside *)
(* is the subject of ConcurrentStore.  Its nodes are the set `sharded`.    *)
(***************************************************************************)
EXTENDS StoreTable, RWLock

CONSTANTS
  ActionCounts,   \* action counts callers ask for
  Ops,            \* operations in use
  Preloaded,      \* distinct keys inserted, in this order, before the threads start
  Reservations,   \* arguments of cfr_info_store_reserve
  MayFail,        \* whether allocations and the initializer may fail
  MaxCalls        \* bound: calls by one thread

AllOps == {"find", "get_or_create", "sequential", "reserve", "get_stats", "snapshot",
           "prepare"}

ASSUME SharedStoreAssumption ==
  /\ ActionCounts \subseteq Nat /\ ActionCounts # {}
  /\ Ops \subseteq AllOps /\ Reservations \subseteq Nat /\ Preloaded \in Seq(Keys)
  /\ \A i, j \in DOMAIN Preloaded : Preloaded[i] = Preloaded[j] => i = j
  /\ CapacityFor(Len(Preloaded), MinCapacity) <= MaxCapacity
  /\ MayFail \in BOOLEAN /\ MaxCalls \in Nat

VARIABLES
  entries,   \* the table, or NULL
  size,      \* info_store->size
  arena,     \* the nodes; address <<i>> is arena[i]
  state,     \* concurrent_state # NULL
  sharded,   \* the nodes of concurrent_state, while it is built and after
  pc, call, calls,
  given      \* history: key |-> the addresses returned for it

store == <<entries, size, arena, state, sharded>>
vars == <<store, rwVars, pc, call, calls, given>>

Node(a) == arena[a[1]]
KeyAt(a) == Node(a).key
KeysIn(table) == [a \in NodesIn(table) |-> KeyAt(a)]

LocateKey(table, key) ==
  Locate(table, StoreStart(key, Capacity(table)),
         {i \in Occupied(table) : table[i].mark = key})

\* rebuild: NULL when it fails.
Rebuilt(capacity) ==
  TheOnly({IF new # NULL /\ Cardinality(Occupied(new)) = size THEN new ELSE NULL :
             new \in {Rehash(entries, capacity, KeysIn(entries), StoreStarts(capacity))}})

Nodes == IF entries # NULL THEN NodesIn(entries) ELSE sharded
Stored(key) == \E a \in Nodes : KeyAt(a) = key

Idle == [op |-> "none", key |-> 0, actions |-> 0, minimum |-> 0,
         status |-> "none", value |-> NULL, known |-> FALSE, before |-> {}]

\* cfr_info_store_init, then the insertion of the preloaded keys.
Init ==
  /\ arena = [i \in DOMAIN Preloaded |->
                [key |-> Preloaded[i], actions |-> CHOOSE n \in ActionCounts : TRUE]]
  /\ entries = LET list == [i \in 0..(Len(Preloaded) - 1) |->
                              [node |-> <<i + 1>>, mark |-> Preloaded[i + 1]]]
                   capacity == CapacityFor(Len(Preloaded), MinCapacity)
               IN Rehash(list, capacity, KeysIn(list), StoreStarts(capacity))
  /\ size = Len(Preloaded)
  /\ state = FALSE /\ sharded = {}
  /\ RWInit
  /\ pc = [t \in Threads |-> "idle"]
  /\ call = [t \in Threads |-> Idle]
  /\ calls = [t \in Threads |-> 0]
  /\ given = [k \in Keys |-> {}]

-----------------------------------------------------------------------------

Goto(t, where) == pc' = [pc EXCEPT ![t] = where]
Answer(t, status, value) ==
  call' = [call EXCEPT ![t].status = status, ![t].value = value]

Begin(t, request) ==
  /\ pc[t] = "idle" /\ calls[t] < MaxCalls
  /\ \A u \in Threads : call[u].op # "sequential"
  /\ call' = [call EXCEPT ![t] = request]
  /\ calls' = [calls EXCEPT ![t] = @ + 1]
  /\ Goto(t, "load")
  /\ UNCHANGED <<store, rwVars, given>>

StartFind(t) ==
  /\ "find" \in Ops
  /\ \E k \in Keys :
       Begin(t, [Idle EXCEPT !.op = "find", !.key = k, !.known = Stored(k)])

\* The caller of get_or_create_sequential must be alone on the store.
StartGetOrCreate(t) ==
  \E op \in Ops \intersect {"get_or_create", "sequential"}, k \in Keys, n \in ActionCounts :
    /\ op = "sequential" => \A u \in Threads : pc[u] = "idle"
    /\ Begin(t, [Idle EXCEPT !.op = op, !.key = k, !.actions = n, !.known = Stored(k)])

StartReserve(t) ==
  /\ "reserve" \in Ops
  /\ \E m \in Reservations : Begin(t, [Idle EXCEPT !.op = "reserve", !.minimum = m])

StartReport(t) ==
  \E op \in Ops \intersect {"get_stats", "snapshot"} :
    Begin(t, [Idle EXCEPT !.op = op, !.before = Nodes])

StartPrepare(t) == "prepare" \in Ops /\ Begin(t, [Idle EXCEPT !.op = "prepare"])

\* Where an operation goes when it finds the store sharded or not sharded.
Load(t) ==
  /\ pc[t] = "load"
  /\ CASE call[t].op = "sequential" -> Goto(t, "work") /\ UNCHANGED call
       [] state /\ call[t].op = "prepare" -> Answer(t, "success", NULL) /\ Goto(t, "return")
       [] state /\ call[t].op \notin {"prepare", "sequential"} ->
            Goto(t, "sharded") /\ UNCHANGED call
       [] OTHER -> Goto(t, CASE call[t].op = "reserve" -> "precheck"
                             [] call[t].op = "prepare" -> "write_lock"
                             [] OTHER -> "read_lock") /\ UNCHANGED call
  /\ UNCHANGED <<store, rwVars, calls, given>>

\* cfr_info_store_reserve looks at entries and capacity before it locks.
Precheck(t) ==
  /\ pc[t] = "precheck"
  /\ IF entries = NULL
     THEN Answer(t, "invalid", NULL) /\ Goto(t, "return")
     ELSE Goto(t, "write_lock") /\ UNCHANGED call
  /\ UNCHANGED <<store, rwVars, calls, given>>

ReadLock(t) ==
  /\ pc[t] = "read_lock" /\ AcquireRead(t)
  /\ Goto(t, "read")
  /\ UNCHANGED <<store, call, calls, given>>

Found(t, node) ==
  IF call[t].op # "find" /\ Node(node).actions # call[t].actions
  THEN Answer(t, "invalid", NULL) ELSE Answer(t, "success", node)

\* Every node, unless their number is not the size or two have the same key
\* (found once they are sorted, after the lock is released).
SnapshotSorted(t) ==
  \/ LET nodes == NodesIn(entries)
         duplicate == \E a, b \in nodes : a # b /\ KeyAt(a) = KeyAt(b)
     IN IF Cardinality(Occupied(entries)) = size /\ ~duplicate
        THEN Answer(t, "success", nodes) ELSE Answer(t, "corrupt", NULL)
  \/ MayFail /\ Answer(t, "out_of_memory", NULL)

\* find, get_or_create, get_stats and snapshot_sorted under the read lock,
\* which is then released: the second load of concurrent_state, then the work.
ReadWork(t) ==
  /\ pc[t] = "read" /\ ReleaseRead(t)
  /\ IF state THEN Goto(t, "sharded") /\ UNCHANGED call
     ELSE IF call[t].op = "get_stats"
     THEN Answer(t, "success", <<size>>) /\ Goto(t, "return")
     ELSE IF entries = NULL
     THEN Answer(t, "invalid", NULL) /\ Goto(t, "return")
     ELSE IF call[t].op = "snapshot"
     THEN SnapshotSorted(t) /\ Goto(t, "return")
     ELSE LET place == LocateKey(entries, call[t].key) IN
          IF place.result = "found"
          THEN Found(t, entries[place.index].node) /\ Goto(t, "return")
          ELSE IF call[t].op = "find"
          THEN Answer(t, "not_found", NULL) /\ Goto(t, "return")
          ELSE Goto(t, "write_lock") /\ UNCHANGED call
  /\ UNCHANGED <<store, calls, given>>

WriteLock(t) ==
  /\ pc[t] = "write_lock" /\ AcquireWrite(t)
  /\ Goto(t, "work")
  /\ UNCHANGED <<store, call, calls, given>>

\* A mutant: growth comes one insertion late.
NeedsGrowthLate(place) ==
  place.result = "full" \/ size > LoadLimit(Capacity(entries))

NeedsGrowth(place) ==
  place.result = "full" \/ size >= LoadLimit(Capacity(entries))

\* The node allocated, initialised and inserted, the table doubled first when
\* it is loaded to its limit.  A failure rolls the arena back.
Insert(t, place) ==
  LET c == call[t]
      node == <<Len(arena) + 1>>
      slot == [node |-> node, mark |-> c.key]
      doubled == GrownCapacity(entries)
      full == NeedsGrowth(place)
      Put(table, index) ==
        /\ entries' = [table EXCEPT ![index] = slot]
        /\ size' = size + 1
        /\ arena' = Append(arena, [key |-> c.key, actions |-> c.actions])
        /\ Answer(t, "success", node)
  IN \/ /\ ~full
        /\ Put(entries, place.index)
     \/ /\ full /\ doubled <= MaxCapacity
        /\ \E new \in {Rebuilt(doubled)} :
             IF new = NULL
             THEN Answer(t, "corrupt", NULL) /\ UNCHANGED <<entries, size, arena>>
             ELSE \E found \in {LocateKey(new, c.key)} :
                    IF found.result = "empty" THEN Put(new, found.index)
                    ELSE /\ entries' = new /\ UNCHANGED <<size, arena>>
                         /\ Answer(t, "corrupt", NULL)
     \/ /\ MayFail \/ (full /\ doubled > MaxCapacity)
        /\ Answer(t, "out_of_memory", NULL) /\ UNCHANGED <<entries, size, arena>>

\* The second half of get_or_create, under the write lock, and all of
\* get_or_create_sequential: neither looks at concurrent_state.
GetOrCreateWork(t) ==
  /\ pc[t] = "work" /\ call[t].op \in {"get_or_create", "sequential"}
  /\ IF entries = NULL
     THEN Answer(t, "invalid", NULL) /\ UNCHANGED <<entries, size, arena>>
     ELSE \E place \in {LocateKey(entries, call[t].key)} :
            IF place.result = "found"
            THEN Found(t, entries[place.index].node) /\ UNCHANGED <<entries, size, arena>>
            ELSE Insert(t, place)
  /\ Goto(t, IF call[t].op = "sequential" THEN "return" ELSE "write_unlock")
  /\ UNCHANGED <<state, sharded, rwVars, calls, given>>

\* cfr_info_store_reserve under the write lock.
ReserveWork(t) ==
  /\ pc[t] = "work" /\ call[t].op = "reserve"
  /\ IF state THEN UNCHANGED <<entries, call>>
     ELSE IF entries = NULL THEN Answer(t, "invalid", NULL) /\ UNCHANGED entries
     ELSE \E target \in {CapacityFor(call[t].minimum, Capacity(entries))} :
          IF target = Capacity(entries) THEN Answer(t, "success", NULL) /\ UNCHANGED entries
          ELSE \/ /\ target <= MaxCapacity
                  /\ \E new \in {Rebuilt(target)} :
                       IF new # NULL THEN entries' = new /\ Answer(t, "success", NULL)
                       ELSE UNCHANGED entries /\ Answer(t, "corrupt", NULL)
               \/ /\ MayFail \/ target > MaxCapacity
                  /\ Answer(t, "out_of_memory", NULL) /\ UNCHANGED entries
  /\ Goto(t, "write_unlock")
  /\ UNCHANGED <<size, arena, state, sharded, rwVars, calls, given>>

\* cfr_info_store_prepare_concurrent under the write lock: every node of the
\* table is inserted into the new state, or nothing changes.
PrepareWork(t) ==
  /\ pc[t] = "work" /\ call[t].op = "prepare"
  /\ IF state THEN Answer(t, "success", NULL) /\ Goto(t, "write_unlock") /\ UNCHANGED sharded
     ELSE IF entries = NULL
     THEN Answer(t, "invalid", NULL) /\ Goto(t, "write_unlock") /\ UNCHANGED sharded
     ELSE \/ /\ IF Cardinality(NodesIn(entries)) = size
                THEN sharded' = NodesIn(entries) /\ Goto(t, "free") /\ UNCHANGED call
                ELSE /\ Answer(t, "corrupt", NULL) /\ Goto(t, "write_unlock")
                     /\ UNCHANGED sharded
          \/ /\ MayFail /\ Answer(t, "out_of_memory", NULL)
             /\ Goto(t, "write_unlock") /\ UNCHANGED sharded
  /\ UNCHANGED <<entries, size, arena, state, rwVars, calls, given>>

\* A mutant: the lock is released before concurrent_state is published.
PrepareFreeUnlocked(t) ==
  /\ pc[t] = "free"
  /\ entries' = NULL /\ ReleaseWrite(t)
  /\ Goto(t, "publish")
  /\ UNCHANGED <<size, arena, state, sharded, call, calls, given>>

\* entries is freed and cleared...
PrepareFree(t) ==
  /\ pc[t] = "free"
  /\ entries' = NULL
  /\ Goto(t, "publish")
  /\ UNCHANGED <<size, arena, state, sharded, rwVars, call, calls, given>>

\* ... before concurrent_state is published.
PreparePublish(t) ==
  /\ pc[t] = "publish"
  /\ state' = TRUE
  /\ Answer(t, "success", NULL) /\ Goto(t, "write_unlock")
  /\ UNCHANGED <<entries, size, arena, sharded, rwVars, calls, given>>

\* A reservation that found the store sharded goes on there.
WriteUnlock(t) ==
  /\ pc[t] = "write_unlock" /\ ReleaseWrite(t)
  /\ Goto(t, IF call[t].status = "none" THEN "sharded" ELSE "return")
  /\ UNCHANGED <<store, call, calls, given>>

\* What concurrent_locate finds.
ShardedLocate(c) == {a \in sharded : KeyAt(a) = c.key}

\* The sharded store: one step per operation, whose inside is ConcurrentStore.
ShardedWork(t) ==
  LET c == call[t]
      same == ShardedLocate(c)
      node == <<Len(arena) + 1>>
      Query ==
        CASE c.op = "snapshot"  -> Answer(t, "success", sharded)
          [] c.op = "get_stats" -> Answer(t, "success", <<Cardinality(sharded)>>)
          [] c.op = "reserve"   -> Answer(t, "success", NULL)
          [] OTHER -> IF same = {} THEN Answer(t, "not_found", NULL)
                      ELSE Found(t, TheOnly(same))
      inserts == c.op = "get_or_create" /\ same = {}
  IN /\ pc[t] = "sharded"
     /\ \/ ~inserts /\ Query /\ UNCHANGED <<sharded, arena>>
        \/ /\ inserts
           /\ arena' = Append(arena, [key |-> c.key, actions |-> c.actions])
           /\ sharded' = sharded \union {node}
           /\ Answer(t, "success", node)
        \/ /\ MayFail /\ (inserts \/ c.op \in {"reserve", "snapshot"})
           /\ Answer(t, "out_of_memory", NULL) /\ UNCHANGED <<sharded, arena>>
     /\ Goto(t, "return")
     /\ UNCHANGED <<entries, size, state, rwVars, calls, given>>

Return(t) ==
  LET c == call[t] IN
  /\ pc[t] = "return"
  /\ given' = IF c.status = "success" /\ c.op \in {"find", "get_or_create", "sequential"}
              THEN [given EXCEPT ![c.key] = @ \union {c.value}] ELSE given
  /\ call' = [call EXCEPT ![t] = Idle]
  /\ Goto(t, "idle")
  /\ UNCHANGED <<store, rwVars, calls>>

Step(t) ==
  \/ StartFind(t) \/ StartGetOrCreate(t) \/ StartReserve(t) \/ StartReport(t)
  \/ StartPrepare(t) \/ Load(t) \/ Precheck(t) \/ ReadLock(t) \/ ReadWork(t)
  \/ WriteLock(t) \/ GetOrCreateWork(t) \/ ReserveWork(t) \/ PrepareWork(t)
  \/ PrepareFree(t) \/ PreparePublish(t) \/ WriteUnlock(t) \/ ShardedWork(t) \/ Return(t)

Finished == \A t \in Threads : pc[t] = "idle" /\ calls[t] = MaxCalls

Next == (\E t \in Threads : Step(t)) \/ (Finished /\ UNCHANGED vars)

Spec == Init /\ [][Next]_vars

-----------------------------------------------------------------------------
(* Properties.                                                             *)

\* The table under the lock: its capacity is a power of two, every node is found
\* by a probe for its key, the size is exact and the load limit leaves an empty
\* slot; once the store is sharded there is no such table.
TableSound ==
  entries # NULL =>
    /\ ~state /\ Capacity(entries) \in PowersOfTwo
    /\ \A i \in Occupied(entries) :
         /\ LocateKey(entries, KeyAt(entries[i].node)) = [result |-> "found", index |-> i]
         /\ entries[i].mark = KeyAt(entries[i].node)
    /\ Cardinality(Occupied(entries)) = size
    /\ size <= LoadLimit(Capacity(entries))

\* NOT_FOUND is never said of a key stored before the call, queries are never
\* refused as invalid, a node is the one asked for and, before, while and after
\* the store is sharded, the same for every caller; a snapshot and a size count
\* every node stored before the call.
AnswersTrue ==
  \A t \in Threads : pc[t] = "return" =>
    LET c == call[t] IN
    /\ c.status # "corrupt"
    /\ c.status = "not_found" => ~c.known
    /\ c.status = "invalid" => c.op \notin {"find", "get_stats", "snapshot"}
    /\ c.status = "success" /\ c.op \in {"find", "get_or_create", "sequential"} =>
         /\ c.value \in Nodes /\ KeyAt(c.value) = c.key
         /\ given[c.key] \subseteq {c.value}
         /\ c.op # "find" => Node(c.value).actions = c.actions
    /\ c.status = "success" /\ c.op = "snapshot" =>
         c.before \subseteq c.value /\ c.value \subseteq Nodes
    /\ c.op = "get_stats" =>
         Cardinality(c.before) <= c.value[1] /\ c.value[1] <= Cardinality(Nodes)

\* "After initialization, lookup, insertion, capacity reservation,
\* statistics, and sorted visits can run concurrently": a call whose arguments
\* are valid (no node with another action count) is not refused as invalid.
NoSpuriousInvalid ==
  \A t \in Threads : pc[t] = "return" /\ call[t].status = "invalid" =>
    /\ call[t].op \in {"get_or_create", "sequential"}
    /\ \/ \E a \in Nodes : KeyAt(a) = call[t].key /\ Node(a).actions # call[t].actions
       \/ call[t].op = "sequential" /\ state
=============================================================================
