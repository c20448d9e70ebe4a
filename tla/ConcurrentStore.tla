-------------------------- MODULE ConcurrentStore --------------------------
(***************************************************************************)
(* The sharded store of src/info_store.c after                             *)
(* cfr_info_store_prepare_concurrent: lock-free probes against insertions  *)
(* under a shard lock, growth that publishes a new table while probes of   *)
(* the old one go on, and the operations that lock every shard.            *)
(*                                                                         *)
(* A shard keeps the chain of its tables: the last one is active, the ones *)
(* before it are retired, and a probe stays on the table it loaded.  A     *)
(* node is [key, actions, ready] in an arena; its address is <<arena, i>>. *)
(* Allocation and initialisation touch memory that no other thread has     *)
(* seen, the loads of one slot after it was seen occupied return the same  *)
(* value (slots are written once): neither needs a step of its own.        *)
(***************************************************************************)
EXTENDS StoreTable

CONSTANTS
  Threads, Nobody,
  ActionCounts,   \* action counts callers ask for
  Ops,            \* operations in use
  Preloaded,      \* distinct keys stored, in this order, before the store is sharded
  Asked,          \* bound: the keys that calls ask for
  Reservations,   \* minimum_node_capacity arguments of cfr_info_store_reserve
  MayFail,        \* whether allocations and the initializer may fail
  MaxCalls        \* bound: calls by one thread

AllOps == {"find", "get_or_create", "get_stats", "reserve", "snapshot"}

ASSUME ConcurrentStoreAssumption ==
  /\ Nobody \notin Threads
  /\ ActionCounts \subseteq Nat /\ ActionCounts # {}
  /\ Ops \subseteq AllOps
  /\ Preloaded \in Seq(Keys) /\ Asked \subseteq Keys
  /\ \A i, j \in DOMAIN Preloaded : Preloaded[i] = Preloaded[j] => i = j
  /\ CapacityFor(Len(Preloaded), MinCapacity) <= MaxCapacity
  /\ Reservations \subseteq Nat
  /\ MayFail \in BOOLEAN
  /\ MaxCalls \in Nat

VARIABLES
  tables,      \* shard |-> its chain of tables, the active one last
  sizes,       \* shard |-> write.fields.size
  arenas,      \* arena |-> the nodes in it
  writer,      \* shard |-> the thread that holds writer_lock, or Nobody
  growths,     \* shard |-> growth_count
  reserves,    \* reserve_growth_count
  pc,          \* thread |-> control point
  call,        \* thread |-> its request, locals and answer
  calls,       \* thread |-> calls started
  given,       \* history: key |-> the node addresses returned for it
  promised     \* history: largest capacity a successful reserve promised

shared == <<tables, sizes, arenas, writer, growths, reserves>>
vars == <<shared, pc, call, calls, given, promised>>

StoreArena == -1    \* the arena of the store before it was sharded

Node(a) == arenas[a[1]][a[2]]
KeyAt(a) == Node(a).key
KeysIn(table) == [a \in NodesIn(table) |-> KeyAt(a)]

Active(s) == tables[s][Len(tables[s])]

HoldsKey(slot, key) == slot.mark = ShardMark(key) /\ KeyAt(slot.node) = key

LocateKey(table, key) ==
  Locate(table, ShardStart(key, Capacity(table)),
         {i \in Occupied(table) : HoldsKey(table[i], key)})

Rehashed(table, capacity) ==
  Rehash(table, capacity, KeysIn(table), ShardStarts(capacity))

Published == UNION {NodesIn(Active(s)) : s \in Shards}
Stored(key) == \E a \in Published : KeyAt(a) = key

\* A mutant: the replaced table is freed.
FreeingReplaced(chain, new) == [chain EXCEPT ![Len(chain)] = new]

\* A new active table keeps the one it replaces as previous.
Extended(chain, new) == Append(chain, new)

-----------------------------------------------------------------------------
(* cfr_info_store_prepare_concurrent: the nodes of the store's table, in   *)
(* slot order, go to the tables of their shards.                           *)

PreparedTable(s, entries) ==
  LET Mine(i) == entries[i].node # NULL /\ ShardOf(KeyAt(entries[i].node)) = s
      mine == [i \in DOMAIN entries |->
                 IF Mine(i)
                 THEN [node |-> entries[i].node,
                       mark |-> ShardMark(KeyAt(entries[i].node))]
                 ELSE EmptySlot]
      share == Capacity(entries) \div ShardCount
      base == IF share < MinCapacity THEN MinCapacity ELSE share
  IN Rehashed(mine, CapacityFor(Cardinality(Occupied(mine)), base))

\* The table of a store into which the preloaded keys were inserted.
PreloadedTable ==
  LET list == [i \in 0..(Len(Preloaded) - 1) |->
                 [node |-> <<StoreArena, i + 1>>, mark |-> Preloaded[i + 1]]]
      capacity == CapacityFor(Len(Preloaded), MinCapacity)
  IN Rehash(list, capacity, KeysIn(list), StoreStarts(capacity))

Idle == [op |-> "none", key |-> 0, actions |-> 0, minimum |-> 0,
         table |-> 0, offset |-> 0, mark |-> 0, place |-> 0, next |-> 0,
         status |-> "none", value |-> NULL, known |-> FALSE, before |-> {}]

Init ==
  /\ arenas = [s \in Shards \union {StoreArena} |->
                 IF s # StoreArena THEN <<>>
                 ELSE [i \in DOMAIN Preloaded |->
                         [key |-> Preloaded[i], ready |-> TRUE,
                          actions |-> CHOOSE n \in ActionCounts : TRUE]]]
  /\ tables = [s \in Shards |-> <<PreparedTable(s, PreloadedTable)>>]
  /\ sizes = [s \in Shards |-> Cardinality(Occupied(Active(s)))]
  /\ writer = [s \in Shards |-> Nobody]
  /\ growths = [s \in Shards |-> 0]
  /\ reserves = 0
  /\ pc = [t \in Threads |-> "idle"]
  /\ call = [t \in Threads |-> Idle]
  /\ calls = [t \in Threads |-> 0]
  /\ given = [k \in Keys |-> {}]
  /\ promised = 0

-----------------------------------------------------------------------------
(* Calls.                                                                  *)

Goto(t, where) == pc' = [pc EXCEPT ![t] = where]

Begin(t, request, where) ==
  /\ pc[t] = "idle" /\ calls[t] < MaxCalls
  /\ call' = [call EXCEPT ![t] = request]
  /\ calls' = [calls EXCEPT ![t] = @ + 1]
  /\ Goto(t, where)
  /\ UNCHANGED <<shared, given, promised>>

\* cfr_info_store_find and cfr_info_store_get_or_create load the active table
\* and probe it without a lock.
StartFind(t) ==
  /\ "find" \in Ops
  /\ \E k \in Asked :
       Begin(t, [Idle EXCEPT !.op = "find", !.key = k, !.known = Stored(k),
                             !.table = Len(tables[ShardOf(k)])], "probe")

StartGetOrCreate(t) ==
  /\ "get_or_create" \in Ops
  /\ \E k \in Asked, n \in ActionCounts :
       Begin(t, [Idle EXCEPT !.op = "get_or_create", !.key = k, !.actions = n,
                             !.table = Len(tables[ShardOf(k)])], "probe")

\* The operations that start with concurrent_lock_all.
StartGlobal(t) ==
  \E op \in Ops \ {"find", "get_or_create"}, m \in Reservations \union {0} :
    /\ op = "reserve" <=> m # 0
    /\ Begin(t, [Idle EXCEPT !.op = op, !.minimum = m, !.before = Published], "lock_all")

Answer(t, status, value) ==
  call' = [call EXCEPT ![t].status = status, ![t].value = value]

\* A mutant: the probe never moves on.
ProbeSameSlot(t) == UNCHANGED call

ProbeNextSlot(t) == call' = [call EXCEPT ![t].offset = @ + 1]

\* One slot of concurrent_locate.
Probe(t) ==
  LET c == call[t]
      s == ShardOf(c.key)
      table == tables[s][c.table]
      slot == table[(ShardStart(c.key, Capacity(table)) + c.offset) % Capacity(table)]
      Miss == IF c.op = "find"
              THEN Answer(t, "not_found", NULL) /\ Goto(t, "return")
              ELSE Goto(t, "lock") /\ UNCHANGED call
  IN /\ pc[t] = "probe"
     /\ \/ slot.node = NULL /\ Miss
        \/ /\ slot.node # NULL /\ HoldsKey(slot, c.key)
           /\ IF c.op = "get_or_create" /\ Node(slot.node).actions # c.actions
              THEN Answer(t, "invalid", NULL) ELSE Answer(t, "success", slot.node)
           /\ Goto(t, "return")
        \/ /\ slot.node # NULL /\ ~HoldsKey(slot, c.key)
           /\ IF c.offset + 1 < Capacity(table)
              THEN ProbeNextSlot(t) /\ UNCHANGED pc
              ELSE Miss
     /\ UNCHANGED <<shared, calls, given, promised>>

LockShard(t) ==
  LET s == ShardOf(call[t].key) IN
  /\ pc[t] = "lock" /\ writer[s] = Nobody
  /\ writer' = [writer EXCEPT ![s] = t]
  /\ Goto(t, "locate")
  /\ UNCHANGED <<tables, sizes, arenas, growths, reserves, call, calls, given, promised>>

\* A mutant: what the probe without the lock said is not checked again.
RelocateBlind(t) ==
  LET c == call[t]
      s == ShardOf(c.key)
      found == Locate(Active(s), ShardStart(c.key, Capacity(Active(s))), {})
  IN /\ pc[t] = "locate"
     /\ arenas' = [arenas EXCEPT ![s] =
          Append(@, [key |-> c.key, actions |-> c.actions, ready |-> FALSE])]
     /\ call' = [call EXCEPT ![t].mark = Len(arenas[s]), ![t].place = found.index,
                             ![t].value = <<s, Len(arenas[s]) + 1>>]
     /\ Goto(t, "initialize")
     /\ UNCHANGED <<tables, sizes, writer, growths, reserves, calls, given, promised>>

\* The second probe, of the table that is active now.  A miss allocates the
\* node: concurrent_arena_mark and concurrent_arena_allocate_node.
Relocate(t) ==
  LET c == call[t]
      s == ShardOf(c.key)
      found == LocateKey(Active(s), c.key)
      node == Active(s)[found.index].node
  IN /\ pc[t] = "locate"
     /\ IF found.result = "found"
        THEN /\ IF Node(node).actions # c.actions
                THEN Answer(t, "invalid", NULL) ELSE Answer(t, "success", node)
             /\ Goto(t, "unlock")
             /\ UNCHANGED arenas
        ELSE /\ arenas' = [arenas EXCEPT ![s] =
                 Append(@, [key |-> c.key, actions |-> c.actions, ready |-> FALSE])]
             /\ call' = [call EXCEPT ![t].mark = Len(arenas[s]),
                                     ![t].place = found.index,
                                     ![t].value = <<s, Len(arenas[s]) + 1>>]
             /\ Goto(t, "initialize")
     /\ UNCHANGED <<tables, sizes, writer, growths, reserves, calls, given, promised>>

Rollback(t) ==
  arenas' = [arenas EXCEPT ![ShardOf(call[t].key)] = SubSeq(@, 1, call[t].mark)]

GiveUp(t, status) == Rollback(t) /\ Answer(t, status, NULL) /\ Goto(t, "unlock")

\* cfr_info_node_init_owned and the initializer.
Initialize(t) ==
  LET a == call[t].value IN
  /\ pc[t] = "initialize"
  /\ \/ /\ arenas' = [arenas EXCEPT ![a[1]][a[2]].ready = TRUE]
        /\ Goto(t, "grow") /\ UNCHANGED call
     \/ MayFail /\ GiveUp(t, "failed")
  /\ UNCHANGED <<tables, sizes, writer, growths, reserves, calls, given, promised>>

\* A mutant: growth comes one insertion late.
NeedsGrowthLate(t) ==
  LET s == ShardOf(call[t].key)
  IN \/ sizes[s] > LoadLimit(Capacity(Active(s)))
     \/ LocateKey(Active(s), call[t].key).result = "full"

NeedsGrowth(t) ==
  LET s == ShardOf(call[t].key)
  IN \/ sizes[s] >= LoadLimit(Capacity(Active(s)))
     \/ LocateKey(Active(s), call[t].key).result = "full"

\* concurrent_shard_rebuild: the doubled table becomes the active one, the
\* old one is kept, and the key is located in the new table.
Grow(t) ==
  LET s == ShardOf(call[t].key)
      doubled == GrownCapacity(Active(s))
  IN /\ pc[t] = "grow"
     /\ IF ~NeedsGrowth(t)
        THEN Goto(t, "publish") /\ UNCHANGED <<tables, growths, arenas, call>>
        ELSE \/ /\ doubled <= MaxCapacity
                /\ \E new \in {Rehashed(Active(s), doubled)} :
                     IF new = NULL
                     THEN GiveUp(t, "corrupt") /\ UNCHANGED <<tables, growths>>
                     ELSE /\ tables' = [tables EXCEPT ![s] = Extended(@, new)]
                          /\ growths' = [growths EXCEPT ![s] = @ + 1]
                          /\ \E found \in {LocateKey(new, call[t].key)} :
                               IF found.result = "empty"
                               THEN /\ call' = [call EXCEPT ![t].place = found.index]
                                    /\ Goto(t, "publish") /\ UNCHANGED arenas
                               ELSE GiveUp(t, "corrupt")
             \/ /\ MayFail \/ doubled > MaxCapacity
                /\ GiveUp(t, "out_of_memory") /\ UNCHANGED <<tables, growths>>
     /\ UNCHANGED <<sizes, writer, reserves, calls, given, promised>>

\* The release store of the tagged address, and the size.
Publish(t) ==
  LET c == call[t]
      s == ShardOf(c.key)
  IN /\ pc[t] = "publish"
     /\ tables' = [tables EXCEPT ![s][Len(tables[s])][c.place] =
                     [node |-> c.value, mark |-> ShardMark(c.key)]]
     /\ sizes' = [sizes EXCEPT ![s] = @ + 1]
     /\ call' = [call EXCEPT ![t].status = "success"]
     /\ Goto(t, "unlock")
     /\ UNCHANGED <<arenas, writer, growths, reserves, calls, given, promised>>

UnlockShard(t) ==
  /\ pc[t] = "unlock"
  /\ writer' = [writer EXCEPT ![ShardOf(call[t].key)] = Nobody]
  /\ Goto(t, "return")
  /\ UNCHANGED <<tables, sizes, arenas, growths, reserves, call, calls, given, promised>>

Return(t) ==
  LET c == call[t] IN
  /\ pc[t] = "return"
  /\ given' = IF c.status = "success" /\ c.op \in {"find", "get_or_create"}
              THEN [given EXCEPT ![c.key] = @ \union {c.value}] ELSE given
  /\ promised' = IF c.status = "success" /\ c.op = "reserve" /\ c.minimum > promised
                 THEN c.minimum ELSE promised
  /\ call' = [call EXCEPT ![t] = Idle]
  /\ Goto(t, "idle")
  /\ UNCHANGED <<shared, calls>>

-----------------------------------------------------------------------------
(* cfr_info_store_get_stats, _reserve and _snapshot_sorted: every shard    *)
(* lock, in index order, then the work, then the locks in reverse.         *)

LockAllNext(t) ==
  LET s == call[t].next IN
  /\ pc[t] = "lock_all" /\ writer[s] = Nobody
  /\ writer' = [writer EXCEPT ![s] = t]
  /\ IF s + 1 \in Shards
     THEN call' = [call EXCEPT ![t].next = @ + 1] /\ UNCHANGED pc
     ELSE call' = [call EXCEPT ![t].next = 0] /\ Goto(t, call[t].op)
  /\ UNCHANGED <<tables, sizes, arenas, growths, reserves, calls, given, promised>>

\* Leaving the critical section; the last lock is released first.
Leave(t, status, value) ==
  /\ call' = [call EXCEPT ![t].status = status, ![t].value = value,
                          ![t].next = ShardCount - 1]
  /\ Goto(t, "unlock_all")

Total(f) ==
  LET sum[n \in 0..ShardCount] == IF n = 0 THEN 0 ELSE sum[n - 1] + f[n - 1]
  IN sum[ShardCount]

GetStats(t) ==
  /\ pc[t] = "get_stats"
  /\ Leave(t, "success", <<Total(sizes), Total(growths) + reserves>>)
  /\ UNCHANGED <<shared, calls, given, promised>>

\* Every node of every active table, unless their number is not the sum of
\* the sizes.  Sorting by key and the test for equal keys follow the unlock.
Snapshot(t) ==
  /\ pc[t] = "snapshot"
  /\ \/ LET found == Total([s \in Shards |-> Cardinality(Occupied(Active(s)))])
            duplicate == \E a, b \in Published : a # b /\ KeyAt(a) = KeyAt(b)
        IN IF found = Total(sizes) /\ ~duplicate
           THEN Leave(t, "success", Published)
           ELSE Leave(t, "corrupt", NULL)
     \/ MayFail /\ Leave(t, "out_of_memory", NULL)
  /\ UNCHANGED <<shared, calls, given, promised>>

\* The share of a reservation that every shard must hold.
PerShard(minimum) ==
  (minimum \div ShardCount) + (IF minimum % ShardCount # 0 THEN 1 ELSE 0)

ReserveTarget(t, s) ==
  LET share == PerShard(call[t].minimum)
  IN CapacityFor(IF share > sizes[s] THEN share ELSE sizes[s], Capacity(Active(s)))

\* concurrent_reserve builds every replacement before it publishes one, so
\* an allocation that fails leaves every shard as it was.
PlanReserve(t) ==
  /\ pc[t] = "reserve"
  /\ \/ /\ \A s \in Shards : ReserveTarget(t, s) <= MaxCapacity
        /\ LET changed == {s \in Shards : ReserveTarget(t, s) # Capacity(Active(s))}
           IN IF changed = {}
              THEN Leave(t, "success", NULL)
              ELSE IF \E s \in changed : Rehashed(Active(s), ReserveTarget(t, s)) = NULL
              THEN Leave(t, "corrupt", NULL)
              ELSE Goto(t, "replace") /\ UNCHANGED call
     \/ /\ MayFail \/ \E s \in Shards : ReserveTarget(t, s) > MaxCapacity
        /\ Leave(t, "out_of_memory", NULL)
  /\ UNCHANGED <<shared, calls, given, promised>>

\* The replacements are published shard by shard.
ReplaceNext(t) ==
  LET s == call[t].next
      target == ReserveTarget(t, s)
  IN /\ pc[t] = "replace"
     /\ tables' = IF target = Capacity(Active(s)) THEN tables
                  ELSE [tables EXCEPT ![s] = Extended(@, Rehashed(Active(s), target))]
     /\ IF s + 1 \in Shards
        THEN call' = [call EXCEPT ![t].next = @ + 1] /\ UNCHANGED <<pc, reserves>>
        ELSE Leave(t, "success", NULL) /\ reserves' = reserves + 1
     /\ UNCHANGED <<sizes, arenas, writer, growths, calls, given, promised>>

UnlockAllNext(t) ==
  LET s == call[t].next IN
  /\ pc[t] = "unlock_all"
  /\ writer' = [writer EXCEPT ![s] = Nobody]
  /\ IF s > 0
     THEN call' = [call EXCEPT ![t].next = @ - 1] /\ UNCHANGED pc
     ELSE Goto(t, "return") /\ UNCHANGED call
  /\ UNCHANGED <<tables, sizes, arenas, growths, reserves, calls, given, promised>>

-----------------------------------------------------------------------------

Step(t) ==
  \/ StartFind(t) \/ StartGetOrCreate(t) \/ StartGlobal(t)
  \/ Probe(t) \/ LockShard(t) \/ Relocate(t) \/ Initialize(t) \/ Grow(t)
  \/ Publish(t) \/ UnlockShard(t) \/ Return(t)
  \/ LockAllNext(t) \/ GetStats(t) \/ Snapshot(t) \/ PlanReserve(t)
  \/ ReplaceNext(t) \/ UnlockAllNext(t)

Finished == \A t \in Threads : pc[t] = "idle" /\ calls[t] = MaxCalls

Next == (\E t \in Threads : Step(t)) \/ (Finished /\ UNCHANGED vars)

Spec == Init /\ [][Next]_vars

\* A thread inside a call keeps running: a spin on a shard lock yields the
\* processor (cfr_spin_wait).  The lock is a plain flag, so a waiting thread
\* gets it only because the other threads make a bounded number of calls.
FairSpec == Spec /\ \A t \in Threads : WF_vars(pc[t] # "idle" /\ Step(t))

-----------------------------------------------------------------------------
(* Properties.                                                             *)

\* Growth and reservation lose no node: a node that any table of the chain
\* holds is found by a probe of the active table, the load limit leaves an
\* empty slot that ends every probe, and the size of an unlocked shard is the
\* number of its nodes.
TablesSound ==
  \A s \in Shards :
    /\ \A i \in DOMAIN tables[s] : \A a \in NodesIn(tables[s][i]) :
         LET place == LocateKey(Active(s), KeyAt(a))
         IN place.result = "found" /\ Active(s)[place.index].node = a
    /\ Capacity(Active(s)) \in PowersOfTwo
    /\ Cardinality(Occupied(Active(s))) <= LoadLimit(Capacity(Active(s)))
    /\ writer[s] = Nobody => sizes[s] = Cardinality(Occupied(Active(s)))

\* What a call answers is true: a node is published, initialised, the one asked
\* for and the same that every caller was given for its key; NOT_FOUND is never said of a key stored before the call; a
\* mismatch of action counts is the only reason for INVALID_ARGUMENT; a
\* snapshot has every node stored before the call and only stored ones.
AnswersTrue ==
  \A t \in Threads : pc[t] = "return" =>
    LET c == call[t] IN
    /\ c.status # "corrupt"
    /\ c.status = "not_found" => ~c.known
    /\ c.status = "invalid" =>
         \E a \in Published : KeyAt(a) = c.key /\ Node(a).actions # c.actions
    /\ c.status = "success" /\ c.op \in {"find", "get_or_create"} =>
         /\ c.value \in Published /\ Node(c.value).ready /\ KeyAt(c.value) = c.key
         /\ given[c.key] \subseteq {c.value}
         /\ c.op = "get_or_create" => Node(c.value).actions = c.actions
    /\ c.status = "success" /\ c.op = "snapshot" =>
         c.before \subseteq c.value /\ c.value \subseteq Published
    /\ c.op = "get_stats" =>
         Cardinality(c.before) <= c.value[1] /\ c.value[1] <= Cardinality(Published)

\* A slot, once occupied, and a node, once published, never change: a probe
\* needs no lock, and the pointers handed out stay valid.
PublishedIsStable ==
  [][/\ \A s \in Shards :
          /\ Len(tables'[s]) >= Len(tables[s])
          /\ \A i \in DOMAIN tables[s] : \A j \in Occupied(tables[s][i]) :
               tables'[s][i][j] = tables[s][i][j]
     /\ \A a \in Published : Node(a)' = Node(a)]_vars

\* Every call returns: shard locks are taken in index order, so a call that
\* takes all of them cannot deadlock with insertions or with another.
EveryCallReturns == \A t \in Threads : pc[t] # "idle" ~> pc[t] = "idle"

\* "Ensures that info_store can hold minimum_node_capacity nodes without
\* growth": no insertion grows a shard while the store holds fewer nodes than
\* a completed reservation promised.
ReserveKeepsPromise ==
  [][growths' # growths => Cardinality(Published) >= promised]_vars
=============================================================================
