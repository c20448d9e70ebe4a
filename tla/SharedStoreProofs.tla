-------------------------- MODULE SharedStoreProofs --------------------------
(***************************************************************************)
(* Proofs about the information store shared by threads, before, while and *)
(* after it is sharded: for any number of threads, any keys, capacities    *)
(* and hash function of the form StoreTable describes, with and without    *)
(* failures.                                                               *)
(***************************************************************************)
EXTENDS SharedStore, StoreTableProofs

-----------------------------------------------------------------------------
(* The inductive invariant.                                                *)

Addresses(nodes) == {<<i>> : i \in 1..Len(nodes)}
Records == [key : Keys, actions : Nat]
KeyMap(table, nodes) == [a \in NodesIn(table) |-> nodes[a[1]].key]

\* A table whose entries are nodes of the arena, each key once, found by its probe and
\* marked with its key.
SoundTable(table, nodes) ==
  /\ IsTable(table, Capacity(table))
  /\ Capacity(table) \in PowersOfTwo /\ Capacity(table) >= 4
  /\ NodesIn(table) \subseteq Addresses(nodes)
  /\ Distinct(table, KeyMap(table, nodes))
  /\ Reached(table, Capacity(table), KeyMap(table, nodes), StoreStarts(Capacity(table)))
  /\ \A i \in Occupied(table) : table[i].mark = nodes[table[i].node[1]].key

Values == Seq(Nat) \union SUBSET Seq(Nat)

Places ==
  {"idle", "load", "precheck", "read_lock", "read", "write_lock", "work", "free", "publish",
   "write_unlock", "sharded", "return"}
Statuses == {"none", "success", "invalid", "not_found", "out_of_memory", "corrupt"}

Calls ==
  [op : AllOps \union {"none"}, key : Nat, actions : Nat, minimum : Nat, status : Statuses,
   value : Values, known : BOOLEAN, before : SUBSET Seq(Nat)]

TypeOK ==
  /\ arena \in Seq(Records) /\ state \in BOOLEAN /\ size \in Nat
  /\ pc \in [Threads -> Places] /\ call \in [Threads -> Calls]
  /\ given \in [Keys -> SUBSET Seq(Nat)]
  /\ reading \subseteq Threads /\ writing \subseteq Threads

NodeOps == {"find", "get_or_create", "sequential"}
Reads == {"find", "get_or_create", "get_stats", "snapshot"}

\* What a thread at each step of its call holds and knows.
Placed(t) ==
  /\ pc[t] \in {"load", "precheck", "read_lock", "read", "write_lock", "work"} =>
       call[t].status = "none"
  /\ pc[t] = "load" => call[t].op \in AllOps
  /\ pc[t] = "precheck" => call[t].op = "reserve"
  /\ pc[t] = "read_lock" => call[t].op \in Reads
  /\ pc[t] = "read" => t \in reading /\ call[t].op \in Reads
  /\ pc[t] = "work" => call[t].op = "sequential" \/ t \in writing
  /\ pc[t] \in {"free", "publish"} => call[t].op = "prepare"
  /\ pc[t] \in {"free", "publish", "write_unlock"} => t \in writing
  /\ pc[t] = "free" => entries # NULL /\ sharded = NodesIn(entries)
  /\ pc[t] = "publish" => entries = NULL
  /\ pc[t] = "write_unlock" /\ call[t].status = "none" => state /\ call[t].op = "reserve"
  /\ pc[t] = "sharded" => state /\ call[t].op \in Reads \union {"reserve"}
  /\ call[t].op = "sequential" => \A u \in Threads : u # t => pc[u] = "idle"

\* The lock excludes, and between the table and the sharded state a writer publishes.
Exclusion ==
  /\ \A t, u \in writing : t = u
  /\ writing # {} => reading = {}
  /\ state => entries = NULL
  /\ entries = NULL /\ ~state => \E t \in writing : pc[t] = "publish"

ControlInv == Exclusion /\ \A t \in Threads : Placed(t)

\* The nodes stored: each key once, every node handed out among them.
StoreInv ==
  /\ entries # NULL => /\ SoundTable(entries, arena)
                       /\ Cardinality(Occupied(entries)) = size
                       /\ size <= LoadLimit(Capacity(entries))
  /\ sharded \subseteq Addresses(arena)
  /\ \A a, b \in Nodes : KeyAt(a) = KeyAt(b) => a = b
  /\ \A k \in Keys : \A a \in given[k] : a \in Nodes /\ KeyAt(a) = k

\* What a call relies on while it runs.
Caller(t) ==
  /\ call[t].op \in NodeOps => call[t].key \in Keys
  /\ call[t].known => Stored(call[t].key)
  /\ call[t].before \subseteq Nodes

\* What its answer says.
Answered(t) ==
  LET c == call[t] IN
  /\ c.status # "corrupt"
  /\ c.status = "not_found" => ~c.known
  /\ c.status = "invalid" => c.op \notin {"find", "get_stats", "snapshot"}
  /\ c.status = "success" /\ c.op \in NodeOps =>
       /\ c.value \in Nodes /\ KeyAt(c.value) = c.key
       /\ c.op # "find" => Node(c.value).actions = c.actions
  /\ c.status = "success" /\ c.op = "snapshot" =>
       c.before \subseteq c.value /\ c.value \subseteq Nodes
  /\ c.op = "get_stats" =>
       /\ c.value[1] \in Nat /\ Cardinality(c.before) <= c.value[1]
       /\ c.value[1] <= Cardinality(Nodes)

CallInv(t) == Caller(t) /\ (pc[t] \in {"write_unlock", "return"} => Answered(t))

IInv == TypeOK /\ ControlInv /\ StoreInv /\ \A t \in Threads : CallInv(t)

-----------------------------------------------------------------------------
(* A sound table, whatever the state.                                      *)

\* An address is a tuple of one number.
LEMMA AddressFacts ==
  ASSUME NEW nodes \in Seq(Records), NEW a \in Addresses(nodes)
  PROVE  /\ a # NULL /\ a \in Seq(Nat) /\ a[1] \in 1..Len(nodes)
         /\ nodes[a[1]].key \in Keys /\ nodes[a[1]].actions \in Nat
<1>1. PICK i \in 1..Len(nodes) : a = <<i>>
  BY DEF Addresses
<1>2. i \in Nat /\ a[1] = i /\ Len(a) = 1
  BY <1>1
<1>3. nodes[i] \in Records
  BY <1>1
<1> QED BY <1>1, <1>2, <1>3 DEF Records, NULL

\* The addresses of an arena are finitely many.
LEMMA AddressesFinite ==
  ASSUME NEW nodes \in Seq(Records)
  PROVE  IsFiniteSet(Addresses(nodes))
<1> DEFINE f == [i \in 1..Len(nodes) |-> <<i>>]
<1>1. f \in Surjection(1..Len(nodes), Addresses(nodes))
  BY DEF Surjection, Addresses
<1>2. IsFiniteSet(1..Len(nodes))
  BY FS_Interval
<1> QED BY <1>1, <1>2, FS_Surjection

\* The keys and the probes of the entries of a sound table.
LEMMA EntryFacts ==
  ASSUME NEW nodes \in Seq(Records), NEW table, SoundTable(table, nodes)
  PROVE  /\ DOMAIN table = 0..(Capacity(table) - 1) /\ table # NULL
         /\ Capacity(table) \in Nat \ {0}
         /\ IsFiniteSet(Occupied(table)) /\ Cardinality(Occupied(table)) \in Nat
         /\ \A k \in Keys : /\ StoreStarts(Capacity(table))[k] = StoreStart(k, Capacity(table))
                            /\ StoreStarts(Capacity(table))[k] \in Nat
         /\ \A i \in Occupied(table) :
              /\ table[i].node \in NodesIn(table) /\ table[i].node \in Addresses(nodes)
              /\ KeyMap(table, nodes)[table[i].node] = nodes[table[i].node[1]].key
              /\ KeyMap(table, nodes)[table[i].node] = table[i].mark
              /\ KeyMap(table, nodes)[table[i].node] \in Keys
              /\ StoreStarts(Capacity(table))[KeyMap(table, nodes)[table[i].node]] \in Nat
<1> DEFINE c == Capacity(table)
<1>1. IsTable(table, c) /\ c \in PowersOfTwo
  BY DEF SoundTable
<1>2. /\ c \in Nat \ {0} /\ DOMAIN table = 0..(c - 1) /\ table # NULL
      /\ IsFiniteSet(Occupied(table)) /\ Cardinality(Occupied(table)) \in Nat
  <2> HIDE DEF c
  <2> QED BY <1>1, TableFacts
<1>3. \A k \in Keys : StoreStarts(c)[k] = StoreStart(k, c) /\ StoreStarts(c)[k] \in Nat
  <2> HIDE DEF c
  <2> QED BY <1>1, StartFacts DEF StoreStarts
<1>4. ASSUME NEW i \in Occupied(table)
      PROVE  /\ table[i].node \in NodesIn(table) /\ table[i].node \in Addresses(nodes)
             /\ KeyMap(table, nodes)[table[i].node] = nodes[table[i].node[1]].key
             /\ KeyMap(table, nodes)[table[i].node] = table[i].mark
             /\ KeyMap(table, nodes)[table[i].node] \in Keys
  <2>1. table[i].node \in NodesIn(table)
    BY DEF NodesIn
  <2>2. table[i].node \in Addresses(nodes) /\ table[i].mark = nodes[table[i].node[1]].key
    BY <2>1 DEF SoundTable
  <2>3. nodes[table[i].node[1]].key \in Keys
    BY <2>2, AddressFacts
  <2> QED BY <2>1, <2>2, <2>3 DEF KeyMap
<1> QED BY <1>2, <1>3, <1>4

\* A sound table holds as many nodes as entries, and each key once.
LEMMA NodeFacts ==
  ASSUME NEW nodes \in Seq(Records), NEW table, SoundTable(table, nodes)
  PROVE  /\ IsFiniteSet(NodesIn(table))
         /\ Cardinality(NodesIn(table)) = Cardinality(Occupied(table))
         /\ \A a, b \in NodesIn(table) : nodes[a[1]].key = nodes[b[1]].key => a = b
<1> DEFINE f == [i \in Occupied(table) |-> table[i].node]
<1>1. IsFiniteSet(Occupied(table))
  BY EntryFacts
<1>2. \A i, j \in Occupied(table) :
        nodes[table[i].node[1]].key = nodes[table[j].node[1]].key => i = j
  BY EntryFacts DEF SoundTable, Distinct
<1>3. f \in Surjection(Occupied(table), NodesIn(table))
  BY DEF Surjection, NodesIn
<1>4. f \in Injection(Occupied(table), NodesIn(table))
  BY <1>2 DEF Injection, IsInjective, NodesIn
<1>5. f \in Bijection(Occupied(table), NodesIn(table))
  BY <1>3, <1>4 DEF Bijection
<1>6. ExistsBijection(Occupied(table), NodesIn(table))
  BY <1>5 DEF ExistsBijection
<1>7. \A a, b \in NodesIn(table) : nodes[a[1]].key = nodes[b[1]].key => a = b
  BY <1>2 DEF NodesIn
<1> QED BY <1>1, <1>6, <1>7, FS_Bijection

Absent(table, nodes, key) == \A a \in NodesIn(table) : nodes[a[1]].key # key

\* Where a key that is absent goes: an empty slot its probe reaches.
FreeSlot(table, key, i) ==
  /\ i \in 0..(Capacity(table) - 1) /\ table[i].node = NULL
  /\ PathTo(table, Capacity(table), StoreStart(key, Capacity(table)), i)
  /\ LocateKey(table, key) = [result |-> "empty", index |-> i]

\* In a sound table a key is found where its node is, or it is absent; then its probe
\* ends at an empty slot when there is one.
LEMMA LocateKeyFacts ==
  ASSUME NEW nodes \in Seq(Records), NEW table, SoundTable(table, nodes), NEW key \in Keys
  PROVE  \/ \E i \in Occupied(table) :
              /\ LocateKey(table, key) = [result |-> "found", index |-> i]
              /\ table[i].node \in NodesIn(table) /\ nodes[table[i].node[1]].key = key
         \/ /\ Absent(table, nodes, key) /\ LocateKey(table, key).result # "found"
            /\ Cardinality(Occupied(table)) < Capacity(table) =>
                 \E i : FreeSlot(table, key, i)
<1> DEFINE c == Capacity(table)
           map == KeyMap(table, nodes)
           start == StoreStarts(c)
<1>1. /\ IsTable(table, c) /\ c \in Nat \ {0} /\ Distinct(table, map)
      /\ Reached(table, c, map, start)
  BY EntryFacts DEF SoundTable
<1>2. start[key] = StoreStart(key, c) /\ start[key] \in Nat
  BY EntryFacts
<1>3. {i \in Occupied(table) : table[i].mark = key} = KeyHolders(table, map, key)
  BY EntryFacts DEF KeyHolders
<1>4. LocateKey(table, key) = Locate(table, start[key], KeyHolders(table, map, key))
  BY <1>2, <1>3 DEF LocateKey
<1>5. \A i \in Occupied(table) : /\ map[table[i].node] = nodes[table[i].node[1]].key
                                 /\ table[i].node \in NodesIn(table)
  BY EntryFacts
<1> HIDE DEF c, map, start
<1>6. CASE KeyHolders(table, map, key) # {}
  <2>1. PICK i \in Occupied(table) : map[table[i].node] = key
    BY <1>6 DEF KeyHolders
  <2>2. PathTo(table, c, start[key], i)
    BY <1>1, <2>1 DEF Reached
  <2>3. i \in KeyHolders(table, map, key)
    BY <2>1 DEF KeyHolders
  <2>4. Locate(table, start[key], KeyHolders(table, map, key)) = [result |-> "found", index |-> i]
    BY <1>1, <1>2, <2>2, <2>3, LocateStored
  <2> QED BY <1>4, <1>5, <2>1, <2>4
<1>7. CASE KeyHolders(table, map, key) = {}
  <2>1. Absent(table, nodes, key)
    BY <1>5, <1>7 DEF Absent, KeyHolders, NodesIn
  <2>2. /\ \/ Locate(table, start[key], {}) = [result |-> "full", index |-> 0]
           \/ \E i \in 0..(c - 1) :
                /\ Locate(table, start[key], {}) = [result |-> "empty", index |-> i]
                /\ PathTo(table, c, start[key], i) /\ table[i].node = NULL
        /\ Cardinality(Occupied(table)) < c =>
              Locate(table, start[key], {}) # [result |-> "full", index |-> 0]
    BY <1>1, <1>2, LocateAbsent
  <2>3. LocateKey(table, key).result # "found"
    <3>1. LocateKey(table, key) = Locate(table, start[key], {})
      BY <1>4, <1>7
    <3>2. CASE Locate(table, start[key], {}) = [result |-> "full", index |-> 0]
      BY <3>1, <3>2
    <3>3. ASSUME NEW i \in 0..(c - 1), Locate(table, start[key], {}) = [result |-> "empty", index |-> i]
          PROVE  LocateKey(table, key).result # "found"
      BY <3>1, <3>3
    <3> QED BY <2>2, <3>2, <3>3
  <2>4. ASSUME Cardinality(Occupied(table)) < c PROVE \E i : FreeSlot(table, key, i)
    <3>1. PICK i \in 0..(c - 1) :
                /\ Locate(table, start[key], {}) = [result |-> "empty", index |-> i]
                /\ PathTo(table, c, start[key], i) /\ table[i].node = NULL
      BY <2>2, <2>4
    <3>2. FreeSlot(table, key, i)
      BY <1>2, <1>4, <1>7, <3>1 DEF FreeSlot, c
    <3> QED BY <3>2
  <2> QED BY <2>1, <2>3, <2>4 DEF c
<1> QED BY <1>6, <1>7

\* A rehash of entries with different keys into a table that has room gives a sound table
\* of the same nodes.
LEMMA RehashSound ==
  ASSUME NEW nodes \in Seq(Records), NEW list, NEW m \in Nat, DOMAIN list = 0..(m - 1),
         NodesIn(list) \subseteq Addresses(nodes), Distinct(list, KeyMap(list, nodes)),
         \A i \in Occupied(list) : list[i].mark = nodes[list[i].node[1]].key,
         NEW d \in PowersOfTwo, d >= 4, Cardinality(Occupied(list)) < d
  PROVE  LET new == Rehash(list, d, KeyMap(list, nodes), StoreStarts(d))
         IN  /\ SoundTable(new, nodes) /\ Capacity(new) = d /\ NodesIn(new) = NodesIn(list)
             /\ Cardinality(Occupied(new)) = Cardinality(Occupied(list))
<1> DEFINE map == KeyMap(list, nodes)
           start == StoreStarts(d)
           new == Rehash(list, d, map, start)
<1>1. d \in Nat \ {0}
  BY CapacityFacts
<1>2. \A j \in Occupied(list) : start[map[list[j].node]] \in Nat
  <2> TAKE j \in Occupied(list)
  <2>1. list[j].node \in NodesIn(list) /\ list[j].node \in Addresses(nodes)
    BY DEF NodesIn
  <2>2. map[list[j].node] \in Keys
    BY <2>1, AddressFacts DEF KeyMap
  <2>3. StoreStart(map[list[j].node], d) \in Nat
    BY <2>2, StartFacts
  <2> QED BY <2>2, <2>3 DEF StoreStarts
<1> HIDE DEF map, start
<1>3. Distinct(list, map)
  BY DEF map
<1>4. /\ IsTable(new, d) /\ Distinct(new, map) /\ Reached(new, d, map, start)
      /\ NodesIn(new) = NodesIn(list)
      /\ \A i \in Occupied(new) : \E j \in Occupied(list) : new[i] = list[j]
      /\ Cardinality(Occupied(new)) = Cardinality(Occupied(list))
  BY <1>1, <1>2, <1>3, RehashKeepsEntries
<1> HIDE DEF new
<1>5. Capacity(new) = d
  BY <1>4, TableFacts
<1>6. map = KeyMap(new, nodes)
  BY <1>4 DEF map, KeyMap
<1>7. \A i \in Occupied(new) : new[i].mark = nodes[new[i].node[1]].key
  BY <1>4
<1>8. SoundTable(new, nodes)
  BY <1>4, <1>5, <1>6, <1>7 DEF SoundTable, start
<1> QED BY <1>4, <1>5, <1>8 DEF new, map, start

\* A sound table rehashed into a larger one.
LEMMA GrowSound ==
  ASSUME NEW nodes \in Seq(Records), NEW table, SoundTable(table, nodes),
         NEW d \in PowersOfTwo, d >= Capacity(table),
         Cardinality(Occupied(table)) <= LoadLimit(Capacity(table))
  PROVE  LET new == Rehash(table, d, KeyMap(table, nodes), StoreStarts(d))
         IN  /\ SoundTable(new, nodes) /\ Capacity(new) = d /\ NodesIn(new) = NodesIn(table)
             /\ Cardinality(Occupied(new)) = Cardinality(Occupied(table))
<1> DEFINE c == Capacity(table)
<1>1. c \in Nat /\ c >= 4 /\ DOMAIN table = 0..(c - 1) /\ Cardinality(Occupied(table)) \in Nat
  BY EntryFacts DEF SoundTable
<1>2. LoadLimit(c) \in Nat /\ LoadLimit(c) < c
  <2> HIDE DEF c
  <2> QED BY <1>1, LoadLimitFacts
<1>3. d \in Nat
  BY CapacityFacts
<1>4. d >= 4 /\ Cardinality(Occupied(table)) < d
  BY <1>1, <1>2, <1>3
<1>5. /\ NodesIn(table) \subseteq Addresses(nodes) /\ Distinct(table, KeyMap(table, nodes))
      /\ \A i \in Occupied(table) : table[i].mark = nodes[table[i].node[1]].key
  BY DEF SoundTable
<1> HIDE DEF c
<1> QED BY <1>1, <1>4, <1>5, RehashSound

\* A record appended to the arena moves no node.
LEMMA AppendFacts ==
  ASSUME NEW nodes \in Seq(Records), NEW r \in Records
  PROVE  LET longer == Append(nodes, r)
             node == <<Len(nodes) + 1>>
         IN  /\ longer \in Seq(Records) /\ Addresses(nodes) \subseteq Addresses(longer)
             /\ node \in Addresses(longer) /\ node \notin Addresses(nodes)
             /\ longer[node[1]] = r
             /\ \A a \in Addresses(nodes) : longer[a[1]] = nodes[a[1]]
<1> DEFINE longer == Append(nodes, r)
           node == <<Len(nodes) + 1>>
<1>1. longer \in Seq(Records) /\ Len(longer) = Len(nodes) + 1 /\ Len(nodes) \in Nat
  OBVIOUS
<1>2. longer[Len(nodes) + 1] = r /\ \A i \in 1..Len(nodes) : longer[i] = nodes[i]
  OBVIOUS
<1>3. node[1] = Len(nodes) + 1
  OBVIOUS
<1> HIDE DEF longer
<1>4. \A a \in Addresses(nodes) : a[1] \in 1..Len(nodes) /\ a = <<a[1]>>
  BY DEF Addresses
<1>5. Addresses(nodes) \subseteq Addresses(longer) /\ node \in Addresses(longer)
  BY <1>1 DEF Addresses
<1>6. node \notin Addresses(nodes)
  BY <1>1, <1>3, <1>4
<1> QED BY <1>1, <1>2, <1>3, <1>4, <1>5, <1>6 DEF longer

\* An absent key inserted where its probe ends.
LEMMA InsertSound ==
  ASSUME NEW nodes \in Seq(Records), NEW table, SoundTable(table, nodes), NEW r \in Records,
         Absent(table, nodes, r.key), NEW i, FreeSlot(table, r.key, i)
  PROVE  LET node == <<Len(nodes) + 1>>
             new == Entered(table, i, [node |-> node, mark |-> r.key])
         IN  /\ SoundTable(new, Append(nodes, r)) /\ Capacity(new) = Capacity(table)
             /\ NodesIn(new) = NodesIn(table) \union {node}
             /\ Cardinality(Occupied(new)) = Cardinality(Occupied(table)) + 1
<1> DEFINE longer == Append(nodes, r)
           node == <<Len(nodes) + 1>>
           slot == [node |-> node, mark |-> r.key]
           new == Entered(table, i, slot)
           c == Capacity(table)
           old == KeyMap(table, nodes)
           map == KeyMap(new, longer)
           start == StoreStarts(c)
           key == r.key
<1>1. /\ longer \in Seq(Records) /\ Addresses(nodes) \subseteq Addresses(longer)
      /\ node \in Addresses(longer) /\ node \notin Addresses(nodes)
      /\ longer[node[1]] = r
      /\ \A a \in Addresses(nodes) : longer[a[1]] = nodes[a[1]]
  BY AppendFacts
<1>2. node # NULL /\ slot.node = node /\ slot.mark = key /\ key \in Keys
  BY <1>1, AddressFacts DEF Records
<1>3. IsTable(table, c) /\ c \in PowersOfTwo /\ c >= 4
  BY DEF SoundTable
<1>4. i \in 0..(c - 1) /\ table[i].node = NULL /\ PathTo(table, c, StoreStart(key, c), i)
  BY DEF FreeSlot
<1>5. start[key] = StoreStart(key, c) /\ start[key] \in Nat
  BY <1>2, EntryFacts
<1>6. \A j \in Occupied(table) :
         /\ table[j].node \in NodesIn(table) /\ table[j].node \in Addresses(nodes)
         /\ old[table[j].node] = nodes[table[j].node[1]].key
         /\ start[old[table[j].node]] \in Nat
  BY EntryFacts
<1>7. Distinct(table, old) /\ Reached(table, c, old, start)
  BY DEF SoundTable
<1> HIDE DEF longer, c, old, start, key
<1>8. /\ IsTable(new, c) /\ new[i] = slot
      /\ \A j \in 0..(c - 1) : j # i => new[j] = table[j]
      /\ i \notin Occupied(table) /\ Occupied(new) = Occupied(table) \union {i}
      /\ NodesIn(new) = NodesIn(table) \union {slot.node}
      /\ Cardinality(Occupied(new)) = Cardinality(Occupied(table)) + 1
  <2>1. slot.node # NULL
    BY <1>2
  <2> HIDE DEF slot
  <2> QED BY <1>3, <1>4, <2>1, PutFacts
<1> HIDE DEF node, slot, new
<1>9. \A j \in Occupied(table) : map[table[j].node] = old[table[j].node]
  BY <1>1, <1>6, <1>8 DEF KeyMap
<1>10. map[slot.node] = key
  BY <1>1, <1>2, <1>8 DEF KeyMap, key
<1>11. KeyHolders(table, old, key) = {}
  BY <1>6 DEF KeyHolders, Absent, key
<1> HIDE DEF map
<1>12. Distinct(new, map) /\ Reached(new, c, map, start)
  <2>1. slot.node # NULL
    BY <1>2
  <2>2. PathTo(table, c, start[key], i)
    BY <1>4, <1>5
  <2>3. \A j \in Occupied(table) : start[old[table[j].node]] \in Nat
    BY <1>6
  <2> QED BY <1>3, <1>4, <1>5, <1>7, <1>9, <1>10, <1>11, <2>1, <2>2, <2>3, PutSound DEF new
<1>13. Capacity(new) = c
  BY <1>8, TableFacts
<1>14. NodesIn(new) \subseteq Addresses(longer)
  BY <1>1, <1>2, <1>8 DEF SoundTable
<1>15. \A j \in Occupied(new) : new[j].mark = longer[new[j].node[1]].key
  <2> TAKE j \in Occupied(new)
  <2>1. CASE j = i
    BY <1>1, <1>2, <1>8, <2>1 DEF key
  <2>2. CASE j # i
    <3>1. j \in Occupied(table) /\ j \in 0..(c - 1)
      BY <1>3, <1>8, <2>2, TableFacts DEF Occupied
    <3>2. new[j] = table[j] /\ longer[table[j].node[1]] = nodes[table[j].node[1]]
      BY <1>1, <1>6, <1>8, <2>2, <3>1
    <3> QED BY <3>1, <3>2 DEF SoundTable
  <2> QED BY <2>1, <2>2
<1>16. SoundTable(new, longer)
  BY <1>3, <1>8, <1>12, <1>13, <1>14, <1>15 DEF SoundTable, map, start
<1> QED BY <1>2, <1>8, <1>13, <1>16 DEF new, slot, node, longer, c, key

-----------------------------------------------------------------------------
(* What a step does to the thread that takes it and to the others.         *)

\* Thread t is at a step, and the other threads are where they were.
Moves(t, where) ==
  /\ pc' \in [Threads -> Places] /\ pc'[t] = where
  /\ \A u \in Threads : u # t => pc'[u] = pc[u]

\* Thread t has a request and an answer, and the other threads theirs.
Tells(t, status, value) ==
  /\ call' \in [Threads -> Calls]
  /\ \A u \in Threads : u # t => call'[u] = call[u]
  /\ call'[t].status = status /\ call'[t].value = value
  /\ call'[t].op = call[t].op /\ call'[t].key = call[t].key
  /\ call'[t].actions = call[t].actions
  /\ call'[t].known = call[t].known /\ call'[t].before = call[t].before

Takes(t, request) ==
  /\ call' \in [Threads -> Calls] /\ call'[t] = request
  /\ \A u \in Threads : u # t => call'[u] = call[u]

\* A move changes one thread's place.
LEMMA GotoFacts ==
  ASSUME TypeOK, NEW t \in Threads, NEW where \in Places, Goto(t, where)
  PROVE  Moves(t, where)
BY DEF TypeOK, Goto, Moves

\* An answer changes one call's status and value.
LEMMA AnswerFacts ==
  ASSUME TypeOK, NEW t \in Threads, NEW status \in Statuses, NEW value \in Values,
         Answer(t, status, value)
  PROVE  Tells(t, status, value)
<1> DEFINE r == [call[t] EXCEPT !.status = status, !.value = value]
<1>1. call \in [Threads -> Calls] /\ call[t] \in Calls
  BY DEF TypeOK
<1>2. call' = [call EXCEPT ![t] = r]
  BY <1>1 DEF Answer
<1>3. /\ r \in Calls /\ r.status = status /\ r.value = value
      /\ r.op = call[t].op /\ r.key = call[t].key /\ r.actions = call[t].actions
      /\ r.known = call[t].known /\ r.before = call[t].before
  BY <1>1 DEF Calls
<1> HIDE DEF r
<1> QED BY <1>1, <1>2, <1>3 DEF Tells

\* A new call replaces one thread's call.
LEMMA TakesFacts ==
  ASSUME TypeOK, NEW t \in Threads, NEW request \in Calls, call' = [call EXCEPT ![t] = request]
  PROVE  Takes(t, request)
BY DEF TypeOK, Takes

\* NULL is a value, and the empty history.
LEMMA NullIsValue == NULL \in Values /\ NULL \in Seq(Nat)
BY DEF NULL, Values

\* A call that has not begun.
LEMMA IdleFacts ==
  Idle \in Calls /\ Idle.op = "none" /\ Idle.status = "none" /\ Idle.known = FALSE /\ Idle.before = {}
<1>1. NULL \in Values /\ 0 \in Nat
  BY NullIsValue
<1>3. \A S : {} \in SUBSET S
  OBVIOUS
<1>4. "none" \in Statuses /\ FALSE \in BOOLEAN
  BY DEF Statuses
<1>2. "none" \in AllOps \union {"none"}
  OBVIOUS
<1> QED BY <1>1, <1>2, <1>3, <1>4, SMT DEF Idle, Calls

\* The nodes stored, at their addresses.
LEMMA NodesFacts ==
  ASSUME TypeOK, StoreInv
  PROVE  /\ Nodes \subseteq Addresses(arena) /\ IsFiniteSet(Nodes) /\ Nodes \in Values
         /\ \A a \in Nodes : a # NULL /\ a \in Seq(Nat) /\ KeyAt(a) \in Keys
<1>1. Nodes \subseteq Addresses(arena)
  BY DEF Nodes, StoreInv, SoundTable
<1>2. arena \in Seq(Records)
  BY DEF TypeOK
<1>3. IsFiniteSet(Nodes)
  BY <1>1, <1>2, AddressesFinite, FS_Subset
<1>4. \A a \in Nodes : a # NULL /\ a \in Seq(Nat) /\ KeyAt(a) \in Keys
  BY <1>1, <1>2, AddressFacts DEF KeyAt, Node
<1>5. Nodes \in Values
  BY <1>4 DEF Values
<1> QED BY <1>1, <1>3, <1>4, <1>5

\* There are finitely many nodes in the next state too.
LEMMA NodesFiniteNext == (TypeOK /\ StoreInv)' => IsFiniteSet(Nodes')
<1>1. TypeOK /\ StoreInv => IsFiniteSet(Nodes)
  BY NodesFacts
<1>2. (TypeOK /\ StoreInv => IsFiniteSet(Nodes))'
  BY <1>1, PTL
<1> QED BY <1>2

\* Nodes stay stored and stay as they are.
NodesGrow == Nodes \subseteq Nodes' /\ \A a \in Nodes : arena'[a[1]] = arena[a[1]]

\* What a caller knew before its call stays true while nodes are only added.
LEMMA CallerKept ==
  ASSUME NodesGrow, NEW t, Caller(t), call'[t].op = call[t].op, call'[t].key = call[t].key,
         call'[t].known = call[t].known, call'[t].before = call[t].before
  PROVE  Caller(t)'
BY DEF NodesGrow, Caller, Stored, KeyAt, Node

\* What a finished call was told stays true while nodes are only added.
LEMMA AnsweredKept ==
  ASSUME NodesGrow, TypeOK, StoreInv, TypeOK', StoreInv', NEW t, Answered(t), call'[t] = call[t]
  PROVE  Answered(t)'
<1>1. IsFiniteSet(Nodes) /\ IsFiniteSet(Nodes')
  BY NodesFacts, NodesFiniteNext
<1>2. /\ Cardinality(Nodes) \in Nat /\ Cardinality(Nodes') \in Nat
      /\ Cardinality(Nodes) <= Cardinality(Nodes')
  BY <1>1, FS_Subset, FS_CardinalityType DEF NodesGrow
<1>3. \A m \in Nat : m <= Cardinality(Nodes) => m <= Cardinality(Nodes')
  BY <1>2
<1> DEFINE c == call[t]
<1>4. c.status = "success" /\ c.op \in NodeOps =>
       /\ c.value \in Nodes' /\ KeyAt(c.value)' = c.key
       /\ c.op # "find" => (Node(c.value)').actions = c.actions
  BY DEF NodesGrow, Answered, KeyAt, Node
<1>5. c.status = "success" /\ c.op = "snapshot" =>
       c.before \subseteq c.value /\ c.value \subseteq Nodes'
  BY DEF NodesGrow, Answered
<1>6. c.op = "get_stats" =>
       /\ c.value[1] \in Nat /\ Cardinality(c.before) <= c.value[1]
       /\ c.value[1] <= Cardinality(Nodes')
  BY <1>3 DEF Answered
<1> QED BY <1>4, <1>5, <1>6 DEF Answered, KeyAt, Node

-----------------------------------------------------------------------------
(* The work under the lock.                                                *)

\* The element of a singleton.
LEMMA TheOnlyFact == \A x : TheOnly({x}) = x
BY DEF TheOnly

\* rebuild succeeds, and its table is sound.
LEMMA RebuiltFacts ==
  ASSUME TypeOK, StoreInv, entries # NULL, NEW d \in PowersOfTwo, d >= Capacity(entries)
  PROVE  /\ SoundTable(Rebuilt(d), arena) /\ Capacity(Rebuilt(d)) = d
         /\ NodesIn(Rebuilt(d)) = NodesIn(entries)
         /\ Cardinality(Occupied(Rebuilt(d))) = size
         /\ Rebuilt(d) # NULL
<1> DEFINE new == Rehash(entries, d, KeysIn(entries), StoreStarts(d))
           Kept(x) == IF x # NULL /\ Cardinality(Occupied(x)) = size THEN x ELSE NULL
<1>1. KeysIn(entries) = KeyMap(entries, arena)
  BY DEF KeysIn, KeyAt, Node, KeyMap
<1>2. /\ arena \in Seq(Records) /\ SoundTable(entries, arena)
      /\ Cardinality(Occupied(entries)) = size
      /\ Cardinality(Occupied(entries)) <= LoadLimit(Capacity(entries))
  BY DEF TypeOK, StoreInv
<1>3. /\ SoundTable(new, arena) /\ Capacity(new) = d /\ NodesIn(new) = NodesIn(entries)
      /\ Cardinality(Occupied(new)) = size
  BY <1>1, <1>2, GrowSound
<1>4. Rebuilt(d) = TheOnly({Kept(x) : x \in {new}})
  BY DEF Rebuilt
<1> HIDE DEF new
<1>5. new # NULL
  BY <1>2, <1>3, EntryFacts
<1>6. {Kept(x) : x \in {new}} = {new}
  BY <1>3, <1>5
<1> HIDE DEF Kept
<1>7. Rebuilt(d) = new
  BY <1>4, <1>6, TheOnlyFact
<1> QED BY <1>3, <1>5, <1>7

\* A record is appended to the arena, and its node stored under a new key.
NodeAdded(r) ==
  /\ r \in Records /\ arena' = Append(arena, r)
  /\ \A a \in Nodes : KeyAt(a) # r.key
  /\ Nodes' = Nodes \union {<<Len(arena) + 1>>}

NothingAdded == arena' = arena /\ Nodes' = Nodes

\* Adding at most one node, of a key that had none, keeps addresses and histories.
LEMMA AddedFacts ==
  ASSUME TypeOK, StoreInv, UNCHANGED given, NothingAdded \/ \E r : NodeAdded(r)
  PROVE  /\ NodesGrow /\ arena' \in Seq(Records)
         /\ Addresses(arena) \subseteq Addresses(arena')
         /\ Nodes' \subseteq Addresses(arena')
         /\ \A a, b \in Nodes' : KeyAt(a)' = KeyAt(b)' => a = b
         /\ \A k \in Keys : \A a \in given'[k] : a \in Nodes' /\ KeyAt(a)' = k
<1>1. arena \in Seq(Records) /\ Nodes \subseteq Addresses(arena)
  BY NodesFacts DEF TypeOK
<1>2. /\ \A a, b \in Nodes : KeyAt(a) = KeyAt(b) => a = b
      /\ \A k \in Keys : \A a \in given[k] : a \in Nodes /\ KeyAt(a) = k
  BY DEF StoreInv
<1>3. CASE NothingAdded
  BY <1>1, <1>2, <1>3 DEF NothingAdded, NodesGrow, KeyAt, Node
<1>4. ASSUME NEW r, NodeAdded(r)
      PROVE  /\ NodesGrow /\ arena' \in Seq(Records)
             /\ Addresses(arena) \subseteq Addresses(arena')
             /\ Nodes' \subseteq Addresses(arena')
             /\ \A a, b \in Nodes' : KeyAt(a)' = KeyAt(b)' => a = b
             /\ \A k \in Keys : \A a \in given'[k] : a \in Nodes' /\ KeyAt(a)' = k
  <2> DEFINE node == <<Len(arena) + 1>>
  <2>1. /\ r \in Records /\ arena' = Append(arena, r) /\ Nodes' = Nodes \union {node}
        /\ \A a \in Nodes : arena[a[1]].key # r.key
    BY <1>4 DEF NodeAdded, KeyAt, Node
  <2>2. /\ arena' \in Seq(Records) /\ Addresses(arena) \subseteq Addresses(arena')
        /\ node \in Addresses(arena') /\ arena'[node[1]] = r
        /\ \A a \in Addresses(arena) : arena'[a[1]] = arena[a[1]]
    <3> DEFINE longer == Append(arena, r)
    <3>1. /\ longer \in Seq(Records) /\ Addresses(arena) \subseteq Addresses(longer)
          /\ node \in Addresses(longer) /\ longer[node[1]] = r
          /\ \A a \in Addresses(arena) : longer[a[1]] = arena[a[1]]
      BY <1>1, <2>1, AppendFacts
    <3>2. arena' = longer
      BY <2>1
    <3> HIDE DEF longer, node
    <3> QED BY <3>1, <3>2
  <2> HIDE DEF node
  <2>3. NodesGrow
    BY <1>1, <2>1, <2>2 DEF NodesGrow
  <2>4. \A a, b \in Nodes' : KeyAt(a)' = KeyAt(b)' => a = b
    <3>1. \A a \in Nodes : arena'[a[1]].key = arena[a[1]].key /\ arena'[a[1]].key # r.key
      BY <2>1, <2>3 DEF NodesGrow
    <3>2. arena'[node[1]].key = r.key
      BY <2>2
    <3>3. \A a, b \in Nodes : arena[a[1]].key = arena[b[1]].key => a = b
      BY <1>2 DEF KeyAt, Node
    <3>4. \A a, b \in Nodes' : arena'[a[1]].key = arena'[b[1]].key => a = b
      <4> SUFFICES ASSUME NEW a \in Nodes', NEW b \in Nodes',
                          arena'[a[1]].key = arena'[b[1]].key, a # b
                   PROVE  FALSE
        OBVIOUS
      <4>1. (a \in Nodes \/ a = node) /\ (b \in Nodes \/ b = node)
        BY <2>1
      <4>2. CASE a \in Nodes /\ b \in Nodes
        BY <3>1, <3>3, <4>2
      <4>3. CASE a = node /\ b \in Nodes
        BY <3>1, <3>2, <4>3
      <4>4. CASE a \in Nodes /\ b = node
        BY <3>1, <3>2, <4>4
      <4> QED BY <4>1, <4>2, <4>3, <4>4
    <3> QED BY <3>4 DEF KeyAt, Node
  <2>5. \A k \in Keys : \A a \in given'[k] : a \in Nodes' /\ KeyAt(a)' = k
    BY <1>2, <2>1, <2>3 DEF NodesGrow, KeyAt, Node
  <2> QED BY <1>1, <2>1, <2>2, <2>3, <2>4, <2>5
<1> QED BY <1>3, <1>4

\* What find, get_or_create and get_or_create_sequential may answer.
NodeAnswer(t) ==
  \/ Tells(t, "invalid", NULL) /\ call[t].op # "find"
  \/ Tells(t, "out_of_memory", NULL)
  \/ Tells(t, "not_found", NULL) /\ ~Stored(call[t].key)
  \/ \E a \in Nodes' : /\ Tells(t, "success", a) /\ arena'[a[1]].key = call[t].key
                       /\ call[t].op # "find" => arena'[a[1]].actions = call[t].actions

\* The node found for the key asked is the answer, unless it has other actions.
LEMMA FoundFacts ==
  ASSUME TypeOK, StoreInv, NothingAdded, NEW t \in Threads, NEW a \in Nodes,
         KeyAt(a) = call[t].key, Found(t, a)
  PROVE  NodeAnswer(t)
<1>1. a \in Values /\ NULL \in Values
  BY NodesFacts, NullIsValue DEF Values
<1>2. "invalid" \in Statuses /\ "success" \in Statuses
  BY DEF Statuses
<1>3. CASE call[t].op # "find" /\ Node(a).actions # call[t].actions
  <2>1. Answer(t, "invalid", NULL)
    BY <1>3 DEF Found
  <2>2. Tells(t, "invalid", NULL)
    BY <1>1, <1>2, <2>1, AnswerFacts
  <2> QED BY <1>3, <2>2 DEF NodeAnswer
<1>4. CASE ~(call[t].op # "find" /\ Node(a).actions # call[t].actions)
  <2>1. Answer(t, "success", a)
    BY <1>4 DEF Found
  <2>2. Tells(t, "success", a)
    BY <1>1, <1>2, <2>1, AnswerFacts
  <2>3. a \in Nodes' /\ arena'[a[1]].key = call[t].key
    BY DEF NothingAdded, KeyAt, Node
  <2>4. call[t].op # "find" => arena'[a[1]].actions = call[t].actions
    BY <1>4 DEF NothingAdded, Node
  <2> QED BY <2>2, <2>3, <2>4 DEF NodeAnswer
<1> QED BY <1>3, <1>4

\* Such an answer is true.
LEMMA NodeAnswerTrue ==
  ASSUME NodesGrow, NEW t, Caller(t), call[t].op \in NodeOps, NodeAnswer(t)
  PROVE  Caller(t)' /\ Answered(t)'
<1>1. Caller(t)'
  BY CallerKept DEF NodeAnswer, Tells
<1>6. call'[t].op = call[t].op /\ call'[t].known = call[t].known
  BY DEF NodeAnswer, Tells
<1>7. call'[t].op # "get_stats" /\ call'[t].op # "snapshot"
  BY <1>6 DEF NodeOps
<1>2. CASE Tells(t, "invalid", NULL) /\ call[t].op # "find"
  <2>1. call'[t].status = "invalid" /\ call'[t].op # "find"
    BY <1>2 DEF Tells
  <2> QED BY <1>1, <1>7, <2>1 DEF Answered
<1>3. CASE Tells(t, "out_of_memory", NULL)
  <2>1. call'[t].status = "out_of_memory"
    BY <1>3 DEF Tells
  <2> QED BY <1>1, <1>7, <2>1 DEF Answered
<1>4. CASE Tells(t, "not_found", NULL) /\ ~Stored(call[t].key)
  <2>1. call'[t].status = "not_found" /\ ~call'[t].known
    BY <1>4, <1>6 DEF Tells, Caller
  <2> QED BY <1>1, <1>7, <2>1 DEF Answered
<1>5. ASSUME NEW a \in Nodes', Tells(t, "success", a), arena'[a[1]].key = call[t].key,
             call[t].op # "find" => arena'[a[1]].actions = call[t].actions
      PROVE  Answered(t)'
  BY <1>5 DEF Tells, Answered, NodeOps, KeyAt, Node
<1> QED BY <1>1, <1>2, <1>3, <1>4, <1>5 DEF NodeAnswer

\* The table as StoreInv wants it.
TableInv ==
  entries # NULL => /\ SoundTable(entries, arena)
                    /\ Cardinality(Occupied(entries)) = size
                    /\ size <= LoadLimit(Capacity(entries))

\* A new node in the table, grown or not.
LEMMA PutWork ==
  ASSUME TypeOK, StoreInv, entries # NULL, NEW t \in Threads, call[t].key \in Keys,
         Absent(entries, arena, call[t].key), NEW table, SoundTable(table, arena),
         NodesIn(table) = NodesIn(entries), Cardinality(Occupied(table)) = size,
         size + 1 <= LoadLimit(Capacity(table)), NEW i, FreeSlot(table, call[t].key, i),
         entries' = [table EXCEPT ![i] = [node |-> <<Len(arena) + 1>>, mark |-> call[t].key]],
         size' = size + 1,
         arena' = Append(arena, [key |-> call[t].key, actions |-> call[t].actions]),
         Answer(t, "success", <<Len(arena) + 1>>)
  PROVE  /\ \E r : NodeAdded(r)
         /\ NodeAnswer(t) /\ size' \in Nat /\ entries' # NULL /\ TableInv'
<1> DEFINE r == [key |-> call[t].key, actions |-> call[t].actions]
           node == <<Len(arena) + 1>>
           new == Entered(table, i, [node |-> node, mark |-> r.key])
<1>1. arena \in Seq(Records) /\ r \in Records /\ r.key = call[t].key /\ r.actions = call[t].actions
  BY DEF TypeOK, Calls, Records
<1>2. entries' = new /\ arena' = Append(arena, r)
  BY DEF Entered
<1> HIDE DEF r
<1>3. Absent(table, arena, r.key) /\ FreeSlot(table, r.key, i)
  BY <1>1 DEF Absent
<1>4. /\ SoundTable(new, Append(arena, r)) /\ Capacity(new) = Capacity(table)
      /\ NodesIn(new) = NodesIn(table) \union {node}
      /\ Cardinality(Occupied(new)) = Cardinality(Occupied(table)) + 1
  BY <1>1, <1>3, InsertSound
<1> HIDE DEF new
<1>5. entries' # NULL
  <2> DEFINE longer == Append(arena, r)
  <2>1. longer \in Seq(Records) /\ SoundTable(new, longer)
    BY <1>1, <1>4, AppendFacts
  <2> HIDE DEF longer
  <2> QED BY <1>2, <2>1, EntryFacts
<1>6. TableInv'
  BY <1>2, <1>4 DEF TableInv
<1>7. NodeAdded(r)
  <2>1. Nodes = NodesIn(entries) /\ Nodes' = NodesIn(new)
    BY <1>2, <1>5 DEF Nodes
  <2>2. \A a \in Nodes : KeyAt(a) # r.key
    BY <1>1, <2>1 DEF Absent, KeyAt, Node
  <2> QED BY <1>1, <1>2, <1>4, <2>1, <2>2 DEF NodeAdded, node
<1>8. size' \in Nat
  BY DEF TypeOK
<1>9. NodeAnswer(t)
  <2>1. /\ node \in Addresses(Append(arena, r)) /\ Append(arena, r)[node[1]] = r
        /\ Append(arena, r) \in Seq(Records)
    BY <1>1, AppendFacts
  <2>2. node \in Values
    <3> HIDE DEF node
    <3> QED BY <2>1, AddressFacts DEF Values
  <2>3. Tells(t, "success", node)
    BY <2>2, AnswerFacts DEF Statuses
  <2>4. node \in Nodes'
    BY <1>7 DEF NodeAdded
  <2>5. arena'[node[1]].key = call[t].key /\ arena'[node[1]].actions = call[t].actions
    BY <1>1, <1>2, <2>1
  <2> HIDE DEF node
  <2> QED BY <2>3, <2>4, <2>5 DEF NodeAnswer
<1> QED BY <1>5, <1>6, <1>7, <1>8, <1>9

\* A table at its limit has a place after it is doubled, one below it has one at once.
LEMMA RoomFacts ==
  ASSUME TypeOK, StoreInv, entries # NULL
  PROVE  /\ Capacity(entries) \in Nat /\ LoadLimit(Capacity(entries)) \in Nat
         /\ Cardinality(Occupied(entries)) < Capacity(entries)
         /\ GrownCapacity(entries) >= Capacity(entries)
         /\ size + 1 <= LoadLimit(GrownCapacity(entries))
         /\ GrownCapacity(entries) <= MaxCapacity => GrownCapacity(entries) \in PowersOfTwo
<1> DEFINE c == Capacity(entries)
<1>1. /\ SoundTable(entries, arena) /\ size <= LoadLimit(c)
      /\ Cardinality(Occupied(entries)) = size /\ size \in Nat /\ arena \in Seq(Records)
  BY DEF StoreInv, TypeOK
<1>2. c \in PowersOfTwo /\ c >= 4
  BY <1>1 DEF SoundTable
<1> HIDE DEF c
<1>3. /\ c \in Nat \ {0} /\ c <= HashValues
      /\ \A d \in Nat : c * Pow2(d) <= HashValues => c * Pow2(d) \in PowersOfTwo
  BY <1>2, CapacityFacts
<1>4. LoadLimit(c) \in Nat /\ LoadLimit(c) < c /\ LoadLimit(c) + 1 <= LoadLimit(2 * c)
  BY <1>2, <1>3, LoadLimitFacts
<1>5. LoadLimit(2 * c) \in Nat
  BY <1>2, <1>3, LoadLimitFacts
<1>6. Pow2(1) = 2
  <2>1. Pow2(0 + 1) = 2 * Pow2(0) /\ Pow2(0) = 1
    BY Pow2Facts
  <2> QED BY <2>1
<1>7. HashValues \in Nat /\ MaxCapacity \in Nat /\ MaxCapacity <= HashValues
  <2>1. HashValues \in Nat
    BY StoreTableAssumption, Pow2Facts DEF HashValues
  <2>2. MinCapacity \in Nat
    BY StoreTableAssumption, CapacityFacts
  <2> QED BY <2>1, <2>2, StoreTableAssumption
<1>8. 2 * c <= MaxCapacity => 2 * c \in PowersOfTwo
  <2>1. c * Pow2(1) = 2 * c
    BY <1>3, <1>6
  <2>2. 2 * c <= MaxCapacity => 2 * c <= HashValues
    BY <1>3, <1>7
  <2> QED BY <1>3, <2>1, <2>2
<1>9. size < c /\ 2 * c >= c /\ size + 1 <= LoadLimit(2 * c)
  BY <1>1, <1>3, <1>4, <1>5
<1> QED BY <1>1, <1>3, <1>4, <1>8, <1>9 DEF GrownCapacity, c

\* Insert: the new node is in a sound table, or nothing changed.
LEMMA InsertWork ==
  ASSUME TypeOK, StoreInv, entries # NULL, NEW t \in Threads, call[t].key \in Keys,
         UNCHANGED sharded,
         Absent(entries, arena, call[t].key),
         NEW place, place = LocateKey(entries, call[t].key), Insert(t, place)
  PROVE  /\ NothingAdded \/ \E r : NodeAdded(r)
         /\ NodeAnswer(t) /\ size' \in Nat /\ entries' # NULL /\ TableInv'
<1> DEFINE key == call[t].key
           node == <<Len(arena) + 1>>
           slot == [node |-> node, mark |-> key]
           doubled == GrownCapacity(entries)
           full == NeedsGrowth(place)
           Put(table, index) ==
             /\ entries' = [table EXCEPT ![index] = slot]
             /\ size' = size + 1
             /\ arena' = Append(arena, [key |-> key, actions |-> call[t].actions])
             /\ Answer(t, "success", node)
<1>1. /\ SoundTable(entries, arena) /\ arena \in Seq(Records) /\ size \in Nat
      /\ Cardinality(Occupied(entries)) = size /\ size <= LoadLimit(Capacity(entries))
  BY DEF StoreInv, TypeOK
<1>2. /\ Capacity(entries) \in Nat /\ LoadLimit(Capacity(entries)) \in Nat
      /\ size < Capacity(entries) /\ doubled >= Capacity(entries)
      /\ size + 1 <= LoadLimit(doubled) /\ (doubled <= MaxCapacity => doubled \in PowersOfTwo)
  BY <1>1, RoomFacts
<1>3. \/ ~full /\ Put(entries, place.index)
      \/ /\ full /\ doubled <= MaxCapacity
         /\ \E new \in {Rebuilt(doubled)} :
              IF new = NULL
              THEN Answer(t, "corrupt", NULL) /\ UNCHANGED <<entries, size, arena>>
              ELSE \E found \in {LocateKey(new, key)} :
                     IF found.result = "empty" THEN Put(new, found.index)
                     ELSE /\ entries' = new /\ UNCHANGED <<size, arena>>
                          /\ Answer(t, "corrupt", NULL)
      \/ Answer(t, "out_of_memory", NULL) /\ UNCHANGED <<entries, size, arena>>
  BY DEF Insert
<1>4. CASE ~full /\ Put(entries, place.index)
  <2>1. size + 1 <= LoadLimit(Capacity(entries))
    BY <1>1, <1>2, <1>4 DEF NeedsGrowth
  <2>2. PICK i : FreeSlot(entries, key, i)
    BY <1>1, <1>2, LocateKeyFacts DEF Absent
  <2>3. place.index = i
    BY <2>2 DEF FreeSlot
  <2> QED BY <1>1, <1>4, <2>1, <2>2, <2>3, PutWork
<1>5. ASSUME full, doubled <= MaxCapacity, NEW new, new = Rebuilt(doubled),
             IF new = NULL
             THEN Answer(t, "corrupt", NULL) /\ UNCHANGED <<entries, size, arena>>
             ELSE \E found \in {LocateKey(new, key)} :
                    IF found.result = "empty" THEN Put(new, found.index)
                    ELSE /\ entries' = new /\ UNCHANGED <<size, arena>>
                         /\ Answer(t, "corrupt", NULL)
      PROVE  /\ NothingAdded \/ \E r : NodeAdded(r)
             /\ NodeAnswer(t) /\ size' \in Nat /\ entries' # NULL /\ TableInv'
  <2>1. /\ SoundTable(new, arena) /\ Capacity(new) = doubled
        /\ NodesIn(new) = NodesIn(entries) /\ Cardinality(Occupied(new)) = size
        /\ new # NULL
    BY <1>2, <1>5, RebuiltFacts
  <2>2. Absent(new, arena, key)
    BY <2>1 DEF Absent
  <2>3. size < doubled
    BY <1>1, <1>2 DEF GrownCapacity
  <2>4. PICK i : FreeSlot(new, key, i)
    BY <1>1, <2>1, <2>2, <2>3, LocateKeyFacts DEF Absent
  <2>5. LocateKey(new, key) = [result |-> "empty", index |-> i]
    BY <2>4 DEF FreeSlot
  <2>6. Put(new, i)
    BY <1>5, <2>1, <2>5
  <2> QED BY <1>1, <1>2, <2>1, <2>2, <2>4, <2>6, PutWork DEF Absent
<1>6. CASE Answer(t, "out_of_memory", NULL) /\ UNCHANGED <<entries, size, arena>>
  <2>1. Tells(t, "out_of_memory", NULL)
    BY <1>6, NullIsValue, AnswerFacts DEF Statuses
  <2>2. NothingAdded
    BY <1>6 DEF NothingAdded, Nodes
  <2>3. TableInv' /\ size' \in Nat /\ entries' # NULL
    BY <1>1, <1>6 DEF TableInv
  <2> QED BY <2>1, <2>2, <2>3 DEF NodeAnswer
<1> QED BY <1>3, <1>4, <1>5, <1>6

\* A key located in the table: its node, or absent.
LEMMA LocatedFacts ==
  ASSUME TypeOK, StoreInv, entries # NULL, NEW key \in Keys
  PROVE  \/ \E i \in Occupied(entries) :
              /\ LocateKey(entries, key) = [result |-> "found", index |-> i]
              /\ entries[i].node \in Nodes /\ KeyAt(entries[i].node) = key
         \/ /\ LocateKey(entries, key).result # "found" /\ Absent(entries, arena, key)
            /\ ~Stored(key)
<1>1. SoundTable(entries, arena) /\ arena \in Seq(Records) /\ Nodes = NodesIn(entries)
  BY DEF StoreInv, TypeOK, Nodes
<1>2. Absent(entries, arena, key) => ~Stored(key)
  BY <1>1 DEF Absent, Stored, KeyAt, Node
<1>3. \/ \E i \in Occupied(entries) :
           /\ LocateKey(entries, key) = [result |-> "found", index |-> i]
           /\ entries[i].node \in NodesIn(entries) /\ arena[entries[i].node[1]].key = key
      \/ Absent(entries, arena, key) /\ LocateKey(entries, key).result # "found"
  BY <1>1, LocateKeyFacts
<1> QED BY <1>1, <1>2, <1>3 DEF KeyAt, Node

\* get_or_create under the write lock, and get_or_create_sequential.
LEMMA GetOrCreateFacts ==
  ASSUME TypeOK, StoreInv, NEW t \in Threads, Caller(t), GetOrCreateWork(t)
  PROVE  /\ NothingAdded \/ \E r : NodeAdded(r)
         /\ NodeAnswer(t) /\ size' \in Nat /\ (entries' = NULL <=> entries = NULL) /\ TableInv'
<1>1. call[t].op \in {"get_or_create", "sequential"} /\ UNCHANGED <<state, sharded>>
  BY DEF GetOrCreateWork
<1>2. call[t].key \in Keys /\ call[t].op # "find"
  BY <1>1 DEF Caller, NodeOps
<1>3. ASSUME UNCHANGED <<entries, size, arena>>
      PROVE  NothingAdded /\ TableInv' /\ size' \in Nat
  BY <1>1, <1>3 DEF NothingAdded, Nodes, TableInv, StoreInv, TypeOK
<1>4. CASE entries = NULL
  <2>1. Answer(t, "invalid", NULL) /\ UNCHANGED <<entries, size, arena>>
    BY <1>4 DEF GetOrCreateWork
  <2>2. Tells(t, "invalid", NULL)
    BY <2>1, NullIsValue, AnswerFacts DEF Statuses
  <2> QED BY <1>2, <1>3, <1>4, <2>1, <2>2 DEF NodeAnswer
<1>5. CASE entries # NULL
  <2> DEFINE place == LocateKey(entries, call[t].key)
  <2>1. IF place.result = "found"
        THEN Found(t, entries[place.index].node) /\ UNCHANGED <<entries, size, arena>>
        ELSE Insert(t, place)
    BY <1>5 DEF GetOrCreateWork
  <2>2. CASE place.result = "found"
    <3>1. entries[place.index].node \in Nodes /\ KeyAt(entries[place.index].node) = call[t].key
      BY <1>2, <1>5, <2>2, LocatedFacts
    <3>2. Found(t, entries[place.index].node) /\ UNCHANGED <<entries, size, arena>>
      BY <2>1, <2>2
    <3>3. NodeAnswer(t)
      BY <1>3, <3>1, <3>2, FoundFacts
    <3> QED BY <1>3, <1>5, <3>2, <3>3
  <2>3. CASE place.result # "found"
    <3>1. Insert(t, place)
      BY <2>1, <2>3
    <3>2. Absent(entries, arena, call[t].key)
      BY <1>2, <1>5, <2>3, LocatedFacts
    <3> HIDE DEF place
    <3>3. place = LocateKey(entries, call[t].key)
      BY DEF place
    <3> QED BY <1>1, <1>2, <1>5, <3>1, <3>2, <3>3, InsertWork
  <2> QED BY <2>2, <2>3
<1> QED BY <1>4, <1>5

\* An answer to reserve and to prepare_concurrent.
PlainAnswer(t) ==
  /\ call[t].op \in {"reserve", "prepare"}
  /\ \E status \in {"none", "success", "invalid", "out_of_memory"} :
       \/ Tells(t, status, NULL) /\ status # "none"
       \/ call' = call /\ call[t].status = status

\* An answer that names no node is true.
LEMMA PlainAnswerTrue ==
  ASSUME NodesGrow, NEW t, Caller(t), PlainAnswer(t)
  PROVE  Caller(t)' /\ Answered(t)'
<1>1. /\ call'[t].op = call[t].op /\ call'[t].key = call[t].key
      /\ call'[t].known = call[t].known /\ call'[t].before = call[t].before
  BY DEF PlainAnswer, Tells
<1>2. Caller(t)'
  BY <1>1, CallerKept
<1>3. call'[t].status \in {"none", "success", "invalid", "out_of_memory"}
  BY DEF PlainAnswer, Tells
<1>4. call'[t].op \notin NodeOps /\ call'[t].op \notin {"find", "get_stats", "snapshot"}
  BY <1>1 DEF PlainAnswer, NodeOps
<1> QED BY <1>2, <1>3, <1>4 DEF Answered

\* cfr_info_store_reserve under the write lock.
LEMMA ReserveFacts ==
  ASSUME TypeOK, StoreInv, NEW t \in Threads, call[t].status = "none", ReserveWork(t)
  PROVE  /\ NothingAdded /\ PlainAnswer(t) /\ (entries' = NULL <=> entries = NULL) /\ TableInv'
         /\ state \/ call'[t].status # "none"
<1>1. call[t].op = "reserve" /\ UNCHANGED <<size, arena, state, sharded>>
  BY DEF ReserveWork
<1>2. ASSUME UNCHANGED entries PROVE NothingAdded /\ TableInv'
  BY <1>1, <1>2 DEF NothingAdded, Nodes, TableInv, StoreInv
<1>3. ASSUME NEW status \in {"success", "invalid", "out_of_memory"}, Answer(t, status, NULL)
      PROVE  PlainAnswer(t) /\ call'[t].status # "none"
  <2>1. Tells(t, status, NULL)
    BY <1>3, NullIsValue, AnswerFacts DEF Statuses
  <2> QED BY <1>1, <2>1 DEF PlainAnswer, Tells
<1>4. CASE state
  <2>1. UNCHANGED <<entries, call>>
    BY <1>4 DEF ReserveWork
  <2> QED BY <1>1, <1>2, <1>4, <2>1 DEF PlainAnswer
<1>5. CASE ~state /\ entries = NULL
  <2>1. Answer(t, "invalid", NULL) /\ UNCHANGED entries
    BY <1>5 DEF ReserveWork
  <2> QED BY <1>2, <1>3, <1>5, <2>1
<1>6. CASE ~state /\ entries # NULL
  <2> DEFINE target == CapacityFor(call[t].minimum, Capacity(entries))
  <2>1. \/ target = Capacity(entries) /\ Answer(t, "success", NULL) /\ UNCHANGED entries
        \/ /\ target <= MaxCapacity
           /\ IF Rebuilt(target) # NULL
              THEN entries' = Rebuilt(target) /\ Answer(t, "success", NULL)
              ELSE UNCHANGED entries /\ Answer(t, "corrupt", NULL)
        \/ Answer(t, "out_of_memory", NULL) /\ UNCHANGED entries
    BY <1>6 DEF ReserveWork
  <2>2. CASE \/ Answer(t, "success", NULL) /\ UNCHANGED entries
             \/ Answer(t, "out_of_memory", NULL) /\ UNCHANGED entries
    BY <1>2, <1>3, <2>2
  <2>3. ASSUME target <= MaxCapacity,
               IF Rebuilt(target) # NULL
               THEN entries' = Rebuilt(target) /\ Answer(t, "success", NULL)
               ELSE UNCHANGED entries /\ Answer(t, "corrupt", NULL)
        PROVE  /\ NothingAdded /\ PlainAnswer(t) /\ entries' # NULL /\ TableInv'
               /\ call'[t].status # "none"
    <3> DEFINE c == Capacity(entries)
    <3>1. SoundTable(entries, arena) /\ size <= LoadLimit(c) /\ size \in Nat
      BY <1>6 DEF StoreInv, TypeOK
    <3>2. c \in PowersOfTwo /\ c >= 4 /\ call[t].minimum \in Nat
      BY <3>1 DEF SoundTable, TypeOK, Calls
    <3> HIDE DEF c
    <3>3. c \in Nat /\ \A d \in Nat : c * Pow2(d) <= HashValues => c * Pow2(d) \in PowersOfTwo
      BY <3>2, CapacityFacts
    <3>4. /\ \E d \in Nat : target = c * Pow2(d)
          /\ target \in Nat /\ target >= c
      BY <3>2, <3>3, CapacityForFacts DEF c
    <3>5. target <= HashValues
      <4>1. HashValues \in Nat
        BY StoreTableAssumption, Pow2Facts DEF HashValues
      <4>2. MinCapacity \in Nat
        BY StoreTableAssumption, CapacityFacts
      <4> QED BY <2>3, <3>4, <4>1, <4>2, StoreTableAssumption
    <3>6. target \in PowersOfTwo
      BY <3>3, <3>4, <3>5
    <3> HIDE DEF target
    <3>7. /\ SoundTable(Rebuilt(target), arena) /\ Capacity(Rebuilt(target)) = target
          /\ NodesIn(Rebuilt(target)) = NodesIn(entries)
          /\ Cardinality(Occupied(Rebuilt(target))) = size
          /\ Rebuilt(target) # NULL
      BY <1>6, <3>4, <3>6, RebuiltFacts DEF c
    <3>8. entries' = Rebuilt(target) /\ Answer(t, "success", NULL)
      BY <2>3, <3>7
    <3>9. size <= LoadLimit(target)
      <4>1. LoadLimit(c) \in Nat /\ LoadLimit(c) <= LoadLimit(target)
        BY <3>2, <3>3, <3>4, LoadLimitFacts
      <4>2. LoadLimit(target) \in Nat
        BY <3>2, <3>3, <3>4, LoadLimitFacts
      <4> QED BY <3>1, <4>1, <4>2
    <3>10. NothingAdded /\ TableInv'
      BY <1>1, <1>6, <3>7, <3>8, <3>9 DEF NothingAdded, Nodes, TableInv
    <3> QED BY <1>3, <3>7, <3>8, <3>10
  <2> QED BY <1>6, <2>1, <2>2, <2>3
<1> QED BY <1>4, <1>5, <1>6

\* Thread t has an answer that is true of the nodes now stored.
Replies(t) ==
  /\ call' \in [Threads -> Calls] /\ call'[t].op = call[t].op
  /\ \A u \in Threads : u # t => call'[u] = call[u]
  /\ Caller(t)' /\ Answered(t)'

\* The three kinds of answer are replies: one that is told,
LEMMA TellsReplies ==
  ASSUME NEW t, Caller(t)', Answered(t)', NEW s, NEW v, Tells(t, s, v)
  PROVE  Replies(t)
BY DEF Tells, Replies

\* a node,
LEMMA NodeAnswerReplies ==
  ASSUME NodesGrow, NEW t, Caller(t), call[t].op \in NodeOps, NodeAnswer(t)
  PROVE  Replies(t)
<1>1. Caller(t)' /\ Answered(t)'
  BY NodeAnswerTrue
<1>2. \E s, v : Tells(t, s, v)
  BY DEF NodeAnswer
<1> QED BY <1>1, <1>2, TellsReplies

\* and one that names no node.
LEMMA PlainAnswerReplies ==
  ASSUME NodesGrow, TypeOK, NEW t, Caller(t), PlainAnswer(t)
  PROVE  Replies(t)
<1>1. Caller(t)' /\ Answered(t)'
  BY PlainAnswerTrue
<1>2. call' = call \/ \E s, v : Tells(t, s, v)
  BY DEF PlainAnswer
<1>3. call' = call => Replies(t)
  BY <1>1 DEF Replies, TypeOK
<1> QED BY <1>1, <1>2, <1>3, TellsReplies

\* Statistics and snapshots of the nodes stored.
LEMMA StatsReplies ==
  ASSUME TypeOK, StoreInv, NothingAdded, NEW t \in Threads, Caller(t),
         call[t].op = "get_stats", NEW n, n = Cardinality(Nodes), Answer(t, "success", <<n>>)
  PROVE  Replies(t)
<1>1. IsFiniteSet(Nodes) /\ call[t].before \subseteq Nodes
  BY NodesFacts DEF Caller
<1>2. /\ n \in Nat /\ Cardinality(call[t].before) \in Nat
      /\ Cardinality(call[t].before) <= n
  BY <1>1, FS_Subset, FS_CardinalityType
<1>3. <<n>> \in Values /\ <<n>>[1] = n
  BY <1>2 DEF Values
<1>4. Tells(t, "success", <<n>>)
  BY <1>3, AnswerFacts DEF Statuses
<1>5. Caller(t)'
  BY <1>4, CallerKept DEF Tells, NothingAdded, NodesGrow
<1>6. call'[t].op = "get_stats" /\ call'[t].status = "success"
  BY <1>4 DEF Tells
<1>7. call'[t].value = <<n>> /\ call'[t].before = call[t].before /\ Nodes' = Nodes
  BY <1>4 DEF Tells, NothingAdded
<1>8. call'[t].value[1] \in Nat /\ Cardinality(call'[t].before) <= call'[t].value[1]
      /\ call'[t].value[1] <= Cardinality(Nodes')
  BY <1>2, <1>3, <1>7
<1>9. Answered(t)'
  BY <1>6, <1>8 DEF Answered, NodeOps
<1> QED BY <1>4, <1>5, <1>9, TellsReplies

\* A snapshot has all nodes of the moment it is taken.
LEMMA SnapshotReplies ==
  ASSUME TypeOK, StoreInv, NothingAdded, NEW t \in Threads, Caller(t),
         call[t].op = "snapshot", NEW nodes, nodes = Nodes, Answer(t, "success", nodes)
  PROVE  Replies(t)
<1>1. Tells(t, "success", nodes)
  BY NodesFacts, AnswerFacts DEF Statuses
<1>2. Caller(t)'
  BY <1>1, CallerKept DEF Tells, NothingAdded, NodesGrow
<1>3. call'[t].op = "snapshot" /\ call'[t].status = "success"
  BY <1>1 DEF Tells
<1>4. call'[t].before \subseteq call'[t].value /\ call'[t].value \subseteq Nodes'
  BY <1>1 DEF Tells, NothingAdded, Caller
<1>5. Answered(t)'
  BY <1>3, <1>4 DEF Answered, NodeOps
<1> QED BY <1>1, <1>2, <1>5, TellsReplies

\* Running out of memory may be said of every call that allocates.
LEMMA RefusalReplies ==
  ASSUME TypeOK, StoreInv, NodesGrow, NEW t \in Threads, Caller(t),
         call[t].op # "get_stats", Answer(t, "out_of_memory", NULL)
  PROVE  Replies(t)
<1>1. Tells(t, "out_of_memory", NULL)
  BY NullIsValue, AnswerFacts DEF Statuses
<1>2. Caller(t)'
  BY <1>1, CallerKept DEF Tells
<1>3. call'[t].op # "get_stats" /\ call'[t].status = "out_of_memory"
  BY <1>1 DEF Tells
<1>4. Answered(t)'
  BY <1>3 DEF Answered
<1> QED BY <1>1, <1>2, <1>4, TellsReplies

\* Under the read lock there is a table, or the store is sharded.
LEMMA ReaderSeesStore ==
  ASSUME ControlInv, NEW t \in Threads, pc[t] = "read", ~state
  PROVE  entries # NULL
BY DEF ControlInv, Exclusion, Placed

\* find, get_or_create, get_stats and snapshot_sorted under the read lock.
LEMMA ReadFacts ==
  ASSUME TypeOK, ControlInv, StoreInv, NEW t \in Threads, Caller(t), ReadWork(t)
  PROVE  \/ state /\ Goto(t, "sharded") /\ call' = call
         \/ Goto(t, "write_lock") /\ call' = call
         \/ Goto(t, "return") /\ Replies(t)
<1>1. /\ pc[t] = "read" /\ UNCHANGED <<store, given>> /\ call[t].op \in Reads
  BY DEF ReadWork, ControlInv, Placed
<1>2. NothingAdded /\ NodesGrow
  BY <1>1 DEF NothingAdded, NodesGrow, Nodes, store
<1>3. CASE state
  BY <1>3 DEF ReadWork
<1>4. CASE ~state
  <2>1. /\ entries # NULL /\ SoundTable(entries, arena) /\ arena \in Seq(Records)
        /\ Cardinality(Occupied(entries)) = size /\ Nodes = NodesIn(entries)
    BY <1>1, <1>4, ReaderSeesStore DEF StoreInv, TypeOK, Nodes
  <2>2. Cardinality(Nodes) = size
    BY <2>1, NodeFacts
  <2>3. CASE call[t].op = "get_stats"
    <3>1. Answer(t, "success", <<size>>) /\ Goto(t, "return")
      BY <1>4, <2>3 DEF ReadWork
    <3> QED BY <1>2, <2>2, <2>3, <3>1, StatsReplies
  <2>4. CASE call[t].op = "snapshot"
    <3>1. SnapshotSorted(t) /\ Goto(t, "return")
      BY <1>4, <2>1, <2>4 DEF ReadWork
    <3>2. ~\E a, b \in NodesIn(entries) : a # b /\ KeyAt(a) = KeyAt(b)
      BY <2>1, NodeFacts DEF KeyAt, Node
    <3>3. Answer(t, "success", NodesIn(entries)) \/ Answer(t, "out_of_memory", NULL)
      BY <2>1, <3>1, <3>2 DEF SnapshotSorted
    <3>4. Replies(t)
      BY <1>2, <2>1, <2>4, <3>3, SnapshotReplies, RefusalReplies
    <3> QED BY <3>1, <3>4
  <2>5. CASE call[t].op \in {"find", "get_or_create"}
    <3> DEFINE place == LocateKey(entries, call[t].key)
    <3>1. IF place.result = "found"
          THEN Found(t, entries[place.index].node) /\ Goto(t, "return")
          ELSE IF call[t].op = "find"
          THEN Answer(t, "not_found", NULL) /\ Goto(t, "return")
          ELSE Goto(t, "write_lock") /\ UNCHANGED call
      BY <1>4, <2>1, <2>5 DEF ReadWork
    <3>2. call[t].key \in Keys /\ call[t].op \in NodeOps
      BY <2>5 DEF Caller, NodeOps
    <3>3. CASE place.result = "found"
      <4>1. entries[place.index].node \in Nodes /\ KeyAt(entries[place.index].node) = call[t].key
        BY <2>1, <3>2, <3>3, LocatedFacts
      <4>2. NodeAnswer(t)
        BY <1>2, <3>1, <3>3, <4>1, FoundFacts
      <4> QED BY <1>2, <3>1, <3>2, <3>3, <4>2, NodeAnswerReplies
    <3>4. CASE place.result # "found" /\ call[t].op = "find"
      <4>1. ~Stored(call[t].key)
        BY <2>1, <3>2, <3>4, LocatedFacts
      <4>2. Tells(t, "not_found", NULL)
        BY <3>1, <3>4, NullIsValue, AnswerFacts DEF Statuses
      <4>3. NodeAnswer(t)
        BY <4>1, <4>2 DEF NodeAnswer
      <4> QED BY <1>2, <3>1, <3>2, <3>4, <4>3, NodeAnswerReplies
    <3>5. CASE place.result # "found" /\ call[t].op # "find"
      BY <3>1, <3>5
    <3> QED BY <3>3, <3>4, <3>5
  <2> QED BY <1>1, <2>3, <2>4, <2>5 DEF Reads
<1> QED BY <1>3, <1>4

\* cfr_info_store_prepare_concurrent builds the state from every node, or answers.
LEMMA PrepareFacts ==
  ASSUME TypeOK, StoreInv, NEW t \in Threads, Caller(t), PrepareWork(t)
  PROVE  /\ NodesGrow /\ TableInv'
         /\ \/ /\ entries # NULL /\ sharded' = NodesIn(entries) /\ Goto(t, "free")
               /\ call' = call
            \/ /\ sharded' = sharded /\ Goto(t, "write_unlock") /\ Replies(t)
               /\ call'[t].status # "none"
<1>1. call[t].op = "prepare" /\ UNCHANGED <<entries, size, arena, state>>
  BY DEF PrepareWork
<1>2. TableInv'
  BY <1>1 DEF TableInv, StoreInv
<1>3. ASSUME UNCHANGED sharded \/ entries # NULL PROVE NodesGrow
  BY <1>1, <1>3 DEF NodesGrow, Nodes
<1>4. ASSUME NEW status \in {"success", "invalid", "out_of_memory"}, Answer(t, status, NULL),
             NodesGrow
      PROVE  Replies(t) /\ call'[t].status # "none"
  <2>1. Tells(t, status, NULL)
    BY <1>4, NullIsValue, AnswerFacts DEF Statuses
  <2>2. PlainAnswer(t)
    BY <1>1, <2>1 DEF PlainAnswer
  <2> QED BY <1>4, <2>1, <2>2, PlainAnswerReplies DEF Tells
<1>5. CASE state
  BY <1>2, <1>3, <1>4, <1>5 DEF PrepareWork
<1>6. CASE ~state /\ entries = NULL
  BY <1>2, <1>3, <1>4, <1>6 DEF PrepareWork
<1>7. CASE ~state /\ entries # NULL
  <2>1. Cardinality(NodesIn(entries)) = size
    BY <1>7, NodeFacts DEF StoreInv, TypeOK
  <2>2. \/ sharded' = NodesIn(entries) /\ Goto(t, "free") /\ UNCHANGED call
        \/ Answer(t, "out_of_memory", NULL) /\ Goto(t, "write_unlock") /\ UNCHANGED sharded
    BY <1>7, <2>1 DEF PrepareWork
  <2> QED BY <1>2, <1>3, <1>4, <1>7, <2>2
<1> QED BY <1>5, <1>6, <1>7

\* An operation on the sharded store.
LEMMA ShardedFacts ==
  ASSUME TypeOK, ControlInv, StoreInv, NEW t \in Threads, Caller(t), UNCHANGED given, ShardedWork(t)
  PROVE  /\ NothingAdded \/ \E r : NodeAdded(r)
         /\ Replies(t) /\ entries = NULL /\ entries' = NULL
<1> DEFINE same == ShardedLocate(call[t])
           node == <<Len(arena) + 1>>
           r == [key |-> call[t].key, actions |-> call[t].actions]
<1>1. /\ state /\ entries = NULL /\ entries' = NULL /\ Nodes = sharded /\ Nodes' = sharded'
      /\ call[t].op \in Reads \union {"reserve"}
  BY DEF ShardedWork, ControlInv, Exclusion, Placed, Nodes
<1>2. arena \in Seq(Records) /\ call[t] \in Calls
  BY DEF TypeOK
<1>3. ASSUME UNCHANGED <<sharded, arena>> PROVE NothingAdded /\ NodesGrow
  BY <1>1, <1>3 DEF NothingAdded, NodesGrow
<1>4. CASE call[t].op = "get_or_create" /\ same = {} /\ Answer(t, "success", node)
           /\ arena' = Append(arena, r) /\ sharded' = sharded \union {node}
  <2>1. call[t].key \in Keys /\ call[t].op \in NodeOps
    BY <1>4 DEF Caller, NodeOps
  <2>2. r \in Records /\ r.key = call[t].key /\ r.actions = call[t].actions
    BY <1>2, <2>1 DEF Records, Calls
  <2> HIDE DEF r
  <2>3. \A a \in Nodes : KeyAt(a) # r.key
    BY <1>1, <1>4, <2>2 DEF ShardedLocate
  <2>4. NodeAdded(r)
    BY <1>1, <1>4, <2>2, <2>3 DEF NodeAdded
  <2>5. /\ node \in Addresses(Append(arena, r)) /\ Append(arena, r)[node[1]] = r
        /\ Append(arena, r) \in Seq(Records)
    BY <1>2, <2>2, AppendFacts
  <2> HIDE DEF node
  <2>6. Tells(t, "success", node)
    BY <1>4, <2>5, AddressFacts, AnswerFacts DEF Values, Statuses
  <2>7. NodeAnswer(t)
    <3>1. node \in Nodes'
      BY <1>1, <1>4
    <3>2. arena'[node[1]].key = call[t].key /\ arena'[node[1]].actions = call[t].actions
      BY <1>4, <2>2, <2>5
    <3> QED BY <2>6, <3>1, <3>2 DEF NodeAnswer
  <2>8. NodesGrow
    BY <2>4, AddedFacts
  <2> QED BY <1>1, <2>1, <2>4, <2>7, <2>8, NodeAnswerReplies
<1>5. CASE UNCHANGED <<sharded, arena>> /\ Answer(t, "out_of_memory", NULL)
           /\ call[t].op \in {"get_or_create", "reserve", "snapshot"}
  BY <1>1, <1>3, <1>5, RefusalReplies
<1>6. CASE UNCHANGED <<sharded, arena>> /\ call[t].op = "snapshot" /\ Answer(t, "success", sharded)
  BY <1>1, <1>3, <1>6, SnapshotReplies
<1>7. CASE /\ UNCHANGED <<sharded, arena>> /\ call[t].op = "get_stats"
           /\ Answer(t, "success", <<Cardinality(sharded)>>)
  BY <1>1, <1>3, <1>7, StatsReplies
<1>8. CASE UNCHANGED <<sharded, arena>> /\ call[t].op = "reserve" /\ Answer(t, "success", NULL)
  <2>1. Tells(t, "success", NULL)
    BY <1>8, NullIsValue, AnswerFacts DEF Statuses
  <2>2. PlainAnswer(t)
    BY <1>8, <2>1 DEF PlainAnswer
  <2> QED BY <1>1, <1>3, <1>8, <2>2, PlainAnswerReplies
<1>9. CASE /\ UNCHANGED <<sharded, arena>> /\ call[t].op \in {"find", "get_or_create"}
           /\ IF same = {} THEN call[t].op = "find" /\ Answer(t, "not_found", NULL)
              ELSE Found(t, TheOnly(same))
  <2>1. call[t].op \in NodeOps
    BY <1>9 DEF NodeOps
  <2>2. CASE same = {}
    <3>1. ~Stored(call[t].key)
      BY <1>1, <2>2 DEF Stored, ShardedLocate
    <3>2. Tells(t, "not_found", NULL)
      BY <1>9, <2>2, NullIsValue, AnswerFacts DEF Statuses
    <3>3. NodeAnswer(t)
      BY <3>1, <3>2 DEF NodeAnswer
    <3> QED BY <1>1, <1>3, <1>9, <2>1, <3>3, NodeAnswerReplies
  <2>3. CASE same # {}
    <3>1. TheOnly(same) \in same
      <4> HIDE DEF same
      <4> QED BY <2>3 DEF TheOnly
    <3>2. TheOnly(same) \in Nodes /\ KeyAt(TheOnly(same)) = call[t].key
      BY <1>1, <3>1 DEF ShardedLocate
    <3>3. Found(t, TheOnly(same))
      BY <1>9, <2>3
    <3> HIDE DEF same
    <3>4. NodeAnswer(t)
      BY <1>3, <1>9, <3>2, <3>3, FoundFacts
    <3> QED BY <1>1, <1>3, <1>9, <2>1, <3>4, NodeAnswerReplies
  <2> QED BY <2>2, <2>3
<1>10. \/ /\ call[t].op = "get_or_create" /\ same = {} /\ Answer(t, "success", node)
          /\ arena' = Append(arena, r) /\ sharded' = sharded \union {node}
       \/ /\ UNCHANGED <<sharded, arena>> /\ Answer(t, "out_of_memory", NULL)
          /\ call[t].op \in {"get_or_create", "reserve", "snapshot"}
       \/ /\ UNCHANGED <<sharded, arena>> /\ ~(call[t].op = "get_or_create" /\ same = {})
          /\ CASE call[t].op = "snapshot"  -> Answer(t, "success", sharded)
               [] call[t].op = "get_stats" -> Answer(t, "success", <<Cardinality(sharded)>>)
               [] call[t].op = "reserve"   -> Answer(t, "success", NULL)
               [] OTHER -> IF same = {} THEN Answer(t, "not_found", NULL)
                           ELSE Found(t, TheOnly(same))
  BY DEF ShardedWork
<1>11. CASE /\ UNCHANGED <<sharded, arena>> /\ ~(call[t].op = "get_or_create" /\ same = {})
            /\ CASE call[t].op = "snapshot"  -> Answer(t, "success", sharded)
                 [] call[t].op = "get_stats" -> Answer(t, "success", <<Cardinality(sharded)>>)
                 [] call[t].op = "reserve"   -> Answer(t, "success", NULL)
                 [] OTHER -> IF same = {} THEN Answer(t, "not_found", NULL)
                             ELSE Found(t, TheOnly(same))
  <2> HIDE DEF same
  <2>1. CASE call[t].op = "snapshot"
    BY <1>6, <1>11, <2>1
  <2>2. CASE call[t].op = "get_stats"
    BY <1>7, <1>11, <2>2
  <2>3. CASE call[t].op = "reserve"
    BY <1>8, <1>11, <2>3
  <2>4. CASE call[t].op \in {"find", "get_or_create"}
    BY <1>9, <1>11, <2>4
  <2> QED BY <1>1, <2>1, <2>2, <2>3, <2>4 DEF Reads
<1> QED BY <1>4, <1>5, <1>10, <1>11

-----------------------------------------------------------------------------
(* Every step keeps the invariant.                                         *)

\* The nodes stored after a step.
LEMMA StoreKept ==
  ASSUME TypeOK, StoreInv, UNCHANGED given, NothingAdded \/ \E r : NodeAdded(r), TableInv',
         sharded' = sharded \/ sharded' = Nodes'
  PROVE  StoreInv' /\ NodesGrow /\ arena' \in Seq(Records)
<1>1. /\ NodesGrow /\ arena' \in Seq(Records)
      /\ Addresses(arena) \subseteq Addresses(arena')
      /\ Nodes' \subseteq Addresses(arena')
      /\ \A a, b \in Nodes' : KeyAt(a)' = KeyAt(b)' => a = b
      /\ \A k \in Keys : \A a \in given'[k] : a \in Nodes' /\ KeyAt(a)' = k
  BY AddedFacts
<1>2. sharded' \subseteq Addresses(arena')
  BY <1>1 DEF StoreInv
<1> QED BY <1>1, <1>2 DEF StoreInv, TableInv

\* A step outside the table keeps the invariant of the store.
LEMMA StoreSame ==
  ASSUME TypeOK, StoreInv, UNCHANGED <<store, given>>
  PROVE  NothingAdded /\ StoreInv' /\ NodesGrow /\ arena' \in Seq(Records)
<1>1. NothingAdded /\ TableInv' /\ sharded' = sharded
  BY DEF NothingAdded, Nodes, TableInv, StoreInv, store
<1> QED BY <1>1, StoreKept

\* A step that takes no lock keeps readers and writer apart.
LEMMA ExclusionSame ==
  ASSUME ControlInv, NEW t \in Threads, NEW where, Moves(t, where), pc[t] # "publish",
         TypeOK, UNCHANGED rwVars, UNCHANGED state, entries' = NULL <=> entries = NULL
  PROVE  Exclusion'
<1>1. UNCHANGED <<reading, writing>>
  BY DEF rwVars
<1>2. \A u \in writing : pc[u] = "publish" => pc'[u] = "publish"
  BY DEF Moves, TypeOK
<1> QED BY <1>1, <1>2 DEF ControlInv, Exclusion

\* What a step of thread t leaves to the others.
Apart(t) ==
  /\ \A u \in Threads : u # t =>
       /\ pc'[u] = pc[u] /\ call'[u] = call[u]
       /\ (u \in reading <=> u \in reading') /\ (u \in writing <=> u \in writing')
       /\ pc[u] = "free" => UNCHANGED <<entries, sharded>>
       /\ pc[u] = "publish" => UNCHANGED entries
  /\ state => state'
  /\ pc[t] # "idle" \/ \A u \in Threads : call[u].op # "sequential"

\* Another thread stays where it may be when this one keeps to its own.
LEMMA OthersPlaced ==
  ASSUME ControlInv, NEW t \in Threads, Apart(t), NEW u \in Threads, u # t
  PROVE  Placed(u)'
<1>1. Placed(u)
  BY DEF ControlInv
<1>2. /\ pc'[u] = pc[u] /\ call'[u] = call[u]
      /\ (u \in reading <=> u \in reading') /\ (u \in writing <=> u \in writing')
      /\ pc[u] = "free" => UNCHANGED <<entries, sharded>>
      /\ pc[u] = "publish" => UNCHANGED entries
      /\ state => state'
  BY DEF Apart
<1>3. call[u].op # "sequential"
  BY <1>1 DEF Apart, Placed
<1> QED BY <1>1, <1>2, <1>3 DEF Placed

\* The invariant after a step, thread by thread.
LEMMA StepKeeps ==
  ASSUME IInv, NEW t \in Threads, Apart(t), TypeOK', StoreInv', NodesGrow,
         Exclusion', Placed(t)', CallInv(t)'
  PROVE  IInv'
<1>1. ASSUME NEW u \in Threads PROVE Placed(u)' /\ CallInv(u)'
  <2>1. CASE u = t
    BY <2>1
  <2>2. CASE u # t
    <3>1. Placed(u)'
      BY <2>2, OthersPlaced DEF IInv
    <3>2. pc'[u] = pc[u] /\ call'[u] = call[u] /\ CallInv(u)
      BY <2>2 DEF Apart, IInv
    <3>3. Caller(u)'
      BY <3>2, CallerKept DEF CallInv
    <3>4. Answered(u) => Answered(u)'
      BY <3>2, AnsweredKept DEF IInv
    <3> QED BY <3>1, <3>2, <3>3, <3>4 DEF CallInv
  <2> QED BY <2>1, <2>2
<1> QED BY <1>1 DEF IInv, ControlInv

\* While one thread works on the table no other one shards the store.
LEMMA NoPublisher ==
  ASSUME ControlInv, NEW t \in Threads, pc[t] = "work" \/ t \in writing,
         NEW u \in Threads, u # t
  PROVE  pc[u] \notin {"free", "publish"}
BY DEF ControlInv, Exclusion, Placed

\* A call begins.
LEMMA BeginKeeps ==
  ASSUME IInv, NEW t \in Threads, NEW request \in Calls, Begin(t, request),
         request.status = "none", request.op \in AllOps,
         request.op \in NodeOps => request.key \in Keys,
         request.known => Stored(request.key), request.before \subseteq Nodes,
         request.op = "sequential" => \A u \in Threads : pc[u] = "idle"
  PROVE  IInv'
<1>1. TypeOK /\ ControlInv /\ StoreInv
  BY DEF IInv
<1>2. Moves(t, "load") /\ Takes(t, request)
  BY <1>1, GotoFacts, TakesFacts DEF Begin, Places
<1>3. /\ UNCHANGED <<store, given>> /\ UNCHANGED rwVars /\ pc[t] = "idle"
      /\ \A u \in Threads : call[u].op # "sequential"
  BY DEF Begin
<1>4. NothingAdded /\ StoreInv' /\ NodesGrow /\ arena' \in Seq(Records)
  BY <1>1, <1>3, StoreSame
<1>5. TypeOK'
  BY <1>1, <1>2, <1>3, <1>4 DEF TypeOK, Moves, Takes, store, rwVars
<1>6. Apart(t)
  BY <1>2, <1>3 DEF Apart, Moves, Takes, store, rwVars
<1>7. Exclusion'
  BY <1>1, <1>2, <1>3, ExclusionSame DEF store
<1>8. pc'[t] = "load" /\ call'[t] = request
  BY <1>2 DEF Moves, Takes
<1>9. Placed(t)'
  <2>1. request.op = "sequential" => \A u \in Threads : u # t => pc'[u] = "idle"
    BY <1>2 DEF Moves
  <2> QED BY <1>8, <2>1 DEF Placed
<1>10. CallInv(t)'
  BY <1>4, <1>8 DEF CallInv, Caller, NothingAdded, Stored, KeyAt, Node
<1> QED BY <1>4, <1>5, <1>6, <1>7, <1>9, <1>10, StepKeeps

\* A step that leaves store and lock alone.
LEMMA QuietKeeps ==
  ASSUME IInv, NEW t \in Threads, NEW where \in Places, Moves(t, where),
         UNCHANGED <<store, given>>, UNCHANGED rwVars, pc[t] \notin {"idle", "publish"},
         call' \in [Threads -> Calls], \A u \in Threads : u # t => call'[u] = call[u],
         Placed(t)', CallInv(t)'
  PROVE  IInv'
<1>1. TypeOK /\ ControlInv /\ StoreInv
  BY DEF IInv
<1>2. NothingAdded /\ StoreInv' /\ NodesGrow /\ arena' \in Seq(Records)
  BY <1>1, StoreSame
<1>3. TypeOK'
  BY <1>1, <1>2 DEF TypeOK, Moves, store, rwVars
<1>4. Apart(t)
  BY DEF Apart, Moves, store, rwVars
<1>5. Exclusion'
  BY <1>1, ExclusionSame DEF store
<1> QED BY <1>2, <1>3, <1>4, <1>5, StepKeeps

\* Each action preserves the invariant. A lookup begins.
LEMMA StartFindKeeps == ASSUME IInv, NEW t \in Threads, StartFind(t) PROVE IInv'
<1>1. PICK k \in Keys : Begin(t, [Idle EXCEPT !.op = "find", !.key = k, !.known = Stored(k)])
  BY DEF StartFind
<1> DEFINE request == [Idle EXCEPT !.op = "find", !.key = k, !.known = Stored(k)]
<1>2. k \in Nat /\ Stored(k) \in BOOLEAN
  BY StoreTableAssumption DEF Stored
<1>3. /\ request \in Calls /\ request.status = "none" /\ request.op = "find"
      /\ request.key = k /\ request.known = Stored(k) /\ request.before = {}
  BY <1>2, IdleFacts DEF Calls, AllOps
<1> HIDE DEF request
<1> QED BY <1>1, <1>3, BeginKeeps DEF request, AllOps

\* An insertion begins, with or without locks.
LEMMA StartGetOrCreateKeeps == ASSUME IInv, NEW t \in Threads, StartGetOrCreate(t) PROVE IInv'
<1>1. PICK op \in Ops \intersect {"get_or_create", "sequential"}, k \in Keys, n \in ActionCounts :
        /\ op = "sequential" => \A u \in Threads : pc[u] = "idle"
        /\ Begin(t, [Idle EXCEPT !.op = op, !.key = k, !.actions = n, !.known = Stored(k)])
  BY DEF StartGetOrCreate
<1> DEFINE request == [Idle EXCEPT !.op = op, !.key = k, !.actions = n, !.known = Stored(k)]
<1>2. k \in Nat /\ n \in Nat /\ Stored(k) \in BOOLEAN /\ op \in AllOps
  BY StoreTableAssumption, SharedStoreAssumption DEF Stored
<1>3. /\ request \in Calls /\ request.status = "none" /\ request.op = op
      /\ request.key = k /\ request.known = Stored(k) /\ request.before = {}
  BY <1>2, IdleFacts DEF Calls
<1> HIDE DEF request
<1> QED BY <1>1, <1>2, <1>3, BeginKeeps DEF request

\* A reservation begins.
LEMMA StartReserveKeeps == ASSUME IInv, NEW t \in Threads, StartReserve(t) PROVE IInv'
<1>1. PICK m \in Reservations : Begin(t, [Idle EXCEPT !.op = "reserve", !.minimum = m])
  BY DEF StartReserve
<1> DEFINE request == [Idle EXCEPT !.op = "reserve", !.minimum = m]
<1>2. m \in Nat
  BY SharedStoreAssumption
<1>3. /\ request \in Calls /\ request.status = "none" /\ request.op = "reserve"
      /\ request.known = FALSE /\ request.before = {}
  BY <1>2, IdleFacts DEF Calls, AllOps
<1> HIDE DEF request
<1> QED BY <1>1, <1>3, BeginKeeps DEF request, AllOps, NodeOps

\* A snapshot or a count begins.
LEMMA StartReportKeeps == ASSUME IInv, NEW t \in Threads, StartReport(t) PROVE IInv'
<1>1. PICK op \in Ops \intersect {"get_stats", "snapshot"} :
        Begin(t, [Idle EXCEPT !.op = op, !.before = Nodes])
  BY DEF StartReport
<1> DEFINE request == [Idle EXCEPT !.op = op, !.before = Nodes]
<1>2. Nodes \in SUBSET Seq(Nat)
  BY NodesFacts DEF IInv
<1>3. /\ request \in Calls /\ request.status = "none" /\ request.op = op
      /\ request.known = FALSE /\ request.before = Nodes
  BY <1>2, IdleFacts DEF Calls, AllOps
<1> HIDE DEF request
<1> QED BY <1>1, <1>3, BeginKeeps DEF request, AllOps, NodeOps

\* The move to shards begins.
LEMMA StartPrepareKeeps == ASSUME IInv, NEW t \in Threads, StartPrepare(t) PROVE IInv'
<1> DEFINE request == [Idle EXCEPT !.op = "prepare"]
<1>1. Begin(t, request)
  BY DEF StartPrepare
<1>2. /\ request \in Calls /\ request.status = "none" /\ request.op = "prepare"
      /\ request.known = FALSE /\ request.before = {}
  BY IdleFacts DEF Calls, AllOps
<1> HIDE DEF request
<1> QED BY <1>1, <1>2, BeginKeeps DEF AllOps, NodeOps

\* A call that only goes on to another step.
LEMMA GoesOn ==
  ASSUME IInv, NEW t \in Threads, NEW where \in Places, Goto(t, where), UNCHANGED call,
         where \notin {"idle", "write_unlock", "return"}, NodesGrow, pc[t] # "idle"
  PROVE  /\ Moves(t, where) /\ CallInv(t)'
         /\ call[t].op = "sequential" => \A u \in Threads : u # t => pc'[u] = "idle"
<1>1. Moves(t, where)
  BY GotoFacts DEF IInv
<1>2. Caller(t)'
  BY CallerKept DEF IInv, CallInv
<1>3. call[t].op = "sequential" => \A u \in Threads : u # t => pc[u] = "idle"
  BY DEF IInv, ControlInv, Placed
<1> QED BY <1>1, <1>2, <1>3 DEF Moves, CallInv

\* The pointer to the shards is loaded: locked or sharded from here on.
LEMMA LoadKeeps == ASSUME IInv, NEW t \in Threads, Load(t) PROVE IInv'
<1>1. TypeOK /\ ControlInv /\ StoreInv /\ CallInv(t) /\ Placed(t)
  BY DEF IInv, ControlInv
<1>2. /\ pc[t] = "load" /\ UNCHANGED <<store, given>> /\ UNCHANGED rwVars
      /\ call[t].status = "none" /\ call[t].op \in AllOps
  BY <1>1 DEF Load, Placed
<1>3. NodesGrow
  BY <1>1, <1>2, StoreSame
<1>4. state' = state /\ call \in [Threads -> Calls]
  BY <1>1, <1>2 DEF store, TypeOK
<1>5. CASE state /\ call[t].op = "prepare"
  <2>1. Answer(t, "success", NULL) /\ Goto(t, "return")
    BY <1>2, <1>5 DEF Load
  <2>2. Tells(t, "success", NULL) /\ Moves(t, "return")
    BY <1>1, <2>1, NullIsValue, AnswerFacts, GotoFacts DEF Statuses, Places
  <2>3. Replies(t)
    BY <1>1, <1>3, <1>5, <2>2, PlainAnswerReplies DEF PlainAnswer, CallInv
  <2>4. Placed(t)' /\ CallInv(t)'
    BY <1>5, <2>2, <2>3 DEF Placed, CallInv, Replies, Moves
  <2> QED BY <1>2, <2>2, <2>3, <2>4, QuietKeeps DEF Replies, Places
<1>6. ASSUME NEW where \in {"work", "sharded", "precheck", "write_lock", "read_lock"},
             Goto(t, where), UNCHANGED call,
             where = "work" => call[t].op = "sequential",
             where = "precheck" => call[t].op = "reserve",
             where = "sharded" => state /\ call[t].op \in Reads \union {"reserve"},
             where = "read_lock" => call[t].op \in Reads
      PROVE  IInv'
  <2>1. where \in Places /\ where \notin {"idle", "write_unlock", "return"}
    BY DEF Places
  <2>2. /\ Moves(t, where) /\ CallInv(t)'
        /\ call[t].op = "sequential" => \A u \in Threads : u # t => pc'[u] = "idle"
    BY <1>2, <1>3, <1>6, <2>1, GoesOn
  <2>3. Placed(t)'
    BY <1>2, <1>4, <1>6, <2>2 DEF Placed, Moves
  <2> QED BY <1>2, <1>4, <1>6, <2>1, <2>2, <2>3, QuietKeeps
<1>7. CASE call[t].op = "sequential"
  BY <1>2, <1>6, <1>7 DEF Load
<1>8. CASE state /\ call[t].op \notin {"prepare", "sequential"}
  BY <1>2, <1>6, <1>8 DEF Load, AllOps, Reads
<1>9. CASE ~state /\ call[t].op = "reserve"
  BY <1>2, <1>6, <1>9 DEF Load
<1>10. CASE ~state /\ call[t].op = "prepare"
  BY <1>2, <1>6, <1>10 DEF Load
<1>11. CASE ~state /\ call[t].op \in Reads
  BY <1>2, <1>6, <1>11 DEF Load, Reads
<1> QED BY <1>2, <1>5, <1>7, <1>8, <1>9, <1>10, <1>11 DEF AllOps, Reads

\* A call that returns with a true answer and leaves store and lock alone.
LEMMA ReturnsKeeps ==
  ASSUME IInv, NEW t \in Threads, Goto(t, "return"), Replies(t), UNCHANGED <<store, given>>,
         UNCHANGED rwVars, pc[t] \notin {"idle", "publish"}
  PROVE  IInv'
<1>1. Moves(t, "return")
  BY GotoFacts DEF IInv, Places
<1>2. call[t].op = "sequential" => \A u \in Threads : u # t => pc[u] = "idle"
  BY DEF IInv, ControlInv, Placed
<1>3. Placed(t)' /\ CallInv(t)'
  BY <1>1, <1>2 DEF Placed, CallInv, Replies, Moves
<1> QED BY <1>1, <1>3, QuietKeeps DEF Replies, Places

\* A reservation looks at the table without the lock.
LEMMA PrecheckKeeps == ASSUME IInv, NEW t \in Threads, Precheck(t) PROVE IInv'
<1>1. TypeOK /\ ControlInv /\ StoreInv /\ CallInv(t) /\ Placed(t)
  BY DEF IInv, ControlInv
<1>2. /\ pc[t] = "precheck" /\ UNCHANGED <<store, given>> /\ UNCHANGED rwVars
      /\ call[t].status = "none"
  BY <1>1 DEF Precheck, Placed
<1>3. NodesGrow
  BY <1>1, <1>2, StoreSame
<1>4. CASE entries = NULL
  <2>1. Answer(t, "invalid", NULL) /\ Goto(t, "return")
    BY <1>4 DEF Precheck
  <2>2. Tells(t, "invalid", NULL)
    BY <1>1, <2>1, NullIsValue, AnswerFacts DEF Statuses
  <2>3. PlainAnswer(t)
    BY <1>1, <1>2, <2>2 DEF PlainAnswer, Placed
  <2> QED BY <1>1, <1>2, <1>3, <2>1, <2>3, PlainAnswerReplies, ReturnsKeeps DEF CallInv
<1>5. CASE entries # NULL
  <2>1. Goto(t, "write_lock") /\ UNCHANGED call
    BY <1>5 DEF Precheck
  <2>2. /\ Moves(t, "write_lock") /\ CallInv(t)'
        /\ call[t].op = "sequential" => \A u \in Threads : u # t => pc'[u] = "idle"
    BY <1>2, <1>3, <2>1, GoesOn DEF Places
  <2>3. Placed(t)'
    BY <1>2, <2>1, <2>2 DEF Placed, Moves
  <2> QED BY <1>1, <1>2, <2>1, <2>2, <2>3, QuietKeeps DEF Places, TypeOK
<1> QED BY <1>4, <1>5

\* A reader enters.
LEMMA ReadLockKeeps == ASSUME IInv, NEW t \in Threads, ReadLock(t) PROVE IInv'
<1>1. TypeOK /\ ControlInv /\ StoreInv /\ CallInv(t) /\ Placed(t)
  BY DEF IInv, ControlInv
<1>2. /\ pc[t] = "read_lock" /\ UNCHANGED <<store, given>> /\ UNCHANGED call
      /\ writing = {} /\ writing' = {} /\ reading' = reading \union {t} /\ Goto(t, "read")
      /\ call[t].status = "none" /\ call[t].op \in Reads
  BY <1>1 DEF ReadLock, AcquireRead, Placed
<1>3. NothingAdded /\ StoreInv' /\ NodesGrow /\ arena' \in Seq(Records)
  BY <1>1, <1>2, StoreSame
<1>4. /\ Moves(t, "read") /\ CallInv(t)'
      /\ call[t].op = "sequential" => \A u \in Threads : u # t => pc'[u] = "idle"
  BY <1>2, <1>3, GoesOn DEF Places
<1>5. TypeOK'
  BY <1>1, <1>2, <1>3, <1>4 DEF TypeOK, Moves, store
<1>6. Apart(t)
  BY <1>2, <1>4 DEF Apart, Moves, store
<1>7. Exclusion'
  BY <1>1, <1>2 DEF ControlInv, Exclusion, store
<1>8. Placed(t)'
  BY <1>2, <1>4 DEF Placed, Moves
<1> QED BY <1>3, <1>4, <1>5, <1>6, <1>7, <1>8, StepKeeps

\* A writer enters alone.
LEMMA WriteLockKeeps == ASSUME IInv, NEW t \in Threads, WriteLock(t) PROVE IInv'
<1>1. TypeOK /\ ControlInv /\ StoreInv /\ CallInv(t) /\ Placed(t)
  BY DEF IInv, ControlInv
<1>2. /\ pc[t] = "write_lock" /\ UNCHANGED <<store, given>> /\ UNCHANGED call
      /\ reading = {} /\ reading' = {} /\ writing = {} /\ writing' = {t} /\ Goto(t, "work")
      /\ call[t].status = "none"
  BY <1>1 DEF WriteLock, AcquireWrite, Placed
<1>3. NothingAdded /\ StoreInv' /\ NodesGrow /\ arena' \in Seq(Records)
  BY <1>1, <1>2, StoreSame
<1>4. /\ Moves(t, "work") /\ CallInv(t)'
      /\ call[t].op = "sequential" => \A u \in Threads : u # t => pc'[u] = "idle"
  BY <1>2, <1>3, GoesOn DEF Places
<1>5. TypeOK'
  BY <1>1, <1>2, <1>3, <1>4 DEF TypeOK, Moves, store
<1>6. Apart(t)
  BY <1>2, <1>4 DEF Apart, Moves, store
<1>7. Exclusion'
  BY <1>1, <1>2 DEF ControlInv, Exclusion, store
<1>8. Placed(t)'
  BY <1>2, <1>4 DEF Placed, Moves
<1> QED BY <1>3, <1>4, <1>5, <1>6, <1>7, <1>8, StepKeeps

\* The reader releases the lock with its answer, or on its way to the shards or the
\* write lock.
LEMMA ReadWorkKeeps == ASSUME IInv, NEW t \in Threads, ReadWork(t) PROVE IInv'
<1>1. TypeOK /\ ControlInv /\ StoreInv /\ CallInv(t) /\ Placed(t) /\ Caller(t)
  BY DEF IInv, ControlInv, CallInv
<1>2. /\ pc[t] = "read" /\ UNCHANGED <<store, given>> /\ t \in reading
      /\ reading' = reading \ {t} /\ writing' = writing
      /\ call[t].status = "none" /\ call[t].op \in Reads
  BY <1>1 DEF ReadWork, ReleaseRead, Placed
<1>3. NothingAdded /\ StoreInv' /\ NodesGrow /\ arena' \in Seq(Records)
  BY <1>1, <1>2, StoreSame
<1>4. ASSUME NEW where \in Places, Moves(t, where), call' \in [Threads -> Calls],
             \A u \in Threads : u # t => call'[u] = call[u], Placed(t)', CallInv(t)'
      PROVE  IInv'
  <2>1. TypeOK'
    BY <1>1, <1>2, <1>3, <1>4 DEF TypeOK, Moves, store
  <2>2. Apart(t)
    BY <1>2, <1>4 DEF Apart, Moves, store
  <2>3. Exclusion'
    <3>1. writing = {}
      BY <1>1, <1>2 DEF ControlInv, Exclusion
    <3> QED BY <1>1, <1>2, <3>1 DEF ControlInv, Exclusion, store
  <2> QED BY <1>3, <1>4, <2>1, <2>2, <2>3, StepKeeps
<1>5. state' = state /\ call[t].op # "sequential" /\ call \in [Threads -> Calls]
  BY <1>1, <1>2 DEF store, Reads, TypeOK
<1>6. ASSUME NEW where \in {"sharded", "write_lock"}, Goto(t, where), UNCHANGED call,
             where = "sharded" => state
      PROVE  IInv'
  <2>1. where \in Places /\ where \notin {"idle", "write_unlock", "return"}
    BY DEF Places
  <2>2. Moves(t, where) /\ CallInv(t)'
    BY <1>2, <1>3, <1>6, <2>1, GoesOn
  <2>3. Placed(t)'
    BY <1>2, <1>5, <1>6, <2>2 DEF Placed, Moves
  <2> QED BY <1>4, <1>5, <1>6, <2>1, <2>2, <2>3
<1>7. CASE Goto(t, "return") /\ Replies(t)
  <2>1. Moves(t, "return")
    BY <1>1, <1>7, GotoFacts DEF Places
  <2>2. Placed(t)' /\ CallInv(t)'
    BY <1>5, <1>7, <2>1 DEF Placed, CallInv, Replies, Moves
  <2> QED BY <1>4, <1>7, <2>1, <2>2 DEF Replies, Places
<1> QED BY <1>1, <1>6, <1>7, ReadFacts

\* A writer's step: the store may change, the lock does not.
LEMMA WriterKeeps ==
  ASSUME IInv, NEW t \in Threads, pc[t] \in {"work", "free", "publish"},
         NEW where \in Places, Moves(t, where),
         call' \in [Threads -> Calls], \A u \in Threads : u # t => call'[u] = call[u],
         UNCHANGED rwVars, UNCHANGED given, state => state', state' \in BOOLEAN, size' \in Nat,
         arena' \in Seq(Records), StoreInv', NodesGrow, Exclusion', Placed(t)', CallInv(t)'
  PROVE  IInv'
<1>1. TypeOK /\ ControlInv
  BY DEF IInv
<1>2. TypeOK'
  BY <1>1 DEF TypeOK, Moves, rwVars
<1>3. \A u \in Threads : u # t => pc[u] \notin {"free", "publish"}
  <2>1. pc[t] = "work" \/ t \in writing
    BY <1>1 DEF ControlInv, Placed
  <2> QED BY <1>1, <2>1, NoPublisher
<1>4. Apart(t)
  BY <1>3 DEF Apart, Moves, rwVars
<1> QED BY <1>2, <1>4, StepKeeps

\* Under the write lock: found, refused, grown or inserted.
LEMMA GetOrCreateWorkKeeps == ASSUME IInv, NEW t \in Threads, GetOrCreateWork(t) PROVE IInv'
<1>1. TypeOK /\ ControlInv /\ StoreInv /\ CallInv(t) /\ Placed(t) /\ Caller(t)
  BY DEF IInv, ControlInv, CallInv
<1> DEFINE where == IF call[t].op = "sequential" THEN "return" ELSE "write_unlock"
<1>2. /\ pc[t] = "work" /\ UNCHANGED given /\ UNCHANGED rwVars /\ Goto(t, where)
      /\ UNCHANGED <<state, sharded>> /\ call[t].op \in NodeOps
  BY DEF GetOrCreateWork, NodeOps
<1>3. where \in Places
  BY DEF Places
<1>4. Moves(t, where)
  BY <1>1, <1>2, <1>3, GotoFacts
<1>5. /\ NothingAdded \/ \E r : NodeAdded(r)
      /\ NodeAnswer(t) /\ size' \in Nat /\ (entries' = NULL <=> entries = NULL) /\ TableInv'
  BY <1>1, GetOrCreateFacts
<1>6. StoreInv' /\ NodesGrow /\ arena' \in Seq(Records)
  BY <1>1, <1>2, <1>5, StoreKept
<1>7. Replies(t)
  BY <1>1, <1>2, <1>5, <1>6, NodeAnswerReplies
<1>8. Exclusion'
  BY <1>1, <1>2, <1>4, <1>5, ExclusionSame
<1>9. CallInv(t)'
  BY <1>7 DEF CallInv, Replies
<1>10. call'[t].status # "none"
  BY <1>5 DEF NodeAnswer, Tells
<1>11. Placed(t)'
  <2>1. pc'[t] = where /\ call'[t].op = call[t].op
    BY <1>4, <1>7 DEF Moves, Replies
  <2>2. call[t].op = "sequential" => \A u \in Threads : u # t => pc'[u] = "idle"
    BY <1>1, <1>4 DEF Moves, Placed
  <2>3. call[t].op # "sequential" => t \in writing'
    BY <1>1, <1>2 DEF Placed, rwVars
  <2> QED BY <1>10, <2>1, <2>2, <2>3 DEF Placed
<1>12. state' \in BOOLEAN /\ (state => state')
  BY <1>1, <1>2 DEF TypeOK
<1> HIDE DEF where
<1> QED BY <1>2, <1>3, <1>4, <1>5, <1>6, <1>7, <1>8, <1>9, <1>11, <1>12, WriterKeeps DEF Replies

\* Under the write lock: a larger table with the same nodes.
LEMMA ReserveWorkKeeps == ASSUME IInv, NEW t \in Threads, ReserveWork(t) PROVE IInv'
<1>1. TypeOK /\ ControlInv /\ StoreInv /\ CallInv(t) /\ Placed(t) /\ Caller(t)
  BY DEF IInv, ControlInv, CallInv
<1>2. /\ pc[t] = "work" /\ call[t].op = "reserve" /\ call[t].status = "none"
      /\ UNCHANGED given /\ UNCHANGED rwVars /\ Goto(t, "write_unlock")
      /\ UNCHANGED <<size, arena, state, sharded>>
  BY <1>1 DEF ReserveWork, Placed
<1>3. Moves(t, "write_unlock") /\ "write_unlock" \in Places
  BY <1>1, <1>2, GotoFacts DEF Places
<1>4. /\ NothingAdded /\ PlainAnswer(t) /\ (entries' = NULL <=> entries = NULL) /\ TableInv'
      /\ state \/ call'[t].status # "none"
  BY <1>1, <1>2, ReserveFacts
<1>5. StoreInv' /\ NodesGrow /\ arena' \in Seq(Records)
  BY <1>1, <1>2, <1>4, StoreKept
<1>6. Replies(t)
  BY <1>1, <1>4, <1>5, PlainAnswerReplies
<1>7. Exclusion'
  BY <1>1, <1>2, <1>3, <1>4, ExclusionSame
<1>8. CallInv(t)'
  BY <1>6 DEF CallInv, Replies
<1>9. Placed(t)'
  <2>1. pc'[t] = "write_unlock" /\ call'[t].op = "reserve"
    BY <1>2, <1>3, <1>6 DEF Moves, Replies
  <2>2. t \in writing' /\ state' = state
    BY <1>1, <1>2 DEF Placed, rwVars
  <2> QED BY <1>4, <2>1, <2>2 DEF Placed
<1>10. state' \in BOOLEAN /\ (state => state') /\ size' \in Nat
  BY <1>1, <1>2 DEF TypeOK
<1> QED BY <1>2, <1>3, <1>5, <1>6, <1>7, <1>8, <1>9, <1>10, WriterKeeps DEF Replies

\* Under the write lock: every node copied to a shard, or nothing done.
LEMMA PrepareWorkKeeps == ASSUME IInv, NEW t \in Threads, PrepareWork(t) PROVE IInv'
<1>1. TypeOK /\ ControlInv /\ StoreInv /\ CallInv(t) /\ Placed(t) /\ Caller(t)
  BY DEF IInv, ControlInv, CallInv
<1>2. /\ pc[t] = "work" /\ call[t].op = "prepare" /\ UNCHANGED given /\ UNCHANGED rwVars
      /\ UNCHANGED <<entries, size, arena, state>>
  BY DEF PrepareWork
<1>3. /\ NodesGrow /\ TableInv'
      /\ \/ /\ entries # NULL /\ sharded' = NodesIn(entries) /\ Goto(t, "free")
            /\ call' = call
         \/ /\ sharded' = sharded /\ Goto(t, "write_unlock") /\ Replies(t)
            /\ call'[t].status # "none"
  BY <1>1, PrepareFacts
<1>4. t \in writing /\ t \in writing'
  BY <1>1, <1>2 DEF Placed, rwVars
<1>5. state' \in BOOLEAN /\ (state => state') /\ size' \in Nat /\ call \in [Threads -> Calls]
  BY <1>1, <1>2 DEF TypeOK
<1>6. CASE entries # NULL /\ sharded' = NodesIn(entries) /\ Goto(t, "free") /\ call' = call
  <2>1. NothingAdded /\ sharded' = Nodes'
    BY <1>2, <1>6 DEF NothingAdded, Nodes
  <2>2. StoreInv' /\ arena' \in Seq(Records)
    BY <1>1, <1>2, <1>3, <2>1, StoreKept
  <2>3. Moves(t, "free") /\ CallInv(t)'
    BY <1>2, <1>3, <1>6, GoesOn DEF Places
  <2>4. Placed(t)'
    BY <1>2, <1>4, <1>6, <2>3 DEF Placed, Moves
  <2>5. Exclusion'
    BY <1>1, <1>2, <2>3, ExclusionSame
  <2> QED BY <1>2, <1>3, <1>5, <1>6, <2>2, <2>3, <2>4, <2>5, WriterKeeps DEF Places
<1>7. CASE /\ sharded' = sharded /\ Goto(t, "write_unlock") /\ Replies(t)
           /\ call'[t].status # "none"
  <2>1. NothingAdded
    BY <1>2, <1>7 DEF NothingAdded, Nodes
  <2>2. StoreInv' /\ arena' \in Seq(Records)
    BY <1>1, <1>2, <1>3, <1>7, <2>1, StoreKept
  <2>3. Moves(t, "write_unlock")
    BY <1>1, <1>7, GotoFacts DEF Places
  <2>4. Placed(t)' /\ CallInv(t)'
    BY <1>2, <1>4, <1>7, <2>3 DEF Placed, CallInv, Replies, Moves
  <2>5. Exclusion'
    BY <1>1, <1>2, <2>3, ExclusionSame
  <2> QED BY <1>2, <1>3, <1>5, <1>7, <2>2, <2>3, <2>4, <2>5, WriterKeeps DEF Places, Replies
<1> QED BY <1>3, <1>6, <1>7

\* The table is given up, and its nodes are those of the state that is not yet published.
LEMMA PrepareFreeKeeps == ASSUME IInv, NEW t \in Threads, PrepareFree(t) PROVE IInv'
<1>1. TypeOK /\ ControlInv /\ StoreInv /\ CallInv(t) /\ Placed(t) /\ Caller(t)
  BY DEF IInv, ControlInv, CallInv
<1>2. /\ pc[t] = "free" /\ UNCHANGED given /\ UNCHANGED rwVars /\ entries' = NULL
      /\ UNCHANGED <<size, arena, state, sharded>> /\ call' = call /\ Goto(t, "publish")
  BY DEF PrepareFree
<1>3. /\ call[t].op = "prepare" /\ t \in writing /\ t \in writing' /\ entries # NULL
      /\ sharded = NodesIn(entries)
  BY <1>1, <1>2 DEF Placed, rwVars
<1>4. NothingAdded /\ TableInv'
  BY <1>2, <1>3 DEF NothingAdded, Nodes, TableInv
<1>5. StoreInv' /\ NodesGrow /\ arena' \in Seq(Records)
  BY <1>1, <1>2, <1>4, StoreKept
<1>6. Moves(t, "publish") /\ CallInv(t)'
  BY <1>2, <1>5, GoesOn DEF Places
<1>7. Placed(t)'
  BY <1>2, <1>3, <1>6 DEF Placed, Moves
<1>8. Exclusion'
  BY <1>1, <1>2, <1>3, <1>6 DEF ControlInv, Exclusion, Moves, rwVars
<1>9. state' \in BOOLEAN /\ (state => state') /\ size' \in Nat /\ call \in [Threads -> Calls]
  BY <1>1, <1>2 DEF TypeOK
<1> QED BY <1>2, <1>5, <1>6, <1>7, <1>8, <1>9, WriterKeeps DEF Places

\* The shards are published after the table is gone.
LEMMA PreparePublishKeeps == ASSUME IInv, NEW t \in Threads, PreparePublish(t) PROVE IInv'
<1>1. TypeOK /\ ControlInv /\ StoreInv /\ CallInv(t) /\ Placed(t) /\ Caller(t)
  BY DEF IInv, ControlInv, CallInv
<1>2. /\ pc[t] = "publish" /\ UNCHANGED given /\ UNCHANGED rwVars /\ state' = TRUE
      /\ UNCHANGED <<entries, size, arena, sharded>> /\ Goto(t, "write_unlock")
      /\ Answer(t, "success", NULL)
  BY DEF PreparePublish
<1>3. call[t].op = "prepare" /\ t \in writing /\ t \in writing' /\ entries = NULL
  BY <1>1, <1>2 DEF Placed, rwVars
<1>4. NothingAdded /\ TableInv'
  BY <1>2, <1>3 DEF NothingAdded, Nodes, TableInv
<1>5. StoreInv' /\ NodesGrow /\ arena' \in Seq(Records)
  BY <1>1, <1>2, <1>4, StoreKept
<1>6. Moves(t, "write_unlock") /\ Tells(t, "success", NULL)
  BY <1>1, <1>2, GotoFacts, NullIsValue, AnswerFacts DEF Places, Statuses
<1>7. Replies(t)
  <2>1. PlainAnswer(t)
    BY <1>3, <1>6 DEF PlainAnswer
  <2> QED BY <1>1, <1>5, <2>1, PlainAnswerReplies
<1>8. Placed(t)' /\ CallInv(t)'
  BY <1>2, <1>3, <1>6, <1>7 DEF Placed, CallInv, Replies, Moves, Tells
<1>9. Exclusion'
  BY <1>1, <1>2, <1>3 DEF ControlInv, Exclusion, rwVars
<1>10. state' \in BOOLEAN /\ (state => state') /\ size' \in Nat
  BY <1>1, <1>2 DEF TypeOK
<1> QED BY <1>2, <1>5, <1>6, <1>7, <1>8, <1>9, <1>10, WriterKeeps DEF Places, Replies

\* The writer leaves with the table sound.
LEMMA WriteUnlockKeeps == ASSUME IInv, NEW t \in Threads, WriteUnlock(t) PROVE IInv'
<1>1. TypeOK /\ ControlInv /\ StoreInv /\ CallInv(t) /\ Placed(t)
  BY DEF IInv, ControlInv
<1> DEFINE where == IF call[t].status = "none" THEN "sharded" ELSE "return"
<1>2. /\ pc[t] = "write_unlock" /\ UNCHANGED <<store, given>> /\ call' = call
      /\ writing' = writing \ {t} /\ t \in writing /\ reading' = reading /\ Goto(t, where)
  BY DEF WriteUnlock, ReleaseWrite
<1>3. NothingAdded /\ StoreInv' /\ NodesGrow /\ arena' \in Seq(Records)
  BY <1>1, <1>2, StoreSame
<1>4. Moves(t, where)
  BY <1>1, <1>2, GotoFacts DEF Places
<1>5. TypeOK'
  BY <1>1, <1>2, <1>3, <1>4 DEF TypeOK, Moves, store
<1>6. Caller(t) /\ Answered(t)
  BY <1>1, <1>2 DEF CallInv
<1>7. CallInv(t)'
  <2>1. Caller(t)'
    BY <1>2, <1>3, <1>6, CallerKept
  <2>2. Answered(t)'
    BY <1>1, <1>2, <1>3, <1>5, <1>6, AnsweredKept
  <2> QED BY <2>1, <2>2 DEF CallInv
<1>8. Placed(t)'
  <2>1. call[t].op = "sequential" => \A u \in Threads : u # t => pc'[u] = "idle"
    BY <1>1, <1>4 DEF Placed, Moves
  <2>2. pc'[t] = where /\ call'[t] = call[t] /\ state' = state
    BY <1>2, <1>4 DEF Moves, store
  <2>3. call[t].status = "none" => state /\ call[t].op = "reserve"
    BY <1>1, <1>2 DEF Placed
  <2> QED BY <2>1, <2>2, <2>3 DEF Placed
<1>9. Apart(t)
  BY <1>2, <1>4 DEF Apart, Moves, store
<1>10. Exclusion'
  BY <1>1, <1>2 DEF ControlInv, Exclusion, store
<1> QED BY <1>3, <1>5, <1>7, <1>8, <1>9, <1>10, StepKeeps

\* An operation on the shards, one step here.
LEMMA ShardedWorkKeeps == ASSUME IInv, NEW t \in Threads, ShardedWork(t) PROVE IInv'
<1>1. TypeOK /\ ControlInv /\ StoreInv /\ CallInv(t) /\ Placed(t) /\ Caller(t)
  BY DEF IInv, ControlInv, CallInv
<1>2. /\ pc[t] = "sharded" /\ UNCHANGED <<entries, size, state, given>> /\ UNCHANGED rwVars
      /\ Goto(t, "return")
  BY DEF ShardedWork
<1>3. /\ NothingAdded \/ \E r : NodeAdded(r)
      /\ Replies(t) /\ entries = NULL /\ entries' = NULL
  BY <1>1, <1>2, ShardedFacts
<1>4. TableInv' /\ sharded' = Nodes'
  BY <1>3 DEF TableInv, Nodes
<1>5. StoreInv' /\ NodesGrow /\ arena' \in Seq(Records)
  BY <1>1, <1>2, <1>3, <1>4, StoreKept
<1>6. Moves(t, "return")
  BY <1>1, <1>2, GotoFacts DEF Places
<1>7. TypeOK'
  BY <1>1, <1>2, <1>3, <1>5, <1>6 DEF TypeOK, Moves, Replies, rwVars
<1>8. Apart(t)
  <2>1. \A u \in Threads : pc[u] # "free"
    BY <1>1, <1>3 DEF ControlInv, Placed
  <2> QED BY <1>2, <1>3, <1>6, <2>1 DEF Apart, Moves, Replies, rwVars
<1>9. Exclusion'
  BY <1>1, <1>2, <1>3, <1>6, ExclusionSame
<1>10. Placed(t)' /\ CallInv(t)'
  <2>1. call[t].op = "sequential" => \A u \in Threads : u # t => pc'[u] = "idle"
    BY <1>1, <1>6 DEF Placed, Moves
  <2> QED BY <1>3, <1>6, <2>1 DEF Placed, CallInv, Replies, Moves
<1> QED BY <1>5, <1>7, <1>8, <1>9, <1>10, StepKeeps

\* A returned node is added to those given out for its key.
LEMMA ReturnKeeps == ASSUME IInv, NEW t \in Threads, Return(t) PROVE IInv'
<1>1. TypeOK /\ ControlInv /\ StoreInv /\ CallInv(t) /\ Placed(t) /\ Caller(t)
  BY DEF IInv, ControlInv, CallInv
<1> DEFINE c == call[t]
           gives == c.status = "success" /\ c.op \in NodeOps
<1>2. /\ pc[t] = "return" /\ UNCHANGED store /\ UNCHANGED rwVars /\ Goto(t, "idle")
      /\ call' = [call EXCEPT ![t] = Idle]
      /\ given' = IF gives THEN [given EXCEPT ![c.key] = @ \union {c.value}] ELSE given
  BY DEF Return, NodeOps
<1>3. Moves(t, "idle") /\ Takes(t, Idle)
  BY <1>1, <1>2, GotoFacts, TakesFacts, IdleFacts DEF Places
<1>4. gives => /\ c.key \in Keys /\ c.value \in Nodes /\ KeyAt(c.value) = c.key
               /\ c.value \in Seq(Nat)
  BY <1>1, <1>2, NodesFacts DEF CallInv, Answered, Caller
<1> HIDE DEF c
<1>5. \A k \in Keys : \A a \in given'[k] : a \in given[k] \/ (gives /\ k = c.key /\ a = c.value)
  BY <1>1, <1>2, <1>4 DEF TypeOK
<1>6. given' \in [Keys -> SUBSET Seq(Nat)]
  BY <1>1, <1>2, <1>4 DEF TypeOK
<1> HIDE DEF gives
<1>7. Nodes' = Nodes /\ arena' = arena
  BY <1>2 DEF Nodes, store
<1>8. StoreInv' /\ NodesGrow
  <2>1. \A k \in Keys : \A a \in given'[k] : a \in Nodes' /\ KeyAt(a)' = k
    BY <1>1, <1>4, <1>5, <1>7 DEF StoreInv, KeyAt, Node
  <2>2. \A a, b \in Nodes' : KeyAt(a)' = KeyAt(b)' => a = b
    BY <1>1, <1>7 DEF StoreInv, KeyAt, Node
  <2>3. TableInv' /\ sharded' \subseteq Addresses(arena')
    BY <1>1, <1>2 DEF StoreInv, TableInv, store
  <2> QED BY <1>7, <2>1, <2>2, <2>3 DEF StoreInv, TableInv, NodesGrow
<1>9. TypeOK'
  BY <1>1, <1>2, <1>3, <1>6 DEF TypeOK, Moves, Takes, store, rwVars
<1>10. Apart(t)
  BY <1>2, <1>3 DEF Apart, Moves, Takes, store, rwVars
<1>11. Exclusion'
  BY <1>1, <1>2, <1>3, ExclusionSame DEF store
<1>12. Placed(t)' /\ CallInv(t)'
  BY <1>3, IdleFacts DEF Placed, CallInv, Caller, Moves, Takes, NodeOps
<1> QED BY <1>8, <1>9, <1>10, <1>11, <1>12, StepKeeps

\* Every step preserves the invariant.
LEMMA SharedStep == IInv /\ [Next]_vars => IInv'
<1> SUFFICES ASSUME IInv, [Next]_vars PROVE IInv'
  OBVIOUS
<1>1. ASSUME NEW t \in Threads, Step(t) PROVE IInv'
  BY <1>1, StartFindKeeps, StartGetOrCreateKeeps, StartReserveKeeps, StartReportKeeps,
     StartPrepareKeeps, LoadKeeps, PrecheckKeeps, ReadLockKeeps, ReadWorkKeeps, WriteLockKeeps,
     GetOrCreateWorkKeeps, ReserveWorkKeeps, PrepareWorkKeeps, PrepareFreeKeeps,
     PreparePublishKeeps, WriteUnlockKeeps, ShardedWorkKeeps, ReturnKeeps DEF Step
<1>2. CASE UNCHANGED vars
  BY <1>2 DEF vars, store, rwVars, IInv, TypeOK, ControlInv, Exclusion, Placed, StoreInv,
     CallInv, Caller, Answered, Nodes, Stored, KeyAt, Node
<1> QED BY <1>1, <1>2 DEF Next

\* The preloaded keys are in a sound table.
LEMMA PreloadFacts ==
  ASSUME Init
  PROVE  TypeOK /\ entries # NULL /\ TableInv
<1> DEFINE n == Len(Preloaded)
           c == CapacityFor(n, MinCapacity)
           list == [i \in 0..(n - 1) |-> [node |-> <<i + 1>>, mark |-> Preloaded[i + 1]]]
<1>1. n \in Nat /\ \A i \in 1..n : Preloaded[i] \in Keys
  BY SharedStoreAssumption
<1>2. \A i, j \in 1..n : Preloaded[i] = Preloaded[j] => i = j
  BY SharedStoreAssumption
<1>3. PICK count \in ActionCounts : count = CHOOSE x \in ActionCounts : TRUE
  BY SharedStoreAssumption
<1>4. count \in Nat
  BY SharedStoreAssumption
<1>5. arena = [i \in 1..n |-> [key |-> Preloaded[i], actions |-> count]]
  <2>1. DOMAIN Preloaded = 1..n
    BY SharedStoreAssumption
  <2> QED BY <1>3, <2>1 DEF Init
<1>6. arena \in Seq(Records) /\ Len(arena) = n /\ \A i \in 1..n : arena[i].key = Preloaded[i]
  BY <1>1, <1>4, <1>5 DEF Records
<1>7. MinCapacity \in Nat /\ MinCapacity >= 4 /\ MaxCapacity <= HashValues
  <2>1. MinCapacity \in Nat
    BY StoreTableAssumption, CapacityFacts
  <2>2. HashValues \in Nat
    BY StoreTableAssumption, Pow2Facts DEF HashValues
  <2> QED BY <2>1, <2>2, StoreTableAssumption
<1> HIDE DEF n, c
<1>8. /\ \E d \in Nat : c = MinCapacity * Pow2(d)
      /\ c \in Nat /\ c >= MinCapacity /\ n <= LoadLimit(c)
  BY <1>1, <1>7, CapacityForFacts DEF c
<1>9. c \in PowersOfTwo /\ c >= 4
  <2>1. c <= HashValues
    <3>1. c <= MaxCapacity
      BY SharedStoreAssumption DEF c, n
    <3>2. HashValues \in Nat /\ MaxCapacity \in Nat
      <4>1. HashValues \in Nat
        BY StoreTableAssumption, Pow2Facts DEF HashValues
      <4> QED BY <1>7, <4>1, StoreTableAssumption
    <3> QED BY <1>7, <1>8, <3>1, <3>2
  <2>2. \A d \in Nat : MinCapacity * Pow2(d) <= HashValues => MinCapacity * Pow2(d) \in PowersOfTwo
    BY StoreTableAssumption, CapacityFacts
  <2> QED BY <1>7, <1>8, <2>1, <2>2
<1>10. LoadLimit(c) \in Nat /\ LoadLimit(c) < c
  BY <1>8, <1>9, LoadLimitFacts
<1>11. DOMAIN list = 0..(n - 1) /\ Occupied(list) = 0..(n - 1)
  BY <1>1 DEF Occupied, NULL
<1>12. Cardinality(Occupied(list)) = n
  <2>1. Cardinality(0..(n - 1)) = IF 0 > n - 1 THEN 0 ELSE (n - 1) - 0 + 1
    BY <1>1, FS_Interval
  <2> QED BY <1>1, <1>11, <2>1
<1>13. \A i \in 0..(n - 1) : /\ list[i].node = <<i + 1>> /\ list[i].mark = Preloaded[i + 1]
                             /\ list[i].node[1] = i + 1 /\ i + 1 \in 1..n
  BY <1>1
<1>14. NodesIn(list) \subseteq Addresses(arena)
  BY <1>6, <1>11, <1>13 DEF NodesIn, Addresses
<1>15. \A i \in Occupied(list) : list[i].mark = arena[list[i].node[1]].key
  BY <1>6, <1>11, <1>13
<1>16. Distinct(list, KeyMap(list, arena))
  <2>1. \A i \in Occupied(list) : KeyMap(list, arena)[list[i].node] = Preloaded[i + 1]
    BY <1>6, <1>11, <1>13 DEF KeyMap, NodesIn
  <2> HIDE DEF list
  <2> QED BY <1>1, <1>2, <1>11, <2>1 DEF Distinct
<1>17. entries = Rehash(list, c, KeyMap(list, arena), StoreStarts(c))
  BY DEF Init, KeysIn, KeyAt, Node, KeyMap, c, n
<1> HIDE DEF list
<1>18. /\ SoundTable(entries, arena) /\ Capacity(entries) = c
       /\ Cardinality(Occupied(entries)) = n
  BY <1>1, <1>6, <1>8, <1>9, <1>10, <1>11, <1>12, <1>14, <1>15, <1>16, <1>17, RehashSound
<1>19. entries # NULL
  BY <1>6, <1>18, EntryFacts
<1>20. TableInv
  BY <1>8, <1>18 DEF Init, TableInv, n
<1>21. TypeOK
  <2>1. Idle \in Calls /\ "idle" \in Places
    BY IdleFacts DEF Places
  <2> QED BY <1>1, <1>6, <2>1 DEF Init, TypeOK, RWInit, n
<1> QED BY <1>19, <1>20, <1>21

\* It holds of a store with the preloaded keys.
LEMMA SharedInit == Init => IInv
<1> SUFFICES ASSUME Init PROVE IInv
  OBVIOUS
<1>1. TypeOK /\ entries # NULL /\ TableInv
  BY PreloadFacts
<1>2. Nodes = NodesIn(entries) /\ SoundTable(entries, arena) /\ arena \in Seq(Records)
  BY <1>1 DEF Nodes, TableInv, TypeOK
<1>3. \A a, b \in Nodes : KeyAt(a) = KeyAt(b) => a = b
  BY <1>2, NodeFacts DEF KeyAt, Node
<1>4. StoreInv
  BY <1>1, <1>3 DEF StoreInv, TableInv, Init
<1>5. \A t \in Threads : pc[t] = "idle" /\ call[t] = Idle
  BY DEF Init
<1>6. Exclusion /\ \A t \in Threads : Placed(t)
  BY <1>1, <1>5, IdleFacts DEF Exclusion, Placed, Init, RWInit
<1>7. \A t \in Threads : CallInv(t)
  BY <1>5, IdleFacts DEF CallInv, Caller, NodeOps
<1> QED BY <1>1, <1>4, <1>6, <1>7 DEF IInv, ControlInv

\* It is an invariant of the specification.
LEMMA SharedInvariant == Spec => []IInv
<1> QED BY SharedInit, SharedStep, PTL DEF Spec

-----------------------------------------------------------------------------
(* What the invariant says of the store.                                   *)

\* The table under the lock is sound in every state: a power of two of slots, every node
\* found by the probe for its key, the exact size, and an empty slot left (locate,
\* get_or_create_locked, rebuild and prepare_concurrent of src/info_store.c).
THEOREM TableAlwaysSound == Spec => []TableSound
<1>1. IInv => TableSound
  <2> SUFFICES ASSUME IInv, entries # NULL
               PROVE  /\ ~state /\ Capacity(entries) \in PowersOfTwo
                      /\ \A i \in Occupied(entries) :
                           /\ LocateKey(entries, KeyAt(entries[i].node))
                                 = [result |-> "found", index |-> i]
                           /\ entries[i].mark = KeyAt(entries[i].node)
                      /\ Cardinality(Occupied(entries)) = size
                      /\ size <= LoadLimit(Capacity(entries))
    BY DEF TableSound
  <2>1. /\ ~state /\ SoundTable(entries, arena) /\ Cardinality(Occupied(entries)) = size
        /\ size <= LoadLimit(Capacity(entries)) /\ arena \in Seq(Records)
    BY DEF IInv, ControlInv, Exclusion, StoreInv, TypeOK
  <2>2. Capacity(entries) \in PowersOfTwo
    BY <2>1 DEF SoundTable
  <2>3. ASSUME NEW i \in Occupied(entries)
        PROVE  /\ LocateKey(entries, KeyAt(entries[i].node)) = [result |-> "found", index |-> i]
               /\ entries[i].mark = KeyAt(entries[i].node)
    <3> DEFINE key == KeyAt(entries[i].node)
    <3>1. /\ entries[i].node \in NodesIn(entries) /\ arena[entries[i].node[1]].key = key
          /\ entries[i].mark = key /\ key \in Keys
      BY <2>1, EntryFacts DEF KeyAt, Node
    <3>2. ~Absent(entries, arena, key)
      BY <3>1 DEF Absent
    <3> HIDE DEF key
    <3>3. PICK j \in Occupied(entries) :
            /\ LocateKey(entries, key) = [result |-> "found", index |-> j]
            /\ entries[j].node \in NodesIn(entries) /\ arena[entries[j].node[1]].key = key
      BY <2>1, <3>1, <3>2, LocateKeyFacts
    <3>4. KeyMap(entries, arena)[entries[i].node] = key /\ KeyMap(entries, arena)[entries[j].node] = key
      BY <3>1, <3>3 DEF KeyMap
    <3>5. i = j
      BY <2>1, <3>4 DEF SoundTable, Distinct
    <3> QED BY <3>1, <3>3, <3>5 DEF key
  <2> QED BY <2>1, <2>2, <2>3
<1> QED BY <1>1, SharedInvariant, PTL

\* Every answer is true of the nodes stored, before, while and after the store is sharded
\* (cfr_info_store_find, _get_or_create, _get_or_create_sequential, _snapshot_sorted,
\* _get_stats, _reserve and _prepare_concurrent).
THEOREM AnswersAlwaysTrue == Spec => []AnswersTrue
<1>1. IInv => AnswersTrue
  <2> SUFFICES ASSUME IInv, NEW t \in Threads, pc[t] = "return"
               PROVE  LET c == call[t] IN
                      /\ c.status # "corrupt"
                      /\ c.status = "not_found" => ~c.known
                      /\ c.status = "invalid" => c.op \notin {"find", "get_stats", "snapshot"}
                      /\ c.status = "success" /\ c.op \in {"find", "get_or_create", "sequential"} =>
                           /\ c.value \in Nodes /\ KeyAt(c.value) = c.key
                           /\ given[c.key] \subseteq {c.value}
                           /\ c.op # "find" => Node(c.value).actions = c.actions
                      /\ c.status = "success" /\ c.op = "snapshot" =>
                           c.before \subseteq c.value /\ c.value \subseteq Nodes
                      /\ c.op = "get_stats" =>
                           /\ Cardinality(c.before) <= c.value[1]
                           /\ c.value[1] <= Cardinality(Nodes)
    BY DEF AnswersTrue
  <2>1. StoreInv /\ Caller(t) /\ Answered(t)
    BY DEF IInv, CallInv
  <2>2. ASSUME call[t].status = "success", call[t].op \in NodeOps
        PROVE  given[call[t].key] \subseteq {call[t].value}
    <3>1. call[t].key \in Keys /\ call[t].value \in Nodes /\ KeyAt(call[t].value) = call[t].key
      BY <2>1, <2>2 DEF Caller, Answered
    <3>2. \A a \in given[call[t].key] : a \in Nodes /\ KeyAt(a) = call[t].key
      BY <2>1, <3>1 DEF StoreInv
    <3> QED BY <2>1, <3>1, <3>2 DEF StoreInv
  <2> QED BY <2>1, <2>2 DEF Answered, NodeOps
<1> QED BY <1>1, SharedInvariant, PTL

=============================================================================
