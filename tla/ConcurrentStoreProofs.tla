------------------------ MODULE ConcurrentStoreProofs ------------------------
(***************************************************************************)
(* Proofs about the sharded store: lock-free probes, insertions under a    *)
(* shard lock, growth and reservations that publish new tables, for any    *)
(* number of threads and shards, any keys, capacities and hash function of *)
(* the form StoreTable describes, with and without failures.               *)
(***************************************************************************)
EXTENDS ConcurrentStore, StoreTableProofs

-----------------------------------------------------------------------------
(* The inductive invariant.                                                *)

Records == [key : Keys, actions : Nat, ready : BOOLEAN]
ArenaIds == Shards \union {StoreArena}
Arenas == [ArenaIds -> Seq(Records)]
AllAddresses == ArenaIds \X (Nat \ {0})
Addresses(nodes) == {a \in AllAddresses : a[2] <= Len(nodes[a[1]])}

\* The node at an address, and the keys of the nodes of a table.
At(nodes, a) == nodes[a[1]][a[2]]
KeyMap(table, nodes) == [a \in NodesIn(table) |-> At(nodes, a).key]

\* A slot tagged for its key, with a node that is initialised and belongs to the shard.
Marked(slot, nodes, s) ==
  /\ slot.mark = ShardMark(At(nodes, slot.node).key)
  /\ ShardOf(At(nodes, slot.node).key) = s
  /\ At(nodes, slot.node).ready

\* A table of a shard whose entries are nodes of the arenas, each key once and found by
\* its probe.
SoundTable(table, nodes, s) ==
  /\ IsTable(table, Capacity(table))
  /\ Capacity(table) \in PowersOfTwo /\ Capacity(table) >= 4
  /\ NodesIn(table) \subseteq Addresses(nodes)
  /\ Distinct(table, KeyMap(table, nodes))
  /\ Reached(table, Capacity(table), KeyMap(table, nodes), ShardStarts(Capacity(table)))
  /\ \A i \in Occupied(table) : Marked(table[i], nodes, s)

Values == {NULL} \union AllAddresses \union (Nat \X Nat) \union (SUBSET AllAddresses)

NodeOps == {"find", "get_or_create"}
GlobalOps == {"get_stats", "reserve", "snapshot"}

Places ==
  {"idle", "probe", "lock", "locate", "initialize", "grow", "publish", "unlock", "lock_all",
   "get_stats", "reserve", "snapshot", "replace", "unlock_all", "return"}
Statuses == {"none", "success", "invalid", "not_found", "failed", "out_of_memory", "corrupt"}

Calls ==
  [op : AllOps \union {"none"}, key : Nat, actions : Nat, minimum : Nat, table : Nat,
   offset : Nat, mark : Nat, place : Nat, next : Nat, status : Statuses, value : Values,
   known : BOOLEAN, before : SUBSET AllAddresses]

\* A sequence that is not empty.
IsChain(chain) == chain \in Seq({chain[i] : i \in DOMAIN chain}) /\ chain # <<>>

TypeOK ==
  /\ tables \in [Shards -> {tables[s] : s \in Shards}]
  /\ sizes \in [Shards -> Nat] /\ growths \in [Shards -> Nat] /\ reserves \in Nat
  /\ arenas \in Arenas /\ writer \in [Shards -> Threads \union {Nobody}]
  /\ pc \in [Threads -> Places] /\ call \in [Threads -> Calls]
  /\ given \in [Keys -> SUBSET AllAddresses]

\* A shard: a sound active table with room, and retired tables without other nodes.
ShardInv(s) ==
  /\ IsChain(tables[s]) /\ SoundTable(Active(s), arenas, s)
  /\ \A i \in DOMAIN tables[s] :
       /\ IsTable(tables[s][i], Capacity(tables[s][i]))
       /\ Capacity(tables[s][i]) \in PowersOfTwo
       /\ NodesIn(tables[s][i]) \subseteq NodesIn(Active(s))
  /\ sizes[s] = Cardinality(Occupied(Active(s)))
  /\ sizes[s] <= LoadLimit(Capacity(Active(s)))

StoreInv ==
  /\ \A s \in Shards : ShardInv(s)
  /\ \A k \in Keys : \A a \in given[k] : a \in Published /\ KeyAt(a) = k

\* The slot a probe of a table for a key reads after a number of others.
ProbeSlot(table, key, offset) ==
  table[Slot(ShardStart(key, Capacity(table)), offset, Capacity(table))]

\* A probe of a table has not passed the slot that holds the key.
Seeks(table, nodes, key, offset) ==
  \E o \in 0..(Capacity(table) - 1) :
    LET slot == ProbeSlot(table, key, o)
    IN  /\ offset <= o
        /\ slot.node # NULL /\ slot.mark = ShardMark(key) /\ At(nodes, slot.node).key = key
        /\ \A p \in 0..(o - 1) : ProbeSlot(table, key, p).node # NULL

\* A thread probes a table of the chain, and meets a key that was stored before.
Seeking(t) ==
  LET c == call[t]
      chain == tables[ShardOf(c.key)]
  IN  /\ c.table \in DOMAIN chain
      /\ c.known => Seeks(chain[c.table], arenas, c.key, c.offset)

Absent(table, nodes, key) == \A a \in NodesIn(table) : At(nodes, a).key # key

\* An insertion owns the last node of the arena of its shard; the active table has no node
\* with its key.
Inserting(t) ==
  LET c == call[t]
      s == ShardOf(c.key)
  IN /\ c.value = <<s, Len(arenas[s])>> /\ c.mark = Len(arenas[s]) - 1 /\ Len(arenas[s]) >= 1
     /\ KeyAt(c.value) = c.key /\ Node(c.value).actions = c.actions
     /\ pc[t] # "initialize" => Node(c.value).ready
     /\ Absent(Active(s), arenas, c.key)
     /\ c.place = Locate(Active(s), ShardStart(c.key, Capacity(Active(s))), {}).index
     /\ pc[t] = "publish" => sizes[s] < LoadLimit(Capacity(Active(s)))

\* What a thread at each step of its call holds and knows.
Placed(t) ==
  LET c == call[t]
      s == ShardOf(c.key)
  IN /\ c.op \in NodeOps => c.key \in Keys
     /\ pc[t] = "probe" => c.op \in NodeOps /\ Seeking(t)
     /\ pc[t] \in {"lock", "locate", "initialize", "grow", "publish", "unlock"} =>
          c.op = "get_or_create"
     /\ pc[t] \in {"locate", "initialize", "grow", "publish", "unlock"} => writer[s] = t
     /\ pc[t] \in {"initialize", "grow", "publish"} => Inserting(t)
     /\ pc[t] \in GlobalOps => c.op = pc[t] /\ c.next = 0
     /\ pc[t] = "replace" => c.op = "reserve"
     /\ pc[t] \in {"lock_all", "unlock_all"} => c.op \in GlobalOps
     /\ pc[t] \in {"lock_all", "replace", "unlock_all"} => c.next \in Shards
     /\ pc[t] = "lock_all" => \A i \in Shards : i < c.next => writer[i] = t
     /\ pc[t] \in GlobalOps \union {"replace"} => \A i \in Shards : writer[i] = t
     /\ pc[t] = "unlock_all" => \A i \in Shards : i <= c.next => writer[i] = t
     /\ pc[t] = "replace" => \A i \in Shards : i >= c.next => ReserveTarget(t, i) <= MaxCapacity

\* What a call was told is true.
Answered(t) ==
  LET c == call[t] IN
  /\ c.status # "corrupt"
  /\ c.status = "not_found" => ~c.known
  /\ c.status = "invalid" =>
       \E a \in Published : KeyAt(a) = c.key /\ Node(a).actions # c.actions
  /\ c.status = "success" /\ c.op \in NodeOps =>
       /\ c.value \in Published /\ Node(c.value).ready /\ KeyAt(c.value) = c.key
       /\ c.op = "get_or_create" => Node(c.value).actions = c.actions
  /\ c.status = "success" /\ c.op = "snapshot" =>
       c.before \subseteq c.value /\ c.value \subseteq Published
  /\ c.op = "get_stats" =>
       /\ c.value[1] \in Nat /\ Cardinality(c.before) <= c.value[1]
       /\ c.value[1] <= Cardinality(Published)

ThreadInv(t) ==
  /\ Placed(t) /\ call[t].before \subseteq Published
  /\ pc[t] \in {"unlock", "unlock_all", "return"} => Answered(t)

IInv == TypeOK /\ StoreInv /\ \A t \in Threads : ThreadInv(t)

-----------------------------------------------------------------------------
(* Hashes, shards, chains and addresses.                                   *)

\* A key belongs to one of the shards, and its probes start at a natural number.
LEMMA ShardFacts ==
  /\ ShardCount \in Nat \ {0} /\ HashValues \in Nat \ {0}
  /\ 0 \in Shards /\ ShardCount - 1 \in Shards /\ Shards \subseteq Nat /\ StoreArena \notin Shards
  /\ \A k \in Keys : /\ ShardOf(k) \in Shards /\ ShardMark(k) \in Nat
                     /\ \A c \in PowersOfTwo : ShardStart(k, c) \in Nat
<1>1. \A n \in Nat : Pow2(n) \in Nat \ {0}
  BY Pow2Facts
<1>2. ShardBits \in Nat /\ HashBits - ShardBits \in Nat /\ HashBits \in Nat /\ TagBits \in Nat
  BY StoreTableAssumption
<1>3. /\ ShardCount \in Nat \ {0} /\ HashValues \in Nat \ {0} /\ ShardHashValues \in Nat \ {0}
      /\ TagValues \in Nat \ {0}
  BY <1>1, <1>2 DEF ShardCount, HashValues, ShardHashValues, TagValues
<1>4. HashValues = ShardCount * ShardHashValues
  <2>1. Pow2(ShardBits + (HashBits - ShardBits)) = Pow2(ShardBits) * Pow2(HashBits - ShardBits)
    BY <1>2, Pow2Adds
  <2>2. ShardBits + (HashBits - ShardBits) = HashBits
    BY <1>2
  <2> QED BY <2>1, <2>2 DEF ShardCount, HashValues, ShardHashValues
<1>5. /\ 0 \in Shards /\ ShardCount - 1 \in Shards /\ Shards \subseteq Nat
      /\ StoreArena \notin Shards
  BY <1>3 DEF Shards, StoreArena
<1>6. \A k \in Keys : disperse(k) \in 0..(HashValues - 1)
  <2> TAKE k \in Keys
  <2>1. k \in Nat /\ HashMultiplier \in Nat
    BY StoreTableAssumption
  <2>2. k * HashMultiplier \in Nat
    BY <2>1
  <2> QED BY <1>3, <2>2 DEF disperse
<1>7. \A h \in 0..(HashValues - 1) : /\ h \div ShardHashValues \in 0..(ShardCount - 1)
                                     /\ h % TagValues \in Nat
  <2> TAKE h \in 0..(HashValues - 1)
  <2> DEFINE q == h \div ShardHashValues
  <2>1. h \in Nat /\ h < ShardCount * ShardHashValues
    BY <1>3, <1>4
  <2>2. q \in Nat /\ q * ShardHashValues <= h
    BY <1>3, <2>1
  <2> HIDE DEF q
  <2>3. \A n, x, y \in Nat : n >= 1 /\ x * n < y * n => x < y
    OBVIOUS
  <2>4. q * ShardHashValues < ShardCount * ShardHashValues
    BY <1>3, <2>1, <2>2
  <2>5. q < ShardCount
    BY <1>3, <2>2, <2>3, <2>4
  <2>6. h % TagValues \in Nat
    BY <1>3, <2>1
  <2> QED BY <1>3, <2>2, <2>5, <2>6 DEF q
<1>8. \A k \in Keys : ShardOf(k) \in Shards /\ ShardMark(k) \in Nat
  BY <1>6, <1>7 DEF ShardOf, shard_index, ShardMark, tag, Shards
<1>9. ASSUME NEW k \in Keys, NEW c \in PowersOfTwo PROVE ShardStart(k, c) \in Nat
  <2>1. c \in Nat \ {0} /\ c <= HashValues
    BY CapacityFacts
  <2>2. HashValues \div c \in Nat \ {0}
    BY <1>3, <2>1
  <2>3. \A x \in Nat, y \in Nat \ {0} : x \div y \in Nat /\ x % y \in Nat
    OBVIOUS
  <2>4. disperse(k) \in Nat /\ disperse(k) * ShardCount \in Nat
    BY <1>3, <1>6
  <2>5. local_hash(disperse(k)) \in Nat
    BY <1>3, <2>3, <2>4 DEF local_hash
  <2> QED BY <2>2, <2>3, <2>5 DEF ShardStart, initial_index
<1> QED BY <1>3, <1>5, <1>8, <1>9

\* A sequence that is not empty, of anything, is a chain.
LEMMA SequenceIsChain ==
  ASSUME NEW S, NEW q \in Seq(S), Len(q) \in Nat \ {0}
  PROVE  IsChain(q) /\ DOMAIN q = 1..Len(q)
<1>1. q \in [1..Len(q) -> {q[i] : i \in DOMAIN q}] /\ DOMAIN q = 1..Len(q)
  OBVIOUS
<1>2. q # <<>>
  OBVIOUS
<1>3. \A T, n, r : n \in Nat /\ r \in [1..n -> T] => r \in Seq(T)
  OBVIOUS
<1>4. q \in Seq({q[i] : i \in DOMAIN q})
  BY <1>1, <1>3
<1> QED BY <1>1, <1>2, <1>4 DEF IsChain

\* A chain is a sequence of its tables and of others.
LEMMA ChainType ==
  ASSUME NEW chain, IsChain(chain), NEW x
  PROVE  LET S == {chain[i] : i \in DOMAIN chain} \union {x}
         IN  chain \in Seq(S) /\ chain # <<>> /\ x \in S
<1>1. \A T, U : T \subseteq U => Seq(T) \subseteq Seq(U)
  OBVIOUS
<1> QED BY <1>1 DEF IsChain

\* A chain, and the chain with one more table.
LEMMA ChainFacts ==
  ASSUME NEW chain, IsChain(chain), NEW x
  PROVE  /\ Len(chain) \in Nat \ {0} /\ DOMAIN chain = 1..Len(chain)
         /\ IsChain(Append(chain, x)) /\ Len(Append(chain, x)) = Len(chain) + 1
         /\ DOMAIN Append(chain, x) = 1..(Len(chain) + 1)
         /\ Append(chain, x)[Len(chain) + 1] = x
         /\ \A i \in 1..Len(chain) : Append(chain, x)[i] = chain[i]
<1> DEFINE S == {chain[i] : i \in DOMAIN chain} \union {x}
           longer == Append(chain, x)
<1>1. chain \in Seq(S) /\ chain # <<>> /\ x \in S
  BY ChainType
<1> HIDE DEF S
<1>2. Len(chain) \in Nat \ {0} /\ DOMAIN chain = 1..Len(chain)
  BY <1>1
<1>3. /\ longer \in Seq(S) /\ Len(longer) = Len(chain) + 1
      /\ longer[Len(chain) + 1] = x /\ \A i \in 1..Len(chain) : longer[i] = chain[i]
  BY <1>1
<1> HIDE DEF longer
<1>4. IsChain(longer) /\ DOMAIN longer = 1..(Len(chain) + 1)
  BY <1>2, <1>3, SequenceIsChain
<1> QED BY <1>2, <1>3, <1>4 DEF longer

\* The chain with one more table, by a name of its own.
Longer(chain, x) == Append(chain, x)

LEMMA LongerFacts ==
  ASSUME NEW chain, IsChain(chain), NEW x
  PROVE  /\ Len(chain) \in Nat \ {0} /\ DOMAIN chain = 1..Len(chain)
         /\ IsChain(Longer(chain, x)) /\ Len(Longer(chain, x)) = Len(chain) + 1
         /\ DOMAIN Longer(chain, x) = 1..(Len(chain) + 1) /\ Longer(chain, x)[Len(chain) + 1] = x
         /\ \A i \in 1..Len(chain) : Longer(chain, x)[i] = chain[i]
BY ChainFacts DEF Longer

\* The chain with another last table.
Replaced(chain, x) == [chain EXCEPT ![Len(chain)] = x]

LEMMA ReplacedFacts ==
  ASSUME NEW chain, IsChain(chain), NEW x
  PROVE  /\ IsChain(Replaced(chain, x)) /\ Len(Replaced(chain, x)) = Len(chain)
         /\ DOMAIN Replaced(chain, x) = 1..Len(chain) /\ Replaced(chain, x)[Len(chain)] = x
         /\ \A i \in 1..(Len(chain) - 1) : Replaced(chain, x)[i] = chain[i]
<1> DEFINE S == {chain[i] : i \in DOMAIN chain} \union {x}
           other == Replaced(chain, x)
<1>1. chain \in Seq(S) /\ chain # <<>> /\ x \in S
  BY ChainType
<1> HIDE DEF S
<1>2. Len(chain) \in Nat \ {0} /\ DOMAIN chain = 1..Len(chain)
  BY <1>1
<1>3. other \in Seq(S) /\ Len(other) = Len(chain) /\ other[Len(chain)] = x
      /\ \A i \in 1..(Len(chain) - 1) : other[i] = chain[i]
  BY <1>1, <1>2 DEF Replaced
<1> HIDE DEF other
<1>4. IsChain(other) /\ DOMAIN other = 1..Len(chain)
  BY <1>2, <1>3, SequenceIsChain
<1> QED BY <1>3, <1>4 DEF other

\* An address is a pair, and what it names a record.
LEMMA AddressFacts ==
  ASSUME NEW nodes \in Arenas, NEW a \in Addresses(nodes)
  PROVE  /\ a # NULL /\ a \in AllAddresses /\ a \in Values
         /\ a[1] \in ArenaIds /\ a[2] \in 1..Len(nodes[a[1]]) /\ a = <<a[1], a[2]>>
         /\ At(nodes, a) \in Records
<1>1. a \in AllAddresses /\ a[2] <= Len(nodes[a[1]])
  BY DEF Addresses
<1>2. a[1] \in ArenaIds /\ a[2] \in Nat \ {0} /\ a = <<a[1], a[2]>> /\ a # NULL
  <2>1. a[1] \in ArenaIds /\ a[2] \in Nat \ {0} /\ a = <<a[1], a[2]>>
    BY <1>1 DEF AllAddresses
  <2>2. <<a[1], a[2]>> # <<>>
    OBVIOUS
  <2> QED BY <2>1, <2>2 DEF NULL
<1>3. nodes[a[1]] \in Seq(Records)
  BY <1>2 DEF Arenas
<1>4. a[2] \in 1..Len(nodes[a[1]])
  BY <1>1, <1>2, <1>3
<1>5. At(nodes, a) \in Records
  BY <1>3, <1>4 DEF At
<1> QED BY <1>1, <1>2, <1>4, <1>5 DEF Values

-----------------------------------------------------------------------------
(* A sound table, whatever the state.                                      *)

\* The keys and the probes of the entries of a sound table.
LEMMA EntryFacts ==
  ASSUME NEW nodes \in Arenas, NEW s, NEW table, SoundTable(table, nodes, s)
  PROVE  /\ DOMAIN table = 0..(Capacity(table) - 1) /\ table # NULL
         /\ Capacity(table) \in Nat \ {0}
         /\ IsFiniteSet(Occupied(table)) /\ Cardinality(Occupied(table)) \in Nat
         /\ \A k \in Keys : /\ ShardStarts(Capacity(table))[k] = ShardStart(k, Capacity(table))
                            /\ ShardStarts(Capacity(table))[k] \in Nat
         /\ \A i \in Occupied(table) :
              /\ table[i].node \in NodesIn(table) /\ table[i].node \in Addresses(nodes)
              /\ KeyMap(table, nodes)[table[i].node] = At(nodes, table[i].node).key
              /\ table[i].mark = ShardMark(KeyMap(table, nodes)[table[i].node])
              /\ KeyMap(table, nodes)[table[i].node] \in Keys
              /\ ShardStarts(Capacity(table))[KeyMap(table, nodes)[table[i].node]] \in Nat
<1> DEFINE c == Capacity(table)
<1>1. IsTable(table, c) /\ c \in PowersOfTwo
  BY DEF SoundTable
<1>2. /\ c \in Nat \ {0} /\ DOMAIN table = 0..(c - 1) /\ table # NULL
      /\ IsFiniteSet(Occupied(table)) /\ Cardinality(Occupied(table)) \in Nat
  <2> HIDE DEF c
  <2> QED BY <1>1, TableFacts
<1>3. \A k \in Keys : ShardStarts(c)[k] = ShardStart(k, c) /\ ShardStarts(c)[k] \in Nat
  <2> HIDE DEF c
  <2> QED BY <1>1, ShardFacts DEF ShardStarts
<1>4. ASSUME NEW i \in Occupied(table)
      PROVE  /\ table[i].node \in NodesIn(table) /\ table[i].node \in Addresses(nodes)
             /\ KeyMap(table, nodes)[table[i].node] = At(nodes, table[i].node).key
             /\ table[i].mark = ShardMark(KeyMap(table, nodes)[table[i].node])
             /\ KeyMap(table, nodes)[table[i].node] \in Keys
  <2>1. table[i].node \in NodesIn(table)
    BY DEF NodesIn
  <2>2. /\ table[i].node \in Addresses(nodes)
        /\ table[i].mark = ShardMark(At(nodes, table[i].node).key)
    BY <2>1 DEF SoundTable, Marked
  <2>3. At(nodes, table[i].node).key \in Keys
    BY <2>2, AddressFacts DEF Records
  <2> QED BY <2>1, <2>2, <2>3 DEF KeyMap
<1> QED BY <1>2, <1>3, <1>4

\* A sound table holds as many nodes as entries, each key once, all of its shard.
LEMMA NodeFacts ==
  ASSUME NEW nodes \in Arenas, NEW s, NEW table, SoundTable(table, nodes, s)
  PROVE  /\ IsFiniteSet(NodesIn(table))
         /\ Cardinality(NodesIn(table)) = Cardinality(Occupied(table))
         /\ \A a, b \in NodesIn(table) : At(nodes, a).key = At(nodes, b).key => a = b
         /\ \A a \in NodesIn(table) : /\ a \in Addresses(nodes) /\ At(nodes, a).key \in Keys
                                      /\ ShardOf(At(nodes, a).key) = s /\ At(nodes, a).ready
<1> DEFINE f == [i \in Occupied(table) |-> table[i].node]
<1>1. IsFiniteSet(Occupied(table))
  BY EntryFacts
<1>2. \A i, j \in Occupied(table) :
        At(nodes, table[i].node).key = At(nodes, table[j].node).key => i = j
  <2>1. Distinct(table, KeyMap(table, nodes))
    BY DEF SoundTable
  <2>2. \A i \in Occupied(table) :
          KeyMap(table, nodes)[table[i].node] = At(nodes, table[i].node).key
    BY EntryFacts
  <2> QED BY <2>1, <2>2 DEF Distinct
<1>3. f \in Surjection(Occupied(table), NodesIn(table))
  BY DEF Surjection, NodesIn
<1>4. f \in Injection(Occupied(table), NodesIn(table))
  BY <1>2 DEF Injection, IsInjective, NodesIn
<1>5. f \in Bijection(Occupied(table), NodesIn(table))
  BY <1>3, <1>4 DEF Bijection
<1>6. ExistsBijection(Occupied(table), NodesIn(table))
  BY <1>5 DEF ExistsBijection
<1>7. \A a, b \in NodesIn(table) : At(nodes, a).key = At(nodes, b).key => a = b
  BY <1>2 DEF NodesIn
<1>8. \A a \in NodesIn(table) : /\ a \in Addresses(nodes) /\ At(nodes, a).key \in Keys
                                /\ ShardOf(At(nodes, a).key) = s /\ At(nodes, a).ready
  BY AddressFacts DEF NodesIn, SoundTable, Marked, Records
<1> QED BY <1>1, <1>6, <1>7, <1>8, FS_Bijection

\* The slot of a table that holds a key, given the arenas.
LocateIn(table, key, nodes) ==
  Locate(table, ShardStart(key, Capacity(table)),
         {i \in Occupied(table) : /\ table[i].mark = ShardMark(key)
                                  /\ At(nodes, table[i].node).key = key})

\* Where a key that is absent goes: an empty slot its probe reaches.
FreeSlot(table, key, i) ==
  /\ i \in 0..(Capacity(table) - 1) /\ table[i].node = NULL
  /\ PathTo(table, Capacity(table), ShardStart(key, Capacity(table)), i)
  /\ Locate(table, ShardStart(key, Capacity(table)), {}) = [result |-> "empty", index |-> i]

\* In a sound table a key is found where its node is, or it is absent; then its probe
\* ends at an empty slot when there is one.
LEMMA LocateKeyFacts ==
  ASSUME NEW nodes \in Arenas, NEW s, NEW table, SoundTable(table, nodes, s), NEW key \in Keys
  PROVE  \/ \E i \in Occupied(table) :
              /\ LocateIn(table, key, nodes) = [result |-> "found", index |-> i]
              /\ table[i].node \in NodesIn(table) /\ At(nodes, table[i].node).key = key
         \/ /\ Absent(table, nodes, key)
            /\ LocateIn(table, key, nodes) = Locate(table, ShardStart(key, Capacity(table)), {})
            /\ Cardinality(Occupied(table)) < Capacity(table) => \E i : FreeSlot(table, key, i)
<1> DEFINE c == Capacity(table)
           map == KeyMap(table, nodes)
           start == ShardStarts(c)
<1>1. /\ IsTable(table, c) /\ c \in Nat \ {0} /\ Distinct(table, map)
      /\ Reached(table, c, map, start)
  BY EntryFacts DEF SoundTable
<1>2. start[key] = ShardStart(key, c) /\ start[key] \in Nat
  BY EntryFacts
<1>3. {i \in Occupied(table) : table[i].mark = ShardMark(key) /\ At(nodes, table[i].node).key = key}
        = KeyHolders(table, map, key)
  BY EntryFacts DEF KeyHolders
<1>4. LocateIn(table, key, nodes) = Locate(table, start[key], KeyHolders(table, map, key))
  BY <1>2, <1>3 DEF LocateIn
<1>5. \A i \in Occupied(table) : /\ map[table[i].node] = At(nodes, table[i].node).key
                                 /\ table[i].node \in NodesIn(table)
  BY EntryFacts
<1> HIDE DEF c, map, start
<1>6. CASE KeyHolders(table, map, key) # {}
  <2>1. PICK i \in Occupied(table) : map[table[i].node] = key
    BY <1>6 DEF KeyHolders
  <2>2. PathTo(table, c, start[key], i)
    BY <1>1, <2>1 DEF Reached
  <2>3. i \in KeyHolders(table, map, key)
    BY <2>1 DEF KeyHolders
  <2>4. Locate(table, start[key], KeyHolders(table, map, key)) = [result |-> "found", index |-> i]
    BY <1>1, <1>2, <2>2, <2>3, LocateStored
  <2> QED BY <1>4, <1>5, <2>1, <2>4
<1>7. CASE KeyHolders(table, map, key) = {}
  <2>1. Absent(table, nodes, key)
    BY <1>5, <1>7 DEF Absent, KeyHolders, NodesIn
  <2>2. LocateIn(table, key, nodes) = Locate(table, ShardStart(key, c), {})
    BY <1>2, <1>4, <1>7
  <2>3. ASSUME Cardinality(Occupied(table)) < Capacity(table) PROVE \E i : FreeSlot(table, key, i)
    <3>1. PICK i \in 0..(c - 1) :
                /\ Locate(table, start[key], {}) = [result |-> "empty", index |-> i]
                /\ PathTo(table, c, start[key], i) /\ table[i].node = NULL
      BY <1>1, <1>2, <2>3, LocateAbsent DEF c
    <3>2. FreeSlot(table, key, i)
      BY <1>2, <3>1 DEF FreeSlot, c
    <3> QED BY <3>2
  <2> QED BY <2>1, <2>2, <2>3 DEF c
<1> QED BY <1>6, <1>7

\* A rehash of entries with different keys into a table that has room gives a sound table
\* of the same nodes.
LEMMA RehashSound ==
  ASSUME NEW nodes \in Arenas, NEW s, NEW list, NEW m \in Nat, DOMAIN list = 0..(m - 1),
         NodesIn(list) \subseteq Addresses(nodes), Distinct(list, KeyMap(list, nodes)),
         \A i \in Occupied(list) : Marked(list[i], nodes, s),
         NEW d \in PowersOfTwo, d >= 4, Cardinality(Occupied(list)) < d
  PROVE  LET new == Rehash(list, d, KeyMap(list, nodes), ShardStarts(d))
         IN  /\ SoundTable(new, nodes, s) /\ Capacity(new) = d /\ NodesIn(new) = NodesIn(list)
             /\ Cardinality(Occupied(new)) = Cardinality(Occupied(list))
<1> DEFINE map == KeyMap(list, nodes)
           start == ShardStarts(d)
           new == Rehash(list, d, map, start)
<1>1. d \in Nat \ {0}
  BY CapacityFacts
<1>2. \A j \in Occupied(list) : start[map[list[j].node]] \in Nat
  <2> TAKE j \in Occupied(list)
  <2>1. list[j].node \in NodesIn(list) /\ list[j].node \in Addresses(nodes)
    BY DEF NodesIn
  <2>2. map[list[j].node] \in Keys
    BY <2>1, AddressFacts DEF KeyMap, Records
  <2>3. ShardStart(map[list[j].node], d) \in Nat
    BY <2>2, ShardFacts
  <2> QED BY <2>2, <2>3 DEF ShardStarts
<1> HIDE DEF map, start
<1>3. Distinct(list, map)
  BY DEF map
<1>4. /\ IsTable(new, d) /\ Distinct(new, map) /\ Reached(new, d, map, start)
      /\ NodesIn(new) = NodesIn(list)
      /\ \A i \in Occupied(new) : \E j \in Occupied(list) : new[i] = list[j]
      /\ Cardinality(Occupied(new)) = Cardinality(Occupied(list))
  BY <1>1, <1>2, <1>3, RehashKeepsEntries
<1> HIDE DEF new
<1>5. Capacity(new) = d
  BY <1>4, TableFacts
<1>6. map = KeyMap(new, nodes)
  BY <1>4 DEF map, KeyMap
<1>7. \A i \in Occupied(new) : Marked(new[i], nodes, s)
  BY <1>4
<1>8. SoundTable(new, nodes, s)
  BY <1>4, <1>5, <1>6, <1>7 DEF SoundTable, start
<1> QED BY <1>4, <1>5, <1>8 DEF new, map, start

\* A sound table rehashed into a larger one.
LEMMA GrowSound ==
  ASSUME NEW nodes \in Arenas, NEW s, NEW table, SoundTable(table, nodes, s),
         NEW d \in PowersOfTwo, d >= Capacity(table),
         Cardinality(Occupied(table)) <= LoadLimit(Capacity(table))
  PROVE  LET new == Rehash(table, d, KeyMap(table, nodes), ShardStarts(d))
         IN  /\ SoundTable(new, nodes, s) /\ Capacity(new) = d /\ NodesIn(new) = NodesIn(table)
             /\ Cardinality(Occupied(new)) = Cardinality(Occupied(table))
<1> DEFINE c == Capacity(table)
<1>1. c \in Nat /\ c >= 4 /\ DOMAIN table = 0..(c - 1) /\ Cardinality(Occupied(table)) \in Nat
  BY EntryFacts DEF SoundTable
<1>2. LoadLimit(c) \in Nat /\ LoadLimit(c) < c
  <2> HIDE DEF c
  <2> QED BY <1>1, LoadLimitFacts
<1>3. d \in Nat
  BY CapacityFacts
<1>4. d >= 4 /\ Cardinality(Occupied(table)) < d
  BY <1>1, <1>2, <1>3
<1>5. /\ NodesIn(table) \subseteq Addresses(nodes) /\ Distinct(table, KeyMap(table, nodes))
      /\ \A i \in Occupied(table) : Marked(table[i], nodes, s)
  BY DEF SoundTable
<1> HIDE DEF c
<1> QED BY <1>1, <1>4, <1>5, RehashSound

\* A table stays sound when the arenas change elsewhere.
LEMMA SoundKept ==
  ASSUME NEW nodes, NEW other, NEW s, NEW table, SoundTable(table, nodes, s),
         \A a \in NodesIn(table) : a \in Addresses(other) /\ At(other, a) = At(nodes, a)
  PROVE  SoundTable(table, other, s)
<1>1. KeyMap(table, other) = KeyMap(table, nodes)
  BY DEF KeyMap
<1>2. \A i \in Occupied(table) : Marked(table[i], other, s)
  BY DEF SoundTable, Marked, NodesIn
<1> QED BY <1>1, <1>2 DEF SoundTable

\* An absent key inserted where its probe ends.
LEMMA InsertSound ==
  ASSUME NEW nodes \in Arenas, NEW s, NEW table, SoundTable(table, nodes, s),
         NEW a \in Addresses(nodes), NEW key \in Keys, At(nodes, a).key = key, At(nodes, a).ready,
         ShardOf(key) = s, Absent(table, nodes, key), NEW i, FreeSlot(table, key, i)
  PROVE  LET new == Entered(table, i, [node |-> a, mark |-> ShardMark(key)])
         IN  /\ SoundTable(new, nodes, s) /\ Capacity(new) = Capacity(table)
             /\ NodesIn(new) = NodesIn(table) \union {a}
             /\ Cardinality(Occupied(new)) = Cardinality(Occupied(table)) + 1
             /\ \A j \in Occupied(table) : new[j] = table[j]
<1> DEFINE slot == [node |-> a, mark |-> ShardMark(key)]
           new == Entered(table, i, slot)
           c == Capacity(table)
           old == KeyMap(table, nodes)
           map == KeyMap(new, nodes)
           start == ShardStarts(c)
<1>2. a # NULL /\ slot.node = a /\ slot.mark = ShardMark(key)
  BY AddressFacts
<1>3. IsTable(table, c) /\ c \in PowersOfTwo /\ c >= 4
  BY DEF SoundTable
<1>4. i \in 0..(c - 1) /\ table[i].node = NULL /\ PathTo(table, c, ShardStart(key, c), i)
  BY DEF FreeSlot
<1>5. start[key] = ShardStart(key, c) /\ start[key] \in Nat
  BY EntryFacts
<1>6. \A j \in Occupied(table) :
         /\ table[j].node \in NodesIn(table) /\ table[j].node \in Addresses(nodes)
         /\ old[table[j].node] = At(nodes, table[j].node).key
         /\ start[old[table[j].node]] \in Nat
  BY EntryFacts
<1>7. Distinct(table, old) /\ Reached(table, c, old, start)
  BY DEF SoundTable
<1> HIDE DEF c, old, start
<1>8. /\ IsTable(new, c) /\ new[i] = slot
      /\ \A j \in 0..(c - 1) : j # i => new[j] = table[j]
      /\ i \notin Occupied(table) /\ Occupied(new) = Occupied(table) \union {i}
      /\ NodesIn(new) = NodesIn(table) \union {slot.node}
      /\ Cardinality(Occupied(new)) = Cardinality(Occupied(table)) + 1
  <2>1. slot.node # NULL
    BY <1>2
  <2> HIDE DEF slot
  <2> QED BY <1>3, <1>4, <2>1, PutFacts
<1> HIDE DEF slot, new
<1>9. \A j \in Occupied(table) : map[table[j].node] = old[table[j].node]
  BY <1>6, <1>8 DEF KeyMap
<1>10. map[slot.node] = key
  BY <1>2, <1>8 DEF KeyMap
<1>11. KeyHolders(table, old, key) = {}
  BY <1>6 DEF KeyHolders, Absent
<1> HIDE DEF map
<1>12. Distinct(new, map) /\ Reached(new, c, map, start)
  <2>1. slot.node # NULL
    BY <1>2
  <2>2. PathTo(table, c, start[key], i)
    BY <1>4, <1>5
  <2>3. \A j \in Occupied(table) : start[old[table[j].node]] \in Nat
    BY <1>6
  <2> QED BY <1>3, <1>4, <1>5, <1>7, <1>9, <1>10, <1>11, <2>1, <2>2, <2>3, PutSound DEF new
<1>13. Capacity(new) = c
  BY <1>8, TableFacts
<1>14. NodesIn(new) \subseteq Addresses(nodes)
  BY <1>2, <1>8 DEF SoundTable
<1>15. \A j \in Occupied(table) : j \in 0..(c - 1) /\ j # i /\ new[j] = table[j]
  BY <1>3, <1>8, TableFacts DEF Occupied
<1>16. \A j \in Occupied(new) : Marked(new[j], nodes, s)
  <2> TAKE j \in Occupied(new)
  <2>1. CASE j = i
    BY <1>2, <1>8, <2>1 DEF Marked
  <2>2. CASE j # i
    BY <1>8, <1>15, <2>2 DEF SoundTable
  <2> QED BY <2>1, <2>2
<1>17. SoundTable(new, nodes, s)
  BY <1>3, <1>8, <1>12, <1>13, <1>14, <1>16 DEF SoundTable, map, start
<1> QED BY <1>2, <1>8, <1>13, <1>15, <1>17 DEF new, slot, c

-----------------------------------------------------------------------------
(* What a step leaves alone.                                               *)

\* The other threads stay where they are.
Others(t) ==
  /\ pc' \in [Threads -> Places] /\ call' \in [Threads -> Calls]
  /\ \A u \in Threads : u # t => pc'[u] = pc[u] /\ call'[u] = call[u]

\* Only the thread that holds a shard changes it, only the holder releases its lock.
ShardsKept(t) ==
  /\ \A s \in Shards : writer[s] # t =>
       tables'[s] = tables[s] /\ arenas'[s] = arenas[s] /\ sizes'[s] = sizes[s]
  /\ \A s \in Shards : writer[s] \notin {Nobody, t} => writer'[s] = writer[s]

\* Published nodes stay published and stay as they are.
NodesKept == Published \subseteq Published' /\ \A a \in Published : At(arenas', a) = At(arenas, a)

\* Tables stay, and so do their entries.
ChainKept(chain, longer) ==
  /\ Len(longer) >= Len(chain)
  /\ \A i \in DOMAIN chain :
       /\ i \in DOMAIN longer /\ DOMAIN longer[i] = DOMAIN chain[i]
       /\ \A j \in Occupied(chain[i]) : longer[i][j] = chain[i][j]

SlotsKept == \A s \in Shards : ChainKept(tables[s], tables'[s])

Frame(t) == Others(t) /\ ShardsKept(t) /\ NodesKept /\ SlotsKept

\* The node at an address, in the two notations.
LEMMA NodeIsAt == \A a : Node(a) = At(arenas, a) /\ KeyAt(a) = At(arenas, a).key
BY DEF KeyAt, Node, At

\* The published nodes: finitely many, initialised, one for a key, in the shard of the key.
LEMMA PublishedFacts ==
  ASSUME TypeOK, StoreInv
  PROVE  /\ IsFiniteSet(Published) /\ Published \subseteq AllAddresses /\ Published \in Values
         /\ \A a \in Published :
              /\ a \in Addresses(arenas) /\ a \in Values /\ KeyAt(a) \in Keys
              /\ Node(a).ready /\ Node(a).actions \in Nat
              /\ ShardOf(KeyAt(a)) \in Shards /\ a \in NodesIn(Active(ShardOf(KeyAt(a))))
         /\ \A a, b \in Published : KeyAt(a) = KeyAt(b) => a = b
<1>1. arenas \in Arenas /\ \A s \in Shards : SoundTable(Active(s), arenas, s)
  BY DEF TypeOK, StoreInv, ShardInv
<1>2. ASSUME NEW s \in Shards
      PROVE  /\ IsFiniteSet(NodesIn(Active(s)))
             /\ \A a, b \in NodesIn(Active(s)) : At(arenas, a).key = At(arenas, b).key => a = b
             /\ \A a \in NodesIn(Active(s)) :
                  /\ a \in Addresses(arenas) /\ At(arenas, a).key \in Keys
                  /\ ShardOf(At(arenas, a).key) = s /\ At(arenas, a).ready
  BY <1>1, NodeFacts
<1>3. IsFiniteSet(Published)
  <2> DEFINE f == [s \in Shards |-> NodesIn(Active(s))]
             P == {NodesIn(Active(s)) : s \in Shards}
  <2>1. IsFiniteSet(Shards)
    BY ShardFacts, FS_Interval DEF Shards
  <2>2. f \in Surjection(Shards, P)
    BY DEF Surjection
  <2> HIDE DEF f
  <2>3. IsFiniteSet(P)
    <3> HIDE DEF P
    <3> QED BY <2>1, <2>2, FS_Surjection
  <2>4. \A T \in P : IsFiniteSet(T)
    BY <1>2
  <2> HIDE DEF P
  <2>5. IsFiniteSet(UNION P)
    BY <2>3, <2>4, FS_UNION
  <2> QED BY <2>5 DEF Published, P
<1>4. \A a \in Published : \E s \in Shards : a \in NodesIn(Active(s))
  BY DEF Published
<1>5. \A a \in Published :
        /\ a \in Addresses(arenas) /\ At(arenas, a).key \in Keys
        /\ ShardOf(At(arenas, a).key) \in Shards /\ At(arenas, a).ready
        /\ a \in NodesIn(Active(ShardOf(At(arenas, a).key)))
  BY <1>2, <1>4
<1>6. \A a \in Published : a \in AllAddresses /\ a \in Values /\ At(arenas, a).actions \in Nat
  BY <1>1, <1>5, AddressFacts DEF Records
<1>7. \A a, b \in Published : At(arenas, a).key = At(arenas, b).key => a = b
  BY <1>2, <1>5
<1>8. Published \in Values
  BY <1>6 DEF Values
<1> QED BY <1>3, <1>5, <1>6, <1>7, <1>8, NodeIsAt

\* There are finitely many published nodes in the next state too.
LEMMA PublishedFiniteNext == (TypeOK /\ StoreInv)' => IsFiniteSet(Published')
<1>1. TypeOK /\ StoreInv => IsFiniteSet(Published)
  BY PublishedFacts
<1>2. (TypeOK /\ StoreInv => IsFiniteSet(Published))'
  BY <1>1, PTL
<1> QED BY <1>2

\* The nodes of the active table of a shard are published.
LEMMA ActiveIsPublished == \A s \in Shards : NodesIn(Active(s)) \subseteq Published
BY DEF Published

\* What a call was told stays true while nodes are only added.
LEMMA AnsweredKept ==
  ASSUME NodesKept, IsFiniteSet(Published), IsFiniteSet(Published'), NEW t, Answered(t),
         call'[t] = call[t]
  PROVE  Answered(t)'
<1> DEFINE c == call[t]
<1>1. /\ Cardinality(Published) \in Nat /\ Cardinality(Published') \in Nat
      /\ Cardinality(Published) <= Cardinality(Published')
  BY FS_Subset, FS_CardinalityType DEF NodesKept
<1>2. \A m \in Nat : m <= Cardinality(Published) => m <= Cardinality(Published')
  BY <1>1
<1>3. \A a \in Published : a \in Published' /\ Node(a)' = Node(a) /\ KeyAt(a)' = KeyAt(a)
  BY DEF NodesKept, KeyAt, Node, At
<1>4. c.status = "invalid" =>
        \E a \in Published' : KeyAt(a)' = c.key /\ (Node(a)').actions # c.actions
  BY <1>3 DEF Answered
<1>5. c.status = "success" /\ c.op \in NodeOps =>
       /\ c.value \in Published' /\ (Node(c.value)').ready /\ KeyAt(c.value)' = c.key
       /\ c.op = "get_or_create" => (Node(c.value)').actions = c.actions
  BY <1>3 DEF Answered
<1>6. c.status = "success" /\ c.op = "snapshot" =>
       c.before \subseteq c.value /\ c.value \subseteq Published'
  BY DEF NodesKept, Answered
<1>7. c.op = "get_stats" =>
       /\ c.value[1] \in Nat /\ Cardinality(c.before) <= c.value[1]
       /\ c.value[1] <= Cardinality(Published')
  BY <1>2 DEF Answered
<1>8. c.status # "corrupt" /\ (c.status = "not_found" => ~c.known)
  BY DEF Answered
<1> QED BY <1>4, <1>5, <1>6, <1>7, <1>8 DEF Answered, KeyAt, Node

\* The slots a probe counts on are still there in a table that only gains entries.
LEMMA SeeksKept ==
  ASSUME NEW table, IsTable(table, Capacity(table)), Capacity(table) \in PowersOfTwo, NEW later,
         DOMAIN later = DOMAIN table, \A j \in Occupied(table) : later[j] = table[j],
         NEW nodes, NEW other, \A a \in NodesIn(table) : At(other, a) = At(nodes, a),
         NEW key \in Keys, NEW offset, Seeks(table, nodes, key, offset)
  PROVE  Seeks(later, other, key, offset)
<1> DEFINE c == Capacity(table)
           start == ShardStart(key, c)
<1>1. Capacity(later) = c
  BY DEF Capacity
<1>2. c \in Nat \ {0} /\ DOMAIN table = 0..(c - 1) /\ start \in Nat
  BY TableFacts, ShardFacts
<1> HIDE DEF c, start
<1>3. \A o \in Nat : Slot(start, o, c) \in DOMAIN table
  BY <1>2, ProbeCovers
<1>4. \A o \in Nat : ProbeSlot(table, key, o) = table[Slot(start, o, c)]
  BY DEF ProbeSlot, c, start
<1>5. \A o \in Nat : ProbeSlot(later, key, o) = later[Slot(start, o, c)]
  BY <1>1 DEF ProbeSlot, start
<1>6. ASSUME NEW o \in Nat, ProbeSlot(table, key, o).node # NULL
      PROVE  /\ ProbeSlot(later, key, o) = ProbeSlot(table, key, o)
             /\ ProbeSlot(table, key, o).node \in NodesIn(table)
  BY <1>3, <1>4, <1>5, <1>6 DEF Occupied, NodesIn
<1>7. PICK o \in 0..(c - 1) :
        /\ offset <= o /\ ProbeSlot(table, key, o).node # NULL
        /\ ProbeSlot(table, key, o).mark = ShardMark(key)
        /\ At(nodes, ProbeSlot(table, key, o).node).key = key
        /\ \A p \in 0..(o - 1) : ProbeSlot(table, key, p).node # NULL
  BY DEF Seeks, c
<1>8. o \in Nat /\ \A p \in 0..(o - 1) : p \in Nat
  BY <1>2
<1>9. \A p \in 0..(o - 1) : ProbeSlot(later, key, p).node # NULL
  BY <1>6, <1>7, <1>8
<1>10. /\ ProbeSlot(later, key, o) = ProbeSlot(table, key, o)
       /\ At(other, ProbeSlot(table, key, o).node) = At(nodes, ProbeSlot(table, key, o).node)
  BY <1>6, <1>7, <1>8
<1> QED BY <1>1, <1>7, <1>9, <1>10 DEF Seeks

LEMMA SeekingKept ==
  ASSUME StoreInv, SlotsKept, NodesKept, NEW t, call[t].key \in Keys, Seeking(t),
         call'[t] = call[t]
  PROVE  Seeking(t)'
<1> DEFINE c == call[t]
<1>0. PICK s \in Shards : s = ShardOf(c.key)
  BY ShardFacts
<1>1. PICK i \in DOMAIN tables[s] : i = c.table
  BY <1>0 DEF Seeking
<1>2. PICK table : table = tables[s][i]
  OBVIOUS
<1>3. PICK later : later = tables'[s][i]
  OBVIOUS
<1>4. /\ i \in DOMAIN tables'[s] /\ DOMAIN later = DOMAIN table
      /\ \A j \in Occupied(table) : later[j] = table[j]
  BY <1>2, <1>3 DEF SlotsKept, ChainKept
<1>5. /\ IsTable(table, Capacity(table)) /\ Capacity(table) \in PowersOfTwo
      /\ NodesIn(table) \subseteq Published
  BY <1>2, ActiveIsPublished DEF StoreInv, ShardInv
<1>6. \A a \in NodesIn(table) : At(arenas', a) = At(arenas, a)
  BY <1>5 DEF NodesKept
<1>7. c.known => Seeks(table, arenas, c.key, c.offset)
  BY <1>0, <1>1, <1>2 DEF Seeking
<1>8. c.known => Seeks(later, arenas', c.key, c.offset)
  BY <1>4, <1>5, <1>6, <1>7, SeeksKept
<1>9. ShardOf(call'[t].key) = s /\ call'[t].table = i
  BY <1>0, <1>1
<1> QED BY <1>3, <1>4, <1>8, <1>9 DEF Seeking

\* An insertion keeps its node while its shard is left alone.
LEMMA InsertingKept ==
  ASSUME NodesKept, NEW t, call[t].key \in Keys, Inserting(t), call'[t] = call[t], pc'[t] = pc[t],
         tables'[ShardOf(call[t].key)] = tables[ShardOf(call[t].key)],
         arenas'[ShardOf(call[t].key)] = arenas[ShardOf(call[t].key)],
         sizes'[ShardOf(call[t].key)] = sizes[ShardOf(call[t].key)]
  PROVE  Inserting(t)'
<1> DEFINE c == call[t]
<1>1. PICK s \in Shards : s = ShardOf(c.key)
  BY ShardFacts
<1>2. /\ c.value = <<s, Len(arenas[s])>> /\ c.mark = Len(arenas[s]) - 1 /\ Len(arenas[s]) >= 1
      /\ At(arenas, c.value).key = c.key /\ At(arenas, c.value).actions = c.actions
      /\ pc[t] # "initialize" => At(arenas, c.value).ready
      /\ Absent(Active(s), arenas, c.key)
      /\ c.place = Locate(Active(s), ShardStart(c.key, Capacity(Active(s))), {}).index
      /\ pc[t] = "publish" => sizes[s] < LoadLimit(Capacity(Active(s)))
  BY <1>1, NodeIsAt DEF Inserting
<1>3. tables'[s] = tables[s] /\ arenas'[s] = arenas[s] /\ sizes'[s] = sizes[s]
  BY <1>1
<1>4. Active(s)' = Active(s)
  BY <1>3 DEF Active
<1>5. Absent(Active(s), arenas', c.key)
  BY <1>2, ActiveIsPublished DEF NodesKept, Absent
<1>6. c.value[1] = s
  BY <1>2
<1>7. At(arenas', c.value) = At(arenas, c.value)
  BY <1>3, <1>6 DEF At
<1>8. ShardOf(call'[t].key) = s
  BY <1>1
<1> QED BY <1>2, <1>3, <1>4, <1>5, <1>7, <1>8 DEF Inserting, KeyAt, Node, At

\* What the other threads hold and know stays so.
LEMMA OthersKept ==
  ASSUME IInv, StoreInv', TypeOK', NEW t \in Threads, Frame(t), NEW u \in Threads, u # t
  PROVE  ThreadInv(u)'
<1> DEFINE c == call[u]
<1>1. TypeOK /\ StoreInv /\ ThreadInv(u) /\ Placed(u)
  BY DEF IInv, ThreadInv
<1>2. call'[u] = call[u] /\ pc'[u] = pc[u] /\ NodesKept /\ SlotsKept
  BY DEF Frame, Others
<1>3. ASSUME NEW s \in Shards, writer[s] = u
      PROVE  /\ writer'[s] = u /\ tables'[s] = tables[s] /\ arenas'[s] = arenas[s]
             /\ sizes'[s] = sizes[s]
  <2>1. u # Nobody
    BY ConcurrentStoreAssumption
  <2> QED BY <1>3, <2>1 DEF Frame, ShardsKept
<1>4. IsFiniteSet(Published) /\ IsFiniteSet(Published')
  BY <1>1, PublishedFacts, PublishedFiniteNext
<1>5. pc[u] \in {"unlock", "unlock_all", "return"} => Answered(u)'
  BY <1>1, <1>2, <1>4, AnsweredKept DEF ThreadInv
<1>6. call'[u].before \subseteq Published'
  BY <1>1, <1>2 DEF ThreadInv, NodesKept
<1>7. pc[u] = "probe" => Seeking(u)'
  BY <1>1, <1>2, SeekingKept DEF Placed
<1>8. pc[u] \in {"locate", "initialize", "grow", "publish", "unlock"} =>
        c.key \in Keys /\ ShardOf(c.key) \in Shards /\ writer[ShardOf(c.key)] = u
  BY <1>1, ShardFacts DEF Placed, NodeOps
<1>9. pc[u] \in {"locate", "initialize", "grow", "publish", "unlock"} => writer'[ShardOf(c.key)] = u
  BY <1>3, <1>8
<1>10. pc[u] \in {"initialize", "grow", "publish"} => Inserting(u)'
  <2> HAVE pc[u] \in {"initialize", "grow", "publish"}
  <2>1. c.key \in Keys /\ ShardOf(c.key) \in Shards /\ writer[ShardOf(c.key)] = u
    BY <1>8
  <2>2. Inserting(u)
    BY <1>1 DEF Placed
  <2> QED BY <1>2, <1>3, <2>1, <2>2, InsertingKept
<1>11. pc[u] = "replace" => \A i \in Shards : i >= c.next => ReserveTarget(u, i)' <= MaxCapacity
  <2> HAVE pc[u] = "replace"
  <2> TAKE i \in Shards
  <2> HAVE i >= c.next
  <2>1. writer[i] = u /\ ReserveTarget(u, i) <= MaxCapacity
    BY <1>1 DEF Placed
  <2>2. tables'[i] = tables[i] /\ sizes'[i] = sizes[i]
    BY <1>3, <2>1
  <2>3. ReserveTarget(u, i)' = ReserveTarget(u, i)
    BY <1>2, <2>2 DEF ReserveTarget, Active
  <2> QED BY <2>1, <2>3
<1>12. pc[u] = "lock_all" => \A i \in Shards : i < c.next => writer'[i] = u
  BY <1>1, <1>3 DEF Placed
<1>13. pc[u] \in GlobalOps \union {"replace"} => \A i \in Shards : writer'[i] = u
  BY <1>1, <1>3 DEF Placed
<1>14. pc[u] = "unlock_all" => \A i \in Shards : i <= c.next => writer'[i] = u
  BY <1>1, <1>3 DEF Placed
<1>15. /\ c.op \in NodeOps => c.key \in Keys
       /\ pc[u] = "probe" => c.op \in NodeOps
       /\ pc[u] \in {"lock", "locate", "initialize", "grow", "publish", "unlock"} =>
            c.op = "get_or_create"
       /\ pc[u] \in GlobalOps => c.op = pc[u] /\ c.next = 0
       /\ pc[u] = "replace" => c.op = "reserve"
       /\ pc[u] \in {"lock_all", "unlock_all"} => c.op \in GlobalOps
       /\ pc[u] \in {"lock_all", "replace", "unlock_all"} => c.next \in Shards
  BY <1>1 DEF Placed
<1>16. Placed(u)'
  BY <1>2, <1>7, <1>9, <1>10, <1>11, <1>12, <1>13, <1>14, <1>15 DEF Placed
<1> QED BY <1>2, <1>5, <1>6, <1>16 DEF ThreadInv

\* A step that keeps the store and its own thread keeps the invariant.
LEMMA StepKeeps ==
  ASSUME IInv, NEW t \in Threads, TypeOK', StoreInv', Frame(t), ThreadInv(t)'
  PROVE  IInv'
<1>1. \A u \in Threads : ThreadInv(u)'
  BY OthersKept
<1> QED BY <1>1 DEF IInv

\* A step that changes neither nodes nor tables.
Quiet == UNCHANGED <<tables, sizes, arenas, growths, reserves, given>>

LEMMA SameStore ==
  ASSUME StoreInv, UNCHANGED <<tables, sizes, arenas>>
  PROVE  /\ \A s \in Shards : ShardInv(s)'
         /\ NodesKept /\ SlotsKept /\ Published' = Published
<1>1. tables' = tables /\ sizes' = sizes /\ arenas' = arenas
  OBVIOUS
<1>2. Published' = Published
  BY <1>1 DEF Published, Active
<1>3. \A s \in Shards : ShardInv(s)'
  BY <1>1 DEF StoreInv, ShardInv, Active
<1>4. SlotsKept
  <2>1. \A s \in Shards : Len(tables[s]) \in Nat
    BY ChainFacts DEF StoreInv, ShardInv
  <2> QED BY <1>1, <2>1 DEF SlotsKept, ChainKept
<1> QED BY <1>1, <1>2, <1>3, <1>4 DEF NodesKept

LEMMA QuietFacts ==
  ASSUME StoreInv, Quiet
  PROVE  StoreInv' /\ NodesKept /\ SlotsKept /\ Published' = Published
<1>1. /\ \A s \in Shards : ShardInv(s)'
      /\ NodesKept /\ SlotsKept /\ Published' = Published
  BY SameStore DEF Quiet
<1>2. StoreInv'
  BY <1>1 DEF StoreInv, Quiet, KeyAt, Node
<1> QED BY <1>1, <1>2

LEMMA QuietKeeps ==
  ASSUME IInv, NEW t \in Threads, Quiet, Others(t),
         writer' \in [Shards -> Threads \union {Nobody}],
         \A s \in Shards : writer[s] \notin {Nobody, t} => writer'[s] = writer[s],
         ThreadInv(t)'
  PROVE  IInv' /\ Frame(t)
<1>1. TypeOK /\ StoreInv
  BY DEF IInv
<1>2. StoreInv' /\ NodesKept /\ SlotsKept
  BY <1>1, QuietFacts
<1>3. Frame(t)
  BY <1>2 DEF Frame, ShardsKept, Quiet
<1>4. TypeOK'
  BY <1>1 DEF TypeOK, Others, Quiet
<1> QED BY <1>2, <1>3, <1>4, StepKeeps

-----------------------------------------------------------------------------
(* Steps that change neither nodes nor tables.                             *)

\* The thread that moves is the only one that moves.
LEMMA MovesFacts ==
  ASSUME TypeOK, NEW t \in Threads, NEW where \in Places, NEW request \in Calls,
         pc' = [pc EXCEPT ![t] = where], call' = [call EXCEPT ![t] = request]
  PROVE  Others(t) /\ pc'[t] = where /\ call'[t] = request
BY DEF TypeOK, Others

\* What stays is replaced by itself.
LEMMA StaysFacts ==
  ASSUME TypeOK, NEW t \in Threads
  PROVE  /\ pc = [pc EXCEPT ![t] = pc[t]] /\ call = [call EXCEPT ![t] = call[t]]
         /\ pc[t] \in Places /\ call[t] \in Calls
BY DEF TypeOK

\* NULL is a value.
LEMMA NullIsValue == NULL \in Values
BY DEF NULL, Values

\* A call that has not begun.
LEMMA IdleFacts ==
  /\ Idle \in Calls /\ Idle.op = "none" /\ Idle.status = "none" /\ Idle.known = FALSE
  /\ Idle.before = {} /\ Idle.offset = 0 /\ Idle.next = 0
<1>1. NULL \in Values /\ 0 \in Nat
  BY NullIsValue
<1>3. \A S : {} \in SUBSET S
  OBVIOUS
<1>4. "none" \in Statuses /\ FALSE \in BOOLEAN
  BY DEF Statuses
<1>2. "none" \in AllOps \union {"none"}
  OBVIOUS
<1> QED BY <1>1, <1>2, <1>3, <1>4, SMT DEF Idle, Calls

\* An answer changes a call's status and value.
LEMMA AnswerFacts ==
  ASSUME TypeOK, NEW t \in Threads, NEW status \in Statuses, NEW value \in Values,
         Answer(t, status, value)
  PROVE  \E r \in Calls :
           /\ call' = [call EXCEPT ![t] = r] /\ r.status = status /\ r.value = value
           /\ r.op = call[t].op /\ r.key = call[t].key /\ r.actions = call[t].actions
           /\ r.known = call[t].known /\ r.before = call[t].before /\ r.next = call[t].next
           /\ r.mark = call[t].mark /\ r.place = call[t].place /\ r.minimum = call[t].minimum
<1> DEFINE r == [call[t] EXCEPT !.status = status, !.value = value]
<1>1. call \in [Threads -> Calls] /\ call[t] \in Calls
  BY DEF TypeOK
<1>2. call' = [call EXCEPT ![t] = r]
  BY <1>1 DEF Answer
<1>3. /\ r \in Calls /\ r.status = status /\ r.value = value
      /\ r.op = call[t].op /\ r.key = call[t].key /\ r.actions = call[t].actions
      /\ r.known = call[t].known /\ r.before = call[t].before /\ r.next = call[t].next
      /\ r.mark = call[t].mark /\ r.place = call[t].place /\ r.minimum = call[t].minimum
  BY <1>1 DEF Calls
<1> HIDE DEF r
<1> QED BY <1>2, <1>3

\* A probe for a stored key starts before the slot that holds it.
LEMMA StoredSeeks ==
  ASSUME TypeOK, StoreInv, NEW k \in Keys, Stored(k)
  PROVE  Seeks(Active(ShardOf(k)), arenas, k, 0)
<1>1. PICK a \in Published : KeyAt(a) = k
  BY DEF Stored
<1>2. ShardOf(k) \in Shards /\ a \in NodesIn(Active(ShardOf(k)))
  BY <1>1, PublishedFacts
<1>3. PICK s \in Shards : s = ShardOf(k)
  BY <1>2
<1>4. PICK table : table = Active(s)
  OBVIOUS
<1>5. SoundTable(table, arenas, s) /\ arenas \in Arenas
  BY <1>4 DEF StoreInv, ShardInv, TypeOK
<1>6. PICK i \in Occupied(table) : table[i].node = a
  BY <1>2, <1>3, <1>4 DEF NodesIn
<1>7. At(arenas, a).key = k
  BY <1>1, NodeIsAt
<1>8. KeyMap(table, arenas)[a] = k /\ table[i].mark = ShardMark(k)
  BY <1>5, <1>6, <1>7, EntryFacts
<1>9. PathTo(table, Capacity(table), ShardStart(k, Capacity(table)), i)
  <2>1. ShardStarts(Capacity(table))[k] = ShardStart(k, Capacity(table))
    BY <1>5, EntryFacts
  <2> QED BY <1>5, <1>6, <1>8, <2>1 DEF SoundTable, Reached
<1>10. PICK o \in 0..(Capacity(table) - 1) :
         /\ Slot(ShardStart(k, Capacity(table)), o, Capacity(table)) = i
         /\ \A p \in 0..(o - 1) : table[Slot(ShardStart(k, Capacity(table)), p, Capacity(table))].node # NULL
  BY <1>9 DEF PathTo
<1>11. ProbeSlot(table, k, o) = table[i] /\ table[i].node # NULL
       /\ \A p \in 0..(o - 1) : ProbeSlot(table, k, p).node # NULL
  BY <1>6, <1>10 DEF ProbeSlot, Occupied
<1>12. 0 <= o
  OBVIOUS
<1>13. Seeks(table, arenas, k, 0)
  BY <1>6, <1>7, <1>8, <1>11, <1>12 DEF Seeks
<1> QED BY <1>3, <1>4, <1>13

\* A call begins.
LEMMA BeginKeeps ==
  ASSUME IInv, NEW t \in Threads, NEW r \in Calls, NEW where \in {"probe", "lock_all"},
         Begin(t, r, where), r.before \subseteq Published,
         where = "probe" =>
           /\ r.op \in NodeOps /\ r.key \in Keys
           /\ r.table \in DOMAIN tables[ShardOf(r.key)]
           /\ r.known => Seeks(tables[ShardOf(r.key)][r.table], arenas, r.key, r.offset),
         where = "lock_all" => r.op \in GlobalOps /\ r.next = 0
  PROVE  IInv' /\ Frame(t)
<1>1. TypeOK /\ StoreInv
  BY DEF IInv
<1>2. /\ pc' = [pc EXCEPT ![t] = where] /\ call' = [call EXCEPT ![t] = r]
      /\ Quiet /\ UNCHANGED writer
  BY DEF Begin, Goto, shared, Quiet
<1>3. Others(t) /\ pc'[t] = where /\ call'[t] = r
  <2>1. where \in Places
    BY DEF Places
  <2> QED BY <1>1, <1>2, <2>1, MovesFacts
<1>4. tables' = tables /\ arenas' = arenas /\ Published' = Published
  BY <1>1, <1>2, QuietFacts DEF Quiet
<1>5. where = "probe" => Seeking(t)'
  BY <1>3, <1>4 DEF Seeking
<1>6. where = "lock_all" => /\ r.op \notin NodeOps /\ r.next \in Shards
                            /\ \A i \in Shards : ~(i < r.next)
  <2> SUFFICES ASSUME where = "lock_all"
               PROVE  /\ r.op \notin NodeOps /\ r.next \in Shards
                      /\ \A i \in Shards : ~(i < r.next)
    OBVIOUS
  <2>1. r.op \in GlobalOps /\ r.next = 0
    OBVIOUS
  <2>2. r.op \notin NodeOps
    BY <2>1 DEF GlobalOps, NodeOps
  <2>3. 0 \in Shards /\ \A i \in Shards : ~(i < 0)
    BY ShardFacts
  <2> QED BY <2>1, <2>2, <2>3
<1>7. Placed(t)'
  BY <1>3, <1>5, <1>6 DEF Placed, GlobalOps
<1>8. ThreadInv(t)'
  BY <1>3, <1>4, <1>7 DEF ThreadInv
<1>9. writer' \in [Shards -> Threads \union {Nobody}] /\ \A s \in Shards : writer'[s] = writer[s]
  BY <1>1, <1>2 DEF TypeOK
<1> QED BY <1>2, <1>3, <1>8, <1>9, QuietKeeps

LEMMA StartFindKeeps ==
  ASSUME IInv, NEW t \in Threads, StartFind(t)
  PROVE  IInv' /\ Frame(t)
<1>1. PICK k \in Asked :
        Begin(t, [Idle EXCEPT !.op = "find", !.key = k, !.known = Stored(k),
                              !.table = Len(tables[ShardOf(k)])], "probe")
  BY DEF StartFind
<1> DEFINE r == [Idle EXCEPT !.op = "find", !.key = k, !.known = Stored(k),
                             !.table = Len(tables[ShardOf(k)])]
<1>2. k \in Keys /\ k \in Nat /\ ShardOf(k) \in Shards /\ Stored(k) \in BOOLEAN
  BY ConcurrentStoreAssumption, StoreTableAssumption, ShardFacts DEF Stored
<1>3. PICK s \in Shards : s = ShardOf(k)
  BY <1>2
<1>4. Len(tables[s]) \in Nat /\ Len(tables[s]) \in DOMAIN tables[s]
  <2>1. IsChain(tables[s])
    BY DEF IInv, StoreInv, ShardInv
  <2>2. Len(tables[s]) \in Nat \ {0} /\ DOMAIN tables[s] = 1..Len(tables[s])
    BY <2>1, ChainFacts
  <2> QED BY <2>2
<1>5. /\ r \in Calls /\ r.op = "find" /\ r.key = k /\ r.known = Stored(k) /\ r.before = {}
      /\ r.table = Len(tables[s]) /\ r.offset = 0
  BY <1>2, <1>3, <1>4, IdleFacts DEF Calls, AllOps
<1> HIDE DEF r
<1>6. r.known => Seeks(tables[s][Len(tables[s])], arenas, k, 0)
  BY <1>2, <1>3, <1>5, StoredSeeks DEF IInv, Active
<1>7. Begin(t, r, "probe")
  BY <1>1 DEF r
<1> QED BY <1>2, <1>3, <1>4, <1>5, <1>6, <1>7, BeginKeeps DEF NodeOps

LEMMA StartGetOrCreateKeeps ==
  ASSUME IInv, NEW t \in Threads, StartGetOrCreate(t)
  PROVE  IInv' /\ Frame(t)
<1>1. PICK k \in Asked, n \in ActionCounts :
        Begin(t, [Idle EXCEPT !.op = "get_or_create", !.key = k, !.actions = n,
                              !.table = Len(tables[ShardOf(k)])], "probe")
  BY DEF StartGetOrCreate
<1> DEFINE r == [Idle EXCEPT !.op = "get_or_create", !.key = k, !.actions = n,
                             !.table = Len(tables[ShardOf(k)])]
<1>2. k \in Keys /\ k \in Nat /\ ShardOf(k) \in Shards /\ n \in Nat
  BY ConcurrentStoreAssumption, StoreTableAssumption, ShardFacts
<1>3. PICK s \in Shards : s = ShardOf(k)
  BY <1>2
<1>4. Len(tables[s]) \in Nat /\ Len(tables[s]) \in DOMAIN tables[s]
  <2>1. IsChain(tables[s])
    BY DEF IInv, StoreInv, ShardInv
  <2>2. Len(tables[s]) \in Nat \ {0} /\ DOMAIN tables[s] = 1..Len(tables[s])
    BY <2>1, ChainFacts
  <2> QED BY <2>2
<1>5. /\ r \in Calls /\ r.op = "get_or_create" /\ r.key = k /\ r.known = FALSE /\ r.before = {}
      /\ r.table = Len(tables[s]) /\ r.offset = 0
  BY <1>2, <1>3, <1>4, IdleFacts DEF Calls, AllOps
<1> HIDE DEF r
<1>7. Begin(t, r, "probe")
  BY <1>1 DEF r
<1> QED BY <1>2, <1>3, <1>4, <1>5, <1>7, BeginKeeps DEF NodeOps

LEMMA StartGlobalKeeps ==
  ASSUME IInv, NEW t \in Threads, StartGlobal(t)
  PROVE  IInv' /\ Frame(t)
<1>1. PICK op \in Ops \ {"find", "get_or_create"}, m \in Reservations \union {0} :
        Begin(t, [Idle EXCEPT !.op = op, !.minimum = m, !.before = Published], "lock_all")
  BY DEF StartGlobal
<1> DEFINE r == [Idle EXCEPT !.op = op, !.minimum = m, !.before = Published]
<1>2. op \in GlobalOps /\ op \in AllOps /\ m \in Nat /\ Published \in SUBSET AllAddresses
  BY ConcurrentStoreAssumption, PublishedFacts DEF GlobalOps, AllOps, IInv
<1>3. r \in Calls /\ r.op = op /\ r.next = 0 /\ r.before = Published
  BY <1>2, IdleFacts DEF Calls
<1> HIDE DEF r
<1>4. Begin(t, r, "lock_all")
  BY <1>1 DEF r
<1> QED BY <1>2, <1>3, <1>4, BeginKeeps

\* What a slot read on the way to a stored key shows.
LEMMA SeeksOn ==
  ASSUME NEW table, NEW nodes, NEW key, NEW offset \in Nat, Capacity(table) \in Nat,
         Seeks(table, nodes, key, offset)
  PROVE  LET slot == ProbeSlot(table, key, offset)
         IN  /\ slot.node # NULL
             /\ \/ slot.mark = ShardMark(key) /\ At(nodes, slot.node).key = key
                \/ offset + 1 < Capacity(table) /\ Seeks(table, nodes, key, offset + 1)
<1> DEFINE Holds(o) == /\ ProbeSlot(table, key, o).mark = ShardMark(key)
                       /\ At(nodes, ProbeSlot(table, key, o).node).key = key
<1>1. PICK o \in 0..(Capacity(table) - 1) :
        /\ offset <= o /\ ProbeSlot(table, key, o).node # NULL /\ Holds(o)
        /\ \A p \in 0..(o - 1) : ProbeSlot(table, key, p).node # NULL
  BY DEF Seeks
<1>2. CASE o = offset
  BY <1>1, <1>2
<1>3. CASE o # offset
  <2>1. offset \in 0..(o - 1) /\ offset + 1 < Capacity(table) /\ offset + 1 <= o
    BY <1>1, <1>3
  <2>2. Seeks(table, nodes, key, offset + 1)
    BY <1>1, <2>1 DEF Seeks
  <2> QED BY <1>1, <2>1, <2>2
<1> QED BY <1>2, <1>3

\* A thread leaves the probe, with an answer or for the lock.
LEMMA ProbeLeaves ==
  ASSUME IInv, NEW t \in Threads, pc[t] = "probe", Quiet, UNCHANGED writer,
         NEW where \in {"lock", "return"}, NEW r \in Calls, Goto(t, where),
         call' = [call EXCEPT ![t] = r], r.op = call[t].op, r.key = call[t].key, r.before = call[t].before,
         where = "lock" => r.op = "get_or_create",
         where = "return" => Answered(t)'
  PROVE  IInv' /\ Frame(t)
<1>1. TypeOK /\ StoreInv /\ ThreadInv(t)
  BY DEF IInv
<1>2. Others(t) /\ pc'[t] = where /\ call'[t] = r
  <2>1. where \in Places /\ pc' = [pc EXCEPT ![t] = where]
    BY DEF Places, Goto
  <2> QED BY <1>1, <2>1, MovesFacts
<1>3. r.op \in NodeOps => r.key \in Keys
  BY <1>1 DEF ThreadInv, Placed
<1>4. Placed(t)'
  BY <1>2, <1>3 DEF Placed, GlobalOps
<1>5. Published' = Published /\ r.before \subseteq Published
  BY <1>1, QuietFacts DEF ThreadInv
<1>6. ThreadInv(t)'
  BY <1>2, <1>4, <1>5 DEF ThreadInv
<1>7. writer' \in [Shards -> Threads \union {Nobody}] /\ \A s \in Shards : writer'[s] = writer[s]
  BY <1>1 DEF TypeOK
<1> QED BY <1>2, <1>6, <1>7, QuietKeeps

LEMMA ProbeKeeps ==
  ASSUME IInv, NEW t \in Threads, Probe(t)
  PROVE  IInv' /\ Frame(t)
<1> DEFINE c == call[t]
           Miss == IF c.op = "find"
                   THEN Answer(t, "not_found", NULL) /\ Goto(t, "return")
                   ELSE Goto(t, "lock") /\ UNCHANGED call
<1>1. TypeOK /\ StoreInv /\ ThreadInv(t) /\ Placed(t)
  BY DEF IInv, ThreadInv
<1>2. pc[t] = "probe" /\ Quiet /\ UNCHANGED writer
  BY Zenon DEF Probe, shared, Quiet
<1>3. c.op \in NodeOps /\ c.key \in Keys /\ Seeking(t) /\ c \in Calls
  BY <1>1, <1>2 DEF Placed, TypeOK
<1>4. PICK s \in Shards : s = ShardOf(c.key)
  BY <1>3, ShardFacts
<1>5. PICK i \in DOMAIN tables[s] : i = c.table
  BY <1>3, <1>4 DEF Seeking
<1>6. PICK table : table = tables[s][i]
  OBVIOUS
<1>7. /\ IsTable(table, Capacity(table)) /\ Capacity(table) \in PowersOfTwo
      /\ NodesIn(table) \subseteq Published
  BY <1>1, <1>6, ActiveIsPublished DEF StoreInv, ShardInv
<1>8. c.known => Seeks(table, arenas, c.key, c.offset)
  BY <1>3, <1>4, <1>5, <1>6 DEF Seeking
<1>9. c.offset \in Nat /\ Capacity(table) \in Nat
  BY <1>3, <1>7, TableFacts DEF Calls
<1>10. PICK slot : slot = ProbeSlot(table, c.key, c.offset)
  OBVIOUS
<1>11. \/ slot.node = NULL /\ Miss
       \/ /\ slot.node # NULL /\ HoldsKey(slot, c.key)
          /\ IF c.op = "get_or_create" /\ Node(slot.node).actions # c.actions
             THEN Answer(t, "invalid", NULL) ELSE Answer(t, "success", slot.node)
          /\ Goto(t, "return")
       \/ /\ slot.node # NULL /\ ~HoldsKey(slot, c.key)
          /\ IF c.offset + 1 < Capacity(table) THEN ProbeNextSlot(t) /\ UNCHANGED pc ELSE Miss
  BY <1>4, <1>5, <1>6, <1>10, Zenon DEF Probe, ProbeSlot, Slot
<1>12. c.known => /\ slot.node # NULL
                  /\ \/ HoldsKey(slot, c.key)
                     \/ /\ c.offset + 1 < Capacity(table)
                        /\ Seeks(table, arenas, c.key, c.offset + 1)
  BY <1>8, <1>9, <1>10, SeeksOn, NodeIsAt DEF HoldsKey
<1>13. Published' = Published /\ arenas' = arenas /\ tables' = tables
  BY <1>1, <1>2, QuietFacts DEF Quiet
<1>14. ASSUME Miss, ~c.known PROVE IInv' /\ Frame(t)
  <2>1. CASE c.op = "find"
    <3>1. PICK r \in Calls :
            /\ call' = [call EXCEPT ![t] = r] /\ r.status = "not_found" /\ r.op = c.op
            /\ r.key = c.key /\ r.known = c.known /\ r.before = c.before
      BY <1>1, <1>14, <2>1, NullIsValue, AnswerFacts DEF Statuses
    <3>2. call'[t] = r
      BY <1>1, <3>1 DEF TypeOK
    <3>3. Answered(t)'
      BY <1>14, <2>1, <3>1, <3>2 DEF Answered, NodeOps
    <3> QED BY <1>2, <1>14, <2>1, <3>1, <3>3, ProbeLeaves
  <2>2. CASE c.op # "find"
    <3>1. Goto(t, "lock") /\ call' = [call EXCEPT ![t] = c] /\ c.op = "get_or_create"
      BY <1>1, <1>3, <1>14, <2>2, StaysFacts DEF NodeOps
    <3> HIDE DEF Miss, c
    <3>2. c.op = call[t].op /\ c.key = call[t].key /\ c.before = call[t].before
      BY DEF c
    <3> QED BY <1>2, <1>3, <3>1, <3>2, ProbeLeaves
  <2> QED BY <2>1, <2>2
<1>15. CASE slot.node = NULL /\ Miss
  BY <1>12, <1>14, <1>15
<1>16. CASE /\ slot.node # NULL /\ HoldsKey(slot, c.key)
            /\ IF c.op = "get_or_create" /\ Node(slot.node).actions # c.actions
               THEN Answer(t, "invalid", NULL) ELSE Answer(t, "success", slot.node)
            /\ Goto(t, "return")
  <2>1. slot.node \in NodesIn(table)
    <3>1. ShardStart(c.key, Capacity(table)) \in Nat /\ DOMAIN table = 0..(Capacity(table) - 1)
          /\ Capacity(table) \in Nat \ {0}
      BY <1>3, <1>7, ShardFacts, TableFacts
    <3>2. Slot(ShardStart(c.key, Capacity(table)), c.offset, Capacity(table)) \in DOMAIN table
      BY <1>9, <3>1, ProbeCovers
    <3> QED BY <1>10, <1>16, <3>2 DEF ProbeSlot, NodesIn, Occupied
  <2>2. PICK a \in Published : a = slot.node
    BY <1>7, <2>1
  <2>3. KeyAt(a) = c.key /\ Node(a).ready /\ a \in Values
    BY <1>1, <1>16, <2>2, PublishedFacts DEF HoldsKey
  <2>4. KeyAt(a)' = KeyAt(a) /\ Node(a)' = Node(a)
    BY <1>13 DEF KeyAt, Node
  <2>5. CASE c.op = "get_or_create" /\ Node(a).actions # c.actions
    <3>1. Answer(t, "invalid", NULL) /\ Goto(t, "return")
      BY <1>16, <2>2, <2>5
    <3>2. PICK r \in Calls :
            /\ call' = [call EXCEPT ![t] = r] /\ r.status = "invalid" /\ r.op = c.op
            /\ r.key = c.key /\ r.actions = c.actions /\ r.before = c.before
      BY <1>1, <3>1, NullIsValue, AnswerFacts DEF Statuses
    <3>3. call'[t] = r
      BY <1>1, <3>2 DEF TypeOK
    <3>4. \E b \in Published' : KeyAt(b)' = r.key /\ (Node(b)').actions # r.actions
      BY <1>13, <2>3, <2>4, <2>5, <3>2
    <3>5. Answered(t)'
      BY <1>3, <3>2, <3>3, <3>4 DEF Answered, NodeOps, KeyAt, Node
    <3> QED BY <1>2, <3>1, <3>2, <3>5, ProbeLeaves
  <2>6. CASE ~(c.op = "get_or_create" /\ Node(a).actions # c.actions)
    <3>1. Answer(t, "success", a) /\ Goto(t, "return")
      BY <1>16, <2>2, <2>6
    <3>2. PICK r \in Calls :
            /\ call' = [call EXCEPT ![t] = r] /\ r.status = "success" /\ r.value = a /\ r.op = c.op
            /\ r.key = c.key /\ r.actions = c.actions /\ r.before = c.before
      BY <1>1, <2>3, <3>1, AnswerFacts DEF Statuses
    <3>3. call'[t] = r
      BY <1>1, <3>2 DEF TypeOK
    <3>4. /\ a \in Published' /\ (Node(a)').ready /\ KeyAt(a)' = r.key
          /\ r.op = "get_or_create" => (Node(a)').actions = r.actions
      BY <1>13, <2>3, <2>4, <2>6, <3>2
    <3>5. r.op # "snapshot" /\ r.op # "get_stats"
      BY <1>3, <3>2 DEF NodeOps
    <3>6. Answered(t)'
      BY <3>2, <3>3, <3>4, <3>5 DEF Answered, KeyAt, Node
    <3> QED BY <1>2, <3>1, <3>2, <3>6, ProbeLeaves
  <2> QED BY <2>5, <2>6
<1>17. CASE /\ slot.node # NULL /\ ~HoldsKey(slot, c.key)
            /\ IF c.offset + 1 < Capacity(table) THEN ProbeNextSlot(t) /\ UNCHANGED pc ELSE Miss
  <2>1. CASE ~(c.offset + 1 < Capacity(table))
    BY <1>12, <1>14, <1>17, <2>1
  <2>2. CASE c.offset + 1 < Capacity(table)
    <3> DEFINE r == [c EXCEPT !.offset = @ + 1]
    <3>1. ProbeNextSlot(t) /\ pc' = pc
      BY <1>17, <2>2
    <3>2. call' = [call EXCEPT ![t] = r]
      BY <1>1, <3>1 DEF ProbeNextSlot, TypeOK
    <3>3. /\ r \in Calls /\ r.op = c.op /\ r.key = c.key /\ r.known = c.known
          /\ r.before = c.before /\ r.table = c.table /\ r.offset = c.offset + 1
      BY <1>3 DEF Calls
    <3> HIDE DEF r
    <3>4. Others(t) /\ pc'[t] = "probe" /\ call'[t] = r
      <4>1. pc' = [pc EXCEPT ![t] = "probe"] /\ "probe" \in Places
        BY <1>1, <1>2, <3>1, StaysFacts DEF Places
      <4> QED BY <1>1, <3>2, <3>3, <4>1, MovesFacts
    <3>5. Seeking(t)'
      <4>1. r.known => Seeks(table, arenas', r.key, r.offset)
        BY <1>12, <1>13, <1>17, <3>3
      <4>2. r.table = i /\ ShardOf(r.key) = s /\ tables'[s][i] = table
        BY <1>4, <1>5, <1>6, <1>13, <3>3
      <4> QED BY <1>5, <1>13, <3>4, <4>1, <4>2 DEF Seeking
    <3>6. Placed(t)'
      BY <1>3, <3>3, <3>4, <3>5 DEF Placed, GlobalOps
    <3>7. ThreadInv(t)'
      BY <1>1, <1>13, <3>3, <3>4, <3>6 DEF ThreadInv
    <3>8. writer' \in [Shards -> Threads \union {Nobody}] /\ \A n \in Shards : writer'[n] = writer[n]
      BY <1>1, <1>2 DEF TypeOK
    <3> QED BY <1>2, <3>4, <3>7, <3>8, QuietKeeps
  <2> QED BY <2>1, <2>2
<1> QED BY <1>11, <1>15, <1>16, <1>17

-----------------------------------------------------------------------------
(* Locks, totals, and the operations on every shard.                       *)

\* The lock of the key's shard.
LEMMA LockShardKeeps ==
  ASSUME IInv, NEW t \in Threads, LockShard(t)
  PROVE  IInv' /\ Frame(t)
<1>1. TypeOK /\ StoreInv /\ ThreadInv(t) /\ Placed(t)
  BY DEF IInv, ThreadInv
<1>2. /\ pc[t] = "lock" /\ Quiet /\ UNCHANGED call
      /\ pc' = [pc EXCEPT ![t] = "locate"]
  BY DEF LockShard, Goto, Quiet
<1>3. call[t].op = "get_or_create" /\ call[t].key \in Keys /\ call[t].before \subseteq Published
  BY <1>1, <1>2 DEF Placed, ThreadInv, NodeOps
<1>4. PICK s \in Shards : s = ShardOf(call[t].key)
  BY <1>3, ShardFacts
<1>5. writer[s] = Nobody /\ writer' = [writer EXCEPT ![s] = t]
  BY <1>4 DEF LockShard
<1>6. Others(t) /\ pc'[t] = "locate" /\ call'[t] = call[t]
  <2>1. "locate" \in Places
    BY DEF Places
  <2> QED BY <1>1, <1>2, <2>1, StaysFacts, MovesFacts
<1>7. /\ writer' \in [Shards -> Threads \union {Nobody}] /\ writer'[s] = t
      /\ \A i \in Shards : writer[i] \notin {Nobody, t} => writer'[i] = writer[i]
  BY <1>1, <1>5 DEF TypeOK
<1>8. Placed(t)'
  BY <1>3, <1>4, <1>6, <1>7 DEF Placed, GlobalOps
<1>9. ThreadInv(t)'
  BY <1>1, <1>2, <1>3, <1>6, <1>8, QuietFacts DEF ThreadInv
<1> QED BY <1>2, <1>6, <1>7, <1>9, QuietKeeps

\* What a call was told stays true when nothing changes.
LEMMA QuietAnswered ==
  ASSUME StoreInv, Quiet, NEW t, Answered(t), NEW r, call'[t] = r, r.status = call[t].status,
         r.value = call[t].value, r.op = call[t].op, r.key = call[t].key,
         r.actions = call[t].actions, r.known = call[t].known, r.before = call[t].before
  PROVE  Answered(t)'
<1>1. arenas' = arenas /\ Published' = Published
  BY QuietFacts DEF Quiet
<1>2. \A a : KeyAt(a)' = KeyAt(a) /\ Node(a)' = Node(a)
  BY <1>1 DEF KeyAt, Node
<1> QED BY <1>1, <1>2 DEF Answered, KeyAt, Node

\* The release of the key's shard.
LEMMA UnlockShardKeeps ==
  ASSUME IInv, NEW t \in Threads, UnlockShard(t)
  PROVE  IInv' /\ Frame(t)
<1>1. TypeOK /\ StoreInv /\ ThreadInv(t) /\ Placed(t)
  BY DEF IInv, ThreadInv
<1>2. /\ pc[t] = "unlock" /\ Quiet /\ UNCHANGED call
      /\ pc' = [pc EXCEPT ![t] = "return"]
  BY DEF UnlockShard, Goto, Quiet
<1>3. /\ call[t].op = "get_or_create" /\ call[t].key \in Keys
      /\ call[t].before \subseteq Published /\ Answered(t)
  BY <1>1, <1>2 DEF Placed, ThreadInv, NodeOps
<1>4. PICK s \in Shards : s = ShardOf(call[t].key)
  BY <1>3, ShardFacts
<1>5. writer[s] = t /\ writer' = [writer EXCEPT ![s] = Nobody]
  BY <1>1, <1>2, <1>4 DEF UnlockShard, Placed
<1>6. Others(t) /\ pc'[t] = "return" /\ call'[t] = call[t]
  <2>1. "return" \in Places
    BY DEF Places
  <2> QED BY <1>1, <1>2, <2>1, StaysFacts, MovesFacts
<1>7. /\ writer' \in [Shards -> Threads \union {Nobody}]
      /\ \A i \in Shards : writer[i] \notin {Nobody, t} => writer'[i] = writer[i]
  BY <1>1, <1>5 DEF TypeOK
<1>8. Placed(t)'
  BY <1>3, <1>6 DEF Placed, GlobalOps
<1>9. Answered(t)'
  BY <1>1, <1>2, <1>3, <1>6, QuietAnswered
<1>10. ThreadInv(t)'
  BY <1>1, <1>2, <1>3, <1>6, <1>8, <1>9, QuietFacts DEF ThreadInv
<1> QED BY <1>2, <1>6, <1>7, <1>10, QuietKeeps

\* The answer of a call goes to its caller.
LEMMA ReturnKeeps ==
  ASSUME IInv, NEW t \in Threads, Return(t)
  PROVE  IInv' /\ Frame(t)
<1> DEFINE c == call[t]
<1>1. TypeOK /\ StoreInv /\ ThreadInv(t) /\ Placed(t)
  BY DEF IInv, ThreadInv
<1>2. /\ pc[t] = "return" /\ UNCHANGED shared /\ call' = [call EXCEPT ![t] = Idle]
      /\ pc' = [pc EXCEPT ![t] = "idle"]
      /\ given' = IF c.status = "success" /\ c.op \in NodeOps
                  THEN [given EXCEPT ![c.key] = @ \union {c.value}] ELSE given
  BY DEF Return, Goto, NodeOps
<1>3. tables' = tables /\ sizes' = sizes /\ arenas' = arenas /\ writer' = writer
      /\ growths' = growths /\ reserves' = reserves
  BY <1>2 DEF shared
<1>4. Others(t) /\ pc'[t] = "idle" /\ call'[t] = Idle
  <2>1. "idle" \in Places
    BY DEF Places
  <2> QED BY <1>1, <1>2, <2>1, IdleFacts, MovesFacts
<1>5. /\ \A s \in Shards : ShardInv(s)'
      /\ NodesKept /\ SlotsKept /\ Published' = Published
  BY <1>1, <1>3, SameStore
<1>6. c.status = "success" /\ c.op \in NodeOps =>
        c.key \in Keys /\ c.value \in Published /\ c.value \in AllAddresses /\ KeyAt(c.value) = c.key
  <2>1. Answered(t) /\ Published \subseteq AllAddresses
    BY <1>1, <1>2, PublishedFacts DEF ThreadInv
  <2> QED BY <1>1, <2>1 DEF Placed, Answered
<1>7. /\ given' \in [Keys -> SUBSET AllAddresses]
      /\ \A k \in Keys : \A a \in given'[k] : a \in Published /\ KeyAt(a) = k
  <2>1. /\ given \in [Keys -> SUBSET AllAddresses]
        /\ \A k \in Keys : \A a \in given[k] : a \in Published /\ KeyAt(a) = k
    BY <1>1 DEF TypeOK, StoreInv
  <2>2. CASE c.status = "success" /\ c.op \in NodeOps
    <3>1. given' = [given EXCEPT ![c.key] = @ \union {c.value}]
      BY <1>2, <2>2
    <3> HIDE DEF c
    <3> QED BY <1>6, <2>1, <2>2, <3>1
  <2>3. CASE ~(c.status = "success" /\ c.op \in NodeOps)
    BY <1>2, <2>1, <2>3
  <2> QED BY <2>2, <2>3
<1>8. StoreInv'
  <2>1. \A a : KeyAt(a)' = KeyAt(a)
    BY <1>3 DEF KeyAt, Node
  <2> QED BY <1>5, <1>7, <2>1 DEF StoreInv, KeyAt, Node
<1>9. TypeOK'
  BY <1>1, <1>3, <1>4, <1>7 DEF TypeOK, Others
<1>10. Frame(t)
  BY <1>3, <1>4, <1>5 DEF Frame, ShardsKept
<1>11. Placed(t)'
  BY <1>4, IdleFacts DEF Placed, NodeOps, GlobalOps
<1>12. ThreadInv(t)'
  BY <1>4, <1>11, IdleFacts DEF ThreadInv
<1> QED BY <1>8, <1>9, <1>10, <1>12, StepKeeps

\* One more lock of those of all shards.
LEMMA LockAllNextKeeps ==
  ASSUME IInv, NEW t \in Threads, LockAllNext(t)
  PROVE  IInv' /\ Frame(t)
<1> DEFINE c == call[t]
<1>1. TypeOK /\ StoreInv /\ ThreadInv(t) /\ Placed(t) /\ c \in Calls
  BY StaysFacts DEF IInv, ThreadInv
<1>2. pc[t] = "lock_all" /\ Quiet
  BY DEF LockAllNext, Quiet
<1>3. /\ c.op \in GlobalOps /\ c.op \notin NodeOps /\ c.before \subseteq Published
      /\ \A i \in Shards : i < c.next => writer[i] = t
  BY <1>1, <1>2 DEF Placed, ThreadInv, NodeOps, GlobalOps
<1>4. PICK s \in Shards : s = c.next
  BY <1>1, <1>2 DEF Placed
<1>5. writer[s] = Nobody /\ writer' = [writer EXCEPT ![s] = t]
  BY <1>4 DEF LockAllNext
<1>6. /\ writer' \in [Shards -> Threads \union {Nobody}]
      /\ \A i \in Shards : i < s + 1 => writer'[i] = t
      /\ \A i \in Shards : writer[i] \notin {Nobody, t} => writer'[i] = writer[i]
  <2>1. writer \in [Shards -> Threads \union {Nobody}] /\ \A i \in Shards : i \in Int
    BY <1>1, ShardFacts DEF TypeOK
  <2>2. \A i \in Shards : i < s + 1 => i < s \/ i = s
    BY <2>1
  <2> QED BY <1>3, <1>4, <1>5, <2>1, <2>2
<1>7. Published' = Published
  BY <1>1, <1>2, QuietFacts
<1>8. CASE s + 1 \in Shards
  <2> DEFINE r == [c EXCEPT !.next = @ + 1]
  <2>1. call' = [call EXCEPT ![t] = r] /\ pc' = pc
    BY <1>1, <1>4, <1>8 DEF LockAllNext, TypeOK
  <2>2. r \in Calls /\ r.op = c.op /\ r.before = c.before /\ r.next = s + 1
    BY <1>1, <1>4, <1>8, ShardFacts DEF Calls
  <2> HIDE DEF r
  <2>3. Others(t) /\ pc'[t] = "lock_all" /\ call'[t] = r
    <3>1. "lock_all" \in Places
      BY DEF Places
    <3>2. pc' = [pc EXCEPT ![t] = "lock_all"]
      BY <1>1, <1>2, <2>1, StaysFacts
    <3>3. r \in Calls /\ call' = [call EXCEPT ![t] = r]
      BY <2>1, <2>2
    <3> HIDE DEF c
    <3> QED BY <1>1, <3>1, <3>2, <3>3, MovesFacts
  <2>4. Placed(t)'
    BY <1>3, <1>6, <1>8, <2>2, <2>3 DEF Placed, GlobalOps
  <2>5. ThreadInv(t)'
    BY <1>3, <1>7, <2>2, <2>3, <2>4 DEF ThreadInv
  <2> QED BY <1>2, <1>6, <2>3, <2>5, QuietKeeps
<1>9. CASE s + 1 \notin Shards
  <2> DEFINE r == [c EXCEPT !.next = 0]
  <2>1. call' = [call EXCEPT ![t] = r] /\ pc' = [pc EXCEPT ![t] = c.op]
    BY <1>1, <1>4, <1>9 DEF LockAllNext, TypeOK, Goto
  <2>2. r \in Calls /\ r.op = c.op /\ r.before = c.before /\ r.next = 0
    BY <1>1 DEF Calls
  <2> HIDE DEF r
  <2>3. Others(t) /\ pc'[t] = c.op /\ call'[t] = r
    <3>1. PICK where \in Places : where = c.op
      BY <1>3 DEF Places, GlobalOps
    <3>2. pc' = [pc EXCEPT ![t] = where]
      BY <2>1, <3>1
    <3>3. Others(t) /\ pc'[t] = where /\ call'[t] = r
      BY <1>1, <2>1, <2>2, <3>2, MovesFacts
    <3> QED BY <3>1, <3>3
  <2>4. \A i \in Shards : writer'[i] = t
    <3>1. \A i \in Shards : i < s + 1
      BY <1>9, ShardFacts DEF Shards
    <3> QED BY <1>6, <3>1
  <2>5. Placed(t)'
    BY <1>3, <2>2, <2>3, <2>4 DEF Placed, GlobalOps
  <2>6. ThreadInv(t)'
    BY <1>3, <1>7, <2>2, <2>3, <2>5 DEF ThreadInv, GlobalOps
  <2> QED BY <1>2, <1>6, <2>3, <2>6, QuietKeeps
<1> QED BY <1>8, <1>9

\* One lock less.
LEMMA UnlockAllNextKeeps ==
  ASSUME IInv, NEW t \in Threads, UnlockAllNext(t)
  PROVE  IInv' /\ Frame(t)
<1> DEFINE c == call[t]
<1>1. TypeOK /\ StoreInv /\ ThreadInv(t) /\ Placed(t) /\ c \in Calls
  BY StaysFacts DEF IInv, ThreadInv
<1>2. pc[t] = "unlock_all" /\ Quiet
  BY DEF UnlockAllNext, Quiet
<1>3. /\ c.op \in GlobalOps /\ c.op \notin NodeOps /\ c.before \subseteq Published /\ Answered(t)
      /\ \A i \in Shards : i <= c.next => writer[i] = t
  BY <1>1, <1>2 DEF Placed, ThreadInv, NodeOps, GlobalOps
<1>4. PICK s \in Shards : s = c.next
  BY <1>1, <1>2 DEF Placed
<1>5. writer[s] = t /\ writer' = [writer EXCEPT ![s] = Nobody]
  <2>1. s <= c.next
    BY <1>4, ShardFacts
  <2> QED BY <1>3, <1>4, <2>1 DEF UnlockAllNext
<1>6. /\ writer' \in [Shards -> Threads \union {Nobody}]
      /\ \A i \in Shards : i <= s - 1 => writer'[i] = t
      /\ \A i \in Shards : writer[i] \notin {Nobody, t} => writer'[i] = writer[i]
  <2>1. writer \in [Shards -> Threads \union {Nobody}] /\ \A i \in Shards : i \in Int
    BY <1>1, ShardFacts DEF TypeOK
  <2>2. \A i \in Shards : i <= s - 1 => i <= s /\ i # s
    BY <2>1
  <2> QED BY <1>3, <1>4, <1>5, <2>1, <2>2
<1>7. Published' = Published
  BY <1>1, <1>2, QuietFacts
<1>8. CASE s > 0
  <2> DEFINE r == [c EXCEPT !.next = @ - 1]
  <2>1. call' = [call EXCEPT ![t] = r] /\ pc' = pc
    BY <1>1, <1>4, <1>8 DEF UnlockAllNext, TypeOK
  <2>0. s - 1 \in Shards /\ s - 1 \in Nat
    BY <1>8, ShardFacts DEF Shards
  <2>2. /\ r \in Calls /\ r.next = s - 1 /\ r.status = c.status /\ r.value = c.value
        /\ r.op = c.op /\ r.key = c.key /\ r.actions = c.actions /\ r.known = c.known
        /\ r.before = c.before
    BY <1>1, <1>4, <2>0 DEF Calls
  <2> HIDE DEF r
  <2>3. Others(t) /\ pc'[t] = "unlock_all" /\ call'[t] = r
    <3>1. pc' = [pc EXCEPT ![t] = "unlock_all"] /\ "unlock_all" \in Places
      BY <1>1, <1>2, <2>1, StaysFacts DEF Places
    <3> QED BY <1>1, <2>1, <2>2, <3>1, MovesFacts
  <2>4. Placed(t)'
    BY <1>3, <1>6, <2>0, <2>2, <2>3 DEF Placed, GlobalOps
  <2>5. Answered(t)'
    BY <1>1, <1>2, <1>3, <2>2, <2>3, QuietAnswered
  <2>6. ThreadInv(t)'
    BY <1>3, <1>7, <2>2, <2>3, <2>4, <2>5 DEF ThreadInv
  <2> QED BY <1>2, <1>6, <2>3, <2>6, QuietKeeps
<1>9. CASE ~(s > 0)
  <2>1. call' = call /\ pc' = [pc EXCEPT ![t] = "return"]
    BY <1>1, <1>4, <1>9 DEF UnlockAllNext, TypeOK, Goto
  <2>2. Others(t) /\ pc'[t] = "return" /\ call'[t] = call[t]
    <3>1. "return" \in Places
      BY DEF Places
    <3> QED BY <1>1, <2>1, <3>1, StaysFacts, MovesFacts
  <2>3. Placed(t)'
    BY <1>3, <2>2 DEF Placed, GlobalOps
  <2>4. Answered(t)'
    BY <1>1, <1>2, <1>3, <2>2, QuietAnswered
  <2>5. ThreadInv(t)'
    BY <1>3, <1>7, <2>2, <2>3, <2>4 DEF ThreadInv
  <2> QED BY <1>2, <1>6, <2>2, <2>5, QuietKeeps
<1> QED BY <1>8, <1>9

\* The partial sums of Total.
Sums(f) == LET sum[n \in 0..ShardCount] == IF n = 0 THEN 0 ELSE sum[n - 1] + f[n - 1] IN sum

LEMMA SumsFacts ==
  ASSUME NEW f \in [Shards -> Nat]
  PROVE  /\ Total(f) = Sums(f)[ShardCount] /\ Total(f) \in Nat
         /\ Sums(f)[0] = 0
         /\ \A n \in 1..ShardCount : Sums(f)[n] = Sums(f)[n - 1] + f[n - 1]
         /\ \A n \in 0..ShardCount : Sums(f)[n] \in Nat
<1> DEFINE m == ShardCount
           F(g) == [n \in 0..m |-> IF n = 0 THEN 0 ELSE g[n - 1] + f[n - 1]]
           step == [n \in Nat |-> [x \in Nat |-> IF n \in 1..m THEN x + f[n - 1] ELSE x]]
<1>0. m \in Nat \ {0} /\ \A n \in 1..m : n - 1 \in Shards /\ f[n - 1] \in Nat
  BY ShardFacts DEF Shards
<1> HIDE DEF m
<1>1. step \in [Nat -> [Nat -> Nat]]
  BY <1>0
<1>2. \A n \in 1..m, x \in Nat : step[n][x] = x + f[n - 1]
  BY <1>0
<1> HIDE DEF step
<1>3. HasSteps(Nat, 0, step, m)
  BY <1>0, <1>1, StepFunction
<1>4. PICK g \in [0..m -> Nat] : g[0] = 0 /\ \A n \in 1..m : g[n] = step[n][g[n - 1]]
  BY <1>3 DEF HasSteps
<1>5. \A n \in 1..m : g[n] = g[n - 1] + f[n - 1]
  <2> TAKE n \in 1..m
  <2>1. g[n - 1] \in Nat
    BY <1>0, <1>4
  <2> QED BY <1>2, <1>4, <2>1
<1>6. g = F(g)
  BY <1>4, <1>5
<1>7. Sums(f) = CHOOSE h : h = F(h)
  BY DEF Sums, m
<1>8. Sums(f) = F(Sums(f))
  <2> HIDE DEF F
  <2> QED BY <1>6, <1>7
<1>9. Sums(f)[0] = 0
  BY <1>0, <1>8
<1>10. \A n \in 1..m : Sums(f)[n] = Sums(f)[n - 1] + f[n - 1]
  BY <1>0, <1>8
<1>11. \A n \in 0..m : Sums(f)[n] \in Nat
  <2> DEFINE T == {n \in Nat : n <= m => Sums(f)[n] \in Nat}
  <2>1. 0 \in T
    BY <1>9
  <2>2. ASSUME NEW n \in 0..(m - 1), n \in T PROVE n + 1 \in T
    <3>1. n + 1 \in 1..m /\ (n + 1) - 1 = n /\ n <= m /\ n \in Nat
      BY <1>0
    <3>2. Sums(f)[n] \in Nat /\ f[n] \in Nat /\ Sums(f)[n + 1] = Sums(f)[n] + f[n]
      BY <1>0, <1>10, <2>2, <3>1
    <3> QED BY <3>1, <3>2
  <2>3. \A n \in 0..m : n \in T
    <3> HIDE DEF T
    <3> QED BY <1>0, <2>1, <2>2, BoundedInduction
  <2> QED BY <1>0, <2>3
<1>12. Total(f) = Sums(f)[m] /\ m \in 0..m
  BY <1>0 DEF Total, Sums, m
<1> QED BY <1>9, <1>10, <1>11, <1>12 DEF m

\* The sizes of the shards add up to the number of published nodes.
LEMMA CountFacts ==
  ASSUME TypeOK, StoreInv
  PROVE  /\ Total(sizes) = Cardinality(Published) /\ Cardinality(Published) \in Nat
         /\ [s \in Shards |-> Cardinality(Occupied(Active(s)))] = sizes
<1> DEFINE m == ShardCount
           Below(n) == UNION {NodesIn(Active(s)) : s \in 0..(n - 1)}
           sum == Sums(sizes)
<1>1. arenas \in Arenas /\ sizes \in [Shards -> Nat] /\ \A s \in Shards : SoundTable(Active(s), arenas, s)
  BY DEF TypeOK, StoreInv, ShardInv
<1>2. m \in Nat \ {0} /\ Shards = 0..(m - 1)
  BY ShardFacts DEF Shards
<1>3. /\ Total(sizes) = sum[m] /\ Total(sizes) \in Nat /\ sum[0] = 0
      /\ \A n \in 1..m : sum[n] = sum[n - 1] + sizes[n - 1]
      /\ \A n \in 0..m : sum[n] \in Nat
  BY <1>1, SumsFacts
<1>4. \A s \in Shards : sizes[s] = Cardinality(Occupied(Active(s)))
  BY DEF StoreInv, ShardInv
<1>5. ASSUME NEW s \in Shards
      PROVE  /\ IsFiniteSet(NodesIn(Active(s))) /\ Cardinality(NodesIn(Active(s))) = sizes[s]
             /\ \A a \in NodesIn(Active(s)) : ShardOf(At(arenas, a).key) = s
  <2>1. SoundTable(Active(s), arenas, s)
    BY <1>1
  <2> QED BY <1>1, <1>4, <2>1, NodeFacts
<1> HIDE DEF m, sum
<1> DEFINE T == {n \in 0..m : IsFiniteSet(Below(n)) /\ Cardinality(Below(n)) = sum[n]}
<1>6. 0 \in T
  <2>1. Below(0) = {}
    OBVIOUS
  <2>2. 0 \in 0..m /\ IsFiniteSet({}) /\ Cardinality({}) = 0
    BY <1>2, FS_EmptySet
  <2> QED BY <1>3, <2>1, <2>2
<1>7. ASSUME NEW n \in 0..(m - 1), n \in T PROVE n + 1 \in T
  <2>1. n \in Shards /\ n + 1 \in 1..m /\ n + 1 \in 0..m /\ (n + 1) - 1 = n /\ n \in 0..m
    BY <1>2
  <2>2. 0..((n + 1) - 1) = 0..(n - 1) \union {n} /\ n \notin 0..(n - 1) /\ 0..(n - 1) \subseteq Shards
    BY <1>2
  <2>3. Below(n + 1) = Below(n) \union NodesIn(Active(n))
    BY <2>2
  <2>4. Below(n) \cap NodesIn(Active(n)) = {}
    <3>1. \A a \in Below(n) : ShardOf(At(arenas, a).key) \in 0..(n - 1)
      BY <1>5, <2>2
    <3> QED BY <1>5, <2>1, <2>2, <3>1
  <2>5. IsFiniteSet(Below(n)) /\ Cardinality(Below(n)) = sum[n] /\ sum[n] \in Nat
    BY <1>3, <1>7, <2>1
  <2>6. /\ IsFiniteSet(NodesIn(Active(n))) /\ Cardinality(NodesIn(Active(n))) = sizes[n]
        /\ sizes[n] \in Nat
    BY <1>1, <1>5, <2>1
  <2> HIDE DEF Below, T
  <2>7. /\ IsFiniteSet(Below(n + 1))
        /\ Cardinality(Below(n + 1)) = sum[n] + sizes[n] - Cardinality({})
    BY <2>3, <2>4, <2>5, <2>6, FS_Union
  <2>8. Cardinality({}) = 0
    BY FS_EmptySet
  <2>9. sum[n + 1] = sum[n] + sizes[n]
    BY <1>3, <2>1
  <2> QED BY <2>1, <2>5, <2>6, <2>7, <2>8, <2>9 DEF T
<1>8. m \in T
  <2>1. \A n \in 0..m : n \in T
    <3> HIDE DEF T
    <3> QED BY <1>2, <1>6, <1>7, BoundedInduction
  <2> QED BY <1>2, <2>1
<1>9. Below(m) = Published
  BY <1>2 DEF Published
<1> HIDE DEF Below
<1>10. Cardinality(Published) = sum[m]
  BY <1>8, <1>9
<1>11. [s \in Shards |-> Cardinality(Occupied(Active(s)))] = sizes
  BY <1>1, <1>4
<1> QED BY <1>3, <1>10, <1>11

\* A call leaves the work on all shards, with an answer.
LEMMA LeaveFacts ==
  ASSUME TypeOK, NEW t \in Threads, NEW status \in Statuses, NEW value \in Values,
         Leave(t, status, value)
  PROVE  /\ Others(t) /\ pc'[t] = "unlock_all" /\ call'[t].status = status /\ call'[t].value = value
         /\ call'[t].op = call[t].op /\ call'[t].key = call[t].key
         /\ call'[t].known = call[t].known /\ call'[t].before = call[t].before
         /\ call'[t].next = ShardCount - 1
<1> DEFINE r == [call[t] EXCEPT !.status = status, !.value = value, !.next = ShardCount - 1]
<1>1. call \in [Threads -> Calls] /\ call[t] \in Calls /\ ShardCount - 1 \in Nat
  BY ShardFacts DEF TypeOK
<1>2. call' = [call EXCEPT ![t] = r] /\ pc' = [pc EXCEPT ![t] = "unlock_all"]
  BY <1>1 DEF Leave, Goto
<1>3. /\ r \in Calls /\ r.status = status /\ r.value = value /\ r.next = ShardCount - 1
      /\ r.op = call[t].op /\ r.key = call[t].key
      /\ r.known = call[t].known /\ r.before = call[t].before
  BY <1>1 DEF Calls
<1> HIDE DEF r
<1>4. "unlock_all" \in Places
  BY DEF Places
<1>5. Others(t) /\ pc'[t] = "unlock_all" /\ call'[t] = r
  BY <1>2, <1>3, <1>4, MovesFacts
<1> QED BY <1>3, <1>5

LEMMA LeaveKeeps ==
  ASSUME IInv, NEW t \in Threads, pc[t] \in GlobalOps, NEW status \in Statuses, NEW value \in Values,
         Leave(t, status, value), Quiet, UNCHANGED writer, status # "corrupt",
         status \notin {"invalid", "not_found"},
         status = "success" /\ pc[t] = "snapshot" => value = Published,
         pc[t] = "get_stats" => value[1] = Cardinality(Published)
  PROVE  IInv' /\ Frame(t)
<1>1. TypeOK /\ StoreInv /\ ThreadInv(t) /\ Placed(t)
  BY DEF IInv, ThreadInv
<1>2. /\ Others(t) /\ pc'[t] = "unlock_all" /\ call'[t].status = status /\ call'[t].value = value
      /\ call'[t].op = call[t].op /\ call'[t].key = call[t].key
      /\ call'[t].known = call[t].known /\ call'[t].before = call[t].before
      /\ call'[t].next = ShardCount - 1
  BY <1>1, LeaveFacts
<1>3. /\ call[t].op = pc[t] /\ call[t].op \notin NodeOps /\ call[t].before \subseteq Published
      /\ \A i \in Shards : writer[i] = t
  BY <1>1 DEF Placed, ThreadInv, GlobalOps, NodeOps
<1>4. Published' = Published /\ writer' = writer
  BY <1>1, QuietFacts
<1>5. Placed(t)'
  BY <1>2, <1>3, <1>4, ShardFacts DEF Placed, GlobalOps
<1>6. Cardinality(call[t].before) <= Cardinality(Published) /\ Cardinality(Published) \in Nat
  BY <1>1, <1>3, PublishedFacts, FS_Subset, FS_CardinalityType
<1>7. Answered(t)'
  BY <1>2, <1>3, <1>4, <1>6 DEF Answered
<1>8. ThreadInv(t)'
  BY <1>2, <1>3, <1>4, <1>5, <1>7 DEF ThreadInv
<1>9. writer' \in [Shards -> Threads \union {Nobody}] /\ \A i \in Shards : writer'[i] = writer[i]
  BY <1>1 DEF TypeOK
<1> QED BY <1>2, <1>8, <1>9, QuietKeeps

LEMMA GetStatsKeeps ==
  ASSUME IInv, NEW t \in Threads, GetStats(t)
  PROVE  IInv' /\ Frame(t)
<1>1. TypeOK /\ StoreInv
  BY DEF IInv
<1>2. PICK value : value = <<Total(sizes), Total(growths) + reserves>>
  OBVIOUS
<1>3. pc[t] = "get_stats" /\ Leave(t, "success", value) /\ Quiet /\ UNCHANGED writer
  BY <1>2 DEF GetStats, shared, Quiet
<1>4. Total(sizes) = Cardinality(Published) /\ Total(sizes) \in Nat
  BY <1>1, CountFacts
<1>5. Total(growths) + reserves \in Nat
  <2>1. growths \in [Shards -> Nat] /\ reserves \in Nat
    BY <1>1 DEF TypeOK
  <2> QED BY <2>1, SumsFacts
<1>6. value \in Values /\ value[1] = Cardinality(Published)
  <2>1. value \in Nat \X Nat /\ value[1] = Total(sizes)
    BY <1>2, <1>4, <1>5
  <2>2. value \in Values
    BY <2>1 DEF Values
  <2> QED BY <1>4, <2>1, <2>2
<1>7. "success" \in Statuses /\ pc[t] \in GlobalOps
  BY <1>3 DEF Statuses, GlobalOps
<1> QED BY <1>3, <1>6, <1>7, LeaveKeeps

LEMMA SnapshotKeeps ==
  ASSUME IInv, NEW t \in Threads, Snapshot(t)
  PROVE  IInv' /\ Frame(t)
<1>1. TypeOK /\ StoreInv
  BY DEF IInv
<1>2. pc[t] = "snapshot" /\ Quiet /\ UNCHANGED writer
  BY DEF Snapshot, shared, Quiet
<1>3. /\ Total([s \in Shards |-> Cardinality(Occupied(Active(s)))]) = Total(sizes)
      /\ ~ \E a, b \in Published : a # b /\ KeyAt(a) = KeyAt(b)
  BY <1>1, CountFacts, PublishedFacts
<1>4. Leave(t, "success", Published) \/ Leave(t, "out_of_memory", NULL)
  BY <1>3 DEF Snapshot
<1>5. /\ "success" \in Statuses /\ "out_of_memory" \in Statuses /\ pc[t] \in GlobalOps
      /\ Published \in Values /\ NULL \in Values
  BY <1>1, <1>2, PublishedFacts, NullIsValue DEF Statuses, GlobalOps
<1>6. CASE Leave(t, "success", Published)
  BY <1>2, <1>5, <1>6, LeaveKeeps
<1>7. CASE Leave(t, "out_of_memory", NULL)
  BY <1>2, <1>5, <1>7, LeaveKeeps
<1> QED BY <1>4, <1>6, <1>7

-----------------------------------------------------------------------------
(* Steps that publish a table.                                             *)

\* The active table of a shard rehashed into a larger one.
LEMMA RehashedSound ==
  ASSUME TypeOK, StoreInv, NEW s \in Shards, NEW d \in PowersOfTwo, d >= Capacity(Active(s))
  PROVE  LET new == Rehashed(Active(s), d)
         IN  /\ SoundTable(new, arenas, s) /\ Capacity(new) = d /\ new # NULL
             /\ NodesIn(new) = NodesIn(Active(s)) /\ Cardinality(Occupied(new)) = sizes[s]
             /\ sizes[s] <= LoadLimit(d)
<1>1. PICK table : table = Active(s)
  OBVIOUS
<1>2. /\ arenas \in Arenas /\ SoundTable(table, arenas, s) /\ sizes[s] = Cardinality(Occupied(table))
      /\ sizes[s] <= LoadLimit(Capacity(table))
  BY <1>1 DEF TypeOK, StoreInv, ShardInv
<1>3. KeysIn(table) = KeyMap(table, arenas)
  BY NodeIsAt DEF KeysIn, KeyMap
<1>4. PICK new : new = Rehash(table, d, KeyMap(table, arenas), ShardStarts(d))
  OBVIOUS
<1>5. new = Rehashed(table, d)
  BY <1>3, <1>4 DEF Rehashed
<1>6. /\ SoundTable(new, arenas, s) /\ Capacity(new) = d /\ NodesIn(new) = NodesIn(table)
      /\ Cardinality(Occupied(new)) = sizes[s]
  BY <1>1, <1>2, <1>4, GrowSound
<1>7. new # NULL
  BY <1>2, <1>6, EntryFacts
<1>8. sizes[s] <= LoadLimit(d)
  <2>1. Capacity(table) \in Nat /\ Capacity(table) >= 4 /\ d \in Nat /\ sizes[s] \in Nat
    <3>1. Capacity(table) \in PowersOfTwo /\ Capacity(table) >= 4
      BY <1>2 DEF SoundTable
    <3>2. Capacity(table) \in Nat /\ d \in Nat
      BY <3>1, CapacityFacts
    <3> QED BY <3>1, <3>2 DEF TypeOK
  <2>2. LoadLimit(Capacity(table)) \in Nat /\ LoadLimit(d) \in Nat
    BY <1>1, <2>1, LoadLimitFacts
  <2>3. LoadLimit(Capacity(table)) <= LoadLimit(d)
    BY <1>1, <2>1, LoadLimitFacts
  <2> QED BY <1>2, <2>1, <2>2, <2>3
<1> QED BY <1>1, <1>5, <1>6, <1>7, <1>8

\* A capacity that can be allocated and is the double, or a reservation, of one.
LEMMA DoubledFacts ==
  ASSUME NEW c \in PowersOfTwo, NEW d \in Nat, c * Pow2(d) <= MaxCapacity
  PROVE  c * Pow2(d) \in PowersOfTwo
<1>1. c \in Nat /\ Pow2(d) \in Nat /\ HashValues \in Nat /\ MaxCapacity \in Nat /\ MaxCapacity <= HashValues
  <2>1. HashValues \in Nat /\ c \in Nat /\ Pow2(d) \in Nat
    BY ShardFacts, CapacityFacts, Pow2Facts
  <2>2. MinCapacity \in Nat
    BY CapacityFacts, StoreTableAssumption
  <2> QED BY <2>1, <2>2, StoreTableAssumption
<1>2. \A x, y \in Nat : x * y \in Nat
  OBVIOUS
<1>3. c * Pow2(d) <= HashValues
  BY <1>1, <1>2
<1> QED BY <1>3, CapacityFacts

\* What a reservation asks of a shard.
LEMMA TargetFacts ==
  ASSUME TypeOK, StoreInv, NEW t \in Threads, NEW s \in Shards, ReserveTarget(t, s) <= MaxCapacity
  PROVE  ReserveTarget(t, s) \in PowersOfTwo /\ ReserveTarget(t, s) >= Capacity(Active(s))
<1>1. PICK c \in PowersOfTwo : c = Capacity(Active(s)) /\ c >= 4 /\ c \in Nat
  BY CapacityFacts DEF StoreInv, ShardInv, SoundTable
<1>2. sizes[s] \in Nat /\ call[t].minimum \in Nat
  BY DEF TypeOK, Calls
<1>3. PerShard(call[t].minimum) \in Nat
  <2>1. ShardCount \in Nat \ {0}
    BY ShardFacts
  <2>2. \A x \in Nat, y \in Nat \ {0} : x \div y \in Nat
    OBVIOUS
  <2> QED BY <1>2, <2>1, <2>2 DEF PerShard
<1>4. PICK n \in Nat : ReserveTarget(t, s) = CapacityFor(n, c)
  BY <1>1, <1>2, <1>3 DEF ReserveTarget
<1>5. CapacityFor(n, c) >= c /\ \E d \in Nat : CapacityFor(n, c) = c * Pow2(d)
  BY <1>1, CapacityForFacts
<1>6. CapacityFor(n, c) \in PowersOfTwo
  BY <1>4, <1>5, DoubledFacts
<1> QED BY <1>1, <1>4, <1>5, <1>6

\* A shard whose nodes a larger table takes over.
LEMMA TableAppended ==
  ASSUME TypeOK, StoreInv, NEW s \in Shards, NEW d \in PowersOfTwo, d >= Capacity(Active(s)),
         tables' = [tables EXCEPT ![s] = Append(@, Rehashed(Active(s), d))],
         UNCHANGED <<sizes, arenas>>
  PROVE  /\ \A i \in Shards : ShardInv(i)'
         /\ NodesKept /\ SlotsKept /\ Published' = Published
         /\ \A i \in Shards : i # s => tables'[i] = tables[i]
         /\ Active(s)' = Rehashed(Active(s), d)
         /\ tables' \in [Shards -> {tables'[i] : i \in Shards}]
<1>1. PICK new : new = Rehashed(Active(s), d)
  OBVIOUS
<1>2. /\ SoundTable(new, arenas, s) /\ Capacity(new) = d
      /\ NodesIn(new) = NodesIn(Active(s)) /\ Cardinality(Occupied(new)) = sizes[s]
      /\ sizes[s] <= LoadLimit(d)
  BY <1>1, RehashedSound
<1>3. PICK chain : chain = tables[s]
  OBVIOUS
<1>4. IsChain(chain)
  BY <1>3 DEF StoreInv, ShardInv
<1>5. PICK longer : longer = Longer(chain, new)
  OBVIOUS
<1>6. /\ Len(chain) \in Nat \ {0} /\ DOMAIN chain = 1..Len(chain)
      /\ IsChain(longer) /\ Len(longer) = Len(chain) + 1
      /\ DOMAIN longer = 1..(Len(chain) + 1) /\ longer[Len(chain) + 1] = new
      /\ \A i \in 1..Len(chain) : longer[i] = chain[i]
  BY <1>4, <1>5, LongerFacts
<1>7. tables \in [Shards -> {tables[i] : i \in Shards}] /\ sizes' = sizes /\ arenas' = arenas
  BY DEF TypeOK
<1>8. tables' = [tables EXCEPT ![s] = longer]
  BY <1>1, <1>3, <1>5, <1>7 DEF Longer
<1>9. /\ tables'[s] = longer /\ \A i \in Shards : i # s => tables'[i] = tables[i]
      /\ tables' \in [Shards -> {tables'[i] : i \in Shards}]
  BY <1>7, <1>8
<1>10. Active(s)' = new
  BY <1>6, <1>9 DEF Active
<1>11. \A i \in Shards : i # s => Active(i)' = Active(i)
  BY <1>9 DEF Active
<1>12. ShardInv(s)'
  <2>1. \A i \in DOMAIN chain : /\ IsTable(chain[i], Capacity(chain[i]))
                                /\ Capacity(chain[i]) \in PowersOfTwo
                                /\ NodesIn(chain[i]) \subseteq NodesIn(new)
    BY <1>2, <1>3 DEF StoreInv, ShardInv
  <2>2. IsTable(new, Capacity(new)) /\ Capacity(new) \in PowersOfTwo
    BY <1>2 DEF SoundTable
  <2>3. \A i \in DOMAIN longer : /\ IsTable(longer[i], Capacity(longer[i]))
                                 /\ Capacity(longer[i]) \in PowersOfTwo
                                 /\ NodesIn(longer[i]) \subseteq NodesIn(new)
    <3> TAKE i \in DOMAIN longer
    <3>1. i = Len(chain) + 1 \/ i \in DOMAIN chain
      BY <1>6
    <3> QED BY <1>6, <2>1, <2>2, <3>1
  <2> QED BY <1>2, <1>6, <1>7, <1>9, <1>10, <2>3 DEF ShardInv
<1>13. \A i \in Shards : ShardInv(i)'
  <2> TAKE i \in Shards
  <2>1. CASE i # s
    BY <1>7, <1>9, <1>11, <2>1 DEF StoreInv, ShardInv
  <2> QED BY <1>12, <2>1
<1>14. Published' = Published
  <2>1. \A i \in Shards : NodesIn(Active(i)') = NodesIn(Active(i))
    BY <1>2, <1>10, <1>11
  <2> QED BY <2>1 DEF Published
<1>15. SlotsKept
  <2>1. ChainKept(chain, longer)
    BY <1>6 DEF ChainKept
  <2>2. \A i \in Shards : i # s => ChainKept(tables[i], tables'[i])
    <3>1. \A i \in Shards : Len(tables[i]) \in Nat
      BY ChainFacts DEF StoreInv, ShardInv
    <3> QED BY <1>9, <3>1 DEF ChainKept
  <2> QED BY <1>3, <1>9, <2>1, <2>2 DEF SlotsKept
<1> QED BY <1>1, <1>7, <1>9, <1>10, <1>13, <1>14, <1>15 DEF NodesKept

\* The plan of a reservation.
LEMMA PlanReserveKeeps ==
  ASSUME IInv, NEW t \in Threads, PlanReserve(t)
  PROVE  IInv' /\ Frame(t)
<1>1. TypeOK /\ StoreInv /\ ThreadInv(t) /\ Placed(t)
  BY DEF IInv, ThreadInv
<1>2. pc[t] = "reserve" /\ Quiet /\ UNCHANGED writer
  BY DEF PlanReserve, shared, Quiet
<1>3. ASSUME \A s \in Shards : ReserveTarget(t, s) <= MaxCapacity, NEW s \in Shards
      PROVE  Rehashed(Active(s), ReserveTarget(t, s)) # NULL
  <2>1. PICK d \in PowersOfTwo : d = ReserveTarget(t, s) /\ d >= Capacity(Active(s))
    BY <1>1, <1>3, TargetFacts
  <2>2. Rehashed(Active(s), d) # NULL
    BY <1>1, <2>1, RehashedSound
  <2> QED BY <2>1, <2>2
<1>4. \/ Leave(t, "success", NULL) \/ Leave(t, "out_of_memory", NULL)
      \/ /\ \A s \in Shards : ReserveTarget(t, s) <= MaxCapacity
         /\ Goto(t, "replace") /\ UNCHANGED call
  BY <1>3 DEF PlanReserve
<1>5. /\ "success" \in Statuses /\ "out_of_memory" \in Statuses /\ pc[t] \in GlobalOps
      /\ NULL \in Values
  BY <1>2, NullIsValue DEF Statuses, GlobalOps
<1>6. CASE Leave(t, "success", NULL)
  BY <1>2, <1>5, <1>6, LeaveKeeps
<1>7. CASE Leave(t, "out_of_memory", NULL)
  BY <1>2, <1>5, <1>7, LeaveKeeps
<1>8. CASE /\ \A s \in Shards : ReserveTarget(t, s) <= MaxCapacity
           /\ Goto(t, "replace") /\ UNCHANGED call
  <2>1. Others(t) /\ pc'[t] = "replace" /\ call'[t] = call[t]
    <3>1. pc' = [pc EXCEPT ![t] = "replace"] /\ call' = call
      BY <1>8 DEF Goto
    <3>2. "replace" \in Places
      BY DEF Places
    <3> QED BY <1>1, <3>1, <3>2, StaysFacts, MovesFacts
  <2>2. /\ call[t].op = "reserve" /\ call[t].next = 0 /\ call[t].before \subseteq Published
        /\ \A i \in Shards : writer[i] = t
    BY <1>1, <1>2 DEF Placed, ThreadInv, GlobalOps
  <2>3. Published' = Published /\ writer' = writer /\ tables' = tables /\ sizes' = sizes
    BY <1>1, <1>2, QuietFacts DEF Quiet
  <2>4. \A i \in Shards : ReserveTarget(t, i)' <= MaxCapacity
    BY <1>8, <2>1, <2>3 DEF ReserveTarget, Active
  <2>5. Placed(t)'
    BY <2>1, <2>2, <2>3, <2>4, ShardFacts DEF Placed, GlobalOps, NodeOps
  <2>6. ThreadInv(t)'
    BY <2>1, <2>2, <2>3, <2>5 DEF ThreadInv
  <2>7. writer' \in [Shards -> Threads \union {Nobody}] /\ \A i \in Shards : writer'[i] = writer[i]
    BY <1>1, <1>2 DEF TypeOK
  <2> QED BY <1>2, <2>1, <2>6, <2>7, QuietKeeps
<1> QED BY <1>4, <1>6, <1>7, <1>8

\* A reservation publishes the replacement of one shard.
LEMMA ReplaceNextKeeps ==
  ASSUME IInv, NEW t \in Threads, ReplaceNext(t)
  PROVE  IInv' /\ Frame(t)
<1> DEFINE c == call[t]
<1>1. TypeOK /\ StoreInv /\ ThreadInv(t) /\ Placed(t) /\ c \in Calls
  BY StaysFacts DEF IInv, ThreadInv
<1>2. /\ pc[t] = "replace" /\ sizes' = sizes /\ arenas' = arenas /\ writer' = writer
      /\ growths' = growths /\ given' = given
  BY DEF ReplaceNext
<1>3. /\ c.op = "reserve" /\ c.before \subseteq Published /\ \A i \in Shards : writer[i] = t
      /\ \A i \in Shards : i >= c.next => ReserveTarget(t, i) <= MaxCapacity
  BY <1>1, <1>2 DEF Placed, ThreadInv
<1>4. PICK s \in Shards : s = c.next
  BY <1>1, <1>2 DEF Placed
<1>5. PICK d \in PowersOfTwo : d = ReserveTarget(t, s) /\ d >= Capacity(Active(s))
  <2>1. s >= c.next
    BY <1>4, ShardFacts
  <2>2. ReserveTarget(t, s) <= MaxCapacity
    BY <1>3, <2>1
  <2> QED BY <1>1, <2>2, TargetFacts
<1>6. /\ \A i \in Shards : ShardInv(i)'
      /\ NodesKept /\ SlotsKept /\ Published' = Published
      /\ \A i \in Shards : i # s => tables'[i] = tables[i]
      /\ tables' \in [Shards -> {tables'[i] : i \in Shards}]
  <2>1. CASE d = Capacity(Active(s))
    <3>1. tables' = tables
      BY <1>4, <1>5, <2>1 DEF ReplaceNext
    <3> QED BY <1>1, <1>2, <3>1, SameStore DEF TypeOK
  <2>2. CASE d # Capacity(Active(s))
    <3>1. tables' = [tables EXCEPT ![s] = Append(@, Rehashed(Active(s), d))]
      BY <1>4, <1>5, <2>2 DEF ReplaceNext, Extended
    <3> QED BY <1>1, <1>2, <1>5, <3>1, TableAppended
  <2> QED BY <2>1, <2>2
<1>7. StoreInv'
  <2>1. \A a : KeyAt(a)' = KeyAt(a)
    BY <1>2 DEF KeyAt, Node
  <2> QED BY <1>1, <1>2, <1>6, <2>1 DEF StoreInv, KeyAt, Node
<1>8. CASE s + 1 \in Shards
  <2> DEFINE r == [c EXCEPT !.next = @ + 1]
  <2>1. call' = [call EXCEPT ![t] = r] /\ pc' = pc /\ reserves' = reserves
    BY <1>1, <1>4, <1>8 DEF ReplaceNext, TypeOK
  <2>2. r \in Calls /\ r.op = c.op /\ r.before = c.before /\ r.next = s + 1 /\ r.minimum = c.minimum
    BY <1>1, <1>4, <1>8, ShardFacts DEF Calls
  <2> HIDE DEF r
  <2>3. Others(t) /\ pc'[t] = "replace" /\ call'[t] = r
    <3>1. "replace" \in Places
      BY DEF Places
    <3>2. pc' = [pc EXCEPT ![t] = "replace"]
      BY <1>1, <1>2, <2>1, StaysFacts
    <3>3. r \in Calls /\ call' = [call EXCEPT ![t] = r]
      BY <2>1, <2>2
    <3> HIDE DEF c
    <3> QED BY <1>1, <3>1, <3>2, <3>3, MovesFacts
  <2>4. \A i \in Shards : i >= s + 1 => ReserveTarget(t, i)' <= MaxCapacity
    <3> SUFFICES ASSUME NEW i \in Shards, i >= s + 1 PROVE ReserveTarget(t, i)' <= MaxCapacity
      OBVIOUS
    <3>1. i >= c.next /\ i # s
      BY <1>4, ShardFacts
    <3>2. tables'[i] = tables[i]
      BY <1>6, <3>1
    <3>3. ReserveTarget(t, i)' = ReserveTarget(t, i)
      BY <1>2, <2>2, <2>3, <3>2 DEF ReserveTarget, Active
    <3> QED BY <1>3, <3>1, <3>3
  <2>5. Placed(t)'
    BY <1>2, <1>3, <1>8, <2>2, <2>3, <2>4 DEF Placed, GlobalOps, NodeOps
  <2>6. ThreadInv(t)'
    BY <1>3, <1>6, <2>2, <2>3, <2>5 DEF ThreadInv
  <2>7. Frame(t)
    BY <1>2, <1>3, <1>6, <2>3 DEF Frame, ShardsKept
  <2>8. TypeOK'
    BY <1>1, <1>2, <1>6, <2>1, <2>3 DEF TypeOK, Others
  <2> QED BY <1>7, <2>6, <2>7, <2>8, StepKeeps
<1>9. CASE s + 1 \notin Shards
  <2>1. Leave(t, "success", NULL) /\ reserves' = reserves + 1
    BY <1>4, <1>9 DEF ReplaceNext
  <2>2. "success" \in Statuses /\ NULL \in Values
    BY NullIsValue DEF Statuses
  <2>3. /\ Others(t) /\ pc'[t] = "unlock_all" /\ call'[t].status = "success"
        /\ call'[t].op = c.op /\ call'[t].before = c.before
        /\ call'[t].next = ShardCount - 1
    BY <1>1, <2>1, <2>2, LeaveFacts
  <2>4. Placed(t)'
    BY <1>2, <1>3, <2>3, ShardFacts DEF Placed, GlobalOps, NodeOps
  <2>5. Answered(t)'
    BY <1>3, <2>3 DEF Answered, NodeOps
  <2>6. ThreadInv(t)'
    BY <1>3, <1>6, <2>3, <2>4, <2>5 DEF ThreadInv
  <2>7. Frame(t)
    BY <1>2, <1>3, <1>6, <2>3 DEF Frame, ShardsKept
  <2>8. TypeOK'
    BY <1>1, <1>2, <1>6, <2>1, <2>3 DEF TypeOK, Others
  <2> QED BY <1>7, <2>6, <2>7, <2>8, StepKeeps
<1> QED BY <1>8, <1>9

-----------------------------------------------------------------------------
(* Steps of an insertion.                                                  *)

\* The probe of a key, with the nodes where they are.
LEMMA LocateKeyIsIn == \A table, key : LocateKey(table, key) = LocateIn(table, key, arenas)
BY NodeIsAt DEF LocateKey, LocateIn, HoldsKey

\* The store stays sound when nodes that are not published change.
LEMMA NodesStay ==
  ASSUME TypeOK, StoreInv, UNCHANGED <<tables, sizes, given>>,
         \A a \in Published : a \in Addresses(arenas') /\ At(arenas', a) = At(arenas, a)
  PROVE  StoreInv' /\ NodesKept /\ SlotsKept /\ Published' = Published
<1>1. tables' = tables /\ sizes' = sizes /\ given' = given
  OBVIOUS
<1>2. Published' = Published /\ \A s \in Shards : Active(s)' = Active(s)
  BY <1>1 DEF Published, Active
<1>3. ASSUME NEW s \in Shards PROVE SoundTable(Active(s), arenas', s)
  <2>1. PICK table : table = Active(s)
    OBVIOUS
  <2>2. SoundTable(table, arenas, s) /\ NodesIn(table) \subseteq Published
    BY <2>1, ActiveIsPublished DEF StoreInv, ShardInv
  <2>3. \A a \in NodesIn(table) : a \in Addresses(arenas') /\ At(arenas', a) = At(arenas, a)
    BY <2>2
  <2> QED BY <2>1, <2>2, <2>3, SoundKept
<1>4. \A s \in Shards : ShardInv(s)'
  BY <1>1, <1>2, <1>3 DEF StoreInv, ShardInv
<1>5. \A a \in Published : KeyAt(a) = At(arenas, a).key /\ KeyAt(a)' = At(arenas', a).key
  BY DEF KeyAt, Node, At
<1>6. StoreInv'
  BY <1>1, <1>2, <1>4, <1>5 DEF StoreInv
<1>7. SlotsKept
  <2>1. \A s \in Shards : Len(tables[s]) \in Nat
    BY ChainFacts DEF StoreInv, ShardInv
  <2> QED BY <1>1, <2>1 DEF SlotsKept, ChainKept
<1> QED BY <1>2, <1>6, <1>7 DEF NodesKept

\* A node allocated.
LEMMA ArenaAppended ==
  ASSUME TypeOK, NEW s \in Shards, NEW node \in Records,
         arenas' = [arenas EXCEPT ![s] = Append(@, node)]
  PROVE  /\ arenas' \in Arenas /\ Len(arenas[s]) \in Nat
         /\ Len(arenas'[s]) = Len(arenas[s]) + 1
         /\ <<s, Len(arenas[s]) + 1>> \in AllAddresses
         /\ At(arenas', <<s, Len(arenas[s]) + 1>>) = node
         /\ \A i \in Shards : i # s => arenas'[i] = arenas[i]
         /\ \A a \in Addresses(arenas) : a \in Addresses(arenas') /\ At(arenas', a) = At(arenas, a)
<1>1. arenas \in [ArenaIds -> Seq(Records)] /\ s \in ArenaIds /\ arenas[s] \in Seq(Records)
  BY DEF TypeOK, Arenas, ArenaIds
<1>2. PICK q \in Seq(Records) : q = Append(arenas[s], node)
  <2>1. Append(arenas[s], node) \in Seq(Records)
    BY <1>1
  <2> QED BY <2>1, Zenon
<1>3. /\ Len(arenas[s]) \in Nat /\ Len(q) = Len(arenas[s]) + 1 /\ q[Len(arenas[s]) + 1] = node
      /\ \A i \in 1..Len(arenas[s]) : q[i] = arenas[s][i]
  BY <1>1, <1>2
<1>4. /\ arenas' \in [ArenaIds -> Seq(Records)] /\ arenas'[s] = q
      /\ \A i \in ArenaIds : i # s => arenas'[i] = arenas[i]
  BY <1>1, <1>2
<1>5. <<s, Len(arenas[s]) + 1>> \in AllAddresses
  BY <1>1, <1>3 DEF AllAddresses
<1>6. ASSUME NEW a \in Addresses(arenas)
      PROVE  a \in Addresses(arenas') /\ At(arenas', a) = At(arenas, a)
  <2>1. a \in AllAddresses /\ a[1] \in ArenaIds /\ a[2] \in 1..Len(arenas[a[1]])
    BY AddressFacts DEF TypeOK
  <2>2. CASE a[1] = s
    BY <1>3, <1>4, <2>1, <2>2 DEF Addresses, At
  <2>3. CASE a[1] # s
    BY <1>4, <2>1, <2>3 DEF Addresses, At
  <2> QED BY <2>2, <2>3
<1>7. At(arenas', <<s, Len(arenas[s]) + 1>>) = node
  BY <1>3, <1>4 DEF At
<1> QED BY <1>3, <1>4, <1>5, <1>6, <1>7 DEF Arenas, ArenaIds

\* The probe under the lock.
LEMMA RelocateKeeps ==
  ASSUME IInv, NEW t \in Threads, Relocate(t)
  PROVE  IInv' /\ Frame(t)
<1> DEFINE c == call[t]
<1>1. TypeOK /\ StoreInv /\ ThreadInv(t) /\ Placed(t) /\ c \in Calls
  BY StaysFacts DEF IInv, ThreadInv
<1>2. pc[t] = "locate" /\ UNCHANGED <<tables, sizes, writer, growths, reserves, given>>
  BY DEF Relocate
<1>3. c.op = "get_or_create" /\ c.key \in Keys /\ c.before \subseteq Published
  BY <1>1, <1>2 DEF Placed, ThreadInv, NodeOps
<1>4. PICK s \in Shards : s = ShardOf(c.key) /\ writer[s] = t
  BY <1>1, <1>2, <1>3, ShardFacts DEF Placed
<1>5. PICK table : table = Active(s)
  OBVIOUS
<1>6. /\ SoundTable(table, arenas, s) /\ arenas \in Arenas /\ NodesIn(table) \subseteq Published
      /\ Cardinality(Occupied(table)) <= LoadLimit(Capacity(table))
  BY <1>1, <1>5, ActiveIsPublished DEF StoreInv, ShardInv, TypeOK
<1>7. Cardinality(Occupied(table)) < Capacity(table)
  <2>1. Capacity(table) \in Nat /\ Capacity(table) >= 4 /\ Cardinality(Occupied(table)) \in Nat
    BY <1>6, EntryFacts, SMTT(20) DEF SoundTable
  <2> QED BY <1>6, <2>1, LoadLimitFacts
<1>8. PICK found : found = LocateKey(table, c.key)
  OBVIOUS
<1>9. \/ \E i \in Occupied(table) :
            /\ found = [result |-> "found", index |-> i]
            /\ table[i].node \in NodesIn(table) /\ At(arenas, table[i].node).key = c.key
      \/ /\ Absent(table, arenas, c.key)
         /\ found = Locate(table, ShardStart(c.key, Capacity(table)), {})
         /\ \E i : FreeSlot(table, c.key, i)
  BY <1>3, <1>6, <1>7, <1>8, LocateKeyFacts, LocateKeyIsIn
<1>10. IF found.result = "found"
       THEN /\ IF Node(table[found.index].node).actions # c.actions
               THEN Answer(t, "invalid", NULL) ELSE Answer(t, "success", table[found.index].node)
            /\ Goto(t, "unlock")
            /\ UNCHANGED arenas
       ELSE /\ arenas' = [arenas EXCEPT ![s] =
                 Append(@, [key |-> c.key, actions |-> c.actions, ready |-> FALSE])]
            /\ call' = [call EXCEPT ![t].mark = Len(arenas[s]),
                                    ![t].place = found.index,
                                    ![t].value = <<s, Len(arenas[s]) + 1>>]
            /\ Goto(t, "initialize")
  BY <1>4, <1>5, <1>8 DEF Relocate
<1>11. ASSUME NEW i \in Occupied(table), found = [result |-> "found", index |-> i],
              table[i].node \in NodesIn(table), At(arenas, table[i].node).key = c.key
       PROVE  IInv' /\ Frame(t)
  <2>1. PICK a \in Published : a = table[i].node
    BY <1>6, <1>11
  <2>2. /\ IF Node(a).actions # c.actions THEN Answer(t, "invalid", NULL) ELSE Answer(t, "success", a)
        /\ Goto(t, "unlock") /\ UNCHANGED arenas
    BY <1>10, <1>11, <2>1
  <2>3. KeyAt(a) = c.key /\ Node(a).ready /\ a \in Values
    BY <1>1, <1>11, <2>1, PublishedFacts, NodeIsAt
  <2>4. Quiet /\ UNCHANGED writer
    BY <1>2, <2>2 DEF Quiet
  <2>5. Published' = Published /\ KeyAt(a)' = KeyAt(a) /\ Node(a)' = Node(a)
    BY <1>1, <2>2, <2>4, QuietFacts DEF KeyAt, Node
  <2>6. PICK r \in Calls :
          /\ call' = [call EXCEPT ![t] = r] /\ r.op = c.op /\ r.key = c.key
          /\ r.actions = c.actions /\ r.before = c.before
          /\ \/ r.status = "invalid" /\ Node(a).actions # c.actions
             \/ r.status = "success" /\ r.value = a /\ Node(a).actions = c.actions
    <3>1. CASE Node(a).actions # c.actions
      <4>1. Answer(t, "invalid", NULL) /\ "invalid" \in Statuses /\ NULL \in Values
        BY <2>2, <3>1, NullIsValue DEF Statuses
      <4> QED BY <1>1, <3>1, <4>1, AnswerFacts
    <3>2. CASE Node(a).actions = c.actions
      <4>1. Answer(t, "success", a) /\ "success" \in Statuses
        BY <2>2, <3>2 DEF Statuses
      <4> QED BY <1>1, <2>3, <3>2, <4>1, AnswerFacts
    <3> QED BY <3>1, <3>2
  <2>7. Others(t) /\ pc'[t] = "unlock" /\ call'[t] = r
    <3>1. "unlock" \in Places /\ pc' = [pc EXCEPT ![t] = "unlock"]
      BY <2>2 DEF Places, Goto
    <3> HIDE DEF c
    <3> QED BY <1>1, <2>6, <3>1, MovesFacts
  <2>8. Answered(t)'
    <3>1. r.op = "get_or_create" /\ r.op \in NodeOps
      BY <1>3, <2>6 DEF NodeOps
    <3>2. r.status = "invalid" =>
            \E b \in Published' : KeyAt(b)' = r.key /\ (Node(b)').actions # r.actions
      BY <2>3, <2>5, <2>6
    <3>3. r.status = "success" =>
            /\ r.value \in Published' /\ (Node(r.value)').ready /\ KeyAt(r.value)' = r.key
            /\ (Node(r.value)').actions = r.actions
      BY <2>3, <2>5, <2>6
    <3>4. r.status # "corrupt" /\ r.status # "not_found"
      BY <2>6
    <3> QED BY <2>7, <3>1, <3>2, <3>3, <3>4 DEF Answered, KeyAt, Node
  <2>9. Placed(t)'
    BY <1>3, <1>4, <2>4, <2>6, <2>7 DEF Placed, GlobalOps
  <2>10. ThreadInv(t)'
    BY <1>3, <2>5, <2>6, <2>7, <2>8, <2>9 DEF ThreadInv
  <2>11. writer' \in [Shards -> Threads \union {Nobody}] /\ \A n \in Shards : writer'[n] = writer[n]
    BY <1>1, <1>2 DEF TypeOK
  <2> QED BY <2>4, <2>7, <2>10, <2>11, QuietKeeps
<1>12. ASSUME Absent(table, arenas, c.key), found = Locate(table, ShardStart(c.key, Capacity(table)), {}),
              NEW i, FreeSlot(table, c.key, i)
       PROVE  IInv' /\ Frame(t)
  <2>1. found.result = "empty" /\ found.index = i /\ i \in Nat
    <3>1. i \in 0..(Capacity(table) - 1)
      BY <1>12 DEF FreeSlot
    <3> QED BY <1>12, <3>1 DEF FreeSlot
  <2>2. PICK node \in Records : node = [key |-> c.key, actions |-> c.actions, ready |-> FALSE]
    BY <1>1, <1>3 DEF Records, Calls
  <2>3. PICK a : a = <<s, Len(arenas[s]) + 1>>
    OBVIOUS
  <2>4. /\ arenas' = [arenas EXCEPT ![s] = Append(@, node)] /\ Goto(t, "initialize")
        /\ call' = [call EXCEPT ![t].mark = Len(arenas[s]), ![t].place = found.index, ![t].value = a]
    BY <1>10, <2>1, <2>2, <2>3
  <2>5. /\ arenas' \in Arenas /\ Len(arenas[s]) \in Nat
        /\ Len(arenas'[s]) = Len(arenas[s]) + 1
        /\ a \in AllAddresses /\ At(arenas', a) = node
        /\ \A n \in Shards : n # s => arenas'[n] = arenas[n]
        /\ \A b \in Addresses(arenas) : b \in Addresses(arenas') /\ At(arenas', b) = At(arenas, b)
    BY <1>1, <2>3, <2>4, ArenaAppended
  <2>6. StoreInv' /\ NodesKept /\ SlotsKept /\ Published' = Published
    <3>1. \A b \in Published : b \in Addresses(arenas)
      BY <1>1, PublishedFacts
    <3> QED BY <1>1, <1>2, <2>5, <3>1, NodesStay
  <2> DEFINE r == [c EXCEPT !.mark = Len(arenas[s]), !.place = i, !.value = a]
  <2>7. call' = [call EXCEPT ![t] = r]
    BY <1>1, <2>1, <2>4 DEF TypeOK
  <2>8. /\ r \in Calls /\ r.op = c.op /\ r.key = c.key /\ r.actions = c.actions
        /\ r.before = c.before /\ r.mark = Len(arenas[s]) /\ r.place = i /\ r.value = a
    <3>1. a \in Values
      BY <2>5 DEF Values
    <3> QED BY <1>1, <2>1, <2>5, <3>1 DEF Calls
  <2> HIDE DEF r
  <2>9. Others(t) /\ pc'[t] = "initialize" /\ call'[t] = r
    <3>1. "initialize" \in Places /\ pc' = [pc EXCEPT ![t] = "initialize"]
      BY <2>4 DEF Places, Goto
    <3> HIDE DEF c
    <3> QED BY <1>1, <2>7, <2>8, <3>1, MovesFacts
  <2>10. Inserting(t)'
    <3>1. Active(s)' = table
      BY <1>2, <1>5 DEF Active
    <3>2. Absent(table, arenas', c.key)
      BY <1>6, <1>12, <2>6 DEF Absent, NodesKept
    <3>3. ShardOf(r.key) = s
      BY <1>4, <2>8
    <3>4. /\ r.value = <<s, Len(arenas'[s])>> /\ r.mark = Len(arenas'[s]) - 1 /\ Len(arenas'[s]) >= 1
          /\ At(arenas', r.value).key = r.key /\ At(arenas', r.value).actions = r.actions
      BY <2>2, <2>3, <2>5, <2>8
    <3>5. r.place = Locate(table, ShardStart(r.key, Capacity(table)), {}).index
      BY <1>12, <2>1, <2>8
    <3> QED BY <2>8, <2>9, <3>1, <3>2, <3>3, <3>4, <3>5 DEF Inserting, KeyAt, Node, At
  <2>11. Placed(t)'
    BY <1>2, <1>3, <1>4, <2>8, <2>9, <2>10 DEF Placed, GlobalOps
  <2>12. ThreadInv(t)'
    BY <1>3, <2>6, <2>8, <2>9, <2>11 DEF ThreadInv
  <2>13. Frame(t)
    BY <1>2, <1>4, <2>5, <2>6, <2>9 DEF Frame, ShardsKept
  <2>14. TypeOK'
    BY <1>1, <1>2, <2>5, <2>9 DEF TypeOK, Others
  <2> QED BY <2>6, <2>12, <2>13, <2>14, StepKeeps
<1> QED BY <1>9, <1>11, <1>12

\* An insertion's node is the last one of its arena, and is not published.
LEMMA OwnedFacts ==
  ASSUME TypeOK, StoreInv, NEW t \in Threads, call[t].key \in Keys, Inserting(t),
         NEW s \in Shards, s = ShardOf(call[t].key)
  PROVE  /\ call[t].value = <<s, Len(arenas[s])>> /\ call[t].mark = Len(arenas[s]) - 1
         /\ Len(arenas[s]) \in Nat \ {0} /\ call[t].value \in Addresses(arenas)
         /\ \A a \in Published : /\ a \in Addresses(arenas) /\ a[1] \in ArenaIds
                                 /\ a[2] \in 1..Len(arenas[a[1]])
                                 /\ a[1] = s => a[2] # Len(arenas[s])
<1> DEFINE v == call[t].value
<1>1. /\ v = <<s, Len(arenas[s])>> /\ call[t].mark = Len(arenas[s]) - 1 /\ Len(arenas[s]) >= 1
      /\ KeyAt(v) = call[t].key /\ Absent(Active(s), arenas, call[t].key)
  BY DEF Inserting
<1>2. arenas[s] \in Seq(Records) /\ arenas \in Arenas /\ s \in ArenaIds
  BY DEF TypeOK, Arenas, ArenaIds
<1>3. Len(arenas[s]) \in Nat \ {0}
  BY <1>1, <1>2
<1>4. v \in Addresses(arenas)
  <2>1. v \in AllAddresses /\ v[1] = s /\ v[2] = Len(arenas[s])
    BY <1>1, <1>2, <1>3 DEF AllAddresses
  <2> QED BY <1>3, <2>1 DEF Addresses
<1> HIDE DEF v
<1>5. ASSUME NEW a \in Published
      PROVE  /\ a \in Addresses(arenas) /\ a[1] \in ArenaIds /\ a[2] \in 1..Len(arenas[a[1]])
             /\ a[1] = s => a[2] # Len(arenas[s])
  <2>1. a \in Addresses(arenas) /\ a \in NodesIn(Active(ShardOf(KeyAt(a))))
    BY PublishedFacts
  <2>2. a[1] \in ArenaIds /\ a[2] \in 1..Len(arenas[a[1]]) /\ a = <<a[1], a[2]>>
    BY <1>2, <2>1, AddressFacts
  <2>3. a # v
    BY <1>1, <2>1, NodeIsAt DEF Absent
  <2> QED BY <1>1, <2>1, <2>2, <2>3
<1> QED BY <1>1, <1>3, <1>4, <1>5 DEF v

\* An insertion that fails takes its node back.
LEMMA GiveUpKeeps ==
  ASSUME IInv, NEW t \in Threads, pc[t] \in {"initialize", "grow"},
         NEW status \in {"failed", "out_of_memory"}, GiveUp(t, status),
         UNCHANGED <<tables, sizes, writer, growths, reserves, given>>
  PROVE  IInv' /\ Frame(t)
<1> DEFINE c == call[t]
<1>1. TypeOK /\ StoreInv /\ ThreadInv(t) /\ Placed(t) /\ c \in Calls
  BY StaysFacts DEF IInv, ThreadInv
<1>2. c.op = "get_or_create" /\ c.key \in Keys /\ c.before \subseteq Published /\ Inserting(t)
  BY <1>1 DEF Placed, ThreadInv, NodeOps
<1>3. PICK s \in Shards : s = ShardOf(c.key) /\ writer[s] = t
  BY <1>1, <1>2, ShardFacts DEF Placed
<1>4. /\ c.mark = Len(arenas[s]) - 1 /\ Len(arenas[s]) \in Nat \ {0}
      /\ \A a \in Published : /\ a \in Addresses(arenas) /\ a[1] \in ArenaIds
                              /\ a[2] \in 1..Len(arenas[a[1]])
                              /\ a[1] = s => a[2] # Len(arenas[s])
  BY <1>1, <1>2, <1>3, OwnedFacts
<1>5. arenas \in [ArenaIds -> Seq(Records)] /\ s \in ArenaIds /\ arenas[s] \in Seq(Records)
  BY <1>1 DEF TypeOK, Arenas, ArenaIds
<1>6. PICK q \in Seq(Records) : /\ q = SubSeq(arenas[s], 1, Len(arenas[s]) - 1)
                                /\ Len(q) = Len(arenas[s]) - 1
                                /\ \A i \in 1..(Len(arenas[s]) - 1) : q[i] = arenas[s][i]
  <2>1. \A R : \A old \in Seq(R) : \A m \in 0..Len(old) :
          /\ SubSeq(old, 1, m) \in Seq(R) /\ Len(SubSeq(old, 1, m)) = m
          /\ \A i \in 1..m : SubSeq(old, 1, m)[i] = old[i]
    OBVIOUS
  <2>2. Len(arenas[s]) - 1 \in 0..Len(arenas[s])
    BY <1>4
  <2> DEFINE q == SubSeq(arenas[s], 1, Len(arenas[s]) - 1)
  <2>3. /\ q \in Seq(Records) /\ Len(q) = Len(arenas[s]) - 1
        /\ \A i \in 1..(Len(arenas[s]) - 1) : q[i] = arenas[s][i]
    BY <1>5, <2>1, <2>2, Zenon
  <2>4. q = SubSeq(arenas[s], 1, Len(arenas[s]) - 1)
    OBVIOUS
  <2> HIDE DEF q
  <2> QED BY <2>3, <2>4
<1>7. /\ arenas' \in [ArenaIds -> Seq(Records)] /\ arenas'[s] = q
      /\ \A i \in ArenaIds : i # s => arenas'[i] = arenas[i]
  <2>1. arenas' = [arenas EXCEPT ![s] = q]
    BY <1>3, <1>4, <1>5, <1>6 DEF GiveUp, Rollback
  <2> QED BY <1>5, <2>1
<1>8. \A a \in Published : a \in Addresses(arenas') /\ At(arenas', a) = At(arenas, a)
  <2> TAKE a \in Published
  <2>1. a \in AllAddresses
    BY <1>4 DEF Addresses
  <2>2. CASE a[1] = s
    <3>1. a[2] \in 1..(Len(arenas[s]) - 1)
      BY <1>4, <2>2
    <3> QED BY <1>4, <1>6, <1>7, <2>1, <2>2, <3>1, SMTT(20) DEF Addresses, At
  <2>3. CASE a[1] # s
    BY <1>4, <1>7, <2>1, <2>3 DEF Addresses, At
  <2> QED BY <2>2, <2>3
<1>9. StoreInv' /\ NodesKept /\ SlotsKept /\ Published' = Published
  BY <1>1, <1>8, NodesStay
<1>10. PICK r \in Calls :
         /\ call' = [call EXCEPT ![t] = r] /\ r.status = status /\ r.op = c.op
         /\ r.key = c.key /\ r.before = c.before
  <2>1. Answer(t, status, NULL) /\ status \in Statuses
    BY DEF GiveUp, Statuses
  <2> QED BY <1>1, <2>1, NullIsValue, AnswerFacts
<1>11. Others(t) /\ pc'[t] = "unlock" /\ call'[t] = r
  <2>1. "unlock" \in Places /\ pc' = [pc EXCEPT ![t] = "unlock"]
    BY DEF Places, Goto, GiveUp
  <2> QED BY <1>1, <1>10, <2>1, MovesFacts
<1>12. Placed(t)'
  BY <1>2, <1>3, <1>10, <1>11 DEF Placed, GlobalOps
<1>13. Answered(t)'
  BY <1>2, <1>10, <1>11 DEF Answered
<1>14. ThreadInv(t)'
  BY <1>2, <1>9, <1>10, <1>11, <1>12, <1>13 DEF ThreadInv
<1>15. Frame(t)
  BY <1>3, <1>7, <1>9, <1>11 DEF Frame, ShardsKept, ArenaIds
<1>16. TypeOK'
  BY <1>1, <1>7, <1>11 DEF TypeOK, Others, Arenas
<1> QED BY <1>9, <1>14, <1>15, <1>16, StepKeeps

\* The node is initialised.
LEMMA InitializeKeeps ==
  ASSUME IInv, NEW t \in Threads, Initialize(t)
  PROVE  IInv' /\ Frame(t)
<1> DEFINE c == call[t]
<1>1. TypeOK /\ StoreInv /\ ThreadInv(t) /\ Placed(t) /\ c \in Calls
  BY StaysFacts DEF IInv, ThreadInv
<1>2. pc[t] = "initialize" /\ UNCHANGED <<tables, sizes, writer, growths, reserves, given>>
  BY DEF Initialize
<1>3. c.op = "get_or_create" /\ c.key \in Keys /\ c.before \subseteq Published /\ Inserting(t)
  BY <1>1, <1>2 DEF Placed, ThreadInv, NodeOps
<1>4. PICK s \in Shards : s = ShardOf(c.key) /\ writer[s] = t
  BY <1>1, <1>2, <1>3, ShardFacts DEF Placed
<1>5. PICK a : a = c.value
  OBVIOUS
<1>6. /\ a = <<s, Len(arenas[s])>> /\ c.mark = Len(arenas[s]) - 1
      /\ Len(arenas[s]) \in Nat \ {0} /\ a \in Addresses(arenas)
      /\ \A b \in Published : /\ b \in Addresses(arenas) /\ b[1] \in ArenaIds
                              /\ b[2] \in 1..Len(arenas[b[1]])
                              /\ b[1] = s => b[2] # Len(arenas[s])
  BY <1>1, <1>3, <1>4, <1>5, OwnedFacts
<1>7. /\ At(arenas, a).key = c.key /\ At(arenas, a).actions = c.actions
      /\ Absent(Active(s), arenas, c.key)
      /\ c.place = Locate(Active(s), ShardStart(c.key, Capacity(Active(s))), {}).index
  BY <1>3, <1>4, <1>5, NodeIsAt DEF Inserting
<1>8. CASE GiveUp(t, "failed")
  BY <1>2, <1>8, GiveUpKeeps
<1>9. CASE /\ arenas' = [arenas EXCEPT ![a[1]][a[2]].ready = TRUE]
           /\ Goto(t, "grow") /\ UNCHANGED call
  <2>1. arenas \in [ArenaIds -> Seq(Records)] /\ s \in ArenaIds /\ arenas[s] \in Seq(Records)
    BY <1>1 DEF TypeOK, Arenas, ArenaIds
  <2>2. PICK n \in Nat \ {0} : n = Len(arenas[s])
    BY <1>6
  <2>3. a[1] = s /\ a[2] = n
    BY <1>6, <2>2
  <2>4. PICK node \in Records : node = arenas[s][n]
    BY <2>1, <2>2
  <2>5. PICK new \in Records : /\ new = [node EXCEPT !.ready = TRUE] /\ new.ready
                               /\ new.key = node.key /\ new.actions = node.actions
    <3> DEFINE new == [node EXCEPT !.ready = TRUE]
    <3>1. new \in Records /\ new.ready = TRUE /\ new.key = node.key /\ new.actions = node.actions
      BY DEF Records
    <3> HIDE DEF new
    <3>2. new = [node EXCEPT !.ready = TRUE]
      BY DEF new
    <3> QED BY <3>1, <3>2
  <2>6. PICK q \in Seq(Records) : /\ q = [arenas[s] EXCEPT ![n] = new] /\ Len(q) = n /\ q[n] = new
                                  /\ \A i \in 1..n : i # n => q[i] = arenas[s][i]
    <3> DEFINE q == [arenas[s] EXCEPT ![n] = new]
    <3>1. /\ q \in Seq(Records) /\ Len(q) = n /\ q[n] = new
          /\ \A i \in 1..n : i # n => q[i] = arenas[s][i]
      BY <2>1, <2>2
    <3> HIDE DEF q
    <3>2. q = [arenas[s] EXCEPT ![n] = new]
      BY DEF q
    <3> QED BY <3>1, <3>2
  <2>7. arenas' = [arenas EXCEPT ![s] = q]
    BY <1>9, <2>1, <2>2, <2>3, <2>4, <2>5, <2>6
  <2>8. /\ arenas' \in [ArenaIds -> Seq(Records)] /\ arenas'[s] = q
        /\ \A i \in ArenaIds : i # s => arenas'[i] = arenas[i]
    BY <2>1, <2>7
  <2>9. \A b \in Published : b \in Addresses(arenas') /\ At(arenas', b) = At(arenas, b)
    <3> TAKE b \in Published
    <3>1. b \in AllAddresses
      BY <1>6 DEF Addresses
    <3>2. CASE b[1] = s
      <4>1. b[2] \in 1..n /\ b[2] # n
        BY <1>6, <2>2, <3>2
      <4> QED BY <2>6, <2>8, <3>1, <3>2, <4>1 DEF Addresses, At
    <3>3. CASE b[1] # s
      BY <1>6, <2>8, <3>1, <3>3 DEF Addresses, At
    <3> QED BY <3>2, <3>3
  <2>10. StoreInv' /\ NodesKept /\ SlotsKept /\ Published' = Published
    BY <1>1, <1>2, <2>9, NodesStay
  <2>11. Others(t) /\ pc'[t] = "grow" /\ call'[t] = c
    <3>1. "grow" \in Places /\ pc' = [pc EXCEPT ![t] = "grow"] /\ call' = call
      BY <1>9 DEF Places, Goto
    <3> QED BY <1>1, <3>1, StaysFacts, MovesFacts
  <2>12. Inserting(t)'
    <3>1. Active(s)' = Active(s) /\ sizes' = sizes
      BY <1>2 DEF Active
    <3>2. Absent(Active(s), arenas', c.key)
      BY <1>7, <2>10, ActiveIsPublished DEF Absent, NodesKept
    <3>3. Len(arenas'[s]) = Len(arenas[s]) /\ At(arenas', a) = new
      BY <2>2, <2>3, <2>6, <2>8 DEF At
    <3>4. At(arenas, a) = node
      BY <2>3, <2>4 DEF At
    <3>5. /\ At(arenas', a).key = c.key /\ At(arenas', a).actions = c.actions /\ At(arenas', a).ready
      BY <1>7, <2>5, <3>3, <3>4
    <3>6. Len(arenas[s]) >= 1
      BY <1>6
    <3> QED BY <1>4, <1>5, <1>6, <1>7, <2>11, <3>1, <3>2, <3>3, <3>5, <3>6
            DEF Inserting, KeyAt, Node, At
  <2>13. Placed(t)'
    BY <1>2, <1>3, <1>4, <2>11, <2>12 DEF Placed, GlobalOps
  <2>14. ThreadInv(t)'
    BY <1>3, <2>10, <2>11, <2>13 DEF ThreadInv
  <2>15. Frame(t)
    BY <1>2, <1>4, <2>8, <2>10, <2>11 DEF Frame, ShardsKept, ArenaIds
  <2>16. TypeOK'
    BY <1>1, <1>2, <2>8, <2>11 DEF TypeOK, Others, Arenas
  <2> QED BY <2>10, <2>14, <2>15, <2>16, StepKeeps
<1> QED BY <1>5, <1>8, <1>9 DEF Initialize

\* The table grows when it is full to its limit.
LEMMA GrowKeeps ==
  ASSUME IInv, NEW t \in Threads, Grow(t)
  PROVE  IInv' /\ Frame(t)
<1> DEFINE c == call[t]
<1>1. TypeOK /\ StoreInv /\ ThreadInv(t) /\ Placed(t) /\ c \in Calls
  BY StaysFacts DEF IInv, ThreadInv
<1>2. pc[t] = "grow" /\ UNCHANGED <<sizes, writer, reserves, given>>
  BY DEF Grow
<1>3. c.op = "get_or_create" /\ c.key \in Keys /\ c.before \subseteq Published /\ Inserting(t)
  BY <1>1, <1>2 DEF Placed, ThreadInv, NodeOps
<1>4. PICK s \in Shards : s = ShardOf(c.key) /\ writer[s] = t
  BY <1>1, <1>2, <1>3, ShardFacts DEF Placed
<1>5. PICK table : table = Active(s)
  OBVIOUS
<1>6. /\ SoundTable(table, arenas, s) /\ arenas \in Arenas /\ sizes[s] = Cardinality(Occupied(table))
      /\ sizes[s] <= LoadLimit(Capacity(table)) /\ sizes[s] \in Nat
  BY <1>1, <1>5 DEF StoreInv, ShardInv, TypeOK
<1>7. PICK cap \in PowersOfTwo : cap = Capacity(table) /\ cap >= 4 /\ cap \in Nat
  BY <1>6, CapacityFacts DEF SoundTable
<1>8. /\ LoadLimit(cap) \in Nat /\ LoadLimit(cap) < cap /\ LoadLimit(cap) + 1 <= LoadLimit(2 * cap)
      /\ LoadLimit(2 * cap) < 2 * cap /\ LoadLimit(2 * cap) \in Nat
  <2>1. 2 * cap \in Nat /\ 2 * cap >= 4
    BY <1>7
  <2> QED BY <1>7, <2>1, LoadLimitFacts
<1>9. Cardinality(Occupied(table)) < Capacity(table)
  BY <1>6, <1>7, <1>8
<1>10. /\ c.value = <<s, Len(arenas[s])>> /\ c.mark = Len(arenas[s]) - 1 /\ Len(arenas[s]) >= 1
       /\ At(arenas, c.value).key = c.key /\ At(arenas, c.value).actions = c.actions
       /\ At(arenas, c.value).ready /\ Absent(table, arenas, c.key)
       /\ c.place = Locate(table, ShardStart(c.key, Capacity(table)), {}).index
  BY <1>2, <1>3, <1>4, <1>5, NodeIsAt DEF Inserting
<1>11. LocateKey(table, c.key).result # "full"
  <2>1. \E i : FreeSlot(table, c.key, i)
               /\ LocateKey(table, c.key) = Locate(table, ShardStart(c.key, Capacity(table)), {})
    <3>1. \A i \in Occupied(table) : At(arenas, table[i].node).key # c.key
      BY <1>10 DEF Absent, NodesIn
    <3> QED BY <1>3, <1>6, <1>9, <3>1, LocateKeyFacts, LocateKeyIsIn
  <2> QED BY <2>1 DEF FreeSlot
<1>12. NeedsGrowth(t) <=> sizes[s] >= LoadLimit(cap)
  BY <1>4, <1>5, <1>7, <1>11 DEF NeedsGrowth
<1>13. CASE ~NeedsGrowth(t)
  <2>1. UNCHANGED <<tables, growths, arenas, call>> /\ Goto(t, "publish")
    BY <1>13 DEF Grow
  <2>2. Quiet /\ UNCHANGED writer
    BY <1>2, <2>1 DEF Quiet
  <2>3. Others(t) /\ pc'[t] = "publish" /\ call'[t] = c
    <3>1. "publish" \in Places /\ pc' = [pc EXCEPT ![t] = "publish"] /\ call' = call
      BY <2>1 DEF Places, Goto
    <3> QED BY <1>1, <3>1, StaysFacts, MovesFacts
  <2>4. Inserting(t)'
    <3>1. Active(s)' = table /\ sizes' = sizes /\ arenas' = arenas
      BY <1>5, <2>2 DEF Active, Quiet
    <3>2. sizes[s] < LoadLimit(Capacity(table))
      BY <1>6, <1>7, <1>8, <1>12, <1>13
    <3> QED BY <1>4, <1>10, <2>3, <3>1, <3>2 DEF Inserting, KeyAt, Node, At
  <2>5. Placed(t)'
    BY <1>2, <1>3, <1>4, <2>3, <2>4 DEF Placed, GlobalOps
  <2>6. ThreadInv(t)'
    BY <1>1, <1>3, <2>2, <2>3, <2>5, QuietFacts DEF ThreadInv
  <2>7. writer' \in [Shards -> Threads \union {Nobody}] /\ \A n \in Shards : writer'[n] = writer[n]
    BY <1>1, <1>2 DEF TypeOK
  <2> QED BY <2>2, <2>3, <2>6, <2>7, QuietKeeps
<1>14. CASE GiveUp(t, "out_of_memory") /\ UNCHANGED <<tables, growths>>
  BY <1>2, <1>14, GiveUpKeeps
<1>15. PICK new : new = Rehashed(table, 2 * cap)
  OBVIOUS
<1>16. ASSUME 2 * cap <= MaxCapacity
       PROVE  /\ 2 * cap \in PowersOfTwo /\ 2 * cap >= Capacity(Active(s)) /\ new # NULL
              /\ Absent(new, arenas, c.key) /\ Capacity(new) = 2 * cap
              /\ \E i : /\ FreeSlot(new, c.key, i)
                        /\ LocateKey(new, c.key) = [result |-> "empty", index |-> i]
  <2>1. 2 * cap \in PowersOfTwo
    <3>1. Pow2(1) = 2
      <4>1. 0 \in Nat /\ 0 + 1 = 1
        OBVIOUS
      <4> QED BY <4>1, Pow2Facts
    <3>2. cap * Pow2(1) = 2 * cap
      BY <1>7, <3>1
    <3> QED BY <1>16, <3>2, DoubledFacts
  <2>2. 2 * cap >= Capacity(Active(s))
    BY <1>5, <1>7
  <2>3. PICK d \in PowersOfTwo : d = 2 * cap
    BY <2>1
  <2>4. /\ SoundTable(new, arenas, s) /\ Capacity(new) = d /\ new # NULL
        /\ NodesIn(new) = NodesIn(table) /\ Cardinality(Occupied(new)) = sizes[s]
    BY <1>1, <1>5, <1>15, <2>2, <2>3, RehashedSound
  <2>5. Absent(new, arenas, c.key)
    BY <1>10, <2>4 DEF Absent
  <2>6. \A i \in Occupied(new) : At(arenas, new[i].node).key # c.key
    BY <2>5 DEF Absent, NodesIn
  <2>7. Cardinality(Occupied(new)) < Capacity(new)
    BY <1>6, <1>7, <1>8, <2>3, <2>4
  <2>8. \E i : FreeSlot(new, c.key, i)
               /\ LocateKey(new, c.key) = Locate(new, ShardStart(c.key, Capacity(new)), {})
    BY <1>3, <1>6, <2>4, <2>6, <2>7, LocateKeyFacts, LocateKeyIsIn
  <2> QED BY <2>1, <2>2, <2>3, <2>4, <2>5, <2>8 DEF FreeSlot
<1>17. ASSUME 2 * cap <= MaxCapacity, tables' = [tables EXCEPT ![s] = Append(@, new)],
              growths' = [growths EXCEPT ![s] = @ + 1], UNCHANGED arenas, Goto(t, "publish"),
              NEW i, FreeSlot(new, c.key, i), call' = [call EXCEPT ![t].place = i]
       PROVE  IInv' /\ Frame(t)
  <2>1. PICK d \in PowersOfTwo : d = 2 * cap /\ d >= Capacity(Active(s))
    BY <1>16, <1>17
  <2>2. /\ Absent(new, arenas, c.key) /\ Capacity(new) = d
    BY <1>16, <1>17, <2>1
  <2>3. /\ \A n \in Shards : ShardInv(n)'
        /\ NodesKept /\ SlotsKept /\ Published' = Published
        /\ \A n \in Shards : n # s => tables'[n] = tables[n]
        /\ Active(s)' = new
        /\ tables' \in [Shards -> {tables'[n] : n \in Shards}]
    BY <1>1, <1>2, <1>5, <1>15, <1>17, <2>1, TableAppended
  <2>4. StoreInv'
    <3>1. \A a : KeyAt(a)' = KeyAt(a)
      BY <1>17 DEF KeyAt, Node
    <3> QED BY <1>1, <1>2, <2>3, <3>1 DEF StoreInv, KeyAt, Node
  <2> DEFINE r == [c EXCEPT !.place = i]
  <2>5. call' = [call EXCEPT ![t] = r]
    BY <1>1, <1>17 DEF TypeOK
  <2>6. /\ r \in Calls /\ r.op = c.op /\ r.key = c.key /\ r.actions = c.actions
        /\ r.before = c.before /\ r.mark = c.mark /\ r.place = i /\ r.value = c.value
    <3>1. i \in Nat
      BY <1>17 DEF FreeSlot
    <3> QED BY <1>1, <3>1 DEF Calls
  <2> HIDE DEF r
  <2>7. Others(t) /\ pc'[t] = "publish" /\ call'[t] = r
    <3>1. "publish" \in Places /\ pc' = [pc EXCEPT ![t] = "publish"]
      BY <1>17 DEF Places, Goto
    <3>2. r \in Calls
      BY <2>6
    <3> HIDE DEF c
    <3> QED BY <1>1, <2>5, <3>1, <3>2, MovesFacts
  <2>8. Inserting(t)'
    <3>1. sizes' = sizes /\ arenas' = arenas
      BY <1>2, <1>17
    <3>2. sizes[s] < LoadLimit(Capacity(new))
      BY <1>6, <1>7, <1>8, <2>1, <2>2
    <3>3. r.place = Locate(new, ShardStart(r.key, Capacity(new)), {}).index
      BY <1>17, <2>6 DEF FreeSlot
    <3>4. ShardOf(r.key) = s
      BY <1>4, <2>6
    <3> QED BY <1>10, <2>2, <2>3, <2>6, <2>7, <3>1, <3>2, <3>3, <3>4 DEF Inserting, KeyAt, Node, At
  <2>9. Placed(t)'
    BY <1>2, <1>3, <1>4, <2>6, <2>7, <2>8 DEF Placed, GlobalOps
  <2>10. ThreadInv(t)'
    BY <1>3, <2>3, <2>6, <2>7, <2>9 DEF ThreadInv
  <2>11. Frame(t)
    BY <1>2, <1>4, <1>17, <2>3, <2>7 DEF Frame, ShardsKept
  <2>12. TypeOK'
    <3>1. growths' \in [Shards -> Nat]
      BY <1>1, <1>17, SMTT(20) DEF TypeOK
    <3> QED BY <1>1, <1>2, <1>17, <2>3, <2>7, <3>1 DEF TypeOK, Others
  <2> QED BY <2>4, <2>10, <2>11, <2>12, StepKeeps
<1>18. CASE NeedsGrowth(t)
  <2>1. GrownCapacity(Active(s)) = 2 * cap
    BY <1>5, <1>7 DEF GrownCapacity
  <2>2. \/ /\ 2 * cap <= MaxCapacity
           /\ IF new = NULL
              THEN GiveUp(t, "corrupt") /\ UNCHANGED <<tables, growths>>
              ELSE /\ tables' = [tables EXCEPT ![s] = Append(@, new)]
                   /\ growths' = [growths EXCEPT ![s] = @ + 1]
                   /\ \E found \in {LocateKey(new, c.key)} :
                        IF found.result = "empty"
                        THEN /\ call' = [call EXCEPT ![t].place = found.index]
                             /\ Goto(t, "publish") /\ UNCHANGED arenas
                        ELSE GiveUp(t, "corrupt")
        \/ GiveUp(t, "out_of_memory") /\ UNCHANGED <<tables, growths>>
    BY <1>4, <1>5, <1>15, <1>18, <2>1 DEF Grow, Extended
  <2>3. ASSUME 2 * cap <= MaxCapacity,
               IF new = NULL
               THEN GiveUp(t, "corrupt") /\ UNCHANGED <<tables, growths>>
               ELSE /\ tables' = [tables EXCEPT ![s] = Append(@, new)]
                    /\ growths' = [growths EXCEPT ![s] = @ + 1]
                    /\ \E found \in {LocateKey(new, c.key)} :
                         IF found.result = "empty"
                         THEN /\ call' = [call EXCEPT ![t].place = found.index]
                              /\ Goto(t, "publish") /\ UNCHANGED arenas
                         ELSE GiveUp(t, "corrupt")
        PROVE  IInv' /\ Frame(t)
    <3>1. PICK i : /\ FreeSlot(new, c.key, i) /\ new # NULL
                   /\ LocateKey(new, c.key) = [result |-> "empty", index |-> i]
      BY <1>16, <2>3
    <3>2. /\ tables' = [tables EXCEPT ![s] = Append(@, new)]
          /\ growths' = [growths EXCEPT ![s] = @ + 1]
          /\ call' = [call EXCEPT ![t].place = i]
          /\ Goto(t, "publish") /\ UNCHANGED arenas
      BY <2>3, <3>1
    <3> QED BY <1>17, <2>3, <3>1, <3>2
  <2> QED BY <1>14, <2>2, <2>3
<1> QED BY <1>13, <1>18

\* A shard that takes a node.
LEMMA TableEntered ==
  ASSUME TypeOK, StoreInv, NEW s \in Shards, NEW key \in Keys, ShardOf(key) = s,
         NEW a \in Addresses(arenas), At(arenas, a).key = key, At(arenas, a).ready,
         Absent(Active(s), arenas, key), NEW i, FreeSlot(Active(s), key, i),
         sizes[s] < LoadLimit(Capacity(Active(s))),
         tables' = [tables EXCEPT ![s][Len(tables[s])][i] = [node |-> a, mark |-> ShardMark(key)]],
         sizes' = [sizes EXCEPT ![s] = @ + 1], UNCHANGED arenas
  PROVE  /\ \A n \in Shards : ShardInv(n)'
         /\ NodesKept /\ SlotsKept /\ Published' = Published \union {a}
         /\ \A n \in Shards : n # s => tables'[n] = tables[n] /\ sizes'[n] = sizes[n]
         /\ tables' \in [Shards -> {tables'[n] : n \in Shards}] /\ sizes' \in [Shards -> Nat]
<1>1. PICK slot : slot = [node |-> a, mark |-> ShardMark(key)]
  OBVIOUS
<1>2. PICK table : table = Active(s)
  OBVIOUS
<1>3. PICK new : new = Entered(table, i, slot)
  OBVIOUS
<1>4. PICK chain : chain = tables[s]
  OBVIOUS
<1>5. /\ IsChain(chain) /\ SoundTable(table, arenas, s) /\ arenas \in Arenas
      /\ sizes[s] = Cardinality(Occupied(table)) /\ sizes[s] \in Nat
      /\ \A n \in DOMAIN chain : /\ IsTable(chain[n], Capacity(chain[n]))
                                 /\ Capacity(chain[n]) \in PowersOfTwo
                                 /\ NodesIn(chain[n]) \subseteq NodesIn(table)
  BY <1>2, <1>4 DEF TypeOK, StoreInv, ShardInv
<1>6. /\ SoundTable(new, arenas, s) /\ Capacity(new) = Capacity(table)
      /\ NodesIn(new) = NodesIn(table) \union {a}
      /\ Cardinality(Occupied(new)) = sizes[s] + 1
      /\ \A j \in Occupied(table) : new[j] = table[j]
  BY <1>1, <1>2, <1>3, <1>5, InsertSound
<1>7. PICK other : other = Replaced(chain, new)
  OBVIOUS
<1>8. /\ Len(chain) \in Nat \ {0} /\ DOMAIN chain = 1..Len(chain) /\ IsChain(other)
      /\ Len(other) = Len(chain) /\ DOMAIN other = 1..Len(chain) /\ other[Len(chain)] = new
      /\ \A n \in 1..(Len(chain) - 1) : other[n] = chain[n]
  <2>1. Len(chain) \in Nat \ {0} /\ DOMAIN chain = 1..Len(chain)
    BY <1>5, ChainFacts
  <2> QED BY <1>5, <1>7, <2>1, ReplacedFacts
<1>9. tables \in [Shards -> {tables[n] : n \in Shards}] /\ sizes \in [Shards -> Nat]
  BY DEF TypeOK
<1>10. tables' = [tables EXCEPT ![s] = other]
  <2>1. table = chain[Len(chain)]
    BY <1>2, <1>4 DEF Active
  <2> QED BY <1>1, <1>3, <1>4, <1>7, <1>8, <1>9, <2>1 DEF Entered, Replaced
<1>11. /\ tables'[s] = other /\ sizes'[s] = sizes[s] + 1 /\ arenas' = arenas
       /\ \A n \in Shards : n # s => tables'[n] = tables[n] /\ sizes'[n] = sizes[n]
       /\ tables' \in [Shards -> {tables'[n] : n \in Shards}] /\ sizes' \in [Shards -> Nat]
  BY <1>5, <1>9, <1>10
<1>12. Active(s)' = new /\ \A n \in Shards : n # s => Active(n)' = Active(n)
  BY <1>8, <1>11 DEF Active
<1>13. \A n \in 1..Len(chain) : n = Len(chain) \/ n \in 1..(Len(chain) - 1)
  BY <1>8
<1>14. ShardInv(s)'
  <2>1. IsTable(new, Capacity(new)) /\ Capacity(new) \in PowersOfTwo
    BY <1>6 DEF SoundTable
  <2>2. \A n \in DOMAIN other : /\ IsTable(other[n], Capacity(other[n]))
                                /\ Capacity(other[n]) \in PowersOfTwo
                                /\ NodesIn(other[n]) \subseteq NodesIn(new)
    BY <1>5, <1>6, <1>8, <1>13, <2>1
  <2>3. sizes[s] + 1 <= LoadLimit(Capacity(new))
    <3>1. Capacity(table) \in Nat /\ Capacity(table) >= 4
      BY <1>5, CapacityFacts DEF SoundTable
    <3>2. LoadLimit(Capacity(table)) \in Nat
      BY <3>1, LoadLimitFacts
    <3> QED BY <1>2, <1>5, <1>6, <3>2
  <2>4. /\ IsChain(tables'[s]) /\ SoundTable(Active(s)', arenas', s)
        /\ sizes'[s] = Cardinality(Occupied(Active(s)'))
        /\ sizes'[s] <= LoadLimit(Capacity(Active(s)'))
    BY <1>6, <1>8, <1>11, <1>12, <2>3
  <2>5. \A n \in DOMAIN tables'[s] :
          /\ IsTable(tables'[s][n], Capacity(tables'[s][n]))
          /\ Capacity(tables'[s][n]) \in PowersOfTwo
          /\ NodesIn(tables'[s][n]) \subseteq NodesIn(Active(s)')
    <3>1. tables'[s] = other /\ Active(s)' = new
      BY <1>11, <1>12
    <3> QED BY <2>2, <3>1, Zenon
  <2> QED BY <2>4, <2>5 DEF ShardInv
<1>15. \A n \in Shards : ShardInv(n)'
  <2> TAKE n \in Shards
  <2>1. CASE n # s
    BY <1>11, <1>12, <2>1 DEF StoreInv, ShardInv
  <2> QED BY <1>14, <2>1
<1>16. Published' = Published \union {a}
  <2>1. \A n \in Shards : n # s => NodesIn(Active(n)') = NodesIn(Active(n))
    BY <1>12
  <2>2. NodesIn(Active(s)') = NodesIn(Active(s)) \union {a}
    BY <1>2, <1>6, <1>12
  <2> QED BY <2>1, <2>2 DEF Published
<1>17. SlotsKept
  <2>1. DOMAIN new = DOMAIN table
    BY <1>5, <1>6, TableFacts DEF SoundTable
  <2>2. ChainKept(chain, other)
    <3>1. \A n \in DOMAIN chain :
            /\ n \in DOMAIN other /\ DOMAIN other[n] = DOMAIN chain[n]
            /\ \A j \in Occupied(chain[n]) : other[n][j] = chain[n][j]
      <4>1. chain[Len(chain)] = table
        BY <1>2, <1>4 DEF Active
      <4> QED BY <1>6, <1>8, <1>13, <2>1, <4>1
    <3> QED BY <1>8, <3>1 DEF ChainKept
  <2>3. \A n \in Shards : n # s => ChainKept(tables[n], tables'[n])
    <3>1. \A n \in Shards : Len(tables[n]) \in Nat
      BY ChainFacts DEF StoreInv, ShardInv
    <3> QED BY <1>11, <3>1 DEF ChainKept
  <2> QED BY <1>4, <1>11, <2>2, <2>3 DEF SlotsKept
<1> QED BY <1>11, <1>15, <1>16, <1>17 DEF NodesKept

\* The node is published.
LEMMA PublishKeeps ==
  ASSUME IInv, NEW t \in Threads, Publish(t)
  PROVE  IInv' /\ Frame(t)
<1> DEFINE c == call[t]
<1>1. TypeOK /\ StoreInv /\ ThreadInv(t) /\ Placed(t) /\ c \in Calls
  BY StaysFacts DEF IInv, ThreadInv
<1>2. pc[t] = "publish" /\ UNCHANGED <<arenas, writer, growths, reserves, given>>
  BY DEF Publish
<1>3. c.op = "get_or_create" /\ c.key \in Keys /\ c.before \subseteq Published /\ Inserting(t)
  BY <1>1, <1>2 DEF Placed, ThreadInv, NodeOps
<1>4. PICK s \in Shards : s = ShardOf(c.key) /\ writer[s] = t
  BY <1>1, <1>2, <1>3, ShardFacts DEF Placed
<1>5. PICK key \in Keys : key = c.key
  BY <1>3
<1>6. PICK a \in Addresses(arenas) : a = c.value
  BY <1>1, <1>3, <1>4, OwnedFacts
<1>7. /\ At(arenas, a).key = key /\ At(arenas, a).actions = c.actions /\ At(arenas, a).ready
      /\ Absent(Active(s), arenas, key) /\ sizes[s] < LoadLimit(Capacity(Active(s)))
      /\ c.place = Locate(Active(s), ShardStart(key, Capacity(Active(s))), {}).index
  BY <1>2, <1>3, <1>4, <1>5, <1>6, NodeIsAt DEF Inserting
<1>8. FreeSlot(Active(s), key, c.place)
  <2>1. PICK table : table = Active(s)
    OBVIOUS
  <2>2. SoundTable(table, arenas, s) /\ arenas \in Arenas /\ sizes[s] = Cardinality(Occupied(table))
    BY <1>1, <2>1 DEF StoreInv, ShardInv, TypeOK
  <2>3. Cardinality(Occupied(table)) < Capacity(table)
    <3>1. Capacity(table) \in Nat /\ Capacity(table) >= 4 /\ Cardinality(Occupied(table)) \in Nat
      BY <2>2, EntryFacts DEF SoundTable
    <3> QED BY <1>7, <2>1, <2>2, <3>1, LoadLimitFacts
  <2>4. \A i \in Occupied(table) : At(arenas, table[i].node).key # key
    BY <1>7, <2>1 DEF Absent, NodesIn
  <2>5. \E i : FreeSlot(table, key, i)
    BY <2>2, <2>3, <2>4, LocateKeyFacts
  <2> QED BY <1>7, <2>1, <2>5 DEF FreeSlot
<1>9. PICK i : i = c.place
  OBVIOUS
<1>10. /\ tables' = [tables EXCEPT ![s][Len(tables[s])][i] = [node |-> a, mark |-> ShardMark(key)]]
       /\ sizes' = [sizes EXCEPT ![s] = @ + 1]
  BY <1>4, <1>5, <1>6, <1>9 DEF Publish
<1>11. /\ \A n \in Shards : ShardInv(n)'
       /\ NodesKept /\ SlotsKept /\ Published' = Published \union {a}
       /\ \A n \in Shards : n # s => tables'[n] = tables[n] /\ sizes'[n] = sizes[n]
       /\ tables' \in [Shards -> {tables'[n] : n \in Shards}] /\ sizes' \in [Shards -> Nat]
  BY <1>1, <1>2, <1>4, <1>5, <1>7, <1>8, <1>9, <1>10, TableEntered, Zenon
<1>12. StoreInv'
  <2>1. \A b : KeyAt(b)' = KeyAt(b)
    BY <1>2 DEF KeyAt, Node
  <2> QED BY <1>1, <1>2, <1>11, <2>1 DEF StoreInv, KeyAt, Node
<1>13. PICK r \in Calls : r = [c EXCEPT !.status = "success"]
  BY <1>1 DEF Calls, Statuses
<1>14. /\ r.op = c.op /\ r.key = c.key /\ r.actions = c.actions
       /\ r.before = c.before /\ r.value = c.value /\ r.status = "success"
       /\ call' = [call EXCEPT ![t] = r] /\ pc' = [pc EXCEPT ![t] = "unlock"]
  BY <1>1, <1>13 DEF Publish, Goto, TypeOK, Calls
<1>15. Others(t) /\ pc'[t] = "unlock" /\ call'[t] = r
  <2>1. "unlock" \in Places
    BY DEF Places
  <2> HIDE DEF c
  <2> QED BY <1>1, <1>14, <2>1, MovesFacts
<1>16. Placed(t)'
  BY <1>2, <1>3, <1>4, <1>14, <1>15 DEF Placed, GlobalOps
<1>17. Answered(t)'
  <2>1. r.op \in NodeOps /\ r.op # "snapshot" /\ r.op # "get_stats"
    BY <1>3, <1>14 DEF NodeOps
  <2>2. /\ r.value \in Published' /\ (Node(r.value)').ready /\ KeyAt(r.value)' = r.key
        /\ (Node(r.value)').actions = r.actions
    <3>1. Node(a)' = At(arenas, a) /\ KeyAt(a)' = At(arenas, a).key
      BY <1>2 DEF Node, KeyAt, At
    <3> QED BY <1>5, <1>6, <1>7, <1>11, <1>14, <3>1
  <2> QED BY <1>14, <1>15, <2>1, <2>2 DEF Answered, KeyAt, Node
<1>18. ThreadInv(t)'
  BY <1>3, <1>11, <1>14, <1>15, <1>16, <1>17 DEF ThreadInv
<1>19. Frame(t)
  BY <1>2, <1>4, <1>11, <1>15 DEF Frame, ShardsKept
<1>20. TypeOK'
  BY <1>1, <1>2, <1>11, <1>15 DEF TypeOK, Others
<1> QED BY <1>12, <1>18, <1>19, <1>20, StepKeeps

-----------------------------------------------------------------------------
(* The store when it is prepared.                                          *)

\* No doubling that holds the nodes is smaller than the capacity for them.
LEMMA CapacityForLeast ==
  ASSUME NEW nodes \in Nat, NEW c \in Nat, c >= 4, NEW d \in Nat, nodes <= LoadLimit(c * Pow2(d))
  PROVE  CapacityFor(nodes, c) <= c * Pow2(d)
<1> DEFINE Fits(k) == nodes <= LoadLimit(c * Pow2(k))
           IsLeast(k) == Fits(k) /\ \A e \in 0..(k - 1) : ~Fits(e)
           least == CHOOSE k \in 0..nodes : IsLeast(k)
           T == {k \in 0..nodes : Fits(k)}
<1>1. Fits(nodes)
  <2> DEFINE x == Pow2(nodes)
  <2>1. x \in Nat /\ x >= nodes + 1
    BY Pow2Facts, Pow2Grows
  <2> HIDE DEF x
  <2>2. c * x >= 4 * x /\ c * x \in Nat
    BY <2>1
  <2>3. \A y \in Nat : y >= 4 * x => y - y \div 4 >= nodes
    BY <2>1
  <2> QED BY <2>2, <2>3 DEF LoadLimit, x
<1>2. PICK k \in T : \A e \in T : k <= e
  <2>1. T \subseteq Nat /\ T # {}
    BY <1>1
  <2> HIDE DEF T
  <2> QED BY <2>1, LeastNat
<1>3. IsLeast(k) /\ k \in 0..nodes
  BY <1>2
<1>4. IsLeast(least) /\ least \in 0..nodes
  <2> HIDE DEF IsLeast
  <2> QED BY <1>3
<1>5. CapacityFor(nodes, c) = c * Pow2(least)
  BY DEF CapacityFor
<1> HIDE DEF least
<1>6. ~(d < least)
  BY <1>4
<1>7. \A x, y \in Nat : x <= y => c * x <= c * y
  OBVIOUS
<1>8. Pow2(least) \in Nat /\ Pow2(d) \in Nat /\ Pow2(least) <= Pow2(d)
  <2>1. least \in Nat
    BY <1>4
  <2>2. least = d \/ least < d
    BY <1>6, <2>1
  <2>3. Pow2(least) \in Nat /\ Pow2(d) \in Nat
    BY <2>1, Pow2Facts
  <2> QED BY <2>1, <2>2, <2>3, Pow2Order
<1> QED BY <1>5, <1>7, <1>8

\* The capacity of the store's table is that of the smallest table of a shard, doubled.
LEMMA BaseFacts ==
  ASSUME NEW c \in PowersOfTwo, NEW e \in Nat, c = MinCapacity * Pow2(e)
  PROVE  LET share == c \div ShardCount
             base == IF share < MinCapacity THEN MinCapacity ELSE share
         IN  /\ base \in PowersOfTwo /\ base >= 4 /\ base \in Nat
             /\ \E d \in Nat : c = base * Pow2(d)
<1> DEFINE share == c \div ShardCount
           base == IF share < MinCapacity THEN MinCapacity ELSE share
<1>1. /\ MinCapacity \in PowersOfTwo /\ MinCapacity \in Nat /\ MinCapacity >= 4
      /\ c \in Nat \ {0} /\ ShardCount \in Nat \ {0} /\ share \in Nat
  <2>1. MinCapacity \in PowersOfTwo /\ MinCapacity >= 4
    BY StoreTableAssumption
  <2>2. MinCapacity \in Nat /\ c \in Nat \ {0} /\ ShardCount \in Nat \ {0}
    BY <2>1, CapacityFacts, ShardFacts
  <2> QED BY <2>1, <2>2
<1>2. CASE share < MinCapacity
  <2>1. base = MinCapacity
    BY <1>2
  <2> HIDE DEF base
  <2> QED BY <1>1, <2>1 DEF base
<1>3. CASE ~(share < MinCapacity)
  <2>1. base = share /\ share >= 4
    BY <1>1, <1>3
  <2>2. PICK b \in 1..HashBits : c = Pow2(b)
    BY DEF PowersOfTwo
  <2>3. ShardBits \in Nat /\ HashBits \in Nat /\ b \in Nat /\ b <= HashBits /\ ShardBits >= 1
    BY StoreTableAssumption
  <2>4. ShardBits < b
    <3> SUFFICES ASSUME ~(ShardBits < b) PROVE FALSE
      OBVIOUS
    <3>1. Pow2(b) <= Pow2(ShardBits)
      <4>1. b = ShardBits \/ b < ShardBits
        BY <2>3
      <4>2. Pow2(b) \in Nat
        BY <2>3, Pow2Facts
      <4>3. Pow2(ShardBits) \in Nat
        BY <2>3, Pow2Facts
      <4> QED BY <2>3, <4>1, <4>2, <4>3, Pow2Order
    <3>2. \A x, y \in Nat \ {0} : x <= y => x \div y <= 1
      OBVIOUS
    <3>3. c <= ShardCount
      BY <2>2, <3>1 DEF ShardCount
    <3>4. share <= 1
      BY <1>1, <3>2, <3>3
    <3> QED BY <1>1, <2>1, <3>4
  <2>5. PICK g \in 1..HashBits : g = b - ShardBits
    BY <2>3, <2>4
  <2>6. g \in Nat /\ g + ShardBits = b
    BY <2>3, <2>5
  <2>7. c = Pow2(g) * ShardCount
    BY <2>2, <2>3, <2>6, Pow2Adds DEF ShardCount
  <2>8. Pow2(g) \in Nat \ {0}
    BY <2>6, Pow2Facts
  <2>9. \A x, y \in Nat \ {0} : (x * y) \div y = x
    OBVIOUS
  <2>10. share = Pow2(g)
    BY <1>1, <2>7, <2>8, <2>9
  <2>11. share \in PowersOfTwo
    BY <2>10 DEF PowersOfTwo
  <2>12. c = share * Pow2(ShardBits)
    BY <2>7, <2>10 DEF ShardCount
  <2> HIDE DEF share, base
  <2> QED BY <1>1, <2>1, <2>3, <2>11, <2>12 DEF share, base
<1> QED BY <1>2, <1>3

\* The store's table before it is split: the preloaded keys, each once.
LEMMA PreloadFacts ==
  ASSUME Init
  PROVE  \E c \in PowersOfTwo :
           /\ arenas \in Arenas /\ IsTable(PreloadedTable, c) /\ Capacity(PreloadedTable) = c
           /\ c <= MaxCapacity /\ (\E e \in Nat : c = MinCapacity * Pow2(e))
           /\ Cardinality(Occupied(PreloadedTable)) <= LoadLimit(c)
           /\ \A i \in Occupied(PreloadedTable) :
                /\ PreloadedTable[i].node \in Addresses(arenas)
                /\ At(arenas, PreloadedTable[i].node).ready
           /\ \A i, j \in Occupied(PreloadedTable) :
                KeyAt(PreloadedTable[i].node) = KeyAt(PreloadedTable[j].node) => i = j
<1> DEFINE n == Len(Preloaded)
           list == [i \in 0..(n - 1) |-> [node |-> <<StoreArena, i + 1>>, mark |-> Preloaded[i + 1]]]
           c == CapacityFor(n, MinCapacity)
           keys == KeysIn(list)
           table == PreloadedTable
<1>1. /\ Preloaded \in Seq(Keys) /\ n \in Nat /\ DOMAIN Preloaded = 1..n
      /\ \A i, j \in 1..n : Preloaded[i] = Preloaded[j] => i = j
      /\ \A i \in 1..n : Preloaded[i] \in Keys
  BY ConcurrentStoreAssumption
<1>2. PICK count \in Nat : count = CHOOSE x \in ActionCounts : TRUE
  BY ConcurrentStoreAssumption
<1>3. PICK first \in Seq(Records) :
        first = [i \in DOMAIN Preloaded |-> [key |-> Preloaded[i], ready |-> TRUE, actions |-> count]]
  <2> DEFINE first == [i \in DOMAIN Preloaded |->
                         [key |-> Preloaded[i], ready |-> TRUE, actions |-> count]]
  <2>1. \A i \in 1..n : [key |-> Preloaded[i], ready |-> TRUE, actions |-> count] \in Records
    BY <1>1, <1>2 DEF Records
  <2>2. first \in [1..n -> Records]
    BY <1>1, <2>1
  <2> HIDE DEF first
  <2>3. \A R, m, q : m \in Nat /\ q \in [1..m -> R] => q \in Seq(R)
    OBVIOUS
  <2>4. first \in Seq(Records)
    BY <1>1, <2>2, <2>3
  <2> QED BY <2>4 DEF first
<1>4. /\ Len(first) = n
      /\ \A i \in 1..n : first[i].key = Preloaded[i] /\ first[i].ready
  BY <1>1, <1>3
<1>5. arenas \in Arenas /\ arenas[StoreArena] = first
  <2>1. /\ arenas = [s \in ArenaIds |-> IF s # StoreArena THEN <<>> ELSE first]
    BY <1>2, <1>3 DEF Init, ArenaIds
  <2>2. <<>> \in Seq(Records) /\ StoreArena \in ArenaIds
    BY DEF ArenaIds
  <2> QED BY <2>1, <2>2 DEF Arenas
<1>6. /\ DOMAIN list = 0..(n - 1) /\ Occupied(list) = 0..(n - 1)
      /\ \A i \in 0..(n - 1) : list[i].node = <<StoreArena, i + 1>> /\ i + 1 \in 1..n
  BY <1>1 DEF Occupied, NULL
<1>7. \A i \in 0..(n - 1) : /\ list[i].node \in Addresses(arenas)
                            /\ At(arenas, list[i].node) = first[i + 1]
  <2> TAKE i \in 0..(n - 1)
  <2>1. list[i].node \in AllAddresses /\ list[i].node[1] = StoreArena /\ list[i].node[2] = i + 1
    BY <1>6 DEF AllAddresses, ArenaIds
  <2> HIDE DEF list
  <2> QED BY <1>4, <1>5, <1>6, <2>1 DEF Addresses, At
<1>8. \A i \in 0..(n - 1) : /\ KeyAt(list[i].node) = Preloaded[i + 1] /\ At(arenas, list[i].node).ready
                            /\ keys[list[i].node] = Preloaded[i + 1]
                            /\ keys[list[i].node] \in Keys
  <2> TAKE i \in 0..(n - 1)
  <2>1. KeyAt(list[i].node) = first[i + 1].key /\ i + 1 \in 1..n
    BY <1>6, <1>7, NodeIsAt
  <2>2. list[i].node \in NodesIn(list)
    BY <1>6 DEF NodesIn
  <2> HIDE DEF list
  <2>3. keys[list[i].node] = KeyAt(list[i].node)
    BY <2>2 DEF KeysIn
  <2> QED BY <1>1, <1>4, <1>7, <2>1, <2>3
<1>9. /\ MinCapacity \in PowersOfTwo /\ MinCapacity \in Nat /\ MinCapacity >= 4
  BY StoreTableAssumption, CapacityFacts
<1>10. /\ (\E e \in Nat : c = MinCapacity * Pow2(e)) /\ c \in Nat /\ c >= MinCapacity /\ n <= LoadLimit(c)
  <2> HIDE DEF n
  <2> QED BY <1>1, <1>9, CapacityForFacts DEF n
<1>11. c <= MaxCapacity /\ c \in PowersOfTwo /\ c >= 4
  <2>1. c <= MaxCapacity
    BY ConcurrentStoreAssumption
  <2> HIDE DEF c
  <2> QED BY <1>9, <1>10, <2>1, DoubledFacts
<1>12. Cardinality(Occupied(list)) = n
  <2>0. 0 \in Int /\ n - 1 \in Int
    BY <1>1
  <2> HIDE DEF list, n
  <2>1. Cardinality(0..(n - 1)) = IF 0 > n - 1 THEN 0 ELSE (n - 1) - 0 + 1
    BY <2>0, FS_Interval
  <2> QED BY <1>1, <1>6, <2>1
<1>13. table = Rehash(list, c, keys, StoreStarts(c))
  BY DEF PreloadedTable
<1> HIDE DEF list, keys, table
<1>14. Distinct(list, keys)
  <2> HIDE DEF n
  <2> QED BY <1>1, <1>6, <1>8 DEF Distinct
<1>15. \A i \in Occupied(list) : StoreStarts(c)[keys[list[i].node]] \in Nat
  <2> HIDE DEF c
  <2> QED BY <1>6, <1>8, <1>11, StartFacts DEF StoreStarts
<1> HIDE DEF c
<1>16. c \in Nat \ {0} /\ LoadLimit(c) \in Nat /\ n < c
  <2> HIDE DEF n
  <2>1. c \in Nat \ {0}
    BY <1>10, <1>11
  <2>2. LoadLimit(c) \in Nat /\ LoadLimit(c) < c
    BY <1>10, <1>11, LoadLimitFacts
  <2> QED BY <1>1, <1>10, <2>1, <2>2
<1>17. /\ IsTable(table, c) /\ Distinct(table, keys)
       /\ \A i \in Occupied(table) : \E j \in Occupied(list) : table[i] = list[j]
       /\ Cardinality(Occupied(table)) = n
  <2>1. n \in Nat /\ DOMAIN list = 0..(n - 1) /\ c \in Nat \ {0}
    BY <1>1, <1>6, <1>16
  <2>2. Cardinality(Occupied(list)) < c
    BY <1>12, <1>16
  <2> HIDE DEF n
  <2> QED BY <1>12, <1>13, <1>14, <1>15, <2>1, <2>2, RehashKeepsEntries
<1>18. Capacity(table) = c
  BY <1>17, TableFacts
<1>19. \A i \in Occupied(table) : /\ table[i].node \in Addresses(arenas)
                                  /\ At(arenas, table[i].node).ready
                                  /\ keys[table[i].node] = KeyAt(table[i].node)
  <2> HIDE DEF n
  <2> QED BY <1>6, <1>7, <1>8, <1>17
<1>20. \A i, j \in Occupied(table) : KeyAt(table[i].node) = KeyAt(table[j].node) => i = j
  BY <1>17, <1>19 DEF Distinct
<1> QED BY <1>5, <1>10, <1>11, <1>17, <1>18, <1>19, <1>20 DEF table

\* The entries of the store's table that belong to a shard.
MineOf(s, table) ==
  [i \in DOMAIN table |->
     IF table[i].node # NULL /\ ShardOf(KeyAt(table[i].node)) = s
     THEN [node |-> table[i].node, mark |-> ShardMark(KeyAt(table[i].node))]
     ELSE EmptySlot]

BaseOf(table) ==
  LET share == Capacity(table) \div ShardCount
  IN IF share < MinCapacity THEN MinCapacity ELSE share

LEMMA PreparedIs ==
  \A s, table : PreparedTable(s, table)
                  = Rehashed(MineOf(s, table),
                             CapacityFor(Cardinality(Occupied(MineOf(s, table))), BaseOf(table)))
BY DEF PreparedTable, MineOf, BaseOf

\* The entries of a shard are sound, and no more than those of the table.
LEMMA MineFacts ==
  ASSUME NEW nodes \in Arenas, nodes = arenas, NEW table, NEW c \in Nat, IsTable(table, c),
         \A i \in Occupied(table) : /\ table[i].node \in Addresses(nodes)
                                    /\ At(nodes, table[i].node).ready,
         \A i, j \in Occupied(table) : KeyAt(table[i].node) = KeyAt(table[j].node) => i = j,
         NEW s \in Shards
  PROVE  LET mine == MineOf(s, table) IN
         /\ DOMAIN mine = 0..(c - 1) /\ NodesIn(mine) \subseteq Addresses(nodes)
         /\ Distinct(mine, KeyMap(mine, nodes))
         /\ \A i \in Occupied(mine) : Marked(mine[i], nodes, s)
         /\ Cardinality(Occupied(mine)) \in Nat
         /\ Cardinality(Occupied(mine)) <= Cardinality(Occupied(table))
<1> DEFINE mine == MineOf(s, table)
<1>1. /\ DOMAIN table = 0..(c - 1) /\ IsFiniteSet(Occupied(table))
      /\ Cardinality(Occupied(table)) \in Nat
  BY TableFacts
<1>2. DOMAIN mine = 0..(c - 1)
  BY <1>1 DEF MineOf
<1>3. \A i \in Occupied(mine) :
        /\ i \in Occupied(table) /\ mine[i].node = table[i].node
        /\ mine[i].mark = ShardMark(KeyAt(table[i].node)) /\ ShardOf(KeyAt(table[i].node)) = s
  BY DEF MineOf, Occupied, EmptySlot
<1> HIDE DEF mine
<1>4. Occupied(mine) \subseteq Occupied(table)
  BY <1>3
<1>5. /\ Cardinality(Occupied(mine)) \in Nat
      /\ Cardinality(Occupied(mine)) <= Cardinality(Occupied(table))
  BY <1>1, <1>4, FS_Subset, FS_CardinalityType
<1>6. NodesIn(mine) \subseteq Addresses(nodes)
  BY <1>3 DEF NodesIn
<1>7. \A i \in Occupied(mine) : Marked(mine[i], nodes, s)
  BY <1>3, NodeIsAt DEF Marked
<1>8. \A i \in Occupied(mine) : KeyMap(mine, nodes)[mine[i].node] = KeyAt(table[i].node)
  <2> TAKE i \in Occupied(mine)
  <2>1. mine[i].node \in NodesIn(mine)
    BY DEF NodesIn
  <2>2. KeyMap(mine, nodes)[mine[i].node] = At(nodes, mine[i].node).key
    BY <2>1 DEF KeyMap
  <2> QED BY <1>3, <2>2, NodeIsAt
<1>9. Distinct(mine, KeyMap(mine, nodes))
  BY <1>3, <1>8 DEF Distinct
<1> QED BY <1>2, <1>5, <1>6, <1>7, <1>9 DEF mine

\* The table of every shard is sound, with room.
LEMMA PreparedFacts ==
  ASSUME Init, NEW s \in Shards
  PROVE  LET new == PreparedTable(s, PreloadedTable)
         IN  /\ arenas \in Arenas /\ SoundTable(new, arenas, s)
             /\ Cardinality(Occupied(new)) <= LoadLimit(Capacity(new))
<1>1. PICK nodes : nodes = arenas
  OBVIOUS
<1>2. PICK table : table = PreloadedTable
  OBVIOUS
<1>3. PICK c \in PowersOfTwo :
        /\ nodes \in Arenas /\ IsTable(table, c) /\ Capacity(table) = c
        /\ c <= MaxCapacity /\ (\E e \in Nat : c = MinCapacity * Pow2(e))
        /\ Cardinality(Occupied(table)) <= LoadLimit(c)
        /\ \A i \in Occupied(table) :
             /\ table[i].node \in Addresses(nodes)
             /\ At(nodes, table[i].node).ready
        /\ \A i, j \in Occupied(table) :
             KeyAt(table[i].node) = KeyAt(table[j].node) => i = j
  BY <1>1, <1>2, PreloadFacts
<1>4. c \in Nat \ {0}
  BY CapacityFacts
<1>5. PICK mine : mine = MineOf(s, table)
  OBVIOUS
<1>6. /\ DOMAIN mine = 0..(c - 1) /\ NodesIn(mine) \subseteq Addresses(nodes)
      /\ Distinct(mine, KeyMap(mine, nodes))
      /\ \A i \in Occupied(mine) : Marked(mine[i], nodes, s)
      /\ Cardinality(Occupied(mine)) \in Nat
      /\ Cardinality(Occupied(mine)) <= Cardinality(Occupied(table))
  BY <1>1, <1>3, <1>4, <1>5, MineFacts
<1>7. PICK k \in Nat : k = Cardinality(Occupied(mine))
  BY <1>6
<1>8. PICK base : base = BaseOf(table)
  OBVIOUS
<1>9. base \in PowersOfTwo /\ base >= 4 /\ base \in Nat /\ \E d \in Nat : c = base * Pow2(d)
  <2>1. PICK e \in Nat : c = MinCapacity * Pow2(e)
    BY <1>3
  <2> QED BY <1>3, <1>8, <2>1, BaseFacts DEF BaseOf
<1>10. PICK d : d = CapacityFor(k, base)
  OBVIOUS
<1>11. k <= LoadLimit(c)
  <2>1. LoadLimit(c) \in Nat
    BY <1>4 DEF LoadLimit
  <2>2. Cardinality(Occupied(table)) \in Nat
    BY <1>3, TableFacts
  <2> QED BY <1>3, <1>6, <1>7, <2>1, <2>2
<1>12. d \in Nat /\ d >= base /\ k <= LoadLimit(d) /\ \E e \in Nat : d = base * Pow2(e)
  BY <1>9, <1>10, CapacityForFacts
<1>13. d <= c
  BY <1>9, <1>10, <1>11, CapacityForLeast
<1>14. d <= MaxCapacity
  <2>1. MaxCapacity \in Int
    BY StoreTableAssumption
  <2> QED BY <1>3, <1>4, <1>12, <1>13, <2>1
<1>15. d \in PowersOfTwo
  BY <1>9, <1>12, <1>14, DoubledFacts
<1>16. d >= 4 /\ k < d
  <2>1. d >= 4
    BY <1>9, <1>12
  <2>2. LoadLimit(d) \in Nat /\ LoadLimit(d) < d
    BY <1>12, <2>1, LoadLimitFacts
  <2> QED BY <1>12, <2>1, <2>2
<1>17. PICK new : new = Rehash(mine, d, KeyMap(mine, nodes), ShardStarts(d))
  OBVIOUS
<1>18. /\ SoundTable(new, nodes, s) /\ Capacity(new) = d
       /\ Cardinality(Occupied(new)) = k
  <2>1. c \in Nat /\ nodes \in Arenas /\ Cardinality(Occupied(mine)) < d
    BY <1>3, <1>4, <1>7, <1>16
  <2>2. d >= 4
    BY <1>16
  <2> QED BY <1>6, <1>7, <1>15, <1>17, <2>1, <2>2, RehashSound
<1>19. new = PreparedTable(s, table)
  <2>1. KeysIn(mine) = KeyMap(mine, nodes)
    BY <1>1, NodeIsAt DEF KeysIn, KeyMap
  <2>2. PreparedTable(s, table) = Rehashed(mine, d)
    BY <1>5, <1>7, <1>8, <1>10, PreparedIs
  <2> QED BY <1>17, <2>1, <2>2 DEF Rehashed
<1> QED BY <1>1, <1>2, <1>3, <1>12, <1>18, <1>19

\* The invariant holds of a store that was just sharded.
LEMMA ConcurrentInit == Init => IInv
<1> SUFFICES ASSUME Init PROVE IInv
  OBVIOUS
<1>1. /\ writer = [s \in Shards |-> Nobody] /\ growths = [s \in Shards |-> 0] /\ reserves = 0
      /\ pc = [t \in Threads |-> "idle"] /\ call = [t \in Threads |-> Idle]
      /\ given = [k \in Keys |-> {}]
      /\ sizes = [s \in Shards |-> Cardinality(Occupied(Active(s)))]
  BY DEF Init
<1>2. ASSUME NEW s \in Shards
      PROVE  /\ arenas \in Arenas /\ IsChain(tables[s]) /\ Len(tables[s]) = 1
             /\ DOMAIN tables[s] = {1}
             /\ Active(s) = tables[s][1] /\ SoundTable(Active(s), arenas, s)
             /\ Cardinality(Occupied(Active(s))) <= LoadLimit(Capacity(Active(s)))
  <2>1. PICK new : new = PreparedTable(s, PreloadedTable)
    OBVIOUS
  <2>2. /\ arenas \in Arenas /\ SoundTable(new, arenas, s)
        /\ Cardinality(Occupied(new)) <= LoadLimit(Capacity(new))
    BY <2>1, PreparedFacts
  <2>3. PICK chain : chain = <<new>>
    OBVIOUS
  <2>4. chain \in Seq({new}) /\ Len(chain) = 1 /\ DOMAIN chain = {1} /\ chain[1] = new
    BY <2>3
  <2>5. IsChain(chain)
    <3>1. Len(chain) \in Nat \ {0}
      BY <2>4
    <3> QED BY <2>4, <3>1, SequenceIsChain
  <2>6. tables[s] = chain
    BY <2>1, <2>3 DEF Init
  <2> QED BY <2>2, <2>4, <2>5, <2>6 DEF Active
<1>3. arenas \in Arenas
  BY <1>2, ShardFacts
<1>4. ASSUME NEW s \in Shards PROVE ShardInv(s) /\ sizes[s] \in Nat
  <2>1. SoundTable(Active(s), arenas, s) /\ sizes[s] = Cardinality(Occupied(Active(s)))
    BY <1>1, <1>2
  <2>2. sizes[s] \in Nat
    BY <1>3, <2>1, EntryFacts
  <2>3. IsTable(Active(s), Capacity(Active(s))) /\ Capacity(Active(s)) \in PowersOfTwo
    BY <2>1 DEF SoundTable
  <2>4. \A i \in DOMAIN tables[s] : tables[s][i] = Active(s)
    BY <1>2
  <2> QED BY <1>2, <2>1, <2>2, <2>3, <2>4 DEF ShardInv
<1>5. tables = [s \in Shards |-> <<PreparedTable(s, PreloadedTable)>>]
  BY DEF Init
<1>6. TypeOK
  <2>1. tables \in [Shards -> {tables[s] : s \in Shards}]
    BY <1>5
  <2>2. sizes \in [Shards -> Nat] /\ growths \in [Shards -> Nat] /\ reserves \in Nat
    BY <1>1, <1>4
  <2>3. pc \in [Threads -> Places] /\ call \in [Threads -> Calls]
    BY <1>1, IdleFacts DEF Places
  <2>4. writer \in [Shards -> Threads \union {Nobody}] /\ given \in [Keys -> SUBSET AllAddresses]
    BY <1>1
  <2> QED BY <1>3, <2>1, <2>2, <2>3, <2>4 DEF TypeOK
<1>7. StoreInv
  BY <1>1, <1>4 DEF StoreInv
<1>8. ASSUME NEW t \in Threads PROVE ThreadInv(t)
  <2>1. pc[t] = "idle" /\ call[t] = Idle
    BY <1>1
  <2>2. Placed(t)
    BY <2>1, IdleFacts DEF Placed, NodeOps, GlobalOps
  <2> QED BY <2>1, <2>2, IdleFacts DEF ThreadInv
<1> QED BY <1>6, <1>7, <1>8 DEF IInv

-----------------------------------------------------------------------------
(* The invariant, and what it says of the store.                           *)

\* A step of a thread keeps the invariant, the published nodes and the filled slots.
LEMMA ThreadKeeps ==
  ASSUME IInv, NEW t \in Threads, Step(t)
  PROVE  IInv' /\ Frame(t)
<1>1. CASE StartFind(t)
  BY <1>1, StartFindKeeps
<1>2. CASE StartGetOrCreate(t)
  BY <1>2, StartGetOrCreateKeeps
<1>3. CASE StartGlobal(t)
  BY <1>3, StartGlobalKeeps
<1>4. CASE Probe(t)
  BY <1>4, ProbeKeeps
<1>5. CASE LockShard(t)
  BY <1>5, LockShardKeeps
<1>6. CASE Relocate(t)
  BY <1>6, RelocateKeeps
<1>7. CASE Initialize(t)
  BY <1>7, InitializeKeeps
<1>8. CASE Grow(t)
  BY <1>8, GrowKeeps
<1>9. CASE Publish(t)
  BY <1>9, PublishKeeps
<1>10. CASE UnlockShard(t)
  BY <1>10, UnlockShardKeeps
<1>11. CASE Return(t)
  BY <1>11, ReturnKeeps
<1>12. CASE LockAllNext(t)
  BY <1>12, LockAllNextKeeps
<1>13. CASE GetStats(t)
  BY <1>13, GetStatsKeeps
<1>14. CASE Snapshot(t)
  BY <1>14, SnapshotKeeps
<1>15. CASE PlanReserve(t)
  BY <1>15, PlanReserveKeeps
<1>16. CASE ReplaceNext(t)
  BY <1>16, ReplaceNextKeeps
<1>17. CASE UnlockAllNext(t)
  BY <1>17, UnlockAllNextKeeps
<1> QED BY <1>1, <1>2, <1>3, <1>4, <1>5, <1>6, <1>7, <1>8, <1>9, <1>10, <1>11, <1>12, <1>13,
           <1>14, <1>15, <1>16, <1>17 DEF Step

\* Every step does, the one of a finished program and stuttering included.
LEMMA ConcurrentStep == IInv /\ [Next]_vars => IInv' /\ NodesKept /\ SlotsKept
<1> SUFFICES ASSUME IInv, [Next]_vars PROVE IInv' /\ NodesKept /\ SlotsKept
  OBVIOUS
<1>1. CASE \E t \in Threads : Step(t)
  <2>1. PICK t \in Threads : Step(t)
    BY <1>1
  <2> QED BY <2>1, ThreadKeeps DEF Frame
<1>2. CASE UNCHANGED vars
  <2>1. /\ tables' = tables /\ sizes' = sizes /\ arenas' = arenas /\ writer' = writer
        /\ growths' = growths /\ reserves' = reserves /\ pc' = pc /\ call' = call
        /\ given' = given
    BY <1>2 DEF vars, shared
  <2>2. StoreInv' /\ NodesKept /\ SlotsKept /\ Published' = Published
    BY <2>1, QuietFacts DEF Quiet, IInv
  <2>3. TypeOK'
    BY <2>1 DEF IInv, TypeOK
  <2>4. ASSUME NEW t \in Threads PROVE ThreadInv(t)'
    <3>1. ThreadInv(t)
      BY DEF IInv
    <3>2. Placed(t)' = Placed(t)
      BY <2>1 DEF Placed, Seeking, Inserting, Node, KeyAt, Active, ReserveTarget
    <3>3. Answered(t)' = Answered(t)
      BY <2>1, <2>2 DEF Answered, Node, KeyAt
    <3> QED BY <2>1, <2>2, <3>1, <3>2, <3>3 DEF ThreadInv
  <2> QED BY <2>2, <2>3, <2>4 DEF IInv
<1> QED BY <1>1, <1>2 DEF Next

\* It is an invariant of the specification.
LEMMA ConcurrentInvariant == Spec => []IInv
<1> QED BY ConcurrentInit, ConcurrentStep, PTL DEF Spec

\* In every state of every shard the nodes of all its tables are found by the probe of the
\* active one, which has a power of two of slots and an empty one left, and the size is
\* exact (concurrent_locate, concurrent_table_rehash, concurrent_shard_rebuild,
\* concurrent_reserve and concurrent_get_or_create of src/info_store.c).
THEOREM TablesAlwaysSound == Spec => []TablesSound
<1>1. IInv => TablesSound
  <2> SUFFICES ASSUME IInv, NEW s \in Shards
               PROVE  /\ \A i \in DOMAIN tables[s] : \A a \in NodesIn(tables[s][i]) :
                           LET place == LocateKey(Active(s), KeyAt(a))
                           IN place.result = "found" /\ Active(s)[place.index].node = a
                      /\ Capacity(Active(s)) \in PowersOfTwo
                      /\ Cardinality(Occupied(Active(s))) <= LoadLimit(Capacity(Active(s)))
                      /\ sizes[s] = Cardinality(Occupied(Active(s)))
    BY DEF TablesSound
  <2>1. PICK table : table = Active(s)
    OBVIOUS
  <2>2. /\ arenas \in Arenas /\ SoundTable(table, arenas, s)
        /\ \A i \in DOMAIN tables[s] : NodesIn(tables[s][i]) \subseteq NodesIn(table)
        /\ sizes[s] = Cardinality(Occupied(table)) /\ sizes[s] <= LoadLimit(Capacity(table))
    BY <2>1 DEF IInv, TypeOK, StoreInv, ShardInv
  <2>3. ASSUME NEW a \in NodesIn(table)
        PROVE  /\ LocateKey(table, KeyAt(a)).result = "found"
               /\ table[LocateKey(table, KeyAt(a)).index].node = a
    <3>1. PICK key : key = KeyAt(a)
      OBVIOUS
    <3>2. key \in Keys /\ At(arenas, a).key = key
      BY <2>2, <2>3, <3>1, NodeFacts, NodeIsAt
    <3>3. ~Absent(table, arenas, key)
      BY <2>3, <3>2 DEF Absent
    <3>4. PICK j \in Occupied(table) :
            /\ LocateIn(table, key, arenas) = [result |-> "found", index |-> j]
            /\ table[j].node \in NodesIn(table) /\ At(arenas, table[j].node).key = key
      BY <2>2, <3>2, <3>3, LocateKeyFacts
    <3>5. table[j].node = a
      BY <2>2, <2>3, <3>2, <3>4, NodeFacts
    <3> QED BY <3>1, <3>4, <3>5, LocateKeyIsIn
  <2>4. Capacity(table) \in PowersOfTwo
    BY <2>2 DEF SoundTable
  <2> QED BY <2>1, <2>2, <2>3, <2>4
<1> QED BY <1>1, ConcurrentInvariant, PTL

\* Every answer is true of the published nodes, whatever the interleaving of probes,
\* insertions, growth and the operations that lock every shard (concurrent_find,
\* concurrent_get_or_create, concurrent_get_stats, concurrent_reserve and
\* concurrent_snapshot_sorted of src/info_store.c).
THEOREM ShardedAnswersTrue == Spec => []AnswersTrue
<1>1. IInv => AnswersTrue
  <2> SUFFICES ASSUME IInv, NEW t \in Threads, pc[t] = "return"
               PROVE  LET c == call[t] IN
                      /\ c.status # "corrupt"
                      /\ c.status = "not_found" => ~c.known
                      /\ c.status = "invalid" =>
                           \E a \in Published : KeyAt(a) = c.key /\ Node(a).actions # c.actions
                      /\ c.status = "success" /\ c.op \in {"find", "get_or_create"} =>
                           /\ c.value \in Published /\ Node(c.value).ready /\ KeyAt(c.value) = c.key
                           /\ given[c.key] \subseteq {c.value}
                           /\ c.op = "get_or_create" => Node(c.value).actions = c.actions
                      /\ c.status = "success" /\ c.op = "snapshot" =>
                           c.before \subseteq c.value /\ c.value \subseteq Published
                      /\ c.op = "get_stats" =>
                           Cardinality(c.before) <= c.value[1] /\ c.value[1] <= Cardinality(Published)
    BY DEF AnswersTrue
  <2>1. TypeOK /\ StoreInv /\ Placed(t) /\ Answered(t)
    BY DEF IInv, ThreadInv
  <2>2. ASSUME call[t].status = "success", call[t].op \in NodeOps
        PROVE  given[call[t].key] \subseteq {call[t].value}
    <3>1. call[t].key \in Keys /\ call[t].value \in Published /\ KeyAt(call[t].value) = call[t].key
      BY <2>1, <2>2 DEF Placed, Answered
    <3>2. \A a \in given[call[t].key] : a \in Published /\ KeyAt(a) = call[t].key
      BY <2>1, <3>1 DEF StoreInv
    <3> QED BY <2>1, <3>1, <3>2, PublishedFacts
  <2> QED BY <2>1, <2>2 DEF Answered, NodeOps
<1> QED BY <1>1, ConcurrentInvariant, PTL

\* A filled slot and a published node never change: the lock-free probe of concurrent_locate
\* may read any table of the chain, and the pointers handed out stay valid.
THEOREM PublishedStaysStable == Spec => PublishedIsStable
<1> DEFINE Stable == /\ \A s \in Shards :
                          /\ Len(tables'[s]) >= Len(tables[s])
                          /\ \A i \in DOMAIN tables[s] : \A j \in Occupied(tables[s][i]) :
                               tables'[s][i][j] = tables[s][i][j]
                     /\ \A a \in Published : Node(a)' = Node(a)
<1>1. IInv /\ [Next]_vars => Stable
  <2> SUFFICES ASSUME IInv, [Next]_vars PROVE Stable
    OBVIOUS
  <2>1. NodesKept /\ SlotsKept
    BY ConcurrentStep
  <2>2. \A a \in Published : Node(a)' = Node(a)
    BY <2>1 DEF NodesKept, Node, At
  <2> QED BY <2>1, <2>2 DEF SlotsKept, ChainKept
<1>2. IInv /\ [Next]_vars => [Stable]_vars
  BY <1>1
<1> HIDE DEF Stable
<1>3. Spec => [][Stable]_vars
  BY <1>2, ConcurrentInvariant, PTL DEF Spec
<1> QED BY <1>3 DEF PublishedIsStable, Stable
=============================================================================
