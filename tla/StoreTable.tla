----------------------------- MODULE StoreTable -----------------------------
(***************************************************************************)
(* The open-addressing tables of src/info_store.c: multiplicative hashing, *)
(* the slot a probe starts at, linear probing, rehashing, and the load     *)
(* limit of three quarters.                                                *)
(*                                                                         *)
(* A table is a function from 0..capacity-1 to slots; a slot is a node     *)
(* address and a mark: the key in the table of a store used by one thread  *)
(* at a time, the low bits of the hash in the table of a shard.  Hash      *)
(* values have HashBits bits (64 in the build).                            *)
(***************************************************************************)
EXTENDS Integers, FiniteSets, Sequences

CONSTANTS
  Keys,             \* information-set keys
  HashBits,         \* width of a hash value
  HashMultiplier,   \* HASH_MULTIPLIER, odd
  ShardBits,        \* CONCURRENT_SHARD_BITS
  TagBits,          \* width of CONCURRENT_NODE_TAG_MASK
  MinCapacity,      \* CONCURRENT_INITIAL_SHARD_CAPACITY, INITIAL_STORE_CAPACITY
  MaxCapacity       \* largest capacity that can be allocated

\* 2^n
Pow2(n) == LET power[i \in 0..n] == IF i = 0 THEN 1 ELSE 2 * power[i - 1] IN power[n]

HashValues == Pow2(HashBits)
ShardCount == Pow2(ShardBits)                   \* CONCURRENT_SHARD_COUNT
ShardHashValues == Pow2(HashBits - ShardBits)   \* the hashes of one shard
TagValues == Pow2(TagBits)
PowersOfTwo == {Pow2(b) : b \in 1..HashBits}

ASSUME StoreTableAssumption ==
  /\ Keys \subseteq Nat /\ IsFiniteSet(Keys)
  /\ HashBits \in Nat /\ HashMultiplier \in Nat /\ HashMultiplier % 2 = 1
  /\ ShardBits \in 1..(HashBits - 1) /\ TagBits \in 0..HashBits
  /\ MinCapacity \in PowersOfTwo /\ MinCapacity >= 4
  /\ MaxCapacity \in MinCapacity..HashValues

Shards == 0..(ShardCount - 1)

disperse(key) == (key * HashMultiplier) % HashValues

\* The top bits of the hash: __builtin_clzll of a power of two less one.
initial_index(hash, capacity) == hash \div (HashValues \div capacity)

shard_index(hash) == hash \div ShardHashValues

\* The hash rotated left by the shard bits.
local_hash(hash) ==
  ((hash * ShardCount) % HashValues) + (hash \div ShardHashValues)

tag(hash) == hash % TagValues

ShardOf(key) == shard_index(disperse(key))

-----------------------------------------------------------------------------

NULL == <<>>
EmptySlot == [node |-> NULL, mark |-> 0]
EmptyTable(capacity) == [i \in 0..(capacity - 1) |-> EmptySlot]

Capacity(table) == Cardinality(DOMAIN table)
Occupied(table) == {i \in DOMAIN table : table[i].node # NULL}
NodesIn(table) == {table[i].node : i \in Occupied(table)}

\* Where a probe for a key starts, and the mark its slot carries.
StoreStart(key, capacity) == initial_index(disperse(key), capacity)
ShardStart(key, capacity) == initial_index(local_hash(disperse(key)), capacity)
StoreStarts(capacity) == [key \in Keys |-> StoreStart(key, capacity)]
ShardStarts(capacity) == [key \in Keys |-> ShardStart(key, capacity)]
ShardMark(key) == tag(disperse(key))

\* locate and concurrent_locate: the first slot from start on, cyclically,
\* that is empty or one of those that hold the key.
Locate(table, start, holders) ==
  LET capacity == Capacity(table)
      At(o) == (start + o) % capacity
      Stops(o) == table[At(o)].node = NULL \/ At(o) \in holders
      stops == {o \in DOMAIN table : Stops(o)}
      first == CHOOSE o \in stops : \A p \in stops : o <= p
  IN IF stops = {}
     THEN [result |-> "full", index |-> 0]
     ELSE [result |-> IF table[At(first)].node = NULL THEN "empty" ELSE "found",
           index  |-> At(first)]

\* Binding a value with a set makes TLC compute it once.
TheOnly(S) == CHOOSE x \in S : TRUE

\* One entry of the old table inserted into the new one; NULL, and NULL from there on,
\* when it does not end at an empty slot.
Reinsert(new, slot, keys, starts) ==
  LET holders == {i \in Occupied(new) : /\ new[i].mark = slot.mark
                                        /\ keys[new[i].node] = keys[slot.node]}
      place   == Locate(new, starts[keys[slot.node]], holders)
  IN IF new = NULL \/ slot.node = NULL THEN new
     ELSE IF place.result = "empty" THEN [new EXCEPT ![place.index] = slot]
     ELSE NULL

\* rebuild and concurrent_table_rehash: the entries of a table, in index
\* order, inserted into a new one of the given capacity.  keys maps the nodes
\* to their keys, starts the keys to the slots at which their probes start.
Rehash(table, capacity, keys, starts) ==
  LET after[i \in 0..Capacity(table)] ==
        IF i = 0 THEN EmptyTable(capacity)
        ELSE TheOnly({Reinsert(new, table[i - 1], keys, starts) : new \in {after[i - 1]}})
  IN after[Capacity(table)]

\* A table takes another entry without growing while its size is below this.
LoadLimit(capacity) == capacity - capacity \div 4

\* The capacity of the table that replaces a full one.
GrownCapacity(table) == 2 * Capacity(table)

\* concurrent_capacity_for_nodes and the loop of cfr_info_store_reserve: the
\* capacity doubled until the nodes fit.  A capacity above MaxCapacity cannot
\* be allocated.
CapacityFor(nodes, capacity) ==
  LET Fits(d) == nodes <= LoadLimit(capacity * Pow2(d))
  IN capacity * Pow2(CHOOSE d \in 0..nodes : Fits(d) /\ \A e \in 0..(d - 1) : ~Fits(e))
=============================================================================
