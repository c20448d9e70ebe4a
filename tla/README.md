# C-CFR in TLA+

C-CFR is a C library that trains strategies for extensive-form games with
counterfactual regret minimization: plain CFR, CFR+ and external-sampling
MCCFR, the last one by several threads that share one information store. This
directory holds TLA+ models of the library's own logic, the TLC instances that
check them and TLAPS proofs about them. Paths below are relative to the
repository.

## The system

| component | state | operations | interacts with |
|---|---|---|---|
| information node (`src/info_node.c`) | lock byte, snapshot version, regret and strategy sums | lock, unlock, apply deltas, publish prepared values, clamp, add regret, accumulate strategy, current strategy with and without the lock | called by traversals, evaluation, checkpoint |
| delta commit (`workspace_commit_deltas` in `src/traversal.c` and `src/mccfr.c`) | the sorted entries of one traversal | lock every node, validate, write, unlock; MCCFR backs off | nodes, other threads' commits |
| store lock (`src/info_store.c` 96-152) | one word, one gate | read and write lock and unlock | every operation of an unsharded store |
| information store, one table | entries, size, capacity, arena | find, get_or_create, reserve, get_stats, snapshot_sorted, prepare_concurrent | traversals, checkpoint, evaluation |
| information store, sharded | per shard: a chain of tables, size, lock, arenas | lock-free find, get_or_create, growth; reserve, get_stats, snapshot under all locks | MCCFR workers |
| full traversal (`src/traversal.c`) | frames, per-depth buffers, delta entries | walk the tree, accumulate deltas | game, store, commit |
| MCCFR traversal (`src/mccfr.c`, `src/mccfr_sequential.c`) | frames, retained strategy snapshots, sampled actions, random stream | the same with sampling | game, store, commit |
| trainer (`src/trainer.c`) | variant, iteration number, statistics | init, run, run_concurrent, run_with_callback, reset_stats | traversals, store |
| checkpoint (`src/checkpoint.c`) | checksum, temporary store | write, read, inspect | trainer, store, nodes |
| evaluation (`src/evaluation.c`) | a snapshot of the tree, best-response marks | profile value, best response, exploitability | game, store |
| games (`src/kuhn_poker.c`, `src/leduc_poker.c`, `src/blackjack.c`, contract in `src/game.c`) | the state of one hand | apply, undo, legal actions, keys, utilities | traversals |
| programs (`app/`), tools (`tools/`) | options | train, save, export, report | everything above |

The hard parts are those where threads meet without a common lock: a strategy
is read from a node while a commit writes it; commits lock many nodes in two
different orders; lookups probe tables that growth replaces; the whole store
moves to shards while other threads use it; a sampled traversal reads nodes that
others change under it; a checkpoint copies nodes while they are trained.
Failures (overflow of one of many sums, an allocation that fails halfway, a
callback that fails deep in the tree, a damaged file, a program killed while it
saves) must leave nothing half done. And some results are right only in the sum:
counterfactual regrets over the positions of an information set, importance
weights over the random streams, a best response over all pure strategies.
`PROJECT.json` lists these hazards at their lines with the properties that would
notice each one going wrong.

## Modules

* `InfoNode` - one node: lock, version window, relaxed stores, and the
  lock-free reader `cfr_info_node_current_strategy_concurrent` with one step
  per load. Values are small integers; the finite range is
  `-MaxFinite..MaxFinite`, and a sum outside it stands for infinity. The
  version is counted modulo `VersionModulus`, an even number that stands for
  2^32. `moved` is a history variable: version steps of the reader's node since
  its first load.
* `NodeCommit` - writers on the nodes: full-traversal commits (blocking locks
  in key order, validation, writes, in CFR+ a clamp in further version
  windows), MCCFR commits (try-locks in address order, back-off, wait for the
  node in conflict, candidates prepared under all locks and then published),
  and the single-node operations of the public interface. The traversal before
  the commit is its result: any entries, any deltas of `Deltas`.
* `RegretLedger` - what a commit promises: all its nodes change in one step or
  none does; a lock holder sees every commit, a lock-free reader sees each
  commit node by node and never a mixture or a regret not yet clamped.
* `RWLock`, `StoreLock` - the reader/writer lock as its callers see it, and the
  spin lock with a pending bit, an active bit, a reader count and a writer
  gate. The weak exchange is one step; its spurious failures only repeat a
  loop.
* `StoreTable` - hashing (`disperse`, shard index, local hash, tag), probing,
  rehashing, load limit and growth, for `HashBits` bits instead of 64.
* `SharedStore` - a store from initialization through
  `cfr_info_store_prepare_concurrent`. It uses the abstract `RWLock`, which
  `StoreLock` is proved to implement. Once sharded, an operation is one step.
* `ConcurrentStore` - the sharded store: a lookup makes one step per probed
  slot, insertion one per locked phase, and the operations on all shards take
  and return the locks one by one. Retired tables stay in the chain, as in the
  code.
* `Trainer` - the training loop with every early return, the counters that
  saturate at `SizeMax`, the progress schedule, and the choice between the
  traversals with and without locks. A traversal is one step, which
  `NodeCommit` and `Mccfr` justify.
* `GameTree` - a game as the traversals and the evaluation see it through the
  callbacks of `include/cfr/game.h`: a tree of positions, a state that is the
  path to one of them, and a count of calls, one of which (`fault`) fails.
  Probabilities are integers over `Scale`, reaches over `Unit`, utilities
  multiples of 16, so that every division in the instances is exact.
* `Sampler` - `sample_index`, whose text both sampled traversals share: the
  values of a draw divided into intervals, one for each action of positive
  probability, with values kept back for actions too unlikely for one.
* `FullTraversal`, `MccfrSequential`, `Evaluation` - `traversal.c`,
  `mccfr_sequential.c` and `evaluation.c` as recursive operators from the
  arguments of a call to everything it returns and leaves behind.
* `Algorithms` - one call of one of them at a time, and the reference
  definitions they are compared with: reach probabilities along paths, values as
  sums over terminals, expectations over all random streams, maxima over all
  pure strategies.
* `Mccfr` - the traversal of `mccfr.c` with one action per node entered, left or
  failed, so that commits of other workers come between any two of its reads.
  Frames, retained strategies, entries and the random stream are those of the
  workspace, which a second call uses again. A draw is chosen when it is taken
  and remembered in `stream`; `MccfrAgreement` gives the same one to
  `MccfrSequential` and compares. It is a module of its own because the
  sequential traversal is recursive and `Mccfr` is proved about.
* `KuhnPoker`, `LeducPoker`, `Blackjack` - the adapters, one operator per
  operation, validation by replay included. `Games` dispatches to them as
  `game.c` does and plays legal actions.
* `Checkpoint` - a file as a sequence of words: header, one record per node,
  checksum, framed or not; and its reader, with every reason to refuse it.
* `Session` - runs of `app/cfr_cli.c` on one directory, one action per call that
  touches a file, a node or the trainer.
* `NodeCommitProofs`, `StoreLockProofs`, `TrainerProofs`, `MccfrProofs`,
  `StoreTableProofs`, `SharedStoreProofs`, `ConcurrentStoreProofs`,
  `SessionProofs` - theorems about the module each is named for, `MccfrProofs`
  also about `Sampler`, `SessionProofs` also about `Checkpoint`.
* The `MC` modules - constant values, small games and symmetry for TLC.
  `StoreLock` and `Trainer` need none and are run directly.

How they fit together: `StoreLock` implements `RWLock`, which `SharedStore`
uses; `NodeCommit` implements `RegretLedger`, so that `Mccfr` and `Trainer` may
commit in one step; `Mccfr` computes what `MccfrSequential` computes, and
`Algorithms` says what that is worth; `Games` shows of the three games what
`GameTree` assumes of any (undo inverts apply, chance sums to one, keys carry
the legal actions).

`PROJECT.json` gives the source lines of every definition. Operators with the
comment "A mutant" are plausible mistakes: no specification uses them; put in
the place of the definition they follow, each one makes TLC report the property
it is listed with.

## Runs

| run | checks | instance |
|---|---|---|
| `commit_mixed` | `VersionMarksWriter`, `ImplementsLedger`, `EveryCallReturns` | a CFR thread and an MCCFR thread with two calls each and a reader; two nodes whose key and address orders disagree |
| `commit_api` | `AcceptedSnapshotCoherent`, `AccumulatorsStayFinite`, `ImplementsLedger` | a CFR+ commit on two nodes against apply, add_regret, accumulate, locked and lock-free reads; the second delta overflows |
| `store_lock` | `ReaderCountExact`, `ImplementsRWLock`, `NoReaderOvertakes`, `WritersEnter` | four threads, unbounded calls |
| `sharded` | `TablesSound`, `AnswersTrue`, `PublishedIsStable`, `EveryCallReturns` | two threads with two calls each of any operation; colliding keys, a shard at its load limit, failures |
| `shared_store` | `TableSound`, `AnswersTrue` | two threads, every operation and the move to shards, two action counts, failures |
| `trainer` | `TypeOK`, `IterationsInOrder`, `ProgressSchedule`, `SequentialAlone` | two trainers of any variants on one store, two players, SIZE_MAX = 3, every amount and interval, failures anywhere, resets in between |
| `games` | `UndoInvertsApply`, `KeyIsTheView`, `OutcomesAddUp`, `TotalsAreBest`, `ReplayIsExact` | all states of Kuhn and Leduc poker; blackjack with decks of one or two ranks |
| `session` | `SavedFileComplete`, `LoadAllOrNothing`, `RecordsUntorn`, `ResumeIsExact`, `SuccessMeansSaved`, `ExportNeverOverwrites` | two runs that train, resume, evaluate and export; every call may fail, the removal of the temporary file included, one kill, one damaged file, files created by others; or other threads that commit during the save |
| `mccfr` | `AgreesWithSequential`, `SnapshotIsFresh`, `OnlySuccessesCount` | two calls on one workspace, games of two and three players, one failing call, one commit by others |
| `algorithms` | `FullTraversalIsCounterfactual`, `SamplingIsUnbiased`, `AveragesAreProportional`, `EvaluationIsBestResponse`, `FailureLeavesNoTrace`, `SamplerCoversPositiveActions` | games of one to three players with hidden moves and chance, malformed games, pure and mixed strategies, absent nodes, any call failing |

Two more runs end in a violation on purpose; see Findings.

What they show, in words: a commit is atomic for whoever locks and atomic per
node for whoever does not; no update is lost and no overflow leaves part of a
commit behind; the two lock orders do not deadlock; nobody is given two nodes
for one key, a missing node for a stored key or a node half made; growth,
reservation and sharding lose nothing, even when they fail; training numbers
its iterations so that every player has learned from each of them, through
errors, resets and saturation. A full traversal adds the counterfactual regrets
and reach-weighted strategies of the textbook definition, a sampled one the same
in the mean, and a sampled one among other workers what it would compute alone
from the strategies it saw. The evaluation reports the value of the profile and
of a best response, and refuses games for which these would mean nothing. Errors
leave no trace. What the games save for undo is enough, and their keys are one
player's view. A checkpoint on disk is whole, a damaged one is refused without
effect, and a resumed run continues as if it had never stopped. A temporary file
stays only where its writer was killed or could not remove it, and no later run
takes it for its own.

### Bounds, and why they are enough

* `MaxCalls`, `MaxReads` bound the calls of one actor. The
  properties relate at most two or three overlapping calls; two calls in a row
  let every call meet the remains of an earlier one.
* Two nodes with opposite key and address orders are the least on which lock
  orders conflict. Two actions are the least on which a vector can be torn.
* `MaxFinite` is so small that a second or third commit overflows.
  `VersionModulus` is larger than the number of version steps of a run. A reader
  that sleeps through a full turn of the version accepts a torn snapshot, in the
  model as in the code (2^31 updates of one node during one read); this is why
  `AcceptedSnapshotCoherent` asks for fewer than `VersionModulus` steps between
  its two loads. That a version which wraps does no other harm is `SnapshotTheorem`,
  proved for every even modulus; that `ImplementsLedger` holds as long as no
  reader is overtaken so is `CommitImplementsLedger`.
* `MinCapacity` is 4, so that the load limit 3 is reached by the preloaded keys
  and the next insertion grows the table. With six hash bits and the multiplier
  37, the chosen keys collide in their slots (the MC modules say how) and some
  have the same tag, so that a probe must compare keys. Two shards are the least
  on which all-shard operations have an order. `Asked` leaves out of the calls
  two of the preloaded keys, which only fill the shard.
* `SizeMax` 3 lets every amount and interval occur and every counter saturate.
  `MaxRuns` counts the runs of all trainers together.
* `algorithms`: `Scale` is 2, so that strategies are pure or even; a draw has as
  many values (`Draws`, for 2^64), and all streams as long as the game's longest
  traversal are enumerated. With strategies of that grain a weight that is wrong
  by any factor shows. The sampler alone is checked with draws of eight values
  and weights too small for one. `MaxFault` is above the number of calls of the
  longest walk (44), so that each call fails once. In every game a player
  remembers its own moves (perfect recall), which the repository requires.
* `mccfr`: one commit by others is enough to change any node between two reads;
  one failing call, and a second call on the same workspace, to show what the
  first leaves behind. The cache of node addresses is only good for the store it
  was filled from; a trainer's run uses one store throughout, so the test that
  empties it never fires here.
* `games`: `plies` bounds the length of a hand of blackjack. Decks of aces reach
  the longest hands, decks of eights four hands by splitting, aces and tens soft
  hands and naturals. Poker is explored in full.
* `session`: two runs let the second one meet what the first left. Training is a
  stand-in (`Iterated`) that depends on every field a checkpoint carries, so that
  a field lost in the file changes the result. A kill loses all,
  half or nothing of what was written and not flushed; damage cuts a file anywhere. A loss of power after `rename`, for which
  the program does not call `fsync`, is not modelled. The checksum is a stand-in
  that tells apart the single changes, cuts and additions of a run.

### Fairness

Fairness is assumed in `commit_mixed`, `store_lock` and `sharded`, for
their liveness properties; the other runs assume none. `FairSpec` of `NodeCommit` and `ConcurrentStore` is
weak fairness of every call under way: threads are scheduled, and a spin yields
the processor (`cfr_spin_wait`). No fairness makes a thread start a call. Node
and shard locks are plain flags, so that with unboundedly many calls a waiting
thread could starve; `EveryCallReturns` holds because the others make finitely
many, and is to be read as freedom from deadlock and from endless retry.
`StoreLock` needs no such bound: its readers and writers call for ever and a
pending writer still enters. Its gate is not fair, and `WritersEnter` says of it
no more than the code gives.

## Proofs

For every value of the constants, from the assumptions stated in the modules:

* `NodeCommitProofs` (assumes finitely many nodes, disjoint kinds of threads,
  an even `VersionModulus`): `CommitTypeCorrect`, `VersionTheorem`,
  `SnapshotTheorem`, `FiniteTheorem`, `CommitImplementsLedger`. The inductive
  invariant says where every thread's cursor, entries and locks are (`Shape`,
  `LockOwner`), that the version is odd exactly in a window of the lock's owner,
  that what was validated still holds of the sums until it is written
  (`ValidatedHolds`), and what a reader knows (`ReaderView`): while fewer than `VersionModulus` version steps have
  happened since its first load, an unchanged version means that every value
  loaded so far is still the node's. None of the properties is inductive alone:
  that a store is finite depends on a check several steps earlier, and that a
  snapshot is whole on what was loaded before.

  `CommitImplementsLedger`: the commit protocol implements `RegretLedger`, in
  every behaviour in which no reader is overtaken by a whole round of versions
  while it takes one snapshot (`NoLap`; 2^31 updates of one node, without which
  the claim is false). A validated entry belongs to the thread that holds its
  node's lock (`PendingOwner`), so the sums of the ledger at a node are what that
  one thread makes of it (`CommittedIs`) and no other thread's step moves them
  (`OwnOthers`). Of its own steps the check that succeeds is the commit of the
  ledger, the start of a window exposes one node, a query gives an answer, and
  every other step, those that store and clamp regrets one by one included, maps
  to none (`OwnKept`, `ViewKept`). It takes one more invariant, `Asked`: until
  they are validated, the deltas are those the caller gave.
* `StoreLockProofs` (finitely many threads, at most `MaxReaders`):
  `LockCountsReaders`, `LockImplements`, `LockNoOvertaking`, and `LockExcludes`.
  The invariant ties the flags of the word to the position of the one writer
  behind the gate.
* `TrainerProofs` (any players, any `SizeMax` of at least one):
  `TrainerTypeCorrect` (no size_t of the loop wraps), `TrainerOrder`,
  `TrainerAlone`, `TrainerSchedule`. The invariant adds the loop's bounds (`LoopShape`), the players
  already done in the iteration under way (`PlayersDone`), and that runs which
  overlap are synchronized and a sequential path began on a store that is not
  sharded (`Synchronized`). For the progress callback it says that what was
  reported is exactly what was due, and that `next_progress` is the first
  iteration not counted yet that is due (`Ahead`); the latter is what an interval
  added to a multiple of it, and clamped to the amount, keeps.
* `MccfrProofs` (from no assumption on the constants): `SnapshotsAreFresh`,
  `OnlySuccessesLeaveTraces`. The invariant says that one action is applied for
  every frame unless an undo failed (`Depth`), so that a traversal which returns
  has restored the caller's state; that the history holds the present strategy
  of every node and every retained one (`History`), which is what the reset at
  the start of a call and the single read per information set preserve; and that
  the calls that succeeded account for the sums and for the position in the
  random stream, each starting where the one before ended (`Account`).
* `MccfrProofs` on the sampler, for every number of draws and all weights with a draw for each
  positive one (`Distribution`, which callers guarantee: there are 2^64 draws):
  `SamplerCovers`, `SamplerShares`. The argument is an induction along the
  actions: every endpoint leaves a draw to each positive action after it
  (`EndpointBounds`) and, when no positive weight is below the resolution, is the
  rounded share of the draws up to it, so that neither bound of the code bites.
  `algorithms` checks the first for eight draws.
* `StoreTableProofs` (the assumption of `StoreTable`: capacities are powers of
  two, a hash value selects a slot): a probe reaches the first free slot or the
  key (`LocateStored` and its neighbours), an entry put there moves no other out
  of reach (`PutSound`), and `RehashKeepsEntries`: a rehash into a table with
  more slots than entries loses nothing and adds nothing, whatever the
  collisions. It is an induction over the slots of the old table.
* `SharedStoreProofs` (the assumptions of `SharedStore`: the keys inserted before
  the threads start are distinct and their table can be allocated):
  `TableAlwaysSound`, `AnswersAlwaysTrue`, for any number of threads. The
  invariant has four parts. `Exclusion` is what the lock gives, and that a store
  with neither table nor shards has a writer about to publish them. `Placed` is
  what each step of a call holds and has decided: a thread between freeing the
  table and publishing the shards is the only writer, a call without locks is
  alone. `StoreInv` says that the table is sound in the sense of
  `StoreTableProofs`, the size exact, every key in one node, and every address
  handed out still that node. `CallInv` is what a caller knew before its call and
  was told, which stays true as nodes are only added. `AnswersTrue` alone is far
  from inductive: that an insertion after a wait for the lock makes no second
  node depends on the probe, on the load limit and on who may have sharded the
  store meanwhile. TLC confirmed the invariant on the instance of `shared_store`.
  The proof of the step `Load` did not go through at first: two guards of a
  `CASE` there were both true of a call without locks on a sharded store. They
  now exclude each other, as the branches of the code do.

* `ConcurrentStoreProofs` (the assumptions of `ConcurrentStore`: the same about the
  preloaded keys): `TablesAlwaysSound`, `ShardedAnswersTrue`, `PublishedStaysStable`,
  for any number of threads, shards and keys, with and without failures.
  The invariant says of a shard (`ShardInv`) that its active table is sound in the
  sense of `StoreTableProofs`, holds only initialised nodes of the shard and has
  room, that retired tables hold no other nodes, and that the size is exact; it is
  exact in every state, as `Publish` stores slot and size in one step. Of a thread
  it says, besides what every step of its call has decided (`Placed`, `Answered`):
  * a probe without a lock is on a table of the chain, and if its key was stored
    before the call, the slot with the key is still ahead, behind occupied slots
    only (`Seeking`). This survives the growth that retires the table, and every
    insertion into it, because filled slots never change. It is
    claimed only of lookups whose key was stored before they began; an insertion
    confirms its miss under the lock;
  * an insertion under the lock owns the last node of its arena, and no node of the
    active table has its key (`Inserting`). The probe under the lock established
    it, and it is what makes a second node for a key impossible;
  * a call on all shards holds the locks up to its cursor.

  Each action is shown to keep the invariant together with a frame (`Frame`): the
  other threads stay where they are, a shard is changed only by the holder of its
  lock, published nodes and filled slots stay. From the frame `OthersKept` derives
  once for all actions what the other threads still know, and
  `PublishedStaysStable` is its second half. The initial state is a theorem of its
  own kind: that splitting the store's table over the shards gives each a sound
  table that can be allocated (`PreparedFacts`) rests on
  `RehashKeepsEntries`, on the table of the unsharded store being within its load
  limit, and on doubling finding the least capacity (`CapacityForLeast`). TLC
  confirmed the invariant, but for the union of types of a call's answer, which it
  cannot evaluate, on the instance of `sharded` with one action count.

* `SessionProofs` (`FormatAssumption`: an even number of key values, a schema
  identifier no longer than the format admits; `SessionAssumption`: options of the
  right types, finitely many information sets, whose keys fit a word and whose
  action counts the game's limit): `CheckpointsAreComplete`, `LoadsAllOrNothing`,
  `RecordsAreUntorn`, `ResumesExactly`, `SuccessIsSaved`, `ExportsNeverOverwrite`,
  for any game, any options and spellings of paths, any number of runs, both
  formats, kills, damage, files created by others, and commits of other threads
  during a write. They follow from one inductive invariant, `SessionInv`, which
  rests on what the format is worth:

  * `ReadPayload`: whatever trainer and store are written, reading gives them back.
    The words of a payload are followed record by record (`Upto`), and a reader
    that has read i records is at a known word with a known part of the store
    (`ReaderAt`).
  * `HeaderRead`, `RecordRead`, `ChecksumRead`: of a file that agrees with a
    payload as far as both go, each read either yields what the payload has there
    or fails; so such a file is loaded exactly if it is the payload.
  * `DamagedUnderstood`: every damage of a checkpoint leaves a file of that kind
    (cut off anywhere, extended, repeated), one whose checksum does not fit (`ChangedWord`,
    from `ChecksumDetects`), or one whose header is refused. An export is refused
    in any case, whatever its words, which is why it may lie where a checkpoint
    is expected.

  Of the directory `SessionInv` says what each file can be (`DiskInv`): a whole
  checkpoint or an export and, under a name of `CheckpointNames`, only the
  former; after somebody touched it, something understood. That a run which
  exports does not spoil this is not visible in a step: it depends on
  `parse_options` comparing the spellings and on `OpenExport` refusing names that
  exist (`TextInv`, `SavedInv`). Of a writer it says that the stream is the
  beginning of the payload of some copy of the store (`Copies`) although other
  threads commit meanwhile, and that the temporary files are those left by a kill or
  by a removal that failed and, while a run writes one, its own (`TempInv`); of
  a reader, where it is in which payload, or that it is in a file no checksum fits
  (`ReaderInv`); of trainer and store, that they are those of one uninterrupted
  run (`Exact`), for which `TrainedSum` adds up the blocks of training. None of the
  properties is inductive alone: that a run killed during a save leaves a file
  which a later run reads back depends on every step of the writer. There are
  many actions, so what they leave alone is stated once (`StoreMoves` to
  `TamperedMoves`), and each part of the invariant is a lemma over the few that
  disturb it. TLC confirmed the invariant on the instance of `session`, except
  that a copy of a store changed by other threads, which it would have to
  enumerate, was not searched for. The checksum is proved about as it is modelled:
  a function that tells apart words which differ by one in one place, as a CRC
  does; nothing else of it is used.

A recursion that a proof is about is written as a function on a range of
integers. What such a function computes, and the induction the lemmas use, is
derived in `StoreTableProofs`, `MccfrProofs` and `SessionProofs` from the
well-foundedness of the naturals (`LeastNat` to `StepFunction`). Recursive operators
have no such rules, so the modules that need them (trees and histories of any
shape) are apart from the ones proved about.

Only model-checked: every liveness property (out of the prover's reach);
`AgreesWithSequential`, whose sequential side is recursive; and what the full
traversal, the sequential traversal, the evaluation and the games compute, as
their operators are recursive over trees and histories.

## Findings

* `store_create_race`: `cfr_info_store_get_or_create` does not load
  `concurrent_state` again after it has waited for the write lock. If another
  thread has sharded the store meanwhile, a valid insertion is refused with
  `CFR_STATUS_INVALID_ARGUMENT`. The header says that insertion can run
  concurrently and that preparing the store is only a performance hint.
  `cfr_info_store_reserve` has a window of the same kind: it reads `entries`
  without the lock, possibly between its clearing and the publication of
  `concurrent_state`. `NoSpuriousInvalid` is about both; in `shared_store` the
  two operations are exempt from it (`AnswersTrue` asks it of the queries only).
* `sharded_reserve`: a sharded store divides a reservation evenly over the
  shards; keys that share a shard make it grow although the header promises
  that many nodes "without growth".

## Not modelled, and the plan

Left out on purpose: the bytes of arenas and their alignment; `collision_count`;
`set_initializer` and the destroy functions, which need exclusive ownership; the
rounding of floating-point normalisation and sums; spurious failures of weak
exchanges; the `_sequential` variants of node operations, whose caller is alone;
the growth of workspaces (an allocation is one of the calls that may fail); the
`NULL` checks of public functions; the lexing of options and the wording of
reports. `app/leduc_cli.c` and `app/blackjack_cli.c` save, load and export by the
protocol of `app/cfr_cli.c`. `tools/poker_tree_export.c` and
`tools/blackjack_compact_eval.c` are development aids: the first prints a tree,
the second evaluates blackjack in double precision over millions of states, out
of TLC's reach.

Left to do, most important first:

1. The games without recursion over histories, so that `UndoInvertsApply` and
   `KeyIsTheView` can be proved for the adapters.
2. The radix sort of commit entries as a pure algorithm.
