------------------------------ MODULE Session ------------------------------
(***************************************************************************)
(* Runs of a command-line program (app/cfr_cli.c) one after the other on   *)
(* one directory: options, load, training in blocks, save through a        *)
(* temporary sibling, export by exclusive creation, cleanup.  The process  *)
(* may be killed at any step; between runs a file may be damaged or        *)
(* replaced, and at any time somebody else may create the export target.   *)
(* In the worlds with workers the program is another client of the         *)
(* library: other threads train on the same store while it writes.         *)
(***************************************************************************)
EXTENDS Checkpoint

CONSTANTS
    Invocations,        \* the options given: [evaluate, iterations, report_every, cfr_plus,
                        \* mccfr, seed, load, save, export], 0, -1 and NoPath for not given
    Worlds,             \* [zstd, workers, faults]: the format in use, whether other threads
                        \* train, whether runs are killed and files touched by others
    GameKeys,           \* the information sets of the game, with their
    ActionCount,        \* numbers of actions
    TemporaryAttempts,  \* 1000
    MaxRuns, MaxCommits \* bounds: invocations, commits by other threads

VARIABLES
    world,
    disk,       \* the directory: entries present -> contents
    pc, opts,   \* where run_training is, its options
    completed,  \* iterations of this run
    trainer, store,
    reader,     \* of the checkpoint being read
    keys, index, copied,   \* the nodes collected, the next one, its copy
    out,        \* what was written to the open stream
    attempt,    \* the number of the temporary file
    status,     \* of the writer
    exit,       \* the code of the last run that ended
    busy,       \* the node whose lock another thread holds, as a set
    moments,    \* history: the values each node had while unlocked, since the write began
    tampered,   \* history: whether somebody else changed a file
    crashed,    \* history: whether a run was killed; at most one is
    left,       \* history: the temporary files that a kill or a failed removal left
    runs, commits

vars == <<world, disk, pc, opts, completed, trainer, store, reader, keys, index, copied, out,
          attempt, status, exit, busy, moments, tampered, crashed, left, runs,
          commits>>

files == <<world, tampered, crashed, left, runs>>
writing == <<keys, index, copied, out, attempt, status>>
workers == <<busy, moments, commits>>

\* A path is a spelling of an entry; strcmp compares spellings, the system entries.
NoPath == [name |-> "", spelling |-> 0]
Entry(path) == <<path.name, 0>>
TemporaryEntry(path, n) == <<path.name, n + 1>>
Exists(entry) == entry \in DOMAIN disk

With(entry, words) == [e \in DOMAIN disk \cup {entry} |-> IF e = entry THEN words ELSE disk[e]]
Without(entry) == [e \in DOMAIN disk \ {entry} |-> disk[e]]

\* What the options of a run can be; a seed below zero is none.
Paths == [name : STRING, spelling : Nat]
Options == [evaluate : BOOLEAN, iterations : Nat, report_every : Nat, cfr_plus : BOOLEAN,
            mccfr : BOOLEAN, seed : Int, load : Paths, save : Paths, export : Paths]

ASSUME SessionAssumption ==
    /\ Invocations \subseteq Options
    /\ Worlds \subseteq [zstd : BOOLEAN, workers : BOOLEAN, faults : BOOLEAN]
    /\ IsFiniteSet(GameKeys)
    /\ GameKeys \subseteq -(KeyModulus \div 2) .. (KeyModulus \div 2) - 1
    /\ ActionCount \in [GameKeys -> 1 .. MaxLegalActions]
    /\ TemporaryAttempts \in Nat

NoTrainer == [variant |-> "CFR", rng |-> 0, training_iterations |-> 0, stats |-> <<0, 0, 0, 0>>]
NoOptions == [evaluate |-> FALSE, iterations |-> 0, report_every |-> 0, cfr_plus |-> FALSE,
              mccfr |-> FALSE, seed |-> -1, load |-> NoPath, save |-> NoPath, export |-> NoPath]

-----------------------------------------------------------------------------
\* What one iteration does to trainer and store: a function of all that a checkpoint has to
\* keep.  The values are stand-ins for regrets and strategy sums.
Visited(t) ==
    IF t.variant = "MCCFR_EXTERNAL" THEN {k \in GameKeys : (k + t.rng) % 2 = 0} ELSE GameKeys

VisitedNode(t, nodes, k) ==
    LET regret(a) == IF k \in DOMAIN nodes THEN nodes[k].regret_sums[a] ELSE 0
        strategy(a) == IF k \in DOMAIN nodes THEN nodes[k].strategy_sums[a] ELSE 0
        minus == IF t.variant = "CFR_PLUS" THEN 0 ELSE 8 * (t.training_iterations % 2)
    IN  [regret_sums |-> [a \in 1 .. ActionCount[k] |-> ((regret(a) + a + t.rng) % 7) + minus],
         strategy_sums |-> [a \in 1 .. ActionCount[k] |->
                               (strategy(a) + t.training_iterations + 1) % 7]]

Iterated(t, nodes) ==
    [trainer |->
        [t EXCEPT !.rng = IF t.variant = "MCCFR_EXTERNAL" THEN (5 * @ + 3) % 8 ELSE @,
                  !.training_iterations = @ + 1,
                  !.stats = <<@[1] + 1, @[2] + 2, @[3] + Cardinality(Visited(t)), @[4]>>],
     nodes |-> [k \in DOMAIN nodes \cup Visited(t) |->
                   IF k \in Visited(t) THEN VisitedNode(t, nodes, k) ELSE nodes[k]]]

Trained(t, nodes, n) ==
    LET after[i \in 0 .. n] == IF i = 0 THEN [trainer |-> t, nodes |-> nodes]
                               ELSE Iterated(after[i - 1].trainer, after[i - 1].nodes)
    IN  after[n]

\* cfr_trainer_init, _init_plus or _init_mccfr.
NewTrainer(o) ==
    [NoTrainer EXCEPT !.variant = IF o.cfr_plus THEN "CFR_PLUS"
                                  ELSE IF o.mccfr THEN "MCCFR_EXTERNAL" ELSE "CFR",
                      !.rng = IF o.mccfr THEN (IF o.seed >= 0 THEN o.seed ELSE 0) ELSE 0]

-----------------------------------------------------------------------------
\* The combinations of options that parse_options lets through.
Accepted(o) ==
    LET loads == o.load # NoPath
        seeded == o.seed >= 0
    IN  /\ o.evaluate => /\ loads /\ o.iterations = 0 /\ o.report_every = 0
                         /\ ~o.cfr_plus /\ ~o.mccfr /\ ~seeded /\ o.save = NoPath
        /\ loads => ~o.cfr_plus /\ ~o.mccfr /\ ~seeded
        /\ ~(o.cfr_plus /\ o.mccfr)
        /\ seeded => o.mccfr
        /\ o.save # NoPath => o.save # o.export
        /\ loads => o.load # o.export
        /\ o.evaluate \/ o.iterations > 0

\* Without --report-every one block is the whole run.
Reporting(o) == IF o.report_every = 0 THEN [o EXCEPT !.report_every = o.iterations] ELSE o

\* What an earlier run may have saved.
Earlier(w) ==
    LET fresh == {o \in Invocations : Accepted(o) /\ o.save # NoPath /\ o.load = NoPath}
        saved(o) == LET after == Trained(NewTrainer(o), <<>>, o.iterations)
                    IN  Framed(Payload(after.trainer, after.nodes), w.zstd)
    IN  {[e \in {Entry(o.save)} |-> saved(o)] : o \in fresh}

Init ==
    /\ world \in Worlds
    /\ disk \in {<<>>} \cup Earlier(world)
    /\ pc = "idle" /\ opts = NoOptions /\ completed = 0
    /\ trainer = NoTrainer /\ store = <<>> /\ reader = NewReader
    /\ keys = <<>> /\ index = 0 /\ copied = <<>> /\ out = <<>> /\ attempt = 0
    /\ status = "SUCCESS" /\ exit = "NONE"
    /\ busy = {} /\ moments = <<>> /\ tampered = FALSE /\ crashed = FALSE
    /\ left = {} /\ runs = 0 /\ commits = 0

Invoke ==
    /\ pc = "idle" /\ runs < MaxRuns
    /\ runs' = runs + 1
    /\ \E o \in Invocations :
          IF Accepted(o)
          THEN pc' = "inspect" /\ opts' = Reporting(o) /\ exit' = "NONE"
          ELSE exit' = "USAGE_ERROR" /\ UNCHANGED <<pc, opts>>
    /\ UNCHANGED <<world, disk, completed, trainer, store, reader, writing, workers, tampered, crashed,
                   left>>

Goto(label) == pc' = label

\* Any error: goto cleanup.
Fail == Goto("cleanup") /\ exit' = "RUNTIME_ERROR"

\* export_target_is_available; the inspection itself may fail.
InspectExport ==
    /\ pc = "inspect"
    /\ \/ Fail /\ opts.export # NoPath
       \/ /\ opts.export # NoPath => ~Exists(Entry(opts.export))
          /\ Goto(IF opts.load # NoPath THEN "open" ELSE "init")
          /\ UNCHANGED exit
    /\ UNCHANGED <<files, disk, opts, completed, trainer, store, reader, writing, workers>>

InitTrainer ==
    /\ pc = "init"
    /\ \/ Fail /\ UNCHANGED trainer
       \/ trainer' = NewTrainer(opts) /\ Goto("train") /\ UNCHANGED exit
    /\ UNCHANGED <<files, disk, opts, completed, store, reader, writing, workers>>

-----------------------------------------------------------------------------
\* load_checkpoint_file and checkpoint_read

Words == Unframed(disk[Entry(opts.load)], world.zstd)

\* After a part was read into r.
Proceed(r, label) ==
    IF r.status = "SUCCESS" THEN Goto(label) /\ UNCHANGED exit ELSE Fail

OpenLoad ==
    /\ pc = "open"
    /\ \/ /\ Exists(Entry(opts.load))
          /\ reader' = ReadHeader(Words)
          /\ Proceed(ReadHeader(Words), "read")
       \/ Fail /\ UNCHANGED reader
    /\ UNCHANGED <<files, disk, opts, completed, trainer, store, writing, workers>>

\* Mutant: the records go into the caller's store at once.
ReadRecordPublished ==
    /\ pc = "read" /\ reader.left > 0
    /\ reader' = ReadNode(Words, reader)
    /\ store' = ReadNode(Words, reader).nodes
    /\ Proceed(ReadNode(Words, reader), "read")
    /\ UNCHANGED <<files, disk, opts, completed, trainer, writing, workers>>

ReadRecord ==
    /\ pc = "read" /\ reader.left > 0
    /\ reader' = ReadNode(Words, reader)
    /\ Proceed(ReadNode(Words, reader), "read")
    /\ UNCHANGED <<files, disk, opts, completed, trainer, store, writing, workers>>

\* A read error, or a temporary node that cannot be allocated: the temporary store is
\* destroyed.
ReadFails ==
    /\ pc = "read"
    /\ Fail
    /\ reader' = NewReader
    /\ UNCHANGED <<files, disk, opts, completed, trainer, store, writing, workers>>

\* Checksum, trailing data, and only then both outputs.
Publish ==
    /\ pc = "read" /\ reader.left = 0
    /\ LET r == ReadChecksum(Words, reader)
       IN  IF r.status = "SUCCESS" /\ EndsCleanly(disk[Entry(opts.load)], world.zstd, r.pos)
           THEN /\ trainer' = [variant |-> r.variant, rng |-> r.rng, stats |-> r.stats,
                               training_iterations |-> r.training_iterations]
                /\ store' = r.nodes
                /\ Goto("loaded") /\ UNCHANGED exit
           ELSE Fail /\ UNCHANGED <<trainer, store>>
    /\ UNCHANGED <<files, disk, opts, completed, reader, writing, workers>>

\* fclose of the checkpoint; when it fails the published store is left to the exit.
CloseLoad ==
    /\ pc = "loaded"
    /\ Fail \/ (Goto(IF opts.evaluate THEN "evaluate" ELSE "train") /\ UNCHANGED exit)
    /\ reader' = NewReader
    /\ UNCHANGED <<files, disk, opts, completed, trainer, store, writing, workers>>

-----------------------------------------------------------------------------
\* The middle of run_training

\* --evaluate: only reads the store.
Evaluate ==
    /\ pc = "evaluate"
    /\ Fail \/ (Goto("save") /\ UNCHANGED exit)
    /\ UNCHANGED <<files, disk, opts, completed, trainer, store, reader, writing, workers>>

Block == IF opts.report_every < opts.iterations - completed
         THEN opts.report_every ELSE opts.iterations - completed

\* A block, its evaluation and its report.
TrainBlock ==
    /\ pc = "train" /\ completed < opts.iterations
    /\ LET after == Trained(trainer, store, Block)
       IN  trainer' = after.trainer /\ store' = after.nodes
    /\ completed' = completed + Block
    /\ UNCHANGED <<files, disk, pc, opts, reader, writing, workers, exit>>

\* The run, the evaluation or the report fails: nothing is saved.
TrainFails ==
    /\ pc = "train" /\ completed < opts.iterations
    /\ Fail
    /\ UNCHANGED <<files, disk, opts, completed, trainer, store, reader, writing, workers>>

\* The end of the loop, and --print-strategy, which may fail.
TrainDone ==
    /\ pc = "train" /\ completed >= opts.iterations
    /\ Fail \/ (Goto("save") /\ UNCHANGED exit)
    /\ UNCHANGED <<files, disk, opts, completed, trainer, store, reader, writing, workers>>

-----------------------------------------------------------------------------
\* write_trainer_file and checkpoint_write

Free(n) == ~Exists(TemporaryEntry(opts.save, n))

\* The first temporary name that is free is created exclusively; any other failure than a
\* file that is there ends the search.
OpenTemporary ==
    /\ pc = "save"
    /\ \/ /\ opts.save = NoPath
          /\ Goto("export") /\ UNCHANGED <<disk, attempt, out, status, exit>>
       \/ /\ opts.save # NoPath
          /\ \E n \in 0 .. TemporaryAttempts - 1 :
                /\ Free(n) /\ \A j \in 0 .. n - 1 : ~Free(j)
                /\ disk' = With(TemporaryEntry(opts.save, n), <<>>)
                /\ attempt' = n
          /\ out' = <<>> /\ status' = "SUCCESS"
          /\ Goto("collect") /\ UNCHANGED exit
       \/ opts.save # NoPath /\ Fail /\ UNCHANGED <<disk, attempt, out, status>>
    /\ UNCHANGED <<files, opts, completed, trainer, store, reader, keys, index, copied, workers>>

\* collect_nodes: the nodes there are now, in key order.
Collect ==
    /\ pc = "collect"
    /\ keys' = SortedKeys(store) /\ index' = 1
    /\ moments' = [k \in DOMAIN store |-> IF k \in busy THEN {} ELSE {store[k]}]
    /\ Goto("header")
    /\ UNCHANGED <<files, disk, opts, completed, trainer, store, reader, copied, out, attempt,
                   status, exit, busy, commits>>

WriteHeader ==
    /\ pc = "header"
    /\ out' = Header(trainer, Len(keys))
    /\ Goto("copy")
    /\ UNCHANGED <<files, disk, opts, completed, trainer, store, reader, keys, index, copied,
                   attempt, status, exit, workers>>

\* Mutant: the node is copied without its lock.
CopyNodeUnlocked ==
    /\ pc = "copy" /\ index <= Len(keys)
    /\ copied' = store[keys[index]] /\ Goto("record")
    /\ UNCHANGED <<files, disk, opts, completed, trainer, store, reader, keys, index, out,
                   attempt, status, exit, workers>>

\* copy_node_snapshot, under the node's lock.
CopyNode ==
    /\ pc = "copy" /\ index <= Len(keys)
    /\ keys[index] \notin busy
    /\ IF ValidNode(store[keys[index]], trainer.variant)
       THEN copied' = store[keys[index]] /\ Goto("record") /\ UNCHANGED status
       ELSE status' = "NUMERIC_ERROR" /\ Goto("close") /\ UNCHANGED copied
    /\ UNCHANGED <<files, disk, opts, completed, trainer, store, reader, keys, index, out,
                   attempt, exit, workers>>

WriteRecord ==
    /\ pc = "record"
    /\ out' = out \o Record(keys[index], copied)
    /\ index' = index + 1
    /\ Goto("copy")
    /\ UNCHANGED <<files, disk, opts, completed, trainer, store, reader, keys, copied, attempt,
                   status, exit, workers>>

WriteChecksum ==
    /\ pc = "copy" /\ index > Len(keys)
    /\ out' = Framed(Sealed(out), world.zstd)
    /\ Goto("close")
    /\ UNCHANGED <<files, disk, opts, completed, trainer, store, reader, keys, index, copied,
                   attempt, status, exit, workers>>

\* The allocation of the copies or a write to the stream fails.
WriteFails ==
    /\ pc \in {"collect", "header", "copy", "record"}
    /\ status' = "IO_ERROR"
    /\ Goto("close")
    /\ UNCHANGED <<files, disk, opts, completed, trainer, store, reader, keys, index, copied,
                   out, attempt, exit, workers>>

\* What may be on the disk of a stream that was not closed.
Flushed(words) == {SubSeq(words, 1, n) : n \in {0, Len(words) \div 2, Len(words)}}

\* Mutant: the result of fclose is ignored.
CloseTemporaryBlind ==
    /\ pc = "close"
    /\ \E words \in Flushed(out) : disk' = With(TemporaryEntry(opts.save, attempt), words)
    /\ Goto("rename")
    /\ UNCHANGED <<files, opts, completed, trainer, store, reader, writing, exit, workers>>

\* fclose writes what is buffered, or fails.
CloseTemporary ==
    /\ pc = "close"
    /\ \/ /\ disk' = With(TemporaryEntry(opts.save, attempt), out)
          /\ UNCHANGED status
       \/ /\ \E words \in Flushed(out) : disk' = With(TemporaryEntry(opts.save, attempt), words)
          /\ status' = IF status = "SUCCESS" THEN "IO_ERROR" ELSE status
    /\ Goto("rename")
    /\ UNCHANGED <<files, opts, completed, trainer, store, reader, keys, index, copied, out,
                   attempt, exit, workers>>

\* rename replaces the target in one step, or fails.
Rename ==
    /\ pc = "rename"
    /\ \/ /\ status = "SUCCESS"
          /\ disk' = [e \in (DOMAIN disk \cup {Entry(opts.save)})
                              \ {TemporaryEntry(opts.save, attempt)} |->
                         IF e = Entry(opts.save) THEN disk[TemporaryEntry(opts.save, attempt)]
                         ELSE disk[e]]
          /\ Goto("export")
       \/ Goto("remove") /\ UNCHANGED disk
    /\ UNCHANGED <<files, opts, completed, trainer, store, reader, writing, exit, workers>>

\* The result of remove is ignored: the file may stay.
RemoveTemporary ==
    LET own == TemporaryEntry(opts.save, attempt)
    IN  /\ pc = "remove"
        /\ \/ disk' = Without(own) /\ UNCHANGED left
           \/ left' = left \cup {own} /\ UNCHANGED disk
        /\ Fail
        /\ UNCHANGED <<world, tampered, crashed, runs, opts, completed, trainer, store, reader,
                       writing, workers>>

-----------------------------------------------------------------------------
\* The export and the end

\* cfr_strategy_write_text: a heading and one line for each node, in key order.
Text(t, nodes) ==
    LET sorted == SortedKeys(nodes)
        line(k) == <<k, Len(nodes[k].strategy_sums)>> \o nodes[k].strategy_sums
    IN  Joined(<<Version, VariantCode[t.variant], t.training_iterations, Len(sorted)>>,
               [i \in DOMAIN sorted |-> line(sorted[i])], Len(sorted))

\* Mutant: the target is opened for writing, whatever is there.
OpenExportOver ==
    /\ pc = "export"
    /\ IF opts.export = NoPath
       THEN Goto("cleanup") /\ exit' = "SUCCESS" /\ UNCHANGED disk
       ELSE disk' = With(Entry(opts.export), <<>>) /\ Goto("text") /\ UNCHANGED exit
    /\ UNCHANGED <<files, opts, completed, trainer, store, reader, writing, workers>>

OpenExport ==
    /\ pc = "export"
    /\ \/ /\ opts.export = NoPath
          /\ Goto("cleanup") /\ exit' = "SUCCESS" /\ UNCHANGED disk
       \/ opts.export # NoPath /\ Fail /\ UNCHANGED disk
       \/ /\ opts.export # NoPath /\ ~Exists(Entry(opts.export))
          /\ disk' = With(Entry(opts.export), <<>>)
          /\ Goto("text") /\ UNCHANGED exit
    /\ UNCHANGED <<files, opts, completed, trainer, store, reader, writing, workers>>

\* Mutant: a failing write or fclose of the export is not noticed.
WriteExportUnchecked ==
    /\ pc = "text"
    /\ \E words \in Flushed(Text(trainer, store)) : disk' = With(Entry(opts.export), words)
    /\ Goto("cleanup") /\ exit' = "SUCCESS"
    /\ UNCHANGED <<files, opts, completed, trainer, store, reader, writing, workers>>

\* The text and fclose; a failure leaves what was written.
WriteExport ==
    /\ pc = "text"
    /\ \/ /\ disk' = With(Entry(opts.export), Text(trainer, store))
          /\ Goto("cleanup") /\ exit' = "SUCCESS"
       \/ /\ \E words \in Flushed(Text(trainer, store)) : disk' = With(Entry(opts.export), words)
          /\ Fail
    /\ UNCHANGED <<files, opts, completed, trainer, store, reader, writing, workers>>

\* A temporary file is there, from its creation to its renaming or removal.
Writing == {"collect", "header", "copy", "record", "close", "rename", "remove"}

\* What a process forgets when it ends.
Forget ==
    /\ pc' = "idle" /\ opts' = NoOptions /\ completed' = 0
    /\ trainer' = NoTrainer /\ store' = <<>> /\ reader' = NewReader
    /\ keys' = <<>> /\ index' = 0 /\ copied' = <<>> /\ out' = <<>> /\ attempt' = 0
    /\ status' = "SUCCESS" /\ busy' = {} /\ moments' = <<>> /\ commits' = 0

Cleanup == /\ pc = "cleanup"
           /\ Forget
           /\ UNCHANGED <<files, disk, exit>>

-----------------------------------------------------------------------------
\* The surroundings

\* The process is killed; of an open stream any part may have reached the disk.
Crash ==
    /\ pc # "idle" /\ world.faults /\ ~crashed
    /\ CASE pc \in {"collect", "header", "copy", "record", "close"} ->
              \E words \in Flushed(out) : disk' = With(TemporaryEntry(opts.save, attempt), words)
         [] pc = "text" ->
              \E words \in Flushed(Text(trainer, store)) : disk' = With(Entry(opts.export), words)
         [] OTHER -> UNCHANGED disk
    /\ Forget
    /\ exit' = "KILLED" /\ crashed' = TRUE
    /\ left' = IF pc \in Writing THEN left \cup {TemporaryEntry(opts.save, attempt)} ELSE left
    /\ UNCHANGED <<world, tampered, runs>>

\* Ways a checkpoint can be damaged: one word changed, cut off anywhere, something added, or
\* written for another game.
Damages(file) ==
    {[file EXCEPT ![i] = file[i] + 1] : i \in DOMAIN file}
    \cup {SubSeq(file, 1, n) : n \in 0 .. Len(file) - 1}
    \cup {Append(file, 0), file \o file}
    \cup (IF world.zstd THEN {}
          ELSE LET words == [i \in 1 .. Len(file) - 1 |-> IF i = 4 THEN file[4] + 1 ELSE file[i]]
               IN  {Sealed(words)})

Damage ==
    /\ pc = "idle" /\ world.faults /\ ~tampered
    /\ \E e \in DOMAIN disk :
          /\ disk[e] # <<>>
          /\ \E words \in Damages(disk[e]) : disk' = With(e, words)
    /\ tampered' = TRUE
    /\ UNCHANGED <<world, pc, opts, completed, trainer, store, reader, writing, workers, exit,
                   crashed, left, runs>>

\* Somebody creates the export target, also while the program trains.
CreateForeign ==
    /\ world.faults /\ pc \notin {"idle", "cleanup"} /\ opts.export # NoPath /\ ~tampered
    /\ ~Exists(Entry(opts.export))
    /\ disk' = With(Entry(opts.export), <<99>>)
    /\ tampered' = TRUE
    /\ UNCHANGED <<world, pc, opts, completed, trainer, store, reader, writing, workers, exit,
                   crashed, left, runs>>

\* Another thread commits to a node: it locks it and stores the regrets, then the strategy
\* sums.  Its trainer may be of another variant, with negative regrets.
WorkerBegins ==
    /\ world.workers /\ pc \in {"collect", "header", "copy", "record"} /\ commits < MaxCommits
    /\ busy = {}
    /\ \E k \in DOMAIN store, sign \in {0, 8} :
          /\ store' = [store EXCEPT ![k].regret_sums = [a \in DOMAIN @ |-> ((@[a] + 1) % 7) + sign]]
          /\ busy' = {k}
    /\ commits' = commits + 1
    /\ UNCHANGED <<files, disk, pc, opts, completed, trainer, reader, writing, moments, exit>>

WorkerEnds ==
    /\ \E k \in busy :
          /\ store' = [store EXCEPT ![k].strategy_sums = [a \in DOMAIN @ |-> (@[a] + 1) % 7]]
          /\ moments' = IF k \in DOMAIN moments
                        THEN [moments EXCEPT ![k] = @ \cup {store'[k]}] ELSE moments
    /\ busy' = {}
    /\ UNCHANGED <<files, disk, pc, opts, completed, trainer, reader, writing, commits, exit>>

\* Another thread meets an information set for the first time.
WorkerInserts ==
    /\ world.workers /\ pc \in {"collect", "header", "copy", "record"} /\ commits < MaxCommits
    /\ \E k \in GameKeys \ DOMAIN store :
          LET zero == [a \in 1 .. ActionCount[k] |-> 0]
          IN  store' = [j \in DOMAIN store \cup {k} |->
                           IF j = k THEN [regret_sums |-> zero, strategy_sums |-> zero]
                           ELSE store[j]]
    /\ commits' = commits + 1
    /\ UNCHANGED <<files, disk, pc, opts, completed, trainer, reader, writing, busy, moments, exit>>

Program == \/ InspectExport \/ InitTrainer \/ OpenLoad \/ ReadRecord \/ ReadFails \/ Publish
           \/ CloseLoad \/ Evaluate \/ TrainBlock \/ TrainFails \/ TrainDone \/ OpenTemporary
           \/ Collect \/ WriteHeader \/ CopyNode \/ WriteRecord \/ WriteChecksum \/ WriteFails
           \/ CloseTemporary \/ Rename \/ RemoveTemporary \/ OpenExport \/ WriteExport \/ Cleanup

Worker == WorkerBegins \/ WorkerEnds \/ WorkerInserts

Next == Invoke \/ Program \/ Crash \/ Damage \/ CreateForeign \/ Worker

Spec == Init /\ [][Next]_vars

-----------------------------------------------------------------------------
\* Properties

\* The names given to --save, without those that a run exports to which neither loads nor
\* saves there.
CheckpointNames ==
    LET accepted == {o \in Invocations : Accepted(o)}
        elsewhere(o) == \A path \in {o.load, o.save} : path = NoPath \/ path.name # o.export.name
    IN  {o.save.name : o \in {p \in accepted : p.save # NoPath}}
        \ {o.export.name : o \in {p \in accepted : p.export # NoPath /\ elsewhere(p)}}

Checkpoints == {e \in DOMAIN disk : e[2] = 0 /\ e[1] \in CheckpointNames}

\* Whatever step the program was killed at, and whichever call failed, a file under the name
\* given to --save is a whole checkpoint: the old one or the new one (write_trainer_file).
\* Between two runs the temporary files are exactly those whose writer was killed or could not
\* remove them: no other failure leaves one, and no later run takes an old one for its own,
\* to overwrite, rename or remove it.
SavedFileComplete ==
    /\ ~tampered => \A e \in Checkpoints : Read(disk[e], world.zstd).status = "SUCCESS"
    /\ pc = "idle" => {e \in DOMAIN disk : e[2] # 0} = left

\* checkpoint_read binds neither store nor trainer before it has seen the last byte, and what
\* it binds is exactly the file: a changed word, a cut, an addition or a doubled frame is
\* refused and leaves both outputs as they were.
LoadAllOrNothing ==
    /\ pc \in {"open", "read"} => trainer = NoTrainer /\ store = <<>>
    /\ pc = "loaded" =>
          disk[Entry(opts.load)] = Framed(Payload(trainer, store), world.zstd)

\* Records are written while other threads commit: each is the node as it was at some moment
\* between two commits (cfr_checkpoint_write: "concurrent updates cannot tear an individual
\* record").
RecordsUntorn == pc = "record" => copied \in moments[keys[index]]

\* A run that loads a checkpoint continues exactly where the one that saved it stopped: at any
\* time trainer and nodes, statistics and random state included, are those of one run that was
\* never interrupted.
ResumeIsExact ==
    (pc \in {"loaded", "train", "evaluate", "save", "collect", "export"} /\ ~world.workers /\ ~tampered) =>
        \E o \in Invocations :
            LET n == trainer.training_iterations
            IN  [trainer |-> trainer, nodes |-> store] = Trained(NewTrainer(o), <<>>, n)

\* The program says that it succeeded only if the checkpoint and the export asked for are
\* there, complete.
SuccessMeansSaved ==
    (pc = "cleanup" /\ exit = "SUCCESS" /\ ~world.workers) =>
        /\ opts.save # NoPath =>
              /\ Exists(Entry(opts.save))
              /\ disk[Entry(opts.save)] = Framed(Payload(trainer, store), world.zstd)
        /\ opts.export # NoPath =>
              Exists(Entry(opts.export)) /\ disk[Entry(opts.export)] = Text(trainer, store)

\* The export never changes a file under its name that it did not create itself: not one that
\* appeared while the program trained, nor a checkpoint that the name is another spelling of.
\* Replacing what lies under the name given to --save is left to the renaming.
ExportNeverOverwrites ==
    [][\A path \in {opts.export} :
          (Exists(Entry(path)) /\ pc \notin {"idle", "text", "rename"}) =>
              Exists(Entry(path))' /\ disk'[Entry(path)] = disk[Entry(path)]]_vars

=============================================================================
