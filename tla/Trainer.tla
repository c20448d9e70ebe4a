------------------------------ MODULE Trainer ------------------------------
(***************************************************************************)
(* The training loop of src/trainer.c.  Each trainer belongs to one        *)
(* thread; trainers may share an information store, of which only          *)
(* concurrent_state # NULL matters here.  A traversal is one step: it      *)
(* commits its deltas as a whole (NodeCommit, RegretLedger) or fails and   *)
(* commits nothing.                                                        *)
(***************************************************************************)
EXTENDS Integers, FiniteSets, Sequences

CONSTANTS
  Trainers,
  PlayerCount,    \* game->strategic_player_count
  SizeMax,        \* SIZE_MAX, the largest size_t
  Amounts,        \* iterations a caller asks for
  Intervals,      \* intervals of cfr_trainer_run_with_callback
  VisitedCounts,  \* nodes a successful traversal may visit
  MaxRuns         \* bound: run calls on all trainers together

ASSUME TrainerAssumption ==
  /\ PlayerCount \in Nat \ {0} /\ SizeMax \in Nat \ {0} /\ MaxRuns \in Nat
  /\ Amounts \subseteq 0..SizeMax
  /\ Intervals \subseteq 1..SizeMax
  /\ VisitedCounts \subseteq 1..SizeMax

Players == 0..(PlayerCount - 1)
Sizes == 0..SizeMax
Variants == {"cfr", "cfr_plus", "mccfr"}
Ops == {"none", "run", "run_concurrent", "run_with_callback"}
Paths == {"full", "sequential", "concurrent"}
Places == {"idle", "choose", "prepare", "validate", "workspace", "traverse", "count",
           "progress", "return"}

VARIABLES
  variant,               \* trainer->variant
  training_iterations,   \* trainer->training_iterations
  stats,                 \* trainer->stats
  sharded,               \* the store's concurrent_state # NULL
  pc, frame,             \* where each run call is, and its locals
  runs,
  learned,    \* history: <<player, iteration>> of the traversals committed
  reported    \* history: the values passed to the callback in this run

counters == <<training_iterations, stats>>
history == <<learned, reported>>
vars == <<variant, counters, sharded, pc, frame, runs, history>>

ZeroStats == [iterations |-> 0, traversals |-> 0, visited_nodes |-> 0, errors |-> 0]
NoFrame == [op |-> "none", amount |-> 0, interval |-> 0, concurrent_mccfr |-> FALSE,
            path |-> "full", i |-> 0, player |-> 0, next_progress |-> 0, status |-> "success"]

\* trainer_init through its three entry points.
Init ==
  /\ variant \in [Trainers -> Variants]
  /\ training_iterations = [t \in Trainers |-> 0]
  /\ stats = [t \in Trainers |-> ZeroStats]
  /\ sharded = FALSE
  /\ pc = [t \in Trainers |-> "idle"]
  /\ frame = [t \in Trainers |-> NoFrame]
  /\ runs = 0
  /\ learned = [t \in Trainers |-> {}]
  /\ reported = [t \in Trainers |-> <<>>]

-----------------------------------------------------------------------------

Goto(t, where) == pc' = [pc EXCEPT ![t] = where]
Smaller(a, b) == IF a < b THEN a ELSE b

\* A mutant: a counter that goes past SIZE_MAX.
PlainAdd(a, b) == a + b

\* a + b, or SIZE_MAX when the sum does not fit.
SaturatingAdd(a, b) == IF a > SizeMax - b THEN SizeMax ELSE a + b

\* Stops the run with the status of a step that failed before the loop; the
\* failure is counted with the traversals'.
Refuse(t, status) ==
  /\ frame' = [frame EXCEPT ![t].status = status]
  /\ stats' = [stats EXCEPT ![t].errors = SaturatingAdd(@, 1)]
  /\ Goto(t, "return")

\* A sequential run needs the store to itself (cfr_trainer_run): the callers
\* that share a store keep to run_concurrent.
MayShare(t, concurrent_mccfr) ==
  \A u \in Trainers \ {t} :
    pc[u] # "idle" => concurrent_mccfr /\ frame[u].concurrent_mccfr

\* The checks of an entry point and of trainer_run that touch nothing: a zero
\* interval or an unfit variant is refused, an amount of zero succeeds.
Enter(t, op, amount, interval, concurrent_mccfr) ==
  LET invalid == \/ op = "run_with_callback" /\ interval = 0
                 \/ concurrent_mccfr /\ variant[t] # "mccfr"
  IN /\ frame' = [frame EXCEPT ![t] =
          [NoFrame EXCEPT !.op = op, !.amount = amount, !.interval = interval,
                          !.concurrent_mccfr = concurrent_mccfr,
                          !.status = IF invalid THEN "invalid" ELSE "success"]]
     /\ Goto(t, IF invalid \/ amount = 0 THEN "return" ELSE "choose")

\* The three entry points.
StartRun(t) ==
  /\ pc[t] = "idle" /\ runs < MaxRuns
  /\ \E op \in Ops \ {"none"}, amount \in Amounts, interval \in Intervals \union {0},
        concurrent_mccfr \in BOOLEAN :
       /\ op = "run" => ~concurrent_mccfr
       /\ op = "run_concurrent" => concurrent_mccfr
       /\ op # "run_with_callback" => interval = 0
       /\ MayShare(t, concurrent_mccfr)
       /\ Enter(t, op, amount, interval, concurrent_mccfr)
  /\ runs' = runs + 1
  /\ reported' = [reported EXCEPT ![t] = <<>>]
  /\ UNCHANGED <<variant, counters, sharded, learned>>

\* A mutant: only the caller's wish selects the synchronized traversal.
PathAsked(t) ==
  IF variant[t] # "mccfr" THEN "full"
  ELSE IF frame[t].concurrent_mccfr THEN "concurrent" ELSE "sequential"

\* traversal_uses_concurrent_mccfr
PathFor(t) ==
  IF variant[t] # "mccfr" THEN "full"
  ELSE IF frame[t].concurrent_mccfr \/ sharded THEN "concurrent" ELSE "sequential"

ChoosePath(t) ==
  /\ pc[t] = "choose"
  /\ frame' = [frame EXCEPT ![t].path = PathFor(t)]
  /\ Goto(t, IF PathFor(t) = "concurrent" THEN "prepare" ELSE "validate")
  /\ UNCHANGED <<variant, counters, sharded, runs, history>>

\* cfr_info_store_prepare_concurrent, which fails only for want of memory and
\* succeeds at once on a store that is sharded already.
Prepare(t) ==
  /\ pc[t] = "prepare"
  /\ \/ /\ sharded' = TRUE
        /\ Goto(t, "validate")
        /\ UNCHANGED <<frame, stats>>
     \/ ~sharded /\ Refuse(t, "out_of_memory") /\ UNCHANGED sharded
  /\ UNCHANGED <<variant, training_iterations, runs, history>>

\* cfr_game_validate_state on the root.
Validate(t) ==
  /\ pc[t] = "validate"
  /\ \/ Goto(t, "workspace") /\ UNCHANGED <<frame, stats>>
     \/ Refuse(t, "invalid")
  /\ UNCHANGED <<variant, training_iterations, sharded, runs, history>>

\* The workspace of the chosen path, then the loop's locals.
CreateWorkspace(t) ==
  /\ pc[t] = "workspace"
  /\ \/ /\ frame' = [frame EXCEPT ![t].next_progress =
                       Smaller(frame[t].amount, frame[t].interval)]
        /\ Goto(t, "traverse")
        /\ UNCHANGED stats
     \/ Refuse(t, "out_of_memory")
  /\ UNCHANGED <<variant, training_iterations, sharded, runs, history>>

\* The number of the iteration under way; CFR+ weights it with this.
Iteration(t) == SaturatingAdd(training_iterations[t], 1)

\* run_player_traversal for the player at hand.
Traverse(t) ==
  /\ pc[t] = "traverse"
  /\ \/ \E visited \in VisitedCounts :
          /\ stats' = [stats EXCEPT ![t].traversals = SaturatingAdd(@, 1),
                                    ![t].visited_nodes = SaturatingAdd(@, visited)]
          /\ frame' = [frame EXCEPT ![t].player = @ + 1]
          /\ learned' = [learned EXCEPT ![t] =
                           @ \union {<<frame[t].player, Iteration(t)>>}]
          /\ Goto(t, IF frame[t].player + 1 < PlayerCount THEN "traverse" ELSE "count")
     \/ /\ Refuse(t, "traversal_error")
        /\ UNCHANGED learned
  /\ UNCHANGED <<variant, training_iterations, sharded, runs, reported>>

ReportsNow(t) ==
  frame[t].op = "run_with_callback" /\ frame[t].i + 1 = frame[t].next_progress

\* Every player is done: the iteration counts.
CountIteration(t) ==
  /\ pc[t] = "count"
  /\ stats' = [stats EXCEPT ![t].iterations = SaturatingAdd(@, 1)]
  /\ training_iterations' = [training_iterations EXCEPT ![t] = SaturatingAdd(@, 1)]
  /\ IF ReportsNow(t)
     THEN Goto(t, "progress") /\ frame' = [frame EXCEPT ![t].player = 0]
     ELSE /\ frame' = [frame EXCEPT ![t].i = @ + 1, ![t].player = 0]
          /\ Goto(t, IF frame[t].i + 1 < frame[t].amount THEN "traverse" ELSE "return")
  /\ UNCHANGED <<variant, sharded, runs, history>>

\* A mutant: one interval further, with the wrap of size_t, and the last
\* report is left to chance.
NextIntervalProgress(f) == (f.next_progress + f.interval) % (SizeMax + 1)

NextProgress(f) == f.next_progress + Smaller(f.amount - f.next_progress, f.interval)

\* The callback sees the iterations completed in this run; its error ends
\* the run and is not counted.
Progress(t) ==
  /\ pc[t] = "progress"
  /\ reported' = [reported EXCEPT ![t] = Append(@, frame[t].i + 1)]
  /\ \/ /\ frame' = [frame EXCEPT ![t].next_progress = NextProgress(frame[t]),
                                  ![t].i = @ + 1]
        /\ Goto(t, IF frame[t].i + 1 < frame[t].amount THEN "traverse" ELSE "return")
     \/ /\ frame' = [frame EXCEPT ![t].status = "callback_error"]
        /\ Goto(t, "return")
  /\ UNCHANGED <<variant, counters, sharded, runs, learned>>

\* The workspace is destroyed and the status returned.
Return(t) ==
  /\ pc[t] = "return"
  /\ Goto(t, "idle")
  /\ UNCHANGED <<variant, counters, sharded, frame, runs, history>>

\* A mutant: the iteration number is reset with the statistics.
ResetEverything(t) ==
  /\ pc[t] = "idle"
  /\ stats' = [stats EXCEPT ![t] = ZeroStats]
  /\ training_iterations' = [training_iterations EXCEPT ![t] = 0]
  /\ UNCHANGED <<variant, sharded, pc, frame, runs, learned, reported>>

\* cfr_trainer_reset_stats, between two runs.
ResetStats(t) ==
  /\ pc[t] = "idle"
  /\ stats' = [stats EXCEPT ![t] = ZeroStats]
  /\ UNCHANGED <<variant, training_iterations, sharded, pc, frame, runs, learned, reported>>

Step(t) ==
  \/ ChoosePath(t) \/ Prepare(t) \/ Validate(t) \/ CreateWorkspace(t) \/ Traverse(t)
  \/ CountIteration(t) \/ Progress(t) \/ Return(t)

Next == \E t \in Trainers : StartRun(t) \/ Step(t) \/ ResetStats(t)

Spec == Init /\ [][Next]_vars

-----------------------------------------------------------------------------

Counters == [iterations : Sizes, traversals : Sizes, visited_nodes : Sizes, errors : Sizes]
Statuses == {"success", "invalid", "out_of_memory", "traversal_error", "callback_error"}
Frames ==
  [op : Ops, amount : Sizes, interval : Sizes, concurrent_mccfr : BOOLEAN, path : Paths,
   i : Sizes, player : 0..PlayerCount, next_progress : Sizes,
   status : Statuses]

\* Every counter and local of a run stays within its C type: no size_t wraps.
TypeOK ==
  /\ variant \in [Trainers -> Variants]
  /\ training_iterations \in [Trainers -> Sizes]
  /\ stats \in [Trainers -> Counters]
  /\ sharded \in BOOLEAN
  /\ pc \in [Trainers -> Places]
  /\ frame \in [Trainers -> Frames]
  /\ runs \in 0..MaxRuns
  /\ learned \in [Trainers -> SUBSET (Players \X Sizes)]
  /\ reported \in [Trainers -> Seq(Sizes)]

\* training_iterations numbers the iterations since initialization
\* (trainer.h): every player has committed a traversal for every number up to
\* it, nobody is more than one ahead, and in the iteration under way, or left
\* unfinished by an error, the players committed in their order - whatever
\* failed and whenever the statistics were reset.
IterationsInOrder ==
  \A t \in Trainers :
    /\ Players \X (1..training_iterations[t]) \subseteq learned[t]
    /\ \A pass \in learned[t] :
         /\ pass[2] \in 1..Iteration(t)
         /\ \A q \in 0..(pass[1] - 1) : <<q, pass[2]>> \in learned[t]

\* The iterations of this run that the callback has been told of or passed.
Completed(t) == frame[t].i + (IF frame[t].status = "callback_error" THEN 1 ELSE 0)

\* "after each interval completed iterations and after the final iteration,
\* without a duplicate call at an exact interval boundary" (trainer.h), for
\* every amount and interval size_t can hold.
ProgressSchedule ==
  \A t \in Trainers : frame[t].op = "run_with_callback" /\ frame[t].interval # 0 =>
    LET due == {n \in 1..Completed(t) : n % frame[t].interval = 0 \/ n = frame[t].amount}
    IN /\ {reported[t][k] : k \in DOMAIN reported[t]} = due
       /\ Len(reported[t]) = Cardinality(due)

\* A traversal that takes no locks never works on a sharded store, although
\* its path was chosen before the run's first step.
SequentialAlone ==
  \A t \in Trainers :
    frame[t].path = "sequential" /\ pc[t] \in {"validate", "workspace", "traverse"} =>
      ~sharded

=============================================================================
