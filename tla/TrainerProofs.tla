--------------------------- MODULE TrainerProofs ---------------------------
(***************************************************************************)
(* Proofs about the training loop, for any trainers, players, amounts and  *)
(* any SIZE_MAX.                                                           *)
(***************************************************************************)
EXTENDS Trainer, FiniteSetTheorems, TLAPS

InLoop(t) == pc[t] \in {"traverse", "count", "progress"}
OnPath(t) == InLoop(t) \/ pc[t] \in {"validate", "workspace"}

\* What the locals of a run satisfy where the loop relies on them.
LoopShape(t) ==
  /\ pc[t] \in {"choose", "prepare", "validate", "workspace"} =>
       frame[t].i = 0 /\ frame[t].player = 0 /\ frame[t].amount > 0
  /\ InLoop(t) => /\ frame[t].i < frame[t].amount
                  /\ frame[t].next_progress <= frame[t].amount
  /\ pc[t] = "traverse" => frame[t].player < PlayerCount
  /\ pc[t] = "progress" => frame[t].player = 0

\* The players before the one at hand have committed for this iteration.
PlayersDone(t) ==
  /\ pc[t] = "traverse" =>
       \A q \in Players : q < frame[t].player => <<q, Iteration(t)>> \in learned[t]
  /\ pc[t] = "count" => \A q \in Players : <<q, Iteration(t)>> \in learned[t]

\* Runs overlap only when both are synchronized, and a run on the sequential
\* path is not.
Synchronized(t) ==
  /\ pc[t] # "idle" =>
       \A u \in Trainers \ {t} : pc[u] # "idle" => frame[t].concurrent_mccfr
  /\ frame[t].path = "sequential" /\ OnPath(t) => ~frame[t].concurrent_mccfr /\ ~sharded
  /\ pc[t] = "prepare" => frame[t].path = "concurrent"

\* The inductive invariant.
IInv ==
  /\ TypeOK
  /\ IterationsInOrder
  /\ \A t \in Trainers : LoopShape(t) /\ PlayersDone(t) /\ Synchronized(t)

-----------------------------------------------------------------------------

\* A saturated sum is a size_t and no smaller than its first operand.
LEMMA SaturatingAddType ==
  ASSUME NEW a \in Sizes, NEW b \in Sizes
  PROVE  /\ SaturatingAdd(a, b) \in Sizes
         /\ SaturatingAdd(a, b) >= a
         /\ SaturatingAdd(a, b) <= a + b
         /\ a < SizeMax => SaturatingAdd(a, 1) = a + 1
BY TrainerAssumption DEF SaturatingAdd, Sizes

\* One is a size_t: SIZE_MAX is at least one.
LEMMA OneIsSize == 1 \in Sizes /\ 0 \in Sizes
BY TrainerAssumption DEF Sizes

\* The initial state satisfies the invariant.
LEMMA TrainerInit == Init => IInv
<1> SUFFICES ASSUME Init PROVE IInv
  OBVIOUS
<1>1. TypeOK
  <2>1. NoFrame \in Frames
    BY OneIsSize, TrainerAssumption DEF NoFrame, Frames, Ops, Paths, Statuses
  <2>2. ZeroStats \in Counters
    BY OneIsSize DEF ZeroStats, Counters
  <2>3. runs \in 0..MaxRuns
    BY TrainerAssumption DEF Init
  <2>4. pc \in [Trainers -> Places] /\ reported \in [Trainers -> Seq(Sizes)]
    BY DEF Init, Places
  <2>5. training_iterations \in [Trainers -> Sizes]
    BY OneIsSize DEF Init
  <2>6. frame \in [Trainers -> Frames]
    BY <2>1 DEF Init
  <2>7. stats \in [Trainers -> Counters]
    BY <2>2 DEF Init
  <2>8. learned \in [Trainers -> SUBSET (Players \X Sizes)]
    BY DEF Init
  <2>9. QED
    BY <2>3, <2>4, <2>5, <2>6, <2>7, <2>8 DEF Init, TypeOK
<1>2. \A t \in Trainers : LoopShape(t) /\ PlayersDone(t) /\ Synchronized(t)
  BY DEF Init, LoopShape, PlayersDone, Synchronized, InLoop, OnPath
<1>3. IterationsInOrder
  BY DEF Init, IterationsInOrder
<1>4. QED
  BY <1>1, <1>2, <1>3 DEF IInv

\* The statistics stay counters when some of them grow, saturating.
LEMMA CounterFields ==
  ASSUME NEW c \in Counters, NEW v \in Sizes
  PROVE  /\ [c EXCEPT !.errors = SaturatingAdd(@, 1)] \in Counters
         /\ [c EXCEPT !.iterations = SaturatingAdd(@, 1)] \in Counters
         /\ [c EXCEPT !.traversals = SaturatingAdd(@, 1),
                      !.visited_nodes = SaturatingAdd(@, v)] \in Counters
<1>1. \A n \in Sizes : SaturatingAdd(n, 1) \in Sizes /\ SaturatingAdd(n, v) \in Sizes
  BY SaturatingAddType, OneIsSize
<1>2. QED
  BY <1>1 DEF Counters

\* A failure before the loop or in a traversal keeps the types.
LEMMA RefuseType ==
  ASSUME TypeOK, NEW t \in Trainers, NEW status \in Statuses, Refuse(t, status)
  PROVE  /\ frame' \in [Trainers -> Frames]
         /\ stats' \in [Trainers -> Counters]
         /\ pc' \in [Trainers -> Places]
<1>1. frame[t] \in Frames /\ stats[t] \in Counters
  BY DEF TypeOK
<1>2. frame' = [frame EXCEPT ![t] = [frame[t] EXCEPT !.status = status]]
  BY DEF Refuse
<1>3. [frame[t] EXCEPT !.status = status] \in Frames
  BY <1>1 DEF Frames
<1>4. stats' = [stats EXCEPT ![t] = [stats[t] EXCEPT !.errors = SaturatingAdd(@, 1)]]
  BY DEF Refuse
<1>5. [stats[t] EXCEPT !.errors = SaturatingAdd(@, 1)] \in Counters
  BY <1>1, CounterFields, OneIsSize
<1>6. pc' \in [Trainers -> Places]
  BY DEF Refuse, Goto, TypeOK, Places
<1>7. QED
  BY <1>2, <1>3, <1>4, <1>5, <1>6 DEF TypeOK

\* The frame a call starts with.
LEMMA StartFrame ==
  ASSUME IInv, NEW t \in Trainers, StartRun(t)
  PROVE  /\ frame' \in [Trainers -> Frames]
         /\ pc' \in [Trainers -> Places]
         /\ frame'[t].i = 0 /\ frame'[t].player = 0 /\ frame'[t].path = "full"
         /\ pc'[t] \in {"return", "choose"}
         /\ pc'[t] = "choose" => frame'[t].amount > 0
         /\ frame'[t].status # "callback_error"
         /\ MayShare(t, frame'[t].concurrent_mccfr)
<1>1. PICK op \in Ops \ {"none"}, amount \in Amounts, interval \in Intervals \union {0},
           concurrent_mccfr \in BOOLEAN :
        /\ MayShare(t, concurrent_mccfr)
        /\ Enter(t, op, amount, interval, concurrent_mccfr)
  BY DEF StartRun
<1> DEFINE invalid == \/ op = "run_with_callback" /\ interval = 0
                      \/ concurrent_mccfr /\ variant[t] # "mccfr"
           status == IF invalid THEN "invalid" ELSE "success"
           place == IF invalid \/ amount = 0 THEN "return" ELSE "choose"
<1>a. /\ frame' = [frame EXCEPT ![t] =
           [NoFrame EXCEPT !.op = op, !.amount = amount, !.interval = interval,
                           !.concurrent_mccfr = concurrent_mccfr, !.status = status]]
      /\ pc' = [pc EXCEPT ![t] = place]
  BY <1>1 DEF Enter, Goto
<1>b. /\ status \in {"invalid", "success"} /\ place \in {"return", "choose"}
      /\ amount = 0 => place = "return"
  OBVIOUS
<1> HIDE DEF status, place
<1>2. amount \in Sizes /\ interval \in Sizes /\ 0 \in 0..PlayerCount
  BY TrainerAssumption DEF Sizes
<1> DEFINE new == [NoFrame EXCEPT !.op = op, !.amount = amount, !.interval = interval,
                        !.concurrent_mccfr = concurrent_mccfr, !.status = status]
<1>3. new \in Frames
  BY <1>2, <1>b, OneIsSize DEF NoFrame, Frames, Ops, Paths, Statuses
<1>4. /\ new.i = 0 /\ new.player = 0 /\ new.path = "full" /\ new.amount = amount
      /\ new.concurrent_mccfr = concurrent_mccfr /\ new.status = status
  BY DEF NoFrame
<1>5. frame' = [frame EXCEPT ![t] = new] /\ frame'[t] = new
  BY <1>a DEF IInv, TypeOK
<1> HIDE DEF new
<1>6. pc'[t] = place /\ pc' \in [Trainers -> Places]
  BY <1>a, <1>b DEF IInv, TypeOK, Places
<1>7. amount > 0 \/ amount = 0
  BY <1>2, TrainerAssumption DEF Sizes
<1>8. QED
  BY <1>1, <1>a, <1>b, <1>3, <1>4, <1>5, <1>6, <1>7 DEF IInv, TypeOK

\* The step of one trainer leaves the others alone.
LEMMA OthersKeep ==
  ASSUME IInv, NEW t \in Trainers, StartRun(t) \/ Step(t) \/ ResetStats(t),
         NEW u \in Trainers \ {t}
  PROVE  /\ pc'[u] = pc[u] /\ frame'[u] = frame[u] /\ learned'[u] = learned[u]
         /\ training_iterations'[u] = training_iterations[u] /\ reported'[u] = reported[u]
<1> USE DEF IInv, TypeOK
<1>1. CASE StartRun(t)
  BY <1>1 DEF StartRun, Enter, Goto, counters
<1>2. CASE ChoosePath(t) \/ Return(t) \/ ResetStats(t)
  BY <1>2 DEF ChoosePath, Return, ResetStats, Goto, counters, history
<1>3. CASE Prepare(t) \/ Validate(t) \/ CreateWorkspace(t)
  BY <1>3 DEF Prepare, Validate, CreateWorkspace, Refuse, Goto, history
<1>4. CASE Traverse(t)
  BY <1>4 DEF Traverse, Refuse, Goto
<1>5. CASE CountIteration(t) \/ Progress(t)
  BY <1>5 DEF CountIteration, Progress, Goto, counters, history
<1>6. QED
  BY <1>1, <1>2, <1>3, <1>4, <1>5 DEF Step

\* What each step of the loop makes of its trainer's locals.
LEMMA LoopLocals ==
  ASSUME IInv, NEW t \in Trainers
  PROVE  /\ CreateWorkspace(t) /\ pc'[t] = "traverse" =>
              frame'[t] = [frame[t] EXCEPT !.next_progress =
                             Smaller(frame[t].amount, frame[t].interval)]
         /\ Traverse(t) /\ pc'[t] # "return" =>
              /\ frame'[t] = [frame[t] EXCEPT !.player = @ + 1]
              /\ pc'[t] = IF frame[t].player + 1 < PlayerCount THEN "traverse" ELSE "count"
              /\ learned'[t] = learned[t] \union {<<frame[t].player, Iteration(t)>>}
         /\ CountIteration(t) /\ pc'[t] = "progress" =>
              frame'[t] = [frame[t] EXCEPT !.player = 0]
         /\ CountIteration(t) /\ pc'[t] # "progress" =>
              /\ frame'[t] = [frame[t] EXCEPT !.i = @ + 1, !.player = 0]
              /\ pc'[t] = IF frame[t].i + 1 < frame[t].amount THEN "traverse" ELSE "return"
         /\ Progress(t) /\ pc'[t] # "return" =>
              /\ frame'[t] = [frame[t] EXCEPT !.next_progress = NextProgress(frame[t]),
                                              !.i = @ + 1]
              /\ pc'[t] = IF frame[t].i + 1 < frame[t].amount THEN "traverse" ELSE "return"
<1> USE DEF IInv, TypeOK
<1>1. CASE CreateWorkspace(t)
  BY <1>1 DEF CreateWorkspace, Refuse, Goto, Traverse, CountIteration, Progress
<1>2. CASE Traverse(t)
  BY <1>2 DEF CreateWorkspace, Refuse, Goto, Traverse, CountIteration, Progress
<1>3. CASE CountIteration(t)
  BY <1>3 DEF CreateWorkspace, Goto, Traverse, CountIteration, Progress
<1>4. CASE Progress(t)
  BY <1>4 DEF CreateWorkspace, Goto, Traverse, CountIteration, Progress
<1>5. QED
  BY <1>1, <1>2, <1>3, <1>4

\* The next report stays within the amount.
LEMMA NextWithin ==
  ASSUME NEW f \in Frames, f.next_progress <= f.amount
  PROVE  NextProgress(f) \in Sizes /\ NextProgress(f) <= f.amount
<1>1. f.next_progress \in Sizes /\ f.amount \in Sizes /\ f.interval \in Sizes
  BY DEF Frames
<1>2. QED
  BY <1>1, TrainerAssumption DEF NextProgress, Smaller, Sizes

\* Every step keeps the types.
LEMMA TypeStep ==
  ASSUME IInv, NEW t \in Trainers, StartRun(t) \/ Step(t) \/ ResetStats(t)
  PROVE  TypeOK'
<1>t. /\ frame[t] \in Frames /\ stats[t] \in Counters /\ training_iterations[t] \in Sizes
      /\ frame[t].i \in Sizes /\ frame[t].amount \in Sizes /\ frame[t].interval \in Sizes
      /\ frame[t].next_progress \in Sizes /\ frame[t].player \in 0..PlayerCount
  BY DEF IInv, TypeOK, Frames
<1>0. SaturatingAdd(training_iterations[t], 1) \in Sizes
  BY <1>t, SaturatingAddType, OneIsSize
<1> USE DEF TypeOK
<1>1. CASE StartRun(t)
  <2>1. runs' \in 0..MaxRuns
    BY <1>1, TrainerAssumption DEF StartRun, IInv
  <2>2. reported' \in [Trainers -> Seq(Sizes)]
    BY <1>1 DEF StartRun, IInv
  <2>3. UNCHANGED <<variant, training_iterations, stats, sharded, learned>>
    BY <1>1 DEF StartRun, counters
  <2>4. QED
    BY <2>1, <2>2, <2>3, <1>1, StartFrame DEF IInv
<1>2. CASE ChoosePath(t)
  <2>1. PathFor(t) \in Paths
    BY DEF PathFor, Paths
  <2>2. [frame[t] EXCEPT !.path = PathFor(t)] \in Frames
    BY <2>1, <1>t DEF Frames
  <2>3. frame' \in [Trainers -> Frames] /\ pc' \in [Trainers -> Places]
    BY <1>2, <2>2 DEF ChoosePath, Goto, Places, IInv
  <2>4. QED
    BY <1>2, <2>3 DEF ChoosePath, counters, history, IInv
<1>3. CASE Prepare(t)
  <2>1. /\ frame' \in [Trainers -> Frames] /\ stats' \in [Trainers -> Counters]
        /\ pc' \in [Trainers -> Places]
    BY <1>3, RefuseType DEF Prepare, Goto, Places, IInv, Statuses
  <2>2. sharded' \in BOOLEAN
    BY <1>3 DEF Prepare, IInv
  <2>3. QED
    BY <1>3, <2>1, <2>2 DEF Prepare, history, IInv
<1>4. CASE Validate(t)
  <2>1. /\ frame' \in [Trainers -> Frames] /\ stats' \in [Trainers -> Counters]
        /\ pc' \in [Trainers -> Places]
    BY <1>4, RefuseType DEF Validate, Goto, Places, IInv, Statuses
  <2>2. QED
    BY <1>4, <2>1 DEF Validate, history, IInv
<1>5. CASE CreateWorkspace(t)
  <2>1. Smaller(frame[t].amount, frame[t].interval) \in Sizes
    BY <1>t DEF Smaller
  <2>2. [frame[t] EXCEPT !.next_progress = Smaller(frame[t].amount, frame[t].interval)]
          \in Frames
    BY <2>1, <1>t DEF Frames
  <2>3. /\ frame' \in [Trainers -> Frames] /\ stats' \in [Trainers -> Counters]
        /\ pc' \in [Trainers -> Places]
    BY <1>5, <2>2, RefuseType DEF CreateWorkspace, Goto, Places, IInv, Statuses
  <2>4. QED
    BY <1>5, <2>3 DEF CreateWorkspace, history, IInv
<1>6. CASE Traverse(t)
  <2>1. frame[t].player \in Players /\ frame[t].player + 1 \in 0..PlayerCount
    BY <1>6, <1>t, TrainerAssumption DEF Traverse, IInv, LoopShape, Players
  <2>2. [frame[t] EXCEPT !.player = @ + 1] \in Frames
    BY <2>1, <1>t DEF Frames
  <2>3. <<frame[t].player, Iteration(t)>> \in Players \X Sizes
    BY <2>1, <1>0 DEF Iteration
  <2>4. \A v \in VisitedCounts :
          [stats[t] EXCEPT !.traversals = SaturatingAdd(@, 1),
                           !.visited_nodes = SaturatingAdd(@, v)] \in Counters
    <3>1. VisitedCounts \subseteq Sizes
      BY TrainerAssumption DEF Sizes
    <3>2. QED
      BY <3>1, <1>t, CounterFields
  <2>5. CASE Refuse(t, "traversal_error") /\ UNCHANGED learned
    <3>1. /\ frame' \in [Trainers -> Frames] /\ stats' \in [Trainers -> Counters]
          /\ pc' \in [Trainers -> Places]
      BY <2>5, RefuseType DEF IInv, Statuses
    <3>2. QED
      BY <1>6, <2>5, <3>1 DEF Traverse, IInv
  <2>6. CASE /\ \E v \in VisitedCounts :
                  stats' = [stats EXCEPT ![t].traversals = SaturatingAdd(@, 1),
                                         ![t].visited_nodes = SaturatingAdd(@, v)]
             /\ frame' = [frame EXCEPT ![t].player = @ + 1]
             /\ learned' = [learned EXCEPT ![t] =
                              @ \union {<<frame[t].player, Iteration(t)>>}]
             /\ Goto(t, IF frame[t].player + 1 < PlayerCount THEN "traverse" ELSE "count")
    <3>1. frame' \in [Trainers -> Frames] /\ pc' \in [Trainers -> Places]
      BY <2>6, <2>2 DEF Goto, Places, IInv
    <3>2. stats' \in [Trainers -> Counters]
      BY <2>6, <2>4 DEF IInv
    <3>3. learned' \in [Trainers -> SUBSET (Players \X Sizes)]
      BY <2>6, <2>3 DEF IInv
    <3>4. QED
      BY <1>6, <2>6, <3>1, <3>2, <3>3 DEF Traverse, IInv
  <2>7. QED
    BY <1>6, <2>5, <2>6 DEF Traverse
<1>7. CASE CountIteration(t)
  <2>1. frame[t].i + 1 \in Sizes /\ 0 \in 0..PlayerCount
    BY <1>7, <1>t, TrainerAssumption DEF CountIteration, IInv, LoopShape, InLoop, Sizes
  <2>2. /\ [frame[t] EXCEPT !.i = @ + 1, !.player = 0] \in Frames
        /\ [frame[t] EXCEPT !.player = 0] \in Frames
    BY <2>1, <1>t DEF Frames
  <2>3. frame' \in [Trainers -> Frames] /\ pc' \in [Trainers -> Places]
    BY <1>7, <2>2 DEF CountIteration, Goto, Places, IInv
  <2>4. [stats[t] EXCEPT !.iterations = SaturatingAdd(@, 1)] \in Counters
    BY <1>t, CounterFields, OneIsSize
  <2>5. /\ stats' \in [Trainers -> Counters]
        /\ training_iterations' \in [Trainers -> Sizes]
    BY <1>7, <1>0, <2>4 DEF CountIteration, IInv
  <2>6. QED
    BY <1>7, <2>3, <2>5 DEF CountIteration, history, IInv
<1>8. CASE Progress(t)
  <2>0. frame[t].i < frame[t].amount /\ frame[t].next_progress <= frame[t].amount
    BY <1>8 DEF Progress, IInv, LoopShape, InLoop
  <2>1. frame[t].i + 1 \in Sizes /\ NextProgress(frame[t]) \in Sizes
    <3>1. frame[t].i + 1 \in Sizes
      BY <2>0, <1>t, TrainerAssumption DEF Sizes
    <3>2. QED
      BY <3>1, <2>0, <1>t, NextWithin
  <2>2. /\ [frame[t] EXCEPT !.next_progress = NextProgress(frame[t]), !.i = @ + 1] \in Frames
        /\ [frame[t] EXCEPT !.status = "callback_error"] \in Frames
    BY <2>1, <1>t DEF Frames, Statuses
  <2>3. frame' \in [Trainers -> Frames] /\ pc' \in [Trainers -> Places]
    <3>1. frame' \in [Trainers -> Frames]
      BY <1>8, <2>2 DEF Progress, IInv
    <3>2. pc' \in [Trainers -> Places]
      BY <1>8 DEF Progress, Goto, Places, IInv
    <3> QED BY <3>1, <3>2
  <2>4. reported' \in [Trainers -> Seq(Sizes)]
    BY <1>8, <2>1 DEF Progress, IInv
  <2>5. QED
    BY <1>8, <2>3, <2>4 DEF Progress, counters, IInv
<1>9. CASE Return(t)
  BY <1>9 DEF Return, Goto, Places, counters, history, IInv
<1>10. CASE ResetStats(t)
  <2>1. ZeroStats \in Counters
    BY OneIsSize DEF ZeroStats, Counters
  <2>2. QED
    BY <1>10, <2>1 DEF ResetStats, IInv
<1>11. QED
  BY <1>1, <1>2, <1>3, <1>4, <1>5, <1>6, <1>7, <1>8, <1>9, <1>10 DEF Step

\* Every step keeps what the loop relies on.
LEMMA ShapeStep ==
  ASSUME IInv, NEW t \in Trainers, StartRun(t) \/ Step(t) \/ ResetStats(t),
         NEW u \in Trainers
  PROVE  LoopShape(u)'
<1>o. CASE u # t
  BY <1>o, OthersKeep DEF IInv, LoopShape, InLoop
<1>t. /\ frame[t] \in Frames /\ frame[t].i \in Nat /\ frame[t].amount \in Nat
      /\ frame[t].interval \in Nat /\ frame[t].next_progress \in Nat
      /\ frame[t].player \in Nat /\ LoopShape(t)
  BY DEF IInv, TypeOK, Frames, Sizes
<1> SUFFICES ASSUME u = t PROVE LoopShape(t)'
  BY <1>o
<1> USE DEF LoopShape, InLoop
<1>1. CASE StartRun(t)
  BY <1>1, StartFrame
<1>2. CASE ChoosePath(t)
  <2>1. frame'[t] = [frame[t] EXCEPT !.path = PathFor(t)] /\ pc'[t] \in {"prepare", "validate"}
    BY <1>2 DEF ChoosePath, Goto, IInv, TypeOK
  <2>2. /\ frame'[t].i = frame[t].i /\ frame'[t].player = frame[t].player
        /\ frame'[t].amount = frame[t].amount
    BY <2>1, <1>t DEF Frames
  <2>3. QED
    BY <2>1, <2>2, <1>t, <1>2 DEF ChoosePath
<1>3. CASE Prepare(t) \/ Validate(t)
  BY <1>3, <1>t DEF Prepare, Validate, Refuse, Goto, IInv, TypeOK
<1>5. CASE CreateWorkspace(t)
  <2>1. CASE pc'[t] = "traverse"
    <3>1. frame'[t] = [frame[t] EXCEPT !.next_progress =
                         Smaller(frame[t].amount, frame[t].interval)]
      BY <1>5, <2>1, LoopLocals
    <3>2. /\ frame'[t].i = frame[t].i /\ frame'[t].player = frame[t].player
          /\ frame'[t].amount = frame[t].amount
          /\ frame'[t].next_progress = Smaller(frame[t].amount, frame[t].interval)
      BY <3>1, <1>t DEF Frames
    <3>3. QED
      BY <1>5, <2>1, <3>2, <1>t, TrainerAssumption DEF CreateWorkspace, Smaller
  <2>2. CASE pc'[t] = "return"
    BY <2>2
  <2>3. QED
    BY <1>5, <2>1, <2>2 DEF CreateWorkspace, Refuse, Goto, IInv, TypeOK
<1>6. CASE Traverse(t)
  <2>1. CASE pc'[t] = "return"
    BY <2>1
  <2>2. CASE pc'[t] # "return"
    <3>1. /\ frame'[t] = [frame[t] EXCEPT !.player = @ + 1]
          /\ pc'[t] = IF frame[t].player + 1 < PlayerCount THEN "traverse" ELSE "count"
      BY <1>6, <2>2, LoopLocals
    <3>2. /\ frame'[t].i = frame[t].i /\ frame'[t].player = frame[t].player + 1
          /\ frame'[t].amount = frame[t].amount
          /\ frame'[t].next_progress = frame[t].next_progress
      BY <3>1, <1>t DEF Frames
    <3>3. QED
      BY <1>6, <3>1, <3>2, <1>t DEF Traverse
  <2>3. QED
    BY <2>1, <2>2
<1>7. CASE CountIteration(t)
  <2>1. CASE pc'[t] = "progress"
    <3>1. frame'[t] = [frame[t] EXCEPT !.player = 0]
      BY <1>7, <2>1, LoopLocals
    <3>2. /\ frame'[t].i = frame[t].i /\ frame'[t].amount = frame[t].amount
          /\ frame'[t].next_progress = frame[t].next_progress /\ frame'[t].player = 0
      BY <3>1, <1>t DEF Frames
    <3>3. QED
      BY <1>7, <2>1, <3>2, <1>t DEF CountIteration
  <2>2. CASE pc'[t] # "progress"
    <3>1. /\ frame'[t] = [frame[t] EXCEPT !.i = @ + 1, !.player = 0]
          /\ pc'[t] = IF frame[t].i + 1 < frame[t].amount THEN "traverse" ELSE "return"
      BY <1>7, <2>2, LoopLocals
    <3>2. /\ frame'[t].i = frame[t].i + 1 /\ frame'[t].player = 0
          /\ frame'[t].amount = frame[t].amount
          /\ frame'[t].next_progress = frame[t].next_progress
      BY <3>1, <1>t DEF Frames
    <3>3. QED
      BY <1>7, <3>1, <3>2, <1>t, TrainerAssumption DEF CountIteration
  <2>3. QED
    BY <2>1, <2>2
<1>8. CASE Progress(t)
  <2>1. CASE pc'[t] = "return"
    BY <2>1
  <2>2. CASE pc'[t] # "return"
    <3>1. /\ frame'[t] = [frame[t] EXCEPT !.next_progress = NextProgress(frame[t]), !.i = @ + 1]
          /\ pc'[t] = IF frame[t].i + 1 < frame[t].amount THEN "traverse" ELSE "return"
      BY <1>8, <2>2, LoopLocals
    <3>2. /\ frame'[t].i = frame[t].i + 1 /\ frame'[t].player = frame[t].player
          /\ frame'[t].amount = frame[t].amount
          /\ frame'[t].next_progress = NextProgress(frame[t])
      BY <3>1, <1>t DEF Frames
    <3>3. NextProgress(frame[t]) <= frame[t].amount /\ frame[t].player = 0
      BY <1>8, <1>t, NextWithin DEF Progress
    <3>4. QED
      BY <1>8, <3>1, <3>2, <3>3, <1>t, TrainerAssumption DEF Progress
  <2>3. QED
    BY <2>1, <2>2
<1>9. CASE Return(t)
  BY <1>9 DEF Return, Goto, IInv, TypeOK
<1>10. CASE ResetStats(t)
  BY <1>10, <1>t DEF ResetStats
<1>11. QED
  BY <1>1, <1>2, <1>3, <1>5, <1>6, <1>7, <1>8, <1>9, <1>10 DEF Step

\* What a step does to the learning of its trainer: a traversal that
\* succeeds adds one pass, an iteration that completes raises the number,
\* and no other step touches either.
LEMMA LearningStep ==
  ASSUME IInv, NEW t \in Trainers, StartRun(t) \/ Step(t) \/ ResetStats(t)
  PROVE  \/ /\ Traverse(t) /\ pc'[t] # "return"
            /\ learned'[t] = learned[t] \union {<<frame[t].player, Iteration(t)>>}
            /\ training_iterations' = training_iterations
         \/ /\ CountIteration(t) /\ learned' = learned
            /\ training_iterations'[t] = Iteration(t)
         \/ /\ pc'[t] # "traverse" \/ CreateWorkspace(t) \/ Progress(t) \/ UNCHANGED <<pc, frame>>
            /\ pc'[t] # "count" \/ UNCHANGED <<pc, frame>>
            /\ learned' = learned /\ training_iterations' = training_iterations
<1> USE DEF IInv, TypeOK
<1>1. CASE StartRun(t)
  <2>1. pc'[t] \in {"return", "choose"}
    BY <1>1, StartFrame
  <2>2. QED
    BY <1>1, <2>1 DEF StartRun, counters
<1>2. CASE ChoosePath(t) \/ Return(t) \/ ResetStats(t)
  BY <1>2 DEF ChoosePath, Return, ResetStats, Goto, counters, history
<1>3. CASE Prepare(t) \/ Validate(t) \/ CreateWorkspace(t)
  BY <1>3 DEF Prepare, Validate, CreateWorkspace, Refuse, Goto, history
<1>4. CASE Traverse(t)
  <2>1. CASE pc'[t] = "return"
    BY <1>4, <2>1, TrainerAssumption DEF Traverse, Refuse, Goto
  <2>2. CASE pc'[t] # "return"
    BY <1>4, <2>2, LoopLocals DEF Traverse
  <2>3. QED
    BY <2>1, <2>2
<1>5. CASE CountIteration(t)
  BY <1>5 DEF CountIteration, Iteration, history
<1>6. CASE Progress(t)
  BY <1>6 DEF Progress, Goto, counters
<1>7. QED
  BY <1>1, <1>2, <1>3, <1>4, <1>5, <1>6 DEF Step

\* Every step keeps the order of the players within the iteration.
LEMMA PlayersStep ==
  ASSUME IInv, NEW t \in Trainers, StartRun(t) \/ Step(t) \/ ResetStats(t),
         NEW u \in Trainers
  PROVE  PlayersDone(u)'
<1>o. CASE u # t
  BY <1>o, OthersKeep DEF IInv, PlayersDone, Iteration
<1> SUFFICES ASSUME u = t PROVE PlayersDone(t)'
  BY <1>o
<1>t. /\ frame[t] \in Frames /\ frame[t].player \in 0..PlayerCount /\ PlayersDone(t)
      /\ LoopShape(t)
  BY DEF IInv, TypeOK, Frames
<1>n. \A q \in Players : q \in Nat /\ ~(q < 0)
  BY TrainerAssumption DEF Players
<1>1. CASE Traverse(t) /\ pc'[t] # "return"
  <2>1. /\ frame'[t] = [frame[t] EXCEPT !.player = @ + 1]
        /\ pc'[t] = IF frame[t].player + 1 < PlayerCount THEN "traverse" ELSE "count"
        /\ learned'[t] = learned[t] \union {<<frame[t].player, Iteration(t)>>}
    BY <1>1, LoopLocals
  <2>2. frame'[t].player = frame[t].player + 1
    BY <2>1, <1>t DEF Frames
  <2>3. Iteration(t)' = Iteration(t)
    BY <1>1 DEF Traverse, Iteration
  <2>4. \A q \in Players : q < frame[t].player + 1 => <<q, Iteration(t)>> \in learned'[t]
    BY <2>1, <1>1, <1>t, <1>n, TrainerAssumption DEF PlayersDone, Traverse
  <2>5. \A q \in Players : q < PlayerCount
    BY TrainerAssumption DEF Players
  <2>6. pc'[t] = "count" => \A q \in Players : q < frame[t].player + 1
    BY <2>1, <2>5, <1>n, <1>t, TrainerAssumption
  <2>7. QED
    BY <2>2, <2>3, <2>4, <2>6 DEF PlayersDone
<1>2. CASE CountIteration(t)
  <2>1. pc'[t] \in {"progress", "traverse", "return"}
    BY <1>2 DEF CountIteration, Goto, IInv, TypeOK
  <2>2. frame'[t].player = 0
    <3>1. \/ frame'[t] = [frame[t] EXCEPT !.player = 0]
          \/ frame'[t] = [frame[t] EXCEPT !.i = @ + 1, !.player = 0]
      BY <1>2, LoopLocals
    <3>2. QED
      BY <3>1, <1>t DEF Frames
  <2>3. QED
    BY <2>1, <2>2, <1>n DEF PlayersDone
<1>3. CASE CreateWorkspace(t) \/ Progress(t)
  <2>1. frame[t].player = 0
    BY <1>3, <1>t DEF LoopShape, CreateWorkspace, Progress
  <2>2. pc'[t] \in {"traverse", "return"}
    BY <1>3 DEF CreateWorkspace, Progress, Refuse, Goto, IInv, TypeOK
  <2>3. CASE pc'[t] = "traverse"
    <3>1. \/ frame'[t] = [frame[t] EXCEPT !.next_progress =
                           Smaller(frame[t].amount, frame[t].interval)]
          \/ frame'[t] = [frame[t] EXCEPT !.next_progress = NextProgress(frame[t]), !.i = @ + 1]
      BY <1>3, <2>3, LoopLocals
    <3>2. frame'[t].player = 0
      BY <3>1, <2>1, <1>t DEF Frames
    <3>3. QED
      BY <2>3, <3>2, <1>n DEF PlayersDone
  <2>4. QED
    BY <2>2, <2>3 DEF PlayersDone
<1>4. CASE /\ pc'[t] # "traverse" \/ UNCHANGED <<pc, frame>>
           /\ pc'[t] # "count" \/ UNCHANGED <<pc, frame>>
           /\ learned' = learned /\ training_iterations' = training_iterations
  BY <1>4, <1>t DEF PlayersDone, Iteration
<1>5. QED
  BY <1>1, <1>2, <1>3, <1>4, LearningStep

\* Every step keeps the passes of every trainer complete and in order.
LEMMA OrderStep ==
  ASSUME IInv, NEW t \in Trainers, StartRun(t) \/ Step(t) \/ ResetStats(t)
  PROVE  IterationsInOrder'
<1> DEFINE Order(u) ==
      /\ Players \X (1..training_iterations[u]) \subseteq learned[u]
      /\ \A pass \in learned[u] :
           /\ pass[2] \in 1..Iteration(u)
           /\ \A q \in 0..(pass[1] - 1) : <<q, pass[2]>> \in learned[u]
<1> SUFFICES ASSUME NEW u \in Trainers PROVE Order(u)'
  BY DEF IterationsInOrder
<1>0. Order(u) /\ Order(t)
  BY DEF IInv, IterationsInOrder
<1>o. CASE u # t
  BY <1>0, <1>o, OthersKeep DEF Iteration
<1>t. /\ training_iterations[t] \in Sizes /\ frame[t].player \in 0..PlayerCount
      /\ learned[t] \subseteq Players \X Sizes
  BY DEF IInv, TypeOK, Frames
<1>i. /\ Iteration(t) \in Sizes /\ Iteration(t) \in 1..Iteration(t)
      /\ Iteration(t) \in {training_iterations[t], training_iterations[t] + 1}
  BY <1>t, TrainerAssumption DEF Iteration, SaturatingAdd, Sizes
<1>1. CASE u = t /\ Traverse(t) /\ pc'[t] # "return"
  <2>1. /\ learned'[t] = learned[t] \union {<<frame[t].player, Iteration(t)>>}
        /\ training_iterations' = training_iterations /\ Iteration(t)' = Iteration(t)
    BY <1>1, LoopLocals DEF Traverse, Iteration
  <2>2. \A q \in 0..(frame[t].player - 1) : <<q, Iteration(t)>> \in learned[t]
    <3>1. PlayersDone(t) /\ pc[t] = "traverse"
      BY <1>1 DEF IInv, Traverse
    <3>2. \A q \in 0..(frame[t].player - 1) : q \in Players /\ q < frame[t].player
      BY <1>t, TrainerAssumption DEF Players
    <3>3. QED
      BY <3>1, <3>2 DEF PlayersDone
  <2>3. \A pass \in learned'[t] :
          /\ pass[2] \in 1..Iteration(t)
          /\ \A q \in 0..(pass[1] - 1) : <<q, pass[2]>> \in learned'[t]
    BY <1>0, <1>i, <2>1, <2>2
  <2>4. QED
    BY <1>0, <1>1, <2>1, <2>3
<1>2. CASE u = t /\ CountIteration(t) /\ learned' = learned
                /\ training_iterations'[t] = Iteration(t)
  <2>1. \A q \in Players : <<q, Iteration(t)>> \in learned[t]
    BY <1>2 DEF IInv, PlayersDone, CountIteration
  <2>2. \A q \in Players, n \in 1..Iteration(t) : <<q, n>> \in learned[t]
    <3> SUFFICES ASSUME NEW q \in Players, NEW n \in 1..Iteration(t)
                 PROVE  <<q, n>> \in learned[t]
      OBVIOUS
    <3>1. n \in 1..training_iterations[t] \/ n = Iteration(t)
      BY <1>i, <1>t, TrainerAssumption DEF Sizes
    <3>2. QED
      BY <3>1, <2>1, <1>0
  <2>3. Iteration(t) <= Iteration(t)' /\ Iteration(t)' \in Nat
    BY <1>2, <1>i, TrainerAssumption DEF Iteration, SaturatingAdd, Sizes
  <2>4. \A pass \in learned[t] : pass[2] \in 1..Iteration(t)'
    BY <1>0, <1>i, <2>3, TrainerAssumption DEF Sizes
  <2>5. QED
    BY <1>0, <1>2, <2>2, <2>4
<1>3. CASE u = t /\ learned' = learned /\ training_iterations' = training_iterations
  BY <1>0, <1>3 DEF Iteration
<1>4. QED
  BY <1>o, <1>1, <1>2, <1>3, LearningStep

\* A step other than the start of a call keeps how the call is synchronized
\* and, but for the choice of the path, the path.
LEMMA SyncKept ==
  ASSUME IInv, NEW t \in Trainers, Step(t) \/ ResetStats(t)
  PROVE  /\ frame'[t].concurrent_mccfr = frame[t].concurrent_mccfr
         /\ pc'[t] # "idle" => pc[t] # "idle"
         /\ \/ ChoosePath(t) /\ frame'[t].path = PathFor(t) /\ sharded' = sharded
                             /\ (pc'[t] = "prepare" <=> PathFor(t) = "concurrent")
            \/ Prepare(t) /\ frame'[t].path = frame[t].path /\ pc'[t] # "prepare"
            \/ /\ frame'[t].path = frame[t].path /\ sharded' = sharded
               /\ OnPath(t)' => OnPath(t)
               /\ pc'[t] = "prepare" => pc[t] = "prepare"
<1>t. frame[t] \in Frames /\ frame \in [Trainers -> Frames] /\ pc \in [Trainers -> Places]
  BY DEF IInv, TypeOK
<1> USE DEF OnPath, InLoop
<1>1. CASE ChoosePath(t)
  <2>1. frame'[t] = [frame[t] EXCEPT !.path = PathFor(t)]
    BY <1>1, <1>t DEF ChoosePath
  <2>2. frame'[t].path = PathFor(t) /\ frame'[t].concurrent_mccfr = frame[t].concurrent_mccfr
    BY <2>1, <1>t DEF Frames
  <2>3. QED
    BY <1>1, <2>2, <1>t DEF ChoosePath, Goto
<1>2. CASE Return(t) \/ ResetStats(t)
  BY <1>2, <1>t DEF Return, ResetStats, Goto
<1>r. ASSUME NEW status, frame' = [frame EXCEPT ![t].status = status]
      PROVE  /\ frame'[t].path = frame[t].path
             /\ frame'[t].concurrent_mccfr = frame[t].concurrent_mccfr
  <2>1. frame'[t] = [frame[t] EXCEPT !.status = status]
    BY <1>r, <1>t
  <2>2. QED
    BY <2>1, <1>t DEF Frames
<1>3. CASE Prepare(t)
  BY <1>3, <1>r, <1>t DEF Prepare, Refuse, Goto
<1>4. CASE Validate(t)
  BY <1>4, <1>r, <1>t DEF Validate, Refuse, Goto
<1>f. ASSUME NEW f, frame'[t] = f,
             \/ \E n : f = [frame[t] EXCEPT !.next_progress = n]
             \/ \E q : f = [frame[t] EXCEPT !.player = q]
             \/ \E i, q : f = [frame[t] EXCEPT !.i = i, !.player = q]
             \/ \E n, i : f = [frame[t] EXCEPT !.next_progress = n, !.i = i]
      PROVE  /\ frame'[t].path = frame[t].path
             /\ frame'[t].concurrent_mccfr = frame[t].concurrent_mccfr
  BY <1>f, <1>t DEF Frames
<1>5. CASE CreateWorkspace(t)
  <2>1. CASE pc'[t] = "traverse"
    BY <1>5, <2>1, <1>f, LoopLocals DEF CreateWorkspace
  <2>2. CASE pc'[t] # "traverse"
    BY <1>5, <2>2, <1>r, <1>t DEF CreateWorkspace, Refuse, Goto
  <2>3. QED
    BY <2>1, <2>2
<1>6. CASE Traverse(t)
  <2>1. CASE pc'[t] # "return"
    BY <1>6, <2>1, <1>f, LoopLocals DEF Traverse
  <2>2. CASE pc'[t] = "return"
    BY <1>6, <2>2, <1>r, <1>t, TrainerAssumption DEF Traverse, Refuse, Goto
  <2>3. QED
    BY <2>1, <2>2
<1>7. CASE CountIteration(t)
  <2>1. /\ frame'[t].path = frame[t].path
        /\ frame'[t].concurrent_mccfr = frame[t].concurrent_mccfr
    <3>1. CASE frame' = [frame EXCEPT ![t].player = 0]
      BY <3>1, <1>f, <1>t
    <3>2. CASE frame' = [frame EXCEPT ![t].i = @ + 1, ![t].player = 0]
      BY <3>2, <1>f, <1>t
    <3>3. QED
      BY <1>7, <3>1, <3>2 DEF CountIteration
  <2>2. QED
    BY <1>7, <2>1, <1>t DEF CountIteration, Goto
<1>8. CASE Progress(t)
  <2>1. /\ frame'[t].path = frame[t].path
        /\ frame'[t].concurrent_mccfr = frame[t].concurrent_mccfr
    <3>1. CASE frame' = [frame EXCEPT ![t].status = "callback_error"]
      BY <3>1, <1>r
    <3>2. CASE frame' = [frame EXCEPT ![t].next_progress = NextProgress(frame[t]),
                                      ![t].i = @ + 1]
      BY <3>2, <1>f, <1>t
    <3>3. QED
      BY <1>8, <3>1, <3>2 DEF Progress
  <2>2. QED
    BY <1>8, <2>1, <1>t DEF Progress, Goto
<1>9. QED
  BY <1>1, <1>2, <1>3, <1>4, <1>5, <1>6, <1>7, <1>8 DEF Step

\* Every step keeps runs that overlap synchronized.
LEMMA SyncStep ==
  ASSUME IInv, NEW t \in Trainers, StartRun(t) \/ Step(t) \/ ResetStats(t),
         NEW u \in Trainers
  PROVE  Synchronized(u)'
<1>0. \A w \in Trainers : Synchronized(w)
  BY DEF IInv
<1>k. \A w \in Trainers \ {t} : pc'[w] = pc[w] /\ frame'[w] = frame[w]
  BY OthersKeep
<1>1. CASE StartRun(t)
  <2>1. /\ frame'[t].path = "full" /\ pc'[t] \in {"return", "choose"}
        /\ MayShare(t, frame'[t].concurrent_mccfr) /\ sharded' = sharded
    BY <1>1, StartFrame DEF StartRun
  <2>2. \A w \in Trainers \ {t} :
          pc[w] # "idle" => frame'[t].concurrent_mccfr /\ frame[w].concurrent_mccfr
    BY <2>1 DEF MayShare
  <2>3. CASE u = t
    BY <2>1, <2>2, <2>3, <1>k DEF Synchronized
  <2>4. CASE u # t
    BY <2>1, <2>2, <2>4, <1>0, <1>k DEF Synchronized, OnPath, InLoop
  <2>5. QED
    BY <2>3, <2>4
<1>2. CASE Step(t) \/ ResetStats(t)
  <2>1. /\ frame'[t].concurrent_mccfr = frame[t].concurrent_mccfr
        /\ pc'[t] # "idle" => pc[t] # "idle"
    BY <1>2, SyncKept
  <2>2. pc'[u] # "idle" =>
          \A w \in Trainers \ {u} : pc'[w] # "idle" => frame'[u].concurrent_mccfr
    BY <2>1, <1>0, <1>k DEF Synchronized
  <2>3. CASE ChoosePath(t) /\ frame'[t].path = PathFor(t) /\ sharded' = sharded
             /\ (pc'[t] = "prepare" <=> PathFor(t) = "concurrent")
    <3>1. PathFor(t) = "sequential" => ~frame[t].concurrent_mccfr /\ ~sharded
      BY DEF PathFor
    <3>2. QED
      BY <2>1, <2>2, <2>3, <3>1, <1>0, <1>k DEF Synchronized, OnPath, InLoop
  <2>4. CASE Prepare(t) /\ frame'[t].path = frame[t].path /\ pc'[t] # "prepare"
    <3>1. frame'[t].path = "concurrent" /\ pc[t] = "prepare"
      BY <2>4, <1>0 DEF Prepare, Synchronized
    <3>2. CASE u = t
      BY <2>2, <2>4, <3>1, <3>2 DEF Synchronized
    <3>3. CASE u # t
      <4>1. OnPath(u) => frame[u].concurrent_mccfr
        BY <1>0, <3>1, <3>3 DEF Synchronized, OnPath, InLoop
      <4>2. QED
        BY <2>2, <3>3, <4>1, <1>0, <1>k DEF Synchronized, OnPath, InLoop
    <3>4. QED
      BY <3>2, <3>3
  <2>5. CASE /\ frame'[t].path = frame[t].path /\ sharded' = sharded
             /\ OnPath(t)' => OnPath(t)
             /\ pc'[t] = "prepare" => pc[t] = "prepare"
    <3>1. CASE u = t
      BY <2>1, <2>2, <2>5, <3>1, <1>0 DEF Synchronized
    <3>2. CASE u # t
      BY <2>2, <2>5, <3>2, <1>0, <1>k DEF Synchronized, OnPath, InLoop
    <3>3. QED
      BY <3>1, <3>2
  <2>6. QED
    BY <1>2, <2>3, <2>4, <2>5, SyncKept
<1>3. QED
  BY <1>1, <1>2

\* IInv is inductive.
THEOREM TrainerInvariant == Spec => []IInv
<1>1. IInv /\ [Next]_vars => IInv'
  <2> SUFFICES ASSUME IInv, [Next]_vars PROVE IInv'
    OBVIOUS
  <2>1. CASE Next
    <3>1. PICK t \in Trainers : StartRun(t) \/ Step(t) \/ ResetStats(t)
      BY <2>1 DEF Next
    <3>2. TypeOK' /\ IterationsInOrder'
      BY <3>1, TypeStep, OrderStep
    <3>3. \A u \in Trainers : LoopShape(u)' /\ PlayersDone(u)' /\ Synchronized(u)'
      BY <3>1, ShapeStep, PlayersStep, SyncStep
    <3>4. QED
      BY <3>2, <3>3 DEF IInv
  <2>2. CASE UNCHANGED vars
    BY <2>2 DEF vars, counters, history, IInv, TypeOK, IterationsInOrder, LoopShape, InLoop,
       PlayersDone, Synchronized, OnPath, Iteration
  <2>3. QED
    BY <2>1, <2>2
<1>2. QED
  BY <1>1, TrainerInit, PTL DEF Spec

\* No counter and no local of trainer_run leaves the range of size_t.
THEOREM TrainerTypeCorrect == Spec => []TypeOK
<1>1. IInv => TypeOK
  BY DEF IInv
<1>2. QED
  BY <1>1, TrainerInvariant, PTL

\* Every player has committed a traversal for every iteration that counts,
\* and the players of an unfinished iteration committed in their order.
THEOREM TrainerOrder == Spec => []IterationsInOrder
<1>1. IInv => IterationsInOrder
  BY DEF IInv
<1>2. QED
  BY <1>1, TrainerInvariant, PTL

\* The traversal without locks is never used on a sharded store.
THEOREM TrainerAlone == Spec => []SequentialAlone
<1>1. IInv => SequentialAlone
  BY DEF IInv, SequentialAlone, Synchronized, OnPath, InLoop
<1>2. QED
  BY <1>1, TrainerInvariant, PTL

-----------------------------------------------------------------------------
(* The progress schedule, of one run's locals f and reports r.             *)

\* Whether the callback is due when n iterations of the run are done.
IsDue(f, n) == n % f.interval = 0 \/ n = f.amount
Due(f, c) == {n \in 1..c : IsDue(f, n)}
Lists(r, S) == {r[k] : k \in DOMAIN r} = S /\ Len(r) = Cardinality(S)
Done(f) == f.i + (IF f.status = "callback_error" THEN 1 ELSE 0)

\* What was reported is what was due, and in the loop next_progress is the first
\* iteration still to report.
Ahead(f) ==
  /\ f.i < f.next_progress /\ IsDue(f, f.next_progress)
  /\ \A n \in (f.i + 1)..(f.next_progress - 1) : ~IsDue(f, n)

Scheduled(f, r, place) ==
  f.op = "run_with_callback" /\ f.interval # 0 =>
    /\ Lists(r, Due(f, Done(f)))
    /\ place \notin {"return", "idle"} => f.status # "callback_error"
    /\ place \in {"traverse", "count", "progress"} => Ahead(f)
    /\ place = "progress" => f.i + 1 = f.next_progress

ScheduleInv == \A t \in Trainers : Scheduled(frame[t], reported[t], pc[t])

\* The locals of a run are numbers.
LEMMA FrameFacts ==
  ASSUME NEW f \in Frames
  PROVE  /\ f.i \in Nat /\ f.amount \in Nat /\ f.interval \in Nat /\ f.next_progress \in Nat
         /\ f.i <= SizeMax /\ f.next_progress <= SizeMax /\ SizeMax \in Nat
BY TrainerAssumption DEF Frames, Sizes

\* Nothing is due before the first iteration.
LEMMA NothingDue ==
  ASSUME NEW f
  PROVE  Lists(<<>>, Due(f, 0))
<1>1. Due(f, 0) = {}
  BY DEF Due
<1>2. Cardinality({}) = 0
  BY FS_EmptySet
<1>3. {<<>>[k] : k \in DOMAIN <<>>} = {} /\ Len(<<>>) = 0
  OBVIOUS
<1> QED BY <1>1, <1>2, <1>3 DEF Lists

\* One iteration further, it is due or nothing changes.
LEMMA DueNext ==
  ASSUME NEW f, NEW c \in Nat
  PROVE  /\ IsFiniteSet(Due(f, c)) /\ c + 1 \notin Due(f, c)
         /\ IsDue(f, c + 1) => Due(f, c + 1) = Due(f, c) \union {c + 1}
         /\ ~IsDue(f, c + 1) => Due(f, c + 1) = Due(f, c)
<1>1. IsFiniteSet(1..c)
  BY FS_Interval
<1>2. IsFiniteSet(Due(f, c))
  BY <1>1, FS_Subset DEF Due
<1>3. 1..(c + 1) = (1..c) \union {c + 1} /\ c + 1 \notin 1..c
  OBVIOUS
<1> QED BY <1>2, <1>3 DEF Due

\* A report of something new adds it to the list.
LEMMA ListsAppend ==
  ASSUME NEW r \in Seq(Sizes), NEW S, IsFiniteSet(S), Lists(r, S), NEW x \in Sizes, x \notin S
  PROVE  Lists(Append(r, x), S \union {x})
<1> DEFINE s == Append(r, x)
<1>1. Len(r) \in Nat /\ DOMAIN r = 1..Len(r)
  OBVIOUS
<1>2. /\ Len(s) = Len(r) + 1 /\ DOMAIN s = 1..(Len(r) + 1)
      /\ s[Len(r) + 1] = x /\ \A k \in 1..Len(r) : s[k] = r[k]
  OBVIOUS
<1> HIDE DEF s
<1>3. 1..(Len(r) + 1) = (1..Len(r)) \union {Len(r) + 1}
  BY <1>1
<1>4. {s[k] : k \in DOMAIN s} = {r[k] : k \in DOMAIN r} \union {x}
  BY <1>1, <1>2, <1>3
<1>5. Cardinality(S \union {x}) = Cardinality(S) + 1
  BY FS_AddElement
<1>6. Lists(s, S \union {x})
  BY <1>2, <1>4, <1>5 DEF Lists
<1> QED BY <1>6 DEF s

\* Multiples of the interval.
LEMMA Multiples ==
  ASSUME NEW v \in Nat \ {0}, NEW a \in Nat, a % v = 0
  PROVE  /\ (a + v) % v = 0
         /\ \A j \in 1..(v - 1) : (a + j) % v # 0
<1> DEFINE q == a \div v
<1>1. q \in Nat /\ a = q * v
  OBVIOUS
<1> HIDE DEF q
<1>2. (a + v) % v = 0
  <2>1. a + v = (q + 1) * v
    BY <1>1
  <2>2. q + 1 \in Nat
    BY <1>1
  <2>3. \A m \in Nat : (m * v) % v = 0
    OBVIOUS
  <2> QED BY <2>1, <2>2, <2>3
<1>3. ASSUME NEW j \in 1..(v - 1) PROVE (a + j) % v # 0
  <2>1. \A m \in Nat : (m * v + j) % v = j
    OBVIOUS
  <2> QED BY <1>1, <2>1
<1> QED BY <1>2, <1>3

\* The first report of a run is due after its first interval, or at its end.
LEMMA FirstAhead ==
  ASSUME NEW f \in Frames, f.i = 0, f.amount > 0, f.interval # 0,
         NEW g, g = [f EXCEPT !.next_progress = Smaller(f.amount, f.interval)]
  PROVE  Ahead(g)
<1>1. /\ g.i = 0 /\ g.amount = f.amount /\ g.interval = f.interval
      /\ g.next_progress = Smaller(f.amount, f.interval)
  BY DEF Frames
<1>2. f.amount \in Nat \ {0} /\ f.interval \in Nat \ {0}
  BY FrameFacts
<1>3. 0 < g.next_progress /\ g.next_progress <= f.amount /\ g.next_progress <= f.interval
      /\ g.next_progress \in {f.amount, f.interval}
  BY <1>1, <1>2 DEF Smaller
<1>4. \A v \in Nat \ {0} : v % v = 0 /\ \A n \in 1..(v - 1) : n % v # 0
  OBVIOUS
<1>5. IsDue(g, g.next_progress)
  BY <1>1, <1>2, <1>3, <1>4 DEF IsDue
<1>6. ASSUME NEW n \in 1..(g.next_progress - 1) PROVE ~IsDue(g, n)
  <2>1. n \in 1..(f.interval - 1) /\ n # f.amount
    BY <1>2, <1>3
  <2> QED BY <1>1, <1>2, <1>4, <2>1 DEF IsDue
<1> QED BY <1>1, <1>3, <1>5, <1>6 DEF Ahead

\* The next one comes an interval later, or at the end.
LEMMA NextAhead ==
  ASSUME NEW f \in Frames, f.interval # 0, Ahead(f), f.next_progress < f.amount,
         f.i + 1 = f.next_progress,
         NEW g, g = [f EXCEPT !.next_progress = NextProgress(f), !.i = @ + 1]
  PROVE  Ahead(g)
<1> DEFINE a == f.next_progress
           v == f.interval
           m == f.amount
           b == NextProgress(f)
<1>1. g.i = a /\ g.amount = m /\ g.interval = v /\ g.next_progress = b
  BY DEF Frames
<1>2. a \in Nat /\ m \in Nat /\ v \in Nat \ {0} /\ a < m
  BY FrameFacts
<1>3. a % v = 0
  BY <1>2 DEF Ahead, IsDue
<1>4. a < b /\ b <= m /\ b <= a + v /\ b \in {m, a + v} /\ b \in Nat
  BY <1>2 DEF NextProgress, Smaller
<1>5. (a + v) % v = 0 /\ \A j \in 1..(v - 1) : (a + j) % v # 0
  BY <1>2, <1>3, Multiples
<1> HIDE DEF a, v, m, b
<1>6. IsDue(g, b)
  BY <1>1, <1>4, <1>5 DEF IsDue
<1>7. ASSUME NEW n \in (a + 1)..(b - 1) PROVE ~IsDue(g, n)
  <2>1. n - a \in 1..(v - 1) /\ n = a + (n - a) /\ n # m
    BY <1>2, <1>4
  <2>2. n % v # 0
    BY <1>5, <2>1
  <2> QED BY <1>1, <2>1, <2>2 DEF IsDue
<1> QED BY <1>1, <1>4, <1>6, <1>7 DEF Ahead

\* The schedule does not depend on the path, the player at hand or a failure that is not
\* the callback's.
LEMMA ScheduledKept ==
  ASSUME NEW f, NEW g, NEW r, NEW place, NEW where, Scheduled(f, r, place),
         g.op = f.op, g.interval = f.interval, g.amount = f.amount, g.i = f.i,
         g.next_progress = f.next_progress,
         \/ g.status = f.status
         \/ place \notin {"return", "idle"} /\ g.status # "callback_error",
         where \in {"return", "idle"} \/ place \notin {"return", "idle"},
         where \in {"traverse", "count", "progress"} => place \in {"traverse", "count", "progress"},
         where = "progress" => place = "progress" \/ f.i + 1 = f.next_progress
  PROVE  Scheduled(g, r, where)
<1> SUFFICES ASSUME g.op = "run_with_callback", g.interval # 0
             PROVE  /\ Lists(r, Due(g, Done(g)))
                    /\ where \notin {"return", "idle"} => g.status # "callback_error"
                    /\ where \in {"traverse", "count", "progress"} => Ahead(g)
                    /\ where = "progress" => g.i + 1 = g.next_progress
  BY DEF Scheduled
<1>1. /\ Lists(r, Due(f, Done(f)))
      /\ place \notin {"return", "idle"} => f.status # "callback_error"
      /\ place \in {"traverse", "count", "progress"} => Ahead(f)
      /\ place = "progress" => f.i + 1 = f.next_progress
  BY DEF Scheduled
<1>2. Done(g) = Done(f)
  BY <1>1 DEF Done
<1>3. \A c : Due(g, c) = Due(f, c)
  BY DEF Due, IsDue
<1>4. Ahead(f) => Ahead(g)
  BY DEF Ahead, IsDue
<1> QED BY <1>1, <1>2, <1>3, <1>4

\* An iteration that ends without a report was not due.
LEMMA ScheduledCounts ==
  ASSUME NEW f \in Frames, NEW g, NEW r, Scheduled(f, r, "count"),
         f.op = "run_with_callback" => f.i + 1 # f.next_progress,
         g = [f EXCEPT !.i = @ + 1, !.player = 0],
         NEW where \in {"traverse", "return"}
  PROVE  Scheduled(g, r, where)
<1>1. /\ g.op = f.op /\ g.interval = f.interval /\ g.amount = f.amount /\ g.i = f.i + 1
      /\ g.next_progress = f.next_progress /\ g.status = f.status
  BY DEF Frames
<1> SUFFICES ASSUME g.op = "run_with_callback", g.interval # 0
             PROVE  Lists(r, Due(g, Done(g))) /\ g.status # "callback_error" /\ Ahead(g)
  BY DEF Scheduled
<1>2. Lists(r, Due(f, Done(f))) /\ f.status # "callback_error" /\ Ahead(f)
  BY <1>1 DEF Scheduled
<1>3. f.i \in Nat /\ f.next_progress \in Nat
  BY FrameFacts
<1>4. f.i + 1 < f.next_progress /\ ~IsDue(f, f.i + 1)
  BY <1>1, <1>2, <1>3 DEF Ahead
<1>5. Done(f) = f.i /\ Done(g) = f.i + 1
  BY <1>1, <1>2, <1>3 DEF Done
<1>6. Due(f, f.i + 1) = Due(f, f.i)
  BY <1>3, <1>4, DueNext
<1>7. \A c : Due(g, c) = Due(f, c)
  BY <1>1 DEF Due, IsDue
<1>8. Lists(r, Due(g, Done(g)))
  BY <1>2, <1>5, <1>6, <1>7
<1>9. Ahead(g)
  BY <1>1, <1>2, <1>3, <1>4 DEF Ahead, IsDue
<1> QED BY <1>1, <1>2, <1>8, <1>9

\* A report is due, and is the next one.
LEMMA ScheduledReports ==
  ASSUME NEW f \in Frames, NEW g, NEW r \in Seq(Sizes), Scheduled(f, r, "progress"),
         f.op = "run_with_callback", f.interval # 0, f.next_progress <= f.amount,
         NEW where,
         \/ /\ g = [f EXCEPT !.next_progress = NextProgress(f), !.i = @ + 1]
            /\ where = IF f.i + 1 < f.amount THEN "traverse" ELSE "return"
         \/ g = [f EXCEPT !.status = "callback_error"] /\ where = "return"
  PROVE  Scheduled(g, Append(r, f.i + 1), where)
<1>1. /\ Lists(r, Due(f, Done(f))) /\ f.status # "callback_error" /\ Ahead(f)
      /\ f.i + 1 = f.next_progress
  BY DEF Scheduled
<1>2. f.i \in Nat /\ f.next_progress \in Sizes /\ Done(f) = f.i
  BY <1>1, FrameFacts DEF Done, Frames
<1>3. IsDue(f, f.i + 1)
  BY <1>1 DEF Ahead
<1>4. Due(f, f.i + 1) = Due(f, f.i) \union {f.i + 1}
      /\ f.i + 1 \notin Due(f, f.i) /\ IsFiniteSet(Due(f, f.i))
  BY <1>2, <1>3, DueNext
<1>5. Lists(Append(r, f.i + 1), Due(f, f.i + 1))
  BY <1>1, <1>2, <1>4, ListsAppend
<1>6. g.interval = f.interval /\ g.amount = f.amount /\ Done(g) = f.i + 1
  <2>1. CASE g = [f EXCEPT !.status = "callback_error"]
    BY <2>1 DEF Frames, Done
  <2>2. CASE g = [f EXCEPT !.next_progress = NextProgress(f), !.i = @ + 1]
    <3>1. g.i = f.i + 1 /\ g.status = f.status /\ g.interval = f.interval /\ g.amount = f.amount
      BY <2>2 DEF Frames
    <3> QED BY <1>1, <1>2, <3>1 DEF Done
  <2> QED BY <2>1, <2>2
<1>7. \A c : Due(g, c) = Due(f, c)
  BY <1>6 DEF Due, IsDue
<1>8. Lists(Append(r, f.i + 1), Due(g, Done(g)))
  BY <1>5, <1>6, <1>7
<1>9. where = "traverse" => Ahead(g) /\ g.status # "callback_error"
  <2> SUFFICES ASSUME where = "traverse" PROVE Ahead(g) /\ g.status # "callback_error"
    OBVIOUS
  <2>1. g = [f EXCEPT !.next_progress = NextProgress(f), !.i = @ + 1] /\ f.i + 1 < f.amount
    OBVIOUS
  <2>2. Ahead(g)
    BY <1>1, <2>1, NextAhead
  <2>3. g.status = f.status
    BY <2>1 DEF Frames
  <2> QED BY <1>1, <2>2, <2>3
<1>10. where \in {"traverse", "return"}
  OBVIOUS
<1> QED BY <1>8, <1>9, <1>10 DEF Scheduled

\* Every step keeps the schedule.
LEMMA ScheduleStep ==
  ASSUME IInv, ScheduleInv, NEW t \in Trainers, StartRun(t) \/ Step(t) \/ ResetStats(t),
         NEW u \in Trainers
  PROVE  Scheduled(frame'[u], reported'[u], pc'[u])
<1>o. CASE u # t
  BY <1>o, OthersKeep DEF ScheduleInv
<1> DEFINE f == frame[t]
           g == frame'[t]
           r == reported[t]
<1>t. /\ f \in Frames /\ r \in Seq(Sizes) /\ Scheduled(f, r, pc[t]) /\ LoopShape(t)
      /\ frame \in [Trainers -> Frames] /\ pc \in [Trainers -> Places]
      /\ reported \in [Trainers -> Seq(Sizes)]
  BY DEF IInv, TypeOK, ScheduleInv
<1> SUFFICES ASSUME u = t PROVE Scheduled(g, reported'[t], pc'[t])
  BY <1>o
<1>1. CASE StartRun(t)
  <2>1. g.i = 0 /\ pc'[t] \in {"return", "choose"} /\ g.status # "callback_error"
    BY <1>1, StartFrame
  <2>2. reported'[t] = <<>>
    BY <1>1, <1>t DEF StartRun
  <2>3. Lists(<<>>, Due(g, Done(g)))
    <3>1. Done(g) = 0
      BY <2>1 DEF Done
    <3> HIDE DEF g
    <3> QED BY <3>1, NothingDue
  <2> HIDE DEF g
  <2> QED BY <2>1, <2>2, <2>3 DEF Scheduled
<1>r. ASSUME NEW s, frame' = [frame EXCEPT ![t].status = s], s # "callback_error",
             pc[t] \notin {"return", "idle"}, pc'[t] = "return", reported'[t] = r
      PROVE  Scheduled(g, reported'[t], pc'[t])
  <2>1. g = [f EXCEPT !.status = s]
    BY <1>r, <1>t
  <2>2. /\ g.op = f.op /\ g.interval = f.interval /\ g.amount = f.amount /\ g.i = f.i
        /\ g.next_progress = f.next_progress /\ g.status = s
    BY <2>1, <1>t DEF Frames
  <2> HIDE DEF f, g
  <2> QED BY <2>2, <1>r, <1>t, ScheduledKept
<1>2. CASE ChoosePath(t)
  <2>1. /\ g = [f EXCEPT !.path = PathFor(t)] /\ pc'[t] \in {"prepare", "validate"}
        /\ pc[t] = "choose" /\ reported'[t] = r
    BY <1>2, <1>t DEF ChoosePath, Goto, history
  <2>2. /\ g.op = f.op /\ g.interval = f.interval /\ g.amount = f.amount /\ g.i = f.i
        /\ g.next_progress = f.next_progress /\ g.status = f.status
    BY <2>1, <1>t DEF Frames
  <2> HIDE DEF f, g
  <2> QED BY <2>1, <2>2, <1>t, ScheduledKept
<1>3. CASE Prepare(t) \/ Validate(t) \/ Return(t) \/ ResetStats(t)
  <2>1. reported'[t] = r
    BY <1>3 DEF Prepare, Validate, Return, ResetStats, history
  <2>2. CASE \E s \in {"out_of_memory", "invalid"} : Refuse(t, s) /\ pc[t] \in {"prepare", "validate"}
    <3>1. PICK s \in {"out_of_memory", "invalid"} : Refuse(t, s)
      BY <2>2
    <3>2. pc'[t] = "return" /\ pc[t] \notin {"return", "idle"}
      BY <2>2, <3>1, <1>t DEF Refuse, Goto
    <3> QED BY <1>r, <2>1, <3>1, <3>2 DEF Refuse
  <2>3. CASE /\ UNCHANGED frame
             /\ \/ pc[t] \in {"prepare", "validate"} /\ pc'[t] \in {"validate", "workspace"}
                \/ pc'[t] = "idle" \/ pc' = pc
    <3>1. g = f
      BY <2>3
    <3> HIDE DEF f, g
    <3> QED BY <2>1, <2>3, <3>1, <1>t, ScheduledKept DEF Scheduled
  <2> QED BY <1>3, <2>2, <2>3, <1>t DEF Prepare, Validate, Return, ResetStats, Goto
<1>5. CASE CreateWorkspace(t)
  <2>1. reported'[t] = r /\ pc[t] = "workspace"
    BY <1>5 DEF CreateWorkspace, history
  <2>2. CASE Refuse(t, "out_of_memory")
    <3>1. pc'[t] = "return"
      BY <2>2, <1>t DEF Refuse, Goto
    <3> QED BY <1>r, <2>1, <2>2, <3>1 DEF Refuse
  <2>3. CASE /\ g = [f EXCEPT !.next_progress = Smaller(f.amount, f.interval)]
             /\ pc'[t] = "traverse"
    <3>1. f.i = 0 /\ f.amount > 0
      BY <2>1, <1>t DEF LoopShape
    <3>2. /\ g.op = f.op /\ g.interval = f.interval /\ g.amount = f.amount /\ g.i = f.i
          /\ g.status = f.status
      BY <2>3, <1>t DEF Frames
    <3>3. f.interval # 0 => Ahead(g)
      BY <2>3, <3>1, <1>t, FirstAhead
    <3> HIDE DEF f, g
    <3>4. Done(g) = Done(f) /\ \A c : Due(g, c) = Due(f, c)
      BY <3>2 DEF Done, Due, IsDue
    <3> QED BY <1>t, <2>1, <2>3, <3>2, <3>3, <3>4 DEF Scheduled
  <2> QED BY <1>5, <2>2, <2>3, <1>t DEF CreateWorkspace, Goto
<1>6. CASE Traverse(t)
  <2>1. reported'[t] = r /\ pc[t] = "traverse"
    BY <1>6 DEF Traverse
  <2>2. CASE Refuse(t, "traversal_error")
    <3>1. pc'[t] = "return"
      BY <2>2, <1>t DEF Refuse, Goto
    <3> QED BY <1>r, <2>1, <2>2, <3>1 DEF Refuse
  <2>3. CASE /\ g = [f EXCEPT !.player = @ + 1]
             /\ pc'[t] \in {"traverse", "count"}
    <3>1. /\ g.op = f.op /\ g.interval = f.interval /\ g.amount = f.amount /\ g.i = f.i
          /\ g.next_progress = f.next_progress /\ g.status = f.status
      BY <2>3, <1>t DEF Frames
    <3> HIDE DEF f, g, r
    <3>2. Scheduled(f, r, "traverse")
      BY <2>1, <1>t
    <3>3. Scheduled(g, r, "traverse") /\ Scheduled(g, r, "count")
      BY <3>1, <3>2, ScheduledKept
    <3> QED BY <2>1, <2>3, <3>3
  <2> QED BY <1>6, <2>2, <2>3, <1>t DEF Traverse, Goto
<1>7. CASE CountIteration(t)
  <2>1. reported'[t] = r /\ pc[t] = "count"
    BY <1>7 DEF CountIteration, history
  <2>2. CASE ReportsNow(t) /\ g = [f EXCEPT !.player = 0] /\ pc'[t] = "progress"
    <3>1. /\ g.op = f.op /\ g.interval = f.interval /\ g.amount = f.amount /\ g.i = f.i
          /\ g.next_progress = f.next_progress /\ g.status = f.status
      BY <2>2, <1>t DEF Frames
    <3>2. f.i + 1 = f.next_progress
      BY <2>2 DEF ReportsNow
    <3> HIDE DEF f, g
    <3> QED BY <2>1, <2>2, <3>1, <3>2, <1>t, ScheduledKept
  <2>3. CASE /\ ~ReportsNow(t) /\ g = [f EXCEPT !.i = @ + 1, !.player = 0]
             /\ pc'[t] \in {"traverse", "return"}
    <3>1. f.op = "run_with_callback" => f.i + 1 # f.next_progress
      BY <2>3 DEF ReportsNow
    <3> HIDE DEF f, g
    <3> QED BY <2>1, <2>3, <3>1, <1>t, ScheduledCounts
  <2> QED BY <1>7, <2>2, <2>3, <1>t DEF CountIteration, Goto
<1>8. CASE Progress(t)
  <2>1. reported'[t] = Append(r, f.i + 1) /\ pc[t] = "progress"
    BY <1>8, <1>t DEF Progress
  <2>2. \/ /\ g = [f EXCEPT !.next_progress = NextProgress(f), !.i = @ + 1]
           /\ pc'[t] = IF f.i + 1 < f.amount THEN "traverse" ELSE "return"
        \/ g = [f EXCEPT !.status = "callback_error"] /\ pc'[t] = "return"
    BY <1>8, <1>t DEF Progress, Goto
  <2>3. f.next_progress <= f.amount
    BY <2>1, <1>t DEF LoopShape, InLoop
  <2>4. g.op = f.op /\ g.interval = f.interval
    BY <2>2, <1>t DEF Frames
  <2> HIDE DEF f, g, r
  <2>5. CASE f.op = "run_with_callback" /\ f.interval # 0
    <3> DEFINE w == pc'[t]
    <3>1. f \in Frames /\ r \in Seq(Sizes) /\ Scheduled(f, r, "progress")
      BY <1>t, <2>1
    <3>2. \/ /\ g = [f EXCEPT !.next_progress = NextProgress(f), !.i = @ + 1]
             /\ w = IF f.i + 1 < f.amount THEN "traverse" ELSE "return"
          \/ g = [f EXCEPT !.status = "callback_error"] /\ w = "return"
      BY <2>2
    <3> HIDE DEF w
    <3>3. Scheduled(g, Append(r, f.i + 1), w)
      BY <2>3, <2>5, <3>1, <3>2, ScheduledReports
    <3> QED BY <2>1, <3>3 DEF w
  <2>6. CASE ~(f.op = "run_with_callback" /\ f.interval # 0)
    BY <2>4, <2>6 DEF Scheduled
  <2> QED BY <2>5, <2>6
<1> QED BY <1>1, <1>2, <1>3, <1>5, <1>6, <1>7, <1>8 DEF Step

\* The callback is told of every interval and of the end, once each, in every run, for
\* every amount and interval a size_t can hold.
THEOREM TrainerSchedule == Spec => []ProgressSchedule
<1>1. Init => ScheduleInv
  <2> SUFFICES ASSUME Init, NEW t \in Trainers PROVE Scheduled(frame[t], reported[t], pc[t])
    BY DEF ScheduleInv
  <2>1. frame[t].op = "none"
    BY DEF Init, NoFrame
  <2> QED BY <2>1 DEF Scheduled
<1>2. IInv /\ ScheduleInv /\ [Next]_vars => ScheduleInv'
  <2> SUFFICES ASSUME IInv, ScheduleInv, [Next]_vars PROVE ScheduleInv'
    OBVIOUS
  <2>1. CASE Next
    <3>1. PICK t \in Trainers : StartRun(t) \/ Step(t) \/ ResetStats(t)
      BY <2>1 DEF Next
    <3>2. \A u \in Trainers : Scheduled(frame'[u], reported'[u], pc'[u])
      BY <3>1, ScheduleStep
    <3> QED BY <3>2 DEF ScheduleInv
  <2>2. CASE UNCHANGED vars
    BY <2>2 DEF vars, history, ScheduleInv
  <2> QED BY <2>1, <2>2
<1>3. ScheduleInv => ProgressSchedule
  <2> SUFFICES ASSUME ScheduleInv, NEW t \in Trainers,
                      frame[t].op = "run_with_callback", frame[t].interval # 0
               PROVE  Lists(reported[t], Due(frame[t], Completed(t)))
    BY DEF ProgressSchedule, Lists, Due, IsDue
  <2>1. Completed(t) = Done(frame[t])
    BY DEF Completed, Done
  <2> QED BY <2>1 DEF ScheduleInv, Scheduled
<1> QED BY <1>1, <1>2, <1>3, TrainerInvariant, PTL DEF Spec
=============================================================================
