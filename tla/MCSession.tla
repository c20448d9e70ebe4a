----------------------------- MODULE MCSession -----------------------------
\* Two information sets, with keys of both signs.  The invocations train, resume, evaluate,
\* export, and export under another spelling of the checkpoint's name.
EXTENDS Session

SmallWorlds == {[zstd |-> z, workers |-> FALSE, faults |-> TRUE] : z \in BOOLEAN}
               \cup {[zstd |-> FALSE, workers |-> TRUE, faults |-> FALSE]}

Checkpoint1 == [name |-> "checkpoint", spelling |-> 1]
Checkpoint2 == [name |-> "checkpoint", spelling |-> 2]
Export == [name |-> "export", spelling |-> 1]

SmallInvocations ==
    {[NoOptions EXCEPT !.iterations = 3, !.report_every = 2, !.cfr_plus = TRUE,
                       !.save = Checkpoint1],
     [NoOptions EXCEPT !.iterations = 1, !.mccfr = TRUE, !.seed = 3, !.save = Checkpoint1,
                       !.export = Checkpoint2],
     [NoOptions EXCEPT !.iterations = 1, !.load = Checkpoint2, !.save = Checkpoint1],
     [NoOptions EXCEPT !.evaluate = TRUE, !.load = Checkpoint1, !.export = Export],
     [NoOptions EXCEPT !.load = Checkpoint1, !.save = Checkpoint1, !.evaluate = TRUE]}

SmallKeys == {-2, 3}
SmallCounts == [k \in SmallKeys |-> IF k = 3 THEN 1 ELSE 2]
SmallSchema == <<5, 6>>

=============================================================================
