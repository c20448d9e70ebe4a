--------------------------- MODULE MccfrAgreement ---------------------------
(***************************************************************************)
(* The traversal on a shared store (src/mccfr.c) against the one without   *)
(* company (src/mccfr_sequential.c).                                       *)
(***************************************************************************)
EXTENDS Mccfr

Sequential == INSTANCE MccfrSequential

\* The call the sequential traversal would have to be given.
SequentialArguments ==
    [target |-> target, stream |-> stream, rng |-> caller.rng, fault |-> 0,
     utility |-> 0, visited |-> 0,
     store |-> [k \in DOMAIN ws.snapshots |-> ws.snapshots[k].strategy]]

\* Whatever the other workers commit meanwhile, a traversal is about to commit what the
\* sequential traversal computes from one strategy per information set, with the same
\* draws: the same deltas, utility, visits and stream position.
AgreesWithSequential ==
    pc = "commit" =>
        \A alone \in {Sequential!ExternalTraverse(game, SequentialArguments)} :
            /\ alone.status = Success
            /\ alone.applied = Deltas
            /\ <<alone.utility, alone.visited, alone.rng>> = <<ws.utility, ws.visits, ws.rng>>

=============================================================================
