----------------------------- MODULE MCJobStore -----------------------------
(* Constants for the model-checking runs of JobStore. *)
EXTENDS JobStore, TLC

MCTimes == {0, 1}

\* A one-tick command: the deadline falls before and on the clock values of
\* MCTimes.
CONSTANT Slow
MCDeadlineMs == [c \in {Slow} |-> 1]

Complete    == [available |-> TRUE, truncated |-> FALSE,
                incomplete |-> FALSE, openAtCutover |-> FALSE]
Unavailable == [Complete EXCEPT !.available = FALSE]
Cutover     == [Unavailable EXCEPT !.incomplete = TRUE, !.openAtCutover = TRUE]

\* The publications of runner.ts: the launch receipt, the spawn failure, the
\* frozen outcome of a launched command, and the freeze of an unknown launch.
LaunchReceipt ==
    [launch |-> "launched", cleanupState |-> "not_requested", finalized |-> FALSE]
SpawnFailure ==
    [launch |-> "spawn_failed", cleanupState |-> "not_required",
     stdout |-> Unavailable, stderr |-> Unavailable,
     deadlineTriggerObserved |-> FALSE, finalized |-> TRUE]
FrozenOutcome ==
    [launch |-> "launched", shellCode |-> 0, shellSignal |-> Null,
     cleanupState |-> "unconfirmed", cleanupTermObservation |-> "returned",
     cleanupKillIntentObserved |-> FALSE, deadlineTriggerObserved |-> FALSE,
     stdout |-> Complete, stderr |-> Cutover, finalized |-> TRUE]
FrozenUnknown ==
    [FrozenOutcome EXCEPT !.launch = "unknown", !.shellCode = Null,
                          !.cleanupState = "not_requested",
                          !.cleanupTermObservation = Null]

\* Racing runners differ only in the claim identity they chose, and retried
\* reservations only in the candidate identity that was preallocated.
IdentitySymmetry == Permutations(ClaimIds) \cup Permutations(JobIds)

MCInputs == {LaunchReceipt, SpawnFailure, FrozenOutcome, FrozenUnknown}
=============================================================================
