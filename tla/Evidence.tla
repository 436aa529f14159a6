------------------------------ MODULE Evidence ------------------------------
(***************************************************************************)
(* The execution evidence of a job and the monotone merge that every       *)
(* durable revision goes through (src/src/store-evidence.ts).              *)
(*                                                                         *)
(* An observation is a record whose DOMAIN holds only the keys the caller  *)
(* supplied: a key that is `undefined' in the code is absent here, and a   *)
(* key supplied as null is present with the value Null.                    *)
(***************************************************************************)
EXTENDS Integers

CONSTANTS
    Null,        \* null: no fact established
    ShellCodes,  \* the exit codes told apart
    Signals      \* the terminating signals told apart

LaunchPhases == {"unknown", "suppressed_cancelled", "suppressed_deadline",
                 "spawn_failed", "launched"}

SuppressedLaunch == {"suppressed_cancelled", "suppressed_deadline"}

\* Launch phases that establish that the command did not run.
NonExecutionLaunch == SuppressedLaunch \cup {"spawn_failed"}

CleanupStates == {"not_required", "not_requested", "pending", "unconfirmed"}

TermObservations == {"returned", "error"}

ASSUME NullIsNoFact ==
    /\ Null \notin BOOLEAN /\ Null \notin TermObservations
    /\ Null \notin ShellCodes /\ Null \notin Signals

CleanupOrder ==
    [not_required |-> 0, not_requested |-> 1, pending |-> 2, unconfirmed |-> 3]

StreamFacts == [available     : BOOLEAN \cup {Null},
                truncated     : BOOLEAN,
                incomplete    : BOOLEAN,
                openAtCutover : BOOLEAN]

ExecutionEvidence ==
    [launch                     : LaunchPhases,
     shellCode                  : ShellCodes \cup {Null},
     shellSignal                : Signals \cup {Null},
     cleanupState               : CleanupStates,
     cleanupTermObservation     : TermObservations \cup {Null},
     cleanupKillIntentObserved  : BOOLEAN,
     cancellationIntentObserved : BOOLEAN,
     deadlineTriggerObserved    : BOOLEAN,
     stdout                     : StreamFacts,
     stderr                     : StreamFacts,
     uncertain                  : BOOLEAN,
     finalized                  : BOOLEAN]

DefaultStreamFacts ==
    [available |-> Null, truncated |-> FALSE,
     incomplete |-> FALSE, openAtCutover |-> FALSE]

InitialEvidence ==
    [launch                     |-> "unknown",
     shellCode                  |-> Null,
     shellSignal                |-> Null,
     cleanupState               |-> "not_requested",
     cleanupTermObservation     |-> Null,
     cleanupKillIntentObserved  |-> FALSE,
     cancellationIntentObserved |-> FALSE,
     deadlineTriggerObserved    |-> FALSE,
     stdout                     |-> DefaultStreamFacts,
     stderr                     |-> DefaultStreamFacts,
     uncertain                  |-> TRUE,
     finalized                  |-> FALSE]

-----------------------------------------------------------------------------
(* Observations *)

Given(input, key, default) ==
    IF key \in DOMAIN input THEN input[key] ELSE default

NoObservation == [key \in {} |-> Null]

\* The field-by-field domain check that every supplied observation passes.
WellFormedStream(s) ==
    /\ Given(s, "available", Null) \in BOOLEAN \cup {Null}
    /\ \A key \in {"truncated", "incomplete", "openAtCutover"} :
           Given(s, key, FALSE) \in BOOLEAN

ValidEvidenceInput(input) ==
    /\ DOMAIN input \subseteq
         {"launch", "shellCode", "shellSignal", "cleanupState",
          "cleanupTermObservation", "cleanupKillIntentObserved",
          "cancellationIntentObserved", "deadlineTriggerObserved",
          "stdout", "stderr", "finalized"}
    /\ Given(input, "launch", "unknown") \in LaunchPhases
    /\ Given(input, "shellCode", Null) \in ShellCodes \cup {Null}
    /\ Given(input, "shellSignal", Null) \in Signals \cup {Null}
    /\ Given(input, "cleanupState", "not_requested") \in CleanupStates
    /\ Given(input, "cleanupTermObservation", Null)
         \in TermObservations \cup {Null}
    /\ \A key \in {"cleanupKillIntentObserved", "cancellationIntentObserved",
                   "deadlineTriggerObserved", "finalized"} :
           Given(input, key, FALSE) \in BOOLEAN
    /\ WellFormedStream(Given(input, "stdout", NoObservation))
    /\ WellFormedStream(Given(input, "stderr", NoObservation))

-----------------------------------------------------------------------------
(* The merge *)

\* Mutated: a later snapshot without truncation forgets it.
MergeStreamLatest(f, s) ==
    [available     |-> Given(s, "available", f.available),
     truncated     |-> Given(s, "truncated", f.truncated),
     incomplete    |-> Given(s, "incomplete", f.incomplete),
     openAtCutover |-> Given(s, "openAtCutover", f.openAtCutover)]

\* A stream's facts after an observation s of it: availability and the two
\* cutover facts are replaced, truncation is sticky and ignores FALSE.
MergeStream(f, s) ==
    [available     |-> Given(s, "available", f.available),
     truncated     |-> f.truncated \/ Given(s, "truncated", FALSE),
     incomplete    |-> Given(s, "incomplete", f.incomplete),
     openAtCutover |-> Given(s, "openAtCutover", f.openAtCutover)]

StreamContradicts(f, s) ==
    \/ f.available # Null /\ Given(s, "available", f.available) # f.available
    \/ f.incomplete /\ ~Given(s, "incomplete", TRUE)
    \/ f.openAtCutover /\ ~Given(s, "openAtCutover", TRUE)

\* The snapshot that mergeEvidence returns when it does not throw.
MergeEvidence(prior, input, uncertain, finalized) ==
    [launch                 |-> Given(input, "launch", prior.launch),
     shellCode              |-> Given(input, "shellCode", prior.shellCode),
     shellSignal            |-> Given(input, "shellSignal", prior.shellSignal),
     cleanupState           |-> Given(input, "cleanupState", prior.cleanupState),
     cleanupTermObservation |-> Given(input, "cleanupTermObservation",
                                      prior.cleanupTermObservation),
     cleanupKillIntentObserved  |->
         \/ prior.cleanupKillIntentObserved
         \/ Given(input, "cleanupKillIntentObserved", FALSE),
     cancellationIntentObserved |->
         \/ prior.cancellationIntentObserved
         \/ Given(input, "cancellationIntentObserved", FALSE),
     deadlineTriggerObserved    |->
         \/ prior.deadlineTriggerObserved
         \/ Given(input, "deadlineTriggerObserved", FALSE),
     stdout    |-> MergeStream(prior.stdout, Given(input, "stdout", NoObservation)),
     stderr    |-> MergeStream(prior.stderr, Given(input, "stderr", NoObservation)),
     uncertain |-> uncertain,
     finalized |-> finalized]

\* Mutated: the launch phase is taken from the last observer.
ContradictsOutcome(prior, next) ==
    \/ prior.shellCode # Null /\ next.shellCode # prior.shellCode
    \/ prior.shellSignal # Null /\ next.shellSignal # prior.shellSignal
    \/ /\ prior.cleanupTermObservation # Null
       /\ next.cleanupTermObservation # prior.cleanupTermObservation

\* An established fact is given a different value (null and `unknown' count as
\* different once something is established).
ContradictsEstablished(prior, next) ==
    \/ prior.launch # "unknown" /\ next.launch # prior.launch
    \/ prior.shellCode # Null /\ next.shellCode # prior.shellCode
    \/ prior.shellSignal # Null /\ next.shellSignal # prior.shellSignal
    \/ /\ prior.cleanupTermObservation # Null
       /\ next.cleanupTermObservation # prior.cleanupTermObservation

\* Mutated: a failed spawn may carry an exit code.
ContradictoryPair(next) ==
    next.shellCode # Null /\ next.shellSignal # Null

ContradictoryOutcome(next) ==
    \/ next.shellCode # Null /\ next.shellSignal # Null
    \/ /\ next.launch \in NonExecutionLaunch
       /\ next.shellCode # Null \/ next.shellSignal # Null

\* Mutated: not_required is demanded to be new.
IllegalCleanupAnew(prior, next) ==
    \/ /\ next.cleanupState = "not_required"
       /\ \/ next.launch \notin NonExecutionLaunch
          \/ prior.cleanupState # "not_requested"
    \/ /\ next.cleanupState # "not_required"
       /\ CleanupOrder[next.cleanupState] < CleanupOrder[prior.cleanupState]
    \/ /\ next.cleanupState = "not_required"
       /\ next.cleanupTermObservation # Null \/ next.cleanupKillIntentObserved

\* not_required is an immutable disposition of a command that never ran; the
\* other states only move forward.
IllegalCleanup(prior, next) ==
    \/ /\ next.cleanupState # prior.cleanupState
       /\ \/ prior.cleanupState = "not_required"
          \/ /\ next.cleanupState = "not_required"
             /\ \/ next.launch \notin NonExecutionLaunch
                \/ prior.cleanupState # "not_requested"
          \/ /\ next.cleanupState # "not_required"
             /\ CleanupOrder[next.cleanupState] < CleanupOrder[prior.cleanupState]
    \/ /\ next.cleanupState = prior.cleanupState
       /\ prior.cleanupState = "not_required"
       /\ next.launch \notin NonExecutionLaunch \cup {"unknown"}
    \/ /\ next.cleanupState = "not_required"
       /\ next.cleanupTermObservation # Null \/ next.cleanupKillIntentObserved

\* mergeEvidence throws VALIDATION_FAILED.
Contradicts(prior, input) ==
    LET next == MergeEvidence(prior, input, TRUE, FALSE)
    IN  \/ ContradictsEstablished(prior, next)
        \/ ContradictoryOutcome(next)
        \/ IllegalCleanup(prior, next)
        \/ StreamContradicts(prior.stdout, Given(input, "stdout", NoObservation))
        \/ StreamContradicts(prior.stderr, Given(input, "stderr", NoObservation))

-----------------------------------------------------------------------------
(* What the merge promises *)

StreamSurvives(f, g) ==
    /\ f.available # Null => g.available = f.available
    /\ f.truncated => g.truncated
    /\ f.incomplete => g.incomplete
    /\ f.openAtCutover => g.openAtCutover

\* Every fact established by e is still established, unchanged, by f: launch and
\* outcome keep their value, cleanup does not regress, intents stay recorded.
Survives(e, f) ==
    /\ e.launch # "unknown" => f.launch = e.launch
    /\ e.shellCode # Null => f.shellCode = e.shellCode
    /\ e.shellSignal # Null => f.shellSignal = e.shellSignal
    /\ e.cleanupTermObservation # Null =>
           f.cleanupTermObservation = e.cleanupTermObservation
    /\ e.cleanupKillIntentObserved => f.cleanupKillIntentObserved
    /\ e.cancellationIntentObserved => f.cancellationIntentObserved
    /\ e.deadlineTriggerObserved => f.deadlineTriggerObserved
    /\ e.cleanupState = "not_required" => f.cleanupState = "not_required"
    /\ e.cleanupState = "pending" => f.cleanupState \in {"pending", "unconfirmed"}
    /\ e.cleanupState = "unconfirmed" => f.cleanupState = "unconfirmed"
    /\ StreamSurvives(e.stdout, f.stdout)
    /\ StreamSurvives(e.stderr, f.stderr)

\* One evidence snapshot does not contradict itself: at most one outcome, no
\* outcome of a command that never ran, and no cleanup attempt where the
\* snapshot says that none was required.
Coherent(e) ==
    /\ e.shellCode = Null \/ e.shellSignal = Null
    /\ e.launch \in NonExecutionLaunch =>
           e.shellCode = Null /\ e.shellSignal = Null
    /\ e.cleanupState = "not_required" =>
           /\ e.launch \in NonExecutionLaunch
           /\ e.cleanupTermObservation = Null
           /\ ~e.cleanupKillIntentObserved
=============================================================================
