------------------------------ MODULE JobStore ------------------------------
(***************************************************************************)
(* The durable job store (src/src/job-store.ts): one SQLite file, written  *)
(* by any number of connections whose transactions are serialized by BEGIN *)
(* IMMEDIATE. One action per store operation; an operation that throws and *)
(* rolls back changes nothing and is the absence of a step.                *)
(*                                                                         *)
(* A transaction that is durable may still be answered in three ways (see  *)
(* Outcomes), so what a caller learned is kept apart from what the file    *)
(* says, in the history variables.                                         *)
(***************************************************************************)
EXTENDS Evidence, Integers, Sequences

CONSTANTS
    Owners,          \* validated owner identities
    RequestKeys,     \* (namespace, request key) pairs
    Commands,        \* (command, cwd, deadline_ms) triples
    DeadlineMs,      \* the deadline_ms of a triple
    JobIds,          \* preallocated candidate identities
    ClaimIds,        \* runner-chosen claim identities
    Connections,     \* open stores: a Pi client's worker, a runner's worker
    EvidenceInputs,  \* the observations a runner publishes
    Times,           \* what Date.now may return
    MaxRevision,     \* bound: revisions per job
    MaxHeartbeat     \* bound: heartbeats per claim

ASSUME ConstantsAreSound ==
    /\ Null \notin Owners /\ Null \notin RequestKeys /\ Null \notin Commands
    /\ Null \notin ClaimIds /\ Null \notin Times
    /\ Null \notin {"authorized"} \cup SuppressedLaunch
    /\ DeadlineMs \in [Commands -> Nat]
    /\ Times \subseteq Nat
    /\ MaxRevision \in Nat /\ MaxHeartbeat \in Nat

\* The inputs are well formed, and the runner never publishes a suppression:
\* only the store's own decision writes one (runner.ts:266-281, 379-444).
ASSUME InputsAreRunnerInputs ==
    \A input \in EvidenceInputs :
        /\ ValidEvidenceInput(input)
        /\ Given(input, "launch", "unknown") \notin SuppressedLaunch

VARIABLES
    jobs,            \* table jobs
    control,         \* table job_control
    claims,          \* table job_claims
    results,         \* table job_results; the index is the revision
    notices,         \* table job_notices; the index is the revision
    witnesses,       \* table stale_witnesses
    writesDisabled,  \* per connection: a storage failure stopped its writes
    observed,        \* the owner's last observeJob snapshot of each job
    disclosures,     \* history: replies that carried the job's runner token
    grants,          \* history: replies that said authorized_now
    touched          \* history: runner activity since `observed' was read

tables  == <<jobs, control, claims, results, notices, witnesses>>
history == <<disclosures, grants, touched>>
vars    == <<tables, writesDisabled, observed, history>>

-----------------------------------------------------------------------------
(* Rows *)

JobStates == {"absent", "reserved", "claimed", "settled"}
Decisions == {"authorized"} \cup SuppressedLaunch

\* `absent' is the lack of a row.
JobRow == [state : JobStates,
           owner : Owners \cup {Null}, key : RequestKeys \cup {Null},
           command : Commands \cup {Null},
           deadlineAt : Nat]
NoJob == [state |-> "absent", owner |-> Null, key |-> Null, command |-> Null,
          deadlineAt |-> 0]

ControlRow == [cancellationRequestedAt : Times \cup {Null},
               launchDecision : Decisions \cup {Null},
               decidedAt : Times \cup {Null}]
NewControl == [cancellationRequestedAt |-> Null, launchDecision |-> Null,
               decidedAt |-> Null]

ClaimRow == [claimId : ClaimIds \cup {Null}, heartbeatCounter : Nat]
NoClaim  == [claimId |-> Null, heartbeatCounter |-> 0]

Witness == [claimId : ClaimIds \cup {Null}, counter : Nat, revision : Nat]

Known(j)          == jobs[j].state # "absent"
LatestRevision(j) == Len(results[j])
Latest(j) == IF results[j] = << >> THEN InitialEvidence
                                   ELSE results[j][Len(results[j])]
Finalized(j) == Latest(j).finalized

\* No observed fact at all; the uncertain flag is not a fact.
IsInitialEvidenceOnly(j) == [Latest(j) EXCEPT !.uncertain = TRUE] = InitialEvidence

Terminal(j) == jobs[j].state = "settled" \/ Finalized(j)

-----------------------------------------------------------------------------
(* Transactions *)

\* How a durable transaction is answered: its result; an error saying that it
\* may or may not be durable (COMMIT threw, or the answer was lost with the
\* worker); an error saying that it is durable (post-commit maintenance threw).
Outcomes == {"returned", "unknown", "committed"}

\* A connection leaves a commit with its writes on only if nothing failed.
Conclude(c, outcome) ==
    writesDisabled' = [writesDisabled EXCEPT ![c] = outcome # "returned"]

\* COMMIT threw and nothing is durable.
FailedCommit(c) ==
    /\ ~writesDisabled[c]
    /\ Conclude(c, "unknown")
    /\ UNCHANGED <<tables, observed, history>>

\* The store is closed and opened again: the new handle may write.
Reopen(c) ==
    /\ writesDisabled[c]
    /\ writesDisabled' = [writesDisabled EXCEPT ![c] = FALSE]
    /\ UNCHANGED <<tables, observed, history>>

Touch(j) == touched' = [touched EXCEPT ![j] = TRUE]

\* One more revision and its owner notice.
RecordRevision(j, evidence) ==
    /\ LatestRevision(j) < MaxRevision
    /\ results' = [results EXCEPT ![j] = Append(@, evidence)]
    /\ notices' = [notices EXCEPT ![j] = Append(@, "pending")]

-----------------------------------------------------------------------------
(* Owner operations *)

\* Mutated: the lookup overlooks a job that has left `reserved'.
IsReservedRequest(j, o, k) ==
    /\ jobs[j].state = "reserved" /\ jobs[j].owner = o /\ jobs[j].key = k

IsRequest(j, o, k) == Known(j) /\ jobs[j].owner = o /\ jobs[j].key = k

\* Mutated: the sign of the delay.
DeadlineBefore(t, cmd) == t - DeadlineMs[cmd]

DeadlineAt(t, cmd) == t + DeadlineMs[cmd]

\* A key that the owner has not used: the candidate becomes the job, and only
\* this reply carries the runner token.
Reserve(c, o, k, cmd, j, t, outcome) ==
    /\ ~writesDisabled[c]
    /\ ~Known(j)
    /\ ~\E i \in JobIds : IsRequest(i, o, k)
    /\ jobs' = [jobs EXCEPT ![j] =
                  [state |-> "reserved", owner |-> o, key |-> k, command |-> cmd,
                   deadlineAt |-> DeadlineAt(t, cmd)]]
    /\ control' = [control EXCEPT ![j] = NewControl]
    /\ Conclude(c, outcome)
    /\ disclosures' = IF outcome = "returned"
                      THEN [disclosures EXCEPT ![j] = @ + 1] ELSE disclosures
    /\ UNCHANGED <<claims, results, notices, witnesses, observed, grants, touched>>

\* The same key again. Different inputs throw REQUEST_KEY_CONFLICT; equal ones
\* answer with the existing job and no token. Only the COMMIT can change state.
ReplayReservation(c, o, k, cmd, j, outcome) ==
    /\ ~writesDisabled[c]
    /\ IsRequest(j, o, k)
    /\ jobs[j].command = cmd
    /\ Conclude(c, outcome)
    /\ UNCHANGED <<tables, observed, history>>

\* A read transaction; it needs no writable connection.
ObserveJob(j) ==
    /\ Known(j)
    /\ observed' = [observed EXCEPT ![j] =
                      [claimId |-> claims[j].claimId,
                       counter |-> claims[j].heartbeatCounter,
                       revision |-> LatestRevision(j)]]
    /\ touched' = [touched EXCEPT ![j] = FALSE]
    /\ UNCHANGED <<tables, writesDisabled, disclosures, grants>>

\* already_terminal and already_recorded answer without a change.
RequestCancellation(c, j, t, outcome) ==
    /\ ~writesDisabled[c]
    /\ Known(j) /\ ~Terminal(j)
    /\ control[j].cancellationRequestedAt = Null
    /\ control' = [control EXCEPT ![j].cancellationRequestedAt = t]
    /\ Conclude(c, outcome)
    /\ UNCHANGED <<jobs, claims, results, notices, witnesses, observed, history>>

\* Mutated: a heartbeat after the observation goes unnoticed.
WitnessMatchesClaim(j, witness) ==
    /\ witness.revision = LatestRevision(j)
    /\ witness.claimId = claims[j].claimId

WitnessMatches(j, witness) ==
    /\ witness.revision = LatestRevision(j)
    /\ witness.claimId = claims[j].claimId
    /\ witness.counter = claims[j].heartbeatCounter

\* Mutated: a repetition is recognised by its revision.
AlreadyWitnessedRevision(j, witness) == witness \in witnesses[j]

AlreadyWitnessed(j, witness) ==
    \E w \in witnesses[j] :
        w.claimId = witness.claimId /\ w.counter = witness.counter

\* The owner's compare-and-swap on its last observation: a copy of the latest
\* evidence marked uncertain, at most once for each (claim, counter) observed.
PublishUncertainResult(c, j, outcome) ==
    LET witness == observed[j]
    IN  /\ ~writesDisabled[c]
        /\ Known(j) /\ ~Terminal(j)
        /\ WitnessMatches(j, witness)
        /\ ~AlreadyWitnessed(j, witness)
        /\ ~Contradicts(Latest(j), NoObservation)
        /\ RecordRevision(j, MergeEvidence(Latest(j), NoObservation, TRUE, FALSE))
        /\ witnesses' = [witnesses EXCEPT ![j] = @ \cup {witness}]
        /\ Conclude(c, outcome)
        /\ UNCHANGED <<jobs, control, claims, observed, history>>

\* Acknowledging again is accepted and only moves the acknowledgement time.
AcknowledgeNotice(c, j, revision, outcome) ==
    /\ ~writesDisabled[c]
    /\ revision \in DOMAIN notices[j]
    /\ notices' = [notices EXCEPT ![j][revision] = "acknowledged"]
    /\ Conclude(c, outcome)
    /\ UNCHANGED <<jobs, control, claims, results, witnesses, observed, history>>

-----------------------------------------------------------------------------
(* Runner operations. The token is a 256-bit secret: only a process that was  *)
(* given it by the reservation's reply can present it.                        *)

TokenAccepted(j) == Known(j) /\ disclosures[j] > 0

ClaimedBy(j, claim) == claims[j].claimId = claim

\* Mutated: any live job can be claimed over.
Unfinished(j) == jobs[j].state # "settled"

Unclaimed(j) == claims[j].claimId = Null /\ jobs[j].state = "reserved"

ClaimRunner(c, j, claim, outcome) ==
    /\ ~writesDisabled[c]
    /\ TokenAccepted(j)
    /\ Unclaimed(j)
    /\ \A i \in JobIds : ~ClaimedBy(i, claim)
    /\ claims' = [claims EXCEPT ![j] = [claimId |-> claim, heartbeatCounter |-> 0]]
    /\ jobs' = [jobs EXCEPT ![j].state = "claimed"]
    /\ Conclude(c, outcome)
    /\ Touch(j)
    /\ UNCHANGED <<control, results, notices, witnesses, observed,
                   disclosures, grants>>

\* The counter is a compare-and-swap; the job's state is not consulted.
Heartbeat(c, j, claim, expectedCounter, outcome) ==
    /\ ~writesDisabled[c]
    /\ TokenAccepted(j)
    /\ ClaimedBy(j, claim)
    /\ claims[j].heartbeatCounter = expectedCounter
    /\ expectedCounter < MaxHeartbeat
    /\ claims' = [claims EXCEPT ![j].heartbeatCounter = expectedCounter + 1]
    /\ Conclude(c, outcome)
    /\ Touch(j)
    /\ UNCHANGED <<jobs, control, results, notices, witnesses, observed,
                   disclosures, grants>>

DecisionPrecluded(j) == jobs[j].state = "settled" \/ ~IsInitialEvidenceOnly(j)

\* Mutated: cancellation is left to the runner.
SuppressionByDeadline(j, t) ==
    IF t >= jobs[j].deadlineAt THEN "suppressed_deadline" ELSE Null

\* The transaction that may grant a launch. Cancellation is looked at before
\* the deadline, which has passed when the clock equals it.
Suppression(j, t) ==
    IF control[j].cancellationRequestedAt # Null THEN "suppressed_cancelled"
    ELSE IF t >= jobs[j].deadlineAt THEN "suppressed_deadline"
    ELSE Null

Decide(j, decision, t) ==
    control' = [control EXCEPT ![j].launchDecision = decision, ![j].decidedAt = t]

\* Mutated: a repeated call decides again.
MayDecideAgain(c, j, claim) ==
    /\ ~writesDisabled[c]
    /\ TokenAccepted(j)
    /\ ClaimedBy(j, claim)
    /\ ~DecisionPrecluded(j)

MayDecide(c, j, claim) ==
    /\ ~writesDisabled[c]
    /\ TokenAccepted(j)
    /\ ClaimedBy(j, claim)
    /\ control[j].launchDecision = Null
    /\ ~DecisionPrecluded(j)

AuthorizeLaunch(c, j, claim, t, outcome) ==
    /\ MayDecide(c, j, claim)
    /\ Suppression(j, t) = Null
    /\ Decide(j, "authorized", t)
    /\ Conclude(c, outcome)
    /\ grants' = IF outcome = "returned"
                 THEN [grants EXCEPT ![j] = @ + 1] ELSE grants
    /\ UNCHANGED <<jobs, claims, results, notices, witnesses, observed,
                   disclosures, touched>>

NoStream == [DefaultStreamFacts EXCEPT !.available = FALSE]

\* Mutated: every refusal is recorded as a cancellation.
CancellationEvidence(suppressed) ==
    [launch |-> "suppressed_cancelled",
     cleanupState |-> "not_required",
     cancellationIntentObserved |-> TRUE,
     deadlineTriggerObserved |-> suppressed = "suppressed_deadline",
     stdout |-> NoStream, stderr |-> NoStream,
     finalized |-> TRUE]

SuppressionEvidence(suppressed) ==
    [launch |-> suppressed,
     cleanupState |-> "not_required",
     cancellationIntentObserved |-> suppressed = "suppressed_cancelled",
     deadlineTriggerObserved |-> suppressed = "suppressed_deadline",
     stdout |-> NoStream, stderr |-> NoStream,
     finalized |-> TRUE]

\* The refused launch is settled in the same transaction.
SuppressLaunch(c, j, claim, t, outcome) ==
    LET suppressed == Suppression(j, t)
        evidence == SuppressionEvidence(suppressed)
    IN  /\ MayDecide(c, j, claim)
        /\ suppressed # Null
        /\ ~Contradicts(Latest(j), evidence)
        /\ Decide(j, suppressed, t)
        /\ RecordRevision(j, MergeEvidence(Latest(j), evidence, FALSE, TRUE))
        /\ jobs' = [jobs EXCEPT ![j].state = "settled"]
        /\ Conclude(c, outcome)
        /\ Touch(j)
        /\ UNCHANGED <<claims, witnesses, observed, disclosures, grants>>

\* Mutated: the revision alone is compared.
MayPublishRevision(j, claim, expectedRevision) ==
    /\ TokenAccepted(j)
    /\ ClaimedBy(j, claim)
    /\ expectedRevision = LatestRevision(j)

\* A null expectedRevision means 0. The launch decision is not consulted.
MayPublish(j, claim, expectedRevision) ==
    /\ TokenAccepted(j)
    /\ ClaimedBy(j, claim)
    /\ ~Finalized(j)
    /\ expectedRevision = LatestRevision(j)

PublishResult(c, j, claim, expectedRevision, input, outcome) ==
    LET finalized == Given(input, "finalized", FALSE)
    IN  /\ ~writesDisabled[c]
        /\ MayPublish(j, claim, expectedRevision)
        /\ ~Contradicts(Latest(j), input)
        /\ RecordRevision(j, MergeEvidence(Latest(j), input, ~finalized, finalized))
        /\ jobs' = IF finalized THEN [jobs EXCEPT ![j].state = "settled"] ELSE jobs
        /\ Conclude(c, outcome)
        /\ Touch(j)
        /\ UNCHANGED <<control, claims, witnesses, observed, disclosures, grants>>

-----------------------------------------------------------------------------
Init ==
    /\ jobs = [j \in JobIds |-> NoJob]
    /\ control = [j \in JobIds |-> NewControl]
    /\ claims = [j \in JobIds |-> NoClaim]
    /\ results = [j \in JobIds |-> << >>]
    /\ notices = [j \in JobIds |-> << >>]
    /\ witnesses = [j \in JobIds |-> {}]
    /\ writesDisabled = [c \in Connections |-> FALSE]
    /\ observed = [j \in JobIds |-> [claimId |-> Null, counter |-> 0, revision |-> 0]]
    /\ disclosures = [j \in JobIds |-> 0]
    /\ grants = [j \in JobIds |-> 0]
    /\ touched = [j \in JobIds |-> FALSE]

OwnerStep(c, j, outcome) ==
    \/ \E o \in Owners, k \in RequestKeys, cmd \in Commands :
           \/ \E t \in Times : Reserve(c, o, k, cmd, j, t, outcome)
           \/ ReplayReservation(c, o, k, cmd, j, outcome)
    \/ \E t \in Times : RequestCancellation(c, j, t, outcome)
    \/ PublishUncertainResult(c, j, outcome)
    \/ \E revision \in 1 .. MaxRevision :
           AcknowledgeNotice(c, j, revision, outcome)

RunnerStep(c, j, claim, outcome) ==
    \/ ClaimRunner(c, j, claim, outcome)
    \/ \E n \in 0 .. MaxHeartbeat : Heartbeat(c, j, claim, n, outcome)
    \/ \E t \in Times : \/ AuthorizeLaunch(c, j, claim, t, outcome)
                        \/ SuppressLaunch(c, j, claim, t, outcome)
    \/ \E expected \in 0 .. MaxRevision, input \in EvidenceInputs :
           PublishResult(c, j, claim, expected, input, outcome)

Next ==
    \/ \E c \in Connections : FailedCommit(c) \/ Reopen(c)
    \/ \E j \in JobIds : ObserveJob(j)
    \/ \E c \in Connections, j \in JobIds, outcome \in Outcomes :
           \/ OwnerStep(c, j, outcome)
           \/ \E claim \in ClaimIds : RunnerStep(c, j, claim, outcome)

Spec == Init /\ [][Next]_vars

-----------------------------------------------------------------------------
(* Invariants *)

\* Every table row, history counter and snapshot has the shape the code gives it.
TypeOK ==
    /\ jobs \in [JobIds -> JobRow]
    /\ control \in [JobIds -> ControlRow]
    /\ claims \in [JobIds -> ClaimRow]
    /\ results \in [JobIds -> Seq(ExecutionEvidence)]
    /\ notices \in [JobIds -> Seq({"pending", "acknowledged"})]
    /\ witnesses \in [JobIds -> SUBSET Witness]
    /\ writesDisabled \in [Connections -> BOOLEAN]
    /\ observed \in [JobIds -> Witness]
    /\ disclosures \in [JobIds -> Nat]
    /\ grants \in [JobIds -> Nat]
    /\ touched \in [JobIds -> BOOLEAN]

\* A job is settled exactly when its last revision is final, and no revision
\* follows a final one: racing publishers (the runner's spawn failure and its
\* cutover, the owner's reconciler, the suppressing decision) leave one outcome.
OneFinalRevision ==
    \A j \in JobIds :
        /\ jobs[j].state = "settled" <=> Finalized(j)
        /\ \A i \in 1 .. Len(results[j]) - 1 : ~results[j][i].finalized

\* No revision contradicts itself, and what one revision established every later
\* revision still says, whoever published it (finding #8 of the store's tests:
\* an uncertain revision copies every established fact).
EvidenceNeverErased ==
    \A j \in JobIds :
        /\ \A i \in DOMAIN results[j] : Coherent(results[j][i])
        /\ \A i, k \in DOMAIN results[j] :
               i < k => Survives(results[j][i], results[j][k])

\* At most one caller is ever told to launch, and only when the durable decision
\* is `authorized', whatever commits failed or answers were lost on the way.
OneLaunchGrant ==
    \A j \in JobIds :
        /\ grants[j] <= 1
        /\ grants[j] > 0 => control[j].launchDecision = "authorized"

\* The decision and the evidence agree: a refused launch is settled with exactly
\* that refusal, and evidence of a refusal exists only for a refused launch. It is
\* about what the runner publishes: publishResult itself would record a suppression
\* that somebody else with the claim and the token made up.
DecisionMatchesEvidence ==
    \A j \in JobIds :
        /\ control[j].launchDecision \in SuppressedLaunch =>
               Finalized(j) /\ Latest(j).launch = control[j].launchDecision
        /\ \A i \in DOMAIN results[j] :
               results[j][i].launch \in SuppressedLaunch =>
                   results[j][i].launch = control[j].launchDecision

\* A retried reservation neither duplicates the job nor hands out a second
\* runner token, so that one reservation starts at most one runner.
OneJobOneToken ==
    /\ \A i, j \in JobIds :
           /\ Known(i) /\ Known(j)
           /\ jobs[i].owner = jobs[j].owner /\ jobs[i].key = jobs[j].key
           => i = j
    /\ \A j \in JobIds : disclosures[j] <= 1
    /\ \A j \in JobIds : jobs[j].state \in {"claimed", "settled"} => disclosures[j] = 1

\* Each stale witness produced exactly one revision, which says no more than the
\* revision before it, and no two witnesses saw the same claim and counter.
WitnessesExplainUncertainty ==
    \A j \in JobIds :
        \A w \in witnesses[j] :
            /\ w.revision + 1 \in DOMAIN results[j]
            /\ results[j][w.revision + 1] =
                   [(IF w.revision = 0 THEN InitialEvidence
                                       ELSE results[j][w.revision])
                      EXCEPT !.uncertain = TRUE]
            /\ \A v \in witnesses[j] \ {w} :
                   /\ v.revision # w.revision
                   /\ v.claimId # w.claimId \/ v.counter # w.counter

-----------------------------------------------------------------------------
(* Action properties *)

\* The owner's reconciler never marks a job uncertain when its runner claimed,
\* beat or published after the observation the reconciler acts on. A launch decision
\* is no such sign of life: the comparison does not see one.
UncertaintyOnlyWhenIdle ==
    [][\A j \in JobIds : witnesses'[j] # witnesses[j] => ~touched[j]]_vars

CancelledStaysUngranted(j) ==
    /\ control[j].cancellationRequestedAt # Null
    /\ control[j].launchDecision # "authorized"
    => /\ control'[j].launchDecision # "authorized"
       /\ grants'[j] = grants[j]

\* A cancellation recorded before the decision excludes a grant for ever.
CancellationExcludesGrant == [][\A j \in JobIds : CancelledStaysUngranted(j)]_vars

ControlKept(j) ==
    \A f \in DOMAIN control[j] :
        control[j][f] # Null => control'[j][f] = control[j][f]

ClaimKept(j) ==
    /\ claims[j].claimId # Null => claims'[j].claimId = claims[j].claimId
    /\ claims'[j].heartbeatCounter >= claims[j].heartbeatCounter

RevisionsKept(j) ==
    \A i \in DOMAIN results[j] : results'[j][i] = results[j][i]

AcknowledgementsKept(j) ==
    \A i \in DOMAIN notices[j] :
        notices[j][i] = "acknowledged" => notices'[j][i] = "acknowledged"

Kept(j) == ControlKept(j) /\ ClaimKept(j) /\ RevisionsKept(j) /\ AcknowledgementsKept(j)

\* What was recorded stays: cancellation and decision times, the decision, the
\* claim, revisions, and acknowledgements are written once; counters only grow.
RecordedOnce == [][\A j \in JobIds : Kept(j)]_vars

-----------------------------------------------------------------------------
(* The store implements the launch authority *)

Verdict(j) ==
    IF control[j].launchDecision = Null THEN "undecided"
    ELSE IF control[j].launchDecision = "authorized" THEN "authorized"
    ELSE "refused"

Ending(j) ==
    IF jobs[j].state # "settled" THEN "open"
    ELSE IF Latest(j).launch \in SuppressedLaunch THEN "refused"
    ELSE "reported"

Authority == INSTANCE LaunchAuthority WITH
    Jobs      <- JobIds,
    verdict   <- [j \in JobIds |-> Verdict(j)],
    granted   <- grants,
    cancelled <- [j \in JobIds |-> control[j].cancellationRequestedAt # Null],
    outcome   <- [j \in JobIds |-> Ending(j)]

\* Every transaction of the store, however it is answered, is one step of the
\* launch authority or leaves it alone: in particular a grant is given in the
\* very step that decides, and a refusal settles the job in the same step.
ImplementsLaunchAuthority == Authority!Spec
=============================================================================
