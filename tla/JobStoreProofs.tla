--------------------------- MODULE JobStoreProofs ---------------------------
(***************************************************************************)
(* Proofs about JobStore for any number of jobs, owners, runners,          *)
(* connections and revisions, any clock and any observations.              *)
(***************************************************************************)
EXTENDS JobStore, EvidenceProofs, SequenceTheorems

-----------------------------------------------------------------------------
(* Type correctness *)

\* The latest evidence of a job is always a snapshot.
LEMMA LatestType ==
    ASSUME TypeOK, NEW j \in JobIds
    PROVE  Latest(j) \in ExecutionEvidence
  <1>1. results[j] \in Seq(ExecutionEvidence)
    BY DEF TypeOK
  <1>2. CASE results[j] = << >>
    BY <1>2, InitialEvidenceType DEF Latest
  <1>3. CASE results[j] # << >>
    <2>1. Len(results[j]) \in 1 .. Len(results[j])
      BY <1>1, <1>3
    <2>2. results[j][Len(results[j])] \in ExecutionEvidence
      BY <1>1, <2>1
    <2> QED
      BY <1>3, <2>2 DEF Latest
  <1> QED
    BY <1>2, <1>3

\* The refusal that decideLaunch writes is a valid observation.
LEMMA SuppressionEvidenceValid ==
    ASSUME NEW s \in SuppressedLaunch
    PROVE  ValidEvidenceInput(SuppressionEvidence(s))
  <1> DEFINE e == SuppressionEvidence(s)
  <1>1. DOMAIN e = {"launch", "cleanupState", "cancellationIntentObserved",
                    "deadlineTriggerObserved", "stdout", "stderr", "finalized"}
    BY DEF SuppressionEvidence
  <1>2. /\ e.launch = s /\ e.cleanupState = "not_required"
        /\ e.cancellationIntentObserved \in BOOLEAN
        /\ e.deadlineTriggerObserved \in BOOLEAN
        /\ e.finalized = TRUE /\ e.stdout = NoStream /\ e.stderr = NoStream
    BY DEF SuppressionEvidence
  <1>3. WellFormedStream(NoStream)
    BY DEF NoStream, DefaultStreamFacts, WellFormedStream, Given
  <1> HIDE DEF e
  <1> QED
    BY <1>1, <1>2, <1>3
       DEF e, ValidEvidenceInput, Given, SuppressedLaunch, LaunchPhases, CleanupStates

\* Recording a revision keeps the tables typed.
LEMMA RecordRevisionType ==
    ASSUME TypeOK, NEW j \in JobIds, NEW e \in ExecutionEvidence,
           RecordRevision(j, e)
    PROVE  /\ results' \in [JobIds -> Seq(ExecutionEvidence)]
           /\ notices' \in [JobIds -> Seq({"pending", "acknowledged"})]
  <1>1. Append(results[j], e) \in Seq(ExecutionEvidence)
    BY DEF TypeOK
  <1>2. Append(notices[j], "pending") \in Seq({"pending", "acknowledged"})
    BY DEF TypeOK
  <1> QED
    BY <1>1, <1>2 DEF RecordRevision, TypeOK

\* Updating one column of one row keeps a table typed.
LEMMA RowUpdates ==
    ASSUME TypeOK, NEW j \in JobIds
    PROVE  /\ \A s \in JobStates :
                  [jobs EXCEPT ![j].state = s] \in [JobIds -> JobRow]
           /\ \A t \in Times :
                  [control EXCEPT ![j].cancellationRequestedAt = t]
                    \in [JobIds -> ControlRow]
           /\ \A d \in Decisions, t \in Times :
                  [control EXCEPT ![j].launchDecision = d, ![j].decidedAt = t]
                    \in [JobIds -> ControlRow]
           /\ \A n \in Nat :
                  [claims EXCEPT ![j].heartbeatCounter = n] \in [JobIds -> ClaimRow]
  <1>1. jobs[j] \in JobRow /\ control[j] \in ControlRow /\ claims[j] \in ClaimRow
    BY DEF TypeOK
  <1>2. \A s \in JobStates : [jobs[j] EXCEPT !.state = s] \in JobRow
    BY <1>1 DEF JobRow
  <1>3. \A t \in Times : [control[j] EXCEPT !.cancellationRequestedAt = t] \in ControlRow
    BY <1>1 DEF ControlRow
  <1>4. \A d \in Decisions, t \in Times :
            [control[j] EXCEPT !.launchDecision = d, !.decidedAt = t] \in ControlRow
    BY <1>1 DEF ControlRow
  <1>5. \A n \in Nat : [claims[j] EXCEPT !.heartbeatCounter = n] \in ClaimRow
    BY <1>1 DEF ClaimRow
  <1> QED
    BY <1>2, <1>3, <1>4, <1>5 DEF TypeOK

\* A commit answers with a Boolean per connection.
LEMMA ConcludeType ==
    ASSUME TypeOK, NEW c, NEW outcome, Conclude(c, outcome)
    PROVE  writesDisabled' \in [Connections -> BOOLEAN]
  BY DEF TypeOK, Conclude

\* Each operation of the store preserves its types.
LEMMA TypeStep == TypeOK /\ [Next]_vars => TypeOK'
  <1> SUFFICES ASSUME TypeOK, [Next]_vars PROVE TypeOK'
    OBVIOUS
  <1> USE ConstantsAreSound
  <1>1. ASSUME NEW c \in Connections, FailedCommit(c) \/ Reopen(c) PROVE TypeOK'
    BY <1>1 DEF FailedCommit, Reopen, Conclude, TypeOK, tables, history
  <1>2. ASSUME NEW j \in JobIds, ObserveJob(j) PROVE TypeOK'
    <2>1. [claimId |-> claims[j].claimId, counter |-> claims[j].heartbeatCounter,
           revision |-> LatestRevision(j)] \in Witness
      BY DEF TypeOK, ClaimRow, Witness, LatestRevision
    <2> QED
      BY <1>2, <2>1 DEF ObserveJob, TypeOK, tables
  <1>3. ASSUME NEW c \in Connections, NEW j \in JobIds, NEW outcome \in Outcomes,
               OwnerStep(c, j, outcome)
        PROVE  TypeOK'
    <2>1. ASSUME NEW o \in Owners, NEW k \in RequestKeys, NEW cmd \in Commands,
                 NEW t \in Times, Reserve(c, o, k, cmd, j, t, outcome)
          PROVE  TypeOK'
      <3>1. DeadlineAt(t, cmd) \in Nat
        BY DEF DeadlineAt
      <3>2. [state |-> "reserved", owner |-> o, key |-> k, command |-> cmd,
             deadlineAt |-> DeadlineAt(t, cmd)] \in JobRow
        BY <3>1 DEF JobRow, JobStates
      <3>3. NewControl \in ControlRow
        BY DEF NewControl, ControlRow
      <3>4. jobs' \in [JobIds -> JobRow] /\ control' \in [JobIds -> ControlRow]
        BY <2>1, <3>2, <3>3 DEF Reserve, TypeOK
      <3>5. disclosures' \in [JobIds -> Nat]
        BY <2>1 DEF Reserve, TypeOK
      <3> QED
        BY <2>1, <3>4, <3>5, ConcludeType DEF Reserve, TypeOK
    <2>2. ASSUME NEW o, NEW k, NEW cmd, ReplayReservation(c, o, k, cmd, j, outcome)
          PROVE  TypeOK'
      BY <2>2, ConcludeType DEF ReplayReservation, TypeOK, tables, history
    <2>3. ASSUME NEW t \in Times, RequestCancellation(c, j, t, outcome) PROVE TypeOK'
      <3>1. control' \in [JobIds -> ControlRow]
        BY <2>3, RowUpdates DEF RequestCancellation
      <3> QED
        BY <2>3, <3>1, ConcludeType DEF RequestCancellation, TypeOK, history
    <2>4. ASSUME PublishUncertainResult(c, j, outcome) PROVE TypeOK'
      <3>1. MergeEvidence(Latest(j), NoObservation, TRUE, FALSE) \in ExecutionEvidence
        BY LatestType, NoObservationValid, MergeEvidenceType
      <3>2. witnesses' \in [JobIds -> SUBSET Witness]
        BY <2>4 DEF PublishUncertainResult, TypeOK
      <3> QED
        BY <2>4, <3>1, <3>2, RecordRevisionType, ConcludeType
           DEF PublishUncertainResult, TypeOK, history
    <2>5. ASSUME NEW revision \in 1 .. MaxRevision,
                 AcknowledgeNotice(c, j, revision, outcome)
          PROVE  TypeOK'
      <3>1. [notices[j] EXCEPT ![revision] = "acknowledged"]
              \in Seq({"pending", "acknowledged"})
        BY <2>5 DEF AcknowledgeNotice, TypeOK
      <3>2. notices' = [notices EXCEPT ![j] =
                          [notices[j] EXCEPT ![revision] = "acknowledged"]]
        BY <2>5 DEF AcknowledgeNotice, TypeOK
      <3>3. notices' \in [JobIds -> Seq({"pending", "acknowledged"})]
        BY <3>1, <3>2 DEF TypeOK
      <3> QED
        BY <2>5, <3>3, ConcludeType DEF AcknowledgeNotice, TypeOK, history
    <2> QED
      BY <1>3, <2>1, <2>2, <2>3, <2>4, <2>5 DEF OwnerStep
  <1>4. ASSUME NEW c \in Connections, NEW j \in JobIds, NEW outcome \in Outcomes,
               NEW claim \in ClaimIds, RunnerStep(c, j, claim, outcome)
        PROVE  TypeOK'
    <2>1. ASSUME ClaimRunner(c, j, claim, outcome) PROVE TypeOK'
      <3>1. jobs' \in [JobIds -> JobRow]
        BY <2>1, RowUpdates DEF ClaimRunner, JobStates
      <3>2. claims' \in [JobIds -> ClaimRow]
        BY <2>1 DEF ClaimRunner, TypeOK, ClaimRow
      <3> QED
        BY <2>1, <3>1, <3>2, ConcludeType DEF ClaimRunner, Touch, TypeOK
    <2>2. ASSUME NEW n \in 0 .. MaxHeartbeat, Heartbeat(c, j, claim, n, outcome)
          PROVE  TypeOK'
      <3>1. n + 1 \in Nat
        OBVIOUS
      <3>2. claims' \in [JobIds -> ClaimRow]
        BY <2>2, <3>1, RowUpdates DEF Heartbeat
      <3> QED
        BY <2>2, <3>2, ConcludeType DEF Heartbeat, Touch, TypeOK
    <2>3. ASSUME NEW t \in Times, AuthorizeLaunch(c, j, claim, t, outcome)
          PROVE  TypeOK'
      <3>1. control' \in [JobIds -> ControlRow]
        BY <2>3, RowUpdates DEF AuthorizeLaunch, Decide, Decisions
      <3>2. grants' \in [JobIds -> Nat]
        BY <2>3 DEF AuthorizeLaunch, TypeOK
      <3> QED
        BY <2>3, <3>1, <3>2, ConcludeType DEF AuthorizeLaunch, TypeOK
    <2>4. ASSUME NEW t \in Times, SuppressLaunch(c, j, claim, t, outcome)
          PROVE  TypeOK'
      <3> DEFINE s == Suppression(j, t)
      <3>1. s \in SuppressedLaunch
        BY <2>4 DEF SuppressLaunch, Suppression, SuppressedLaunch
      <3>2. MergeEvidence(Latest(j), SuppressionEvidence(s), FALSE, TRUE)
              \in ExecutionEvidence
        BY <3>1, LatestType, SuppressionEvidenceValid, MergeEvidenceType
      <3>3. control' \in [JobIds -> ControlRow]
        BY <2>4, <3>1, RowUpdates DEF SuppressLaunch, Decide, Decisions
      <3>4. jobs' \in [JobIds -> JobRow]
        BY <2>4, RowUpdates DEF SuppressLaunch, JobStates
      <3> QED
        BY <2>4, <3>2, <3>3, <3>4, RecordRevisionType, ConcludeType
           DEF SuppressLaunch, Touch, TypeOK
    <2>5. ASSUME NEW n \in 0 .. MaxRevision, NEW input \in EvidenceInputs,
                 PublishResult(c, j, claim, n, input, outcome)
          PROVE  TypeOK'
      <3> DEFINE f == Given(input, "finalized", FALSE)
      <3>1. ValidEvidenceInput(input) /\ f \in BOOLEAN /\ (~f) \in BOOLEAN
        BY InputsAreRunnerInputs DEF ValidEvidenceInput
      <3>2. MergeEvidence(Latest(j), input, ~f, f) \in ExecutionEvidence
        BY <3>1, LatestType, MergeEvidenceType
      <3>3. jobs' \in [JobIds -> JobRow]
        BY <2>5, RowUpdates DEF PublishResult, JobStates, TypeOK
      <3> QED
        BY <2>5, <3>2, <3>3, RecordRevisionType, ConcludeType
           DEF PublishResult, Touch, TypeOK
    <2> QED
      BY <1>4, <2>1, <2>2, <2>3, <2>4, <2>5 DEF RunnerStep
  <1>5. CASE UNCHANGED vars
    BY <1>5 DEF vars, tables, history, TypeOK
  <1> QED
    BY <1>1, <1>2, <1>3, <1>4, <1>5 DEF Next

\* The initial tables are empty and typed.
LEMMA TypeInit == Init => TypeOK
  BY ConstantsAreSound
     DEF Init, TypeOK, NoJob, JobRow, JobStates, NewControl, ControlRow,
         NoClaim, ClaimRow, Witness

\* Every reachable state of the store, whatever the constants, has typed tables.
THEOREM TypeCorrect == Spec => []TypeOK
  BY TypeInit, TypeStep, PTL DEF Spec

-----------------------------------------------------------------------------
(* The ledger: one invariant per job that ties its decision, its revisions,   *)
(* its state and what its callers were told. OneLaunchGrant is not inductive  *)
(* by itself: that a job without a decision has granted nothing is what makes *)
(* the grant of a deciding step the first one.                                *)

NoRowNoHistory(j) ==
    jobs[j].state = "absent" =>
        /\ control[j] = NewControl
        /\ results[j] = << >>
        /\ disclosures[j] = 0 /\ grants[j] = 0

SettledByFinalRevision(j) ==
    /\ jobs[j].state = "settled" <=> Finalized(j)
    /\ \A i \in 1 .. Len(results[j]) - 1 : ~results[j][i].finalized

RefusalIsOutcome(j) ==
    /\ control[j].launchDecision \in SuppressedLaunch =>
           Finalized(j) /\ Latest(j).launch = control[j].launchDecision
    /\ \A i \in DOMAIN results[j] :
           results[j][i].launch \in SuppressedLaunch =>
               /\ results[j][i].finalized
               /\ results[j][i].launch = control[j].launchDecision

GrantFollowsDecision(j) ==
    /\ control[j].launchDecision = Null => grants[j] = 0
    /\ grants[j] <= 1
    /\ grants[j] > 0 => control[j].launchDecision = "authorized"

TokenFollowsReservation(j) ==
    /\ disclosures[j] <= 1
    /\ jobs[j].state \in {"claimed", "settled"} => disclosures[j] = 1

Ledger(j) ==
    /\ NoRowNoHistory(j)
    /\ SettledByFinalRevision(j)
    /\ RefusalIsOutcome(j)
    /\ GrantFollowsDecision(j)
    /\ TokenFollowsReservation(j)

LedgerInv == TypeOK /\ \A j \in JobIds : Ledger(j)

\* A job whose rows and history a step leaves alone keeps its ledger.
LEMMA LedgerFrame ==
    ASSUME NEW j, Ledger(j),
           jobs'[j] = jobs[j], control'[j] = control[j], results'[j] = results[j],
           disclosures'[j] = disclosures[j], grants'[j] = grants[j]
    PROVE  Ledger(j)'
  BY DEF Ledger, NoRowNoHistory, SettledByFinalRevision, RefusalIsOutcome,
         GrantFollowsDecision, TokenFollowsReservation, Finalized, Latest

\* What appending a revision does to the sequence of revisions.
LEMMA AppendedRevision ==
    ASSUME TypeOK, NEW j \in JobIds, NEW e \in ExecutionEvidence, RecordRevision(j, e)
    PROVE  /\ Len(results'[j]) = Len(results[j]) + 1
           /\ Latest(j)' = e
           /\ \A i \in DOMAIN results[j] : results'[j][i] = results[j][i]
           /\ DOMAIN results'[j] = DOMAIN results[j] \cup {Len(results[j]) + 1}
           /\ results'[j][Len(results[j]) + 1] = e
           /\ \A i \in JobIds \ {j} : results'[i] = results[i]
  <1>1. results[j] \in Seq(ExecutionEvidence) /\ results \in [JobIds -> Seq(ExecutionEvidence)]
    BY DEF TypeOK
  <1>2. results'[j] = Append(results[j], e)
    BY <1>1 DEF RecordRevision
  <1>3. \A i \in JobIds \ {j} : results'[i] = results[i]
    BY <1>1 DEF RecordRevision
  <1>4. /\ Append(results[j], e) \in Seq(ExecutionEvidence)
        /\ Len(Append(results[j], e)) = Len(results[j]) + 1
        /\ Append(results[j], e)[Len(results[j]) + 1] = e
        /\ \A i \in 1 .. Len(results[j]) : Append(results[j], e)[i] = results[j][i]
    BY <1>1
  <1>5. DOMAIN results[j] = 1 .. Len(results[j])
    BY <1>1
  <1>6. DOMAIN results'[j] = 1 .. (Len(results[j]) + 1)
    BY <1>2, <1>4
  <1>7. Len(results[j]) \in Nat
    BY <1>1
  <1>8. results'[j] # << >>
    BY <1>2, <1>4, <1>7
  <1>9. Latest(j)' = e
    BY <1>2, <1>4, <1>8 DEF Latest
  <1> QED
    BY <1>2, <1>3, <1>4, <1>5, <1>6, <1>7, <1>9

\* A revision that does not end the job, of evidence that is no refusal.
LEMMA OpenRevisionKeepsLedger ==
    ASSUME LedgerInv, NEW j \in JobIds, NEW e \in ExecutionEvidence,
           RecordRevision(j, e), ~e.finalized, e.launch \notin SuppressedLaunch,
           Known(j), ~Finalized(j),
           jobs'[j] = jobs[j], control'[j] = control[j],
           disclosures'[j] = disclosures[j], grants'[j] = grants[j]
    PROVE  Ledger(j)'
  <1>1. TypeOK /\ Ledger(j) /\ results[j] \in Seq(ExecutionEvidence)
    BY DEF LedgerInv, TypeOK
  <1>2. \A i \in 1 .. Len(results[j]) : ~results[j][i].finalized
    BY <1>1 DEF Ledger, SettledByFinalRevision, Finalized, Latest
  <1>3. NoRowNoHistory(j)' /\ GrantFollowsDecision(j)' /\ TokenFollowsReservation(j)'
    BY <1>1 DEF Ledger, Known, NoRowNoHistory, GrantFollowsDecision,
                TokenFollowsReservation
  <1>4. SettledByFinalRevision(j)'
    <2>1. ~Finalized(j)' /\ jobs[j].state # "settled"
      BY <1>1, AppendedRevision DEF Ledger, SettledByFinalRevision, Finalized
    <2>2. Len(results'[j]) = Len(results[j]) + 1 /\ Len(results[j]) \in Nat
      BY <1>1, AppendedRevision
    <2>3. \A i \in 1 .. Len(results[j]) : results'[j][i] = results[j][i]
      BY <1>1, AppendedRevision
    <2>4. \A i \in 1 .. Len(results'[j]) - 1 : ~results'[j][i].finalized
      BY <1>2, <2>2, <2>3
    <2> QED
      BY <2>1, <2>4 DEF SettledByFinalRevision
  <1>5. RefusalIsOutcome(j)'
    BY <1>1, AppendedRevision DEF Ledger, RefusalIsOutcome, Finalized
  <1> QED
    BY <1>3, <1>4, <1>5 DEF Ledger

\* A revision that ends the job: with the refusal just decided, or with evidence
\* that is no refusal of a job that was not refused.
LEMMA FinalRevisionKeepsLedger ==
    ASSUME LedgerInv, NEW j \in JobIds, NEW e \in ExecutionEvidence,
           RecordRevision(j, e), e.finalized,
           Known(j), ~Finalized(j), disclosures[j] > 0,
           jobs'[j].state = "settled",
           \/ e.launch \notin SuppressedLaunch /\ control'[j] = control[j]
           \/ /\ control[j].launchDecision = Null
              /\ e.launch \in SuppressedLaunch
              /\ control'[j].launchDecision = e.launch,
           disclosures'[j] = disclosures[j], grants'[j] = grants[j]
    PROVE  Ledger(j)'
  <1>1. TypeOK /\ Ledger(j) /\ results[j] \in Seq(ExecutionEvidence)
    BY DEF LedgerInv, TypeOK
  <1>2. \A i \in 1 .. Len(results[j]) : ~results[j][i].finalized
    BY <1>1 DEF Ledger, SettledByFinalRevision, Finalized, Latest
  <1>3. \A i \in DOMAIN results[j] : results[j][i].launch \notin SuppressedLaunch
    BY <1>1, <1>2 DEF Ledger, RefusalIsOutcome
  <1>4. NoRowNoHistory(j)'
    BY DEF NoRowNoHistory
  <1>5. SettledByFinalRevision(j)'
    BY <1>1, <1>2, AppendedRevision DEF SettledByFinalRevision, Finalized
  <1>6. RefusalIsOutcome(j)'
    BY <1>1, <1>3, AppendedRevision DEF Ledger, RefusalIsOutcome, Finalized
  <1>7. GrantFollowsDecision(j)'
    BY <1>1, ConstantsAreSound DEF Ledger, GrantFollowsDecision
  <1>8. disclosures[j] \in Nat
    BY <1>1 DEF TypeOK
  <1>9. TokenFollowsReservation(j)'
    BY <1>1, <1>8 DEF Ledger, TokenFollowsReservation
  <1> QED
    BY <1>4, <1>5, <1>6, <1>7, <1>9 DEF Ledger

\* A valid runner observation merged into evidence that is no refusal is none.
LEMMA MergedLaunch ==
    ASSUME NEW prior, NEW input \in EvidenceInputs, NEW u, NEW f,
           prior.launch \notin SuppressedLaunch
    PROVE  MergeEvidence(prior, input, u, f).launch \notin SuppressedLaunch
  <1>1. Given(input, "launch", "unknown") \notin SuppressedLaunch
    BY InputsAreRunnerInputs
  <1>2. Given(input, "launch", prior.launch) \notin SuppressedLaunch
    BY <1>1 DEF Given
  <1> QED
    BY <1>2 DEF MergeEvidence

\* As long as a job is open its evidence is no refusal.
LEMMA OpenIsNoRefusal ==
    ASSUME LedgerInv, NEW j \in JobIds, ~Finalized(j)
    PROVE  Latest(j).launch \notin SuppressedLaunch
  <1>1. Ledger(j) /\ results[j] \in Seq(ExecutionEvidence)
    BY DEF LedgerInv, TypeOK
  <1>2. CASE results[j] = << >>
    BY <1>2 DEF Latest, InitialEvidence, SuppressedLaunch
  <1>3. CASE results[j] # << >>
    <2>1. Len(results[j]) \in DOMAIN results[j]
      BY <1>1, <1>3
    <2> QED
      BY <1>1, <1>3, <2>1 DEF Ledger, RefusalIsOutcome, Finalized, Latest
  <1> QED
    BY <1>2, <1>3

\* Each operation of the store preserves the ledger of every job.
LEMMA LedgerStep == LedgerInv /\ [Next]_vars => LedgerInv'
  <1> SUFFICES ASSUME LedgerInv, [Next]_vars, NEW i \in JobIds PROVE Ledger(i)'
    BY TypeStep DEF LedgerInv
  <1>0. TypeOK /\ Ledger(i)
    BY DEF LedgerInv
  <1>1. ASSUME UNCHANGED tables, UNCHANGED <<disclosures, grants>> PROVE Ledger(i)'
    BY <1>0, <1>1, LedgerFrame DEF tables
  <1>2. ASSUME NEW c \in Connections, NEW j \in JobIds, NEW outcome \in Outcomes,
               OwnerStep(c, j, outcome)
        PROVE  Ledger(i)'
    <2>1. ASSUME NEW o \in Owners, NEW k \in RequestKeys, NEW cmd \in Commands,
                 NEW t \in Times, Reserve(c, o, k, cmd, j, t, outcome)
          PROVE  Ledger(i)'
      <3>1. CASE i = j
        <4>1. jobs'[i].state = "reserved" /\ control'[i] = NewControl
          BY <1>0, <2>1, <3>1 DEF Reserve, TypeOK
        <4>2. results'[i] = << >> /\ grants'[i] = 0 /\ disclosures'[i] \in {0, 1}
          BY <1>0, <2>1, <3>1 DEF Reserve, TypeOK, Known, Ledger, NoRowNoHistory
        <4>3. ~Finalized(i)'
          BY <4>2 DEF Finalized, Latest, InitialEvidence
        <4> QED
          BY <4>1, <4>2, <4>3, ConstantsAreSound
             DEF Ledger, NoRowNoHistory, SettledByFinalRevision, RefusalIsOutcome,
                 GrantFollowsDecision, TokenFollowsReservation, NewControl
      <3>2. CASE i # j
        BY <1>0, <2>1, <3>2, LedgerFrame DEF Reserve, TypeOK
      <3> QED
        BY <3>1, <3>2
    <2>2. ASSUME NEW o, NEW k, NEW cmd, ReplayReservation(c, o, k, cmd, j, outcome)
          PROVE  Ledger(i)'
      BY <1>1, <2>2 DEF ReplayReservation, history
    <2>3. ASSUME NEW t \in Times, RequestCancellation(c, j, t, outcome)
          PROVE  Ledger(i)'
      <3>1. /\ control'[i].launchDecision = control[i].launchDecision
            /\ UNCHANGED <<jobs, results, disclosures, grants>>
        BY <1>0, <2>3 DEF RequestCancellation, TypeOK, ControlRow, history
      <3>2. i = j => jobs[i].state # "absent"
        BY <2>3 DEF RequestCancellation, Known
      <3>3. i # j => control'[i] = control[i]
        BY <1>0, <2>3 DEF RequestCancellation, TypeOK
      <3> QED
        BY <1>0, <3>1, <3>2, <3>3
           DEF Ledger, NoRowNoHistory, SettledByFinalRevision, RefusalIsOutcome,
               GrantFollowsDecision, TokenFollowsReservation, Finalized, Latest
    <2>4. ASSUME PublishUncertainResult(c, j, outcome) PROVE Ledger(i)'
      <3> DEFINE e == MergeEvidence(Latest(j), NoObservation, TRUE, FALSE)
      <3>1. /\ Known(j) /\ ~Finalized(j) /\ RecordRevision(j, e)
            /\ UNCHANGED <<jobs, control, disclosures, grants>>
        BY <2>4 DEF PublishUncertainResult, Terminal, history
      <3>2. e \in ExecutionEvidence
        BY <1>0, LatestType, NoObservationValid, MergeEvidenceType
      <3>3. ~e.finalized /\ e.launch \notin SuppressedLaunch
        BY <3>1, OpenIsNoRefusal DEF MergeEvidence, NoObservation, Given
      <3>4. CASE i = j
        BY <3>1, <3>2, <3>3, <3>4, OpenRevisionKeepsLedger
      <3>5. CASE i # j
        BY <1>0, <3>1, <3>2, <3>5, AppendedRevision, LedgerFrame
      <3> QED
        BY <3>4, <3>5
    <2>5. ASSUME NEW revision, AcknowledgeNotice(c, j, revision, outcome)
          PROVE  Ledger(i)'
      BY <1>0, <2>5, LedgerFrame DEF AcknowledgeNotice, history
    <2> QED
      BY <1>2, <2>1, <2>2, <2>3, <2>4, <2>5 DEF OwnerStep
  <1>3. ASSUME NEW c \in Connections, NEW j \in JobIds, NEW outcome \in Outcomes,
               NEW claim \in ClaimIds, RunnerStep(c, j, claim, outcome)
        PROVE  Ledger(i)'
    <2>1. ASSUME ClaimRunner(c, j, claim, outcome) PROVE Ledger(i)'
      <3>1. CASE i = j
        <4>1. /\ jobs'[i].state = "claimed" /\ jobs[i].state = "reserved"
              /\ UNCHANGED <<control, results, disclosures, grants>>
          BY <1>0, <2>1, <3>1 DEF ClaimRunner, Unclaimed, TypeOK, JobRow
        <4>2. disclosures[i] = 1
          BY <1>0, <2>1, <3>1 DEF ClaimRunner, TokenAccepted, TypeOK, Ledger,
                                  TokenFollowsReservation
        <4> QED
          BY <1>0, <4>1, <4>2
             DEF Ledger, NoRowNoHistory, SettledByFinalRevision, RefusalIsOutcome,
                 GrantFollowsDecision, TokenFollowsReservation, Finalized, Latest
      <3>2. CASE i # j
        BY <1>0, <2>1, <3>2, LedgerFrame DEF ClaimRunner, TypeOK
      <3> QED
        BY <3>1, <3>2
    <2>2. ASSUME NEW n, Heartbeat(c, j, claim, n, outcome) PROVE Ledger(i)'
      BY <1>0, <2>2, LedgerFrame DEF Heartbeat
    <2>3. ASSUME NEW t \in Times, AuthorizeLaunch(c, j, claim, t, outcome)
          PROVE  Ledger(i)'
      <3>1. CASE i = j
        <4>1. /\ control[i].launchDecision = Null /\ jobs[i].state # "absent"
              /\ control'[i].launchDecision = "authorized"
              /\ UNCHANGED <<jobs, results, disclosures>>
          BY <1>0, <2>3, <3>1 DEF AuthorizeLaunch, MayDecide, TokenAccepted, Known,
                                  Decide, TypeOK, ControlRow
        <4>2. grants'[i] \in {0, 1}
          BY <1>0, <2>3, <3>1, <4>1 DEF AuthorizeLaunch, TypeOK, Ledger,
                                        GrantFollowsDecision
        <4>3. GrantFollowsDecision(i)'
          BY <4>1, <4>2, ConstantsAreSound DEF GrantFollowsDecision
        <4>4. RefusalIsOutcome(i)'
          <5>1. ~Finalized(i)
            BY <1>0, <2>3, <3>1 DEF AuthorizeLaunch, MayDecide, DecisionPrecluded,
                 Ledger, SettledByFinalRevision
          <5>2. \A n \in DOMAIN results[i] : ~results[i][n].finalized
            BY <1>0, <5>1 DEF Ledger, SettledByFinalRevision, Finalized, Latest, TypeOK
          <5> QED
            BY <1>0, <4>1, <5>2 DEF Ledger, RefusalIsOutcome, SuppressedLaunch
        <4> QED
          BY <1>0, <4>1, <4>3, <4>4
             DEF Ledger, NoRowNoHistory, SettledByFinalRevision,
                 TokenFollowsReservation, Finalized, Latest
      <3>2. CASE i # j
        BY <1>0, <2>3, <3>2, LedgerFrame DEF AuthorizeLaunch, Decide, TypeOK
      <3> QED
        BY <3>1, <3>2
    <2>4. ASSUME NEW t \in Times, SuppressLaunch(c, j, claim, t, outcome)
          PROVE  Ledger(i)'
      <3> DEFINE s == Suppression(j, t)
                 e == MergeEvidence(Latest(j), SuppressionEvidence(s), FALSE, TRUE)
      <3>1. s \in SuppressedLaunch
        BY <2>4 DEF SuppressLaunch, Suppression, SuppressedLaunch
      <3>2. e \in ExecutionEvidence
        BY <1>0, <3>1, LatestType, SuppressionEvidenceValid, MergeEvidenceType
      <3>3. e.finalized /\ e.launch = s
        BY DEF MergeEvidence, SuppressionEvidence, Given
      <3>4. /\ RecordRevision(j, e) /\ Known(j) /\ disclosures[j] > 0
            /\ control[j].launchDecision = Null
            /\ UNCHANGED <<disclosures, grants>>
        BY <2>4 DEF SuppressLaunch, MayDecide, TokenAccepted
      <3>5. /\ jobs'[j].state = "settled" /\ control'[j].launchDecision = s
            /\ \A n \in JobIds \ {j} : jobs'[n] = jobs[n] /\ control'[n] = control[n]
        BY <1>0, <2>4 DEF SuppressLaunch, Decide, TypeOK, JobRow, ControlRow
      <3>6. ~Finalized(j)
        <4>1. Ledger(j) /\ jobs[j].state # "settled"
          BY <2>4 DEF LedgerInv, SuppressLaunch, MayDecide, DecisionPrecluded
        <4> QED
          BY <4>1 DEF Ledger, SettledByFinalRevision
      <3> HIDE DEF e, s
      <3>7. CASE i = j
        BY <3>1, <3>2, <3>3, <3>4, <3>5, <3>6, <3>7, FinalRevisionKeepsLedger
      <3>8. CASE i # j
        BY <1>0, <3>2, <3>4, <3>5, <3>8, AppendedRevision, LedgerFrame
      <3> QED
        BY <3>7, <3>8
    <2>5. ASSUME NEW n \in 0 .. MaxRevision, NEW input \in EvidenceInputs,
                 PublishResult(c, j, claim, n, input, outcome)
          PROVE  Ledger(i)'
      <3> DEFINE f == Given(input, "finalized", FALSE)
                 e == MergeEvidence(Latest(j), input, ~f, f)
      <3>1. ValidEvidenceInput(input) /\ f \in BOOLEAN /\ (~f) \in BOOLEAN
        BY InputsAreRunnerInputs DEF ValidEvidenceInput
      <3>2. e \in ExecutionEvidence
        BY <1>0, <3>1, LatestType, MergeEvidenceType
      <3>3. /\ RecordRevision(j, e) /\ Known(j) /\ ~Finalized(j) /\ disclosures[j] > 0
            /\ UNCHANGED <<control, disclosures, grants>>
        BY <2>5 DEF PublishResult, MayPublish, TokenAccepted
      <3>4. e.finalized = f /\ e.launch \notin SuppressedLaunch
        BY <3>3, OpenIsNoRefusal, MergedLaunch DEF MergeEvidence
      <3>5. /\ IF f THEN jobs'[j].state = "settled" ELSE jobs'[j] = jobs[j]
            /\ \A m \in JobIds \ {j} : jobs'[m] = jobs[m]
        BY <1>0, <2>5 DEF PublishResult, TypeOK, JobRow
      <3> HIDE DEF e, f
      <3>6. CASE i = j /\ f
        BY <3>2, <3>3, <3>4, <3>5, <3>6, FinalRevisionKeepsLedger
      <3>7. CASE i = j /\ ~f
        BY <3>2, <3>3, <3>4, <3>5, <3>7, OpenRevisionKeepsLedger
      <3>8. CASE i # j
        BY <1>0, <3>2, <3>3, <3>5, <3>8, AppendedRevision, LedgerFrame
      <3> QED
        BY <3>6, <3>7, <3>8
    <2> QED
      BY <1>3, <2>1, <2>2, <2>3, <2>4, <2>5 DEF RunnerStep
  <1>4. ASSUME NEW c \in Connections, FailedCommit(c) \/ Reopen(c) PROVE Ledger(i)'
    BY <1>1, <1>4 DEF FailedCommit, Reopen, history
  <1>5. ASSUME NEW j \in JobIds, ObserveJob(j) PROVE Ledger(i)'
    BY <1>1, <1>5 DEF ObserveJob
  <1>6. CASE UNCHANGED vars
    BY <1>1, <1>6 DEF vars, history
  <1> QED
    BY <1>2, <1>3, <1>4, <1>5, <1>6 DEF Next

\* An empty store has a ledger for every job.
LEMMA LedgerInit == Init => LedgerInv
  <1> SUFFICES ASSUME Init, NEW j \in JobIds PROVE Ledger(j)
    BY TypeInit DEF LedgerInv
  <1> QED
    BY ConstantsAreSound
       DEF Init, Ledger, NoRowNoHistory, SettledByFinalRevision, RefusalIsOutcome,
           GrantFollowsDecision, TokenFollowsReservation, NoJob, NewControl,
           Finalized, Latest, InitialEvidence

\* The ledger holds in every reachable state.
LEMMA LedgerAlways == Spec => []LedgerInv
  BY LedgerInit, LedgerStep, PTL DEF Spec

\* A job is settled exactly by its last revision, which alone is final.
THEOREM OneFinalRevisionAlways == Spec => []OneFinalRevision
  <1>1. LedgerInv => OneFinalRevision
    BY DEF LedgerInv, Ledger, SettledByFinalRevision, OneFinalRevision
  <1> QED
    BY <1>1, LedgerAlways, PTL

\* No failure of a commit and no lost answer lets two callers launch.
THEOREM OneLaunchGrantAlways == Spec => []OneLaunchGrant
  <1>1. LedgerInv => OneLaunchGrant
    BY DEF LedgerInv, Ledger, GrantFollowsDecision, OneLaunchGrant
  <1> QED
    BY <1>1, LedgerAlways, PTL

\* A refused launch and the evidence of a refusal are the same thing, for what the
\* runner publishes (InputsAreRunnerInputs).
THEOREM DecisionMatchesEvidenceAlways == Spec => []DecisionMatchesEvidence
  <1>1. LedgerInv => DecisionMatchesEvidence
    BY DEF LedgerInv, Ledger, RefusalIsOutcome, DecisionMatchesEvidence
  <1> QED
    BY <1>1, LedgerAlways, PTL

-----------------------------------------------------------------------------
(* One job for one request. The ledger already bounds the disclosures of the  *)
(* token; what is added is that no two rows carry the same request, which     *)
(* only the reservation of a new row could break.                             *)

UniqueRequests ==
    \A i, j \in JobIds :
        /\ Known(i) /\ Known(j)
        /\ jobs[i].owner = jobs[j].owner /\ jobs[i].key = jobs[j].key
        => i = j

\* The request of a row: that there is one, whose it is and under which key.
RequestKept(i) ==
    /\ Known(i)' <=> Known(i)
    /\ jobs'[i].owner = jobs[i].owner /\ jobs'[i].key = jobs[i].key

\* A row that changes no more than its state keeps its request.
LEMMA StateUpdateKeepsRequest ==
    ASSUME TypeOK, NEW j \in JobIds, Known(j), NEW s \in JobStates \ {"absent"},
           jobs' = [jobs EXCEPT ![j].state = s]
    PROVE  \A i \in JobIds : RequestKept(i)
  BY DEF TypeOK, JobRow, Known, RequestKept

\* Rows that are left alone keep their requests.
LEMMA UnchangedJobsKeepRequests ==
    ASSUME UNCHANGED jobs PROVE \A i \in JobIds : RequestKept(i)
  BY DEF Known, RequestKept

\* No operation of a runner touches the request of a row.
LEMMA RunnerKeepsRequests ==
    ASSUME TypeOK, NEW c \in Connections, NEW j \in JobIds, NEW claim \in ClaimIds,
           NEW outcome \in Outcomes, RunnerStep(c, j, claim, outcome)
    PROVE  \A i \in JobIds : RequestKept(i)
  <1>1. CASE ClaimRunner(c, j, claim, outcome)
    BY <1>1, StateUpdateKeepsRequest DEF ClaimRunner, TokenAccepted, JobStates
  <1>2. CASE \E n \in 0 .. MaxHeartbeat : Heartbeat(c, j, claim, n, outcome)
    BY <1>2, UnchangedJobsKeepRequests DEF Heartbeat
  <1>3. CASE \E t \in Times : AuthorizeLaunch(c, j, claim, t, outcome)
    BY <1>3, UnchangedJobsKeepRequests DEF AuthorizeLaunch
  <1>4. CASE \E t \in Times : SuppressLaunch(c, j, claim, t, outcome)
    BY <1>4, StateUpdateKeepsRequest
       DEF SuppressLaunch, MayDecide, TokenAccepted, JobStates
  <1>5. CASE \E expected \in 0 .. MaxRevision, input \in EvidenceInputs :
                 PublishResult(c, j, claim, expected, input, outcome)
    BY <1>5, StateUpdateKeepsRequest, UnchangedJobsKeepRequests
       DEF PublishResult, MayPublish, TokenAccepted, JobStates
  <1> QED
    BY <1>1, <1>2, <1>3, <1>4, <1>5 DEF RunnerStep

\* Rows with the requests they had before are as distinct as before.
LEMMA KeptRequestsStayUnique ==
    ASSUME UniqueRequests, \A i \in JobIds : RequestKept(i)
    PROVE  UniqueRequests'
  BY DEF UniqueRequests, RequestKept

\* Each operation of the store keeps the requests distinct.
LEMMA UniqueStep == TypeOK /\ UniqueRequests /\ [Next]_vars => UniqueRequests'
  <1> SUFFICES ASSUME TypeOK, UniqueRequests, [Next]_vars PROVE UniqueRequests'
    OBVIOUS
  <1>1. ASSUME NEW c \in Connections, NEW j \in JobIds, NEW outcome \in Outcomes,
               NEW o \in Owners, NEW k \in RequestKeys, NEW cmd \in Commands,
               NEW t \in Times, Reserve(c, o, k, cmd, j, t, outcome)
        PROVE  UniqueRequests'
    <2>1. /\ jobs'[j].owner = o /\ jobs'[j].key = k
          /\ \A i \in JobIds \ {j} : jobs'[i] = jobs[i]
          /\ \A i \in JobIds : ~(Known(i) /\ jobs[i].owner = o /\ jobs[i].key = k)
      BY <1>1 DEF Reserve, IsRequest, TypeOK
    <2> QED
      BY <2>1 DEF UniqueRequests, Known
  <1>2. ASSUME NEW c \in Connections, NEW j \in JobIds, NEW outcome \in Outcomes,
               NEW claim \in ClaimIds, RunnerStep(c, j, claim, outcome)
        PROVE  UniqueRequests'
    BY <1>2, RunnerKeepsRequests, KeptRequestsStayUnique
  <1>3. CASE UNCHANGED jobs
    BY <1>3, UnchangedJobsKeepRequests, KeptRequestsStayUnique
  <1>4. ASSUME NEW c \in Connections, NEW j \in JobIds, NEW outcome \in Outcomes,
               OwnerStep(c, j, outcome)
        PROVE  UniqueRequests'
    BY <1>1, <1>3, <1>4
       DEF OwnerStep, ReplayReservation, RequestCancellation,
           PublishUncertainResult, AcknowledgeNotice, tables
  <1> QED
    BY <1>2, <1>3, <1>4 DEF Next, FailedCommit, Reopen, ObserveJob, tables, vars

\* Retrying a reservation, however often its answers are lost, neither duplicates
\* the job nor discloses a second runner token (the store's reserve).
THEOREM OneJobOneTokenAlways == Spec => []OneJobOneToken
  <1>1. Init => UniqueRequests
    BY DEF Init, UniqueRequests, Known, NoJob
  <1>2. Spec => []UniqueRequests
    BY <1>1, UniqueStep, TypeCorrect, PTL DEF Spec
  <1>3. LedgerInv /\ UniqueRequests => OneJobOneToken
    BY DEF LedgerInv, Ledger, TokenFollowsReservation, UniqueRequests, OneJobOneToken
  <1> QED
    BY <1>2, <1>3, LedgerAlways, PTL

-----------------------------------------------------------------------------
(***************************************************************************)
(* What the store never takes back: established facts, recorded decisions  *)
(* and cancellations.                                                      *)
(***************************************************************************)

(* Evidence *)

\* A snapshot keeps its own facts.
LEMMA SurvivesReflexive == ASSUME NEW e PROVE Survives(e, e)
  BY DEF Survives, StreamSurvives

\* Facts that survive twice survive.
LEMMA SurvivesTransitive ==
    ASSUME NEW e, NEW f, NEW g, Survives(e, f), Survives(f, g)
    PROVE  Survives(e, g)
  <1>1. ASSUME NEW s, NEW t, NEW u, StreamSurvives(s, t), StreamSurvives(t, u)
        PROVE  StreamSurvives(s, u)
    BY <1>1 DEF StreamSurvives
  <1>2. StreamSurvives(e.stdout, g.stdout) /\ StreamSurvives(e.stderr, g.stderr)
    BY <1>1 DEF Survives
  <1> QED
    BY <1>2 DEF Survives

\* The revisions of one job, seen as a history.
FactsKept(j) ==
    /\ \A i \in DOMAIN results[j] : Coherent(results[j][i])
    /\ \A i, k \in DOMAIN results[j] :
           i < k => Survives(results[j][i], results[j][k])

HistoryInv == TypeOK /\ \A j \in JobIds : FactsKept(j)

\* The latest evidence is coherent and keeps the facts of every revision.
LEMMA LatestKeepsFacts ==
    ASSUME HistoryInv, NEW j \in JobIds
    PROVE  /\ Coherent(Latest(j))
           /\ \A i \in DOMAIN results[j] : Survives(results[j][i], Latest(j))
  <1>1. FactsKept(j) /\ results[j] \in Seq(ExecutionEvidence)
    BY DEF HistoryInv, TypeOK
  <1>2. CASE results[j] = << >>
    BY <1>2, InitialEvidenceType DEF Latest
  <1>3. CASE results[j] # << >>
    <2> DEFINE n == Len(results[j])
    <2>1. DOMAIN results[j] = 1 .. n /\ n \in DOMAIN results[j] /\ n \in Nat
      BY <1>1, <1>3
    <2>2. Latest(j) = results[j][n]
      BY <1>3 DEF Latest
    <2>3. ASSUME NEW i \in DOMAIN results[j]
          PROVE  Survives(results[j][i], results[j][n])
      <3>1. CASE i = n
        BY <3>1, SurvivesReflexive
      <3>2. CASE i # n
        BY <1>1, <2>1, <3>2 DEF FactsKept
      <3> QED
        BY <3>1, <3>2
    <2> QED
      BY <1>1, <2>1, <2>2, <2>3 DEF FactsKept
  <1> QED
    BY <1>2, <1>3

\* Appending an accepted merge of the latest evidence keeps all facts.
LEMMA MergedRevisionKeepsFacts ==
    ASSUME HistoryInv, NEW j \in JobIds,
           NEW input, ValidEvidenceInput(input), ~Contradicts(Latest(j), input),
           NEW u \in BOOLEAN, NEW f \in BOOLEAN,
           RecordRevision(j, MergeEvidence(Latest(j), input, u, f))
    PROVE  \A i \in JobIds : FactsKept(i)'
  <1> DEFINE e == MergeEvidence(Latest(j), input, u, f)
  <1>1. TypeOK /\ Latest(j) \in ExecutionEvidence
    BY LatestType DEF HistoryInv
  <1>2. e \in ExecutionEvidence
    BY <1>1, MergeEvidenceType
  <1>3. Coherent(e) /\ Survives(Latest(j), e)
    BY <1>1, LatestKeepsFacts, MergePreservesFacts, MergePreservesCoherence
  <1>4. \A i \in DOMAIN results[j] : Survives(results[j][i], e)
    BY <1>3, LatestKeepsFacts, SurvivesTransitive
  <1>5. RecordRevision(j, e)
    OBVIOUS
  <1> HIDE DEF e
  <1>6. /\ \A i \in DOMAIN results[j] : results'[j][i] = results[j][i]
        /\ DOMAIN results'[j] = DOMAIN results[j] \cup {Len(results[j]) + 1}
        /\ results'[j][Len(results[j]) + 1] = e
        /\ \A i \in JobIds \ {j} : results'[i] = results[i]
    BY <1>1, <1>2, <1>5, AppendedRevision
  <1>7. DOMAIN results[j] = 1 .. Len(results[j]) /\ Len(results[j]) \in Nat
    BY <1>1 DEF TypeOK
  <1>8. FactsKept(j)
    BY DEF HistoryInv
  <1>9. FactsKept(j)'
    <2>1. ASSUME NEW i \in DOMAIN results'[j] PROVE Coherent(results'[j][i])
      BY <1>3, <1>6, <1>8 DEF FactsKept
    <2>2. ASSUME NEW i \in DOMAIN results'[j], NEW k \in DOMAIN results'[j], i < k
          PROVE  Survives(results'[j][i], results'[j][k])
      <3>1. i \in DOMAIN results[j]
        BY <1>6, <1>7, <2>2
      <3>2. CASE k \in DOMAIN results[j]
        BY <1>6, <1>8, <2>2, <3>1, <3>2 DEF FactsKept
      <3>3. CASE k = Len(results[j]) + 1
        BY <1>4, <1>6, <3>1, <3>3
      <3> QED
        BY <1>6, <3>2, <3>3
    <2> QED
      BY <2>1, <2>2 DEF FactsKept
  <1>10. ASSUME NEW i \in JobIds \ {j} PROVE FactsKept(i)'
    BY <1>6, <1>10 DEF HistoryInv, FactsKept
  <1> QED
    BY <1>9, <1>10

\* Every operation that appends a revision appends an accepted merge.
LEMMA HistoryStep == HistoryInv /\ [Next]_vars => HistoryInv'
  <1> SUFFICES ASSUME HistoryInv, [Next]_vars PROVE \A i \in JobIds : FactsKept(i)'
    BY TypeStep DEF HistoryInv
  <1>1. ASSUME UNCHANGED results PROVE \A i \in JobIds : FactsKept(i)'
    BY <1>1 DEF HistoryInv, FactsKept
  <1>2. ASSUME NEW c \in Connections, NEW j \in JobIds, NEW outcome \in Outcomes,
               OwnerStep(c, j, outcome)
        PROVE  \A i \in JobIds : FactsKept(i)'
    <2>1. ASSUME PublishUncertainResult(c, j, outcome)
          PROVE  \A i \in JobIds : FactsKept(i)'
      BY <2>1, NoObservationValid, MergedRevisionKeepsFacts
         DEF PublishUncertainResult
    <2>2. CASE UNCHANGED results
      BY <1>1, <2>2
    <2> QED
      BY <1>2, <2>1, <2>2
         DEF OwnerStep, Reserve, ReplayReservation, RequestCancellation,
             AcknowledgeNotice, tables
  <1>3. ASSUME NEW c \in Connections, NEW j \in JobIds, NEW outcome \in Outcomes,
               NEW claim \in ClaimIds, RunnerStep(c, j, claim, outcome)
        PROVE  \A i \in JobIds : FactsKept(i)'
    <2>1. ASSUME NEW t \in Times, SuppressLaunch(c, j, claim, t, outcome)
          PROVE  \A i \in JobIds : FactsKept(i)'
      <3>1. Suppression(j, t) \in SuppressedLaunch
        BY <2>1 DEF SuppressLaunch, Suppression, SuppressedLaunch
      <3> QED
        BY <2>1, <3>1, SuppressionEvidenceValid, MergedRevisionKeepsFacts
           DEF SuppressLaunch
    <2>2. ASSUME NEW n \in 0 .. MaxRevision, NEW input \in EvidenceInputs,
                 PublishResult(c, j, claim, n, input, outcome)
          PROVE  \A i \in JobIds : FactsKept(i)'
      <3> DEFINE f == Given(input, "finalized", FALSE)
      <3>1. ValidEvidenceInput(input) /\ f \in BOOLEAN /\ (~f) \in BOOLEAN
        BY InputsAreRunnerInputs DEF ValidEvidenceInput
      <3>2. /\ ~Contradicts(Latest(j), input)
            /\ RecordRevision(j, MergeEvidence(Latest(j), input, ~f, f))
        BY <2>2 DEF PublishResult
      <3> HIDE DEF f
      <3> QED
        BY <3>1, <3>2, MergedRevisionKeepsFacts
    <2>3. CASE UNCHANGED results
      BY <1>1, <2>3
    <2> QED
      BY <1>3, <2>1, <2>2, <2>3
         DEF RunnerStep, ClaimRunner, Heartbeat, AuthorizeLaunch
  <1>4. CASE UNCHANGED results
    BY <1>1, <1>4
  <1> QED
    BY <1>2, <1>3, <1>4
       DEF Next, FailedCommit, Reopen, ObserveJob, tables, vars

\* An empty store has erased nothing.
LEMMA HistoryInit == Init => HistoryInv
  <1> SUFFICES ASSUME Init, NEW j \in JobIds PROVE FactsKept(j)
    BY TypeInit DEF HistoryInv
  <1> QED
    BY DEF Init, FactsKept

\* What one revision established every later revision still says, and none
\* contradicts itself, however many publishers race (mergeEvidence and the
\* revision checks of publishResult, publishUncertainResult and decideLaunch).
THEOREM EvidenceNeverErasedAlways == Spec => []EvidenceNeverErased
  <1>1. HistoryInv => EvidenceNeverErased
    BY DEF HistoryInv, FactsKept, EvidenceNeverErased
  <1> QED
    BY <1>1, HistoryInit, HistoryStep, PTL DEF Spec

-----------------------------------------------------------------------------
(* Control rows, claims and notices *)

\* RecordedOnce is not an invariant of single columns: a decision writes
\* decided_at, and a claim starts its counter, only because neither was written
\* while the column that guards it was null.
RowsBeginEmpty(j) ==
    /\ control[j].launchDecision = Null => control[j].decidedAt = Null
    /\ claims[j].claimId = Null => claims[j].heartbeatCounter = 0
    /\ jobs[j].state = "absent" => control[j] = NewControl

ColumnInv == TypeOK /\ \A j \in JobIds : RowsBeginEmpty(j)

\* A job whose three rows a step leaves alone keeps its columns.
LEMMA RowsFrame ==
    ASSUME NEW j, RowsBeginEmpty(j),
           control'[j] = control[j], claims'[j] = claims[j], jobs'[j] = jobs[j]
    PROVE  RowsBeginEmpty(j)'
  BY DEF RowsBeginEmpty

\* Each operation of the store preserves the columns of every job.
LEMMA ColumnStep == ColumnInv /\ [Next]_vars => ColumnInv'
  <1> SUFFICES ASSUME ColumnInv, [Next]_vars, NEW i \in JobIds
               PROVE  RowsBeginEmpty(i)'
    BY TypeStep DEF ColumnInv
  <1>0. TypeOK /\ RowsBeginEmpty(i)
    BY DEF ColumnInv
  <1>1. ASSUME UNCHANGED <<control, claims, jobs>> PROVE RowsBeginEmpty(i)'
    BY <1>0, <1>1, RowsFrame
  <1>2. ASSUME NEW c \in Connections, NEW j \in JobIds, NEW outcome \in Outcomes,
               OwnerStep(c, j, outcome)
        PROVE  RowsBeginEmpty(i)'
    <2>1. ASSUME NEW o \in Owners, NEW k \in RequestKeys, NEW cmd \in Commands,
                 NEW t \in Times, Reserve(c, o, k, cmd, j, t, outcome)
          PROVE  RowsBeginEmpty(i)'
      BY <1>0, <2>1 DEF Reserve, RowsBeginEmpty, TypeOK, NewControl
    <2>2. ASSUME NEW t \in Times, RequestCancellation(c, j, t, outcome)
          PROVE  RowsBeginEmpty(i)'
      BY <1>0, <2>2 DEF RequestCancellation, Known, RowsBeginEmpty, TypeOK, ControlRow
    <2>3. CASE UNCHANGED <<control, claims, jobs>>
      BY <1>1, <2>3
    <2> QED
      BY <1>2, <2>1, <2>2, <2>3
         DEF OwnerStep, ReplayReservation, PublishUncertainResult,
             AcknowledgeNotice, tables
  <1>3. ASSUME NEW c \in Connections, NEW j \in JobIds, NEW outcome \in Outcomes,
               NEW claim \in ClaimIds, RunnerStep(c, j, claim, outcome)
        PROVE  RowsBeginEmpty(i)'
    <2>1. ASSUME ClaimRunner(c, j, claim, outcome) PROVE RowsBeginEmpty(i)'
      BY <1>0, <2>1, ConstantsAreSound
         DEF ClaimRunner, Unclaimed, RowsBeginEmpty, TypeOK, JobRow
    <2>2. ASSUME NEW n \in 0 .. MaxHeartbeat, Heartbeat(c, j, claim, n, outcome)
          PROVE  RowsBeginEmpty(i)'
      BY <1>0, <2>2, ConstantsAreSound
         DEF Heartbeat, ClaimedBy, RowsBeginEmpty, TypeOK, ClaimRow
    <2>3. ASSUME NEW t \in Times, AuthorizeLaunch(c, j, claim, t, outcome)
          PROVE  RowsBeginEmpty(i)'
      BY <1>0, <2>3, ConstantsAreSound
         DEF AuthorizeLaunch, MayDecide, TokenAccepted, Known, Decide,
             RowsBeginEmpty, TypeOK, ControlRow
    <2>4. ASSUME NEW t \in Times, SuppressLaunch(c, j, claim, t, outcome)
          PROVE  RowsBeginEmpty(i)'
      BY <1>0, <2>4, ConstantsAreSound
         DEF SuppressLaunch, MayDecide, TokenAccepted, Known, Decide,
             RowsBeginEmpty, TypeOK, ControlRow, JobRow
    <2>5. ASSUME NEW n, NEW input, PublishResult(c, j, claim, n, input, outcome)
          PROVE  RowsBeginEmpty(i)'
      BY <1>0, <2>5
         DEF PublishResult, MayPublish, TokenAccepted, Known, RowsBeginEmpty,
             TypeOK, JobRow
    <2> QED
      BY <1>3, <2>1, <2>2, <2>3, <2>4, <2>5 DEF RunnerStep
  <1>4. CASE UNCHANGED <<control, claims, jobs>>
    BY <1>1, <1>4
  <1> QED
    BY <1>2, <1>3, <1>4
       DEF Next, FailedCommit, Reopen, ObserveJob, tables, vars

\* The columns of an empty store are empty.
LEMMA ColumnInit == Init => ColumnInv
  <1> SUFFICES ASSUME Init, NEW j \in JobIds PROVE RowsBeginEmpty(j)
    BY TypeInit DEF ColumnInv
  <1> QED
    BY DEF Init, RowsBeginEmpty, NewControl, NoClaim, NoJob

\* What a step leaves alone it keeps.
LEMMA UntouchedIsKept ==
    ASSUME TypeOK, NEW i \in JobIds
    PROVE  /\ control'[i] = control[i] => ControlKept(i)
           /\ claims'[i] = claims[i] => ClaimKept(i)
           /\ results'[i] = results[i] => RevisionsKept(i)
           /\ notices'[i] = notices[i] => AcknowledgementsKept(i)
  <1>1. claims[i].heartbeatCounter \in Nat
    BY DEF TypeOK, ClaimRow
  <1> QED
    BY <1>1 DEF ControlKept, ClaimKept, RevisionsKept, AcknowledgementsKept

\* A new revision leaves the revisions before it, and their notices, alone.
LEMMA RecordedRevisionKeeps ==
    ASSUME TypeOK, NEW j \in JobIds, NEW e, RecordRevision(j, e), NEW i \in JobIds
    PROVE  RevisionsKept(i) /\ AcknowledgementsKept(i)
  <1>1. /\ results[i] \in Seq(ExecutionEvidence)
        /\ notices[i] \in Seq({"pending", "acknowledged"})
        /\ \E S : results \in [JobIds -> S] /\ \E T : notices \in [JobIds -> T]
    BY DEF TypeOK
  <1>2. CASE i = j
    <2>1. results'[i] = Append(results[i], e) /\ notices'[i] = Append(notices[i], "pending")
      BY <1>1, <1>2 DEF RecordRevision
    <2>2. /\ \A n \in DOMAIN results[i] : Append(results[i], e)[n] = results[i][n]
          /\ \A n \in DOMAIN notices[i] : Append(notices[i], "pending")[n] = notices[i][n]
      BY <1>1
    <2> QED
      BY <2>1, <2>2 DEF RevisionsKept, AcknowledgementsKept
  <1>3. CASE i # j
    BY <1>1, <1>3, UntouchedIsKept DEF RecordRevision
  <1> QED
    BY <1>2, <1>3

\* A decision is written into empty columns.
LEMMA DecideKeeps ==
    ASSUME ColumnInv, NEW j \in JobIds, NEW d, NEW t, Decide(j, d, t),
           control[j].launchDecision = Null, NEW i \in JobIds
    PROVE  ControlKept(i)
  <1>1. control \in [JobIds -> ControlRow] /\ control[j].decidedAt = Null
    BY DEF ColumnInv, RowsBeginEmpty, TypeOK
  <1> QED
    BY <1>1 DEF Decide, ControlKept, ControlRow

\* Each operation of the store keeps what is recorded of every job.
LEMMA KeptStep ==
    ASSUME ColumnInv, Next, NEW i \in JobIds
    PROVE  Kept(i)
  <1>0. TypeOK /\ RowsBeginEmpty(i)
    BY DEF ColumnInv
  <1>1. ASSUME UNCHANGED tables PROVE Kept(i)
    BY <1>0, <1>1, UntouchedIsKept DEF Kept, tables
  <1>2. ASSUME NEW c \in Connections, NEW j \in JobIds, NEW outcome \in Outcomes,
               OwnerStep(c, j, outcome)
        PROVE  Kept(i)
    <2>1. ASSUME NEW o \in Owners, NEW k \in RequestKeys, NEW cmd \in Commands,
                 NEW t \in Times, Reserve(c, o, k, cmd, j, t, outcome)
          PROVE  Kept(i)
      <3>1. ControlKept(i)
        BY <1>0, <2>1 DEF Reserve, Known, RowsBeginEmpty, TypeOK, NewControl, ControlKept
      <3> QED
        BY <1>0, <2>1, <3>1, UntouchedIsKept DEF Kept, Reserve
    <2>2. ASSUME NEW o, NEW k, NEW cmd, ReplayReservation(c, o, k, cmd, j, outcome)
          PROVE  Kept(i)
      BY <1>1, <2>2 DEF ReplayReservation
    <2>3. ASSUME NEW t \in Times, RequestCancellation(c, j, t, outcome)
          PROVE  Kept(i)
      <3>1. ControlKept(i)
        BY <1>0, <2>3 DEF RequestCancellation, TypeOK, ControlRow, ControlKept
      <3> QED
        BY <1>0, <2>3, <3>1, UntouchedIsKept DEF Kept, RequestCancellation
    <2>4. ASSUME PublishUncertainResult(c, j, outcome) PROVE Kept(i)
      BY <1>0, <2>4, UntouchedIsKept, RecordedRevisionKeeps
         DEF Kept, PublishUncertainResult
    <2>5. ASSUME NEW n \in 1 .. MaxRevision, AcknowledgeNotice(c, j, n, outcome)
          PROVE  Kept(i)
      <3>1. AcknowledgementsKept(i)
        BY <1>0, <2>5 DEF AcknowledgeNotice, TypeOK, AcknowledgementsKept
      <3> QED
        BY <1>0, <2>5, <3>1, UntouchedIsKept DEF Kept, AcknowledgeNotice
    <2> QED
      BY <1>2, <2>1, <2>2, <2>3, <2>4, <2>5 DEF OwnerStep
  <1>3. ASSUME NEW c \in Connections, NEW j \in JobIds, NEW outcome \in Outcomes,
               NEW claim \in ClaimIds, RunnerStep(c, j, claim, outcome)
        PROVE  Kept(i)
    <2>1. ASSUME ClaimRunner(c, j, claim, outcome) PROVE Kept(i)
      <3>1. ClaimKept(i)
        BY <1>0, <2>1, UntouchedIsKept
           DEF ClaimRunner, Unclaimed, RowsBeginEmpty, TypeOK, ClaimKept
      <3> QED
        BY <1>0, <2>1, <3>1, UntouchedIsKept DEF Kept, ClaimRunner
    <2>2. ASSUME NEW n \in 0 .. MaxHeartbeat, Heartbeat(c, j, claim, n, outcome)
          PROVE  Kept(i)
      <3>1. ClaimKept(i)
        BY <1>0, <2>2, UntouchedIsKept DEF Heartbeat, TypeOK, ClaimRow, ClaimKept
      <3> QED
        BY <1>0, <2>2, <3>1, UntouchedIsKept DEF Kept, Heartbeat
    <2>3. ASSUME NEW t \in Times, AuthorizeLaunch(c, j, claim, t, outcome)
          PROVE  Kept(i)
      BY <1>0, <2>3, UntouchedIsKept, DecideKeeps DEF Kept, AuthorizeLaunch, MayDecide
    <2>4. ASSUME NEW t \in Times, SuppressLaunch(c, j, claim, t, outcome)
          PROVE  Kept(i)
      BY <1>0, <2>4, UntouchedIsKept, DecideKeeps, RecordedRevisionKeeps
         DEF Kept, SuppressLaunch, MayDecide
    <2>5. ASSUME NEW n, NEW input, PublishResult(c, j, claim, n, input, outcome)
          PROVE  Kept(i)
      BY <1>0, <2>5, UntouchedIsKept, RecordedRevisionKeeps DEF Kept, PublishResult
    <2> QED
      BY <1>3, <2>1, <2>2, <2>3, <2>4, <2>5 DEF RunnerStep
  <1>4. CASE UNCHANGED tables
    BY <1>1, <1>4
  <1> QED
    BY <1>2, <1>3, <1>4 DEF Next, FailedCommit, Reopen, ObserveJob

\* Cancellation and decision times, the decision, the claim, revisions and
\* acknowledgements are written once, and heartbeats only grow, whichever
\* connections write and whatever commits fail (the conditions of the UPDATE and
\* INSERT statements of job-store.ts).
THEOREM RecordedOnceAlways == Spec => RecordedOnce
  <1>1. ColumnInv /\ [Next]_vars => [\A j \in JobIds : Kept(j)]_vars
    BY KeptStep
  <1> QED
    BY <1>1, ColumnInit, ColumnStep, PTL DEF Spec, RecordedOnce

\* A deciding step looks at the cancellation column in its own transaction.
LEMMA CancelledStep ==
    ASSUME TypeOK, Next, NEW i \in JobIds
    PROVE  CancelledStaysUngranted(i)
  <1>1. ASSUME control'[i].launchDecision = control[i].launchDecision,
               grants'[i] = grants[i]
        PROVE  CancelledStaysUngranted(i)
    BY <1>1 DEF CancelledStaysUngranted
  <1>2. ASSUME NEW c \in Connections, NEW j \in JobIds, NEW outcome \in Outcomes,
               OwnerStep(c, j, outcome)
        PROVE  CancelledStaysUngranted(i)
    <2>1. ASSUME NEW o \in Owners, NEW k \in RequestKeys, NEW cmd \in Commands,
                 NEW t \in Times, Reserve(c, o, k, cmd, j, t, outcome)
          PROVE  CancelledStaysUngranted(i)
      BY <2>1, ConstantsAreSound
         DEF Reserve, TypeOK, NewControl, CancelledStaysUngranted
    <2>2. ASSUME NEW t \in Times, RequestCancellation(c, j, t, outcome)
          PROVE  CancelledStaysUngranted(i)
      BY <1>1, <2>2 DEF RequestCancellation, TypeOK, ControlRow, history
    <2>3. CASE UNCHANGED <<control, grants>>
      BY <1>1, <2>3
    <2> QED
      BY <1>2, <2>1, <2>2, <2>3
         DEF OwnerStep, ReplayReservation, PublishUncertainResult,
             AcknowledgeNotice, tables, history
  <1>3. ASSUME NEW c \in Connections, NEW j \in JobIds, NEW outcome \in Outcomes,
               NEW claim \in ClaimIds, RunnerStep(c, j, claim, outcome)
        PROVE  CancelledStaysUngranted(i)
    <2>1. ASSUME NEW t \in Times, AuthorizeLaunch(c, j, claim, t, outcome)
          PROVE  CancelledStaysUngranted(i)
      <3>1. CASE i = j
        BY <2>1, <3>1, ConstantsAreSound
           DEF AuthorizeLaunch, Suppression, SuppressedLaunch, CancelledStaysUngranted
      <3>2. CASE i # j
        BY <1>1, <2>1, <3>2 DEF AuthorizeLaunch, Decide, TypeOK
      <3> QED
        BY <3>1, <3>2
    <2>2. ASSUME NEW t \in Times, SuppressLaunch(c, j, claim, t, outcome)
          PROVE  CancelledStaysUngranted(i)
      <3>1. Suppression(j, t) \in SuppressedLaunch /\ "authorized" \notin SuppressedLaunch
        BY <2>2 DEF SuppressLaunch, Suppression, SuppressedLaunch
      <3>2. grants' = grants /\ Decide(j, Suppression(j, t), t)
        BY <2>2 DEF SuppressLaunch
      <3> QED
        BY <3>1, <3>2 DEF Decide, TypeOK, ControlRow, CancelledStaysUngranted
    <2>3. CASE UNCHANGED <<control, grants>>
      BY <1>1, <2>3
    <2> QED
      BY <1>3, <2>1, <2>2, <2>3
         DEF RunnerStep, ClaimRunner, Heartbeat, PublishResult
  <1>4. CASE UNCHANGED <<control, grants>>
    BY <1>1, <1>4
  <1> QED
    BY <1>2, <1>3, <1>4
       DEF Next, FailedCommit, Reopen, ObserveJob, tables, history

\* A cancellation that is recorded before the launch is decided excludes a grant
\* for ever (decideLaunch, job-store.ts:1399).
THEOREM CancellationExcludesGrantAlways == Spec => CancellationExcludesGrant
  <1>1. TypeOK /\ [Next]_vars => [\A j \in JobIds : CancelledStaysUngranted(j)]_vars
    BY CancelledStep
  <1> QED
    BY <1>1, TypeInit, TypeStep, PTL DEF Spec, CancellationExcludesGrant

-----------------------------------------------------------------------------
(***************************************************************************)
(* What the owner's reconciler may say of a job: that a silent job is      *)
(* uncertain, once for each silence, and nothing else.                     *)
(***************************************************************************)

(* The snapshot that the reconciler acts on is behind the tables, and whatever *)
(* a runner did since then shows in one of the three columns it is compared    *)
(* with: the claim is chosen once, the counter and the revisions only grow.    *)

NotAhead(j) ==
    /\ observed[j].claimId \in {Null, claims[j].claimId}
    /\ observed[j].counter <= claims[j].heartbeatCounter
    /\ observed[j].revision <= LatestRevision(j)

SnapshotShowsActivity(j) ==
    /\ NotAhead(j)
    /\ touched[j] => ~WitnessMatches(j, observed[j])

SnapshotInv == ColumnInv /\ \A j \in JobIds : SnapshotShowsActivity(j)

\* The numbers that are compared are numbers.
LEMMA SnapshotNumbers ==
    ASSUME TypeOK, NEW j \in JobIds
    PROVE  /\ observed[j].counter \in Nat /\ observed[j].revision \in Nat
           /\ claims[j] \in ClaimRow /\ claims[j].heartbeatCounter \in Nat
           /\ LatestRevision(j) \in Nat
           /\ \A w \in witnesses[j] : w.revision \in Nat
  BY DEF TypeOK, Witness, ClaimRow, LatestRevision

\* A snapshot that a step leaves alone stays behind tables that only move on.
LEMMA SnapshotFrame ==
    ASSUME TypeOK, TypeOK', NEW j \in JobIds, SnapshotShowsActivity(j),
           observed'[j] = observed[j], touched'[j] = touched[j],
           claims'[j] = claims[j], LatestRevision(j)' >= LatestRevision(j)
    PROVE  SnapshotShowsActivity(j)'
  <1>1. LatestRevision(j)' \in Nat
    BY DEF TypeOK, LatestRevision
  <1>2. NotAhead(j)'
    BY <1>1, SnapshotNumbers DEF SnapshotShowsActivity, NotAhead
  <1>3. WitnessMatches(j, observed[j])' => WitnessMatches(j, observed[j])
    BY <1>1, SnapshotNumbers DEF SnapshotShowsActivity, NotAhead, WitnessMatches
  <1> QED
    BY <1>2, <1>3 DEF SnapshotShowsActivity

\* A step of the runner moves one of the three columns past the snapshot.
LEMMA RunnerOvertakesSnapshot ==
    ASSUME TypeOK, TypeOK', NEW j \in JobIds, NotAhead(j), observed'[j] = observed[j],
           \/ /\ claims[j].claimId = Null /\ claims[j].heartbeatCounter = 0
              /\ claims'[j].claimId # Null /\ claims'[j].heartbeatCounter = 0
              /\ LatestRevision(j)' = LatestRevision(j)
           \/ /\ claims'[j].claimId = claims[j].claimId
              /\ claims'[j].heartbeatCounter = claims[j].heartbeatCounter + 1
              /\ LatestRevision(j)' = LatestRevision(j)
           \/ /\ claims'[j] = claims[j]
              /\ LatestRevision(j)' = LatestRevision(j) + 1
    PROVE  SnapshotShowsActivity(j)'
  BY SnapshotNumbers DEF SnapshotShowsActivity, NotAhead, WitnessMatches

\* What recording a revision does to the numbers of revisions.
LEMMA RevisionRecorded ==
    ASSUME TypeOK, NEW j \in JobIds, NEW e, RecordRevision(j, e)
    PROVE  /\ LatestRevision(j)' = LatestRevision(j) + 1
           /\ \A i \in JobIds \ {j} : results'[i] = results[i]
  <1>1. results[j] \in Seq(ExecutionEvidence) /\ results \in [JobIds -> Seq(ExecutionEvidence)]
    BY DEF TypeOK
  <1>2. results'[j] = Append(results[j], e)
    BY <1>1 DEF RecordRevision
  <1> QED
    BY <1>1, <1>2 DEF RecordRevision, LatestRevision

\* Each operation of the store keeps every snapshot behind the tables.
LEMMA SnapshotStep == SnapshotInv /\ [Next]_vars => SnapshotInv'
  <1> SUFFICES ASSUME SnapshotInv, [Next]_vars, NEW i \in JobIds
               PROVE  SnapshotShowsActivity(i)'
    BY ColumnStep DEF SnapshotInv
  <1>0. /\ TypeOK /\ TypeOK' /\ SnapshotShowsActivity(i) /\ NotAhead(i)
        /\ RowsBeginEmpty(i) /\ LatestRevision(i) \in Nat
    BY TypeStep, SnapshotNumbers DEF SnapshotInv, ColumnInv, SnapshotShowsActivity
  <1>1. ASSUME observed'[i] = observed[i], touched'[i] = touched[i],
               claims'[i] = claims[i], results'[i] = results[i]
        PROVE  SnapshotShowsActivity(i)'
    <2>1. LatestRevision(i)' >= LatestRevision(i)
      BY <1>0, <1>1 DEF LatestRevision
    <2> QED
      BY <1>0, <1>1, <2>1, SnapshotFrame
  <1>2. ASSUME NEW j \in JobIds, ObserveJob(j) PROVE SnapshotShowsActivity(i)'
    <2>1. CASE i = j
      <3>1. /\ observed'[i] = [claimId |-> claims[i].claimId,
                               counter |-> claims[i].heartbeatCounter,
                               revision |-> LatestRevision(i)]
            /\ touched'[i] = FALSE
            /\ UNCHANGED <<claims, results>>
        BY <1>0, <1>2, <2>1 DEF ObserveJob, TypeOK, tables
      <3>2. LatestRevision(i)' = LatestRevision(i) /\ claims'[i].heartbeatCounter \in Nat
        BY <1>0, <3>1, SnapshotNumbers DEF LatestRevision
      <3> QED
        BY <1>0, <3>1, <3>2 DEF SnapshotShowsActivity, NotAhead
    <2>2. CASE i # j
      BY <1>0, <1>1, <1>2, <2>2 DEF ObserveJob, TypeOK, tables
    <2> QED
      BY <2>1, <2>2
  <1>3. ASSUME NEW c \in Connections, NEW j \in JobIds, NEW outcome \in Outcomes,
               OwnerStep(c, j, outcome)
        PROVE  SnapshotShowsActivity(i)'
    <2>1. ASSUME PublishUncertainResult(c, j, outcome) PROVE SnapshotShowsActivity(i)'
      <3>1. UNCHANGED <<claims, observed, touched>>
        BY <2>1 DEF PublishUncertainResult, history
      <3>2. CASE i = j
        <4>1. LatestRevision(i)' = LatestRevision(i) + 1
          BY <1>0, <2>1, <3>2, RevisionRecorded DEF PublishUncertainResult
        <4> QED
          BY <1>0, <3>1, <4>1, SnapshotFrame
      <3>3. CASE i # j
        BY <1>0, <1>1, <2>1, <3>1, <3>3, RevisionRecorded DEF PublishUncertainResult
      <3> QED
        BY <3>2, <3>3
    <2>2. CASE UNCHANGED <<claims, results, observed, touched>>
      BY <1>1, <2>2
    <2> QED
      BY <1>3, <2>1, <2>2
         DEF OwnerStep, Reserve, ReplayReservation, RequestCancellation,
             AcknowledgeNotice, tables, history
  <1>4. ASSUME NEW c \in Connections, NEW j \in JobIds, NEW outcome \in Outcomes,
               NEW claim \in ClaimIds, RunnerStep(c, j, claim, outcome)
        PROVE  SnapshotShowsActivity(i)'
    <2>1. ASSUME ClaimRunner(c, j, claim, outcome) PROVE SnapshotShowsActivity(i)'
      <3>1. CASE i = j
        <4>1. /\ claims[i].claimId = Null /\ claims[i].heartbeatCounter = 0
              /\ claims'[i] = [claimId |-> claim, heartbeatCounter |-> 0]
              /\ LatestRevision(i)' = LatestRevision(i) /\ observed'[i] = observed[i]
          BY <1>0, <2>1, <3>1
             DEF ClaimRunner, Unclaimed, RowsBeginEmpty, TypeOK, LatestRevision
        <4> QED
          BY <1>0, <4>1, ConstantsAreSound, RunnerOvertakesSnapshot
      <3>2. CASE i # j
        BY <1>0, <1>1, <2>1, <3>2 DEF ClaimRunner, Touch, TypeOK
      <3> QED
        BY <3>1, <3>2
    <2>2. ASSUME NEW n \in 0 .. MaxHeartbeat, Heartbeat(c, j, claim, n, outcome)
          PROVE  SnapshotShowsActivity(i)'
      <3>1. CASE i = j
        <4>1. /\ claims'[i].claimId = claims[i].claimId
              /\ claims'[i].heartbeatCounter = claims[i].heartbeatCounter + 1
              /\ LatestRevision(i)' = LatestRevision(i) /\ observed'[i] = observed[i]
          BY <1>0, <2>2, <3>1 DEF Heartbeat, TypeOK, ClaimRow, LatestRevision
        <4> QED
          BY <1>0, <4>1, RunnerOvertakesSnapshot
      <3>2. CASE i # j
        BY <1>0, <1>1, <2>2, <3>2 DEF Heartbeat, Touch, TypeOK
      <3> QED
        BY <3>1, <3>2
    <2>3. ASSUME NEW t \in Times, AuthorizeLaunch(c, j, claim, t, outcome)
          PROVE  SnapshotShowsActivity(i)'
      BY <1>1, <2>3 DEF AuthorizeLaunch
    <2>4. ASSUME NEW e, RecordRevision(j, e), Touch(j), UNCHANGED <<claims, observed>>
          PROVE  SnapshotShowsActivity(i)'
      <3>1. CASE i = j
        <4>1. LatestRevision(i)' = LatestRevision(i) + 1
          BY <1>0, <2>4, <3>1, RevisionRecorded
        <4> QED
          BY <1>0, <2>4, <4>1, RunnerOvertakesSnapshot
      <3>2. CASE i # j
        BY <1>0, <1>1, <2>4, <3>2, RevisionRecorded DEF Touch, TypeOK
      <3> QED
        BY <3>1, <3>2
    <2>5. ASSUME NEW t \in Times, SuppressLaunch(c, j, claim, t, outcome)
          PROVE  SnapshotShowsActivity(i)'
      BY <2>4, <2>5 DEF SuppressLaunch
    <2>6. ASSUME NEW n, NEW input, PublishResult(c, j, claim, n, input, outcome)
          PROVE  SnapshotShowsActivity(i)'
      BY <2>4, <2>6 DEF PublishResult
    <2> QED
      BY <1>4, <2>1, <2>2, <2>3, <2>5, <2>6 DEF RunnerStep
  <1>5. CASE UNCHANGED <<tables, observed, history>>
    BY <1>1, <1>5 DEF tables, history
  <1> QED
    BY <1>2, <1>3, <1>4, <1>5 DEF Next, FailedCommit, Reopen, vars

\* Before anything happened, nothing happened since the snapshot.
LEMMA SnapshotInit == Init => SnapshotInv
  <1> SUFFICES ASSUME Init, NEW j \in JobIds PROVE SnapshotShowsActivity(j)
    BY ColumnInit DEF SnapshotInv
  <1> QED
    BY DEF Init, SnapshotShowsActivity, NotAhead, NoClaim, LatestRevision

\* Only a snapshot that nothing overtook is published as a witness.
LEMMA WitnessIsCurrent ==
    ASSUME SnapshotInv, Next, NEW i \in JobIds, witnesses'[i] # witnesses[i]
    PROVE  ~touched[i]
  <1>1. TypeOK /\ SnapshotShowsActivity(i)
    BY DEF SnapshotInv, ColumnInv
  <1>2. \E c \in Connections, j \in JobIds, outcome \in Outcomes :
            PublishUncertainResult(c, j, outcome)
    <2>1. ASSUME NEW c \in Connections, NEW j \in JobIds, NEW outcome \in Outcomes,
                 OwnerStep(c, j, outcome)
          PROVE  PublishUncertainResult(c, j, outcome)
      BY <2>1 DEF OwnerStep, Reserve, ReplayReservation, RequestCancellation,
                  AcknowledgeNotice, tables
    <2>2. ASSUME NEW c, NEW j, NEW claim, NEW outcome, RunnerStep(c, j, claim, outcome)
          PROVE  FALSE
      BY <2>2 DEF RunnerStep, ClaimRunner, Heartbeat, AuthorizeLaunch,
                  SuppressLaunch, PublishResult
    <2> QED
      BY <2>1, <2>2 DEF Next, FailedCommit, Reopen, ObserveJob, tables
  <1>3. PICK c \in Connections, j \in JobIds, outcome \in Outcomes :
            PublishUncertainResult(c, j, outcome)
    BY <1>2
  <1>4. i = j
    BY <1>1, <1>3 DEF PublishUncertainResult, TypeOK
  <1> QED
    BY <1>1, <1>3, <1>4 DEF PublishUncertainResult, SnapshotShowsActivity

\* The reconciler never marks a job uncertain when its runner claimed, beat or
\* published after the observation it acts on (publishUncertainResult's
\* comparison of revision, claim and counter in one transaction).
THEOREM UncertaintyOnlyWhenIdleAlways == Spec => UncertaintyOnlyWhenIdle
  <1>1. SnapshotInv /\ [Next]_vars
            => [\A j \in JobIds : witnesses'[j] # witnesses[j] => ~touched[j]]_vars
    BY WitnessIsCurrent
  <1> QED
    BY <1>1, SnapshotInit, SnapshotStep, PTL DEF Spec, UncertaintyOnlyWhenIdle

-----------------------------------------------------------------------------
(* What the witnesses say *)

\* The evidence of a job at one of its revisions.
EvidenceAt(j, n) == IF n = 0 THEN InitialEvidence ELSE results[j][n]

Explains(j, w) ==
    /\ w.revision + 1 \in DOMAIN results[j]
    /\ results[j][w.revision + 1] = [EvidenceAt(j, w.revision) EXCEPT !.uncertain = TRUE]

Distinguished(j) ==
    \A v, w \in witnesses[j] :
        v # w => /\ v.revision # w.revision
                 /\ v.claimId # w.claimId \/ v.counter # w.counter

Explained(j) == Distinguished(j) /\ \A w \in witnesses[j] : Explains(j, w)

WitnessInv == TypeOK /\ \A j \in JobIds : Explained(j)

\* Revisions that are added leave what a witness explains as it was.
LEMMA ExplanationStands ==
    ASSUME TypeOK, NEW j \in JobIds, Explained(j), witnesses'[j] = witnesses[j],
           DOMAIN results[j] \subseteq DOMAIN results'[j],
           \A n \in DOMAIN results[j] : results'[j][n] = results[j][n]
    PROVE  Explained(j)'
  <1>1. DOMAIN results[j] = 1 .. Len(results[j]) /\ Len(results[j]) \in Nat
    BY DEF TypeOK
  <1>2. ASSUME NEW w \in witnesses[j] PROVE Explains(j, w)'
    <2>1. Explains(j, w) /\ w.revision \in Nat
      BY SnapshotNumbers DEF Explained
    <2>2. w.revision = 0 \/ w.revision \in DOMAIN results[j]
      BY <1>1, <2>1 DEF Explains
    <2> QED
      BY <2>1, <2>2 DEF Explains, EvidenceAt
  <1> QED
    BY <1>2 DEF Explained, Distinguished

\* The latest evidence is the evidence at the latest revision.
LEMMA LatestIsLast ==
    ASSUME TypeOK, NEW j \in JobIds
    PROVE  Latest(j) = EvidenceAt(j, LatestRevision(j))
  <1>1. results[j] \in Seq(ExecutionEvidence)
    BY DEF TypeOK
  <1>2. results[j] = << >> <=> Len(results[j]) = 0
    BY <1>1, EmptySeq
  <1> QED
    BY <1>2 DEF Latest, EvidenceAt, LatestRevision

\* To merge no observation is to repeat the evidence.
LEMMA NothingObserved ==
    ASSUME NEW e \in ExecutionEvidence, ~e.finalized
    PROVE  MergeEvidence(e, NoObservation, TRUE, FALSE) = [e EXCEPT !.uncertain = TRUE]
  <1>1. \A key, default : Given(NoObservation, key, default) = default
    BY DEF Given, NoObservation
  <1>2. ASSUME NEW s \in StreamFacts PROVE MergeStream(s, NoObservation) = s
    <2>1. s = [available |-> s.available, truncated |-> s.truncated,
               incomplete |-> s.incomplete, openAtCutover |-> s.openAtCutover]
          /\ s.truncated \in BOOLEAN
      BY DEF StreamFacts
    <2> QED
      BY <1>1, <2>1 DEF MergeStream
  <1>3. e.stdout \in StreamFacts /\ e.stderr \in StreamFacts
    BY DEF ExecutionEvidence
  <1>4. MergeStream(e.stdout, NoObservation) = e.stdout
        /\ MergeStream(e.stderr, NoObservation) = e.stderr
    BY <1>2, <1>3
  <1>5. /\ e.cleanupKillIntentObserved \in BOOLEAN
        /\ e.cancellationIntentObserved \in BOOLEAN
        /\ e.deadlineTriggerObserved \in BOOLEAN /\ e.finalized = FALSE
    BY DEF ExecutionEvidence
  <1> DEFINE m == MergeEvidence(e, NoObservation, TRUE, FALSE)
  <1>6. m = [launch |-> e.launch, shellCode |-> e.shellCode,
             shellSignal |-> e.shellSignal, cleanupState |-> e.cleanupState,
             cleanupTermObservation |-> e.cleanupTermObservation,
             cleanupKillIntentObserved |-> e.cleanupKillIntentObserved,
             cancellationIntentObserved |-> e.cancellationIntentObserved,
             deadlineTriggerObserved |-> e.deadlineTriggerObserved,
             stdout |-> e.stdout, stderr |-> e.stderr,
             uncertain |-> TRUE, finalized |-> e.finalized]
    BY <1>1, <1>4, <1>5 DEF MergeEvidence
  <1> HIDE DEF m
  <1> DEFINE u == [e EXCEPT !.uncertain = TRUE]
  <1>7. /\ u \in ExecutionEvidence /\ u.uncertain = TRUE
        /\ \A f \in {"launch", "shellCode", "shellSignal", "cleanupState",
                     "cleanupTermObservation", "cleanupKillIntentObserved",
                     "cancellationIntentObserved", "deadlineTriggerObserved",
                     "stdout", "stderr", "finalized"} : u[f] = e[f]
    BY DEF ExecutionEvidence
  <1> HIDE DEF u
  <1>8. m = u
    BY <1>6, <1>7 DEF ExecutionEvidence
  <1> QED
    BY <1>8 DEF m, u

\* A witness that is added explains the revision that is added with it, and no
\* other witness has seen the same.
LEMMA NewWitnessExplains ==
    ASSUME WitnessInv, NEW c, NEW j \in JobIds, NEW outcome,
           PublishUncertainResult(c, j, outcome)
    PROVE  Explained(j)' /\ \A i \in JobIds \ {j} : Explained(i)'
  <1> DEFINE new == observed[j]
             e == MergeEvidence(Latest(j), NoObservation, TRUE, FALSE)
  <1>1. /\ TypeOK /\ Explained(j) /\ results[j] \in Seq(ExecutionEvidence)
        /\ Latest(j) \in ExecutionEvidence /\ LatestRevision(j) \in Nat
    BY LatestType, SnapshotNumbers DEF WitnessInv, TypeOK
  <1>2. /\ new.revision = LatestRevision(j)
        /\ witnesses'[j] = witnesses[j] \cup {new}
        /\ ~AlreadyWitnessed(j, new) /\ ~Latest(j).finalized
        /\ RecordRevision(j, e)
    BY <1>1 DEF PublishUncertainResult, WitnessMatches, Terminal, Finalized, TypeOK
  <1>3. e = [EvidenceAt(j, LatestRevision(j)) EXCEPT !.uncertain = TRUE]
    BY <1>1, <1>2, NothingObserved, LatestIsLast
  <1>4. e \in ExecutionEvidence
    BY <1>1, NoObservationValid, MergeEvidenceType
  <1>5. /\ \A n \in DOMAIN results[j] : results'[j][n] = results[j][n]
        /\ DOMAIN results'[j] = DOMAIN results[j] \cup {LatestRevision(j) + 1}
        /\ results'[j][LatestRevision(j) + 1] = e
        /\ \A i \in JobIds \ {j} : results'[i] = results[i]
    <2> HIDE DEF e
    <2> QED
      BY <1>1, <1>2, <1>4, AppendedRevision DEF LatestRevision
  <1>6. DOMAIN results[j] = 1 .. LatestRevision(j)
    BY <1>1 DEF LatestRevision
  <1> HIDE DEF new, e
  <1>7. ASSUME NEW w \in witnesses[j]
        PROVE  /\ Explains(j, w)' /\ w.revision < new.revision
               /\ w.claimId # new.claimId \/ w.counter # new.counter
    <2>1. Explains(j, w) /\ w.revision \in Nat
      BY <1>1, SnapshotNumbers DEF Explained
    <2>2. w.revision + 1 \in 1 .. LatestRevision(j)
      BY <1>6, <2>1 DEF Explains
    <2>3. w.revision = 0 \/ w.revision \in DOMAIN results[j]
      BY <1>1, <1>6, <2>1, <2>2
    <2>4. EvidenceAt(j, w.revision)' = EvidenceAt(j, w.revision)
      BY <1>5, <2>3 DEF EvidenceAt
    <2>5. Explains(j, w)'
      BY <1>5, <2>1, <2>4 DEF Explains
    <2> QED
      BY <1>1, <1>2, <2>1, <2>2, <2>5 DEF AlreadyWitnessed
  <1>8. ASSUME NEW w, w = new PROVE Explains(j, w)'
    <2>1. w.revision = LatestRevision(j) /\ LatestRevision(j) \in Nat
      BY <1>1, <1>2, <1>8
    <2>2. w.revision = 0 \/ w.revision \in DOMAIN results[j]
      BY <1>6, <2>1
    <2>3. EvidenceAt(j, w.revision)' = EvidenceAt(j, w.revision)
      BY <1>5, <2>2 DEF EvidenceAt
    <2> QED
      BY <1>3, <1>5, <2>1, <2>3 DEF Explains
  <1>9. Distinguished(j)'
    <2>1. Distinguished(j)
      BY <1>1 DEF Explained
    <2>2. ASSUME NEW v \in witnesses'[j], NEW w \in witnesses'[j], v # w
          PROVE  /\ v.revision # w.revision
                 /\ v.claimId # w.claimId \/ v.counter # w.counter
      <3>1. CASE v \in witnesses[j] /\ w \in witnesses[j]
        BY <2>1, <2>2, <3>1 DEF Distinguished
      <3>2. CASE v \in witnesses[j] /\ w = new
        BY <1>1, <1>2, <1>7, <3>2, SnapshotNumbers
      <3>3. CASE v = new /\ w \in witnesses[j]
        BY <1>1, <1>2, <1>7, <3>3, SnapshotNumbers
      <3> QED
        BY <1>2, <2>2, <3>1, <3>2, <3>3
    <2> QED
      BY <2>2 DEF Distinguished
  <1>10. Explained(j)'
    <2>1. \A w \in witnesses'[j] : Explains(j, w)'
      BY <1>2, <1>7, <1>8
    <2> QED
      BY <1>9, <2>1 DEF Explained
  <1>11. ASSUME NEW i \in JobIds \ {j} PROVE Explained(i)'
    <2>1. witnesses'[i] = witnesses[i] /\ Explained(i)
      BY <1>1, <1>11 DEF PublishUncertainResult, TypeOK, WitnessInv
    <2> QED
      BY <1>1, <1>5, <2>1, ExplanationStands
  <1> QED
    BY <1>10, <1>11

\* Each operation of the store leaves every witness explained.
LEMMA WitnessStep == WitnessInv /\ [Next]_vars => WitnessInv'
  <1> SUFFICES ASSUME WitnessInv, [Next]_vars, NEW i \in JobIds PROVE Explained(i)'
    BY TypeStep DEF WitnessInv
  <1>0. TypeOK /\ Explained(i)
    BY DEF WitnessInv
  <1>1. ASSUME UNCHANGED <<results, witnesses>> PROVE Explained(i)'
    BY <1>0, <1>1, ExplanationStands
  <1>2. ASSUME NEW j \in JobIds, NEW e \in ExecutionEvidence, RecordRevision(j, e),
               UNCHANGED witnesses
        PROVE  Explained(i)'
    BY <1>0, <1>2, AppendedRevision, ExplanationStands
  <1>3. ASSUME NEW c \in Connections, NEW j \in JobIds, NEW outcome \in Outcomes,
               OwnerStep(c, j, outcome)
        PROVE  Explained(i)'
    <2>1. ASSUME PublishUncertainResult(c, j, outcome) PROVE Explained(i)'
      BY <2>1, NewWitnessExplains
    <2>2. CASE UNCHANGED <<results, witnesses>>
      BY <1>1, <2>2
    <2> QED
      BY <1>3, <2>1, <2>2
         DEF OwnerStep, Reserve, ReplayReservation, RequestCancellation,
             AcknowledgeNotice, tables
  <1>4. ASSUME NEW c \in Connections, NEW j \in JobIds, NEW outcome \in Outcomes,
               NEW claim \in ClaimIds, RunnerStep(c, j, claim, outcome)
        PROVE  Explained(i)'
    <2>1. ASSUME NEW t \in Times, SuppressLaunch(c, j, claim, t, outcome)
          PROVE  Explained(i)'
      <3>1. Suppression(j, t) \in SuppressedLaunch
        BY <2>1 DEF SuppressLaunch, Suppression, SuppressedLaunch
      <3>2. MergeEvidence(Latest(j), SuppressionEvidence(Suppression(j, t)), FALSE, TRUE)
              \in ExecutionEvidence
        BY <1>0, <3>1, LatestType, SuppressionEvidenceValid, MergeEvidenceType
      <3> QED
        BY <1>2, <2>1, <3>2 DEF SuppressLaunch
    <2>2. ASSUME NEW n \in 0 .. MaxRevision, NEW input \in EvidenceInputs,
                 PublishResult(c, j, claim, n, input, outcome)
          PROVE  Explained(i)'
      <3> DEFINE f == Given(input, "finalized", FALSE)
      <3>1. ValidEvidenceInput(input) /\ f \in BOOLEAN /\ (~f) \in BOOLEAN
        BY InputsAreRunnerInputs DEF ValidEvidenceInput
      <3>2. MergeEvidence(Latest(j), input, ~f, f) \in ExecutionEvidence
        BY <1>0, <3>1, LatestType, MergeEvidenceType
      <3>3. RecordRevision(j, MergeEvidence(Latest(j), input, ~f, f)) /\ UNCHANGED witnesses
        BY <2>2 DEF PublishResult
      <3> QED
        BY <1>2, <3>2, <3>3
    <2>3. CASE UNCHANGED <<results, witnesses>>
      BY <1>1, <2>3
    <2> QED
      BY <1>4, <2>1, <2>2, <2>3 DEF RunnerStep, ClaimRunner, Heartbeat, AuthorizeLaunch
  <1>5. CASE UNCHANGED <<results, witnesses>>
    BY <1>1, <1>5
  <1> QED
    BY <1>3, <1>4, <1>5 DEF Next, FailedCommit, Reopen, ObserveJob, tables, vars

\* An empty store has no witnesses.
LEMMA WitnessInit == Init => WitnessInv
  <1> SUFFICES ASSUME Init, NEW j \in JobIds PROVE Explained(j)
    BY TypeInit DEF WitnessInv
  <1> QED
    BY DEF Init, Explained, Distinguished

\* Each stale witness produced exactly one revision, which says no more than the
\* revision before it, and no two witnesses saw the same claim and counter,
\* however many reconcilers race and repeat themselves (publishUncertainResult).
THEOREM WitnessesExplainUncertaintyAlways == Spec => []WitnessesExplainUncertainty
  <1>1. WitnessInv => WitnessesExplainUncertainty
    <2> SUFFICES ASSUME WitnessInv, NEW j \in JobIds, NEW w \in witnesses[j]
                 PROVE  /\ Explains(j, w)
                        /\ \A v \in witnesses[j] \ {w} :
                              /\ v.revision # w.revision
                              /\ v.claimId # w.claimId \/ v.counter # w.counter
      BY DEF WitnessesExplainUncertainty, Explains, EvidenceAt
    <2> QED
      BY DEF WitnessInv, Explained, Distinguished
  <1> QED
    BY <1>1, WitnessInit, WitnessStep, PTL DEF Spec

-----------------------------------------------------------------------------
(***************************************************************************)
(* The store implements LaunchAuthority.                                   *)
(***************************************************************************)

AVerdict   == [j \in JobIds |-> Verdict(j)]
ACancelled == [j \in JobIds |-> control[j].cancellationRequestedAt # Null]
AOutcome   == [j \in JobIds |-> Ending(j)]

\* A step that leaves alone what the mapping reads is a stutter of the authority.
LEMMA StutterStep ==
    ASSUME grants' = grants,
           \A i \in JobIds : /\ Verdict(i)' = Verdict(i)
                             /\ control'[i].cancellationRequestedAt
                                  = control[i].cancellationRequestedAt
                             /\ Ending(i)' = Ending(i)
    PROVE  UNCHANGED Authority!vars
  <1>1. AVerdict' = AVerdict /\ ACancelled' = ACancelled /\ AOutcome' = AOutcome
    BY DEF AVerdict, ACancelled, AOutcome
  <1> QED
    BY <1>1 DEF Authority!vars, AVerdict, ACancelled, AOutcome

\* The verdict is a function of the control row.
LEMMA SameControlSameVerdict ==
    ASSUME NEW i \in JobIds, control'[i].launchDecision = control[i].launchDecision
    PROVE  Verdict(i)' = Verdict(i)
  BY DEF Verdict

\* How a job ended is a function of its state and revisions.
LEMMA SameRowsSameEnding ==
    ASSUME NEW i \in JobIds, jobs'[i].state = jobs[i].state,
           jobs[i].state = "settled" => results'[i] = results[i]
    PROVE  Ending(i)' = Ending(i)
  BY DEF Ending, Latest

\* Every step of the store is a step of the launch authority or a stutter.
LEMMA AuthorityStep ==
    LedgerInv /\ [Next]_vars => [Authority!Next]_Authority!vars
  <1> SUFFICES ASSUME LedgerInv, [Next]_vars
               PROVE  Authority!Next \/ UNCHANGED Authority!vars
    OBVIOUS
  <1>0. TypeOK /\ \A i \in JobIds : Ledger(i)
    BY DEF LedgerInv
  <1>1. ASSUME UNCHANGED <<jobs, control, results, grants>>
        PROVE  UNCHANGED Authority!vars
    BY <1>1, StutterStep, SameControlSameVerdict, SameRowsSameEnding
  <1>2. ASSUME NEW c \in Connections, NEW j \in JobIds, NEW outcome \in Outcomes,
               OwnerStep(c, j, outcome)
        PROVE  Authority!Next \/ UNCHANGED Authority!vars
    <2>1. ASSUME NEW o \in Owners, NEW k \in RequestKeys, NEW cmd \in Commands,
                 NEW t \in Times, Reserve(c, o, k, cmd, j, t, outcome)
          PROVE  UNCHANGED Authority!vars
      <3>1. control[j] = NewControl
        BY <1>0, <2>1 DEF Reserve, Known, Ledger, NoRowNoHistory
      <3>2. control' = control /\ grants' = grants /\ results' = results
        BY <1>0, <2>1, <3>1 DEF Reserve, TypeOK
      <3>3. \A i \in JobIds : Ending(i)' = Ending(i)
        <4>1. /\ Ending(j) = "open" /\ Ending(j)' = "open"
              /\ \A i \in JobIds \ {j} : jobs'[i] = jobs[i]
          BY <1>0, <2>1 DEF Reserve, Known, TypeOK, Ending
        <4> QED
          BY <3>2, <4>1, SameRowsSameEnding
      <3> QED
        BY <3>2, <3>3, StutterStep, SameControlSameVerdict
    <2>2. ASSUME NEW o, NEW k, NEW cmd, ReplayReservation(c, o, k, cmd, j, outcome)
          PROVE  UNCHANGED Authority!vars
      BY <1>1, <2>2 DEF ReplayReservation, tables, history
    <2>3. ASSUME NEW t \in Times, RequestCancellation(c, j, t, outcome)
          PROVE  Authority!Cancel(j)
      <3>1. /\ control' = [control EXCEPT ![j].cancellationRequestedAt = t]
            /\ UNCHANGED <<jobs, results, grants>> /\ jobs[j].state # "settled"
        BY <2>3 DEF RequestCancellation, Terminal, history
      <3>2. /\ control'[j].cancellationRequestedAt = t
            /\ \A i \in JobIds : control'[i].launchDecision = control[i].launchDecision
            /\ \A i \in JobIds \ {j} : control'[i] = control[i]
        BY <1>0, <3>1 DEF TypeOK, ControlRow
      <3>3. AVerdict' = AVerdict /\ AOutcome' = AOutcome
        BY <3>1, <3>2, SameControlSameVerdict, SameRowsSameEnding
           DEF AVerdict, AOutcome
      <3>4. ACancelled' = [ACancelled EXCEPT ![j] = TRUE]
        BY <3>2, ConstantsAreSound DEF ACancelled
      <3>5. AOutcome[j] = "open"
        BY <3>1 DEF AOutcome, Ending
      <3> QED
        BY <3>1, <3>3, <3>4, <3>5
           DEF Authority!Cancel, AVerdict, ACancelled, AOutcome
    <2>4. ASSUME PublishUncertainResult(c, j, outcome)
          PROVE  UNCHANGED Authority!vars
      <3> DEFINE e == MergeEvidence(Latest(j), NoObservation, TRUE, FALSE)
      <3>1. /\ RecordRevision(j, e) /\ UNCHANGED <<jobs, control, grants>>
            /\ jobs[j].state # "settled"
        BY <2>4 DEF PublishUncertainResult, Terminal, history
      <3>2. \A i \in JobIds \ {j} : results'[i] = results[i]
        BY <1>0, <3>1 DEF RecordRevision, TypeOK
      <3> QED
        BY <3>1, <3>2, StutterStep, SameControlSameVerdict, SameRowsSameEnding
    <2>5. ASSUME NEW revision, AcknowledgeNotice(c, j, revision, outcome)
          PROVE  UNCHANGED Authority!vars
      BY <1>1, <2>5 DEF AcknowledgeNotice, history
    <2>6. Authority!Cancel(j) => Authority!Next
      BY DEF Authority!Next
    <2> QED
      BY <1>2, <2>1, <2>2, <2>3, <2>4, <2>5, <2>6 DEF OwnerStep
  <1>3. ASSUME NEW c \in Connections, NEW j \in JobIds, NEW outcome \in Outcomes,
               NEW claim \in ClaimIds, RunnerStep(c, j, claim, outcome)
        PROVE  Authority!Next \/ UNCHANGED Authority!vars
    <2>1. ASSUME ClaimRunner(c, j, claim, outcome) PROVE UNCHANGED Authority!vars
      <3>1. UNCHANGED <<control, results, grants>>
        BY <2>1 DEF ClaimRunner
      <3>2. \A i \in JobIds : Ending(i)' = Ending(i)
        <4>1. /\ Ending(j) = "open" /\ Ending(j)' = "open"
              /\ \A i \in JobIds \ {j} : jobs'[i] = jobs[i]
          BY <1>0, <2>1 DEF ClaimRunner, Unclaimed, TypeOK, JobRow, Ending
        <4> QED
          BY <3>1, <4>1, SameRowsSameEnding
      <3> QED
        BY <3>1, <3>2, StutterStep, SameControlSameVerdict
    <2>2. ASSUME NEW n, Heartbeat(c, j, claim, n, outcome)
          PROVE  UNCHANGED Authority!vars
      BY <1>1, <2>2 DEF Heartbeat
    <2>3. ASSUME NEW t \in Times, AuthorizeLaunch(c, j, claim, t, outcome)
          PROVE  Authority!Authorize(j)
      <3>1. /\ control[j].launchDecision = Null
            /\ control[j].cancellationRequestedAt = Null
            /\ jobs[j].state # "settled"
            /\ control' = [control EXCEPT ![j].launchDecision = "authorized",
                                          ![j].decidedAt = t]
            /\ UNCHANGED <<jobs, results>>
            /\ grants' = IF outcome = "returned"
                         THEN [grants EXCEPT ![j] = @ + 1] ELSE grants
        BY <2>3, ConstantsAreSound
           DEF AuthorizeLaunch, MayDecide, DecisionPrecluded, Suppression, Decide,
               SuppressedLaunch
      <3>2. /\ control'[j].launchDecision = "authorized"
            /\ \A i \in JobIds : control'[i].cancellationRequestedAt
                                   = control[i].cancellationRequestedAt
            /\ \A i \in JobIds \ {j} : control'[i] = control[i]
        BY <1>0, <3>1 DEF TypeOK, ControlRow
      <3>3. AOutcome' = AOutcome /\ ACancelled' = ACancelled
        BY <3>1, <3>2, SameRowsSameEnding DEF AOutcome, ACancelled
      <3>4. AVerdict' = [AVerdict EXCEPT ![j] = "authorized"]
        BY <3>2, SameControlSameVerdict, ConstantsAreSound DEF AVerdict, Verdict
      <3>5. AOutcome[j] = "open" /\ AVerdict[j] = "undecided" /\ ~ACancelled[j]
        BY <3>1 DEF AOutcome, Ending, AVerdict, Verdict, ACancelled
      <3>6. \E n \in {0, 1} : grants' = [grants EXCEPT ![j] = @ + n]
        <4>1. CASE outcome = "returned"
          BY <3>1, <4>1
        <4>2. CASE outcome # "returned"
          BY <1>0, <3>1, <4>2 DEF TypeOK
        <4> QED
          BY <4>1, <4>2
      <3> QED
        BY <3>3, <3>4, <3>5, <3>6
           DEF Authority!Authorize, AVerdict, ACancelled, AOutcome
    <2>4. ASSUME NEW t \in Times, SuppressLaunch(c, j, claim, t, outcome)
          PROVE  Authority!Refuse(j)
      <3> DEFINE s == Suppression(j, t)
                 e == MergeEvidence(Latest(j), SuppressionEvidence(s), FALSE, TRUE)
      <3>1. s \in SuppressedLaunch
        BY <2>4 DEF SuppressLaunch, Suppression, SuppressedLaunch
      <3>2. e \in ExecutionEvidence /\ e.launch = s
        <4>1. e \in ExecutionEvidence
          BY <1>0, <3>1, LatestType, SuppressionEvidenceValid, MergeEvidenceType
        <4>2. e.launch = s
          BY DEF MergeEvidence, SuppressionEvidence, Given
        <4> QED
          BY <4>1, <4>2
      <3>3. /\ RecordRevision(j, e) /\ UNCHANGED grants
            /\ control[j].launchDecision = Null /\ jobs[j].state # "settled"
        BY <2>4 DEF SuppressLaunch, MayDecide, DecisionPrecluded
      <3>4. /\ jobs'[j].state = "settled" /\ control'[j].launchDecision = s
            /\ \A i \in JobIds : control'[i].cancellationRequestedAt
                                   = control[i].cancellationRequestedAt
            /\ \A i \in JobIds \ {j} : jobs'[i] = jobs[i] /\ control'[i] = control[i]
        BY <1>0, <2>4 DEF SuppressLaunch, Decide, TypeOK, JobRow, ControlRow
      <3>5. /\ Latest(j)' = e
            /\ \A i \in JobIds \ {j} : results'[i] = results[i]
        BY <1>0, <3>2, <3>3, AppendedRevision
      <3> HIDE DEF e, s
      <3>6. ACancelled' = ACancelled
        BY <3>4 DEF ACancelled
      <3>7. AVerdict' = [AVerdict EXCEPT ![j] = "refused"]
        <4>1. Verdict(j)' = "refused"
          BY <3>1, <3>4, ConstantsAreSound DEF Verdict, SuppressedLaunch
        <4> QED
          BY <3>4, <4>1, SameControlSameVerdict DEF AVerdict
      <3>8. AOutcome' = [AOutcome EXCEPT ![j] = "refused"]
        <4>1. Ending(j)' = "refused"
          BY <3>1, <3>2, <3>4, <3>5 DEF Ending
        <4> QED
          BY <3>4, <3>5, <4>1, SameRowsSameEnding DEF AOutcome
      <3>9. AOutcome[j] = "open" /\ AVerdict[j] = "undecided"
        BY <3>3 DEF AOutcome, Ending, AVerdict, Verdict
      <3> QED
        BY <3>3, <3>6, <3>7, <3>8, <3>9
           DEF Authority!Refuse, AVerdict, ACancelled, AOutcome
    <2>5. ASSUME NEW n \in 0 .. MaxRevision, NEW input \in EvidenceInputs,
                 PublishResult(c, j, claim, n, input, outcome)
          PROVE  Authority!Report(j) \/ UNCHANGED Authority!vars
      <3> DEFINE f == Given(input, "finalized", FALSE)
                 e == MergeEvidence(Latest(j), input, ~f, f)
      <3>1. ValidEvidenceInput(input) /\ f \in BOOLEAN /\ (~f) \in BOOLEAN
        BY InputsAreRunnerInputs DEF ValidEvidenceInput
      <3>2. e \in ExecutionEvidence
        BY <1>0, <3>1, LatestType, MergeEvidenceType
      <3>3. RecordRevision(j, e) /\ ~Finalized(j) /\ UNCHANGED <<control, grants>>
        BY <2>5 DEF PublishResult, MayPublish
      <3>4. e.launch \notin SuppressedLaunch
        BY <3>3, OpenIsNoRefusal, MergedLaunch
      <3>5. /\ IF f THEN jobs'[j].state = "settled" ELSE jobs'[j] = jobs[j]
            /\ \A i \in JobIds \ {j} : jobs'[i] = jobs[i]
        BY <1>0, <2>5 DEF PublishResult, TypeOK, JobRow
      <3>6. jobs[j].state # "settled"
        BY <1>0, <3>3 DEF Ledger, SettledByFinalRevision
      <3>7. /\ Latest(j)' = e
            /\ \A i \in JobIds \ {j} : results'[i] = results[i]
        BY <1>0, <3>2, <3>3, AppendedRevision
      <3> HIDE DEF e, f
      <3>8. CASE f
        <4>1. AVerdict' = AVerdict /\ ACancelled' = ACancelled
          BY <3>3, SameControlSameVerdict DEF AVerdict, ACancelled
        <4>2. Ending(j)' = "reported"
          BY <3>4, <3>5, <3>7, <3>8 DEF Ending
        <4>3. AOutcome' = [AOutcome EXCEPT ![j] = "reported"]
          BY <3>5, <3>7, <4>2, SameRowsSameEnding DEF AOutcome
        <4>4. AOutcome[j] = "open"
          BY <3>6 DEF AOutcome, Ending
        <4> QED
          BY <3>3, <4>1, <4>3, <4>4
             DEF Authority!Report, AVerdict, ACancelled, AOutcome
      <3>9. CASE ~f
        BY <3>3, <3>5, <3>6, <3>7, <3>9, StutterStep, SameControlSameVerdict,
           SameRowsSameEnding
      <3> QED
        BY <3>1, <3>8, <3>9
    <2>6. /\ Authority!Authorize(j) => Authority!Next
          /\ Authority!Refuse(j) => Authority!Next
          /\ Authority!Report(j) => Authority!Next
      BY DEF Authority!Next
    <2> QED
      BY <1>3, <2>1, <2>2, <2>3, <2>4, <2>5, <2>6 DEF RunnerStep
  <1>4. ASSUME NEW c \in Connections, FailedCommit(c) \/ Reopen(c)
        PROVE  UNCHANGED Authority!vars
    BY <1>1, <1>4 DEF FailedCommit, Reopen, tables, history
  <1>5. ASSUME NEW j \in JobIds, ObserveJob(j) PROVE UNCHANGED Authority!vars
    BY <1>1, <1>5 DEF ObserveJob, tables
  <1>6. CASE UNCHANGED vars
    BY <1>1, <1>6 DEF vars, tables, history
  <1> QED
    BY <1>2, <1>3, <1>4, <1>5, <1>6 DEF Next

\* An empty store is an authority that has decided nothing.
LEMMA AuthorityInit == Init => Authority!Init
  <1> SUFFICES ASSUME Init PROVE Authority!Init
    OBVIOUS
  <1>1. \A j \in JobIds : /\ Verdict(j) = "undecided" /\ Ending(j) = "open"
                          /\ ~(control[j].cancellationRequestedAt # Null)
    BY DEF Init, Verdict, Ending, NewControl, NoJob
  <1>2. /\ AVerdict = [j \in JobIds |-> "undecided"]
        /\ AOutcome = [j \in JobIds |-> "open"]
        /\ ACancelled = [j \in JobIds |-> FALSE]
    BY <1>1 DEF AVerdict, AOutcome, ACancelled
  <1> QED
    BY <1>2 DEF Init, Authority!Init, AVerdict, AOutcome, ACancelled

\* Everything the launch authority promises, the store delivers: at most one
\* grant, only in the deciding step, never after a cancellation that came first,
\* and refusals settled in the same transaction.
THEOREM StoreImplementsAuthority == Spec => ImplementsLaunchAuthority
  <1>1. Init => Authority!Init
    BY AuthorityInit
  <1>2. LedgerInv /\ [Next]_vars => [Authority!Next]_Authority!vars
    BY AuthorityStep
  <1> QED
    BY <1>1, <1>2, LedgerAlways, PTL DEF Spec, ImplementsLaunchAuthority, Authority!Spec
=============================================================================
