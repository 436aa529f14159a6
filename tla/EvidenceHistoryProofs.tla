------------------------ MODULE EvidenceHistoryProofs ------------------------
(* The invariants of EvidenceHistory, for every set of observations. *)
EXTENDS EvidenceHistory, EvidenceProofs

\* The initial snapshot is a coherent one.
LEMMA EvidenceOKInit == Init => EvidenceOK
  BY InitialEvidenceType DEF Init, EvidenceOK

\* An accepted observation keeps the snapshot coherent.
LEMMA EvidenceOKStep == EvidenceOK /\ [Next]_evidence => EvidenceOK'
  <1> SUFFICES ASSUME EvidenceOK, [Next]_evidence PROVE EvidenceOK'
    OBVIOUS
  <1>1. ASSUME NEW o \in Observations, Observe(o) PROVE EvidenceOK'
    BY <1>1, ObservationsAreValid, MergeEvidenceType, MergePreservesCoherence
       DEF Observe, EvidenceOK
  <1>2. CASE UNCHANGED evidence
    BY <1>2 DEF EvidenceOK
  <1> QED
    BY <1>1, <1>2 DEF Next

\* A job's evidence is coherent after any sequence of observations.
THEOREM EvidenceAlwaysOK == Spec => []EvidenceOK
  BY EvidenceOKInit, EvidenceOKStep, PTL DEF Spec

\* A stream observation that the merge rejects would have erased a fact.
LEMMA RejectedStreamErases ==
    ASSUME NEW f \in StreamFacts, NEW s, WellFormedStream(s),
           StreamContradicts(f, s)
    PROVE  ~StreamSurvives(f, MergeStream(f, s))
  <1>1. CASE f.available # Null /\ Given(s, "available", f.available) # f.available
    BY <1>1 DEF StreamSurvives, MergeStream
  <1>2. CASE f.incomplete /\ ~Given(s, "incomplete", TRUE)
    <2>1. ~Given(s, "incomplete", f.incomplete)
      BY <1>2 DEF Given
    <2> QED
      BY <1>2, <2>1 DEF StreamSurvives, MergeStream
  <1>3. CASE f.openAtCutover /\ ~Given(s, "openAtCutover", TRUE)
    <2>1. ~Given(s, "openAtCutover", f.openAtCutover)
      BY <1>3 DEF Given
    <2> QED
      BY <1>3, <2>1 DEF StreamSurvives, MergeStream
  <1> QED
    BY <1>1, <1>2, <1>3 DEF StreamContradicts

\* A cleanup transition that the merge rejects would have regressed, or would
\* have made the snapshot incoherent.
LEMMA RejectedCleanupErases ==
    ASSUME NEW prior \in ExecutionEvidence, NEW next \in ExecutionEvidence,
           Coherent(prior), Survives(prior, next), Coherent(next)
    PROVE  ~IllegalCleanup(prior, next)
  <1>1. prior.cleanupState \in CleanupStates /\ next.cleanupState \in CleanupStates
    BY DEF ExecutionEvidence
  <1>2. /\ CleanupOrder["not_required"] = 0 /\ CleanupOrder["not_requested"] = 1
        /\ CleanupOrder["pending"] = 2 /\ CleanupOrder["unconfirmed"] = 3
    BY DEF CleanupOrder
  <1>3. /\ prior.cleanupState = "not_required" => next.cleanupState = "not_required"
        /\ prior.cleanupState = "pending" =>
               next.cleanupState \in {"pending", "unconfirmed"}
        /\ prior.cleanupState = "unconfirmed" => next.cleanupState = "unconfirmed"
    BY DEF Survives
  <1>4. ASSUME NEW a \in CleanupStates, NEW b \in CleanupStates,
               b # "not_required", b # a,
               a = "not_required" => b = "not_required",
               a = "pending" => b \in {"pending", "unconfirmed"},
               a = "unconfirmed" => b = "unconfirmed"
        PROVE  ~(CleanupOrder[b] < CleanupOrder[a])
    BY <1>4 DEF CleanupStates, CleanupOrder
  <1>5. next.cleanupState # "not_required" /\ next.cleanupState # prior.cleanupState =>
            ~(CleanupOrder[next.cleanupState] < CleanupOrder[prior.cleanupState])
    BY <1>1, <1>3, <1>4
  <1>6. next.cleanupState = "not_required" =>
            /\ next.launch \in NonExecutionLaunch
            /\ next.cleanupTermObservation = Null
            /\ ~next.cleanupKillIntentObserved
    BY DEF Coherent
  <1>7. next.cleanupState = "not_required" =>
            prior.cleanupState \in {"not_required", "not_requested"}
    BY <1>1, <1>3 DEF CleanupStates
  <1> QED
    BY <1>3, <1>5, <1>6, <1>7 DEF IllegalCleanup

\* mergeEvidence rejects an observation if, and only if, accepting it would erase
\* an established fact or give an incoherent snapshot.
LEMMA RejectionIsContradiction ==
    ASSUME NEW prior \in ExecutionEvidence, Coherent(prior),
           NEW o, ValidEvidenceInput(o)
    PROVE  LET next == MergeEvidence(prior, o, TRUE, FALSE)
           IN  Contradicts(prior, o) <=> ~(Survives(prior, next) /\ Coherent(next))
  <1> DEFINE next == MergeEvidence(prior, o, TRUE, FALSE)
             out == Given(o, "stdout", NoObservation)
             err == Given(o, "stderr", NoObservation)
  <1>1. ~Contradicts(prior, o) => Survives(prior, next) /\ Coherent(next)
    BY MergePreservesFacts, MergePreservesCoherence
  <1>2. ASSUME Survives(prior, next), Coherent(next) PROVE ~Contradicts(prior, o)
    <2>1. next \in ExecutionEvidence
      BY MergeEvidenceType
    <2>2. ~ContradictsEstablished(prior, next)
      BY <1>2 DEF Survives, ContradictsEstablished
    <2>3. ~ContradictoryOutcome(next)
      BY <1>2 DEF Coherent, ContradictoryOutcome
    <2>4. ~IllegalCleanup(prior, next)
      BY <1>2, <2>1, RejectedCleanupErases
    <2>5. /\ prior.stdout \in StreamFacts /\ WellFormedStream(out)
          /\ prior.stderr \in StreamFacts /\ WellFormedStream(err)
      BY DEF ExecutionEvidence, ValidEvidenceInput
    <2>6. /\ StreamSurvives(prior.stdout, MergeStream(prior.stdout, out))
          /\ StreamSurvives(prior.stderr, MergeStream(prior.stderr, err))
      BY <1>2 DEF Survives, MergeEvidence
    <2>7. ~StreamContradicts(prior.stdout, out) /\ ~StreamContradicts(prior.stderr, err)
      BY <2>5, <2>6, RejectedStreamErases
    <2> QED
      BY <2>2, <2>3, <2>4, <2>7 DEF Contradicts
  <1> QED
    BY <1>1, <1>2

\* In every reachable state of a job's evidence, the merge rejects exactly the
\* contradictions.
THEOREM RejectsExactlyAlways == Spec => []RejectsExactlyContradictions
  <1>1. EvidenceOK => RejectsExactlyContradictions
    BY ObservationsAreValid, RejectionIsContradiction
       DEF EvidenceOK, RejectsExactlyContradictions
  <1> QED
    BY <1>1, EvidenceAlwaysOK, PTL

\* Merging the same stream observation again changes nothing, and contradicts
\* nothing.
LEMMA StreamMergeIdempotent ==
    ASSUME NEW f \in StreamFacts, NEW s, WellFormedStream(s),
           ~StreamContradicts(f, s)
    PROVE  /\ MergeStream(MergeStream(f, s), s) = MergeStream(f, s)
           /\ ~StreamContradicts(MergeStream(f, s), s)
  <1> DEFINE g == MergeStream(f, s)
  <1>1. MergeStream(g, s) = g
    BY DEF MergeStream, Given, StreamFacts, WellFormedStream
  <1>2. ~StreamContradicts(g, s)
    BY DEF StreamContradicts, MergeStream, Given, StreamFacts, WellFormedStream
  <1> QED
    BY <1>1, <1>2

\* Merging the same observation again gives the same snapshot.
LEMMA MergeIdempotent ==
    ASSUME NEW prior \in ExecutionEvidence,
           NEW o, ValidEvidenceInput(o), ~Contradicts(prior, o)
    PROVE  LET next == MergeEvidence(prior, o, TRUE, FALSE)
           IN  MergeEvidence(next, o, TRUE, FALSE) = next
  <1> DEFINE next == MergeEvidence(prior, o, TRUE, FALSE)
             out == Given(o, "stdout", NoObservation)
             err == Given(o, "stderr", NoObservation)
  <1>1. /\ prior.stdout \in StreamFacts /\ WellFormedStream(out)
        /\ prior.stderr \in StreamFacts /\ WellFormedStream(err)
    BY DEF ExecutionEvidence, ValidEvidenceInput
  <1>2. /\ ~StreamContradicts(prior.stdout, out)
        /\ ~StreamContradicts(prior.stderr, err)
    BY DEF Contradicts
  <1>3. /\ MergeStream(next.stdout, out) = next.stdout
        /\ MergeStream(next.stderr, err) = next.stderr
    BY <1>1, <1>2, StreamMergeIdempotent DEF MergeEvidence
  <1>4. /\ Given(o, "launch", next.launch) = next.launch
        /\ Given(o, "shellCode", next.shellCode) = next.shellCode
        /\ Given(o, "shellSignal", next.shellSignal) = next.shellSignal
        /\ Given(o, "cleanupState", next.cleanupState) = next.cleanupState
        /\ Given(o, "cleanupTermObservation", next.cleanupTermObservation)
             = next.cleanupTermObservation
    BY DEF MergeEvidence, Given
  <1>5. \A key \in {"cleanupKillIntentObserved", "cancellationIntentObserved",
                    "deadlineTriggerObserved"} : Given(o, key, FALSE) \in BOOLEAN
    BY DEF ValidEvidenceInput
  <1>6. /\ next.cleanupKillIntentObserved =
             (next.cleanupKillIntentObserved
                \/ Given(o, "cleanupKillIntentObserved", FALSE))
        /\ next.cancellationIntentObserved =
             (next.cancellationIntentObserved
                \/ Given(o, "cancellationIntentObserved", FALSE))
        /\ next.deadlineTriggerObserved =
             (next.deadlineTriggerObserved
                \/ Given(o, "deadlineTriggerObserved", FALSE))
    BY <1>5 DEF MergeEvidence
  <1> QED
    BY <1>3, <1>4, <1>6, Zenon DEF MergeEvidence

\* An accepted observation is accepted again.
LEMMA AcceptedAgain ==
    ASSUME NEW prior \in ExecutionEvidence, Coherent(prior),
           NEW o, ValidEvidenceInput(o), ~Contradicts(prior, o)
    PROVE  ~Contradicts(MergeEvidence(prior, o, TRUE, FALSE), o)
  <1>1. PICK next : next = MergeEvidence(prior, o, TRUE, FALSE)
    OBVIOUS
  <1>2. next \in ExecutionEvidence /\ Coherent(next)
    BY <1>1, MergeEvidenceType, MergePreservesCoherence
  <1>3. MergeEvidence(next, o, TRUE, FALSE) = next
    BY <1>1, MergeIdempotent
  <1>4. Survives(next, next)
    BY <1>2 DEF Survives, StreamSurvives, ExecutionEvidence, StreamFacts
  <1> QED
    BY <1>1, <1>2, <1>3, <1>4, RejectionIsContradiction

\* The merge is idempotent: after any sequence of observations, what was accepted is
\* accepted again and changes nothing.
THEOREM RepeatAlwaysChangesNothing == Spec => []RepeatChangesNothing
  <1>1. EvidenceOK => RepeatChangesNothing
    BY ObservationsAreValid, MergeIdempotent, AcceptedAgain
       DEF EvidenceOK, RepeatChangesNothing
  <1> QED
    BY <1>1, EvidenceAlwaysOK, PTL
=============================================================================
