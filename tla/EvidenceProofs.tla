--------------------------- MODULE EvidenceProofs ---------------------------
(* What mergeEvidence guarantees for every snapshot and every observation. *)
EXTENDS Evidence, TLAPS

\* The first snapshot of a job is a well-formed, coherent one.
LEMMA InitialEvidenceType ==
    InitialEvidence \in ExecutionEvidence /\ Coherent(InitialEvidence)
  BY NullIsNoFact
     DEF InitialEvidence, ExecutionEvidence, DefaultStreamFacts, StreamFacts,
         LaunchPhases, CleanupStates, Coherent, NonExecutionLaunch,
         SuppressedLaunch

\* The observation that supplies nothing is valid.
LEMMA NoObservationValid == ValidEvidenceInput(NoObservation)
  BY DEF NoObservation, ValidEvidenceInput, Given, WellFormedStream,
         LaunchPhases, CleanupStates

\* Merging an observation into the facts of a stream gives facts of a stream.
LEMMA MergeStreamType ==
    ASSUME NEW f \in StreamFacts, NEW s, WellFormedStream(s)
    PROVE  MergeStream(f, s) \in StreamFacts
  <1>1. Given(s, "available", f.available) \in BOOLEAN \cup {Null}
    BY DEF WellFormedStream, Given, StreamFacts
  <1>2. Given(s, "truncated", FALSE) \in BOOLEAN
    BY DEF WellFormedStream
  <1>3. /\ Given(s, "incomplete", f.incomplete) \in BOOLEAN
        /\ Given(s, "openAtCutover", f.openAtCutover) \in BOOLEAN
    BY DEF WellFormedStream, Given, StreamFacts
  <1>4. f.truncated \in BOOLEAN
    BY DEF StreamFacts
  <1>5. (f.truncated \/ Given(s, "truncated", FALSE)) \in BOOLEAN
    OBVIOUS
  <1> QED
    BY <1>1, <1>3, <1>5 DEF MergeStream, StreamFacts

\* Merging a valid observation into a snapshot gives a snapshot.
LEMMA MergeEvidenceType ==
    ASSUME NEW prior \in ExecutionEvidence, NEW input, ValidEvidenceInput(input),
           NEW uncertain \in BOOLEAN, NEW finalized \in BOOLEAN
    PROVE  MergeEvidence(prior, input, uncertain, finalized) \in ExecutionEvidence
  <1>1. /\ Given(input, "launch", prior.launch) \in LaunchPhases
        /\ Given(input, "shellCode", prior.shellCode) \in ShellCodes \cup {Null}
        /\ Given(input, "shellSignal", prior.shellSignal) \in Signals \cup {Null}
        /\ Given(input, "cleanupState", prior.cleanupState) \in CleanupStates
        /\ Given(input, "cleanupTermObservation", prior.cleanupTermObservation)
             \in TermObservations \cup {Null}
    BY DEF ValidEvidenceInput, Given, ExecutionEvidence
  <1>2. /\ MergeStream(prior.stdout, Given(input, "stdout", NoObservation))
             \in StreamFacts
        /\ MergeStream(prior.stderr, Given(input, "stderr", NoObservation))
             \in StreamFacts
    BY MergeStreamType DEF ValidEvidenceInput, ExecutionEvidence
  <1>3. ASSUME NEW p, NEW q PROVE (p \/ q) \in BOOLEAN
    OBVIOUS
  <1> QED
    BY <1>1, <1>2, <1>3 DEF MergeEvidence, ExecutionEvidence

\* A merge that is accepted erases nothing that either stream had established.
LEMMA StreamFactsSurvive ==
    ASSUME NEW f \in StreamFacts, NEW s, WellFormedStream(s),
           ~StreamContradicts(f, s)
    PROVE  StreamSurvives(f, MergeStream(f, s))
  <1>1. f.available # Null =>
            Given(s, "available", f.available) = f.available
    BY DEF StreamContradicts
  <1>2. f.incomplete => Given(s, "incomplete", f.incomplete)
    BY DEF StreamContradicts, Given
  <1>3. f.openAtCutover => Given(s, "openAtCutover", f.openAtCutover)
    BY DEF StreamContradicts, Given
  <1> QED
    BY <1>1, <1>2, <1>3 DEF StreamSurvives, MergeStream

\* What the cleanup rules leave possible: the disposition of a command that
\* never ran is fixed, and cleanup certainty does not regress.
LEMMA CleanupMovesForward ==
    ASSUME NEW before \in CleanupStates, NEW after \in CleanupStates,
           after # before =>
             /\ before # "not_required"
             /\ after = "not_required" => before = "not_requested"
             /\ after # "not_required" =>
                    ~(CleanupOrder[after] < CleanupOrder[before])
    PROVE  /\ before = "not_required" => after = "not_required"
           /\ before = "pending" => after \in {"pending", "unconfirmed"}
           /\ before = "unconfirmed" => after = "unconfirmed"
  BY DEF CleanupStates, CleanupOrder

\* mergeEvidence never erases an established fact: whatever snapshot it starts
\* from and whatever observation it accepts, launch, outcome, cleanup certainty,
\* intents and capture facts survive.
THEOREM MergePreservesFacts ==
    ASSUME NEW prior \in ExecutionEvidence, NEW input, ValidEvidenceInput(input),
           NEW uncertain \in BOOLEAN, NEW finalized \in BOOLEAN,
           ~Contradicts(prior, input)
    PROVE  Survives(prior, MergeEvidence(prior, input, uncertain, finalized))
  <1> DEFINE next == MergeEvidence(prior, input, uncertain, finalized)
             probe == MergeEvidence(prior, input, TRUE, FALSE)
  <1>1. probe \in ExecutionEvidence
    BY MergeEvidenceType
  <1>2. /\ next.launch = probe.launch
        /\ next.shellCode = probe.shellCode
        /\ next.shellSignal = probe.shellSignal
        /\ next.cleanupState = probe.cleanupState
        /\ next.cleanupTermObservation = probe.cleanupTermObservation
    BY DEF MergeEvidence
  <1>3. ~ContradictsEstablished(prior, probe) /\ ~IllegalCleanup(prior, probe)
    BY DEF Contradicts
  <1>4. /\ prior.launch # "unknown" => next.launch = prior.launch
        /\ prior.shellCode # Null => next.shellCode = prior.shellCode
        /\ prior.shellSignal # Null => next.shellSignal = prior.shellSignal
        /\ prior.cleanupTermObservation # Null =>
               next.cleanupTermObservation = prior.cleanupTermObservation
    BY <1>2, <1>3 DEF ContradictsEstablished
  <1>5. /\ prior.cleanupKillIntentObserved => next.cleanupKillIntentObserved
        /\ prior.cancellationIntentObserved => next.cancellationIntentObserved
        /\ prior.deadlineTriggerObserved => next.deadlineTriggerObserved
    BY DEF MergeEvidence
  <1>6. /\ prior.cleanupState = "not_required" =>
               next.cleanupState = "not_required"
        /\ prior.cleanupState = "pending" =>
               next.cleanupState \in {"pending", "unconfirmed"}
        /\ prior.cleanupState = "unconfirmed" =>
               next.cleanupState = "unconfirmed"
    <2>1. prior.cleanupState \in CleanupStates /\ probe.cleanupState \in CleanupStates
      BY <1>1 DEF ExecutionEvidence
    <2>2. probe.cleanupState # prior.cleanupState =>
             /\ prior.cleanupState # "not_required"
             /\ probe.cleanupState = "not_required" =>
                    prior.cleanupState = "not_requested"
             /\ probe.cleanupState # "not_required" =>
                    ~(CleanupOrder[probe.cleanupState]
                        < CleanupOrder[prior.cleanupState])
      BY <1>3 DEF IllegalCleanup
    <2> HIDE DEF probe
    <2> QED
      BY <1>2, <2>1, <2>2, CleanupMovesForward
  <1>7. /\ StreamSurvives(prior.stdout, next.stdout)
        /\ StreamSurvives(prior.stderr, next.stderr)
    <2>1. prior.stdout \in StreamFacts /\ prior.stderr \in StreamFacts
      BY DEF ExecutionEvidence
    <2>2. /\ WellFormedStream(Given(input, "stdout", NoObservation))
          /\ WellFormedStream(Given(input, "stderr", NoObservation))
      BY DEF ValidEvidenceInput
    <2>3. /\ ~StreamContradicts(prior.stdout, Given(input, "stdout", NoObservation))
          /\ ~StreamContradicts(prior.stderr, Given(input, "stderr", NoObservation))
      BY DEF Contradicts
    <2>4. /\ next.stdout = MergeStream(prior.stdout, Given(input, "stdout", NoObservation))
          /\ next.stderr = MergeStream(prior.stderr, Given(input, "stderr", NoObservation))
      BY DEF MergeEvidence
    <2> QED
      BY <2>1, <2>2, <2>3, <2>4, StreamFactsSurvive
  <1> QED
    BY <1>4, <1>5, <1>6, <1>7 DEF Survives

\* mergeEvidence never returns a snapshot that contradicts itself, provided it
\* started from one that does not.
THEOREM MergePreservesCoherence ==
    ASSUME NEW prior \in ExecutionEvidence, NEW input, ValidEvidenceInput(input),
           NEW uncertain \in BOOLEAN, NEW finalized \in BOOLEAN,
           Coherent(prior), ~Contradicts(prior, input)
    PROVE  Coherent(MergeEvidence(prior, input, uncertain, finalized))
  <1> DEFINE next == MergeEvidence(prior, input, uncertain, finalized)
             probe == MergeEvidence(prior, input, TRUE, FALSE)
  <1>1. probe \in ExecutionEvidence
    BY MergeEvidenceType
  <1>2. /\ next.launch = probe.launch
        /\ next.shellCode = probe.shellCode
        /\ next.shellSignal = probe.shellSignal
        /\ next.cleanupState = probe.cleanupState
        /\ next.cleanupTermObservation = probe.cleanupTermObservation
        /\ next.cleanupKillIntentObserved = probe.cleanupKillIntentObserved
    BY DEF MergeEvidence
  <1>3. /\ ~ContradictsEstablished(prior, probe)
        /\ ~ContradictoryOutcome(probe)
        /\ ~IllegalCleanup(prior, probe)
    BY DEF Contradicts
  <1>4. probe.cleanupState = "not_required" => probe.launch \in NonExecutionLaunch
    <2>1. CASE prior.cleanupState = "not_required"
      BY <1>3, <2>1 DEF Coherent, ContradictsEstablished, NonExecutionLaunch,
                        SuppressedLaunch
    <2>2. CASE prior.cleanupState # "not_required"
      BY <1>3, <2>2 DEF IllegalCleanup
    <2> QED
      BY <2>1, <2>2
  <1> QED
    BY <1>2, <1>3, <1>4 DEF Coherent, ContradictoryOutcome, IllegalCleanup
=============================================================================
