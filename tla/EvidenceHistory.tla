--------------------------- MODULE EvidenceHistory ---------------------------
(***************************************************************************)
(* The evidence of one job under any sequence of observations: each one is *)
(* merged or, when it contradicts what is known, rejected.                 *)
(***************************************************************************)
EXTENDS Evidence

CONSTANT Observations

ASSUME ObservationsAreValid == \A o \in Observations : ValidEvidenceInput(o)

VARIABLE evidence

\* One accepted publication before the final one.
Observe(o) ==
    /\ ~Contradicts(evidence, o)
    /\ evidence' = MergeEvidence(evidence, o, TRUE, FALSE)

Init == evidence = InitialEvidence
Next == \E o \in Observations : Observe(o)
Spec == Init /\ [][Next]_evidence

\* Every reachable snapshot is a snapshot, and coherent.
EvidenceOK == evidence \in ExecutionEvidence /\ Coherent(evidence)

\* The merge rejects an observation exactly when the snapshot it would give
\* erases an established fact or contradicts itself: the rules of mergeEvidence
\* are complete, and none of them turns away a consistent observation.
RejectsExactlyContradictions ==
    \A o \in Observations :
        LET next == MergeEvidence(evidence, o, TRUE, FALSE)
        IN  Contradicts(evidence, o) <=> ~(Survives(evidence, next) /\ Coherent(next))

\* The merge is idempotent: an observation that was accepted is accepted again, and
\* changes nothing. A terminal publication repeats the facts of the launch receipt.
RepeatChangesNothing ==
    \A o \in Observations :
        LET next == MergeEvidence(evidence, o, TRUE, FALSE)
        IN  ~Contradicts(evidence, o) =>
                /\ ~Contradicts(next, o)
                /\ MergeEvidence(next, o, TRUE, FALSE) = next
=============================================================================
