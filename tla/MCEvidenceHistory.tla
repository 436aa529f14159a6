-------------------------- MODULE MCEvidenceHistory --------------------------
(* Observations for the model-checking runs of EvidenceHistory. *)
EXTENDS EvidenceHistory, TLC

\* A key left out, or supplied with one of the values.
Optional(key, values) ==
    {NoObservation} \cup {[k \in {key} |-> v] : v \in values}

\* Every combination of launch, outcome and cleanup facts.
MCOutcomes ==
    {a @@ b @@ c @@ d @@ e @@ f :
        a \in Optional("launch",
                     {"unknown", "spawn_failed", "suppressed_deadline", "launched"}),
        b \in Optional("shellCode", {Null, 0}),
        c \in Optional("shellSignal", {Null, "SIGTERM"}),
        d \in Optional("cleanupState", CleanupStates),
        e \in Optional("cleanupTermObservation", {Null, "returned"}),
        f \in Optional("cleanupKillIntentObserved", BOOLEAN)}

\* One fact of a stream at a time; an open stream is also incomplete.
MCStreamFacts ==
    (Optional("available", {Null, TRUE, FALSE}) \cup Optional("truncated", BOOLEAN)
     \cup Optional("incomplete", BOOLEAN) \cup Optional("openAtCutover", {FALSE})
     \cup [incomplete : {TRUE}, openAtCutover : {TRUE}])
    \ {NoObservation}

MCObservations == MCOutcomes \cup [{"stdout"} -> MCStreamFacts]
=============================================================================
