---------------------------- MODULE MCSupervision ----------------------------
(* Constants for the model-checking runs of Supervision. *)
EXTENDS Supervision, TLC

CONSTANTS Command
MCDeadlineMs == [c \in {Command} |-> 1]
MCTimes == {0, 1}

CutOver == [available |-> TRUE, truncated |-> FALSE,
            incomplete |-> TRUE, openAtCutover |-> TRUE]
MCStreamResults == {CutOver}

Receipts == [launch : {"launched"}, cleanupState : {"not_requested"},
             finalized : {FALSE}]
SpawnFailures == [launch : {"spawn_failed"}, cleanupState : {"not_required"},
                  stdout : {Unavailable}, stderr : {Unavailable},
                  deadlineTriggerObserved : BOOLEAN, finalized : {TRUE}]
Terminals ==
    {t \in UNION {[launch : {"launched", "unknown"},
                   shellCode : {o.code}, shellSignal : {o.signal},
                   cleanupState : {"unconfirmed", "not_requested"},
                   cleanupTermObservation : SignalResults \cup {Null},
                   cleanupKillIntentObserved : BOOLEAN,
                   deadlineTriggerObserved : BOOLEAN,
                   stdout : MCStreamResults, stderr : MCStreamResults,
                   finalized : {TRUE}] : o \in ShellOutcomes \cup {NoOutcome}} :
       /\ t.launch = "launched" => t.cleanupState = "unconfirmed"
       /\ t.launch = "unknown" => t.shellCode = Null /\ t.shellSignal = Null}
MCEvidenceInputs == Receipts \cup SpawnFailures \cup Terminals
=============================================================================
