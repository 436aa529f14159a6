----------------------------- MODULE Supervision -----------------------------
(***************************************************************************)
(* One job from its reservation to its result: the owner's Pi client, the  *)
(* durable store, the runner and the guardian with its shell, run together *)
(* with every interleaving, crash and failing store call.                  *)
(***************************************************************************)
EXTENDS Runner, Guardian

CONSTANTS
    OwnerStore,  \* the connection of the owner's store client
    Reconciles,  \* the owner publishes uncertainty of jobs that look idle
    RunnerDies,  \* the runner may be killed from outside
    GuardianDies \* so may the guardian

\* Two processes with a store each share one job; it has a deadline of at least a
\* millisecond (job-types.ts:134), which the clock reaches or has not reached.
ASSUME OneJobTwoStores ==
    /\ TheJob \in JobIds /\ TheClaim \in ClaimIds
    /\ {OwnerStore, RunnerStore} \subseteq Connections /\ OwnerStore # RunnerStore
    /\ {0, 1} \subseteq Times
    /\ \A cmd \in Commands : DeadlineMs[cmd] > 0

\* What a runner may have learned of its shell when it publishes.
RunnerFacts ==
    {r \in [launched : BOOLEAN, outcome : ShellOutcomes \cup {NoRunnerOutcome},
            term : SignalResults \cup {Null}, killIntent : BOOLEAN,
            deadlineObserved : BOOLEAN] :
        r.launched \/ r.outcome = NoRunnerOutcome}

\* EvidenceInputs holds whatever a runner publishes.
ASSUME RunnerPublishesInputs ==
    /\ LaunchReceipt \in EvidenceInputs
    /\ \A r \in RunnerFacts :
           /\ SpawnFailure(r) \in EvidenceInputs
           /\ \A out, err \in StreamResults :
                  TerminalEvidence(r, out, err) \in EvidenceInputs

supervisionVars == <<vars, runnerVars, guardianVars, link>>

SupervisionInit ==
    /\ Init
    /\ runner = NewRunner /\ faults = {}
    /\ guardian = NewGuardian /\ shell = NoShell
    /\ toRunner = << >> /\ toGuardian = << >>
    /\ runnerEnd = FALSE /\ guardianEnd = FALSE
    /\ guardianProcess = "unborn" /\ expired = FALSE

-----------------------------------------------------------------------------
(* The owner's Pi client *)

OwnerReserves ==
    /\ \E o \in Owners, k \in RequestKeys, cmd \in Commands, outcome \in Outcomes :
           Reserve(OwnerStore, o, k, cmd, TheJob, Clock, outcome)
    /\ UNCHANGED <<runnerVars, guardianVars, link>>

OwnerCancels ==
    /\ RequestCancellation(OwnerStore, TheJob, Clock, "returned")
    /\ UNCHANGED <<runnerVars, guardianVars, link>>

OwnerObserves ==
    /\ Reconciles
    /\ ObserveJob(TheJob)
    /\ UNCHANGED <<runnerVars, guardianVars, link>>

OwnerPublishesUncertainty ==
    /\ Reconciles
    /\ PublishUncertainResult(OwnerStore, TheJob, "returned")
    /\ UNCHANGED <<runnerVars, guardianVars, link>>

OwnerActs ==
    \/ OwnerReserves \/ OwnerCancels
    \/ OwnerObserves \/ OwnerPublishesUncertainty

-----------------------------------------------------------------------------
(* The whole system *)

GuardianRuns == GuardianStep /\ UNCHANGED <<vars, runnerVars>>

RunnerRuns  == RunnerHandles /\ UNCHANGED guardianVars
StoreServes == StoreAnswers /\ UNCHANGED guardianVars

TimePasses == DeadlinePasses /\ UNCHANGED <<vars, runnerVars>>

Crash ==
    \/ RunnerDies /\ RunnerCrash /\ UNCHANGED guardianVars
    \/ /\ GuardianDies /\ (GuardianCrash \/ GuardianSigterm)
       /\ UNCHANGED <<vars, runnerVars>>

SupervisionNext ==
    \/ OwnerActs
    \/ LaunchRunner /\ UNCHANGED guardianVars
    \/ RunnerRuns
    \/ StoreServes
    \/ (LateDecision \/ LatePublication) /\ UNCHANGED guardianVars
    \/ GuardianRuns
    \/ TimePasses
    \/ Crash

SupervisionSpec == SupervisionInit /\ [][SupervisionNext]_supervisionVars

\* Event loops run their handlers, timers fire, store calls are answered and
\* time passes. Nobody has to act, to crash or to answer in a given way.
SupervisionFairness ==
    /\ WF_supervisionVars(RunnerRuns)
    /\ WF_supervisionVars(StoreServes)
    /\ WF_supervisionVars(TimePasses)

FairSupervision == SupervisionSpec /\ SupervisionFairness

-----------------------------------------------------------------------------
(* Invariants *)

Revisions == DOMAIN results[TheJob]

RunnerType ==
    [process : {"unborn", "running", "gone"}, coordinator : CoordinatorStates,
     stopping : BOOLEAN, settled : BOOLEAN, closed : BOOLEAN,
     claimed : BOOLEAN, topologySucceeded : BOOLEAN,
     deciding : {"no", "asked", "authorized_now", "suppressed_now", "error"},
     grantSent : BOOLEAN, launched : BOOLEAN,
     outcome : ShellOutcomes \cup {NoRunnerOutcome},
     term : SignalResults \cup {Null}, killIntent : BOOLEAN,
     deadlineObserved : BOOLEAN, readinessTimer : BOOLEAN,
     deadlineTimer : BOOLEAN, budget : {"unset", "armed", "fired"},
     discarding : BOOLEAN, revision : 0 .. MaxRevision,
     publications : Seq(EvidenceInputs), observing : BOOLEAN]

\* The runner, the guardian and the shell have the shapes the code gives them, and
\* the runner publishes only observations of the kind the store expects of it.
SupervisionTypeOK ==
    /\ runner \in RunnerType
    /\ guardian \in GuardianType
    /\ shell \in ShellType
    /\ guardianProcess \in ProcessStates

\* A shell runs only for a grant that the store gave: the decision is durable,
\* the runner received it, and no refusal or cancellation precedes it.
ShellNeedsGrant ==
    shell.started > 0 =>
        /\ control[TheJob].launchDecision = "authorized"
        /\ grants[TheJob] = 1

\* What is published is true of the world: a launch was a launch, a recorded
\* non-execution never executed and never will, the exit is the shell's exit,
\* and signals and the deadline were really observed.
EvidenceIsTrue ==
    \A i \in Revisions :
        LET e == results[TheJob][i]
        IN  /\ e.launch = "launched" => shell.started = 1
            /\ e.launch \in NonExecutionLaunch => shell.started = 0
            /\ [code |-> e.shellCode, signal |-> e.shellSignal]
                 \in {NoOutcome, shell.outcome}
            /\ e.cleanupTermObservation # Null => shell.terms = 1
            /\ e.cleanupKillIntentObserved => shell.kills = 1
            /\ e.deadlineTriggerObserved => expired

\* A runner that granted the launch and was not killed closes only when the job
\* is settled, whatever happens to the guardian, provided that at most its
\* launch receipt was rolled back and nobody else publishes for the job.
GrantedRunIsReported ==
    /\ runner.grantSent /\ runner.closed
    /\ faults \subseteq {<<"receipt", "failed">>}
    => Finalized(TheJob)

\* The loss of the guardian costs a granted run neither its report nor the truth
\* of it: what stands in for the guardian's answers is not invented.
GrantedRunIsReportedTruly == GrantedRunIsReported /\ EvidenceIsTrue

\* docs/u2-launch.md:13: "launched jobs publish one launch revision and one
\* terminal revision", and docs/u2-launch-control.md:33: "Pure initial-fact
\* uncertainty may precede the original runner's first decision". A launched job
\* whose runner was not killed and had no storage failure is settled.
LaunchedJobsPublish ==
    runner.launched /\ runner.closed /\ faults = {} => Finalized(TheJob)

\* docs/u2-launch.md: after TERM a five-second grace and own-group KILL follow. A
\* guardian that ended by itself after a TERM has signalled KILL.
CleanupEndsWithKill ==
    guardian.state = "exited" /\ shell.terms > 0 => shell.kills > 0

-----------------------------------------------------------------------------
(* Action properties *)

\* No shell starts for a job that is already settled: a runner that gave up on a
\* silent guardian has published the end of the job, and a grant that is still
\* on its way is then refused by the guardian.
NoLateShell ==
    [][shell'.started # shell.started => ~Finalized(TheJob)]_supervisionVars

\* The composed system uses the store only through its operations, with the
\* observations that the store's specification assumes of a runner. (This is
\* JobStore's Spec with the steps that leave the store alone told apart first.)
UsesStore == Init /\ [][vars' # vars => Next]_supervisionVars

-----------------------------------------------------------------------------
(* Liveness *)

\* A runner comes to its end even when the guardian hangs, the shell never ends
\* and a store call fails: the readiness, deadline, budget and cutover timers
\* cover every state in which it waits for somebody else.
RunnerEnds == runner.process = "running" ~> Ended
=============================================================================
