-------------------------------- MODULE Runner --------------------------------
(***************************************************************************)
(* The detached runner of one job (src/src/runner.ts) and its launch       *)
(* (src/src/launch.ts): it claims the job, starts the guardian, asks the   *)
(* store for the launch decision, grants the launch, and publishes what it *)
(* observed. It is one event loop: message, timer and child-process        *)
(* handlers run to their first await; a store call is a transaction that   *)
(* happens later and an answer that is handled later still.                *)
(*                                                                         *)
(* Handlers are functions from the runner's state to its next state; an    *)
(* action applies one and closes the channel if the handler closed it.     *)
(***************************************************************************)
EXTENDS JobStore, GuardianLink, FiniteSets

CONSTANTS
    TheJob, TheClaim,  \* the job, and the identity its runner claims it with
    RunnerStore,       \* the connection of the runner's store client
    StoreFaults,       \* how the runner's store calls may fail
    MaxFaults,         \* bound: how many of them do
    StreamResults      \* the facts that sealing a captured stream may yield

ASSUME FaultsAreKnown ==
    StoreFaults \subseteq {"failed", "unknown", "committed"} /\ MaxFaults \in Nat

VARIABLES
    runner,  \* the runner's state
    faults   \* history: the runner's store calls that failed, and how

runnerVars == <<runner, faults>>

CoordinatorStates ==
    {"observing", "cutting_over", "freezing", "publishing", "closed"}

NoRunnerOutcome == [code |-> Null, signal |-> Null]

\* deciding: an outstanding decideLaunch and its answer; publications: the
\* queue of publish(), whose head is outstanding; observing: the head failed and
\* observeJob is outstanding; discarding: publishSpawnFailure awaits the discard.
NewRunner ==
    [process |-> "unborn", coordinator |-> "observing",
     stopping |-> FALSE, settled |-> FALSE, closed |-> FALSE,
     claimed |-> FALSE, topologySucceeded |-> FALSE, deciding |-> "no",
     grantSent |-> FALSE, launched |-> FALSE, outcome |-> NoRunnerOutcome,
     term |-> Null, killIntent |-> FALSE, deadlineObserved |-> FALSE,
     readinessTimer |-> FALSE, deadlineTimer |-> FALSE, budget |-> "unset",
     discarding |-> FALSE, revision |-> 0, publications |-> << >>,
     observing |-> FALSE]

Become(r) ==
    /\ runner' = r
    /\ runnerEnd' = (runnerEnd /\ ~r.closed)

Alive == runner.process = "running" /\ ~runner.closed
Ended == runner.process = "gone" \/ runner.closed

\* What Date.now answers to every process of the host.
Clock == IF expired THEN 1 ELSE 0

-----------------------------------------------------------------------------
(* The runner's own functions *)

\* close(): clears the timers and disconnects. Outstanding store calls may
\* still take effect; their answers are no longer acted on.
Closed(r) ==
    [r EXCEPT !.stopping = TRUE, !.closed = TRUE, !.coordinator = "closed",
              !.readinessTimer = FALSE, !.deadlineTimer = FALSE]

Abandoned(r) == Closed(r)

\* latchStopping() and the first half of publishSpawnFailure().
SpawnFailing(r) ==
    IF r.stopping \/ r.settled \/ r.closed THEN r
    ELSE [r EXCEPT !.stopping = TRUE, !.discarding = TRUE]

\* Mutated: only a launched command needs the budget.
BudgetBegunOnceLaunched(r) ==
    IF r.budget # "unset" \/ r.stopping \/ r.coordinator # "observing"
       \/ ~r.launched THEN r
    ELSE [r EXCEPT !.budget = "armed"]

BudgetBegun(r) ==
    IF r.budget # "unset" \/ r.stopping \/ r.coordinator # "observing" THEN r
    ELSE [r EXCEPT !.budget = "armed"]

CutoverBegun(r) ==
    IF r.coordinator # "observing" \/ r.stopping \/ r.closed THEN r
    ELSE [r EXCEPT !.coordinator = "cutting_over"]

\* Mutated: a lost guardian is abandoned, granted or not.
AfterGuardianLossAbandons(r) ==
    IF r.stopping THEN r
    ELSE IF ~r.topologySucceeded THEN SpawnFailing(r)
    ELSE Abandoned(r)

\* handleGuardianLoss(), and the `exit' handler.
AfterGuardianLoss(r) ==
    IF r.stopping THEN r
    ELSE IF ~r.topologySucceeded THEN SpawnFailing(r)
    ELSE IF r.grantSent THEN CutoverBegun(r)
    ELSE Abandoned(r)

-----------------------------------------------------------------------------
(* Publications *)

LaunchReceipt ==
    [launch |-> "launched", cleanupState |-> "not_requested", finalized |-> FALSE]

Unavailable == [available |-> FALSE, truncated |-> FALSE,
                incomplete |-> FALSE, openAtCutover |-> FALSE]

SpawnFailure(r) ==
    [launch |-> "spawn_failed", cleanupState |-> "not_required",
     stdout |-> Unavailable, stderr |-> Unavailable,
     deadlineTriggerObserved |-> r.deadlineObserved, finalized |-> TRUE]

FrozenLaunch(r) == IF r.launched THEN "launched" ELSE "unknown"

TerminalEvidence(r, out, err) ==
    [launch |-> FrozenLaunch(r),
     shellCode |-> r.outcome.code, shellSignal |-> r.outcome.signal,
     cleanupState |->
        IF \/ r.launched \/ r.deadlineObserved
           \/ r.term # Null \/ r.killIntent
        THEN "unconfirmed" ELSE "not_requested",
     cleanupTermObservation |-> r.term,
     cleanupKillIntentObserved |-> r.killIntent,
     deadlineTriggerObserved |-> r.deadlineObserved,
     stdout |-> out, stderr |-> err, finalized |-> TRUE]

\* publish(): one call at a time, in the order of the requests.
Published(r, input) == [r EXCEPT !.publications = Append(@, input)]

\* The head of the queue is done with. A final one closes the runner before a
\* queued one gets its turn, and a closed runner publishes nothing.
HeadDone(r) ==
    IF Head(r.publications).finalized THEN Closed([r EXCEPT !.publications = << >>])
    ELSE [r EXCEPT !.publications = Tail(@), !.observing = FALSE]

-----------------------------------------------------------------------------
(* Store calls. One worker serves them in the order they were made. A call     *)
(* fails without effect, or its transaction is (or may be) durable and only    *)
(* the answer fails.                                                           *)

Fault(op, fault) ==
    /\ Cardinality(faults) < MaxFaults
    /\ faults' = faults \cup {<<op, fault>>}

\* The call is answered with an error and nothing was written: refused by a
\* connection whose writes are disabled, rolled back, or a failed COMMIT.
FailsWithoutEffect(op) ==
    \/ /\ writesDisabled[RunnerStore]
       /\ UNCHANGED <<vars, faults>>
    \/ /\ "failed" \in StoreFaults
       /\ Fault(op, "failed")
       /\ UNCHANGED vars
    \/ /\ "unknown" \in StoreFaults
       /\ Fault(op, "unknown")
       /\ FailedCommit(RunnerStore)

Publishing == runner.publications # << >> /\ ~runner.observing
                                          /\ runner.deciding # "asked"

\* Mutated: a shell that the deadline forestalled is reported as suppressed.
PublishHeadSuppressed(outcome) ==
    PublishResult(RunnerStore, TheJob, TheClaim, runner.revision,
                  [Head(runner.publications) EXCEPT
                      !.launch = IF @ = "spawn_failed" /\ runner.deadlineObserved
                                 THEN "suppressed_deadline" ELSE @],
                  outcome)

PublishHead(outcome) ==
    PublishResult(RunnerStore, TheJob, TheClaim, runner.revision,
                  Head(runner.publications), outcome)

-----------------------------------------------------------------------------
(* Start *)

\* launchRunner(): a created reservation is handed to a new runner process,
\* whose spawn may fail.
LaunchRunner ==
    /\ runner.process = "unborn"
    /\ disclosures[TheJob] = 1
    /\ runner' = [runner EXCEPT !.process = "running"]
    /\ UNCHANGED <<vars, faults, link>>

Claiming == Alive /\ ~runner.claimed

\* The claim is durable and the job was read: the guardian is spawned, unless
\* sh or ps is missing.
RunnerClaims ==
    /\ Claiming
    /\ ClaimRunner(RunnerStore, TheJob, TheClaim, "returned")
    /\ \/ /\ runner' = [runner EXCEPT !.claimed = TRUE, !.readinessTimer = TRUE,
                                      !.deadlineTimer = TRUE]
          /\ guardianProcess' = "booting"
          /\ runnerEnd' = TRUE /\ guardianEnd' = TRUE
       \/ /\ runner' = SpawnFailing([runner EXCEPT !.claimed = TRUE])
          /\ UNCHANGED <<guardianProcess, ends>>
    /\ UNCHANGED <<faults, toRunner, toGuardian, expired>>

\* The claim or the reading of the job threw.
RunnerClaimFails ==
    /\ Claiming
    /\ \/ FailsWithoutEffect("claim")
       \/ \E fault \in StoreFaults :
             /\ Fault("claim", fault)
             /\ ClaimRunner(RunnerStore, TheJob, TheClaim,
                            IF fault = "failed" THEN "returned" ELSE fault)
    /\ runner' = Closed(runner)
    /\ UNCHANGED link

-----------------------------------------------------------------------------
(* The launch decision *)

\* decide(): asked when the topology arrives.
DecideAsked(r) ==
    IF r.grantSent \/ r.stopping THEN r ELSE [r EXCEPT !.deciding = "asked"]

Decides(answer) ==
    /\ Alive /\ runner.deciding = "asked"
    /\ runner' = [runner EXCEPT !.deciding = answer]
    /\ UNCHANGED link

DecisionAuthorizes ==
    /\ AuthorizeLaunch(RunnerStore, TheJob, TheClaim, Clock, "returned")
    /\ Decides("authorized_now")
    /\ UNCHANGED faults

DecisionSuppresses ==
    /\ SuppressLaunch(RunnerStore, TheJob, TheClaim, Clock, "returned")
    /\ Decides("suppressed_now")
    /\ UNCHANGED faults

\* (already_decided and precluded answer a second holder of the claim. There is
\* none: OneJobOneToken and RecordedOnce of JobStore.)
DecisionFails ==
    /\ Decides("error")
    /\ \/ FailsWithoutEffect("decide")
       \/ \E fault \in StoreFaults \ {"failed"} :
             /\ Fault("decide", fault)
             /\ \/ AuthorizeLaunch(RunnerStore, TheJob, TheClaim, Clock, fault)
                \/ SuppressLaunch(RunnerStore, TheJob, TheClaim, Clock, fault)

\* Mutated: an error may be a lost acknowledgement, so the grant is sent.
GrantsOnLostAnswer(r) ==
    r.deciding \in {"authorized_now", "error"} /\ ~r.stopping /\ ~r.grantSent

GrantsOnAnswer(r) ==
    r.deciding = "authorized_now" /\ ~r.stopping /\ ~r.grantSent

Answered == Alive /\ runner.deciding \notin {"no", "asked"}

\* authorized_now, and the guardian is connected: the one grant.
RunnerGrants ==
    /\ Answered /\ GrantsOnAnswer(runner) /\ runnerEnd
    /\ runner' = [runner EXCEPT !.deciding = "no", !.grantSent = TRUE]
    /\ SendToGuardian(<<[type |-> "grant"]>>)
    /\ UNCHANGED <<vars, faults, toRunner, ends, guardianProcess, expired>>

\* Every other answer.
RunnerDoesNotGrant ==
    /\ Answered /\ ~(GrantsOnAnswer(runner) /\ runnerEnd)
    /\ LET r == [runner EXCEPT !.deciding = "no"]
       IN  Become(IF runner.deciding = "error" THEN Abandoned(r)
                  ELSE IF runner.stopping \/ runner.deciding = "authorized_now" THEN r
                  ELSE Closed([r EXCEPT !.settled = TRUE]))
    /\ UNCHANGED <<vars, faults, toRunner, toGuardian, guardianEnd,
                   guardianProcess, expired>>

-----------------------------------------------------------------------------
(* Messages of the guardian *)

Handled(r, m) ==
    CASE m.type = "topology" /\ m.ok -> DecideAsked([r EXCEPT !.topologySucceeded = TRUE])
      [] m.type = "topology" /\ ~m.ok -> SpawnFailing(r)
      [] m.type = "shell_spawned" ->
            Published([r EXCEPT !.launched = TRUE], LaunchReceipt)
      [] m.type = "shell_error" ->
            SpawnFailing([r EXCEPT !.deadlineObserved =
                             @ \/ m.reason = "expired_before_spawn"])
      [] m.type = "shell_exit" ->
            BudgetBegun(IF r.launched THEN [r EXCEPT !.outcome = m.outcome] ELSE r)
      [] m.type = "cleanup_term" -> [r EXCEPT !.term = m.observation]
      [] m.type = "cleanup_kill_intent" -> [r EXCEPT !.killIntent = TRUE]
      [] m.type = "deadline" -> BudgetBegun([r EXCEPT !.deadlineObserved = TRUE])
      [] OTHER -> r

\* A stopping runner ignores every message.
RunnerReceives ==
    /\ runner.process = "running" /\ runnerEnd
    /\ toRunner # << >>
    /\ toRunner' = Tail(toRunner)
    /\ LET m == Head(toRunner)
       IN  /\ Become(IF runner.stopping THEN runner ELSE Handled(runner, m))
           /\ IF m.type = "hello" /\ ~runner.stopping
              THEN SendToGuardian(<<[type |-> "hello_reply"]>>)
              ELSE UNCHANGED toGuardian
    /\ UNCHANGED <<vars, faults, guardianEnd, guardianProcess, expired>>

-----------------------------------------------------------------------------
(* The publication queue *)

\* The transaction and its answer are one step: nothing reads what they leave
\* to the runner in between.
RunnerPublishes ==
    /\ Alive /\ Publishing
    /\ PublishHead("returned")
    /\ Become(HeadDone([runner EXCEPT
                 !.revision = LatestRevision(TheJob) + 1,
                 !.settled = @ \/ Head(runner.publications).finalized]))
    /\ UNCHANGED <<faults, toRunner, toGuardian, guardianEnd, guardianProcess, expired>>

PublicationOp ==
    IF Head(runner.publications).finalized THEN "terminal" ELSE "receipt"

PublicationRejected ==
    \/ ~MayPublish(TheJob, TheClaim, runner.revision)
    \/ Contradicts(Latest(TheJob), Head(runner.publications))

\* Rejected, or failed. A failed launch receipt is looked for in the store; a
\* failed terminal publication is not repeated.
RunnerPublishFails ==
    /\ Alive /\ Publishing
    /\ \/ FailsWithoutEffect(PublicationOp)
       \/ /\ PublicationRejected
          /\ UNCHANGED <<vars, faults>>
       \/ \E fault \in StoreFaults \ {"failed"} :
             Fault(PublicationOp, fault) /\ PublishHead(fault)
    /\ Become(IF Head(runner.publications).finalized THEN HeadDone(runner)
              ELSE [runner EXCEPT !.observing = TRUE])
    /\ UNCHANGED <<toRunner, toGuardian, guardianEnd, guardianProcess, expired>>

ReceiptFound == ~Finalized(TheJob) /\ Latest(TheJob).launch = LaunchReceipt.launch

\* observeJob after a failed receipt; the reading may fail as well.
RunnerObservesReceipt ==
    /\ Alive /\ runner.observing
    /\ \E readable \in IF StoreFaults = {} THEN {TRUE} ELSE BOOLEAN :
          runner' = HeadDone([runner EXCEPT !.revision =
                       IF readable /\ ReceiptFound THEN LatestRevision(TheJob) ELSE @])
    /\ UNCHANGED <<vars, faults, link>>

-----------------------------------------------------------------------------
(* Timers and awaits *)

\* Three seconds without a topology.
RunnerReadinessTimeout ==
    /\ Alive /\ runner.readinessTimer
    /\ LET r == [runner EXCEPT !.readinessTimer = FALSE]
       IN  runner' = IF runner.topologySucceeded THEN r ELSE SpawnFailing(r)
    /\ UNCHANGED <<vars, faults, link>>

RunnerDeadlineTimer ==
    /\ Alive /\ runner.deadlineTimer /\ expired
    /\ runner' = BudgetBegun([runner EXCEPT !.deadlineTimer = FALSE])
    /\ UNCHANGED <<vars, faults, link>>

\* Seven seconds after the budget began.
RunnerBudgetEnds ==
    /\ Alive /\ runner.budget = "armed"
    /\ runner' = CutoverBegun([runner EXCEPT !.budget = "fired"])
    /\ UNCHANGED <<vars, faults, link>>

\* One second after the cutover began, whether or not a spawn failure stops the
\* runner meanwhile.
RunnerFreezes ==
    /\ Alive /\ runner.coordinator = "cutting_over"
    /\ runner' = [runner EXCEPT !.coordinator = "freezing", !.stopping = TRUE]
    /\ UNCHANGED <<vars, faults, link>>

\* Mutated: without the spawn receipt the launch is reported as failed.
RunnerSealsFailed ==
    /\ Alive /\ runner.coordinator = "freezing"
    /\ \E out, err \in StreamResults :
          runner' = Published([runner EXCEPT !.coordinator = "publishing"],
                       [TerminalEvidence(runner, out, err) EXCEPT
                           !.launch = IF runner.launched THEN @ ELSE "spawn_failed"])
    /\ UNCHANGED <<vars, faults, link>>

\* Both streams are sealed.
RunnerSeals ==
    /\ Alive /\ runner.coordinator = "freezing"
    /\ \E out, err \in StreamResults :
          runner' = Published([runner EXCEPT !.coordinator = "publishing"],
                              TerminalEvidence(runner, out, err))
    /\ UNCHANGED <<vars, faults, link>>

\* The empty staging files of a launch that failed are discarded.
RunnerDiscards ==
    /\ Alive /\ runner.discarding
    /\ runner' = Published([runner EXCEPT !.discarding = FALSE], SpawnFailure(runner))
    /\ UNCHANGED <<vars, faults, link>>

\* The `disconnect' event comes after every message; the `exit' event whenever
\* the process is gone. A grant that could not be sent ends up here as well.
RunnerSeesDisconnectEvent ==
    /\ Alive /\ RunnerSeesDisconnect
    /\ runner' = AfterGuardianLoss(runner)
    /\ runnerEnd' = FALSE
    /\ UNCHANGED <<vars, faults, toRunner, toGuardian, guardianEnd,
                   guardianProcess, expired>>

RunnerSeesExitEvent ==
    /\ Alive /\ runner.claimed /\ guardianProcess = "gone" /\ ~runner.stopping
    /\ Become(AfterGuardianLoss(runner))
    /\ UNCHANGED <<vars, faults, toRunner, toGuardian, guardianEnd,
                   guardianProcess, expired>>

-----------------------------------------------------------------------------
(* The end of the process *)

RunnerCrash ==
    /\ Alive
    /\ runner' = [runner EXCEPT !.process = "gone"]
    /\ runnerEnd' = FALSE
    /\ UNCHANGED <<vars, faults, toRunner, toGuardian, guardianEnd,
                   guardianProcess, expired>>

\* A call that was outstanding when the runner closed or died may still take
\* effect; nobody hears of it.
LateDecision ==
    /\ Ended /\ runner.deciding = "asked"
    /\ \/ AuthorizeLaunch(RunnerStore, TheJob, TheClaim, Clock, "unknown")
       \/ SuppressLaunch(RunnerStore, TheJob, TheClaim, Clock, "unknown")
    /\ runner' = [runner EXCEPT !.deciding = "no"]
    /\ UNCHANGED <<faults, link>>

LatePublication ==
    /\ Ended /\ Publishing
    /\ PublishHead("unknown")
    /\ runner' = [runner EXCEPT !.publications = << >>]
    /\ UNCHANGED <<faults, link>>

RunnerHandles ==
    \/ RunnerGrants \/ RunnerDoesNotGrant \/ RunnerReceives
    \/ RunnerObservesReceipt
    \/ RunnerReadinessTimeout \/ RunnerDeadlineTimer \/ RunnerBudgetEnds
    \/ RunnerFreezes \/ RunnerSeals \/ RunnerDiscards
    \/ RunnerSeesDisconnectEvent \/ RunnerSeesExitEvent

StoreAnswers ==
    \/ RunnerClaims \/ RunnerClaimFails
    \/ DecisionAuthorizes \/ DecisionSuppresses \/ DecisionFails
    \/ RunnerPublishes \/ RunnerPublishFails
=============================================================================
