--------------------------- MODULE SupervisionProofs ---------------------------
(***************************************************************************)
(* Proofs about one supervised job: for any number of owners, connections, *)
(* revisions and store failures, any observations, and any crashes of the  *)
(* runner and of the guardian.                                             *)
(***************************************************************************)
EXTENDS Supervision, JobStoreProofs, GuardianProofs

-----------------------------------------------------------------------------
(* The path of the grant: from the store's decision to the shell. *)

\* Until the guardian was spawned there is none, and no channel to it.
NoGuardianYet ==
    /\ guardian = NewGuardian /\ shell = NoShell
    /\ toRunner = << >> /\ toGuardian = << >> /\ ~runnerEnd

\* A runner that has done nothing for its job.
Idle(r) ==
    /\ r.deciding = "no" /\ ~r.topologySucceeded /\ ~r.grantSent
    /\ ~r.deadlineTimer /\ r.budget = "unset"
    /\ r.coordinator \in {"observing", "closed"}

Authorized == control[TheJob].launchDecision = "authorized" /\ grants[TheJob] = 1

RunnerMessages ==
    [type : IF runner.grantSent THEN {"hello_reply", "grant"} ELSE {"hello_reply"}]

\* A decision is asked for a verified topology; the grant follows the answer, and
\* nothing is asked after it.
Path(r) ==
    /\ ~r.claimed => Idle(r)
    /\ r.deciding # "no" => r.topologySucceeded
    /\ r.grantSent => r.topologySucceeded /\ r.deciding = "no"

GrantPath ==
    /\ guardianProcess = "unborn" => NoGuardianYet
    /\ ~runner.claimed => guardianProcess = "unborn"
    /\ Path(runner)
    /\ runner.deciding = "authorized_now" \/ runner.grantSent => Authorized
    /\ toGuardian \in Seq(RunnerMessages)
    /\ GrantTaken => runner.grantSent

-----------------------------------------------------------------------------
(* What is told is true. The facts of the world are a set that only grows, so *)
(* that what was true when it was learned is true when it is published.       *)

\* No shell was started, and none will be: the guardian ended without one, or
\* the runner stopped without having sent the grant.
NoLaunch == NeverStarts \/ (~runner.grantSent /\ runner.stopping)

\* No shell starts any more: the deadline has passed, the guardian is gone or
\* cut off, or it has taken the grant, or has stopped.
PastLaunch ==
    \/ expired
    \/ guardianProcess = "gone"
    \/ guardianProcess # "unborn" /\ ~guardianEnd
    \/ guardian.state \notin {"starting", "ready"}

FactNames == {"started", "termed", "killed", "expired", "no_launch", "past_launch"}

Facts ==
    {f \in FactNames :
        \/ f = "started" /\ shell.started = 1
        \/ f = "termed" /\ shell.terms = 1
        \/ f = "killed" /\ shell.kills = 1
        \/ f = "expired" /\ expired
        \/ f = "no_launch" /\ NoLaunch
        \/ f = "past_launch" /\ PastLaunch}

\* The outcomes that may be reported: none, and that of a shell that has ended.
Ends == {NoOutcome} \cup {o \in ShellOutcomes : shell.process = "exited" /\ shell.outcome = o}

\* An observation says nothing but facts F, and an outcome of O.
TruePublication(p, F, O) ==
    /\ {"launch", "finalized"} \subseteq DOMAIN p
    /\ p.launch = "launched" => "started" \in F
    /\ p.launch = "spawn_failed" => "no_launch" \in F
    /\ "shellCode" \in DOMAIN p <=> "shellSignal" \in DOMAIN p
    /\ [code |-> Given(p, "shellCode", Null), signal |-> Given(p, "shellSignal", Null)] \in O
    /\ Given(p, "cleanupTermObservation", Null) # Null => "termed" \in F
    /\ Given(p, "cleanupKillIntentObserved", FALSE) => "killed" \in F
    /\ Given(p, "deadlineTriggerObserved", FALSE) => "expired" \in F
    /\ p.finalized => p.launch = "spawn_failed" \/ "past_launch" \in F

TruePublications(F, O) == {p \in EvidenceInputs : TruePublication(p, F, O)}

TrueEvidence(e, F, O) ==
    /\ e.launch = "launched" => "started" \in F
    /\ e.launch = "spawn_failed" => "no_launch" \in F
    /\ [code |-> e.shellCode, signal |-> e.shellSignal] \in O
    /\ e.cleanupTermObservation # Null => "termed" \in F
    /\ e.cleanupKillIntentObserved => "killed" \in F
    /\ e.deadlineTriggerObserved => "expired" \in F
    /\ e.finalized => e.launch \in NonExecutionLaunch \/ "past_launch" \in F

\* What a runner holds for a fact is one, it only begins to end the job when no
\* shell can start any more, and it looks in the store for a receipt alone.
Knows(r, F, O) ==
    /\ r.launched => "started" \in F
    /\ r.outcome \in O
    /\ r.launched \/ r.outcome = NoRunnerOutcome
    /\ r.term # Null => "termed" \in F
    /\ r.killIntent => "killed" \in F
    /\ r.deadlineObserved => "expired" \in F
    /\ r.discarding => "no_launch" \in F
    /\ r.budget # "unset" => "past_launch" \in F
    /\ r.coordinator \in {"cutting_over", "freezing", "publishing"} => "past_launch" \in F
    /\ r.publications \in Seq(TruePublications(F, O))
    /\ r.observing => r.publications # << >> /\ ~Head(r.publications).finalized

StoreKnows ==
    /\ \A i \in DOMAIN results[TheJob] : TrueEvidence(results[TheJob][i], Facts, Ends)
    /\ LatestRevision(TheJob) <= MaxRevision
    /\ Known(TheJob) => jobs[TheJob].deadlineAt > 0

LinkOK == runnerEnd \in BOOLEAN /\ guardianEnd \in BOOLEAN /\ expired \in BOOLEAN

\* The hellos on their way to the runner.
Hellos == {i \in DOMAIN toRunner : toRunner[i].type = "hello"}

\* The guardian says hello once, when it boots, and the runner answers it once. (A
\* guardian that is answered twice verifies its topology twice.)
HelloOnce ==
    /\ RepliedOnce
    /\ \A i, k \in Hellos : i = k
    /\ guardianProcess \in {"unborn", "booting"} => Hellos = {}
    /\ guardianProcess \in {"unborn", "booting"} \/ Hellos # {} =>
           Replies = {} /\ ~guardian.helloReceived

SupervisionInv ==
    /\ SupervisionTypeOK /\ LinkOK /\ LedgerInv
    /\ GuardianInv /\ ChannelInv /\ HelloOnce
    /\ GrantPath /\ Knows(runner, Facts, Ends) /\ StoreKnows

-----------------------------------------------------------------------------
(* The runner's functions *)

\* s is a runner r after a handler that neither decides nor grants.
Continues(r, s) ==
    /\ s \in RunnerType
    /\ s.claimed = r.claimed /\ s.grantSent = r.grantSent
    /\ r.stopping => s.stopping
    /\ s.topologySucceeded = r.topologySucceeded
    /\ s.deciding = r.deciding
    /\ r.claimed \/ (Idle(r) => Idle(s))

\* close()
LEMMA ClosedSound ==
    ASSUME NEW r \in RunnerType, NEW F, NEW O, Knows(r, F, O)
    PROVE  Continues(r, Closed(r)) /\ Knows(Closed(r), F, O)
  <1>1. Closed(r) \in RunnerType
    BY DEF RunnerType, CoordinatorStates, Closed
  <1>2. Continues(r, Closed(r))
    BY <1>1 DEF RunnerType, Closed, Continues, Idle
  <1>3. Knows(Closed(r), F, O)
    BY DEF RunnerType, Closed, Knows
  <1> QED
    BY <1>2, <1>3

\* latchStopping() and publishSpawnFailure(), where nothing starts any more.
LEMMA SpawnFailingSound ==
    ASSUME NEW r \in RunnerType, NEW F, NEW O, Knows(r, F, O),
           SpawnFailing(r) # r => "no_launch" \in F
    PROVE  Continues(r, SpawnFailing(r)) /\ Knows(SpawnFailing(r), F, O)
  <1>1. CASE SpawnFailing(r) = r
    BY <1>1 DEF Continues
  <1>2. CASE SpawnFailing(r) # r
    <2>1. PICK s : s = [r EXCEPT !.stopping = TRUE, !.discarding = TRUE]
      OBVIOUS
    <2>2. s = SpawnFailing(r)
      BY <1>2, <2>1 DEF SpawnFailing
    <2>3. s \in RunnerType
      BY <2>1 DEF RunnerType
    <2>4. Continues(r, s)
      BY <2>1, <2>3 DEF RunnerType, Continues, Idle
    <2>5. Knows(s, F, O)
      BY <1>2, <2>1 DEF RunnerType, Knows
    <2> QED
      BY <2>2, <2>4, <2>5
  <1> QED
    BY <1>1, <1>2

\* beginBudget()
LEMMA BudgetBegunSound ==
    ASSUME NEW r \in RunnerType, NEW F, NEW O, Knows(r, F, O),
           r.claimed, "past_launch" \in F
    PROVE  Continues(r, BudgetBegun(r)) /\ Knows(BudgetBegun(r), F, O)
  <1>1. CASE BudgetBegun(r) = r
    BY <1>1 DEF Continues
  <1>2. CASE BudgetBegun(r) # r
    <2>1. PICK s : s = [r EXCEPT !.budget = "armed"]
      OBVIOUS
    <2>2. s = BudgetBegun(r)
      BY <1>2, <2>1 DEF BudgetBegun
    <2>3. s \in RunnerType
      BY <2>1 DEF RunnerType
    <2>4. Continues(r, s)
      BY <2>1, <2>3 DEF RunnerType, Continues
    <2>5. Knows(s, F, O)
      BY <2>1 DEF RunnerType, Knows
    <2> QED
      BY <2>2, <2>4, <2>5
  <1> QED
    BY <1>1, <1>2

\* beginCutover()
LEMMA CutoverBegunSound ==
    ASSUME NEW r \in RunnerType, NEW F, NEW O, Knows(r, F, O),
           r.claimed, "past_launch" \in F
    PROVE  Continues(r, CutoverBegun(r)) /\ Knows(CutoverBegun(r), F, O)
  <1>1. CASE CutoverBegun(r) = r
    BY <1>1 DEF Continues
  <1>2. CASE CutoverBegun(r) # r
    <2>1. PICK s : s = [r EXCEPT !.coordinator = "cutting_over"]
      OBVIOUS
    <2>2. s = CutoverBegun(r)
      BY <1>2, <2>1 DEF CutoverBegun
    <2>3. s \in RunnerType
      BY <2>1 DEF RunnerType, CoordinatorStates
    <2>4. Continues(r, s)
      BY <2>1, <2>3 DEF RunnerType, Continues
    <2>5. Knows(s, F, O)
      BY <2>1 DEF RunnerType, Knows
    <2> QED
      BY <2>2, <2>4, <2>5
  <1> QED
    BY <1>1, <1>2

\* handleGuardianLoss(): without a topology there was no grant, and with one the
\* guardian that is gone starts nothing.
LEMMA AfterGuardianLossSound ==
    ASSUME NEW r \in RunnerType, NEW F, NEW O, Knows(r, F, O),
           r.claimed, "past_launch" \in F,
           ~r.topologySucceeded /\ SpawnFailing(r) # r => "no_launch" \in F
    PROVE  Continues(r, AfterGuardianLoss(r)) /\ Knows(AfterGuardianLoss(r), F, O)
  <1>1. CASE AfterGuardianLoss(r) \in {r, Closed(r), CutoverBegun(r)}
    BY <1>1, CutoverBegunSound, ClosedSound DEF Continues
  <1>2. CASE ~r.topologySucceeded /\ AfterGuardianLoss(r) = SpawnFailing(r)
    BY <1>2, SpawnFailingSound
  <1> QED
    BY <1>1, <1>2 DEF AfterGuardianLoss, Abandoned

\* publish(), of an observation that is true.
LEMMA PublishedSound ==
    ASSUME NEW r \in RunnerType, NEW F, NEW O, Knows(r, F, O),
           NEW p \in TruePublications(F, O)
    PROVE  Continues(r, Published(r, p)) /\ Knows(Published(r, p), F, O)
  <1>1. PICK q : q = Append(r.publications, p)
    OBVIOUS
  <1>2. r.publications \in Seq(TruePublications(F, O))
    BY DEF Knows
  <1>3. q \in Seq(TruePublications(F, O))
    BY <1>1, <1>2, AppendProperties
  <1>4. q \in Seq(EvidenceInputs)
    BY <1>3, SeqOfMore DEF TruePublications
  <1>5. Published(r, p) = [r EXCEPT !.publications = q]
    BY <1>1 DEF Published
  <1>6. r.publications # << >> => q # << >> /\ Head(q) = Head(r.publications)
    BY <1>1, <1>2, AppendProperties, HeadTailProperties
  <1>7. Published(r, p) \in RunnerType
    BY <1>4, <1>5 DEF RunnerType
  <1>8. Continues(r, Published(r, p))
    BY <1>5, <1>7 DEF RunnerType, Continues, Idle
  <1>9. Knows(Published(r, p), F, O)
    BY <1>3, <1>5, <1>6 DEF RunnerType, Knows
  <1> QED
    BY <1>8, <1>9

\* The head of the publication queue is done with.
LEMMA HeadDoneSound ==
    ASSUME NEW r \in RunnerType, NEW F, NEW O, Knows(r, F, O),
           r.publications # << >>
    PROVE  Continues(r, HeadDone(r)) /\ Knows(HeadDone(r), F, O)
  <1>1. r.publications \in Seq(TruePublications(F, O))
    BY DEF Knows
  <1>2. ASSUME NEW q \in Seq(TruePublications(F, O)),
               NEW s, s = [r EXCEPT !.publications = q, !.observing = FALSE]
        PROVE  s \in RunnerType /\ Continues(r, s) /\ Knows(s, F, O)
    <2>1. q \in Seq(EvidenceInputs)
      BY <1>2, SeqOfMore DEF TruePublications
    <2>2. s \in RunnerType
      BY <1>2, <2>1 DEF RunnerType
    <2>3. Continues(r, s)
      BY <1>2, <2>2 DEF RunnerType, Continues, Idle
    <2>4. Knows(s, F, O)
      BY <1>2 DEF RunnerType, Knows
    <2> QED
      BY <2>2, <2>3, <2>4
  <1>3. CASE Head(r.publications).finalized
    <2>1. PICK s : s = [r EXCEPT !.publications = << >>, !.observing = FALSE]
      OBVIOUS
    <2>2. s = [r EXCEPT !.publications = << >>]
      BY <1>3, <2>1 DEF RunnerType, Knows
    <2>3. << >> \in Seq(TruePublications(F, O))
      OBVIOUS
    <2>4. s \in RunnerType /\ Continues(r, s) /\ Knows(s, F, O)
      BY <1>2, <2>1, <2>3
    <2>5. HeadDone(r) = Closed(s)
      BY <1>3, <2>2 DEF HeadDone
    <2>6. Continues(s, Closed(s)) /\ Knows(Closed(s), F, O)
      BY <2>4, ClosedSound
    <2> QED
      BY <2>4, <2>5, <2>6 DEF Continues
  <1>4. CASE ~Head(r.publications).finalized
    <2>1. PICK q : q = Tail(r.publications)
      OBVIOUS
    <2>2. q \in Seq(TruePublications(F, O))
      BY <1>1, <2>1, HeadTailProperties
    <2>3. HeadDone(r) = [r EXCEPT !.publications = q, !.observing = FALSE]
      BY <1>4, <2>1 DEF HeadDone
    <2> QED
      BY <1>2, <2>2, <2>3
  <1> QED
    BY <1>3, <1>4

\* One handler after another.
LEMMA ContinuesTransitive ==
    ASSUME NEW r, NEW s, NEW t, Continues(r, s), Continues(s, t)
    PROVE  Continues(r, t)
  BY DEF Continues

-----------------------------------------------------------------------------
(* The observations that the runner publishes *)

\* What a runner holds, without the rest of its state.
FactsOf(r) ==
    [launched |-> r.launched, outcome |-> r.outcome, term |-> r.term,
     killIntent |-> r.killIntent, deadlineObserved |-> r.deadlineObserved]

\* A runner's knowledge is among what EvidenceInputs provides for.
LEMMA FactsOfRunner ==
    ASSUME NEW r \in RunnerType, NEW F, NEW O, Knows(r, F, O)
    PROVE  FactsOf(r) \in RunnerFacts
  <1>1. r.launched \/ r.outcome = NoRunnerOutcome
    BY DEF Knows
  <1>2. /\ r.launched \in BOOLEAN /\ r.outcome \in ShellOutcomes \cup {NoRunnerOutcome}
        /\ r.term \in SignalResults \cup {Null} /\ r.killIntent \in BOOLEAN
        /\ r.deadlineObserved \in BOOLEAN
    BY DEF RunnerType
  <1> QED
    BY <1>1, <1>2 DEF FactsOf, RunnerFacts

\* The launch receipt of a shell that started.
LEMMA LaunchReceiptIsTrue ==
    ASSUME NEW F, NEW O, "started" \in F, NoOutcome \in O
    PROVE  LaunchReceipt \in TruePublications(F, O)
  <1>1. LaunchReceipt \in EvidenceInputs
    BY RunnerPublishesInputs
  <1>2. TruePublication(LaunchReceipt, F, O)
    BY DEF TruePublication, LaunchReceipt, Given, NoOutcome
  <1> QED
    BY <1>1, <1>2 DEF TruePublications

\* The report of a launch that failed.
LEMMA SpawnFailureIsTrue ==
    ASSUME NEW r \in RunnerType, NEW F, NEW O, Knows(r, F, O),
           "no_launch" \in F, NoOutcome \in O
    PROVE  SpawnFailure(r) \in TruePublications(F, O)
  <1>1. SpawnFailure(r) = SpawnFailure(FactsOf(r))
    BY DEF SpawnFailure, FactsOf
  <1>2. SpawnFailure(r) \in EvidenceInputs
    BY <1>1, FactsOfRunner, RunnerPublishesInputs
  <1>3. TruePublication(SpawnFailure(r), F, O)
    BY DEF TruePublication, SpawnFailure, Given, NoOutcome, Knows
  <1> QED
    BY <1>2, <1>3 DEF TruePublications

\* The terminal report, frozen once no shell can start any more.
LEMMA TerminalIsTrue ==
    ASSUME NEW r \in RunnerType, NEW F, NEW O, Knows(r, F, O), "past_launch" \in F,
           NEW out \in StreamResults, NEW err \in StreamResults
    PROVE  TerminalEvidence(r, out, err) \in TruePublications(F, O)
  <1>1. TerminalEvidence(r, out, err) = TerminalEvidence(FactsOf(r), out, err)
    BY DEF TerminalEvidence, FrozenLaunch, FactsOf
  <1>2. TerminalEvidence(r, out, err) \in EvidenceInputs
    BY <1>1, FactsOfRunner, RunnerPublishesInputs
  <1>3. r.outcome = [code |-> r.outcome.code, signal |-> r.outcome.signal]
    BY DEF RunnerType, ShellOutcomes, NoRunnerOutcome
  <1>4. TruePublication(TerminalEvidence(r, out, err), F, O)
    BY <1>3 DEF TruePublication, TerminalEvidence, FrozenLaunch, Given, Knows
  <1> QED
    BY <1>2, <1>4 DEF TruePublications

-----------------------------------------------------------------------------
(* Messages *)

\* What a message says, as facts.
MessageFacts(m, F, O) ==
    /\ m.type = "topology" => m.ok \/ "no_launch" \in F
    /\ m.type = "shell_spawned" => "started" \in F
    /\ m.type = "shell_error" =>
           "no_launch" \in F /\ (m.reason = "expired_before_spawn" => "expired" \in F)
    /\ m.type = "shell_exit" => m.outcome \in O /\ "past_launch" \in F
    /\ m.type = "cleanup_term" => "termed" \in F
    /\ m.type = "cleanup_kill_intent" => "killed" \in F
    /\ m.type = "deadline" => "expired" \in F /\ "past_launch" \in F

\* A runner that goes on knows no less than it was told: every message but the
\* verified topology.
LEMMA HandledSound ==
    ASSUME NEW r \in RunnerType, NEW F, NEW O, Knows(r, F, O),
           r.claimed, NoOutcome \in O,
           NEW m \in GuardianMessages, MessageFacts(m, F, O),
           m.type = "topology" => ~m.ok
    PROVE  Continues(r, Handled(r, m)) /\ Knows(Handled(r, m), F, O)
  <1>1. CASE m.type = "topology"
    BY <1>1, SpawnFailingSound DEF Handled, MessageFacts
  <1>2. CASE m.type = "shell_spawned"
    <2>1. PICK s : s = [r EXCEPT !.launched = TRUE]
      OBVIOUS
    <2>2. s \in RunnerType
      BY <2>1 DEF RunnerType
    <2>3. Continues(r, s) /\ Knows(s, F, O)
      <3>1. Continues(r, s)
        BY <2>1, <2>2 DEF RunnerType, Continues, Idle
      <3>2. Knows(s, F, O)
        BY <1>2, <2>1 DEF RunnerType, Knows, MessageFacts
      <3> QED
        BY <3>1, <3>2
    <2>4. LaunchReceipt \in TruePublications(F, O)
      BY <1>2, LaunchReceiptIsTrue DEF MessageFacts
    <2>5. Handled(r, m) = Published(s, LaunchReceipt)
      BY <1>2, <2>1 DEF Handled
    <2> QED
      BY <2>2, <2>3, <2>4, <2>5, PublishedSound, ContinuesTransitive
  <1>3. CASE m.type = "shell_error"
    <2>1. PICK s : s = [r EXCEPT !.deadlineObserved =
                             @ \/ m.reason = "expired_before_spawn"]
      OBVIOUS
    <2>2. s \in RunnerType
      BY <2>1 DEF RunnerType
    <2>3. Continues(r, s) /\ Knows(s, F, O)
      <3>1. Continues(r, s)
        BY <2>1, <2>2 DEF RunnerType, Continues, Idle
      <3>2. Knows(s, F, O)
        BY <1>3, <2>1 DEF RunnerType, Knows, MessageFacts
      <3> QED
        BY <3>1, <3>2
    <2>4. Handled(r, m) = SpawnFailing(s)
      BY <1>3, <2>1 DEF Handled
    <2> QED
      BY <1>3, <2>2, <2>3, <2>4, SpawnFailingSound, ContinuesTransitive DEF MessageFacts
  <1>4. CASE m.type = "shell_exit"
    <2>1. PICK s : s = IF r.launched THEN [r EXCEPT !.outcome = m.outcome] ELSE r
      OBVIOUS
    <2>2. m.outcome \in ShellOutcomes
      BY <1>4 DEF GuardianMessages
    <2>3. s \in RunnerType
      BY <2>1, <2>2 DEF RunnerType
    <2>4. Continues(r, s) /\ Knows(s, F, O)
      <3>1. Continues(r, s)
        BY <2>1, <2>3 DEF RunnerType, Continues, Idle
      <3>2. Knows(s, F, O)
        BY <1>4, <2>1 DEF RunnerType, Knows, MessageFacts
      <3> QED
        BY <3>1, <3>2
    <2>5. Handled(r, m) = BudgetBegun(s)
      BY <1>4, <2>1 DEF Handled
    <2>6. s.claimed /\ "past_launch" \in F
      BY <1>4, <2>4 DEF MessageFacts, Continues
    <2> QED
      BY <2>3, <2>4, <2>5, <2>6, BudgetBegunSound, ContinuesTransitive
  <1>5. CASE m.type = "cleanup_term"
    <2>1. m.observation \in SignalResults
      BY <1>5 DEF GuardianMessages
    <2>2. PICK s : s = [r EXCEPT !.term = m.observation]
      OBVIOUS
    <2>3. s \in RunnerType
      BY <2>1, <2>2 DEF RunnerType
    <2>4. s = Handled(r, m)
      BY <1>5, <2>2 DEF Handled
    <2>5. Continues(r, s)
      BY <2>2, <2>3 DEF RunnerType, Continues, Idle
    <2>6. Knows(s, F, O)
      BY <1>5, <2>2 DEF RunnerType, Knows, MessageFacts
    <2> QED
      BY <2>4, <2>5, <2>6
  <1>6. CASE m.type = "cleanup_kill_intent"
    <2>1. PICK s : s = [r EXCEPT !.killIntent = TRUE]
      OBVIOUS
    <2>2. s \in RunnerType
      BY <2>1 DEF RunnerType
    <2>3. s = Handled(r, m)
      BY <1>6, <2>1 DEF Handled
    <2>4. Continues(r, s)
      BY <2>1, <2>2 DEF RunnerType, Continues, Idle
    <2>5. Knows(s, F, O)
      BY <1>6, <2>1 DEF RunnerType, Knows, MessageFacts
    <2> QED
      BY <2>3, <2>4, <2>5
  <1>7. CASE m.type = "deadline"
    <2>1. PICK s : s = [r EXCEPT !.deadlineObserved = TRUE]
      OBVIOUS
    <2>2. s \in RunnerType
      BY <2>1 DEF RunnerType
    <2>3. Continues(r, s) /\ Knows(s, F, O)
      <3>1. Continues(r, s)
        BY <2>1, <2>2 DEF RunnerType, Continues, Idle
      <3>2. Knows(s, F, O)
        BY <1>7, <2>1 DEF RunnerType, Knows, MessageFacts
      <3> QED
        BY <3>1, <3>2
    <2>4. Handled(r, m) = BudgetBegun(s)
      BY <1>7, <2>1 DEF Handled
    <2>5. s.claimed /\ "past_launch" \in F
      BY <1>7, <2>3 DEF MessageFacts, Continues
    <2> QED
      BY <2>2, <2>3, <2>4, <2>5, BudgetBegunSound, ContinuesTransitive
  <1>8. CASE m.type \in {"hello", "protocol_violation"}
    <2>1. Handled(r, m) = r
      BY <1>8 DEF Handled
    <2> QED
      BY <2>1 DEF Continues
  <1> QED
    BY <1>1, <1>2, <1>3, <1>4, <1>5, <1>6, <1>7, <1>8 DEF GuardianMessages

-----------------------------------------------------------------------------
(* The store *)

\* The operations by which this system uses its store.
StoreMove ==
    \/ UNCHANGED vars
    \/ \E o \in Owners, k \in RequestKeys, cmd \in Commands, outcome \in Outcomes :
           Reserve(OwnerStore, o, k, cmd, TheJob, Clock, outcome)
    \/ RequestCancellation(OwnerStore, TheJob, Clock, "returned")
    \/ ObserveJob(TheJob)
    \/ PublishUncertainResult(OwnerStore, TheJob, "returned")
    \/ FailedCommit(RunnerStore)
    \/ \E outcome \in Outcomes :
           \/ ClaimRunner(RunnerStore, TheJob, TheClaim, outcome)
           \/ AuthorizeLaunch(RunnerStore, TheJob, TheClaim, Clock, outcome)
           \/ SuppressLaunch(RunnerStore, TheJob, TheClaim, Clock, outcome)
           \/ runner.publications # << >> /\ PublishHead(outcome)

\* There are no others.
LEMMA EveryStepIsAStoreMove == SupervisionNext => StoreMove
  <1> SUFFICES ASSUME SupervisionNext PROVE StoreMove
    OBVIOUS
  <1>1. "returned" \in Outcomes /\ "unknown" \in Outcomes
        /\ \A fault \in StoreFaults : fault # "failed" => fault \in Outcomes
    BY FaultsAreKnown DEF Outcomes
  <1>2. CASE OwnerActs
    BY <1>2 DEF OwnerActs, OwnerReserves, OwnerCancels, OwnerObserves,
                OwnerPublishesUncertainty, StoreMove
  <1>3. CASE LaunchRunner
    BY <1>3 DEF LaunchRunner, StoreMove
  <1>4. CASE RunnerHandles
    BY <1>4 DEF RunnerHandles, RunnerGrants, RunnerDoesNotGrant, RunnerReceives,
                RunnerObservesReceipt, RunnerReadinessTimeout, RunnerDeadlineTimer,
                RunnerBudgetEnds, RunnerFreezes, RunnerSeals, RunnerDiscards,
                RunnerSeesDisconnectEvent, RunnerSeesExitEvent, StoreMove
  <1>5. ASSUME NEW op, FailsWithoutEffect(op) PROVE StoreMove
    BY <1>5 DEF FailsWithoutEffect, StoreMove
  <1>6. CASE RunnerClaims \/ RunnerClaimFails
    BY <1>1, <1>5, <1>6 DEF RunnerClaims, RunnerClaimFails, StoreMove
  <1>7. CASE DecisionAuthorizes \/ DecisionSuppresses \/ DecisionFails
    BY <1>1, <1>5, <1>7 DEF DecisionAuthorizes, DecisionSuppresses, DecisionFails, StoreMove
  <1>8. CASE RunnerPublishes \/ RunnerPublishFails
    BY <1>1, <1>5, <1>8 DEF RunnerPublishes, RunnerPublishFails, Publishing, StoreMove
  <1>9. CASE LateDecision \/ LatePublication
    BY <1>1, <1>9 DEF LateDecision, LatePublication, Publishing, StoreMove
  <1>10. CASE GuardianRuns \/ TimePasses \/ Crash
    BY <1>10 DEF GuardianRuns, TimePasses, Crash, RunnerCrash, StoreMove
  <1> QED
    BY <1>2, <1>3, <1>4, <1>6, <1>7, <1>8, <1>9, <1>10
       DEF SupervisionNext, RunnerRuns, StoreServes, StoreAnswers

\* Each of them is an operation of the store with inputs that it expects.
LEMMA StoreMoveIsNext ==
    ASSUME runner \in RunnerType, StoreMove
    PROVE  [Next]_vars
  <1>1. /\ TheJob \in JobIds /\ TheClaim \in ClaimIds /\ Clock \in Times
        /\ OwnerStore \in Connections /\ RunnerStore \in Connections
        /\ "returned" \in Outcomes
    BY OneJobTwoStores DEF Clock, Outcomes
  <1>2. ASSUME NEW outcome \in Outcomes,
               \/ \E o \in Owners, k \in RequestKeys, cmd \in Commands :
                      Reserve(OwnerStore, o, k, cmd, TheJob, Clock, outcome)
               \/ RequestCancellation(OwnerStore, TheJob, Clock, outcome)
               \/ PublishUncertainResult(OwnerStore, TheJob, outcome)
        PROVE  Next
    <2>1. OwnerStep(OwnerStore, TheJob, outcome)
      BY <1>1, <1>2 DEF OwnerStep
    <2> QED
      BY <1>1, <1>2, <2>1 DEF Next
  <1>3. ASSUME NEW outcome \in Outcomes,
               \/ ClaimRunner(RunnerStore, TheJob, TheClaim, outcome)
               \/ AuthorizeLaunch(RunnerStore, TheJob, TheClaim, Clock, outcome)
               \/ SuppressLaunch(RunnerStore, TheJob, TheClaim, Clock, outcome)
               \/ runner.publications # << >> /\ PublishHead(outcome)
        PROVE  Next
    <2>1. runner.publications # << >> => Head(runner.publications) \in EvidenceInputs
      <3>1. runner.publications \in Seq(EvidenceInputs)
        BY DEF RunnerType
      <3> QED
        BY <3>1, HeadTailProperties
    <2>2. runner.revision \in 0 .. MaxRevision
      BY DEF RunnerType
    <2>3. RunnerStep(RunnerStore, TheJob, TheClaim, outcome)
      BY <1>1, <1>3, <2>1, <2>2 DEF RunnerStep, PublishHead
    <2> QED
      BY <1>1, <1>3, <2>3 DEF Next
  <1>4. CASE ObserveJob(TheJob) \/ FailedCommit(RunnerStore)
    BY <1>1, <1>4 DEF Next
  <1> QED
    BY <1>1, <1>2, <1>3, <1>4 DEF StoreMove

\* A grant is given once and for all.
LEMMA AuthorizedStays ==
    ASSUME LedgerInv, [Next]_vars, NEW j \in JobIds,
           control[j].launchDecision = "authorized", grants[j] = 1
    PROVE  control'[j].launchDecision = "authorized" /\ grants'[j] = 1
  <1>1. TypeOK /\ Ledger(j)
    BY DEF LedgerInv
  <1>2. /\ control \in [JobIds -> ControlRow] /\ grants \in [JobIds -> Nat]
        /\ control[j].launchDecision # Null /\ control[j] # NewControl /\ Known(j)
    BY <1>1, ConstantsAreSound
       DEF TypeOK, Ledger, NoRowNoHistory, NewControl, Known
  <1>3. ASSUME NEW c, NEW i \in JobIds, NEW outcome, OwnerStep(c, i, outcome)
        PROVE  control'[j].launchDecision = "authorized" /\ grants'[j] = 1
    <2>1. ASSUME NEW o, NEW k, NEW cmd, NEW t, Reserve(c, o, k, cmd, i, t, outcome)
          PROVE  control'[j].launchDecision = "authorized" /\ grants'[j] = 1
      <3>1. i # j /\ control' = [control EXCEPT ![i] = NewControl] /\ grants' = grants
        BY <1>2, <2>1 DEF Reserve
      <3> QED
        BY <1>2, <3>1
    <2>2. ASSUME NEW t, RequestCancellation(c, i, t, outcome)
          PROVE  control'[j].launchDecision = "authorized" /\ grants'[j] = 1
      <3>1. /\ control' = [control EXCEPT ![i].cancellationRequestedAt = t]
            /\ grants' = grants
        BY <2>2 DEF RequestCancellation, history
      <3> QED
        BY <1>2, <3>1 DEF ControlRow
    <2>3. CASE UNCHANGED <<control, grants>>
      BY <1>2, <2>3
    <2> QED
      BY <1>3, <2>1, <2>2, <2>3
         DEF OwnerStep, ReplayReservation, PublishUncertainResult, AcknowledgeNotice,
             tables, history
  <1>4. ASSUME NEW c, NEW i \in JobIds, NEW claim, NEW outcome,
               RunnerStep(c, i, claim, outcome)
        PROVE  control'[j].launchDecision = "authorized" /\ grants'[j] = 1
    BY <1>2, <1>4 DEF RunnerStep, ClaimRunner, Heartbeat, AuthorizeLaunch, SuppressLaunch,
                      PublishResult, MayDecide, Decide
  <1>5. CASE UNCHANGED <<control, grants>>
    BY <1>5
  <1> QED
    BY <1>3, <1>4, <1>5
       DEF Next, FailedCommit, Reopen, ObserveJob, vars, tables, history

-----------------------------------------------------------------------------
(* Revisions *)

\* Before the first revision nothing is said.
LEMMA InitialTruth ==
    ASSUME NEW F, NEW O, NoOutcome \in O
    PROVE  TrueEvidence(InitialEvidence, F, O)
  BY DEF TrueEvidence, InitialEvidence, NoOutcome

\* True observations are merged into true evidence: publishResult().
LEMMA MergedTruth ==
    ASSUME NEW prior, NEW F, NEW O, TrueEvidence(prior, F, O),
           NEW p \in TruePublications(F, O)
    PROVE  TrueEvidence(MergeEvidence(prior, p, ~p.finalized, p.finalized), F, O)
  <1> DEFINE e == MergeEvidence(prior, p, ~p.finalized, p.finalized)
  <1>1. TruePublication(p, F, O)
    BY DEF TruePublications
  <1>2. e.launch = p.launch /\ e.finalized = p.finalized
    BY <1>1 DEF TruePublication, MergeEvidence, Given
  <1>3. [code |-> e.shellCode, signal |-> e.shellSignal] \in O
    <2>1. CASE "shellCode" \in DOMAIN p /\ "shellSignal" \in DOMAIN p
      BY <1>1, <2>1 DEF TruePublication, MergeEvidence, Given
    <2>2. CASE "shellCode" \notin DOMAIN p /\ "shellSignal" \notin DOMAIN p
      BY <2>2 DEF TrueEvidence, MergeEvidence, Given
    <2> QED
      BY <1>1, <2>1, <2>2 DEF TruePublication
  <1>4. /\ e.cleanupTermObservation # Null => "termed" \in F
        /\ e.cleanupKillIntentObserved => "killed" \in F
        /\ e.deadlineTriggerObserved => "expired" \in F
    BY <1>1 DEF TruePublication, TrueEvidence, MergeEvidence, Given
  <1> QED
    BY <1>1, <1>2, <1>3, <1>4 DEF TruePublication, TrueEvidence, NonExecutionLaunch

\* A copy that is marked uncertain says no more: publishUncertainResult().
LEMMA UncertainTruth ==
    ASSUME NEW prior, NEW F, NEW O, TrueEvidence(prior, F, O)
    PROVE  TrueEvidence(MergeEvidence(prior, NoObservation, TRUE, FALSE), F, O)
  BY DEF TrueEvidence, MergeEvidence, NoObservation, Given

\* The store's own refusal, for the deadline only when it has passed: decideLaunch().
LEMMA SuppressedTruth ==
    ASSUME NEW prior, NEW F, NEW O, TrueEvidence(prior, F, O),
           NEW s \in SuppressedLaunch, s = "suppressed_deadline" => "expired" \in F
    PROVE  TrueEvidence(MergeEvidence(prior, SuppressionEvidence(s), FALSE, TRUE), F, O)
  <1> DEFINE e == MergeEvidence(prior, SuppressionEvidence(s), FALSE, TRUE)
  <1>1. e.launch = s /\ s \in NonExecutionLaunch /\ s # "launched" /\ s # "spawn_failed"
    BY DEF MergeEvidence, SuppressionEvidence, Given, NonExecutionLaunch, SuppressedLaunch
  <1>2. /\ e.shellCode = prior.shellCode /\ e.shellSignal = prior.shellSignal
        /\ e.cleanupTermObservation = prior.cleanupTermObservation
        /\ e.cleanupKillIntentObserved <=> prior.cleanupKillIntentObserved
        /\ e.deadlineTriggerObserved
             <=> prior.deadlineTriggerObserved \/ s = "suppressed_deadline"
    BY DEF MergeEvidence, SuppressionEvidence, Given
  <1> QED
    BY <1>1, <1>2 DEF TrueEvidence

\* What was true stays true when the facts only grow.
LEMMA TruthOutlives ==
    ASSUME NEW F, NEW G, F \subseteq G, NEW O, NEW P, O \subseteq P
    PROVE  /\ TruePublications(F, O) \subseteq TruePublications(G, P)
           /\ \A e : TrueEvidence(e, F, O) => TrueEvidence(e, G, P)
           /\ \A r : Knows(r, F, O) => Knows(r, G, P)
  <1>1. TruePublications(F, O) \subseteq TruePublications(G, P)
    BY DEF TruePublications, TruePublication
  <1>2. \A e : TrueEvidence(e, F, O) => TrueEvidence(e, G, P)
    BY DEF TrueEvidence
  <1>3. ASSUME NEW r, Knows(r, F, O) PROVE Knows(r, G, P)
    <2>1. r.publications \in Seq(TruePublications(G, P))
      BY <1>1, <1>3, SeqOfMore DEF Knows
    <2> QED
      BY <1>3, <2>1 DEF Knows
  <1> QED
    BY <1>1, <1>2, <1>3

\* One more true revision.
LEMMA RecordedTruth ==
    ASSUME LedgerInv, NEW e \in ExecutionEvidence, RecordRevision(TheJob, e),
           NEW G, NEW P, TrueEvidence(e, G, P),
           \A i \in DOMAIN results[TheJob] : TrueEvidence(results[TheJob][i], G, P)
    PROVE  /\ \A i \in DOMAIN results'[TheJob] : TrueEvidence(results'[TheJob][i], G, P)
           /\ Len(results'[TheJob]) <= MaxRevision
  <1>1. /\ Len(results'[TheJob]) = Len(results[TheJob]) + 1
        /\ \A i \in DOMAIN results[TheJob] : results'[TheJob][i] = results[TheJob][i]
        /\ DOMAIN results'[TheJob] = DOMAIN results[TheJob] \cup {Len(results[TheJob]) + 1}
        /\ results'[TheJob][Len(results[TheJob]) + 1] = e
    BY AppendedRevision, OneJobTwoStores DEF LedgerInv
  <1>2. Len(results[TheJob]) < MaxRevision /\ Len(results[TheJob]) \in Nat
    BY OneJobTwoStores DEF RecordRevision, LatestRevision, LedgerInv, TypeOK
  <1>3. Len(results'[TheJob]) <= MaxRevision
    BY <1>1, <1>2, ConstantsAreSound
  <1> QED
    BY <1>1, <1>3

\* The store says nothing but what its callers knew, and what its clock told it.
LEMMA StoreStaysTrue ==
    ASSUME LedgerInv, StoreKnows, runner \in RunnerType, Knows(runner, Facts, Ends),
           StoreMove, NEW G, Facts \subseteq G, NEW P, Ends \subseteq P
    PROVE  /\ \A i \in DOMAIN results'[TheJob] : TrueEvidence(results'[TheJob][i], G, P)
           /\ Len(results'[TheJob]) <= MaxRevision
           /\ Known(TheJob)' => jobs'[TheJob].deadlineAt > 0
  <1> DEFINE Revised ==
                 /\ \A i \in DOMAIN results'[TheJob] :
                        TrueEvidence(results'[TheJob][i], G, P)
                 /\ Len(results'[TheJob]) <= MaxRevision
             Dated == Known(TheJob)' => jobs'[TheJob].deadlineAt > 0
  <1>1. /\ TheJob \in JobIds /\ TypeOK /\ jobs[TheJob] \in JobRow
        /\ Latest(TheJob) \in ExecutionEvidence
    BY OneJobTwoStores, LatestType DEF LedgerInv, TypeOK
  <1>2. /\ \A i \in DOMAIN results[TheJob] : TrueEvidence(results[TheJob][i], G, P)
        /\ Len(results[TheJob]) <= MaxRevision
        /\ Known(TheJob) => jobs[TheJob].deadlineAt > 0
    BY TruthOutlives DEF StoreKnows, LatestRevision
  <1>3. NoOutcome \in P
    BY DEF Ends
  <1>4. TrueEvidence(Latest(TheJob), G, P)
    <2>1. CASE results[TheJob] = << >>
      BY <1>3, <2>1, InitialTruth DEF Latest
    <2>2. CASE results[TheJob] # << >>
      <3>1. results[TheJob] \in Seq(ExecutionEvidence)
        BY <1>1 DEF TypeOK
      <3>2. Len(results[TheJob]) \in DOMAIN results[TheJob]
        BY <2>2, <3>1
      <3> QED
        BY <1>2, <2>2, <3>2 DEF Latest
    <2> QED
      BY <2>1, <2>2
  <1>5. ASSUME UNCHANGED results PROVE Revised
    BY <1>2, <1>5
  <1>6. ASSUME \/ UNCHANGED jobs
               \/ Known(TheJob) /\ \E t : jobs' = [jobs EXCEPT ![TheJob].state = t]
        PROVE  Dated
    BY <1>1, <1>2, <1>6 DEF Known, TypeOK, JobRow
  <1>7. ASSUME NEW o \in Owners, NEW k \in RequestKeys, NEW cmd \in Commands,
               NEW outcome, Reserve(OwnerStore, o, k, cmd, TheJob, Clock, outcome)
        PROVE  Revised /\ Dated
    <2>1. Clock \in Nat /\ DeadlineMs[cmd] \in Nat /\ DeadlineMs[cmd] > 0
      BY OneJobTwoStores, ConstantsAreSound DEF Clock
    <2>2. DeadlineAt(Clock, cmd) > 0
      BY <2>1 DEF DeadlineAt
    <2>3. jobs'[TheJob].deadlineAt = DeadlineAt(Clock, cmd) /\ UNCHANGED results
      BY <1>1, <1>7 DEF Reserve, TypeOK
    <2> QED
      BY <1>5, <2>2, <2>3
  <1>8. CASE PublishUncertainResult(OwnerStore, TheJob, "returned")
    <2>1. PICK e : e = MergeEvidence(Latest(TheJob), NoObservation, TRUE, FALSE)
      OBVIOUS
    <2>2. e \in ExecutionEvidence /\ TrueEvidence(e, G, P)
      BY <1>1, <1>4, <2>1, NoObservationValid, MergeEvidenceType, UncertainTruth
    <2>3. RecordRevision(TheJob, e) /\ UNCHANGED jobs
      BY <1>8, <2>1 DEF PublishUncertainResult
    <2> QED
      BY <1>2, <1>6, <2>2, <2>3, RecordedTruth
  <1>9. ASSUME NEW outcome, SuppressLaunch(RunnerStore, TheJob, TheClaim, Clock, outcome)
        PROVE  Revised /\ Dated
    <2>1. PICK s : s = Suppression(TheJob, Clock)
      OBVIOUS
    <2>2. /\ s # Null /\ Known(TheJob)
          /\ RecordRevision(TheJob,
                 MergeEvidence(Latest(TheJob), SuppressionEvidence(s), FALSE, TRUE))
          /\ \E t : jobs' = [jobs EXCEPT ![TheJob].state = t]
      BY <1>9, <2>1 DEF SuppressLaunch, MayDecide, TokenAccepted
    <2>3. s \in SuppressedLaunch
      BY <2>1, <2>2 DEF Suppression, SuppressedLaunch
    <2>4. ASSUME s = "suppressed_deadline" PROVE "expired" \in G
      <3>1. Clock >= jobs[TheJob].deadlineAt
        BY <2>1, <2>4, ConstantsAreSound DEF Suppression, SuppressedLaunch
      <3>2. jobs[TheJob].deadlineAt > 0 /\ jobs[TheJob].deadlineAt \in Nat
        BY <1>1, <1>2, <2>2 DEF JobRow
      <3>3. expired
        BY <3>1, <3>2 DEF Clock
      <3> QED
        BY <3>3 DEF Facts, FactNames
    <2>5. PICK e : e = MergeEvidence(Latest(TheJob), SuppressionEvidence(s), FALSE, TRUE)
      OBVIOUS
    <2>6. TrueEvidence(e, G, P)
      BY <1>4, <2>3, <2>4, <2>5, SuppressedTruth
    <2>7. e \in ExecutionEvidence
      BY <1>1, <2>3, <2>5, SuppressionEvidenceValid, MergeEvidenceType
    <2> QED
      BY <1>2, <1>6, <2>2, <2>5, <2>6, <2>7, RecordedTruth
  <1>10. ASSUME runner.publications # << >>, NEW outcome, PublishHead(outcome)
         PROVE  Revised /\ Dated
    <2>1. PICK p : p = Head(runner.publications)
      OBVIOUS
    <2>2. Knows(runner, G, P)
      BY TruthOutlives
    <2>3. p \in TruePublications(G, P)
      BY <1>10, <2>1, <2>2, HeadTailProperties DEF Knows
    <2>4. /\ p \in EvidenceInputs /\ "finalized" \in DOMAIN p
          /\ Given(p, "finalized", FALSE) = p.finalized
      BY <2>3 DEF TruePublications, TruePublication, Given
    <2>5. PICK e : e = MergeEvidence(Latest(TheJob), p, ~p.finalized, p.finalized)
      OBVIOUS
    <2>6. TrueEvidence(e, G, P)
      BY <1>4, <2>3, <2>5, MergedTruth
    <2>7. ValidEvidenceInput(p) /\ p.finalized \in BOOLEAN
      BY <2>4, InputsAreRunnerInputs DEF ValidEvidenceInput
    <2>8. e \in ExecutionEvidence
      BY <1>1, <2>5, <2>7, MergeEvidenceType
    <2>9. /\ RecordRevision(TheJob, e) /\ Known(TheJob)
          /\ UNCHANGED jobs \/ \E t : jobs' = [jobs EXCEPT ![TheJob].state = t]
      BY <1>10, <2>1, <2>4, <2>5 DEF PublishHead, PublishResult, MayPublish, TokenAccepted
    <2> QED
      BY <1>2, <1>6, <2>6, <2>8, <2>9, RecordedTruth
  <1>11. ASSUME NEW outcome, ClaimRunner(RunnerStore, TheJob, TheClaim, outcome)
         PROVE  Revised /\ Dated
    BY <1>5, <1>6, <1>11 DEF ClaimRunner, TokenAccepted
  <1>12. CASE UNCHANGED <<jobs, results>>
    BY <1>5, <1>6, <1>12
  <1> QED
    BY <1>7, <1>8, <1>9, <1>10, <1>11, <1>12
       DEF StoreMove, RequestCancellation, ObserveJob, FailedCommit, AuthorizeLaunch,
           vars, tables

-----------------------------------------------------------------------------
(* The runner's steps *)

\* A message on its way says what is so.
LEMMA MessageIsFact ==
    ASSUME GuardianInv, NEW m \in TrueMessages
    PROVE  m \in GuardianMessages /\ MessageFacts(m, Facts, Ends)
  <1>1. m \in GuardianMessages /\ HoldsTrue(m)
    BY DEF TrueMessages
  <1>2. m.type = "shell_exit" => m.outcome \in ShellOutcomes
    BY <1>1 DEF GuardianMessages
  <1>3. shell.process = "exited" => guardian.state \notin {"starting", "ready"}
    BY DEF GuardianInv, LaunchInOrder, NoShell
  <1>4. m.type = "topology" => m.ok \/ "no_launch" \in Facts
    BY <1>1 DEF HoldsTrue, Facts, FactNames, NoLaunch
  <1>5. m.type = "shell_error" => /\ "no_launch" \in Facts
                                  /\ m.reason = "expired_before_spawn" => "expired" \in Facts
    BY <1>1 DEF HoldsTrue, Facts, FactNames, NoLaunch
  <1>6. m.type = "shell_exit" => m.outcome \in Ends /\ "past_launch" \in Facts
    BY <1>1, <1>2, <1>3 DEF HoldsTrue, Facts, FactNames, Ends, PastLaunch
  <1>7. /\ m.type = "shell_spawned" => "started" \in Facts
        /\ m.type = "cleanup_term" => "termed" \in Facts
        /\ m.type = "cleanup_kill_intent" => "killed" \in Facts
    BY <1>1 DEF HoldsTrue, Facts, FactNames
  <1>8. m.type = "deadline" => "expired" \in Facts /\ "past_launch" \in Facts
    BY <1>1 DEF HoldsTrue, Facts, FactNames, PastLaunch
  <1> QED
    BY <1>1, <1>4, <1>5, <1>6, <1>7, <1>8 DEF MessageFacts

\* Everything that the runner's process and its calls of the store do.
RunnerActs ==
    \/ LaunchRunner \/ RunnerHandles \/ StoreAnswers
    \/ LateDecision \/ LatePublication \/ RunnerCrash

\* A runner that stopped never goes on, and only the answer to its question makes
\* it grant.
RunnerMoves ==
    /\ runner' \in RunnerType /\ Path(runner')
    /\ runner.claimed => runner'.claimed
    /\ runner.stopping => runner'.stopping
    /\ runner.grantSent => runner'.grantSent
    /\ runner'.grantSent => runner.grantSent \/ GrantsOnAnswer(runner)
    /\ runner'.deciding = "authorized_now" =>
           runner.deciding = "authorized_now" \/ DecisionAuthorizes

\* A handler that neither decides nor grants.
LEMMA ContinuingMoves ==
    ASSUME SupervisionInv, NEW r, Path(r), r.claimed \/ ~runner.claimed,
           runner.stopping => r.stopping, r.grantSent = runner.grantSent,
           r.deciding \in {"no", runner.deciding}, Continues(r, runner')
    PROVE  RunnerMoves
  <1>1. Path(runner')
    BY DEF Continues, Path
  <1> QED
    BY <1>1 DEF Continues, RunnerMoves

\* The runner as it is.
LEMMA AsItIs == SupervisionInv => Path(runner) /\ runner \in RunnerType
  BY DEF SupervisionInv, GrantPath, SupervisionTypeOK

\* A handler that neither decides nor grants, of the runner as it is.
LEMMA PlainMove == SupervisionInv /\ Continues(runner, runner') => RunnerMoves
  BY AsItIs, ContinuingMoves

\* Every step of the runner: what it does to its own state, and that it learns
\* nothing but facts. The facts may be those after the step.
LEMMA RunnerTurns ==
    ASSUME SupervisionInv, RunnerActs, NEW G, Facts \subseteq G, NEW P, Ends \subseteq P,
           runner'.stopping /\ ~runner'.grantSent => "no_launch" \in G
    PROVE  RunnerMoves /\ Knows(runner', G, P)
  <1> DEFINE Sound == RunnerMoves /\ Knows(runner', G, P)
  <1>1. /\ runner \in RunnerType /\ Path(runner) /\ Knows(runner, G, P)
        /\ NoOutcome \in P /\ GuardianInv
    BY TruthOutlives DEF SupervisionInv, SupervisionTypeOK, GrantPath, Ends
  <1>2. ASSUME Continues(runner, runner'), Knows(runner', G, P) PROVE Sound
    BY <1>2, PlainMove
  <1>3. ASSUME NEW r \in RunnerType, runner' = SpawnFailing(r), ~r.grantSent,
               Knows(r, G, P)
        PROVE  Continues(r, runner') /\ Knows(runner', G, P)
    <2>1. SpawnFailing(r) # r => "no_launch" \in G
      BY <1>3 DEF SpawnFailing, RunnerType
    <2> QED
      BY <1>3, <2>1, SpawnFailingSound
  <1>4. ~runner.topologySucceeded => ~runner.grantSent
    BY <1>1 DEF Path
  <1>5. /\ guardianProcess # "unborn" => runner.claimed
        /\ runnerEnd \/ toRunner # << >> => guardianProcess # "unborn"
    BY DEF SupervisionInv, GrantPath, NoGuardianYet
  <1>6. \/ runner.deadlineTimer \/ runner.budget # "unset" \/ runner.deciding # "no"
        \/ runner.coordinator \notin {"observing", "closed"}
        => runner.claimed
    BY <1>1 DEF Path, Idle
  <1>7. /\ expired => "past_launch" \in G
        /\ guardianProcess = "gone" => "past_launch" \in G
        /\ guardianProcess # "unborn" /\ ~guardianEnd => "past_launch" \in G
    BY DEF Facts, FactNames, PastLaunch
  <1>8. ASSUME NEW r, runner' = r, r \in RunnerType, Continues(runner, r), Knows(r, G, P)
        PROVE  Sound
    BY <1>2, <1>8
  <1>9. CASE RunnerReadinessTimeout
    <2>1. PICK r : r = [runner EXCEPT !.readinessTimer = FALSE]
      OBVIOUS
    <2>2. r \in RunnerType
      BY <1>1, <2>1 DEF RunnerType
    <2>3. Continues(runner, r)
      BY <1>1, <2>1, <2>2 DEF RunnerType, Continues, Idle
    <2>4. Knows(r, G, P)
      BY <1>1, <2>1 DEF RunnerType, Knows
    <2>5. CASE runner.topologySucceeded
      BY <1>8, <1>9, <2>1, <2>2, <2>3, <2>4, <2>5 DEF RunnerReadinessTimeout
    <2>6. CASE ~runner.topologySucceeded
      <3>1. runner' = SpawnFailing(r) /\ ~r.grantSent
        BY <1>4, <1>9, <2>1, <2>3, <2>6 DEF RunnerReadinessTimeout, Continues
      <3> QED
        BY <1>2, <1>3, <2>2, <2>3, <2>4, <3>1, ContinuesTransitive
    <2> QED
      BY <2>5, <2>6
  <1>10. CASE RunnerDeadlineTimer
    <2>1. PICK r : r = [runner EXCEPT !.deadlineTimer = FALSE]
      OBVIOUS
    <2>2. r \in RunnerType
      BY <1>1, <2>1 DEF RunnerType
    <2>3. Continues(runner, r)
      BY <1>1, <2>1, <2>2 DEF RunnerType, Continues, Idle
    <2>4. Knows(r, G, P)
      BY <1>1, <2>1 DEF RunnerType, Knows
    <2>5. runner' = BudgetBegun(r) /\ r.claimed /\ "past_launch" \in G
      BY <1>6, <1>7, <1>10, <2>1, <2>3 DEF RunnerDeadlineTimer, Continues
    <2> QED
      BY <1>2, <2>2, <2>3, <2>4, <2>5, BudgetBegunSound, ContinuesTransitive
  <1>11. CASE RunnerBudgetEnds
    <2>1. PICK r : r = [runner EXCEPT !.budget = "fired"]
      OBVIOUS
    <2>2. r \in RunnerType
      BY <1>1, <2>1 DEF RunnerType
    <2>3. runner.claimed /\ "past_launch" \in G
      BY <1>1, <1>6, <1>11 DEF RunnerBudgetEnds, Knows
    <2>4. Continues(runner, r)
      BY <1>1, <2>1, <2>2, <2>3 DEF RunnerType, Continues
    <2>5. Knows(r, G, P)
      BY <1>1, <2>1, <2>3 DEF RunnerType, Knows
    <2>6. runner' = CutoverBegun(r) /\ r.claimed
      BY <1>11, <2>1, <2>3, <2>4 DEF RunnerBudgetEnds, Continues
    <2> QED
      BY <1>2, <2>2, <2>3, <2>4, <2>5, <2>6, CutoverBegunSound, ContinuesTransitive
  <1>12. CASE RunnerFreezes
    <2>1. PICK r : r = [runner EXCEPT !.coordinator = "freezing", !.stopping = TRUE]
      OBVIOUS
    <2>2. r \in RunnerType
      BY <1>1, <2>1 DEF RunnerType, CoordinatorStates
    <2>3. runner.claimed /\ "past_launch" \in G
      BY <1>1, <1>6, <1>12 DEF RunnerFreezes, Knows
    <2>4. Continues(runner, r)
      BY <1>1, <2>1, <2>2, <2>3 DEF RunnerType, Continues
    <2>5. Knows(r, G, P)
      BY <1>1, <2>1, <2>3 DEF RunnerType, Knows
    <2> QED
      BY <1>8, <1>12, <2>1, <2>2, <2>4, <2>5 DEF RunnerFreezes
  <1>13. CASE RunnerSeals
    <2>1. PICK out \in StreamResults, err \in StreamResults :
              runner' = Published([runner EXCEPT !.coordinator = "publishing"],
                                  TerminalEvidence(runner, out, err))
      BY <1>13 DEF RunnerSeals
    <2>2. PICK r : r = [runner EXCEPT !.coordinator = "publishing"]
      OBVIOUS
    <2>3. r \in RunnerType
      BY <1>1, <2>2 DEF RunnerType, CoordinatorStates
    <2>4. runner.claimed /\ "past_launch" \in G
      BY <1>1, <1>6, <1>13 DEF RunnerSeals, Knows
    <2>5. Continues(runner, r)
      BY <1>1, <2>2, <2>3, <2>4 DEF RunnerType, Continues
    <2>6. Knows(r, G, P)
      BY <1>1, <2>2, <2>4 DEF RunnerType, Knows
    <2>7. PICK p : p = TerminalEvidence(runner, out, err)
      OBVIOUS
    <2>8. p \in TruePublications(G, P)
      BY <1>1, <2>4, <2>7, TerminalIsTrue
    <2> QED
      BY <1>2, <2>1, <2>2, <2>3, <2>5, <2>6, <2>7, <2>8, PublishedSound,
         ContinuesTransitive
  <1>14. CASE RunnerDiscards
    <2>1. PICK r : r = [runner EXCEPT !.discarding = FALSE]
      OBVIOUS
    <2>2. r \in RunnerType
      BY <1>1, <2>1 DEF RunnerType
    <2>3. Continues(runner, r)
      BY <1>1, <2>1, <2>2 DEF RunnerType, Continues, Idle
    <2>4. Knows(r, G, P)
      BY <1>1, <2>1 DEF RunnerType, Knows
    <2>5. PICK p : p = SpawnFailure(runner)
      OBVIOUS
    <2>6. p \in TruePublications(G, P)
      BY <1>1, <1>14, <2>5, SpawnFailureIsTrue DEF RunnerDiscards, Knows
    <2> QED
      BY <1>2, <1>14, <2>1, <2>2, <2>3, <2>4, <2>5, <2>6, PublishedSound,
         ContinuesTransitive DEF RunnerDiscards
  <1>15. CASE RunnerSeesDisconnectEvent \/ RunnerSeesExitEvent
    <2>1. runner' = AfterGuardianLoss(runner) /\ runner.claimed /\ "past_launch" \in G
      BY <1>5, <1>7, <1>15
         DEF RunnerSeesDisconnectEvent, RunnerSeesDisconnect, RunnerSeesExitEvent, Become
    <2>2. ~runner.topologySucceeded /\ SpawnFailing(runner) # runner =>
              "no_launch" \in G
      BY <1>1, <1>4, <2>1 DEF AfterGuardianLoss, SpawnFailing, RunnerType
    <2> QED
      BY <1>1, <1>2, <2>1, <2>2, AfterGuardianLossSound
  <1>16. CASE RunnerObservesReceipt
    <2>1. PICK readable \in BOOLEAN :
              runner' = HeadDone([runner EXCEPT !.revision =
                            IF readable /\ ReceiptFound THEN LatestRevision(TheJob) ELSE @])
      BY <1>16 DEF RunnerObservesReceipt
    <2>2. PICK r : r = [runner EXCEPT !.revision =
                            IF readable /\ ReceiptFound THEN LatestRevision(TheJob) ELSE @]
      OBVIOUS
    <2>3. LatestRevision(TheJob) \in 0 .. MaxRevision
      <3>1. Len(results[TheJob]) \in Nat /\ Len(results[TheJob]) <= MaxRevision
        BY OneJobTwoStores DEF SupervisionInv, LedgerInv, TypeOK, StoreKnows, LatestRevision
      <3> QED
        BY <3>1, ConstantsAreSound DEF LatestRevision
    <2>4. r \in RunnerType
      BY <1>1, <2>2, <2>3 DEF RunnerType
    <2>5. Continues(runner, r)
      BY <1>1, <2>2, <2>4 DEF RunnerType, Continues, Idle
    <2>6. Knows(r, G, P)
      BY <1>1, <2>2 DEF RunnerType, Knows
    <2>7. r.publications # << >>
      BY <1>16, <2>2, <2>6 DEF RunnerObservesReceipt, Knows, RunnerType
    <2> QED
      BY <1>2, <2>1, <2>2, <2>4, <2>5, <2>6, <2>7, HeadDoneSound, ContinuesTransitive
  <1>17. CASE LaunchRunner \/ RunnerCrash
    <2>1. PICK s \in {"running", "gone"} : runner' = [runner EXCEPT !.process = s]
      BY <1>17 DEF LaunchRunner, RunnerCrash
    <2>2. runner' \in RunnerType
      BY <1>1, <2>1 DEF RunnerType
    <2>3. Continues(runner, runner')
      BY <1>1, <2>1, <2>2 DEF RunnerType, Continues, Idle
    <2>4. Knows(runner', G, P)
      BY <1>1, <2>1 DEF RunnerType, Knows
    <2> QED
      BY <1>2, <2>3, <2>4
  <1>18. CASE RunnerReceives
    <2>1. PICK m : m = Head(toRunner)
      OBVIOUS
    <2>2. runner.claimed /\ toRunner # << >>
      BY <1>5, <1>18 DEF RunnerReceives
    <2>3. m \in GuardianMessages /\ MessageFacts(m, G, P)
      <3>1. m \in TrueMessages
        BY <2>1, <2>2, HeadTailProperties DEF SupervisionInv, ChannelInv
      <3> QED
        BY <1>1, <3>1, MessageIsFact DEF MessageFacts
    <2>4. CASE runner.stopping
      BY <1>1, <1>8, <1>18, <2>4 DEF RunnerReceives, Become, Continues
    <2>5. CASE ~runner.stopping /\ ~(m.type = "topology" /\ m.ok)
      BY <1>1, <1>2, <1>18, <2>1, <2>2, <2>3, <2>5, HandledSound
         DEF RunnerReceives, Become
    <2>6. CASE ~runner.stopping /\ m.type = "topology" /\ m.ok
      <3>1. PICK r : r = [runner EXCEPT !.topologySucceeded = TRUE]
        OBVIOUS
      <3>2. r \in RunnerType /\ r.claimed
        BY <1>1, <2>2, <3>1 DEF RunnerType
      <3>3. runner' = IF r.grantSent \/ r.stopping THEN r ELSE [r EXCEPT !.deciding = "asked"]
        BY <1>18, <2>1, <2>6, <3>1 DEF RunnerReceives, Become, Handled, DecideAsked
      <3>4. runner' \in RunnerType
        BY <3>2, <3>3 DEF RunnerType
      <3>5. /\ runner'.claimed /\ runner'.topologySucceeded
            /\ runner'.grantSent = runner.grantSent /\ runner'.stopping = runner.stopping
            /\ runner'.deciding \in {runner.deciding, "asked"}
            /\ runner.grantSent => runner'.deciding = runner.deciding
        BY <1>1, <3>1, <3>2, <3>3 DEF RunnerType
      <3>6. RunnerMoves
        BY <1>1, <3>4, <3>5 DEF RunnerMoves, Path
      <3>7. Knows(runner', G, P)
        BY <1>1, <3>1, <3>3 DEF RunnerType, Knows
      <3> QED
        BY <3>6, <3>7
    <2> QED
      BY <2>4, <2>5, <2>6
  <1>19. CASE RunnerGrants
    <2>1. /\ runner' = [runner EXCEPT !.deciding = "no", !.grantSent = TRUE]
          /\ GrantsOnAnswer(runner) /\ runner.deciding # "no"
      BY <1>19 DEF RunnerGrants, Answered
    <2>2. runner.topologySucceeded /\ runner.claimed
      BY <1>1, <2>1 DEF Path, Idle
    <2>3. runner' \in RunnerType
      BY <1>1, <2>1 DEF RunnerType
    <2>4. RunnerMoves
      BY <1>1, <2>1, <2>2, <2>3 DEF RunnerType, RunnerMoves, Path
    <2>5. Knows(runner', G, P)
      BY <1>1, <2>1 DEF RunnerType, Knows
    <2> QED
      BY <2>4, <2>5
  <1>20. CASE RunnerDoesNotGrant
    <2>1. PICK r : r = [runner EXCEPT !.deciding = "no"]
      OBVIOUS
    <2>2. r \in RunnerType /\ Path(r)
      BY <1>1, <2>1 DEF RunnerType, Path, Idle
    <2>3. Knows(r, G, P)
      BY <1>1, <2>1 DEF RunnerType, Knows
    <2>4. PICK s : s = [r EXCEPT !.settled = TRUE]
      OBVIOUS
    <2>5. s \in RunnerType
      BY <2>2, <2>4 DEF RunnerType
    <2>6. Continues(r, s)
      BY <2>2, <2>4, <2>5 DEF RunnerType, Continues, Idle
    <2>7. Knows(s, G, P)
      BY <2>2, <2>3, <2>4 DEF RunnerType, Knows
    <2>8. runner' \in {r, Closed(r), Closed(s)}
      BY <1>20, <2>1, <2>4 DEF RunnerDoesNotGrant, Become, Abandoned
    <2>9. Continues(r, runner') /\ Knows(runner', G, P)
      <3>1. Continues(r, r)
        BY <2>2 DEF Continues
      <3>2. Continues(r, Closed(s)) /\ Knows(Closed(s), G, P)
        BY <2>5, <2>6, <2>7, ClosedSound, ContinuesTransitive
      <3> QED
        BY <2>2, <2>3, <2>8, <3>1, <3>2, ClosedSound
    <2>10. /\ r.claimed = runner.claimed /\ r.stopping = runner.stopping
           /\ r.grantSent = runner.grantSent /\ r.deciding = "no"
      BY <1>1, <2>1 DEF RunnerType
    <2>11. RunnerMoves
      BY <1>1, <2>2, <2>9, <2>10, ContinuingMoves DEF RunnerType
    <2> QED
      BY <2>9, <2>11
  <1>21. CASE RunnerClaims
    <2>1. PICK r : \/ r = [runner EXCEPT !.claimed = TRUE, !.readinessTimer = TRUE,
                                         !.deadlineTimer = TRUE]
                      /\ runner' = r
                   \/ r = [runner EXCEPT !.claimed = TRUE] /\ runner' = SpawnFailing(r)
      BY <1>21 DEF RunnerClaims
    <2>2. r \in RunnerType
      <3>1. [runner EXCEPT !.claimed = TRUE] \in RunnerType
        BY <1>1 DEF RunnerType
      <3>2. [runner EXCEPT !.claimed = TRUE, !.readinessTimer = TRUE,
                           !.deadlineTimer = TRUE] \in RunnerType
        BY <1>1 DEF RunnerType
      <3> QED
        BY <2>1, <3>1, <3>2
    <2>3. Knows(r, G, P)
      BY <1>1, <2>1 DEF RunnerType, Knows
    <2>4. /\ r.claimed /\ r.stopping = runner.stopping /\ r.grantSent = runner.grantSent
          /\ r.deciding = runner.deciding /\ r.topologySucceeded = runner.topologySucceeded
          /\ ~r.grantSent /\ Path(r)
      BY <1>1, <1>21, <2>1 DEF RunnerClaims, Claiming, RunnerType, Path, Idle
    <2>5. Continues(r, runner') /\ Knows(runner', G, P)
      BY <1>3, <2>1, <2>2, <2>3, <2>4 DEF Continues
    <2> QED
      BY <2>4, <2>5, ContinuingMoves
  <1>22. CASE RunnerClaimFails
    BY <1>1, <1>2, <1>22, ClosedSound DEF RunnerClaimFails
  <1>23. ASSUME NEW answer, Decides(answer),
                answer \in {"authorized_now", "suppressed_now", "error"},
                answer = "authorized_now" => DecisionAuthorizes
         PROVE  Sound
    <2>1. runner' = [runner EXCEPT !.deciding = answer] /\ runner.deciding = "asked"
      BY <1>23 DEF Decides
    <2>2. runner.topologySucceeded /\ runner.claimed /\ ~runner.grantSent
      BY <1>1, <2>1 DEF Path, Idle
    <2>3. runner' \in RunnerType
      BY <1>1, <1>23, <2>1 DEF RunnerType
    <2>4. RunnerMoves
      BY <1>1, <1>23, <2>1, <2>2, <2>3 DEF RunnerType, RunnerMoves, Path
    <2>5. Knows(runner', G, P)
      BY <1>1, <2>1 DEF RunnerType, Knows
    <2> QED
      BY <2>4, <2>5
  <1>24. CASE DecisionAuthorizes \/ DecisionSuppresses \/ DecisionFails
    BY <1>23, <1>24 DEF DecisionAuthorizes, DecisionSuppresses, DecisionFails
  <1>25. CASE RunnerPublishes
    <2>1. PICK b \in BOOLEAN, n \in 0 .. MaxRevision :
              runner' = HeadDone([runner EXCEPT !.revision = n, !.settled = b])
      <3>1. Len(results[TheJob]) + 1 \in 0 .. MaxRevision
        <4>1. Len(results[TheJob]) \in Nat
          BY OneJobTwoStores DEF SupervisionInv, LedgerInv, TypeOK
        <4>2. Len(results[TheJob]) < MaxRevision
          BY <1>25 DEF RunnerPublishes, PublishHead, PublishResult, RecordRevision,
                       LatestRevision
        <4> QED
          BY <4>1, <4>2, ConstantsAreSound
      <3>2. Head(runner.publications) \in TruePublications(G, P)
        BY <1>1, <1>25, HeadTailProperties DEF RunnerPublishes, Publishing, Knows
      <3>3. Head(runner.publications).finalized \in BOOLEAN
        BY <3>2, InputsAreRunnerInputs
           DEF TruePublications, TruePublication, ValidEvidenceInput, Given
      <3>4. (runner.settled \/ Head(runner.publications).finalized) \in BOOLEAN
        BY <1>1, <3>3 DEF RunnerType
      <3> QED
        BY <1>25, <3>1, <3>4 DEF RunnerPublishes, Become, LatestRevision
    <2>2. PICK r : r = [runner EXCEPT !.revision = n, !.settled = b]
      OBVIOUS
    <2>3. r \in RunnerType
      BY <1>1, <2>2 DEF RunnerType
    <2>4. Continues(runner, r)
      BY <1>1, <2>2, <2>3 DEF RunnerType, Continues, Idle
    <2>5. Knows(r, G, P)
      BY <1>1, <2>2 DEF RunnerType, Knows
    <2>6. r.publications # << >>
      BY <1>1, <1>25, <2>2 DEF RunnerPublishes, Publishing, RunnerType
    <2> QED
      BY <1>2, <2>1, <2>2, <2>3, <2>4, <2>5, <2>6, HeadDoneSound, ContinuesTransitive
  <1>26. CASE RunnerPublishFails
    <2>1. runner.publications # << >>
      BY <1>26 DEF RunnerPublishFails, Publishing
    <2>2. CASE Head(runner.publications).finalized
      BY <1>1, <1>2, <1>26, <2>1, <2>2, HeadDoneSound DEF RunnerPublishFails, Become
    <2>3. CASE ~Head(runner.publications).finalized
      <3>1. PICK r : r = [runner EXCEPT !.observing = TRUE]
        OBVIOUS
      <3>2. runner' = r
        BY <1>26, <2>3, <3>1 DEF RunnerPublishFails, Become
      <3>3. r \in RunnerType
        BY <1>1, <3>1 DEF RunnerType
      <3>4. Continues(runner, r)
        BY <1>1, <3>1, <3>3 DEF RunnerType, Continues, Idle
      <3>5. Knows(r, G, P)
        BY <1>1, <2>1, <2>3, <3>1 DEF RunnerType, Knows
      <3> QED
        BY <1>8, <3>2, <3>3, <3>4, <3>5
    <2> QED
      BY <2>2, <2>3
  <1>27. CASE LateDecision
    <2>1. runner' = [runner EXCEPT !.deciding = "no"]
      BY <1>27 DEF LateDecision
    <2>2. runner' \in RunnerType
      BY <1>1, <2>1 DEF RunnerType
    <2>3. RunnerMoves
      BY <1>1, <2>1, <2>2 DEF RunnerType, RunnerMoves, Path, Idle
    <2>4. Knows(runner', G, P)
      BY <1>1, <2>1 DEF RunnerType, Knows
    <2> QED
      BY <2>3, <2>4
  <1>28. CASE LatePublication
    <2>1. runner' = [runner EXCEPT !.publications = << >>] /\ ~runner.observing
      BY <1>28 DEF LatePublication, Publishing
    <2>2. << >> \in Seq(EvidenceInputs) /\ << >> \in Seq(TruePublications(G, P))
      OBVIOUS
    <2>3. runner' \in RunnerType
      BY <1>1, <2>1, <2>2 DEF RunnerType
    <2>4. Continues(runner, runner')
      BY <1>1, <2>1, <2>3 DEF RunnerType, Continues, Idle
    <2>5. Knows(runner', G, P)
      BY <1>1, <2>1, <2>2 DEF RunnerType, Knows
    <2> QED
      BY <1>2, <2>4, <2>5
  <1> QED
    BY <1>9, <1>10, <1>11, <1>12, <1>13, <1>14, <1>15, <1>16, <1>17, <1>18, <1>19,
       <1>20, <1>21, <1>22, <1>24, <1>25, <1>26, <1>27, <1>28
       DEF RunnerActs, RunnerHandles, StoreAnswers

\* The runner may close its end of the channel and opens the channel once, when
\* it spawns the guardian.
EndsKept ==
    /\ guardianProcess' = guardianProcess
    /\ guardianEnd' \in BOOLEAN /\ (guardianEnd' <=> guardianEnd)
    /\ runnerEnd' \in BOOLEAN /\ (runnerEnd' => runnerEnd)

ChannelOpened ==
    /\ guardianProcess = "unborn" /\ guardianProcess' = "booting" /\ runner'.claimed
    /\ guardianEnd' = TRUE /\ runnerEnd' = TRUE
    /\ UNCHANGED <<toRunner, toGuardian>>

\* How the runner uses what it shares with the guardian.
LEMMA RunnerUsesLink ==
    ASSUME SupervisionInv, RunnerActs
    PROVE  /\ expired' = expired
           /\ \/ toRunner' = toRunner
              \/ runnerEnd /\ toRunner # << >> /\ toRunner' = Tail(toRunner)
           /\ \/ toGuardian' = toGuardian
              \/ /\ runnerEnd /\ toGuardian' = toGuardian \o <<[type |-> "hello_reply"]>>
                 /\ toRunner # << >> /\ Head(toRunner).type = "hello"
                 /\ toRunner' = Tail(toRunner)
              \/ /\ runnerEnd /\ runner'.grantSent
                 /\ toGuardian' = toGuardian \o <<[type |-> "grant"]>>
           /\ EndsKept \/ ChannelOpened
  <1>1. /\ runner \in RunnerType /\ runnerEnd \in BOOLEAN /\ guardianEnd \in BOOLEAN
        /\ ~runner.claimed => guardianProcess = "unborn"
    BY DEF SupervisionInv, SupervisionTypeOK, LinkOK, GrantPath
  <1>2. ASSUME guardianProcess' = guardianProcess, guardianEnd' = guardianEnd,
               \/ runnerEnd' = runnerEnd \/ runnerEnd' = FALSE \/ \E r : Become(r)
        PROVE  EndsKept
    <2>1. runnerEnd' \in BOOLEAN /\ (runnerEnd' => runnerEnd)
      <3>1. ASSUME runnerEnd' = runnerEnd
            PROVE  runnerEnd' \in BOOLEAN /\ (runnerEnd' => runnerEnd)
        BY <1>1, <3>1, Zenon
      <3>2. ASSUME NEW r, runnerEnd' = (runnerEnd /\ ~r.closed)
            PROVE  runnerEnd' \in BOOLEAN /\ (runnerEnd' => runnerEnd)
        BY <3>2
      <3>3. ASSUME runnerEnd' = FALSE
            PROVE  runnerEnd' \in BOOLEAN /\ (runnerEnd' => runnerEnd)
        BY <3>3
      <3> QED
        BY <1>2, <3>1, <3>2, <3>3 DEF Become
    <2>2. guardianEnd' \in BOOLEAN /\ (guardianEnd' <=> guardianEnd)
      BY <1>1, <1>2, Zenon
    <2> QED
      BY <1>2, <2>1, <2>2 DEF EndsKept
  <1>3. CASE UNCHANGED link
    BY <1>2, <1>3 DEF link, ends
  <1>4. CASE \/ LaunchRunner \/ RunnerClaimFails \/ DecisionAuthorizes \/ DecisionSuppresses
             \/ DecisionFails \/ RunnerObservesReceipt \/ RunnerReadinessTimeout
             \/ RunnerDeadlineTimer \/ RunnerBudgetEnds \/ RunnerFreezes \/ RunnerSeals
             \/ RunnerDiscards \/ LateDecision \/ LatePublication
    BY <1>3, <1>4
       DEF LaunchRunner, RunnerClaimFails, DecisionAuthorizes, DecisionSuppresses,
           DecisionFails, Decides, RunnerObservesReceipt, RunnerReadinessTimeout,
           RunnerDeadlineTimer, RunnerBudgetEnds, RunnerFreezes, RunnerSeals,
           RunnerDiscards, LateDecision, LatePublication
  <1>5. CASE RunnerClaims
    <2>1. CASE /\ runner' = [runner EXCEPT !.claimed = TRUE, !.readinessTimer = TRUE,
                                           !.deadlineTimer = TRUE]
               /\ guardianProcess' = "booting" /\ runnerEnd' = TRUE /\ guardianEnd' = TRUE
      <3>1. runner'.claimed
        BY <1>1, <2>1 DEF RunnerType
      <3> QED
        BY <1>1, <1>5, <2>1, <3>1 DEF RunnerClaims, Claiming, ChannelOpened
    <2>2. CASE UNCHANGED <<guardianProcess, ends>>
      BY <1>2, <1>5, <2>2 DEF RunnerClaims, ends
    <2> QED
      BY <1>5, <2>1, <2>2 DEF RunnerClaims
  <1>6. CASE RunnerGrants
    <2>1. runner'.grantSent /\ runnerEnd
      BY <1>1, <1>6 DEF RunnerGrants, RunnerType
    <2> QED
      BY <1>2, <1>6, <2>1 DEF RunnerGrants, SendToGuardian, ends
  <1>7. CASE RunnerReceives
    BY <1>2, <1>7 DEF RunnerReceives, SendToGuardian
  <1>8. CASE RunnerDoesNotGrant \/ RunnerPublishes \/ RunnerPublishFails
             \/ RunnerSeesExitEvent
    BY <1>2, <1>8
       DEF RunnerDoesNotGrant, RunnerPublishes, RunnerPublishFails, RunnerSeesExitEvent
  <1>9. CASE RunnerSeesDisconnectEvent \/ RunnerCrash
    BY <1>2, <1>9 DEF RunnerSeesDisconnectEvent, RunnerCrash
  <1> QED
    BY <1>4, <1>5, <1>6, <1>7, <1>8, <1>9 DEF RunnerActs, RunnerHandles, StoreAnswers

-----------------------------------------------------------------------------
(* The invariant *)

\* A step is the runner's, the guardian's, or the owner's.
LEMMA ThreeActors ==
    ASSUME SupervisionNext
    PROVE  \/ RunnerActs /\ UNCHANGED guardianVars
           \/ GuardianActs /\ UNCHANGED <<vars, runnerVars>>
           \/ UNCHANGED <<runnerVars, guardianVars, link>>
  BY DEF SupervisionNext, OwnerActs, OwnerReserves, OwnerCancels, OwnerObserves,
         OwnerPublishesUncertainty, RunnerRuns, StoreServes, GuardianRuns, TimePasses,
         Crash, RunnerActs, GuardianActs

\* The facts only grow.
LEMMA FactsGrow ==
    ASSUME SupervisionInv, SupervisionNext
    PROVE  Advances /\ Facts \subseteq Facts' /\ Ends \subseteq Ends'
  <1>1. Advances
    <2>1. CASE GuardianActs
      BY <2>1, GuardianKeeps DEF SupervisionInv, HelloOnce
    <2>2. CASE UNCHANGED guardianVars /\ expired' = expired
      BY <2>2 DEF guardianVars, Advances, NeverStarts
    <2> QED
      BY <2>1, <2>2, ThreeActors, RunnerUsesLink DEF link
  <1>2. ~runner.grantSent /\ runner.stopping => ~runner'.grantSent /\ runner'.stopping
    <2>1. CASE RunnerActs
      <3>1. RunnerMoves
        <4>1. PICK G, P : G = FactNames /\ P = Ends
          OBVIOUS
        <4>2. Facts \subseteq G /\ Ends \subseteq P /\ "no_launch" \in G
          BY <4>1 DEF Facts, FactNames
        <4> QED
          BY <2>1, <4>2, RunnerTurns
      <3> QED
        BY <3>1 DEF RunnerMoves, GrantsOnAnswer
    <2>2. CASE runner' = runner
      BY <2>2
    <2> QED
      BY <2>1, <2>2, ThreeActors DEF runnerVars
  <1>3. NoLaunch => NoLaunch'
    BY <1>1, <1>2 DEF NoLaunch, Advances
  <1>4. PastLaunch => PastLaunch'
    <2>1. /\ expired => expired'
          /\ guardian.state \notin {"starting", "ready"} =>
                 guardian'.state \notin {"starting", "ready"}
      BY <1>1 DEF Advances
    <2>2. /\ guardianProcess = "gone" => guardianProcess' = "gone"
          /\ guardianProcess # "unborn" /\ ~guardianEnd =>
                 guardianProcess' # "unborn" /\ ~guardianEnd'
      <3>1. CASE RunnerActs
        BY <3>1, RunnerUsesLink DEF EndsKept, ChannelOpened
      <3>2. CASE GuardianActs
        <4>1. guardianEnd' = guardianEnd \/ guardianEnd' = FALSE
          BY <3>2, GuardianUsesLink
        <4>2. ~guardianEnd => ~guardianEnd'
          BY <4>1, Zenon
        <4>3. /\ guardianProcess = "gone" => guardianProcess' = "gone"
              /\ guardianProcess # "unborn" => guardianProcess' # "unborn"
          BY <3>2, GuardianUsesLink
        <4> QED
          BY <4>2, <4>3
      <3>3. CASE UNCHANGED link
        BY <3>3, Zenon DEF link, ends
      <3> QED
        BY <3>1, <3>2, <3>3, ThreeActors
    <2> QED
      BY <2>1, <2>2 DEF PastLaunch
  <1>5. Facts \subseteq Facts'
    BY <1>1, <1>3, <1>4 DEF Facts, Advances
  <1>6. Ends \subseteq Ends'
    BY <1>1 DEF Ends, Advances
  <1> QED
    BY <1>1, <1>5, <1>6

\* The path of the grant through a step of the runner.
LEMMA RunnerKeepsPath ==
    ASSUME SupervisionInv, RunnerActs, RunnerMoves, [Next]_vars, UNCHANGED guardianVars
    PROVE  GrantPath'
  <1>1. /\ guardianProcess = "unborn" => NoGuardianYet
        /\ ~runner.claimed => guardianProcess = "unborn"
        /\ runner.deciding = "authorized_now" \/ runner.grantSent => Authorized
        /\ toGuardian \in Seq(RunnerMessages)
        /\ GrantTaken => runner.grantSent
    BY DEF SupervisionInv, GrantPath
  <1>2. guardianProcess' = "unborn" => NoGuardianYet'
    <2>1. CASE EndsKept /\ guardianProcess = "unborn"
      <3>1. NoGuardianYet /\ ~runnerEnd /\ ~runnerEnd'
        BY <1>1, <2>1 DEF EndsKept, NoGuardianYet
      <3>2. toRunner' = toRunner /\ toGuardian' = toGuardian
        BY <3>1, RunnerUsesLink
      <3> QED
        BY <3>1, <3>2 DEF NoGuardianYet, guardianVars
    <2> QED
      BY <2>1, RunnerUsesLink DEF EndsKept, ChannelOpened
  <1>3. ~runner'.claimed => guardianProcess' = "unborn"
    BY <1>1, RunnerUsesLink DEF RunnerMoves, EndsKept, ChannelOpened
  <1>4. runner'.deciding = "authorized_now" \/ runner'.grantSent => Authorized'
    <2>1. CASE Authorized
      BY <2>1, AuthorizedStays, OneJobTwoStores DEF SupervisionInv, Authorized
    <2>2. CASE DecisionAuthorizes
      <3>1. /\ TheJob \in JobIds /\ TypeOK /\ Ledger(TheJob)
            /\ AuthorizeLaunch(RunnerStore, TheJob, TheClaim, Clock, "returned")
        BY <2>2, OneJobTwoStores DEF SupervisionInv, LedgerInv, DecisionAuthorizes
      <3>2. grants[TheJob] = 0
        BY <3>1 DEF AuthorizeLaunch, MayDecide, Ledger, GrantFollowsDecision
      <3>3. /\ control' = [control EXCEPT ![TheJob].launchDecision = "authorized",
                                          ![TheJob].decidedAt = Clock]
            /\ grants' = [grants EXCEPT ![TheJob] = @ + 1]
        BY <3>1 DEF AuthorizeLaunch, Decide
      <3>4. control \in [JobIds -> ControlRow] /\ grants \in [JobIds -> Nat]
        BY <3>1 DEF TypeOK
      <3>5. control'[TheJob].launchDecision = "authorized"
        BY <3>1, <3>3, <3>4 DEF ControlRow
      <3>6. grants'[TheJob] = 1
        BY <3>1, <3>2, <3>3, <3>4
      <3> QED
        BY <3>5, <3>6 DEF Authorized
    <2> QED
      BY <1>1, <2>1, <2>2 DEF RunnerMoves, GrantsOnAnswer
  <1>5. toGuardian' \in Seq(RunnerMessages')
    <2>1. RunnerMessages \subseteq RunnerMessages'
      BY DEF RunnerMoves, RunnerMessages
    <2>2. toGuardian \in Seq(RunnerMessages')
      BY <1>1, <2>1, SeqOfMore
    <2>3. [type |-> "hello_reply"] \in RunnerMessages'
      BY DEF RunnerMessages
    <2>4. runner'.grantSent => [type |-> "grant"] \in RunnerMessages'
      BY DEF RunnerMessages
    <2>5. ASSUME NEW m \in RunnerMessages' PROVE toGuardian \o <<m>> \in Seq(RunnerMessages')
      BY <2>2, <2>5, ConcatProperties, ShortSequences
    <2> QED
      BY <2>2, <2>3, <2>4, <2>5, RunnerUsesLink
  <1>6. GrantTaken' => runner'.grantSent
    BY <1>1 DEF RunnerMoves, GrantTaken, guardianVars
  <1> QED
    BY <1>2, <1>3, <1>4, <1>5, <1>6 DEF GrantPath, RunnerMoves

\* The path of the grant through a step of the guardian: it takes no grant but one
\* that was sent.
LEMMA GuardianKeepsPath ==
    ASSUME SupervisionInv, GuardianActs, UNCHANGED <<vars, runnerVars>>
    PROVE  GrantPath'
  <1>1. /\ guardianProcess = "unborn" => NoGuardianYet
        /\ ~runner.claimed => guardianProcess = "unborn"
        /\ runner.deciding = "authorized_now" \/ runner.grantSent => Authorized
        /\ toGuardian \in Seq(RunnerMessages)
        /\ GrantTaken => runner.grantSent
        /\ Path(runner) /\ runner' = runner
    BY DEF SupervisionInv, GrantPath, runnerVars
  <1>2. guardianProcess' = "unborn" => NoGuardianYet'
    <2>1. guardianProcess' = "unborn" =>
              NoGuardianYet /\ UNCHANGED <<guardianVars, toRunner, toGuardian, ends>>
      BY <1>1, GuardianUsesLink
    <2> QED
      BY <2>1 DEF NoGuardianYet, guardianVars, ends
  <1>3. ~runner'.claimed => guardianProcess' = "unborn"
    BY <1>1, GuardianUsesLink
  <1>4. Authorized => Authorized'
    BY DEF Authorized, vars, tables, history
  <1>5. toGuardian' \in Seq(RunnerMessages')
    <2>1. RunnerMessages' = RunnerMessages
      BY <1>1 DEF RunnerMessages
    <2>2. toGuardian # << >> => Tail(toGuardian) \in Seq(RunnerMessages)
      BY <1>1, HeadTailProperties
    <2> QED
      BY <1>1, <2>1, <2>2, GuardianUsesLink
  <1>6. ASSUME ~GrantTaken, GrantTaken' PROVE runner.grantSent
    <2>1. PICK started \in BOOLEAN : GrantSpawns(started)
      BY <1>6, GuardianTakesGrants DEF SupervisionInv
    <2>2. toGuardian # << >> /\ Head(toGuardian).type = "grant"
      BY <2>1 DEF GrantSpawns, Receive
    <2>3. Head(toGuardian) \in RunnerMessages
      BY <1>1, <2>2, HeadTailProperties
    <2> QED
      BY <2>2, <2>3 DEF RunnerMessages
  <1> QED
    BY <1>1, <1>2, <1>3, <1>4, <1>5, <1>6 DEF GrantPath

\* What is read of a channel is on it no more, and the rest moves up.
LEMMA ReadingMovesUp ==
    ASSUME NEW S, NEW s \in Seq(S), s # << >>
    PROVE  \A i \in DOMAIN Tail(s) : i + 1 \in DOMAIN s \ {1} /\ Tail(s)[i] = s[i + 1]
  BY HeadTailProperties

\* The hello and its answer through a step of the guardian.
LEMMA GuardianKeepsHello ==
    ASSUME GuardianInv, ChannelInv, HelloOnce, GuardianActs
    PROVE  HelloOnce'
  <1>1. PeerlessInv /\ toRunner \in Seq(TrueMessages)
    BY DEF GuardianInv, CleanupInOrder, PeerlessInv, ChannelInv
  <1>2. RepliedOnce'
    BY <1>1, RepliesAreRead DEF HelloOnce
  <1>3. guardianProcess' \in {"unborn", "booting"} =>
            guardianProcess \in {"unborn", "booting"} /\ ~GuardianBoots
    BY GuardianUsesLink DEF GuardianBoots
  <1>4. ASSUME Replies = {}, ~guardian.helloReceived
        PROVE  Replies' = {} /\ ~guardian'.helloReceived
    <2>1. ~GuardianHelloReply
      BY <1>4 DEF GuardianHelloReply, Receive, Replies, HelloOnce, RepliedOnce
    <2>2. ~guardian'.helloReceived
      BY <1>1, <1>4, <2>1, GuardianPays DEF Pays
    <2>3. toGuardian \in Seq([type : PeerMessages])
      BY DEF HelloOnce, RepliedOnce
    <2>4. Replies' = {}
      BY <1>4, <2>3, GuardianUsesLink, ReadingMovesUp DEF Replies
    <2> QED
      BY <2>2, <2>4
  <1>5. CASE GuardianBoots
    <2>1. /\ guardianProcess = "booting" /\ guardianProcess' = "running"
          /\ Hellos = {} /\ Replies = {} /\ ~guardian.helloReceived
      BY <1>5 DEF GuardianBoots, HelloOnce
    <2>2. \A i, k \in Hellos' : i = k
      BY <1>1, <1>5, <2>1 DEF GuardianBoots, SendToRunner, Hellos
    <2> QED
      BY <1>2, <1>4, <2>1, <2>2 DEF HelloOnce
  <1>6. CASE ~GuardianBoots
    <2>1. Reports
      BY <1>6, GuardianReports DEF HelloOnce
    <2>2. ASSUME NEW ms \in Seq(News), toRunner' = toRunner \o ms
          PROVE  Hellos' = Hellos
      <3>1. /\ DOMAIN toRunner' = 1 .. Len(toRunner) + Len(ms)
            /\ \A i \in DOMAIN toRunner' :
                   toRunner'[i] = IF i <= Len(toRunner) THEN toRunner[i]
                                                        ELSE ms[i - Len(toRunner)]
        BY <1>1, <2>2, ConcatProperties
      <3>2. \A i \in 1 .. Len(ms) : ms[i].type # "hello"
        BY <2>2 DEF News
      <3> QED
        BY <1>1, <2>2, <3>1, <3>2 DEF Hellos
    <2>3. Hellos' = Hellos
      BY <2>1, <2>2 DEF Reports, SendToRunner, Hellos
    <2> QED
      BY <1>2, <1>3, <1>4, <2>3 DEF HelloOnce
  <1> QED
    BY <1>5, <1>6

\* And through a step of the runner, which answers by reading it.
LEMMA RunnerKeepsHello ==
    ASSUME SupervisionInv, RunnerActs, UNCHANGED guardianVars
    PROVE  HelloOnce'
  <1>1. /\ HelloOnce /\ toRunner \in Seq(TrueMessages)
        /\ toGuardian \in Seq([type : PeerMessages])
        /\ guardian'.helloReceived = guardian.helloReceived
    BY DEF SupervisionInv, ChannelInv, HelloOnce, RepliedOnce, guardianVars
  <1>2. \/ guardianProcess' = guardianProcess
        \/ guardianProcess = "unborn" /\ guardianProcess' = "booting"
    BY RunnerUsesLink DEF EndsKept, ChannelOpened
  <1>3. /\ \A i \in Hellos' : i \in Hellos \/ i + 1 \in Hellos \ {1}
        /\ \A i, k \in Hellos' : i = k
        /\ Hellos = {} => Hellos' = {}
    <2>1. CASE toRunner' = toRunner
      BY <1>1, <2>1 DEF Hellos, HelloOnce
    <2>2. CASE toRunner # << >> /\ toRunner' = Tail(toRunner)
      <3>1. \A i \in Hellos' : i \in Nat /\ i + 1 \in Hellos \ {1}
        BY <1>1, <2>2, ReadingMovesUp, HeadTailProperties DEF Hellos
      <3> QED
        BY <1>1, <3>1 DEF HelloOnce
    <2> QED
      BY <2>1, <2>2, RunnerUsesLink
  <1>4. ASSUME NEW m, m \in [type : PeerMessages], toGuardian' = toGuardian \o <<m>>
        PROVE  /\ toGuardian' \in Seq([type : PeerMessages])
               /\ Replies' = IF m.type = "hello_reply"
                             THEN Replies \cup {Len(toGuardian) + 1} ELSE Replies
    <2>1. /\ toGuardian' \in Seq([type : PeerMessages])
          /\ Len(toGuardian') = Len(toGuardian) + 1
          /\ \A i \in 1 .. Len(toGuardian) : toGuardian'[i] = toGuardian[i]
          /\ toGuardian'[Len(toGuardian) + 1] = m
      BY <1>1, <1>4
    <2> QED
      BY <1>1, <1>4, <2>1 DEF Replies
  <1>5. CASE toGuardian' = toGuardian
    <2>1. Replies' = Replies
      BY <1>5 DEF Replies
    <2> QED
      BY <1>1, <1>2, <1>3, <1>5, <2>1 DEF HelloOnce, RepliedOnce
  <1>6. CASE toGuardian' = toGuardian \o <<[type |-> "grant"]>>
    <2>1. /\ [type |-> "grant"] \in [type : PeerMessages]
          /\ [type |-> "grant"].type = "grant"
      BY DEF PeerMessages
    <2>2. toGuardian' \in Seq([type : PeerMessages]) /\ Replies' = Replies
      BY <1>4, <1>6, <2>1
    <2> QED
      BY <1>1, <1>2, <1>3, <2>2 DEF HelloOnce, RepliedOnce
  <1>7. CASE /\ toGuardian' = toGuardian \o <<[type |-> "hello_reply"]>>
             /\ toRunner # << >> /\ Head(toRunner).type = "hello"
             /\ toRunner' = Tail(toRunner)
    <2>1. 1 \in Hellos
      BY <1>1, <1>7 DEF Hellos
    <2>2. /\ Replies = {} /\ ~guardian.helloReceived
          /\ guardianProcess \notin {"unborn", "booting"}
      BY <1>1, <2>1 DEF HelloOnce
    <2>3. Hellos' = {}
      <3>1. \A i \in Hellos' : i \in Nat /\ i + 1 \in Hellos \ {1}
        BY <1>1, <1>7, ReadingMovesUp, HeadTailProperties DEF Hellos
      <3> QED
        BY <1>1, <2>1, <3>1 DEF HelloOnce
    <2>4. /\ [type |-> "hello_reply"] \in [type : PeerMessages]
          /\ [type |-> "hello_reply"].type = "hello_reply"
      BY DEF PeerMessages
    <2>5. /\ toGuardian' \in Seq([type : PeerMessages])
          /\ Replies' = {Len(toGuardian) + 1}
      BY <1>4, <1>7, <2>2, <2>4
    <2> QED
      BY <1>1, <1>2, <2>2, <2>3, <2>5 DEF HelloOnce, RepliedOnce
  <1> QED
    BY <1>5, <1>6, <1>7, RunnerUsesLink

\* Every step, whoever's it is, preserves the invariant.
LEMMA SupervisionStep ==
    SupervisionInv /\ [SupervisionNext]_supervisionVars => SupervisionInv'
  <1> SUFFICES ASSUME SupervisionInv, SupervisionNext \/ UNCHANGED supervisionVars
               PROVE  SupervisionInv'
    OBVIOUS
  <1>0. ASSUME UNCHANGED supervisionVars
        PROVE  /\ UNCHANGED vars /\ UNCHANGED <<runnerVars, guardianVars, link>>
               /\ Advances /\ Facts \subseteq Facts' /\ Ends \subseteq Ends'
    <2>1. UNCHANGED vars /\ UNCHANGED <<runnerVars, guardianVars, link>>
      BY <1>0 DEF supervisionVars
    <2>2. Advances
      BY <2>1 DEF guardianVars, link, Advances, NeverStarts
    <2>3. Facts' = Facts /\ Ends' = Ends
      BY <2>1
         DEF runnerVars, guardianVars, link, ends, Facts, Ends, NoLaunch, PastLaunch,
             NeverStarts
    <2> QED
      BY <2>1, <2>2, <2>3
  <1>1. Advances /\ Facts \subseteq Facts' /\ Ends \subseteq Ends'
    BY <1>0, FactsGrow
  <1>2. StoreMove /\ [Next]_vars
    BY <1>0, EveryStepIsAStoreMove, StoreMoveIsNext
       DEF SupervisionInv, SupervisionTypeOK, StoreMove
  <1>3. LedgerInv'
    BY <1>2, LedgerStep DEF SupervisionInv
  <1>4. StoreKnows'
    <2>1. PICK G, P : G = Facts' /\ P = Ends'
      OBVIOUS
    <2>2. /\ \A i \in DOMAIN results'[TheJob] : TrueEvidence(results'[TheJob][i], G, P)
          /\ Len(results'[TheJob]) <= MaxRevision
          /\ Known(TheJob)' => jobs'[TheJob].deadlineAt > 0
      BY <1>1, <1>2, <2>1, StoreStaysTrue DEF SupervisionInv, SupervisionTypeOK
    <2> QED
      BY <2>1, <2>2 DEF StoreKnows, LatestRevision
  <1>5. runner' = runner => Knows(runner', Facts', Ends')
    BY <1>1, TruthOutlives DEF SupervisionInv
  <1>6. CASE RunnerActs /\ UNCHANGED guardianVars
    <2>1. RunnerMoves /\ Knows(runner', Facts', Ends')
      <3>1. PICK G, P : G = Facts' /\ P = Ends'
        OBVIOUS
      <3>2. runner'.stopping /\ ~runner'.grantSent => "no_launch" \in G
        BY <3>1 DEF Facts, FactNames, NoLaunch
      <3> QED
        BY <1>1, <1>6, <3>1, <3>2, RunnerTurns
    <2>2. GrantPath'
      BY <1>2, <1>6, <2>1, RunnerKeepsPath
    <2>3. EndsKept \/ ChannelOpened
      BY <1>6, RunnerUsesLink
    <2>4. SupervisionTypeOK'
      BY <1>6, <2>1, <2>3
         DEF SupervisionInv, SupervisionTypeOK, guardianVars, RunnerMoves, EndsKept,
             ChannelOpened, ProcessStates
    <2>5. LinkOK'
      <3>1. expired' \in BOOLEAN
        BY <1>6, RunnerUsesLink DEF SupervisionInv, LinkOK
      <3> QED
        BY <2>3, <3>1 DEF LinkOK, EndsKept, ChannelOpened
    <2>6. GuardianInv'
      <3>1. guardianProcess = "gone" => guardianProcess' = "gone"
        BY <2>3 DEF EndsKept, ChannelOpened
      <3> QED
        BY <1>6, <3>1
           DEF SupervisionInv, GuardianInv, LaunchInOrder, CleanupInOrder, CleanupOnce,
               guardianVars
    <2>7. ChannelInv'
      BY <1>1, <1>6, RunnerUsesLink, NothingSent DEF SupervisionInv
    <2>8. HelloOnce'
      BY <1>6, RunnerKeepsHello
    <2> QED
      BY <1>3, <1>4, <2>1, <2>2, <2>4, <2>5, <2>6, <2>7, <2>8 DEF SupervisionInv
  <1>7. CASE GuardianActs /\ UNCHANGED <<vars, runnerVars>>
    <2>1. GuardianInv' /\ ChannelInv'
      BY <1>7, GuardianKeeps, GuardianTellsTheTruth DEF SupervisionInv, HelloOnce
    <2>2. SupervisionTypeOK'
      <3>1. guardianProcess' \in ProcessStates
        BY <1>7, GuardianUsesLink DEF SupervisionInv, SupervisionTypeOK, ProcessStates
      <3>2. runner' \in RunnerType
        BY <1>7 DEF SupervisionInv, SupervisionTypeOK, runnerVars
      <3> QED
        BY <2>1, <3>1, <3>2 DEF SupervisionTypeOK, GuardianInv
    <2>3. LinkOK'
      <3>1. /\ runnerEnd' = runnerEnd
            /\ guardianEnd' = guardianEnd \/ guardianEnd' = FALSE
            /\ expired' = expired \/ expired' = TRUE
        BY <1>7, GuardianUsesLink
      <3>2. runnerEnd \in BOOLEAN /\ guardianEnd \in BOOLEAN /\ expired \in BOOLEAN
        BY DEF SupervisionInv, LinkOK
      <3> QED
        BY <3>1, <3>2 DEF LinkOK
    <2>4. GrantPath'
      BY <1>7, GuardianKeepsPath
    <2>5. HelloOnce'
      BY <1>7, GuardianKeepsHello DEF SupervisionInv
    <2> QED
      BY <1>3, <1>4, <1>5, <1>7, <2>1, <2>2, <2>3, <2>4, <2>5 DEF SupervisionInv, runnerVars
  <1>8. CASE UNCHANGED <<runnerVars, guardianVars, link>>
    <2>1. SupervisionTypeOK' /\ LinkOK' /\ GuardianInv' /\ ChannelInv'
      BY <1>8
         DEF SupervisionInv, runnerVars, guardianVars, link, ends,
             SupervisionTypeOK, LinkOK, GuardianInv, LaunchInOrder, CleanupInOrder,
             CleanupOnce,
             ChannelInv, TrueMessages, HoldsTrue, NeverStarts
    <2>2. Authorized => Authorized'
      BY <1>2, AuthorizedStays, OneJobTwoStores DEF SupervisionInv, Authorized
    <2>3. GrantPath'
      BY <1>8, <2>2
         DEF SupervisionInv, runnerVars, guardianVars, link, ends, GrantPath,
             NoGuardianYet, RunnerMessages, GrantTaken
    <2>4. HelloOnce'
      BY <1>8
         DEF SupervisionInv, guardianVars, link, HelloOnce, RepliedOnce, Hellos, Replies
    <2> QED
      BY <1>3, <1>4, <1>5, <1>8, <2>1, <2>3, <2>4 DEF SupervisionInv, runnerVars
  <1> QED
    BY <1>0, <1>6, <1>7, <1>8, ThreeActors

\* Nothing has happened yet.
LEMMA SupervisionStart == SupervisionInit => SupervisionInv
  <1> SUFFICES ASSUME SupervisionInit PROVE SupervisionInv
    OBVIOUS
  <1>1. /\ runner = NewRunner /\ guardian = NewGuardian /\ shell = NoShell
        /\ toRunner = << >> /\ toGuardian = << >> /\ runnerEnd = FALSE
        /\ guardianEnd = FALSE /\ guardianProcess = "unborn" /\ expired = FALSE /\ Init
    BY DEF SupervisionInit
  <1>2. runner \in RunnerType
    BY <1>1, ConstantsAreSound DEF NewRunner, RunnerType, CoordinatorStates
  <1>3. GuardianInv
    BY <1>1
       DEF NewGuardian, NoShell, GuardianInv, GuardianType, GuardianStates, ShellType,
           LaunchInOrder, CleanupInOrder, CleanupOnce
  <1>4. SupervisionTypeOK /\ LinkOK
    BY <1>1, <1>2, <1>3 DEF SupervisionTypeOK, LinkOK, GuardianInv, ProcessStates
  <1>5. LedgerInv
    BY <1>1, LedgerInit
  <1>6. ChannelInv
    BY <1>1 DEF ChannelInv
  <1>7. GrantPath
    <2>1. Path(runner)
      BY <1>1 DEF NewRunner, Path, Idle
    <2>2. << >> \in Seq(RunnerMessages)
      OBVIOUS
    <2> QED
      BY <1>1, <2>1, <2>2
         DEF NewRunner, NewGuardian, NoShell, GrantPath, NoGuardianYet, GrantTaken
  <1>8. Knows(runner, Facts, Ends)
    <2>1. NoRunnerOutcome \in Ends
      BY DEF Ends, NoRunnerOutcome, NoOutcome
    <2>2. << >> \in Seq(TruePublications(Facts, Ends))
      OBVIOUS
    <2> QED
      BY <1>1, <2>1, <2>2 DEF NewRunner, Knows
  <1>9. StoreKnows
    BY <1>1, OneJobTwoStores, ConstantsAreSound
       DEF Init, StoreKnows, LatestRevision, Known, NoJob
  <1>10. HelloOnce
    BY <1>1 DEF NewGuardian, HelloOnce, RepliedOnce, Hellos, Replies
  <1> QED
    BY <1>3, <1>4, <1>5, <1>6, <1>7, <1>8, <1>9, <1>10 DEF SupervisionInv

\* The invariant, whatever the constants.
LEMMA SupervisionAlways == SupervisionSpec => []SupervisionInv
  BY SupervisionStart, SupervisionStep, PTL DEF SupervisionSpec

-----------------------------------------------------------------------------
(* Theorems *)

\* The runner, the guardian and the shell keep the shapes the code gives them.
THEOREM SupervisionTypeCorrect == SupervisionSpec => []SupervisionTypeOK
  <1>1. SupervisionInv => SupervisionTypeOK
    BY DEF SupervisionInv
  <1> QED
    BY <1>1, SupervisionAlways, PTL

\* A shell runs only for a grant that the store gave, whatever was lost, failed
\* or died on the way from the decision to the guardian.
THEOREM ShellAlwaysNeedsGrant == SupervisionSpec => []ShellNeedsGrant
  <1>1. SupervisionInv => ShellNeedsGrant
    BY DEF SupervisionInv, GrantPath, GrantTaken, Authorized, ShellNeedsGrant
  <1> QED
    BY <1>1, SupervisionAlways, PTL

\* The runner and the owner use the store only as the store's specification
\* expects; hence the theorems about the store hold of the system.
THEOREM SystemUsesStore == SupervisionSpec => UsesStore
  <1>1. SupervisionInit => Init
    BY DEF SupervisionInit
  <1>2. SupervisionInv /\ [SupervisionNext]_supervisionVars => [vars' # vars => Next]_supervisionVars
    <2> SUFFICES ASSUME SupervisionInv, SupervisionNext, vars' # vars PROVE Next
      OBVIOUS
    <2>1. [Next]_vars
      BY EveryStepIsAStoreMove, StoreMoveIsNext DEF SupervisionInv, SupervisionTypeOK
    <2> QED
      BY <2>1
  <1> QED
    BY <1>1, <1>2, SupervisionAlways, PTL DEF SupervisionSpec, UsesStore

\* What is published is true of the world, and stays true.
LEMMA TruthIsPublished == SupervisionInv => EvidenceIsTrue
  <1> SUFFICES ASSUME SupervisionInv, NEW i \in Revisions,
                      NEW e, e = results[TheJob][i]
               PROVE  /\ e.launch = "launched" => shell.started = 1
                      /\ e.launch \in NonExecutionLaunch => shell.started = 0
                      /\ [code |-> e.shellCode, signal |-> e.shellSignal]
                           \in {NoOutcome, shell.outcome}
                      /\ e.cleanupTermObservation # Null => shell.terms = 1
                      /\ e.cleanupKillIntentObserved => shell.kills = 1
                      /\ e.deadlineTriggerObserved => expired
    BY DEF EvidenceIsTrue
  <1>1. TrueEvidence(e, Facts, Ends)
    BY DEF SupervisionInv, StoreKnows, Revisions
  <1>2. ASSUME e.launch \in SuppressedLaunch PROVE shell.started = 0
    <2>1. control[TheJob].launchDecision \in SuppressedLaunch
      BY <1>2, OneJobTwoStores
         DEF SupervisionInv, LedgerInv, Ledger, RefusalIsOutcome, Revisions
    <2>2. ~Authorized
      BY <2>1 DEF Authorized, SuppressedLaunch
    <2>3. ~(shell.started > 0)
      BY <2>2 DEF SupervisionInv, GrantPath, GrantTaken
    <2> QED
      BY <2>3 DEF SupervisionInv, GuardianInv, ShellType
  <1>3. "no_launch" \in Facts => shell.started = 0
    BY DEF SupervisionInv, Facts, NoLaunch, NeverStarts, GrantPath, GrantTaken,
           GuardianInv, ShellType
  <1>4. e.launch \in NonExecutionLaunch => shell.started = 0
    BY <1>1, <1>2, <1>3 DEF TrueEvidence, NonExecutionLaunch
  <1>5. [code |-> e.shellCode, signal |-> e.shellSignal] \in {NoOutcome, shell.outcome}
    BY <1>1 DEF TrueEvidence, Ends
  <1>6. /\ e.launch = "launched" => shell.started = 1
        /\ e.cleanupTermObservation # Null => shell.terms = 1
        /\ e.cleanupKillIntentObserved => shell.kills = 1
        /\ e.deadlineTriggerObserved => expired
    BY <1>1 DEF TrueEvidence, Facts
  <1> QED
    BY <1>4, <1>5, <1>6

\* No failure, loss or race publishes a launch that was none, a non-execution
\* that executed, or an exit, a signal or a deadline that did not happen.
THEOREM EvidenceIsAlwaysTrue == SupervisionSpec => []EvidenceIsTrue
  BY TruthIsPublished, SupervisionAlways, PTL

\* What finalizes a job leaves no shell to start: a grant that is still on its way
\* comes too late.
THEOREM NoShellAfterTheEnd == SupervisionSpec => NoLateShell
  <1>1. SupervisionInv /\ [SupervisionNext]_supervisionVars
            => [shell'.started # shell.started => ~Finalized(TheJob)]_supervisionVars
    <2> SUFFICES ASSUME SupervisionInv, SupervisionNext, shell'.started # shell.started,
                        Finalized(TheJob)
                 PROVE  FALSE
      OBVIOUS
    <2>1. GuardianActs
      BY ThreeActors DEF guardianVars
    <2>2. PICK started \in BOOLEAN : GrantSpawns(started)
      BY <2>1, GuardianTakesGrants DEF SupervisionInv
    <2>3. /\ toGuardian # << >> /\ Head(toGuardian).type = "grant" /\ ~expired
          /\ guardian.state = "ready" /\ guardianProcess = "running" /\ guardianEnd
      BY <2>2 DEF GrantSpawns, Receive, Running, GrantAccepted, TooLateToSpawn
    <2>4. runner.grantSent
      <3>1. Head(toGuardian) \in RunnerMessages
        BY <2>3, HeadTailProperties DEF SupervisionInv, GrantPath
      <3> QED
        BY <2>3, <3>1 DEF RunnerMessages
    <2>5. "past_launch" \notin Facts /\ "no_launch" \notin Facts
      BY <2>3, <2>4 DEF Facts, PastLaunch, NoLaunch, NeverStarts
    <2>6. PICK i \in DOMAIN results[TheJob] :
              Latest(TheJob) = results[TheJob][i] /\ Latest(TheJob).finalized
      <3>1. results[TheJob] \in Seq(ExecutionEvidence)
        BY OneJobTwoStores DEF SupervisionInv, LedgerInv, TypeOK
      <3>2. results[TheJob] # << >>
        BY DEF Finalized, Latest, InitialEvidence
      <3>3. Len(results[TheJob]) \in DOMAIN results[TheJob]
        BY <3>1, <3>2
      <3> QED
        BY <3>2, <3>3 DEF Finalized, Latest
    <2>7. TrueEvidence(Latest(TheJob), Facts, Ends)
      BY <2>6 DEF SupervisionInv, StoreKnows
    <2>8. Latest(TheJob).launch \in SuppressedLaunch
      BY <2>5, <2>6, <2>7 DEF TrueEvidence, NonExecutionLaunch
    <2>9. control[TheJob].launchDecision \in SuppressedLaunch
      BY <2>6, <2>8, OneJobTwoStores
         DEF SupervisionInv, LedgerInv, Ledger, RefusalIsOutcome
    <2> QED
      BY <2>4, <2>9 DEF SupervisionInv, GrantPath, Authorized, SuppressedLaunch
  <1> QED
    BY <1>1, SupervisionAlways, PTL DEF SupervisionSpec, NoLateShell

-----------------------------------------------------------------------------
(* A granted run is reported. *)

\* The one fault that a granted run survives: its launch receipt was rolled back.
ReceiptRolledBack == {<<"receipt", "failed">>}

\* What a runner queues. The report of a run whose launch is unknown was frozen
\* for good: no launch is heard of after it.
PublicationOf(r, p) ==
    \/ p = LaunchReceipt /\ r.launched
    \/ \E f \in RunnerFacts : p = SpawnFailure(f)
    \/ \E f \in RunnerFacts, out \in StreamResults, err \in StreamResults :
           /\ p = TerminalEvidence(f, out, err)
           /\ f.launched \/ (r.stopping /\ ~r.launched)

PublicationsOf(r) == {p \in EvidenceInputs : PublicationOf(r, p)}

Queues(r) ==
    /\ r.coordinator = "freezing" => r.stopping
    /\ r.publications \in Seq(PublicationsOf(r))

\* Evidence of a job whose runner has published nothing but its launch.
Plain(e, r) ==
    /\ e.launch \in {"unknown", "launched"}
    /\ e.launch = "launched" => r.launched
    /\ e.shellCode = Null /\ e.shellSignal = Null
    /\ e.cleanupState = "not_requested"
    /\ e.cleanupTermObservation = Null /\ ~e.cleanupKillIntentObserved
    /\ e.stdout = DefaultStreamFacts /\ e.stderr = DefaultStreamFacts

\* While the job is open the store still takes the runner's report, and what closes
\* a runner that granted is a report that was taken.
ReportTaken ==
    /\ ~Ended => ~writesDisabled[RunnerStore]
    /\ runner.claimed => ClaimedBy(TheJob, TheClaim) /\ TokenAccepted(TheJob)
    /\ ~Ended /\ ~Finalized(TheJob) =>
           runner.revision = LatestRevision(TheJob) /\ Plain(Latest(TheJob), runner)
    /\ runner.grantSent /\ runner.closed => Finalized(TheJob)

ReportInv ==
    /\ SupervisionInv
    /\ Queues(runner)
    /\ faults \subseteq ReceiptRolledBack => ReportTaken

\* s is r after a handler that queues nothing, hears of no launch, and closes
\* nothing that was granted.
Untouched(r, s) ==
    /\ s.publications = r.publications /\ s.launched = r.launched
    /\ s.revision = r.revision /\ s.claimed = r.claimed
    /\ r.stopping => s.stopping
    /\ s.coordinator = "freezing" => r.coordinator = "freezing" \/ s.stopping
    /\ s.closed /\ s.grantSent => r.closed /\ r.grantSent
    /\ r.closed => s.closed
    /\ r.process = "gone" => s.process = "gone"

\* The runner's functions that only stop it, arm a timer or begin the cutover, and
\* close() before a grant.
LEMMA HandlersLeaveUntouched ==
    ASSUME NEW r \in RunnerType
    PROVE  /\ Untouched(r, r)
           /\ Untouched(r, SpawnFailing(r))
           /\ Untouched(r, BudgetBegun(r))
           /\ Untouched(r, CutoverBegun(r))
           /\ Untouched(r, AfterGuardianLoss(r))
           /\ ~r.grantSent => Untouched(r, Closed(r))
  <1>1. Untouched(r, r)
    BY DEF Untouched
  <1>2. Untouched(r, SpawnFailing(r))
    BY DEF RunnerType, Untouched, SpawnFailing
  <1>3. Untouched(r, BudgetBegun(r))
    BY DEF RunnerType, Untouched, BudgetBegun
  <1>4. Untouched(r, CutoverBegun(r))
    BY DEF RunnerType, Untouched, CutoverBegun
  <1>5. ~r.grantSent => Untouched(r, Closed(r))
    BY DEF RunnerType, Untouched, Closed
  <1>6. Untouched(r, AfterGuardianLoss(r))
    BY <1>1, <1>2, <1>4, <1>5 DEF AfterGuardianLoss, Abandoned
  <1> QED
    BY <1>1, <1>2, <1>3, <1>4, <1>5, <1>6

\* One after another.
LEMMA UntouchedTransitive ==
    ASSUME NEW r, NEW s, NEW t, Untouched(r, s), Untouched(s, t)
    PROVE  Untouched(r, t)
  BY DEF Untouched

\* What was queued may stay queued.
LEMMA QueueKept ==
    ASSUME NEW r, Queues(r), NEW s, r.launched => s.launched,
           r.stopping => s.stopping /\ s.launched = r.launched
    PROVE  /\ r.publications \in Seq(PublicationsOf(s))
           /\ r.publications # << >> => Tail(r.publications) \in Seq(PublicationsOf(s))
           /\ \A p \in PublicationsOf(s) :
                  Append(r.publications, p) \in Seq(PublicationsOf(s))
  <1>1. PublicationsOf(r) \subseteq PublicationsOf(s)
    BY DEF PublicationsOf, PublicationOf
  <1>2. r.publications \in Seq(PublicationsOf(s))
    BY <1>1, SeqOfMore DEF Queues
  <1> QED
    BY <1>2, HeadTailProperties, AppendProperties

\* The runner's step, as far as its reports are concerned.
RunnerReports ==
    /\ Queues(runner')
    /\ runner.launched => runner'.launched
    /\ Ended => runner'.process = "gone" \/ runner'.closed
    /\ runner'.closed /\ runner'.grantSent =>
           \/ runner.closed /\ runner.grantSent
           \/ RunnerPublishes /\ Head(runner.publications).finalized
           \/ /\ RunnerPublishFails /\ Head(runner.publications).finalized
              /\ runner.grantSent
    /\ \/ runner'.revision = runner.revision
       \/ RunnerPublishes
       \/ UNCHANGED vars /\ runner'.revision = LatestRevision(TheJob)
    /\ runner'.claimed => runner.claimed \/ RunnerClaims

\* A step that touches none of it.
LEMMA UntouchedReports ==
    ASSUME Queues(runner), Untouched(runner, runner')
    PROVE  RunnerReports
  <1>1. runner'.publications \in Seq(PublicationsOf(runner'))
    BY QueueKept DEF Untouched
  <1> QED
    BY <1>1 DEF Queues, Untouched, RunnerReports, Ended

\* A step that touches none of it but the queue.
LEMMA RequeuedReports ==
    ASSUME Queues(runner), NEW r, Untouched(runner, r), r \in RunnerType,
           NEW q, runner' = [r EXCEPT !.publications = q],
           \/ q = << >>
           \/ runner.publications # << >> /\ q = Tail(runner.publications)
           \/ \E p \in PublicationsOf(runner') : q = Append(runner.publications, p)
    PROVE  RunnerReports
  <1>1. /\ runner'.publications = q /\ runner'.launched = r.launched
        /\ runner'.stopping = r.stopping /\ runner'.coordinator = r.coordinator
        /\ runner'.revision = r.revision /\ runner'.closed = r.closed
        /\ runner'.grantSent = r.grantSent /\ runner'.process = r.process
        /\ runner'.claimed = r.claimed
    BY DEF RunnerType
  <1>2. q \in Seq(PublicationsOf(runner'))
    <2>1. << >> \in Seq(PublicationsOf(runner'))
      OBVIOUS
    <2>2. /\ runner.launched => runner'.launched
          /\ runner.stopping => runner'.stopping /\ runner'.launched = runner.launched
      BY <1>1 DEF Untouched
    <2>3. /\ runner.publications # << >> =>
                Tail(runner.publications) \in Seq(PublicationsOf(runner'))
          /\ \A p \in PublicationsOf(runner') :
                 Append(runner.publications, p) \in Seq(PublicationsOf(runner'))
      BY <2>2, QueueKept
    <2> QED
      BY <2>1, <2>3
  <1> QED
    BY <1>1, <1>2 DEF Queues, Untouched, RunnerReports, Ended


\* No message but a spawn receipt touches the reports.
LEMMA HandledLeavesUntouched ==
    ASSUME NEW r \in RunnerType, NEW m \in GuardianMessages, m.type # "shell_spawned"
    PROVE  Untouched(r, Handled(r, m))
  <1>1. ASSUME NEW s \in RunnerType, Untouched(r, s),
               Handled(r, m) \in {s, SpawnFailing(s), BudgetBegun(s)}
        PROVE  Untouched(r, Handled(r, m))
    BY <1>1, HandlersLeaveUntouched, UntouchedTransitive
  <1>2. CASE m.type = "topology"
    <2>1. CASE m.ok
      <3>1. PICK s : s = [r EXCEPT !.topologySucceeded = TRUE]
        OBVIOUS
      <3>2. Handled(r, m) = IF s.grantSent \/ s.stopping THEN s ELSE [s EXCEPT !.deciding = "asked"]
        BY <1>2, <2>1, <3>1 DEF Handled, DecideAsked
      <3>3. s \in RunnerType
        BY <3>1 DEF RunnerType
      <3>4. Untouched(r, s)
        BY <3>1 DEF RunnerType, Untouched
      <3>5. Untouched(s, [s EXCEPT !.deciding = "asked"])
        BY <3>3 DEF RunnerType, Untouched
      <3> QED
        BY <3>2, <3>4, <3>5, UntouchedTransitive
    <2>2. CASE ~m.ok
      BY <1>2, <2>2, HandlersLeaveUntouched DEF Handled
    <2> QED
      BY <2>1, <2>2
  <1>3. CASE m.type = "shell_error"
    <2>1. PICK s : s = [r EXCEPT !.deadlineObserved =
                             @ \/ m.reason = "expired_before_spawn"]
      OBVIOUS
    <2>2. s \in RunnerType
      BY <2>1 DEF RunnerType
    <2>3. Untouched(r, s)
      BY <2>1 DEF RunnerType, Untouched
    <2>4. Handled(r, m) = SpawnFailing(s)
      BY <1>3, <2>1 DEF Handled
    <2> QED
      BY <1>1, <2>2, <2>3, <2>4
  <1>4. CASE m.type = "shell_exit"
    <2>1. PICK s : s = IF r.launched THEN [r EXCEPT !.outcome = m.outcome] ELSE r
      OBVIOUS
    <2>2. m.outcome \in ShellOutcomes
      BY <1>4 DEF GuardianMessages
    <2>3. s \in RunnerType
      BY <2>1, <2>2 DEF RunnerType
    <2>4. Untouched(r, s)
      BY <2>1 DEF RunnerType, Untouched
    <2>5. Handled(r, m) = BudgetBegun(s)
      BY <1>4, <2>1 DEF Handled
    <2> QED
      BY <1>1, <2>3, <2>4, <2>5
  <1>5. CASE m.type = "cleanup_term"
    <2>1. Handled(r, m) = [r EXCEPT !.term = m.observation]
      BY <1>5 DEF Handled
    <2> QED
      BY <2>1 DEF RunnerType, Untouched
  <1>6. CASE m.type = "cleanup_kill_intent"
    <2>1. Handled(r, m) = [r EXCEPT !.killIntent = TRUE]
      BY <1>6 DEF Handled
    <2> QED
      BY <2>1 DEF RunnerType, Untouched
  <1>7. CASE m.type = "deadline"
    <2>1. PICK s : s = [r EXCEPT !.deadlineObserved = TRUE]
      OBVIOUS
    <2>2. s \in RunnerType
      BY <2>1 DEF RunnerType
    <2>3. Untouched(r, s)
      BY <2>1 DEF RunnerType, Untouched
    <2>4. Handled(r, m) = BudgetBegun(s)
      BY <1>7, <2>1 DEF Handled
    <2> QED
      BY <1>1, <2>2, <2>3, <2>4
  <1>8. CASE m.type \in {"hello", "protocol_violation"}
    <2>1. Handled(r, m) = r
      BY <1>8 DEF Handled
    <2> QED
      BY <2>1, HandlersLeaveUntouched
  <1> QED
    BY <1>2, <1>3, <1>4, <1>5, <1>6, <1>7, <1>8 DEF GuardianMessages

\* A publication gives the runner the number of the revision it wrote.
LEMMA PublishedRevision ==
    ASSUME SupervisionInv, RunnerPublishes
    PROVE  \E b \in BOOLEAN, n \in 0 .. MaxRevision :
               /\ n = LatestRevision(TheJob) + 1
               /\ runner' = HeadDone([runner EXCEPT !.revision = n, !.settled = b])
  <1>1. Len(results[TheJob]) + 1 \in 0 .. MaxRevision
    <2>1. Len(results[TheJob]) \in Nat
      BY OneJobTwoStores DEF SupervisionInv, LedgerInv, TypeOK
    <2>2. Len(results[TheJob]) < MaxRevision
      BY DEF RunnerPublishes, PublishHead, PublishResult, RecordRevision, LatestRevision
    <2> QED
      BY <2>1, <2>2, ConstantsAreSound
  <1>2. Head(runner.publications) \in TruePublications(Facts, Ends)
    BY HeadTailProperties DEF SupervisionInv, RunnerPublishes, Publishing, Knows
  <1>3. Head(runner.publications).finalized \in BOOLEAN
    BY <1>2, InputsAreRunnerInputs
       DEF TruePublications, TruePublication, ValidEvidenceInput, Given
  <1>4. (runner.settled \/ Head(runner.publications).finalized) \in BOOLEAN
    BY <1>3 DEF SupervisionInv, SupervisionTypeOK, RunnerType
  <1> QED
    BY <1>1, <1>4 DEF RunnerPublishes, Become, LatestRevision

\* Whatever the runner does, its reports stay in order.
LEMMA RunnerKeepsReports ==
    ASSUME SupervisionInv, Queues(runner), RunnerActs
    PROVE  RunnerReports
  <1>1. /\ runner \in RunnerType /\ Path(runner) /\ Knows(runner, Facts, Ends)
        /\ Untouched(runner, runner)
    BY HandlersLeaveUntouched DEF SupervisionInv, SupervisionTypeOK, GrantPath
  <1>2. ASSUME NEW r \in RunnerType, Untouched(runner, r),
               \/ runner' \in {r, SpawnFailing(r), BudgetBegun(r), CutoverBegun(r),
                               AfterGuardianLoss(r)}
               \/ runner' = Closed(r) /\ ~r.grantSent
        PROVE  RunnerReports
    BY <1>2, HandlersLeaveUntouched, UntouchedTransitive, UntouchedReports
  <1>3. CASE RunnerReadinessTimeout
    <2>1. PICK r : r = [runner EXCEPT !.readinessTimer = FALSE]
      OBVIOUS
    <2>2. r \in RunnerType
      BY <1>1, <2>1 DEF RunnerType
    <2>3. Untouched(runner, r)
      BY <1>1, <2>1 DEF RunnerType, Untouched
    <2> QED
      BY <1>2, <1>3, <2>1, <2>2, <2>3 DEF RunnerReadinessTimeout
  <1>4. CASE RunnerDeadlineTimer
    <2>1. PICK r : r = [runner EXCEPT !.deadlineTimer = FALSE]
      OBVIOUS
    <2>2. r \in RunnerType
      BY <1>1, <2>1 DEF RunnerType
    <2>3. Untouched(runner, r)
      BY <1>1, <2>1 DEF RunnerType, Untouched
    <2> QED
      BY <1>2, <1>4, <2>1, <2>2, <2>3 DEF RunnerDeadlineTimer
  <1>5. CASE RunnerBudgetEnds
    <2>1. PICK r : r = [runner EXCEPT !.budget = "fired"]
      OBVIOUS
    <2>2. r \in RunnerType
      BY <1>1, <2>1 DEF RunnerType
    <2>3. Untouched(runner, r)
      BY <1>1, <2>1 DEF RunnerType, Untouched
    <2> QED
      BY <1>2, <1>5, <2>1, <2>2, <2>3 DEF RunnerBudgetEnds
  <1>6. CASE RunnerFreezes
    <2>1. runner' = [runner EXCEPT !.coordinator = "freezing", !.stopping = TRUE]
      BY <1>6 DEF RunnerFreezes
    <2>2. runner' \in RunnerType
      BY <1>1, <2>1 DEF RunnerType, CoordinatorStates
    <2>3. Untouched(runner, runner')
      BY <1>1, <2>1 DEF RunnerType, Untouched
    <2> QED
      BY <2>3, UntouchedReports
  <1>7. CASE RunnerSeesDisconnectEvent \/ RunnerSeesExitEvent
    BY <1>1, <1>2, <1>7 DEF RunnerSeesDisconnectEvent, RunnerSeesExitEvent, Become
  <1>8. CASE LaunchRunner \/ RunnerCrash
    <2>1. PICK s \in {"running", "gone"} :
              runner' = [runner EXCEPT !.process = s] /\ (s = "gone" \/ runner.process = "unborn")
      BY <1>8 DEF LaunchRunner, RunnerCrash
    <2>2. Untouched(runner, runner')
      BY <1>1, <2>1 DEF RunnerType, Untouched
    <2> QED
      BY <2>2, UntouchedReports
  <1>9. CASE \/ RunnerGrants \/ DecisionAuthorizes \/ DecisionSuppresses \/ DecisionFails
             \/ LateDecision
    <2>1. CASE RunnerGrants
      <3>1. /\ runner' = [runner EXCEPT !.deciding = "no", !.grantSent = TRUE]
            /\ ~runner.closed
        BY <2>1 DEF RunnerGrants, Answered, Alive
      <3>2. Untouched(runner, runner')
        BY <1>1, <3>1 DEF RunnerType, Untouched
      <3> QED
        BY <3>2, UntouchedReports
    <2>2. ASSUME NEW answer, runner' = [runner EXCEPT !.deciding = answer]
          PROVE  RunnerReports
      <3>1. Untouched(runner, runner')
        BY <1>1, <2>2 DEF RunnerType, Untouched
      <3> QED
        BY <3>1, UntouchedReports
    <2> QED
      BY <1>9, <2>1, <2>2
         DEF DecisionAuthorizes, DecisionSuppresses, DecisionFails, LateDecision, Decides
  <1>10. CASE RunnerDoesNotGrant
    <2>1. PICK r : r = [runner EXCEPT !.deciding = "no"]
      OBVIOUS
    <2>2. PICK s : s = [r EXCEPT !.settled = TRUE]
      OBVIOUS
    <2>3. r \in RunnerType /\ ~r.grantSent
      BY <1>1, <1>10, <2>1 DEF RunnerType, RunnerDoesNotGrant, Answered, Path
    <2>4. s \in RunnerType /\ ~s.grantSent
      BY <2>2, <2>3 DEF RunnerType
    <2>5. Untouched(runner, r)
      BY <1>1, <2>1 DEF RunnerType, Untouched
    <2>6. Untouched(r, s)
      BY <2>2, <2>3 DEF RunnerType, Untouched
    <2>7. runner' \in {r, Closed(r), Closed(s)}
      BY <1>10, <2>1, <2>2 DEF RunnerDoesNotGrant, Become, Abandoned
    <2> QED
      BY <1>2, <2>3, <2>4, <2>5, <2>6, <2>7, UntouchedTransitive
  <1>11. CASE RunnerClaims
    <2>1. PICK r : \/ r = [runner EXCEPT !.claimed = TRUE, !.readinessTimer = TRUE,
                                         !.deadlineTimer = TRUE]
                      /\ runner' = r
                   \/ r = [runner EXCEPT !.claimed = TRUE] /\ runner' = SpawnFailing(r)
      BY <1>11 DEF RunnerClaims
    <2>2. r \in RunnerType
      <3>1. [runner EXCEPT !.claimed = TRUE] \in RunnerType
        BY <1>1 DEF RunnerType
      <3>2. [runner EXCEPT !.claimed = TRUE, !.readinessTimer = TRUE,
                           !.deadlineTimer = TRUE] \in RunnerType
        BY <1>1 DEF RunnerType
      <3> QED
        BY <2>1, <3>1, <3>2
    <2>3. Untouched(r, runner')
      BY <2>1, <2>2, HandlersLeaveUntouched
    <2>4. /\ r.publications = runner.publications /\ r.launched = runner.launched
          /\ r.stopping = runner.stopping /\ r.coordinator = runner.coordinator
          /\ r.grantSent = runner.grantSent /\ r.closed = runner.closed
          /\ r.process = runner.process /\ r.revision = runner.revision
      BY <1>1, <2>1 DEF RunnerType
    <2>5. runner'.publications \in Seq(PublicationsOf(runner'))
      BY <2>3, <2>4, QueueKept DEF Untouched
    <2> QED
      BY <1>11, <2>3, <2>4, <2>5 DEF Queues, Untouched, RunnerReports, Ended
  <1>12. CASE RunnerClaimFails
    BY <1>1, <1>2, <1>12 DEF RunnerClaimFails, Claiming, Path, Idle
  <1>13. CASE RunnerSeals
    <2>1. PICK out \in StreamResults, err \in StreamResults :
              runner' = Published([runner EXCEPT !.coordinator = "publishing"],
                                  TerminalEvidence(runner, out, err))
      BY <1>13 DEF RunnerSeals
    <2>2. PICK r : r = [runner EXCEPT !.coordinator = "publishing"]
      OBVIOUS
    <2>3. r \in RunnerType
      BY <1>1, <2>2 DEF RunnerType, CoordinatorStates
    <2>4. Untouched(runner, r) /\ r.publications = runner.publications
      BY <1>1, <2>2 DEF RunnerType, Untouched
    <2>5. PICK p : p = TerminalEvidence(runner, out, err)
      OBVIOUS
    <2>6. PICK q : q = Append(runner.publications, p)
      OBVIOUS
    <2>7. runner' = [r EXCEPT !.publications = q]
      BY <2>1, <2>2, <2>4, <2>5, <2>6 DEF Published
    <2>8. p \in PublicationsOf(runner')
      <3>1. p = TerminalEvidence(FactsOf(runner), out, err) /\ FactsOf(runner) \in RunnerFacts
        BY <1>1, <2>5, FactsOfRunner DEF TerminalEvidence, FactsOf, FrozenLaunch
      <3>2. runner.stopping
        BY <1>13 DEF RunnerSeals, Queues
      <3>3. runner'.launched = runner.launched /\ runner'.stopping
        BY <1>1, <2>2, <2>7, <3>2 DEF RunnerType
      <3>4. FactsOf(runner).launched = runner.launched
        BY DEF FactsOf
      <3>5. PublicationOf(runner', p)
        BY <1>1, <3>1, <3>3, <3>4 DEF PublicationOf, RunnerType
      <3> QED
        BY <3>1, <3>5, RunnerPublishesInputs DEF PublicationsOf
    <2> QED
      BY <2>3, <2>4, <2>6, <2>7, <2>8, RequeuedReports
  <1>14. CASE RunnerDiscards
    <2>1. PICK r : r = [runner EXCEPT !.discarding = FALSE]
      OBVIOUS
    <2>2. r \in RunnerType
      BY <1>1, <2>1 DEF RunnerType
    <2>3. Untouched(runner, r) /\ r.publications = runner.publications
      BY <1>1, <2>1 DEF RunnerType, Untouched
    <2>4. PICK p : p = SpawnFailure(runner)
      OBVIOUS
    <2>5. PICK q : q = Append(runner.publications, p)
      OBVIOUS
    <2>6. runner' = [r EXCEPT !.publications = q]
      BY <1>14, <2>1, <2>3, <2>4, <2>5 DEF RunnerDiscards, Published
    <2>7. p \in PublicationsOf(runner')
      <3>1. p = SpawnFailure(FactsOf(runner)) /\ FactsOf(runner) \in RunnerFacts
        BY <1>1, <2>4, FactsOfRunner DEF SpawnFailure, FactsOf
      <3> QED
        BY <3>1, RunnerPublishesInputs DEF PublicationsOf, PublicationOf
    <2> QED
      BY <2>2, <2>3, <2>5, <2>6, <2>7, RequeuedReports
  <1>15. CASE LatePublication
    <2>1. runner' = [runner EXCEPT !.publications = << >>]
      BY <1>15 DEF LatePublication
    <2> QED
      BY <1>1, <2>1, RequeuedReports
  <1>16. CASE RunnerReceives
    <2>1. PICK m : m = Head(toRunner) /\ m \in GuardianMessages
      <3>1. Head(toRunner) \in TrueMessages
        BY <1>16, HeadTailProperties DEF RunnerReceives, SupervisionInv, ChannelInv
      <3> QED
        BY <3>1, MessageIsFact DEF SupervisionInv
    <2>2. runner' = IF runner.stopping THEN runner ELSE Handled(runner, m)
      BY <1>16, <2>1 DEF RunnerReceives, Become
    <2>3. CASE runner.stopping
      BY <1>1, <2>2, <2>3, UntouchedReports
    <2>4. CASE ~runner.stopping /\ m.type = "shell_spawned"
      <3>1. runner' = Published([runner EXCEPT !.launched = TRUE], LaunchReceipt)
        BY <2>2, <2>4 DEF Handled
      <3>2. runner' = [runner EXCEPT !.launched = TRUE,
                          !.publications = Append(runner.publications, LaunchReceipt)]
        BY <1>1, <3>1 DEF RunnerType, Published
      <3>3. /\ runner'.launched /\ runner'.coordinator = runner.coordinator
            /\ runner'.stopping = runner.stopping /\ runner'.closed = runner.closed
            /\ runner'.grantSent = runner.grantSent /\ runner'.process = runner.process
            /\ runner'.revision = runner.revision /\ runner'.claimed = runner.claimed
            /\ runner'.publications = Append(runner.publications, LaunchReceipt)
        BY <1>1, <3>2 DEF RunnerType
      <3>4. LaunchReceipt \in PublicationsOf(runner')
        BY <3>3, RunnerPublishesInputs DEF PublicationsOf, PublicationOf
      <3>5. runner'.publications \in Seq(PublicationsOf(runner'))
        BY <2>4, <3>3, <3>4, QueueKept
      <3> QED
        BY <2>4, <3>3, <3>5 DEF Queues, RunnerReports, Ended
    <2>5. CASE ~runner.stopping /\ m.type # "shell_spawned"
      BY <1>1, <2>1, <2>2, <2>5, HandledLeavesUntouched, UntouchedReports
    <2> QED
      BY <2>3, <2>4, <2>5
  <1>17. ASSUME NEW r \in RunnerType, runner.publications # << >>, runner' = HeadDone(r),
                r.publications = runner.publications, r.launched = runner.launched,
                r.stopping = runner.stopping, r.coordinator = runner.coordinator,
                r.grantSent = runner.grantSent, r.closed = runner.closed,
                r.process = runner.process, r.claimed = runner.claimed
         PROVE  /\ Queues(runner') /\ (runner.launched => runner'.launched)
                /\ Ended => runner'.process = "gone" \/ runner'.closed
                /\ runner'.revision = r.revision
                /\ runner'.closed => runner.closed \/ Head(runner.publications).finalized
                /\ runner'.grantSent = runner.grantSent /\ runner'.claimed = runner.claimed
    <2>1. CASE Head(runner.publications).finalized
      <3>1. PICK s : s = [r EXCEPT !.publications = << >>]
        OBVIOUS
      <3>2. runner' = Closed(s)
        BY <1>17, <2>1, <3>1 DEF HeadDone
      <3>3. /\ runner'.publications = << >> /\ runner'.coordinator = "closed"
            /\ runner'.closed /\ runner'.launched = runner.launched
            /\ runner'.revision = r.revision /\ runner'.grantSent = runner.grantSent
            /\ runner'.claimed = runner.claimed
        BY <1>17, <3>1, <3>2 DEF RunnerType, Closed
      <3>4. << >> \in Seq(PublicationsOf(runner'))
        OBVIOUS
      <3> QED
        BY <2>1, <3>3, <3>4 DEF Queues
    <2>2. CASE ~Head(runner.publications).finalized
      <3>1. runner' = [r EXCEPT !.publications = Tail(r.publications), !.observing = FALSE]
        BY <1>17, <2>2 DEF HeadDone
      <3>2. /\ runner'.publications = Tail(runner.publications)
            /\ runner'.coordinator = runner.coordinator
            /\ runner'.closed = runner.closed /\ runner'.launched = runner.launched
            /\ runner'.stopping = runner.stopping /\ runner'.process = runner.process
            /\ runner'.revision = r.revision /\ runner'.grantSent = runner.grantSent
            /\ runner'.claimed = runner.claimed
        BY <1>17, <3>1 DEF RunnerType
      <3>3. Tail(runner.publications) \in Seq(PublicationsOf(runner'))
        BY <1>17, <3>2, QueueKept
      <3> QED
        BY <3>2, <3>3 DEF Queues, Ended
    <2> QED
      BY <2>1, <2>2
  <1>18. CASE RunnerPublishes
    <2>1. PICK b \in BOOLEAN, n \in 0 .. MaxRevision :
              runner' = HeadDone([runner EXCEPT !.revision = n, !.settled = b])
      BY <1>18, PublishedRevision
    <2>2. PICK r : r = [runner EXCEPT !.revision = n, !.settled = b]
      OBVIOUS
    <2>3. r \in RunnerType
      BY <1>1, <2>2 DEF RunnerType
    <2>4. /\ r.publications = runner.publications /\ r.launched = runner.launched
          /\ r.stopping = runner.stopping /\ r.coordinator = runner.coordinator
          /\ r.grantSent = runner.grantSent /\ r.closed = runner.closed
          /\ r.process = runner.process /\ r.claimed = runner.claimed
      BY <1>1, <2>2 DEF RunnerType
    <2>5. runner.publications # << >> /\ ~runner.closed
      BY <1>18 DEF RunnerPublishes, Publishing, Alive
    <2> QED
      BY <1>17, <1>18, <2>1, <2>2, <2>3, <2>4, <2>5 DEF RunnerReports
  <1>19. CASE RunnerPublishFails
    <2>1. runner.publications # << >> /\ ~runner.closed
      BY <1>19 DEF RunnerPublishFails, Publishing, Alive
    <2>2. CASE Head(runner.publications).finalized
      BY <1>1, <1>17, <1>19, <2>1, <2>2 DEF RunnerPublishFails, Become, RunnerReports
    <2>3. CASE ~Head(runner.publications).finalized
      <3>1. runner' = [runner EXCEPT !.observing = TRUE]
        BY <1>19, <2>3 DEF RunnerPublishFails, Become
      <3>2. Untouched(runner, runner')
        BY <1>1, <3>1 DEF RunnerType, Untouched
      <3> QED
        BY <3>2, UntouchedReports
    <2> QED
      BY <2>2, <2>3
  <1>20. CASE RunnerObservesReceipt
    <2>1. PICK readable \in BOOLEAN :
              runner' = HeadDone([runner EXCEPT !.revision =
                            IF readable /\ ReceiptFound THEN LatestRevision(TheJob) ELSE @])
      BY <1>20 DEF RunnerObservesReceipt
    <2>2. PICK r : r = [runner EXCEPT !.revision =
                            IF readable /\ ReceiptFound THEN LatestRevision(TheJob) ELSE @]
      OBVIOUS
    <2>3. LatestRevision(TheJob) \in 0 .. MaxRevision
      <3>1. Len(results[TheJob]) \in Nat /\ Len(results[TheJob]) <= MaxRevision
        BY OneJobTwoStores DEF SupervisionInv, LedgerInv, TypeOK, StoreKnows, LatestRevision
      <3> QED
        BY <3>1, ConstantsAreSound DEF LatestRevision
    <2>4. r \in RunnerType
      BY <1>1, <2>2, <2>3 DEF RunnerType
    <2>5. /\ r.publications = runner.publications /\ r.launched = runner.launched
          /\ r.stopping = runner.stopping /\ r.coordinator = runner.coordinator
          /\ r.grantSent = runner.grantSent /\ r.closed = runner.closed
          /\ r.process = runner.process /\ r.claimed = runner.claimed
          /\ r.revision \in {runner.revision, LatestRevision(TheJob)}
      BY <1>1, <2>2 DEF RunnerType
    <2>6. /\ runner.publications # << >> /\ ~runner.closed
          /\ ~Head(runner.publications).finalized /\ UNCHANGED vars
      BY <1>1, <1>20 DEF RunnerObservesReceipt, Alive, Knows
    <2> QED
      BY <1>17, <2>1, <2>2, <2>4, <2>5, <2>6 DEF RunnerReports
  <1> QED
    BY <1>3, <1>4, <1>5, <1>6, <1>7, <1>8, <1>9, <1>10, <1>11, <1>12, <1>13, <1>14,
       <1>15, <1>16, <1>18, <1>19, <1>20 DEF RunnerActs, RunnerHandles, StoreAnswers


\* A job that has only a launch on record takes any final report: store-evidence.ts:252.
LEMMA PlainTakesReports ==
    ASSUME NEW prior \in ExecutionEvidence, NEW r \in RunnerType, Plain(prior, r),
           NEW p \in PublicationsOf(r), p.finalized,
           p.launch = "spawn_failed" => prior.launch = "unknown"
    PROVE  ~Contradicts(prior, p)
  <1> DEFINE next == MergeEvidence(prior, p, TRUE, FALSE)
  <1>1. /\ prior.launch \in {"unknown", "launched"}
        /\ prior.launch = "launched" => r.launched
        /\ prior.shellCode = Null /\ prior.shellSignal = Null
        /\ prior.cleanupState = "not_requested"
        /\ prior.cleanupTermObservation = Null /\ ~prior.cleanupKillIntentObserved
        /\ prior.stdout = DefaultStreamFacts /\ prior.stderr = DefaultStreamFacts
    BY DEF Plain
  <1>2. ~LaunchReceipt.finalized
    BY DEF LaunchReceipt
  <1>3. /\ ~StreamContradicts(prior.stdout, Given(p, "stdout", NoObservation))
        /\ ~StreamContradicts(prior.stderr, Given(p, "stderr", NoObservation))
    BY <1>1 DEF DefaultStreamFacts, StreamContradicts
  <1>4. ASSUME next.launch = prior.launch \/ prior.launch = "unknown",
               next.shellCode = Null \/ next.shellSignal = Null,
               next.launch \notin NonExecutionLaunch
                   \/ (next.shellCode = Null /\ next.shellSignal = Null),
               \/ next.cleanupState \in {"not_requested", "unconfirmed"}
               \/ /\ next.cleanupState = "not_required"
                  /\ next.launch \in NonExecutionLaunch
                  /\ next.cleanupTermObservation = Null
                  /\ ~next.cleanupKillIntentObserved
        PROVE  ~Contradicts(prior, p)
    <2>1. ~ContradictsEstablished(prior, next)
      BY <1>1, <1>4 DEF ContradictsEstablished
    <2>2. ~ContradictoryOutcome(next)
      BY <1>4 DEF ContradictoryOutcome
    <2>3. ~IllegalCleanup(prior, next)
      <3>1. CASE next.cleanupState = "not_requested"
        BY <1>1, <3>1 DEF IllegalCleanup
      <3>2. CASE next.cleanupState = "unconfirmed"
        <4>1. ~(CleanupOrder["unconfirmed"] < CleanupOrder["not_requested"])
          BY DEF CleanupOrder
        <4> QED
          BY <1>1, <3>2, <4>1 DEF IllegalCleanup
      <3>3. CASE next.cleanupState = "not_required"
        BY <1>1, <1>4, <3>3 DEF IllegalCleanup
      <3> QED
        BY <1>4, <3>1, <3>2, <3>3
    <2> QED
      BY <1>3, <2>1, <2>2, <2>3 DEF Contradicts
  <1>5. ASSUME NEW f \in RunnerFacts, p = SpawnFailure(f)
        PROVE  ~Contradicts(prior, p)
    <2>1. /\ next.launch = "spawn_failed" /\ next.cleanupState = "not_required"
          /\ next.shellCode = Null /\ next.shellSignal = Null
          /\ next.cleanupTermObservation = Null /\ ~next.cleanupKillIntentObserved
          /\ prior.launch = "unknown"
      BY <1>1, <1>5 DEF SpawnFailure, MergeEvidence, Given
    <2> QED
      BY <1>4, <2>1 DEF NonExecutionLaunch
  <1>6. ASSUME NEW f \in RunnerFacts, NEW out \in StreamResults, NEW err \in StreamResults,
               p = TerminalEvidence(f, out, err),
               f.launched \/ (r.stopping /\ ~r.launched)
        PROVE  ~Contradicts(prior, p)
    <2>1. /\ next.launch = FrozenLaunch(f)
          /\ next.shellCode = f.outcome.code /\ next.shellSignal = f.outcome.signal
          /\ next.cleanupState \in {"not_requested", "unconfirmed"}
      BY <1>6 DEF TerminalEvidence, MergeEvidence, Given
    <2>2. f.outcome.code = Null \/ f.outcome.signal = Null
      BY DEF RunnerFacts, ShellOutcomes, NoRunnerOutcome
    <2>3. next.launch = prior.launch \/ prior.launch = "unknown"
      BY <1>1, <1>6, <2>1 DEF FrozenLaunch
    <2>4. next.launch \notin NonExecutionLaunch
      BY <2>1 DEF FrozenLaunch, NonExecutionLaunch, SuppressedLaunch
    <2> QED
      BY <1>4, <2>1, <2>2, <2>3, <2>4
  <1> QED
    BY <1>2, <1>5, <1>6 DEF PublicationsOf, PublicationOf

\* The launch receipt adds the launch, and nothing else.
LEMMA ReceiptIsPlain ==
    ASSUME NEW prior, NEW r, Plain(prior, r), r.launched
    PROVE  Plain(MergeEvidence(prior, LaunchReceipt, TRUE, FALSE), r)
  <1>1. MergeStream(DefaultStreamFacts, NoObservation) = DefaultStreamFacts
    BY DEF MergeStream, DefaultStreamFacts, NoObservation, Given
  <1>2. /\ Given(LaunchReceipt, "stdout", NoObservation) = NoObservation
        /\ Given(LaunchReceipt, "stderr", NoObservation) = NoObservation
    BY DEF LaunchReceipt, Given
  <1> DEFINE e == MergeEvidence(prior, LaunchReceipt, TRUE, FALSE)
  <1>3. e.stdout = DefaultStreamFacts /\ e.stderr = DefaultStreamFacts
    BY <1>1, <1>2 DEF Plain, MergeEvidence
  <1>4. /\ e.launch = "launched" /\ e.cleanupState = "not_requested"
        /\ e.shellCode = Null /\ e.shellSignal = Null
        /\ e.cleanupTermObservation = Null /\ ~e.cleanupKillIntentObserved
    BY DEF Plain, MergeEvidence, Given, LaunchReceipt
  <1> QED
    BY <1>3, <1>4 DEF Plain

\* Nothing in the store takes back the end of the job, its claim or its token.
LEMMA StoreKeepsReports ==
    ASSUME SupervisionInv, StoreMove
    PROVE  /\ Finalized(TheJob) => Finalized(TheJob)'
           /\ ClaimedBy(TheJob, TheClaim) => ClaimedBy(TheJob, TheClaim)'
           /\ TokenAccepted(TheJob) => TokenAccepted(TheJob)'
  <1>1. /\ TheJob \in JobIds /\ TypeOK /\ Latest(TheJob) \in ExecutionEvidence
        /\ TheClaim # Null
    BY OneJobTwoStores, ConstantsAreSound, LatestType DEF SupervisionInv, LedgerInv
  <1>2. Finalized(TheJob) => Finalized(TheJob)'
    <2>1. ASSUME NEW outcome, SuppressLaunch(RunnerStore, TheJob, TheClaim, Clock, outcome)
          PROVE  ~Finalized(TheJob)
      <3>1. [Latest(TheJob) EXCEPT !.uncertain = TRUE] = InitialEvidence
        BY <2>1 DEF SuppressLaunch, MayDecide, DecisionPrecluded, IsInitialEvidenceOnly
      <3>2. [Latest(TheJob) EXCEPT !.uncertain = TRUE].finalized = Latest(TheJob).finalized
        BY <1>1 DEF ExecutionEvidence
      <3> QED
        BY <3>1, <3>2 DEF Finalized, InitialEvidence
    <2>2. ASSUME NEW outcome, PublishHead(outcome)
          PROVE  ~Finalized(TheJob)
      BY <2>2 DEF PublishHead, PublishResult, MayPublish
    <2>3. ASSUME PublishUncertainResult(OwnerStore, TheJob, "returned")
          PROVE  ~Finalized(TheJob)
      BY <2>3 DEF PublishUncertainResult, Terminal
    <2>4. CASE UNCHANGED results
      BY <2>4 DEF Finalized, Latest
    <2> QED
      BY <2>1, <2>2, <2>3, <2>4
         DEF StoreMove, Reserve, RequestCancellation, ObserveJob, FailedCommit,
             ClaimRunner, AuthorizeLaunch, vars, tables
  <1>3. ClaimedBy(TheJob, TheClaim) => ClaimedBy(TheJob, TheClaim)'
    <2>1. ASSUME NEW outcome, ClaimRunner(RunnerStore, TheJob, TheClaim, outcome)
          PROVE  ~ClaimedBy(TheJob, TheClaim)
      BY <1>1, <2>1 DEF ClaimRunner
    <2>2. CASE UNCHANGED claims
      BY <2>2 DEF ClaimedBy
    <2> QED
      BY <2>1, <2>2
         DEF StoreMove, Reserve, RequestCancellation, ObserveJob, FailedCommit,
             PublishUncertainResult, AuthorizeLaunch, SuppressLaunch, PublishHead,
             PublishResult, vars, tables
  <1>4. TokenAccepted(TheJob) => TokenAccepted(TheJob)'
    <2>1. ASSUME UNCHANGED jobs
                 \/ \E t \in {"claimed", "settled"} : jobs' = [jobs EXCEPT ![TheJob].state = t],
                 UNCHANGED disclosures, Known(TheJob)
          PROVE  Known(TheJob)' /\ disclosures'[TheJob] = disclosures[TheJob]
      <3>1. jobs[TheJob] \in JobRow /\ jobs \in [JobIds -> JobRow]
        BY <1>1 DEF TypeOK
      <3> QED
        BY <1>1, <2>1, <3>1 DEF Known, JobRow
    <2>2. ASSUME NEW o, NEW k, NEW cmd, NEW outcome,
                 Reserve(OwnerStore, o, k, cmd, TheJob, Clock, outcome)
          PROVE  ~TokenAccepted(TheJob)
      BY <2>2 DEF Reserve, TokenAccepted
    <2>3. CASE UNCHANGED <<jobs, disclosures>>
      BY <2>3 DEF TokenAccepted, Known
    <2>4. ASSUME NEW outcome,
                 \/ ClaimRunner(RunnerStore, TheJob, TheClaim, outcome)
                 \/ SuppressLaunch(RunnerStore, TheJob, TheClaim, Clock, outcome)
                 \/ PublishHead(outcome)
          PROVE  TokenAccepted(TheJob) => TokenAccepted(TheJob)'
      BY <2>1, <2>4 DEF TokenAccepted, ClaimRunner, SuppressLaunch, PublishHead, PublishResult
    <2> QED
      BY <2>2, <2>3, <2>4
         DEF StoreMove, RequestCancellation, ObserveJob, FailedCommit,
             PublishUncertainResult, AuthorizeLaunch, vars, tables, history
  <1> QED
    BY <1>2, <1>3, <1>4

\* What the runner does to the store when nothing failed but its launch receipt.
LEMMA FaultlessCalls ==
    ASSUME RunnerActs, faults' \subseteq ReceiptRolledBack
    PROVE  /\ faults \subseteq ReceiptRolledBack
           /\ \/ UNCHANGED vars
              \/ RunnerClaims
              \/ DecisionAuthorizes \/ DecisionSuppresses
              \/ RunnerPublishes
              \/ LateDecision \/ LatePublication
  <1>1. ASSUME NEW op, NEW fault, Fault(op, fault)
        PROVE  /\ faults \subseteq ReceiptRolledBack
               /\ op = "receipt" /\ fault = "failed"
    BY <1>1 DEF Fault, ReceiptRolledBack
  <1>2. ASSUME NEW op, FailsWithoutEffect(op)
        PROVE  faults \subseteq ReceiptRolledBack /\ UNCHANGED vars
    <2>1. CASE Fault(op, "unknown")
      BY <1>1, <2>1
    <2>2. CASE UNCHANGED <<vars, faults>>
      BY <2>2
    <2>3. CASE Fault(op, "failed") /\ UNCHANGED vars
      BY <1>1, <2>3
    <2> QED
      BY <1>2, <2>1, <2>2, <2>3 DEF FailsWithoutEffect
  <1>3. CASE RunnerClaimFails
    BY <1>1, <1>2, <1>3 DEF RunnerClaimFails
  <1>4. CASE DecisionFails
    BY <1>1, <1>2, <1>4 DEF DecisionFails
  <1>5. CASE RunnerPublishFails
    BY <1>1, <1>2, <1>5 DEF RunnerPublishFails
  <1>6. CASE LaunchRunner \/ RunnerHandles \/ RunnerCrash
    BY <1>6 DEF LaunchRunner, RunnerCrash, RunnerHandles, RunnerGrants, RunnerDoesNotGrant,
                RunnerReceives, RunnerObservesReceipt, RunnerReadinessTimeout,
                RunnerDeadlineTimer, RunnerBudgetEnds, RunnerFreezes, RunnerSeals,
                RunnerDiscards, RunnerSeesDisconnectEvent, RunnerSeesExitEvent
  <1>7. CASE \/ RunnerClaims \/ DecisionAuthorizes \/ DecisionSuppresses \/ RunnerPublishes
             \/ LateDecision \/ LatePublication
    BY <1>7 DEF RunnerClaims, DecisionAuthorizes, DecisionSuppresses, RunnerPublishes,
                LateDecision, LatePublication
  <1> QED
    BY <1>3, <1>4, <1>5, <1>6, <1>7 DEF RunnerActs, StoreAnswers

\* The final report of a runner that granted is not refused, unless the job is
\* settled already.
LEMMA GrantedReportIsTaken ==
    ASSUME ReportInv, faults' \subseteq ReceiptRolledBack, runner.grantSent,
           RunnerPublishFails, Head(runner.publications).finalized
    PROVE  Finalized(TheJob)
  <1> SUFFICES ASSUME ~Finalized(TheJob) PROVE FALSE
    OBVIOUS
  <1>1. faults \subseteq ReceiptRolledBack
    <2>1. RunnerActs
      BY DEF RunnerActs, StoreAnswers
    <2> QED
      BY <2>1, FaultlessCalls
  <1>2. /\ ~Ended /\ runner.publications # << >>
    BY DEF RunnerPublishFails, Alive, Ended, Publishing
  <1>3. /\ ~writesDisabled[RunnerStore] /\ runner.revision = LatestRevision(TheJob)
        /\ Plain(Latest(TheJob), runner)
        /\ runner.claimed => ClaimedBy(TheJob, TheClaim) /\ TokenAccepted(TheJob)
    BY <1>1, <1>2 DEF ReportInv, ReportTaken
  <1>4. runner.claimed /\ runner \in RunnerType
    BY DEF ReportInv, SupervisionInv, SupervisionTypeOK, GrantPath, Path, Idle
  <1>5. MayPublish(TheJob, TheClaim, runner.revision)
    BY <1>3, <1>4 DEF MayPublish
  <1>6. PICK p : p = Head(runner.publications)
    OBVIOUS
  <1>7. p \in PublicationsOf(runner) /\ p \in TruePublications(Facts, Ends)
    BY <1>2, <1>6, HeadTailProperties DEF ReportInv, Queues, SupervisionInv, Knows
  <1>8. Latest(TheJob) \in ExecutionEvidence
    BY OneJobTwoStores, LatestType DEF ReportInv, SupervisionInv, LedgerInv
  <1>9. ASSUME p.launch = "spawn_failed" PROVE Latest(TheJob).launch = "unknown"
    <2>1. shell.started = 0
      BY <1>7, <1>9
         DEF TruePublications, TruePublication, Facts, NoLaunch, NeverStarts
    <2>2. TrueEvidence(Latest(TheJob), Facts, Ends) \/ Latest(TheJob) = InitialEvidence
      <3>1. CASE results[TheJob] # << >>
        <4>1. results[TheJob] \in Seq(ExecutionEvidence)
          BY OneJobTwoStores DEF ReportInv, SupervisionInv, LedgerInv, TypeOK
        <4>2. Len(results[TheJob]) \in DOMAIN results[TheJob]
          BY <3>1, <4>1
        <4> QED
          BY <3>1, <4>2 DEF Latest, ReportInv, SupervisionInv, StoreKnows
      <3>2. CASE results[TheJob] = << >>
        BY <3>2 DEF Latest
      <3> QED
        BY <3>1, <3>2
    <2>3. Latest(TheJob).launch # "launched"
      BY <2>1, <2>2 DEF TrueEvidence, Facts, InitialEvidence
    <2> QED
      BY <1>3, <2>3 DEF Plain
  <1>10. ~Contradicts(Latest(TheJob), p)
    BY <1>3, <1>4, <1>6, <1>7, <1>8, <1>9, PlainTakesReports
  <1>11. ~PublicationRejected
    BY <1>5, <1>6, <1>10 DEF PublicationRejected
  <1>12. PICK op : op = PublicationOp /\ op = "terminal"
    BY DEF PublicationOp
  <1>13. ASSUME NEW fault, Fault(op, fault) PROVE FALSE
    BY <1>12, <1>13 DEF Fault, ReceiptRolledBack
  <1> QED
    BY <1>3, <1>11, <1>12, <1>13 DEF RunnerPublishFails, FailsWithoutEffect


\* What a publication of the runner leaves: the end of the job, or its launch.
LEMMA PublicationLeaves ==
    ASSUME ReportInv, faults \subseteq ReceiptRolledBack, RunnerPublishes, RunnerReports
    PROVE  /\ Head(runner.publications).finalized => Finalized(TheJob)'
           /\ runner'.revision = LatestRevision(TheJob)'
           /\ Finalized(TheJob)' \/ Plain(Latest(TheJob)', runner')
           /\ ~writesDisabled'[RunnerStore]
  <1>1. /\ TheJob \in JobIds /\ TypeOK /\ Latest(TheJob) \in ExecutionEvidence
        /\ runner \in RunnerType /\ RunnerStore \in Connections
    BY OneJobTwoStores, LatestType
       DEF ReportInv, SupervisionInv, SupervisionTypeOK, LedgerInv
  <1>2. ~Ended /\ runner.publications # << >> /\ PublishHead("returned")
    BY DEF RunnerPublishes, Alive, Ended, Publishing
  <1>3. PICK p : p = Head(runner.publications)
    OBVIOUS
  <1>4. p \in PublicationsOf(runner) /\ p \in TruePublications(Facts, Ends)
    BY <1>2, <1>3, HeadTailProperties DEF ReportInv, Queues, SupervisionInv, Knows
  <1>5. /\ ValidEvidenceInput(p) /\ p.finalized \in BOOLEAN
        /\ Given(p, "finalized", FALSE) = p.finalized
    BY <1>4, InputsAreRunnerInputs
       DEF TruePublications, TruePublication, ValidEvidenceInput, Given
  <1>6. PICK e : e = MergeEvidence(Latest(TheJob), p, ~p.finalized, p.finalized)
    OBVIOUS
  <1>7. e \in ExecutionEvidence /\ e.finalized = p.finalized
    <2>1. e \in ExecutionEvidence
      BY <1>1, <1>5, <1>6, MergeEvidenceType
    <2> QED
      BY <1>6, <2>1 DEF MergeEvidence
  <1>8. RecordRevision(TheJob, e) /\ ~Finalized(TheJob) /\ ~writesDisabled'[RunnerStore]
    BY <1>1, <1>2, <1>3, <1>5, <1>6
       DEF PublishHead, PublishResult, MayPublish, Conclude, TypeOK
  <1>9. Latest(TheJob)' = e /\ Len(results'[TheJob]) = Len(results[TheJob]) + 1
    BY <1>1, <1>7, <1>8, AppendedRevision
  <1>10. p.finalized <=> Finalized(TheJob)'
    BY <1>7, <1>9 DEF Finalized
  <1>11. runner'.revision = LatestRevision(TheJob)'
    <2>1. PICK b \in BOOLEAN, n \in 0 .. MaxRevision :
              /\ n = LatestRevision(TheJob) + 1
              /\ runner' = HeadDone([runner EXCEPT !.revision = n, !.settled = b])
      BY PublishedRevision DEF ReportInv
    <2>2. runner'.revision = n
      BY <1>1, <2>1 DEF RunnerType, HeadDone, Closed
    <2> QED
      BY <1>9, <2>1, <2>2 DEF LatestRevision
  <1>12. ASSUME ~p.finalized PROVE Plain(Latest(TheJob)', runner')
    <2>1. p = LaunchReceipt /\ runner.launched
      BY <1>4, <1>12 DEF PublicationsOf, PublicationOf, SpawnFailure, TerminalEvidence
    <2>2. e = MergeEvidence(Latest(TheJob), LaunchReceipt, TRUE, FALSE)
      BY <1>6, <2>1 DEF LaunchReceipt
    <2>3. Plain(Latest(TheJob), runner)
      BY <1>2, <1>8 DEF ReportInv, ReportTaken
    <2>4. Plain(e, runner)
      BY <2>1, <2>2, <2>3, ReceiptIsPlain
    <2> QED
      BY <1>9, <2>1, <2>4 DEF RunnerReports, Plain
  <1> QED
    BY <1>3, <1>8, <1>10, <1>11, <1>12

\* A step of the runner keeps the way to its report open.
LEMMA RunnerKeepsReportTaken ==
    ASSUME ReportInv, RunnerActs, StoreMove, RunnerReports,
           faults' \subseteq ReceiptRolledBack
    PROVE  ReportTaken'
  <1>1. faults \subseteq ReceiptRolledBack /\ ReportTaken
    BY FaultlessCalls DEF ReportInv
  <1>2. /\ TheJob \in JobIds /\ TypeOK /\ RunnerStore \in Connections /\ TheClaim # Null
        /\ Path(runner)
    BY OneJobTwoStores, ConstantsAreSound DEF ReportInv, SupervisionInv, LedgerInv, GrantPath
  <1>3. /\ Finalized(TheJob) => Finalized(TheJob)'
        /\ ClaimedBy(TheJob, TheClaim) => ClaimedBy(TheJob, TheClaim)'
        /\ TokenAccepted(TheJob) => TokenAccepted(TheJob)'
    BY StoreKeepsReports DEF ReportInv
  <1>4. Ended => Ended'
    BY DEF RunnerReports, Ended
  <1>5. RunnerPublishes =>
            /\ Head(runner.publications).finalized => Finalized(TheJob)'
            /\ runner'.revision = LatestRevision(TheJob)'
            /\ Finalized(TheJob)' \/ Plain(Latest(TheJob)', runner')
            /\ ~writesDisabled'[RunnerStore]
    BY <1>1, PublicationLeaves
  <1>6. \/ UNCHANGED vars \/ RunnerClaims \/ DecisionAuthorizes
        \/ DecisionSuppresses /\ ~writesDisabled'[RunnerStore] /\ Finalized(TheJob)'
        \/ RunnerPublishes
        \/ Ended
    <2>1. LateDecision \/ LatePublication => Ended
      BY DEF LateDecision, LatePublication
    <2>2. ASSUME DecisionSuppresses
          PROVE  ~writesDisabled'[RunnerStore] /\ Finalized(TheJob)'
      <3>1. SuppressLaunch(RunnerStore, TheJob, TheClaim, Clock, "returned")
        BY <2>2 DEF DecisionSuppresses
      <3>2. ~writesDisabled'[RunnerStore]
        BY <1>2, <3>1 DEF SuppressLaunch, Conclude, TypeOK
      <3>3. PICK s : s = Suppression(TheJob, Clock) /\ s # Null
        BY <3>1 DEF SuppressLaunch
      <3>4. s \in SuppressedLaunch
        BY <3>3 DEF Suppression, SuppressedLaunch
      <3>5. PICK e : e = MergeEvidence(Latest(TheJob), SuppressionEvidence(s), FALSE, TRUE)
        OBVIOUS
      <3>6. e \in ExecutionEvidence
        BY <1>2, <3>4, <3>5, LatestType, SuppressionEvidenceValid, MergeEvidenceType
      <3>7. RecordRevision(TheJob, e)
        BY <3>1, <3>3, <3>5 DEF SuppressLaunch
      <3>8. Latest(TheJob)' = e
        BY <1>2, <3>6, <3>7, AppendedRevision
      <3> QED
        BY <3>2, <3>5, <3>8 DEF Finalized, MergeEvidence
    <2> QED
      BY <2>1, <2>2, FaultlessCalls
  <1>7. ASSUME UNCHANGED vars \/ RunnerClaims \/ DecisionAuthorizes
        PROVE  /\ UNCHANGED results
               /\ ~writesDisabled[RunnerStore] => ~writesDisabled'[RunnerStore]
    <2>1. CASE RunnerClaims
      BY <1>2, <2>1 DEF RunnerClaims, ClaimRunner, Conclude, TypeOK
    <2>2. CASE DecisionAuthorizes
      BY <1>2, <2>2 DEF DecisionAuthorizes, AuthorizeLaunch, Conclude, TypeOK
    <2>3. CASE UNCHANGED vars
      BY <2>3 DEF vars, tables
    <2> QED
      BY <1>7, <2>1, <2>2, <2>3
  <1>8. ~Ended' => ~writesDisabled'[RunnerStore]
    BY <1>1, <1>4, <1>5, <1>6, <1>7 DEF ReportTaken
  <1>9. runner'.claimed => ClaimedBy(TheJob, TheClaim)' /\ TokenAccepted(TheJob)'
    <2>1. CASE RunnerClaims
      <3>1. /\ TokenAccepted(TheJob)
            /\ claims' = [claims EXCEPT ![TheJob] = [claimId |-> TheClaim,
                                                    heartbeatCounter |-> 0]]
        BY <2>1 DEF RunnerClaims, ClaimRunner
      <3>2. claims'[TheJob].claimId = TheClaim
        BY <1>2, <3>1 DEF TypeOK
      <3> QED
        BY <1>3, <3>1, <3>2 DEF ClaimedBy
    <2> QED
      BY <1>1, <1>3, <2>1 DEF ReportTaken, RunnerReports
  <1>10. ASSUME ~Ended', ~Finalized(TheJob)'
         PROVE  /\ runner'.revision = LatestRevision(TheJob)'
                /\ Plain(Latest(TheJob)', runner')
    <2>1. runner.revision = LatestRevision(TheJob) /\ Plain(Latest(TheJob), runner)
      BY <1>1, <1>3, <1>4, <1>10 DEF ReportTaken
    <2>2. CASE RunnerPublishes
      BY <1>5, <1>10, <2>2
    <2>3. CASE ~RunnerPublishes
      <3>1. UNCHANGED results
        BY <1>4, <1>6, <1>7, <1>10, <2>3
      <3>2. /\ Latest(TheJob)' = Latest(TheJob)
            /\ LatestRevision(TheJob)' = LatestRevision(TheJob)
        BY <3>1 DEF Latest, LatestRevision
      <3>3. runner'.revision = LatestRevision(TheJob)'
        BY <2>1, <2>3, <3>2 DEF RunnerReports
      <3> QED
        BY <2>1, <3>2, <3>3 DEF Plain, RunnerReports
    <2> QED
      BY <2>2, <2>3
  <1>11. runner'.grantSent /\ runner'.closed => Finalized(TheJob)'
    BY <1>1, <1>3, <1>5, GrantedReportIsTaken DEF ReportTaken, RunnerReports
  <1> QED
    BY <1>8, <1>9, <1>10, <1>11 DEF ReportTaken

\* Without a reconciler nobody else publishes, so that every step does.
LEMMA ReportStep ==
    ASSUME ~Reconciles
    PROVE  ReportInv /\ [SupervisionNext]_supervisionVars => ReportInv'
  <1> SUFFICES ASSUME ReportInv, SupervisionNext \/ UNCHANGED supervisionVars
               PROVE  ReportInv'
    OBVIOUS
  <1>1. SupervisionInv'
    BY SupervisionStep DEF ReportInv
  <1>2. CASE UNCHANGED <<vars, runnerVars>>
    BY <1>1, <1>2
       DEF ReportInv, Queues, PublicationsOf, PublicationOf, ReportTaken, Plain, Ended,
           ClaimedBy, TokenAccepted, Known, Finalized, Latest, LatestRevision,
           runnerVars, vars, tables, history
  <1>3. CASE RunnerActs /\ SupervisionNext
    <2>1. RunnerReports
      BY <1>3, RunnerKeepsReports DEF ReportInv
    <2>2. faults' \subseteq ReceiptRolledBack => ReportTaken'
      BY <1>3, <2>1, EveryStepIsAStoreMove, RunnerKeepsReportTaken
    <2> QED
      BY <1>1, <2>1, <2>2 DEF ReportInv, RunnerReports
  <1>4. CASE OwnerActs
    <2>1. /\ UNCHANGED results /\ UNCHANGED <<runnerVars, guardianVars, link>>
          /\ writesDisabled'[RunnerStore] = writesDisabled[RunnerStore]
      <3>1. writesDisabled \in [Connections -> BOOLEAN]
        BY DEF ReportInv, SupervisionInv, LedgerInv, TypeOK
      <3>2. ASSUME NEW outcome, Conclude(OwnerStore, outcome)
            PROVE  writesDisabled'[RunnerStore] = writesDisabled[RunnerStore]
        BY <3>1, <3>2, OneJobTwoStores DEF Conclude
      <3> QED
        BY <1>4, <3>2
           DEF OwnerActs, OwnerReserves, OwnerCancels, OwnerObserves,
               OwnerPublishesUncertainty, Reserve, RequestCancellation
    <2>2. /\ ClaimedBy(TheJob, TheClaim) => ClaimedBy(TheJob, TheClaim)'
          /\ TokenAccepted(TheJob) => TokenAccepted(TheJob)'
      <3>1. StoreMove
        BY <1>4, EveryStepIsAStoreMove DEF SupervisionNext
      <3> QED
        BY <3>1, StoreKeepsReports DEF ReportInv
    <2>3. /\ Latest(TheJob)' = Latest(TheJob)
          /\ LatestRevision(TheJob)' = LatestRevision(TheJob)
          /\ Finalized(TheJob)' <=> Finalized(TheJob)
      BY <2>1 DEF Latest, LatestRevision, Finalized
    <2>4. runner' = runner /\ faults' = faults
      BY <2>1 DEF runnerVars
    <2>5. ReportTaken => ReportTaken'
      BY <2>1, <2>2, <2>3, <2>4 DEF ReportTaken, Ended, Plain
    <2>6. Queues(runner')
      BY <2>4 DEF ReportInv
    <2> QED
      BY <1>1, <2>4, <2>5, <2>6 DEF ReportInv
  <1> QED
    BY <1>2, <1>3, <1>4
       DEF supervisionVars, SupervisionNext, RunnerRuns, StoreServes, GuardianRuns,
           TimePasses, Crash, RunnerActs

\* A runner that was told to grant a launch, did so and closed has settled the job
\* with a report that is true, although its guardian, the guardian's messages or
\* its own launch receipt were lost, as long as nobody else publishes for the job.
THEOREM GrantedRunIsAlwaysReported ==
    ASSUME ~Reconciles
    PROVE  SupervisionSpec => []GrantedRunIsReportedTruly
  <1>1. SupervisionInit => ReportInv
    <2> SUFFICES ASSUME SupervisionInit PROVE ReportInv
      OBVIOUS
    <2>1. SupervisionInv
      BY SupervisionStart
    <2>2. runner = NewRunner /\ Init
      BY DEF SupervisionInit
    <2>3. Queues(runner)
      <3>1. << >> \in Seq(PublicationsOf(runner))
        OBVIOUS
      <3> QED
        BY <2>2, <3>1 DEF NewRunner, Queues
    <2>4. ReportTaken
      <3>1. ~writesDisabled[RunnerStore] /\ results[TheJob] = << >>
        BY <2>2, OneJobTwoStores DEF Init
      <3>2. Plain(Latest(TheJob), runner) /\ LatestRevision(TheJob) = 0
        BY <3>1 DEF Latest, LatestRevision, Plain, InitialEvidence
      <3> QED
        BY <2>2, <3>1, <3>2 DEF NewRunner, ReportTaken
    <2> QED
      BY <2>1, <2>3, <2>4 DEF ReportInv
  <1>2. ReportInv => GrantedRunIsReportedTruly
    BY TruthIsPublished
       DEF ReportInv, ReportTaken, ReceiptRolledBack, GrantedRunIsReportedTruly,
           GrantedRunIsReported
  <1> QED
    BY <1>1, <1>2, ReportStep, PTL DEF SupervisionSpec
=============================================================================
