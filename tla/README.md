# pi-watch: a verification project

pi-watch runs shell commands in the background for Pi, a coding agent: a command
outlives the session that started it, is bounded by a deadline, and leaves a
durable, honest account of what was observed. This directory holds TLA+ models of
that program, translated from `src/src/*.ts`, the TLC configurations that
check them on small instances, and TLAPS proofs, for every instance, of the safety
properties that those configurations check.

File names below without a directory are under `src/src/`.

## 1. The system

### Components

| Component | Code | State it keeps | Operations |
|---|---|---|---|
| Job store | `job-store.ts` | one SQLite file: jobs, control, claims, results (revisions), notices, stale witnesses; per handle `writesDisabled` | `createJobStore`; reserve, observe, cancel, publish uncertainty, acknowledge; claim, heartbeat, decide the launch, publish |
| Execution evidence | `store-evidence.ts` | none: a snapshot and a monotone merge | `mergeEvidence`, validation of an observation |
| Store worker | `store-worker.ts` | the open store in a worker thread | serves one request at a time |
| Store client | `store-client.ts` | pending calls, startup race, `workerFailed` | `openStoreClient`, requests, `close`, `terminateWorker` |
| Runner launch | `launch.ts` | none | starts one detached runner for a created reservation |
| Runner | `runner.ts` | claim, launch facts, five timers, coordinator of the cutover, publication queue | handlers of guardian messages, timers, streams, store answers |
| Guardian | `guardian.ts` | state `starting` to `exited`, one tracked timer, `cleanupStarted` | readiness, grant, spawn, exit, deadline, cleanup, disconnect, SIGTERM |
| Guardian protocol | `guardian-protocol.ts` | none | encoding of the IPC messages |
| Process control | `process-control.ts` | a `ps` probe | verifies the guardian's process group |
| Output capture | `output-capture.ts` | raw file, truncation marker, closure receipt per stream; pump, seal, discard in progress | accept, seal, invalidate |
| Output reader | `output.ts` | none | snapshot of the artifacts, verdict, paging |
| Private paths | `private-path.ts` | none | makes the directories of the store and of the captures; checks paths and files |
| Owner identity, validators | `owner.ts`, `job-types.ts` | none | pure checks |

### How they interact

A Pi client (owner) reserves a job through its store client and, from the reply
that creates it, gets the only copy of the runner token. It starts a detached
*runner*, which claims the job with that token, starts a *guardian* over a private
IPC channel, and asks the store for the launch decision when the guardian has
verified its process group. The store decides once, in one transaction: authorized,
or suppressed because of a cancellation or the deadline, in which case the job is
settled there and then. An authorized runner sends one grant; the guardian
spawns the shell, reports its receipt and its exit, and cleans its group up with
TERM and, five seconds later, KILL. The runner collects messages, captures both
output streams, and ends with one terminal revision: the spawn failure, or the
frozen facts after the cutover. The owner meanwhile may cancel, observe, and mark a
job uncertain when two observations saw no progress. Readers page through the
captured files while they grow.

All processes share only the SQLite file, the artifact files, the IPC channel and the
wall clock. Every process may die at any step; a store call may fail with nothing
written, with a durable effect, or without anybody knowing which.

### What is hard

* *Uncertain commits.* COMMIT may throw after the statements ran, post-commit work
  may throw after COMMIT succeeded, and a worker may die with the answer.
* *Races for a decision.* Cancellation, deadline, claim and decision come from
  different connections in any order, with a wall clock that may step backwards.
* *Evidence from several publishers* (the runner's receipt, its spawn failure, its
  freeze, the suppressing decision, the reconciler) over a long history.
* *Opening together.* Any number of processes may make the directory, convert the
  database and create its schema at the same time, with locks that are waited for,
  attempts that are repeated, and a newer version that may migrate the database
  between two inspections.
* *Event loops.* Runner, guardian and store client read state before an await and
  use it after; timers race late answers; exit events overtake messages.
* *Files read while written.* A reader needs several system calls for a snapshot;
  every file operation of the writer may fail. A page cuts characters and has
  limits on lines and on its escaped size.

`PROJECT.json` lists each hazard at its line with the properties that cover it.

### What makes each component correct

* Store: one launch grant, one final revision, decision and evidence agree, nothing
  recorded is erased, a retried reservation does not start a second runner,
  uncertainty is published only for a job that looked idle.
* Opening: only recognised databases are changed; a refusal names a reason that is
  there; no lock stays behind; every opener returns or throws.
* Evidence: the merge rejects exactly the contradictions, and is idempotent.
* Store client: an answer is given once and is true; no call hangs; a failed startup
  leaves no worker behind unless it says so.
* Runner and guardian: no shell without a received grant, at most one shell for a
  runner that answers the guardian's hello once, no shell after the job was settled, truthful evidence, and an end for the runner
  whatever the guardian or the shell do.
* Output: a receipt and a page never claim more than was delivered and kept; an end
  of output is final; the writer's terminal steps do not hang; consecutive pages show
  exactly the decoded stream and always come further.

## 2. The modules

| Module | Models | Composed of |
|---|---|---|
| `Evidence` | snapshot, observation, `mergeEvidence` as operators | |
| `EvidenceHistory`, `MCEvidenceHistory` | one job's evidence under any sequence of observations | `Evidence` |
| `LaunchAuthority` | abstract: what the store promises about launching | |
| `JobStore`, `MCJobStore` | every transaction of the store | `Evidence`; refines `LaunchAuthority` |
| `StoreOpening` | abstract: what opening a store promises | |
| `StoreStartup` | `createJobStore` in several processes at once | refines `StoreOpening` |
| `GuardianLink` | IPC channel, the guardian process, the clock | |
| `Guardian` | the guardian and its shell | `GuardianLink`, `Evidence` |
| `GuardianAlone` | the guardian against an arbitrary peer | `Guardian` |
| `Runner` | the runner and its launch | `JobStore`, `GuardianLink` |
| `Supervision`, `MCSupervision` | owner, store, runner, guardian and shell together | `Runner`, `Guardian` |
| `StoreCalls` | abstract: what the store client promises its callers | |
| `StoreClient` | store client and worker thread | refines `StoreCalls` |
| `OutputCapture` | one stream's capture with its terminal paths | |
| `OutputReader` | a reader beside a running capture | `OutputCapture` |
| `OutputPages` | the pages of a growing stream, byte by byte | |
| `EvidenceProofs`, `EvidenceHistoryProofs`, `JobStoreProofs`, `StoreProofs` (startup and client), `GuardianProofs` (against any peer, and lemmas), `SupervisionProofs`, `OutputProofs`, `OutputPagesProofs` | theorems | the modules they are about |

### Correspondence with the code

**Evidence.** An observation is a record whose domain holds the keys the caller
supplied, because `mergeEvidence` tells an absent key from one that is null. Each
rejection of `mergeEvidence` is a disjunct of `Contradicts`; `Survives` and
`Coherent` say independently what a rejection is for.

**JobStore.** The variables are the tables; one action is one `inTransaction` call
with everything it writes (a revision and its notice, the settled state). A call
that throws and rolls back is the absence of a step. `outcome` is how a durable
transaction is answered, after `inTransaction` (`job-store.ts:1101-1165`): the
result, an error with `commitOutcome` "unknown", or one with "committed"; the last
two disable further writes of that handle until it is reopened. `FailedCommit` is
the COMMIT that threw and wrote nothing. The history variables `disclosures` and
`grants` count the replies that reached a caller with a token or with
`authorized_now`. `observed` is the owner's last observation, which
`publishUncertainResult` compares and swaps on.

**StoreStartup.** `opener[p]` is the place of one process in `createJobStore`, with
the number of its attempt and the journal mode that its probe saw; the other
variables are what all processes share: the database, the disk, and SQLite's locks.
One action is one step between two system or SQLite calls that others can observe;
an action that waits for a lock has the disjunct `Busy`, which is the end of that
wait. `Fails` is the catch of `initialize()`: it releases both handles, or fails to,
and keeps the outcome of a write. The locks of SQLite are external: a probe reads, a
writer reserves, a reservation made under `locking_mode = EXCLUSIVE` survives the
ROLLBACK that follows the second inspection, and the conversion to WAL needs every
reader gone. `Leaves` closes a store or kills a process wherever it is. `Upgrade` is
a newer version of the program, which takes the locks that every writer takes.
`StoreOpening` forgets the locks, the files and the attempts: what is left is which
databases may be changed and which stores may be handed out.

**Guardian.** One action per handler. The code keeps one variable for two timers,
the launch deadline and the cleanup KILL; `deadlineTimer` is that variable and
`armed` the timers that are really set, so that a timer that was overwritten still
fires. Node queues the `spawn` or `error` event before any other handler may run,
hence `shell.reporting`. A KILL to its own group ends the guardian. A `hello_reply` that
is repeated while the guardian is starting begins another verification, and each of them
makes the guardian ready when it succeeds, even after a grant (`guardian.ts:138`): so
`verifying` counts those that are pending, `shell.further` the shells beyond the first,
and `older` the launch deadlines that a later grant has replaced in the variable. All
messages of a peer carry the record of the one job that the guardian was started for,
hence one deadline.

**Runner.** Handlers are functions from runner state to runner state, applied up to
their first await. A store call is split where something can come between: the
decision (`DecisionAuthorizes` ... then `RunnerGrants` / `RunnerDoesNotGrant`) is a
transaction and an answer; a publication is one step, because nothing the runner
does in between reads what it leaves. A call that is outstanding when the runner
closes or dies may still take effect (`LateDecision`, `LatePublication`).
`already_decided` and `precluded` answer a second holder of the same claim, which
does not exist (`OneJobOneToken`, `RecordedOnce`).

**StoreClient.** A worker's transaction and its posted answer are two steps; events
of the worker are handled in order; the startup promise is a small state machine.

**OutputCapture.** Bytes are counted, never named. Every `await` of the pump, the
marker, `seal()` and `invalidateEmptyStaging()` is a step that may fail when `Faults`
says so. `terminal` records which of the runner's terminal paths were taken. A stream
that reports an error (`stream.failed`) loses its capture but has not ended: what it
delivers later is drained, and its real end or the freeze seals it.

**OutputReader.** Each system call of `readOutputSnapshot` that looks at another
artifact is a step; the receipt is found by `lstat` in one step and loaded in the
next. The verdict is one step on what was loaded.

**OutputPages.** A byte is one of the classes that `utf8Token` and the escaping tell
apart, and a character is the sequence of its bytes. `Paginate` is the loop of
`paginate` as a recursive function of the number of rounds. A page is read from a
prefix of the stream, in which the capture may since have stopped or gone on.
`Decoded`, the reference, is written from the table of well-formed UTF-8 sequences
and never looks at windows or snapshots. Of the envelope only the parts whose
length changes from page to page are counted: the offset, `hasMore` and the text.

## 3. The runs

Passing runs check deadlock unless their configuration says otherwise: where it
does (`CHECK_DEADLOCK FALSE`), the system really stops (processes end, calls are
answered, files are sealed).

| Run | Instance | What it shows |
|---|---|---|
| `evidence` | all combinations of launch, outcome and cleanup facts (2025 observations), stream facts one at a time and those of a cutover | the merge's rules are complete and minimal, and it is idempotent |
| `store` | 2 candidate identities for one request key, 2 racing claims, 1 owner, 1 connection, 4 revisions, clock 0/1 around a deadline at 1 or 2 | all store invariants and action properties, and refinement of `LaunchAuthority` |
| `store_startup` | 3 processes, 2 attempts each, every directory, file and database, every fault | refinement of `StoreOpening`, honest refusals, no lock left behind, every opener ends |
| `guardian_alone` | 4 messages of an arbitrary peer | one TERM and one KILL at most; no more shells than `hello_reply` messages, and for one of those truthful receipts; winds down |
| `supervision_faults` | 1 store fault of any kind, the runner may die, the owner publishes uncertainty anywhere, 4 revisions | no shell without a received grant, true evidence |
| `supervision_guardian_loss` | 1 rolled-back call, the guardian may die, be terminated or hang | granted runs are reported truthfully, no late shell, legal use of the store, the runner ends |
| `store_client` | 2 calls of any kind | refinement of `StoreCalls`, startup settles, no call hangs |
| `output_reader` | limit 3, 4 bytes in chunks of 1 or 2, every file operation may fail | receipts and pages tell the truth, sealing and discarding end |
| `output_pages` | every stream of up to 5 bytes of 9 classes, a window of 2 bytes, 1 line, an envelope of 12 | the pages decode the stream, all of it at its end, and come further |
| `cleanup_kill_lost`, `meddling_reconciler`, `output_overlap` | | the three disagreements of section 6 |

### Bounds, and why they are enough

* `MaxRevision`: a runner publishes at most a receipt and a terminal revision. Two
  more revisions (4) let the reconciler come before, between and after them; runs
  without a reconciler need 2. At the bound, a publication is simply not enabled;
  every property is about revisions that exist.
* `MaxHeartbeat` = 1: one heartbeat distinguishes an observation made before it
  from one made after. The runner in this repository sends none.
* `Times` = {0, 1}: the deadline (reservation time plus 1) is before, on and after
  some clock value, and the clock may step back. In `Supervision` one clock is
  read by everybody and `expired` is stable, so the passing of the deadline is seen
  in every order relative to the other steps, though not undone: the code compares
  with `Date.now`, and what `NoLateShell` says is for a wall clock that is not set back.
* `MaxFaults` = 1: one failing store call per behaviour. After a fault with
  uncertain outcome the connection refuses later writes, so further faults of the
  same connection add only rolled-back calls.
* `MaxMessages` = 4: two `hello_reply` messages and two grants in any order, with which
  a second shell is started, or any other four.
* `MaxCalls` = 2: one call in the worker's hands while another is queued behind it,
  which is all that the serial worker distinguishes.
* `Limit` 3, `MaxOutput` 4, `Chunks` {1, 2}: a chunk ends below, on and across the
  limit; the pump writes in parts; the receipt is ahead of, equal to or behind a
  reader's snapshot.
* `Openers` = 3: a prober, a converter and one that makes, leaves or upgrades
  something meanwhile. Every lock is held by one of them at a time, so a fourth
  adds only more waiting. `MaxAttempts` = 2: a first attempt, after which one retries,
  and a last one, after which one gives up (5 in the code).
* `MaxBytes` 5 with `Window` 2: a character of four bytes is cut by the window and by
  the snapshot after its first, second and third byte, with another before or after
  it. `EnvelopeLimit` 12 is two digits (`Radix` 3), `false`, and five bytes of text:
  one replacement and one line feed fit and two replacements do not. The alphabet has
  every lead byte whose second byte is restricted, one that is not, and every
  range of continuation bytes.
* One exit code and at most one signal: they are only compared with null and with
  each other.
* `IdentitySymmetry` is sound: claims and candidate job identities are compared for
  equality only, and the run it is used in has no liveness property.

### Fairness

* `SupervisionFairness`: the runner's event loop runs its handlers, timers fire, the
  store answers, time passes. The guardian, the shell and the owner are under no
  fairness, so `RunnerEnds` covers a guardian that hangs for ever.
* `AloneFairness`: the guardian's loop and the clock. Steps in which the shell ends
  are excluded: it may ignore TERM.
* `StoreClientFairness`: callbacks and expired timers run, a worker that is up takes
  its messages (SQLite's lock wait is bounded by `busy_timeout`), a terminated worker
  ends. That a starting worker ever reports anything is not assumed: the startup
  timeout is what `StartupSettles` rests on.
* `Fairness` of `StoreStartup`: `createJobStore` is synchronous, so a process that is
  in it goes on, each lock is waited for with `busy_timeout`, and a transaction of an
  open store ends. Nobody has to write, to close a store or to die. `StartupEnds` then
  rests on the timeouts and on the number of attempts.
* `CaptureFairness`: file operations complete, successfully or not. That a stream ever
  ends or the runner ever freezes it is not assumed.

## 4. The proofs

All are for any values of the constants that satisfy the named assumptions: any
number of jobs, owners, connections, claims, revisions, openers, attempts, calls and
messages, any clock, limit and chunks, and any set of faults. What is assumed:

* `NullIsNoFact`, `NullIsNoValue`, `NullIsNoError`, `NullIsNoOpener`: null is no value
  of the types it is added to.
* `ConstantsAreSound`, `CallsAreBounded`, `AttemptsArePositive`, `CaptureConstants`,
  `FaultsAreKnown`, `SignalsAreObserved`: bounds are numbers, and faults and results
  are those that the modules name.
* `ObservationsAreValid`, `InputsAreRunnerInputs`, `RunnerPublishesInputs`: what is
  published passed the validator; a runner never publishes a suppression, and what
  `runner.ts` composes, of whatever it may have learned, is among the inputs of the
  store. TLC evaluates the last of every report that a runner can compose. The store
  itself does not check the second: `publishResult` (`job-store.ts:1541`) would record a
  suppression from whoever holds the claim and the token, without a look at the
  decision. `DecisionMatchesEvidence` is therefore a property of the store with this
  runner, not of the store's interface.
* `OneJobTwoStores`: the supervised job and claim exist, owner and runner have a
  connection each, and the deadline is after the reservation.

### Evidence

* `MergePreservesFacts`, `MergePreservesCoherence`: an accepted merge keeps every
  established fact and the coherence of the snapshot.
* `EvidenceAlwaysOK`, `RejectsExactlyAlways`: the same for every history, and the
  converse: what is rejected would have erased a fact or contradicted the snapshot.
* `RepeatAlwaysChangesNothing`: not an invariant that needs its history, but a theorem about
  the merge at any coherent snapshot: whatever it accepted has left a snapshot that
  contains it, so that merging it once more changes nothing. A terminal publication
  repeats the facts of the launch receipt. The runner never repeats a publication as a
  whole: its expected revision would be stale.

### Store

* `TypeCorrect`: `TypeOK` is inductive for the store.
* `OneFinalRevisionAlways`, `OneLaunchGrantAlways`, `DecisionMatchesEvidenceAlways`:
  from one inductive invariant, `LedgerInv`, which is `TypeOK` and, for each job, its
  `Ledger`. None of the three is inductive alone. One grant per job needs that
  nothing was granted while the decision is open; that a refusal is settled with
  its own evidence needs that a settled job has a final revision, that only the last
  revision is final, and that no open revision records a refusal, which in turn
  needs that a merge takes its launch phase from the observation or from the
  revision before it (`MergedLaunch`). A step touches one job, so the proof has one
  lemma for a job that a step leaves alone (`LedgerFrame`), one for a revision that
  leaves the job open, one for a final revision, and one case per action.
* `OneJobOneTokenAlways`: the ledger bounds the disclosures of a token;
  `UniqueRequests`, that no two rows carry one request, is inductive beside `TypeOK`
  because only `Reserve` writes a request (`RunnerKeepsRequests`), after its lookup.
* `EvidenceNeverErasedAlways`: from `HistoryInv`, which is `TypeOK` and, for each job,
  `FactsKept`: every revision is coherent and keeps the facts of every earlier one.
  A publication appends `Merge` of the last revision, so `MergePreservesFacts`
  relates the new revision to the last and transitivity relates it to the others.
* `RecordedOnceAlways`: from `ColumnInv`, which is `TypeOK` and, for each job,
  `RowsBeginEmpty`: the decision time is null while the decision is open, the
  heartbeat is zero while nobody claimed, and the control row is new while the job
  does not exist. Without it an UPDATE guarded by one column (`launch_decision`)
  could overwrite another (`decided_at`).
* `CancellationExcludesGrantAlways`: a deciding transaction reads the cancellation
  column itself, so `TypeOK` suffices.
* `StoreImplementsAuthority`: the store refines `LaunchAuthority`. Each action is one
  step of the authority or a stutter: `AuthorizeLaunch` is `Authorize` (with or
  without a grant, depending on whether the answer is returned), `SuppressLaunch`
  is `Refuse`, a final `PublishResult` is `Report`, a first `RequestCancellation`
  is `Cancel`, and everything else stutters. It uses `LedgerInv`, since "open" must mean that
  no final revision exists.
* `UncertaintyOnlyWhenIdleAlways`: from `SnapshotInv`, which is `ColumnInv` and, for
  each job, `SnapshotShowsActivity`: the owner's snapshot is not ahead of the claim,
  the counter and the revisions, and once the runner claimed, beat or published it
  differs from them. (A launch decision moves none of the three, in the code as in the
  model, and does not keep the reconciler off.) The first part is what makes the second inductive: the three columns only
  move on, so a difference never disappears, and each runner step moves one of them
  past a snapshot that was not ahead of it. That a claim starts its counter at zero,
  where nobody's counter was higher, is `RowsBeginEmpty` of `ColumnInv`.
* `WitnessesExplainUncertaintyAlways`: from `WitnessInv`. A witness that is added
  carries the last revision's number, and every older witness a smaller one, because
  the revision that it explains exists already. What the merge of no observation
  returns is the lemma `NothingObserved`.

### Startup and client of the store

* `StartupTypeOKAlways`, `NothingLeftBehindAlways`, `RefusalsAreAlwaysHonest`,
  `StartupImplementsStoreOpening`: from one inductive invariant, `StartupTypeOK` and,
  for each opener, `StartupInv`, which says what locks an opener holds at its place:
  a converter is the writer and does not read, an opener that waits for the
  reservation reads and is not the writer, one that has gone back or given up has
  neither unless a close failed. The refinement rests on two consequences. While an
  opener converts, its lock keeps `Upgrade` out, so that the content is still what
  its last inspection saw; and an opener reaches `bootstrap` only with the journal in
  WAL mode, because the mode that a probe saw cannot change while the probe reads.
  Honesty of STORE_BUSY needs that an opener which finds a lock taken does not
  hold that lock itself.
* `ClientTypeCorrect`, `ClientKeepsItsPromises`: from `AnswersInv`, which says where
  an answer may be found. A call in `toWorker` is there once, is not durable, has not
  been told that it never will be, and nobody is about to answer it (`Untaken`); an
  answer in the worker's hands or in `toClient` says no more than is so
  (`Truthful`). The second needs the first: an answer "failed" stays true while it
  travels only because its call is not taken again. With it each step of client,
  worker and callers is a step of `StoreCalls` or a stutter: a transaction that
  commits is `TakeEffect`, an arriving answer, a lost worker and `close()` are
  `AnswerSome`. Elements and distinctness of sequences are lemmas of their own.
* `FailedStartupIsAlwaysCleanedUp`: inductive as it stands, since a worker that has
  ended does not come back.

### Guardian

* `OneShellOneCleanupAlways`: from two invariants, one for any peer and one for a peer
  that has answered the hello at most once.
  * For any peer, `CleanupOnce` (TERM and the grace begin together, once, and the timer
    of KILL is gone when KILL was signalled) and an account of what the peer has paid: the
    shells started, the verifications pending, the readiness to start one more shell
    and the replies still on their way are together no more than the `hello_reply`
    messages sent (`Debt`, `GuardianPays`). A verification that ends is turned into
    readiness, and a grant spends that.
  * For at most one reply (`RepliedOnce`), `GuardianInv`: the types, `LaunchInOrder`
    (before a grant is taken nothing was started, "granted" lasts until spawn() has
    reported, the one shell was started if and only if there is or was a process) and
    `CleanupInOrder` (the KILL timer is the tracked one). `ChannelInv` says that every
    message on the channel to the runner is true when it arrives, however late: what it
    says happened is never undone (`Advances`).

  The lemmas are in `GuardianProofs`, because the composed system rests on them too.

### Supervision

One inductive invariant, `SupervisionInv`, for owner, store, runner, guardian and shell
together, whatever crashes, store faults and reconcilers do. Its parts:

* the types, the store's `LedgerInv`, and the guardian's `GuardianInv` and `ChannelInv`;
* `HelloOnce`: the runner answers the hello once, because there is one to answer, which is
  what the guardian's invariant rests on (`RepliedOnce`);
* `GrantPath`: a runner asks for a decision only for a verified topology; once it has the
  answer `authorized_now`, or has sent the grant, the authorization is durable and was
  granted once; the channel to the guardian carries a grant only if one was sent, and
  a guardian that acted on a grant got it there;
* `Knows` and `StoreKnows`: the facts of the world (a shell was started, signalled,
  has ended with that outcome, the deadline has passed, no shell will ever start any
  more) are a set that only grows (`FactsGrow`). What the runner holds for a fact, what
  it has queued for publication, and what a revision says, are all in that set. Since
  truth at the time of learning implies truth at the time of publication, every
  handler is checked alone, by a lemma about a function from runner to runner.

From it follow:

* `SupervisionTypeCorrect`; `ShellAlwaysNeedsGrant`, from `GrantPath`;
  `EvidenceIsAlwaysTrue`, from `StoreKnows`.
* `SystemUsesStore`: every step of the system is one of the few operations of the store
  in `StoreMove`, and each of those is a step of the store's own specification.
  Therefore every theorem about `JobStore` is one about the running system.
* `NoShellAfterTheEnd`: a final revision says that the launch was refused, failed, or is
  past; a refused launch was not granted, and the two other facts exclude a spawn.
* `GrantedRunIsAlwaysReported`, under the assumption `~Reconciles`, which is the
  circumstance that the property names ("nobody else publishes") and without which it is
  false: that is the second disagreement of section 6. `ReportInv` adds to
  `SupervisionInv` what the runner has queued (`Queues`: the launch receipt after a launch,
  then a report that agrees with it) and `ReportTaken`: as long as at most the receipt
  was rolled back, the store takes the runner's writes, the runner knows the last
  revision, and that revision says nothing which its report could contradict (`Plain`).
  So the report is accepted when it is published (`GrantedReportIsTaken`), and a
  runner that granted cannot close before.

### Output

One inductive invariant, `OutputInv`, for a writer and a reader beside it. Of the
writer (`CaptureInv`): every byte is counted (`BytesCounted`: admitted bytes are written
unless something was lost, and only the limit or a loss keeps a delivered byte from
being admitted); the marker exists if and only if the limit was exceeded
(`MarkerTells`); only one receipt is ever composed, after the pump and the marker are
done, and it is true of the counts (`SealInOrder`, `TrueReceipt`); a discard shuts the
intake and waits for a receipt that is on its way (`DiscardInOrder`, `ClosedInTurn`); and
the store knows nothing before the publication (`PublishedTruly`). Of the reader:
what it has loaded was there, and still is as far as it only grows; a receipt that it
holds is the only one there ever is (`SnapshotHolds`); what pages said stays so
(`PagesHold`). `CaptureAdvances` says what no step of the writer takes back, and is all
that the proof needs to know of the writer while the reader pauses between two system
calls.

* `OutputTypeCorrect`, `ReceiptIsAlwaysTrue`: directly from the invariant.
* `DurableIsAlwaysFirst`, `ClosedAtMostOnce`: where one terminal path ends the capture
  (`~Overlapped`, see section 6). A result is on disk until a discard is done, and seal()
  has closed the descriptor when a discard that follows it looks.
* `SealedAlwaysStaysSealed`: a receipt is visible only when the pump is idle for good.
* `EndIsAlwaysTheEnd`, `CompletePageIsAlwaysComplete`: a page says canGrow: false at the
  limit, of a receipt, or after a publication; in the two latter cases the file was
  frozen when its length was taken.
* `NeverAFalseAlarm`: an action property. An observation from before the publication
  permits growth (`EarlyPermitsGrowth`), and one from after it was made of a sealed
  capture (`FinalObservation`), so every mismatch that the verdict looks for would need
  two different receipts, a marker without an overflow, or a file that grew while it
  was frozen.

### Pages

The induction theorems of the library take a predicate as a parameter, which the provers
cannot instantiate. `OutputPagesProofs` reasons by least counterexample instead:
`LeastNat` follows from the well-foundedness of the naturals, which is stated about sets,
and `Upwards` from that (a set with 0 that is closed under successor has every number up
to a bound). With `Upwards` each recursive function of the model is shown to exist and to
obey its equations (`EscapedTextIsSum`, `PaginateIsTurns`, `DecodedIsRest`), and then used.

The argument goes from a character to the stream.

* `TokenIsCharacter`: in every buffer, `utf8Token` agrees with the table of well-formed
  UTF-8 sequences. A row of the table is found for every lead byte (`RowOfLead`), and what
  the code accepts as its continuation is what the row says, byte by byte. It waits, at
  the end of a snapshot that may grow, for exactly the characters that are not `Settled`:
  neither complete nor followed by a byte that ends them.
* `WindowShowsCharacter` and `SettledStays`: a character depends on four bytes, and a
  settled one on none that come later. Here the lookahead of three bytes is needed.
* `PagesInv`, the inductive invariant: the characters shown so far are the stream up to
  the offset, cut where its characters end (`ShowsPart`), and while the stream grows each
  of them is settled. That last part is what makes it inductive: without it, the next
  byte that is appended could turn an end that is shown as U+FFFD into a character.
  `PagesDecodeTheStream` follows from the rest of it (`ShownIsDecoded`).
* `PagesAdvanceAlways`: a page before the end is empty only where the stream can grow and
  its next character is not settled, and never otherwise. The running count is what `JSON.stringify` makes of the text
  (`IsPage`, with `EscapedTextAppend`), and the first turn of the loop always succeeds,
  because one character is within both limits (`FirstTurnAdvances`).

The assumptions on constants are those of `OutputPages`: the alphabet is one of bytes
(`AlphabetIsBytes`), the limits are positive numbers
(`LimitsAreNumbers`), `UTF8_LOOKAHEAD` is 3 at least (`LookaheadCompletesACharacter`;
it is 3, and the run uses 3), and the envelope has room for one character
(`OneCharacterFits`; the limit is 51 200 bytes, and in the run it is as tight as can be).

### Model-checked only

* Every liveness property (`GuardianWindsDown`, `RunnerEnds`, `StartupSettles`,
  `CallsSettle`, `StartupEnds`, `CaptureEnds`): liveness under fairness and ENABLED
  are beyond TLAPS here.

Every safety property of a passing run is a theorem. No module uses a RECURSIVE operator.

## 5. What is not modelled

* Inside SQLite: how it locks and recovers its files. `StoreStartup` models what its
  statements wait for and release. The check of the SQLite and Node versions
  (`job-store.ts:434-505`) comes before anything else and changes nothing.
* The text of a page beyond its length: a tab, a carriage return, a quotation mark and
  a backslash differ from the modelled characters only in how many bytes they take.
* `ps` parsing in `process-control.ts`: the verdict is a free choice. A shell that
  leaves its process group escapes every signal of the guardian and the model.
* `owner.ts`, the validators and the capture workspace of `private-path.ts`: pure
  checks of single values and paths. The file
  system is honest: identity and permission checks succeed, and nobody else edits
  the artifacts. The temporary receipt is invisible; removing receipt and raw file
  is one step; power loss is not modelled, so a sync matters only when it fails.
* Test seams and fixtures, which are off in production.
* The Pi extension is not in the repository; its use of the store is the owner of
  `JobStore` and `Supervision`.

## 6. Where the code and its documents disagree

1. `cleanup_kill_lost` (`guardian.ts:239`). A disconnect while the guardian is in
   state `cleaning` calls `stop(1)`, which clears the tracked timer, and that is the
   pending KILL. A runner that closes during the five-second grace (its cutover ends
   within that time, or it dies) leaves a shell that ignores TERM alive.
   `docs/u2-launch.md:11` promises TERM, the grace and then KILL intent.
2. `meddling_reconciler` (`runner.ts:196`). The runner publishes against the revision
   it saw last, at first 0, and adopts a newer one only when that holds its own
   launch receipt. One uncertain revision before its first publication makes the
   receipt and the terminal publication fail with REVISION_STALE, and the launched
   job is never settled, although `docs/u2-launch-control.md:33` allows such a
   revision and `docs/u2-launch.md:13` promises a terminal one.
3. `output_overlap` (`runner.ts:380`). `freezeAndPublish` asks only whether the
   coordinator is cutting over. A spawn failure that is being cleaned up sets
   `stopping` but leaves the cutover timer armed. If the timer fires while the
   discard awaits a seal, the freeze publishes `available: true` for files that the
   discard then removes; the descriptor may also be closed twice. The window is a
   few milliseconds. `DurableBeforePublished`, `ClosedOnce` and `NoFalseAlarm` are
   therefore stated for captures that are ended one way.

Met on the way, and not a run: after a launch receipt that was committed but
whose post-commit step failed (`job-store.ts:1155`), the runner's handle refuses
every later write, so adopting the receipt's revision, as the comment at
`runner.ts:190` intends, does not make the terminal publication succeed. An
authorized job whose guardian is lost before the grant is closed without a result
(`runner.ts:244`): no shell runs for it, and nothing in this repository settles it. And
`docs/plans/2026-09-11-u2-w3-launch-skeleton-addendum.md:34` says that a second grant
is "ignored, never acted on", where `guardian.ts:138` makes the guardian ready for one
if the `hello_reply` was repeated while it was starting. The runner sends one reply per
hello (`runner.ts:562`), so this needs another peer; `OneShellOneCleanup` bounds the
shells by the replies, and by one for a peer that replies once.

## 7. The plan

Done: evidence, store with its abstraction, guardian, runner, their composition,
store client with its abstraction, capture and reader, the startup of the store with
its abstraction, the pages of a stream; a theorem for every safety property that a
passing run checks.

Next, in this order:

1. A third stage for `Supervision`: the owner's second observation and the
   acknowledgement of notices after a restart of the owner.
2. The capture workspace of `private-path.ts`, with its identity checks, against a
   directory that is exchanged between two of them.

To prove then: `GrantedRunIsReported` over the second observation of the third stage.
