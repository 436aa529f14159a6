----------------------------- MODULE OutputCapture -----------------------------
(***************************************************************************)
(* The capture of one output stream (src/src/output-capture.ts) as the     *)
(* runner drives it (src/src/runner.ts): chunks are admitted up to the     *)
(* limit and written by a pump, the first byte beyond the limit creates    *)
(* the truncation marker, and sealing closes the raw file and publishes    *)
(* the closure receipt. Bytes are counted, never named. Callbacks run to   *)
(* their first await; every await is a step of its own that may fail.      *)
(***************************************************************************)
EXTENDS Naturals, FiniteSets

CONSTANTS
    Null,
    Limit,      \* OUTPUT_CAPTURE_LIMIT
    MaxOutput,  \* bound: how many bytes the stream delivers
    Chunks,     \* the sizes of the chunks it delivers
    Faults      \* the file operations that may fail

FileOperations ==
    {"create", "write", "marker", "sync", "close", "receipt", "directory"}

ASSUME CaptureConstants ==
    /\ Limit \in Nat \ {0} /\ MaxOutput \in Nat
    /\ Chunks \subseteq Nat \ {0} /\ Faults \subseteq FileOperations

VARIABLES
    files,       \* the artifacts of the stream
    capture,     \* the StreamCapture
    stream,      \* the pipe, and what its listeners noted
    terminal,    \* who ends the capture: the freeze, the discard, or both
    observation  \* what the store says of the stream

captureVars == <<files, capture, stream, terminal, observation>>

Reasons == {"eof", "cutover", "capture_error"}

Receipts ==
    [retained : 0..Limit, truncated : BOOLEAN, incomplete : BOOLEAN,
     openAtCutover : BOOLEAN, reason : Reasons]

StreamFacts ==
    [available : BOOLEAN \cup {Null}, truncated : BOOLEAN,
     incomplete : BOOLEAN, openAtCutover : BOOLEAN]

\* Null is what the code has where there is no file, receipt or fact.
ASSUME NullIsNoValue == Null \notin Nat \cup BOOLEAN \cup Receipts

\* raw: the size of the file, or Null. closed: the receipt, or Null.
NewFiles == [raw |-> 0, marker |-> FALSE, closed |-> Null]

\* seal and discard: where seal() and invalidateEmptyStaging() have come to.
NewCapture ==
    [open |-> TRUE, intake |-> TRUE, drained |-> 0, admitted |-> 0,
     written |-> 0, pump |-> "idle", overflow |-> FALSE, marker |-> "none",
     captureLoss |-> FALSE, durabilityLoss |-> FALSE,
     seal |-> "none", source |-> Null, candidate |-> Null, result |-> Null,
     invalidated |-> FALSE, discard |-> "none", closes |-> 0]

\* The constructor: without a raw file, output is drained and lost.
CaptureInit ==
    /\ \/ files = NewFiles /\ capture = NewCapture
       \/ /\ "create" \in Faults
          /\ files = [NewFiles EXCEPT !.raw = Null]
          /\ capture = [NewCapture EXCEPT !.open = FALSE, !.captureLoss = TRUE,
                                          !.durabilityLoss = TRUE]
    /\ stream = [ended |-> FALSE, failed |-> FALSE] /\ terminal = {}
    /\ observation =
          [finalized |-> FALSE, available |-> Null, truncated |-> FALSE,
           incomplete |-> FALSE, openAtCutover |-> FALSE]

Lowest(m, n) == IF m < n THEN m ELSE n

-----------------------------------------------------------------------------
(* Intake and the pump *)

\* Mutated: a chunk that begins below the limit is admitted whole.
AdmittedWhole(c, n) ==
    LET accepted == IF c.admitted < Limit THEN n ELSE 0
    IN  IF c.captureLoss THEN [c EXCEPT !.drained = @ + n]
        ELSE [c EXCEPT !.drained = @ + n, !.admitted = @ + accepted,
                       !.pump = IF accepted > 0 THEN "writing" ELSE @,
                       !.overflow = @ \/ accepted < n,
                       !.marker = IF accepted < n /\ ~c.overflow THEN "syncing" ELSE @]

\* accept(): a chunk beyond the limit is admitted in part, and starts the marker.
Admitted(c, n) ==
    LET accepted == Lowest(Limit - c.admitted, n)
    IN  IF c.captureLoss THEN [c EXCEPT !.drained = @ + n]
        ELSE [c EXCEPT !.drained = @ + n, !.admitted = @ + accepted,
                       !.pump = IF accepted > 0 THEN "writing" ELSE @,
                       !.overflow = @ \/ accepted < n,
                       !.marker = IF accepted < n /\ ~c.overflow THEN "syncing" ELSE @]

\* createMarker() has created the file when its first await is reached.
Accept(n) ==
    /\ ~stream.ended /\ terminal = {} /\ capture.intake
    /\ capture.drained + n <= MaxOutput
    /\ capture' = Admitted(capture, n)
    /\ files' = [files EXCEPT !.marker = @ \/ capture'.marker # "none"]
    /\ UNCHANGED <<stream, terminal, observation>>

PumpWrites ==
    /\ capture.pump = "writing"
    /\ \E n \in 1..(capture.admitted - capture.written) :
          LET c == [capture EXCEPT !.written = @ + n]
          IN  /\ capture' = [c EXCEPT !.pump =
                    IF c.written < c.admitted /\ ~c.captureLoss THEN @ ELSE "idle"]
              /\ files' = [files EXCEPT !.raw = @ + n]
    /\ UNCHANGED <<stream, terminal, observation>>

PumpFails ==
    /\ "write" \in Faults /\ capture.pump = "writing"
    /\ capture' = [capture EXCEPT !.captureLoss = TRUE, !.pump = "idle"]
    /\ UNCHANGED <<files, stream, terminal, observation>>

MarkerSynced ==
    /\ capture.marker = "syncing"
    /\ capture' = [capture EXCEPT !.marker = "durable"]
    /\ UNCHANGED <<files, stream, terminal, observation>>

MarkerFails ==
    /\ "marker" \in Faults /\ capture.marker = "syncing"
    /\ capture' = [capture EXCEPT !.marker = "failed", !.captureLoss = TRUE,
                                  !.durabilityLoss = TRUE]
    /\ UNCHANGED <<files, stream, terminal, observation>>

-----------------------------------------------------------------------------
(* The runner's callbacks *)

\* seal(): the first call decides the source.
SealCalled(c, source) ==
    IF c.seal # "none" THEN [c EXCEPT !.intake = FALSE]
    ELSE [c EXCEPT !.intake = FALSE, !.seal = "draining", !.source = source]

\* onError: what was captured is not all, and what comes later is drained only. The
\* stream is not at its end: the real end or the freeze seals it.
StreamFails ==
    /\ terminal = {}
    /\ stream' = [stream EXCEPT !.failed = TRUE]
    /\ capture' = [capture EXCEPT !.captureLoss = TRUE]
    /\ UNCHANGED <<files, terminal, observation>>

\* onEnd.
StreamEnds ==
    /\ ~stream.ended /\ terminal = {}
    /\ stream' = [stream EXCEPT !.ended = TRUE]
    /\ capture' = SealCalled(capture, "eof")
    /\ UNCHANGED <<files, terminal, observation>>

\* freezeAndPublish(): the listeners are detached, then the capture is sealed. It
\* asks only whether the coordinator is cutting over, which a spawn failure that
\* is being published does not change.
Freeze ==
    /\ "freeze" \notin terminal
    /\ terminal' = terminal \cup {"freeze"}
    /\ capture' = SealCalled([capture EXCEPT !.captureLoss = @ \/ stream.failed],
                             "cutover")
    /\ UNCHANGED <<files, stream, observation>>

\* discardCaptureStaging(), and invalidateEmptyStaging() to its first await; not
\* after a freeze, which latched `stopping'.
Discard ==
    /\ terminal = {}
    /\ terminal' = {"discard"}
    /\ capture' = [capture EXCEPT !.intake = FALSE, !.invalidated = TRUE,
                                  !.discard = "draining"]
    /\ UNCHANGED <<files, stream, observation>>

-----------------------------------------------------------------------------
(* seal() *)

Sealed(c, result) ==
    [c EXCEPT !.seal = "sealed", !.result = result, !.candidate = Null,
              !.durabilityLoss = @ \/ result = Null]

\* Mutated: the pump is not awaited.
SealDrainedEarly ==
    /\ capture.seal = "draining" /\ capture.marker # "syncing"
    /\ capture' = [capture EXCEPT !.seal = IF capture.open THEN "syncing" ELSE "closed"]
    /\ UNCHANGED <<files, stream, terminal, observation>>

\* The pump and the marker are done.
SealDrained ==
    /\ capture.seal = "draining"
    /\ capture.pump = "idle" /\ capture.marker # "syncing"
    /\ capture' = [capture EXCEPT !.seal = IF capture.open THEN "syncing" ELSE "closed"]
    /\ UNCHANGED <<files, stream, terminal, observation>>

\* The sync has ended and the close is called, on whatever the descriptor is now.
SealSyncs ==
    /\ capture.seal = "syncing"
    /\ \E lost \in IF "sync" \in Faults THEN BOOLEAN ELSE {FALSE} :
          capture' = [capture EXCEPT !.seal = "closing",
                         !.closes = @ + (IF capture.open THEN 1 ELSE 0),
                         !.durabilityLoss = @ \/ lost \/ ~capture.open]
    /\ UNCHANGED <<files, stream, terminal, observation>>

SealCloses ==
    /\ capture.seal = "closing"
    /\ \E lost \in IF "close" \in Faults THEN BOOLEAN ELSE {FALSE} :
          capture' = [capture EXCEPT !.seal = "closed", !.open = FALSE,
                                     !.durabilityLoss = @ \/ lost]
    /\ UNCHANGED <<files, stream, terminal, observation>>

\* Mutated: a stream that ended is complete.
CandidateByEnd(c) ==
    [retained |-> c.written, truncated |-> c.overflow /\ c.marker = "durable",
     incomplete |-> c.source = "cutover", openAtCutover |-> c.source = "cutover",
     reason |-> c.source]

Candidate(c) ==
    [retained |-> c.written, truncated |-> c.overflow /\ c.marker = "durable",
     incomplete |-> c.captureLoss \/ c.source = "cutover",
     openAtCutover |-> c.source = "cutover",
     reason |-> IF c.captureLoss THEN "capture_error" ELSE c.source]

Publishable(c) ==
    ~c.invalidated /\ ~c.durabilityLoss /\ files.raw = c.written

\* The receipt is composed in one go; writing it may fail.
SealComposes ==
    /\ capture.seal = "closed"
    /\ \/ /\ Publishable(capture)
          /\ capture' = [capture EXCEPT !.seal = "renaming",
                                        !.candidate = Candidate(capture)]
       \/ /\ ~Publishable(capture) \/ "receipt" \in Faults
          /\ capture' = Sealed(capture, Null)
    /\ UNCHANGED <<files, stream, terminal, observation>>

\* The temporary receipt is synced and takes its final name.
ReceiptRenamed ==
    /\ capture.seal = "renaming"
    /\ \/ /\ files' = [files EXCEPT !.closed = capture.candidate]
          /\ capture' = [capture EXCEPT !.seal = "directory"]
       \/ /\ "receipt" \in Faults
          /\ capture' = Sealed(capture, Null)
          /\ UNCHANGED files
    /\ UNCHANGED <<stream, terminal, observation>>

\* parseClosureReceipt(): the combinations that a capture can arrive at.
Parses(r) ==
    /\ r.reason = "eof" => ~r.incomplete /\ ~r.openAtCutover
    /\ r.reason = "cutover" => r.incomplete /\ r.openAtCutover
    /\ r.reason = "capture_error" => r.incomplete
    /\ r.truncated => r.retained = Limit \/ r.reason = "capture_error"

\* inspectClosureReceipt().
ClosureCoherent ==
    /\ files.closed # Null
    /\ Parses(files.closed)
    /\ files.raw = files.closed.retained
    /\ files.closed.truncated = files.marker

\* Mutated: the receipt is removed, but the result stands.
DirectorySyncedAnyway ==
    /\ capture.seal = "directory"
    /\ \/ UNCHANGED files
       \/ "directory" \in Faults /\ files' = [files EXCEPT !.closed = Null]
    /\ capture' = Sealed(capture, capture.candidate)
    /\ UNCHANGED <<stream, terminal, observation>>

\* The directory is synced and the receipt read back; if that fails it goes.
DirectorySynced ==
    /\ capture.seal = "directory"
    /\ \/ /\ capture' = Sealed(capture,
                IF ClosureCoherent THEN capture.candidate ELSE Null)
          /\ UNCHANGED files
       \/ /\ "directory" \in Faults
          /\ capture' = Sealed(capture, Null)
          /\ files' = [files EXCEPT !.closed = Null]
    /\ UNCHANGED <<stream, terminal, observation>>

-----------------------------------------------------------------------------
(* invalidateEmptyStaging() *)

\* What is left of the staging: artifacts of an empty capture are removed.
Staging(f) ==
    IF capture.drained > 0 THEN f
    ELSE [f EXCEPT !.closed = Null, !.raw = IF @ = 0 THEN Null ELSE @]

DiscardClosing(c) ==
    [c EXCEPT !.discard = "closing", !.closes = @ + (IF c.open THEN 1 ELSE 0)]

\* Mutated: a seal that is under way is not awaited.
DiscardDrainedAlone ==
    /\ capture.discard = "draining" /\ capture.pump = "idle"
    /\ capture' = DiscardClosing(capture)
    /\ UNCHANGED <<files, stream, terminal, observation>>

\* Mutated: a seal is awaited even if none was called.
DiscardDrainedSealed ==
    /\ capture.discard = "draining" /\ capture.pump = "idle"
    /\ capture.seal = "sealed"
    /\ capture' = DiscardClosing(capture)
    /\ UNCHANGED <<files, stream, terminal, observation>>

\* The pump and a seal that was called are awaited; then the close is called.
DiscardDrained ==
    /\ capture.discard = "draining" /\ capture.pump = "idle"
    /\ capture.seal \in {"none", "sealed"}
    /\ capture' = DiscardClosing(capture)
    /\ UNCHANGED <<files, stream, terminal, observation>>

DiscardCloses ==
    /\ capture.discard = "closing"
    /\ capture' = [capture EXCEPT !.discard = "done", !.open = FALSE]
    /\ files' = Staging(files)
    /\ UNCHANGED <<stream, terminal, observation>>

-----------------------------------------------------------------------------
(* The terminal publication, as far as this stream is concerned *)

\* resultFacts(): a capture without a receipt is unavailable and incomplete.
ResultFacts(c) ==
    IF c.result = Null
    THEN [available |-> FALSE, truncated |-> FALSE, incomplete |-> TRUE,
          openAtCutover |-> c.source = "cutover"]
    ELSE [available |-> TRUE, truncated |-> c.result.truncated,
          incomplete |-> c.result.incomplete,
          openAtCutover |-> c.result.openAtCutover]

Nothing == [available |-> FALSE, truncated |-> FALSE,
            incomplete |-> FALSE, openAtCutover |-> FALSE]

Finalized(facts) ==
    [finalized |-> TRUE, available |-> facts.available,
     truncated |-> facts.truncated, incomplete |-> facts.incomplete,
     openAtCutover |-> facts.openAtCutover]

\* (The publication may also fail, or the runner die before it: then this step is
\* never taken.)
TerminalPublished ==
    /\ ~observation.finalized
    /\ \/ /\ "freeze" \in terminal /\ capture.seal = "sealed"
          /\ observation' = Finalized(ResultFacts(capture))
       \/ /\ "discard" \in terminal /\ capture.discard = "done"
          /\ observation' = Finalized(Nothing)
    /\ UNCHANGED <<files, capture, stream, terminal>>

-----------------------------------------------------------------------------
Seals == \/ SealDrained \/ SealSyncs \/ SealCloses \/ SealComposes
         \/ ReceiptRenamed \/ DirectorySynced

Discards == DiscardDrained \/ DiscardCloses

Pumps == PumpWrites \/ PumpFails

Marks == MarkerSynced \/ MarkerFails

CaptureNext ==
    \/ \E n \in Chunks : Accept(n)
    \/ Pumps \/ Marks
    \/ StreamFails \/ StreamEnds \/ Freeze \/ Discard
    \/ Seals \/ Discards
    \/ TerminalPublished

\* File operations complete. Whether the stream ever ends, the lifecycle ever
\* freezes it, or the store takes the publication is not assumed here.
CaptureFairness ==
    /\ WF_captureVars(Pumps) /\ WF_captureVars(Marks)
    /\ WF_captureVars(Seals) /\ WF_captureVars(Discards)

FairCaptureSpec ==
    CaptureInit /\ [][CaptureNext]_captureVars /\ CaptureFairness

-----------------------------------------------------------------------------
(* Properties *)

\* The capture, its files and the store's observation are well-formed.
CaptureTypeOK ==
    /\ files.raw \in 0..Limit \cup {Null} /\ files.marker \in BOOLEAN
    /\ files.closed \in Receipts \cup {Null}
    /\ capture.written <= capture.admitted /\ capture.admitted <= Limit
    /\ capture.admitted <= capture.drained /\ capture.drained <= MaxOutput
    /\ capture.candidate \in Receipts \cup {Null}
    /\ capture.result \in Receipts \cup {Null}
    /\ terminal \subseteq {"freeze", "discard"}
    /\ stream \in [ended : BOOLEAN, failed : BOOLEAN]
    /\ \E facts \in StreamFacts, finalized \in BOOLEAN :
          observation = [Finalized(facts) EXCEPT !.finalized = finalized]

\* Whatever a receipt on disk says is so: its count is the size of the raw file,
\* `truncated' says that output was dropped at the limit and its marker exists,
\* a receipt that is neither truncated nor incomplete accounts for every byte the
\* stream delivered, and one that names the end of the stream was not sealed by an
\* error or the freeze (output-capture.ts:565-747).
ReceiptIsTrue ==
    files.closed # Null =>
        LET r == files.closed IN
        /\ files.raw = r.retained
        /\ r.truncated => files.marker /\ capture.drained > r.retained
        /\ ~r.truncated /\ ~r.incomplete => r.retained = capture.drained
        /\ r.reason = "eof" => stream.ended

\* Once a receipt is visible the raw file never grows again, even while chunks,
\* errors and the lifecycle race with sealing.
SealedStaysSealed ==
    [][files.closed # Null => files'.raw \in {files.raw, Null}]_captureVars

\* The cutover expired while a spawn failure was being cleaned up: nothing in
\* runner.ts keeps the freeze from running beside the discard.
Overlapped == terminal = {"discard", "freeze"}

\* docs/plans/2026-09-14-0755-feat-bounded-output-capture-plan.md:255:
\* "Availability means a trustworthy readable artifact exists". Output that the
\* store calls available has its receipt on disk, and the store's facts are the
\* receipt's.
AvailableIsReadable ==
    observation.available = TRUE =>
        /\ ClosureCoherent
        /\ files.closed.truncated = observation.truncated
        /\ files.closed.incomplete = observation.incomplete
        /\ files.closed.openAtCutover = observation.openAtCutover

\* The same where one terminal path ends the capture: durability comes before
\* publication, and nothing that is published is withdrawn (runner.ts:361-437).
DurableBeforePublished == ~Overlapped => AvailableIsReadable

\* The descriptor is closed at most once, by seal() or by a discard that follows
\* it: a second close could hit a descriptor that meanwhile belongs to another
\* file (output-capture.ts:440, 577).
ClosedOnce == ~Overlapped => capture.closes <= 1

\* The runner's terminal steps never hang on a capture: what it awaits resolves,
\* with whatever file operations failing (output-capture.ts:419-452, 565-650).
CaptureEnds ==
    /\ capture.seal = "draining" ~> capture.seal = "sealed"
    /\ capture.discard = "draining" ~> capture.discard = "done"
=============================================================================
