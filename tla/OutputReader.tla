----------------------------- MODULE OutputReader -----------------------------
(***************************************************************************)
(* A reader of one captured stream (src/src/output.ts) beside its writer:  *)
(* it was given one observation of the store, and then takes a snapshot of *)
(* the raw file, the marker and the receipt one after another, while the   *)
(* capture in another process goes on writing, sealing or cleaning up.     *)
(***************************************************************************)
EXTENDS OutputCapture

VARIABLES
    reader,  \* readOutputSnapshot: how far it is and what it has loaded
    page,    \* its last answer
    ended    \* history: the length at which a page said canGrow: false, or Null

readerVars == <<reader, page, ended>>

Errors == {"CAPTURE_UNAVAILABLE", "CAPTURE_CORRUPT", "OFFSET_OUT_OF_RANGE"}

ASSUME NullIsNoError == Null \notin Errors

ReaderSteps == {"idle", "raw", "marker", "closed", "receipt", "again", "verdict"}

NewReader ==
    [step |-> "idle", seen |-> observation, offset |-> 0, size |-> 0,
     marker |-> FALSE, receipt |-> Null]

NoPage == [error |-> Null, available |-> FALSE, canGrow |-> TRUE, retained |-> 0,
           next |-> 0, truncated |-> FALSE, incomplete |-> FALSE]

ReaderInit ==
    /\ CaptureInit
    /\ reader = NewReader /\ page = NoPage /\ ended = Null

Advance(step) == reader' = [reader EXCEPT !.step = step]

Answer(p) ==
    /\ reader' = [reader EXCEPT !.step = "idle", !.size = 0, !.marker = FALSE,
                                !.receipt = Null,
                                !.offset = p.next]
    /\ page' = p
    /\ ended' = IF ended = Null /\ p.available /\ ~p.canGrow
                THEN p.retained ELSE ended

Fails(error) == Answer([NoPage EXCEPT !.error = error])

\* sqlitePermitsGrowth().
PermitsGrowth(seen) ==
    /\ ~seen.finalized /\ seen.available # FALSE
    /\ ~seen.truncated /\ ~seen.incomplete /\ ~seen.openAtCutover

-----------------------------------------------------------------------------
\* The store is read first. A stream that it calls unavailable has an empty page.
ReaderObserves ==
    /\ reader.step = "idle"
    /\ IF observation.available # FALSE
       THEN /\ reader' = [reader EXCEPT !.step = "raw", !.seen = observation]
            /\ UNCHANGED <<page, ended>>
       ELSE IF reader.offset > 0 THEN Fails("OFFSET_OUT_OF_RANGE")
       ELSE Answer([NoPage EXCEPT !.canGrow = FALSE,
                                  !.incomplete = observation.incomplete])
    /\ UNCHANGED captureVars

\* The raw file is opened and its length taken: the snapshot.
ReaderOpensRaw ==
    /\ reader.step = "raw"
    /\ IF files.raw = Null THEN Fails("CAPTURE_UNAVAILABLE")
       ELSE IF reader.offset > files.raw THEN Fails("OFFSET_OUT_OF_RANGE")
       ELSE /\ reader' = [reader EXCEPT !.step = "marker", !.size = files.raw]
            /\ UNCHANGED <<page, ended>>
    /\ UNCHANGED captureVars

ReaderLoadsMarker ==
    /\ reader.step = "marker"
    /\ reader' = [reader EXCEPT !.step = "closed", !.marker = files.marker]
    /\ UNCHANGED <<captureVars, page, ended>>

\* loadSidecar() of the receipt: lstat, and then everything else.
ReaderFindsReceipt ==
    /\ reader.step = "closed"
    /\ Advance(IF files.closed = Null THEN "verdict" ELSE "receipt")
    /\ UNCHANGED <<captureVars, page, ended>>

\* Mutated: a receipt is taken for the snapshot's, however much was written since.
AheadNever(receipt) == FALSE

Ahead(receipt) == receipt.retained > reader.size

\* A receipt below the snapshot is corrupt; one ahead of it belongs to a later
\* snapshot, as long as growth is permitted.
ReceiptRejected(receipt) ==
    \/ ~Parses(receipt)
    \/ receipt.retained < reader.size
    \/ Ahead(receipt) /\ ~PermitsGrowth(reader.seen)

\* Mutated: a marker that was missing before the receipt is missing for good.
ReloadsMarkerNever(receipt) == FALSE

ReloadsMarker(receipt) == receipt.truncated /\ ~reader.marker

ReaderLoadsReceipt ==
    /\ reader.step = "receipt"
    /\ LET receipt == files.closed IN
       IF receipt = Null \/ ReceiptRejected(receipt) THEN Fails("CAPTURE_CORRUPT")
       ELSE /\ reader' =
                 IF Ahead(receipt)
                 THEN [reader EXCEPT !.step = "verdict"]
                 ELSE [reader EXCEPT !.receipt = receipt,
                         !.step = IF ReloadsMarker(receipt) THEN "again" ELSE "verdict"]
            /\ UNCHANGED <<page, ended>>
    /\ UNCHANGED captureVars

ReaderReloadsMarker ==
    /\ reader.step = "again"
    /\ reader' = [reader EXCEPT !.step = "verdict", !.marker = files.marker]
    /\ UNCHANGED <<captureVars, page, ended>>

-----------------------------------------------------------------------------
(* The verdict: everything after loading, on what was loaded *)

PartialOverflow ==
    /\ reader.receipt # Null
    /\ reader.receipt.truncated /\ reader.receipt.reason = "capture_error"

\* A marker below the limit belongs to a later snapshot, or to a capture that
\* lost bytes before it overflowed.
MarkerIgnored ==
    reader.marker /\ reader.size < Limit /\ ~PartialOverflow

MarkerObserved == reader.marker /\ ~MarkerIgnored

MatchesFinalFacts(receipt, seen) ==
    /\ seen.available = TRUE
    /\ receipt.truncated = seen.truncated /\ receipt.incomplete = seen.incomplete
    /\ receipt.openAtCutover = seen.openAtCutover

Corrupt ==
    \/ MarkerIgnored /\ (reader.receipt # Null \/ ~PermitsGrowth(reader.seen))
    \/ /\ reader.seen.finalized
       /\ \/ reader.receipt = Null
          \/ ~MatchesFinalFacts(reader.receipt, reader.seen)
          \/ reader.seen.truncated /\ ~MarkerObserved
    \/ reader.receipt # Null /\ reader.receipt.truncated # MarkerObserved

CanGrow ==
    PermitsGrowth(reader.seen) /\ reader.receipt = Null /\ reader.size < Limit

\* The page shows some of what follows the offset; nothing only at the end, or
\* before a character that is not complete yet.
ReaderAnswers ==
    /\ reader.step = "verdict"
    /\ IF Corrupt THEN Fails("CAPTURE_CORRUPT")
       ELSE \E next \in reader.offset..reader.size :
              /\ next = reader.offset /\ ~CanGrow => next = reader.size
              /\ Answer([error |-> Null, available |-> TRUE, canGrow |-> CanGrow,
                         retained |-> reader.size, next |-> next,
                         truncated |-> IF reader.receipt # Null
                                       THEN reader.receipt.truncated
                                       ELSE MarkerObserved,
                         incomplete |-> IF reader.receipt # Null
                                        THEN reader.receipt.incomplete
                                        ELSE reader.seen.incomplete])
    /\ UNCHANGED captureVars

-----------------------------------------------------------------------------
Reads ==
    \/ ReaderObserves \/ ReaderOpensRaw \/ ReaderLoadsMarker
    \/ ReaderFindsReceipt \/ ReaderLoadsReceipt \/ ReaderReloadsMarker
    \/ ReaderAnswers

ReaderNext ==
    \/ CaptureNext /\ UNCHANGED readerVars
    \/ Reads

outputVars == <<captureVars, readerVars>>

ReaderSpec == ReaderInit /\ [][ReaderNext]_outputVars

\* File operations of the writer complete. A reader may give up at any point.
FairReaderSpec == ReaderSpec /\ CaptureFairness

-----------------------------------------------------------------------------
(* Properties *)

\* An honest writer is mistaken for a corrupt one in one case only: its receipt
\* was there and is withdrawn (a failed directory sync, a discard) while the
\* reader is about to load it (output.ts:105-125, 395-470). And an offset that a
\* page handed out stays in range until the store calls the stream unavailable.
\* (Not where a discard ran beside the freeze: see AvailableIsReadable.)
NoFalseAlarm ==
    [][reader.step # "idle" /\ reader'.step = "idle" /\ ~Overlapped =>
          /\ page'.error = "CAPTURE_CORRUPT" =>
                reader.step = "receipt" /\ files.closed = Null
          /\ page'.error # "OFFSET_OUT_OF_RANGE"]_outputVars

\* canGrow: false is final: no later snapshot is longer.
EndIsEnd == ended # Null => files.raw \in 0..ended \cup {Null}

\* A page that can no longer grow, below the limit, and is neither truncated nor
\* incomplete was taken of everything the stream ever delivered.
CompletePageIsComplete ==
    /\ page.available /\ ~page.canGrow
    /\ ~page.truncated /\ ~page.incomplete /\ page.retained < Limit
    => page.retained = capture.drained
=============================================================================
