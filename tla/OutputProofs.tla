------------------------------ MODULE OutputProofs ------------------------------
(***************************************************************************)
(* One captured stream and a reader beside it, for any limit, any chunks,  *)
(* any number of bytes and any file operations that fail: what receipts,   *)
(* publications and pages say is so.                                       *)
(***************************************************************************)
EXTENDS OutputReader, TLAPS

-----------------------------------------------------------------------------
(* The inductive invariant of the capture *)

SealSteps ==
    {"none", "draining", "syncing", "closing", "closed", "renaming",
     "directory", "sealed"}

Captures ==
    [open : BOOLEAN, intake : BOOLEAN, drained : Nat, admitted : 0..Limit,
     written : 0..Limit, pump : {"idle", "writing"}, overflow : BOOLEAN,
     marker : {"none", "syncing", "durable", "failed"},
     captureLoss : BOOLEAN, durabilityLoss : BOOLEAN, seal : SealSteps,
     source : {"eof", "cutover", Null}, candidate : Receipts \cup {Null},
     result : Receipts \cup {Null}, invalidated : BOOLEAN,
     discard : {"none", "draining", "closing", "done"}, closes : Nat]

Artifacts ==
    [raw : 0..Limit \cup {Null}, marker : BOOLEAN, closed : Receipts \cup {Null}]

Observations ==
    [finalized : BOOLEAN, available : BOOLEAN \cup {Null}, truncated : BOOLEAN,
     incomplete : BOOLEAN, openAtCutover : BOOLEAN]

CaptureTyped ==
    /\ files \in Artifacts /\ capture \in Captures
    /\ stream \in [ended : BOOLEAN, failed : BOOLEAN]
    /\ terminal \subseteq {"freeze", "discard"} /\ observation \in Observations

\* Every byte is counted: admitted ones are written unless something was lost, and
\* only the limit and a loss keep a delivered byte from being admitted.
BytesCounted ==
    /\ capture.written <= capture.admitted /\ capture.admitted <= capture.drained
    /\ capture.drained <= MaxOutput
    /\ capture.overflow => capture.admitted = Limit /\ capture.drained > Limit
    /\ ~capture.overflow /\ ~capture.captureLoss => capture.admitted = capture.drained
    /\ capture.pump = "writing" => capture.written < capture.admitted
    /\ capture.pump = "idle" /\ ~capture.captureLoss =>
           capture.written = capture.admitted
    /\ files.raw # Null => files.raw = capture.written
    /\ files.raw = Null =>
           capture.admitted = 0 /\ (capture.captureLoss \/ ~capture.intake)

\* There is a marker if, and only if, the limit was exceeded.
MarkerTells ==
    /\ capture.overflow <=> capture.marker # "none"
    /\ files.marker <=> capture.overflow
    /\ capture.marker = "failed" => capture.durabilityLoss

\* What a receipt says is so, of what the capture has counted.
TrueReceipt(r, c, s) ==
    /\ Parses(r)
    /\ r.retained = c.written
    /\ r.truncated <=> c.overflow
    /\ ~r.truncated /\ ~r.incomplete => r.retained = c.drained
    /\ r.reason = "eof" => s.ended

\* The steps of seal() after it awaited the pump, and after it closed the file.
Drained == {"syncing", "closing", "closed", "renaming", "directory", "sealed"}

Closed == {"closed", "renaming", "directory", "sealed"}

\* A seal admits nothing more; once drained, nothing is written either. Only one
\* receipt is ever composed, of a file that is there; a discard waits for it.
SealInOrder ==
    /\ capture.seal # "none" =>
           /\ capture.source \in {"eof", "cutover"} /\ ~capture.intake
           /\ capture.source = "eof" => stream.ended
    /\ capture.seal \in Drained => capture.pump = "idle" /\ capture.marker # "syncing"
    /\ capture.seal \in Closed => ~capture.open
    /\ capture.seal \in {"renaming", "directory"} =>
           /\ capture.candidate # Null
           /\ TrueReceipt(capture.candidate, capture, stream)
           /\ files.raw # Null /\ capture.discard \in {"none", "draining"}
    /\ capture.seal = "directory" => files.closed = capture.candidate
    /\ capture.result # Null =>
           /\ capture.seal = "sealed" /\ TrueReceipt(capture.result, capture, stream)
           /\ \/ files.closed = capture.result
              \/ files.closed = Null /\ capture.discard = "done"
    /\ files.closed # Null =>
           /\ capture.seal \in {"directory", "sealed"}
           /\ TrueReceipt(files.closed, capture, stream)
           /\ files.raw # Null

\* A discard stops the intake and condemns every receipt that is not composed yet.
DiscardInOrder ==
    /\ "discard" \in terminal <=> capture.discard # "none"
    /\ capture.invalidated <=> capture.discard # "none"
    /\ capture.discard # "none" => ~capture.intake

\* Who closes the descriptor: seal(), or a discard where no seal was called.
ClosedInTurn ==
    ~Overlapped =>
        /\ capture.closes \in {0, 1}
        /\ capture.seal \in {"none", "draining", "syncing"}
           /\ capture.discard \in {"none", "draining"} => capture.closes = 0
        /\ capture.discard \in {"closing", "done"} => capture.seal \in {"none", "sealed"}

Unpublished ==
    [finalized |-> FALSE, available |-> Null, truncated |-> FALSE,
     incomplete |-> FALSE, openAtCutover |-> FALSE]

\* The store knows nothing before the publication, and then what the receipt says.
PublishedTruly ==
    /\ ~observation.finalized => observation = Unpublished
    /\ observation.finalized => observation.available \in BOOLEAN
    /\ observation.available = TRUE =>
           /\ "freeze" \in terminal /\ capture.result # Null
           /\ observation.truncated = capture.result.truncated
           /\ observation.incomplete = capture.result.incomplete
           /\ observation.openAtCutover = capture.result.openAtCutover

CaptureInv ==
    /\ CaptureTyped /\ BytesCounted /\ MarkerTells
    /\ SealInOrder /\ DiscardInOrder /\ ClosedInTurn /\ PublishedTruly

-----------------------------------------------------------------------------
(* The inductive invariant of the reader *)

Readers ==
    [step : ReaderSteps, seen : Observations, offset : Nat, size : Nat,
     marker : BOOLEAN, receipt : Receipts \cup {Null}]

Pages ==
    [error : Errors \cup {Null}, available : BOOLEAN, canGrow : BOOLEAN,
     retained : Nat, next : Nat, truncated : BOOLEAN, incomplete : BOOLEAN]

ReaderTyped ==
    /\ reader \in Readers /\ page \in Pages /\ ended \in Nat \cup {Null}

\* The file has its final length, and nothing more is admitted.
Frozen == capture.seal \in {"directory", "sealed"}

\* The only receipt that this capture ever composes.
SoleReceipt(r) ==
    /\ TrueReceipt(r, capture, stream)
    /\ \/ capture.seal = "directory" /\ capture.candidate = r
       \/ capture.seal = "sealed" /\ capture.result \in {r, Null}

\* The reader's observation is the store's, or from before the publication; what it
\* has loaded since was there, and is there still as far as it only grows.
SnapshotHolds ==
    /\ reader.seen \in {observation, Unpublished}
    /\ reader.step # "idle" => reader.seen.available # FALSE
    /\ reader.offset <= capture.written
    /\ reader.step \notin {"idle", "raw"} =>
           /\ reader.size <= capture.written /\ reader.offset <= reader.size
           /\ reader.seen.finalized => reader.size = capture.written
    /\ reader.marker => files.marker
    /\ reader.receipt # Null =>
           /\ reader.step \in {"again", "verdict"}
           /\ SoleReceipt(reader.receipt) /\ reader.receipt.retained = reader.size
    /\ reader.step = "again" => reader.receipt # Null
    /\ reader.step = "verdict" /\ reader.receipt # Null /\ reader.receipt.truncated =>
           reader.marker
    /\ ~Overlapped /\ reader.seen.finalized /\ reader.step = "verdict" =>
           reader.receipt # Null

\* What pages said of the end of the stream stays so.
PagesHold ==
    /\ ended # Null => ended >= Limit \/ (Frozen /\ ended = capture.written)
    /\ /\ page.available /\ ~page.canGrow
       /\ ~page.truncated /\ ~page.incomplete /\ page.retained < Limit
       => Frozen /\ page.retained = capture.drained

OutputInv == CaptureInv /\ ReaderTyped /\ SnapshotHolds /\ PagesHold

-----------------------------------------------------------------------------
(* The steps of the capture *)

\* A capture stays one when a field of it is set.
LEMMA CaptureFields ==
    ASSUME NEW c \in Captures
    PROVE  /\ \A x \in BOOLEAN : [c EXCEPT !.open = x] \in Captures
           /\ \A x \in BOOLEAN : [c EXCEPT !.intake = x] \in Captures
           /\ \A x \in Nat : [c EXCEPT !.drained = x] \in Captures
           /\ \A x \in 0..Limit : [c EXCEPT !.admitted = x] \in Captures
           /\ \A x \in 0..Limit : [c EXCEPT !.written = x] \in Captures
           /\ \A x \in {"idle", "writing"} : [c EXCEPT !.pump = x] \in Captures
           /\ \A x \in BOOLEAN : [c EXCEPT !.overflow = x] \in Captures
           /\ \A x \in {"none", "syncing", "durable", "failed"} :
                  [c EXCEPT !.marker = x] \in Captures
           /\ \A x \in BOOLEAN : [c EXCEPT !.captureLoss = x] \in Captures
           /\ \A x \in BOOLEAN : [c EXCEPT !.durabilityLoss = x] \in Captures
           /\ \A x \in SealSteps : [c EXCEPT !.seal = x] \in Captures
           /\ \A x \in {"eof", "cutover"} : [c EXCEPT !.source = x] \in Captures
           /\ \A x \in Receipts \cup {Null} :
                  [c EXCEPT !.candidate = x] \in Captures
           /\ \A x \in Receipts \cup {Null} : [c EXCEPT !.result = x] \in Captures
           /\ \A x \in BOOLEAN : [c EXCEPT !.invalidated = x] \in Captures
           /\ \A x \in {"draining", "closing", "done"} :
                  [c EXCEPT !.discard = x] \in Captures
           /\ \A x \in Nat : [c EXCEPT !.closes = x] \in Captures
  <1>1. \A x \in BOOLEAN : [c EXCEPT !.open = x] \in Captures
    BY DEF Captures
  <1>2. \A x \in BOOLEAN : [c EXCEPT !.intake = x] \in Captures
    BY DEF Captures
  <1>3. \A x \in Nat : [c EXCEPT !.drained = x] \in Captures
    BY DEF Captures
  <1>4. \A x \in 0..Limit : [c EXCEPT !.admitted = x] \in Captures
    BY DEF Captures
  <1>5. \A x \in 0..Limit : [c EXCEPT !.written = x] \in Captures
    BY DEF Captures
  <1>6. \A x \in {"idle", "writing"} : [c EXCEPT !.pump = x] \in Captures
    BY DEF Captures
  <1>7. \A x \in BOOLEAN : [c EXCEPT !.overflow = x] \in Captures
    BY DEF Captures
  <1>8. \A x \in {"none", "syncing", "durable", "failed"} :
            [c EXCEPT !.marker = x] \in Captures
    BY DEF Captures
  <1>9. \A x \in BOOLEAN : [c EXCEPT !.captureLoss = x] \in Captures
    BY DEF Captures
  <1>10. \A x \in BOOLEAN : [c EXCEPT !.durabilityLoss = x] \in Captures
    BY DEF Captures
  <1>11. \A x \in SealSteps : [c EXCEPT !.seal = x] \in Captures
    BY DEF Captures
  <1>12. \A x \in {"eof", "cutover"} : [c EXCEPT !.source = x] \in Captures
    BY DEF Captures
  <1>13. \A x \in Receipts \cup {Null} :
            [c EXCEPT !.candidate = x] \in Captures
    BY DEF Captures
  <1>14. \A x \in Receipts \cup {Null} : [c EXCEPT !.result = x] \in Captures
    BY DEF Captures
  <1>15. \A x \in BOOLEAN : [c EXCEPT !.invalidated = x] \in Captures
    BY DEF Captures
  <1>16. \A x \in {"draining", "closing", "done"} :
            [c EXCEPT !.discard = x] \in Captures
    BY DEF Captures
  <1>17. \A x \in Nat : [c EXCEPT !.closes = x] \in Captures
    BY DEF Captures
  <1> QED
    BY <1>1, <1>2, <1>3, <1>4, <1>5, <1>6, <1>7, <1>8, <1>9,
       <1>10, <1>11, <1>12, <1>13, <1>14, <1>15, <1>16, <1>17

\* A true receipt stays true while nothing more is admitted or written.
LEMMA ReceiptsStayTrue ==
    ASSUME NEW r, NEW c, NEW s, NEW d, NEW t, TrueReceipt(r, c, s),
           d.written = c.written, d.drained = c.drained, d.overflow = c.overflow,
           s.ended => t.ended
    PROVE  TrueReceipt(r, d, t)
  BY DEF TrueReceipt

\* A new capture has counted nothing.
LEMMA CaptureStarts == CaptureInit => CaptureInv
  <1> SUFFICES ASSUME CaptureInit PROVE CaptureInv
    OBVIOUS
  <1> USE CaptureConstants, NullIsNoValue
  <1>1. files \in Artifacts /\ capture \in Captures
    <2>1. NewFiles \in Artifacts /\ NewCapture \in Captures
      BY DEF Artifacts, Captures, NewFiles, NewCapture, SealSteps
    <2>2. [NewFiles EXCEPT !.raw = Null] \in Artifacts
      BY DEF Artifacts, NewFiles
    <2>3. [NewCapture EXCEPT !.open = FALSE, !.captureLoss = TRUE,
                             !.durabilityLoss = TRUE] \in Captures
      BY <2>1 DEF Captures
    <2> QED
      BY <2>1, <2>2, <2>3 DEF CaptureInit
  <1>2. /\ files.marker = FALSE /\ files.closed = Null
        /\ files.raw = 0 \/ (files.raw = Null /\ capture.captureLoss)
    <2>1. CASE files = NewFiles
      BY <2>1 DEF NewFiles
    <2>2. CASE /\ files = [NewFiles EXCEPT !.raw = Null]
               /\ capture = [NewCapture EXCEPT !.open = FALSE, !.captureLoss = TRUE,
                                              !.durabilityLoss = TRUE]
      BY <2>2 DEF NewFiles, NewCapture
    <2> QED
      BY <2>1, <2>2 DEF CaptureInit
  <1>3. /\ capture.drained = 0 /\ capture.admitted = 0 /\ capture.written = 0
        /\ capture.pump = "idle" /\ capture.overflow = FALSE /\ capture.marker = "none"
        /\ capture.seal = "none" /\ capture.result = Null
        /\ capture.invalidated = FALSE /\ capture.discard = "none" /\ capture.closes = 0
    <2>1. CASE capture = NewCapture
      BY <2>1 DEF NewCapture
    <2>2. CASE capture = [NewCapture EXCEPT !.open = FALSE, !.captureLoss = TRUE,
                                            !.durabilityLoss = TRUE]
      BY <2>2 DEF NewCapture
    <2> QED
      BY <2>1, <2>2 DEF CaptureInit
  <1>4. CaptureTyped
    BY <1>1 DEF CaptureInit, CaptureTyped, Observations
  <1>5. BytesCounted /\ MarkerTells
    BY <1>2, <1>3 DEF BytesCounted, MarkerTells
  <1>6. SealInOrder /\ DiscardInOrder /\ ClosedInTurn
    BY <1>2, <1>3
    DEF CaptureInit, SealInOrder, DiscardInOrder, ClosedInTurn, Drained, Closed
  <1>7. PublishedTruly
    BY DEF CaptureInit, PublishedTruly, Unpublished
  <1> QED
    BY <1>4, <1>5, <1>6, <1>7 DEF CaptureInv

\* A chunk is counted as delivered, and up to the limit as admitted.
LEMMA AcceptKeeps ==
    ASSUME CaptureInv, NEW n \in Chunks, Accept(n)
    PROVE  CaptureInv'
  <1> USE CaptureConstants, NullIsNoValue DEF CaptureInv
  <1>1. capture.seal = "none" /\ capture.discard = "none"
    BY DEF Accept, SealInOrder, DiscardInOrder
  <1>2. /\ capture' = Admitted(capture, n) /\ n \in Nat \ {0}
        /\ files' = [files EXCEPT !.marker = @ \/ capture'.marker # "none"]
        /\ UNCHANGED <<stream, terminal, observation>>
    BY DEF Accept
  <1>3. CaptureTyped'
    <2>1. capture.admitted + Lowest(Limit - capture.admitted, n) \in 0..Limit
          /\ capture.drained + n \in Nat
      BY <1>2 DEF CaptureTyped, Captures, Lowest
    <2>2. Admitted(capture, n) \in Captures
      <3>1. CASE capture.captureLoss
        BY <2>1, <3>1 DEF CaptureTyped, Captures, Admitted
      <3>2. CASE ~capture.captureLoss
        <4>1. PICK a : a = Lowest(Limit - capture.admitted, n)
          OBVIOUS
        <4>2. a \in Nat /\ capture.admitted + a \in 0..Limit
          BY <2>1, <4>1, <1>2 DEF CaptureTyped, Captures, Lowest
        <4>3. PICK o \in BOOLEAN : o = (capture.overflow \/ a < n)
          OBVIOUS
        <4>4. PICK m \in {"none", "syncing", "durable", "failed"} :
                  m = IF a < n /\ ~capture.overflow THEN "syncing" ELSE capture.marker
          BY DEF CaptureTyped, Captures
        <4>5. PICK p \in {"idle", "writing"} :
                  p = IF a > 0 THEN "writing" ELSE capture.pump
          BY DEF CaptureTyped, Captures
        <4>6. PICK x \in Captures : x = [capture EXCEPT !.drained = @ + n]
          BY <2>1, CaptureFields DEF CaptureTyped
        <4>7. PICK y \in Captures : y = [x EXCEPT !.admitted = capture.admitted + a]
          BY <4>2, CaptureFields
        <4>8. PICK z \in Captures : z = [y EXCEPT !.pump = p]
          BY CaptureFields
        <4>9. PICK u \in Captures : u = [z EXCEPT !.overflow = o]
          BY CaptureFields
        <4>10. [u EXCEPT !.marker = m] \in Captures
          BY CaptureFields
        <4>11. Admitted(capture, n) = [u EXCEPT !.marker = m]
          BY <3>2, <4>1, <4>3, <4>4, <4>5, <4>6, <4>7, <4>8, <4>9
          DEF Admitted, Captures, CaptureTyped
        <4> QED
          BY <4>10, <4>11
      <3> QED
        BY <3>1, <3>2
    <2>3. files' \in Artifacts
      BY <1>2 DEF CaptureTyped, Artifacts
    <2> QED
      BY <1>2, <2>2, <2>3 DEF CaptureTyped
  <1>4. BytesCounted'
    BY <1>2
    DEF CaptureTyped, BytesCounted, Accept, Admitted, Lowest, Captures, Artifacts
  <1>5. MarkerTells'
    BY <1>2 DEF CaptureTyped, MarkerTells, Admitted, Lowest, Captures, Artifacts
  <1>6. SealInOrder'
    BY <1>1, <1>2
    DEF CaptureTyped, SealInOrder, Admitted, Lowest, Captures, Artifacts, Drained,
        Closed
  <1>7. DiscardInOrder' /\ ClosedInTurn'
    BY <1>1, <1>2
    DEF CaptureTyped, DiscardInOrder, ClosedInTurn, Overlapped, Admitted, Lowest,
        Captures, Artifacts
  <1>8. PublishedTruly'
    BY <1>1, <1>2
    DEF CaptureTyped, SealInOrder, PublishedTruly, Admitted, Lowest, Captures
  <1> QED
    BY <1>3, <1>4, <1>5, <1>6, <1>7, <1>8

\* What the pump writes was admitted, and is then in the file.
LEMMA PumpWritesKeeps ==
    ASSUME CaptureInv, PumpWrites
    PROVE  CaptureInv'
  <1> USE CaptureConstants, NullIsNoValue DEF CaptureInv
  <1>1. capture.pump = "writing" /\ UNCHANGED <<stream, terminal, observation>>
    BY DEF PumpWrites
  <1>2. capture.seal \notin Drained /\ files.closed = Null /\ capture.result = Null
    BY <1>1 DEF SealInOrder, Drained
  <1>3. files.raw # Null /\ files.raw = capture.written
    BY <1>1 DEF CaptureTyped, Captures, BytesCounted
  <1>4. PICK n \in 1..(capture.admitted - capture.written), p \in {"idle", "writing"} :
            /\ capture' = [[capture EXCEPT !.written = @ + n] EXCEPT !.pump = p]
            /\ p = IF capture.written + n < capture.admitted /\ ~capture.captureLoss
                   THEN "writing" ELSE "idle"
            /\ files' = [files EXCEPT !.raw = @ + n]
    BY DEF PumpWrites, CaptureTyped, Captures
  <1>5. capture.written + n \in 0..Limit /\ n \in Nat
    BY <1>4 DEF CaptureTyped, Captures, BytesCounted
  <1>6. CaptureTyped'
    <2>1. capture' \in Captures
      BY <1>4, <1>5, CaptureFields DEF CaptureTyped
    <2>2. files' \in Artifacts
      BY <1>3, <1>4, <1>5 DEF CaptureTyped, Artifacts
    <2> QED
      BY <1>1, <2>1, <2>2 DEF CaptureTyped
  <1>7. BytesCounted' /\ MarkerTells'
    BY <1>1, <1>3, <1>4, <1>5
    DEF CaptureTyped, Captures, Artifacts, BytesCounted, MarkerTells
  <1>8. SealInOrder'
    BY <1>1, <1>2, <1>4
    DEF CaptureTyped, Captures, Artifacts, SealInOrder, Drained, Closed
  <1>9. DiscardInOrder' /\ ClosedInTurn' /\ PublishedTruly'
    BY <1>1, <1>4
    DEF CaptureTyped, Captures, DiscardInOrder, ClosedInTurn, Overlapped, PublishedTruly
  <1> QED
    BY <1>6, <1>7, <1>8, <1>9

\* A step that may lose output, or settles the marker.
LossAllowed(c, d) ==
    /\ d.drained = c.drained /\ d.admitted = c.admitted /\ d.written = c.written
    /\ d.overflow <=> c.overflow
    /\ d.pump = c.pump \/ (d.pump = "idle" /\ d.captureLoss)
    /\ \/ d.marker = c.marker
       \/ c.marker = "syncing" /\ d.marker = "durable"
       \/ c.marker = "syncing" /\ d.marker = "failed" /\ d.durabilityLoss
    /\ d.open <=> c.open
    /\ d.intake <=> c.intake
    /\ c.captureLoss => d.captureLoss
    /\ c.durabilityLoss => d.durabilityLoss
    /\ d.seal = c.seal /\ d.source = c.source /\ d.candidate = c.candidate
    /\ d.result = c.result
    /\ d.invalidated <=> c.invalidated
    /\ d.discard = c.discard /\ d.closes = c.closes

\* Whatever is lost after a receipt was composed, the receipt stays true.
LEMMA LossKeeps ==
    ASSUME CaptureInv, capture' \in Captures, LossAllowed(capture, capture'),
           UNCHANGED <<files, terminal, observation>>,
           stream' \in [ended : BOOLEAN, failed : BOOLEAN],
           stream.ended => stream'.ended
    PROVE  CaptureInv'
  <1> USE CaptureConstants, NullIsNoValue DEF CaptureInv
  <1>1. CaptureTyped'
    BY DEF CaptureTyped
  <1>2. BytesCounted' /\ MarkerTells'
    BY DEF CaptureTyped, Captures, BytesCounted, MarkerTells, LossAllowed
  <1>3. \A r : TrueReceipt(r, capture, stream) => TrueReceipt(r, capture', stream')
    BY ReceiptsStayTrue DEF LossAllowed, CaptureTyped, Captures
  <1>4. SealInOrder'
    BY <1>3 DEF CaptureTyped, Captures, SealInOrder, Drained, Closed, LossAllowed
  <1>5. DiscardInOrder' /\ ClosedInTurn' /\ PublishedTruly'
    BY DEF CaptureTyped, Captures, DiscardInOrder, ClosedInTurn, Overlapped,
           PublishedTruly, LossAllowed
  <1> QED
    BY <1>1, <1>2, <1>4, <1>5

\* A write that fails, the marker, and an error of the stream.
LEMMA LossesKeep ==
    ASSUME CaptureInv, PumpFails \/ Marks \/ StreamFails
    PROVE  CaptureInv'
  <1> USE DEF CaptureInv
  <1>1. CASE PumpFails
    <2>1. capture' \in Captures
      BY <1>1, CaptureFields DEF PumpFails, CaptureTyped
    <2>2. LossAllowed(capture, capture')
      BY <1>1 DEF PumpFails, CaptureTyped, Captures, LossAllowed
    <2> QED
      BY <1>1, <2>1, <2>2, LossKeeps DEF PumpFails, CaptureTyped
  <1>2. CASE MarkerSynced
    <2>1. capture' \in Captures
      BY <1>2, CaptureFields DEF MarkerSynced, CaptureTyped
    <2>2. LossAllowed(capture, capture')
      <3>1. capture.marker = "syncing" /\ capture'.marker = "durable"
        BY <1>2 DEF MarkerSynced, CaptureTyped, Captures
      <3>2. /\ capture'.pump = capture.pump /\ capture'.drained = capture.drained
            /\ capture'.admitted = capture.admitted
            /\ capture'.written = capture.written
            /\ capture'.seal = capture.seal /\ capture'.source = capture.source
            /\ capture'.candidate = capture.candidate
            /\ capture'.result = capture.result
            /\ capture'.discard = capture.discard /\ capture'.closes = capture.closes
        BY <1>2 DEF MarkerSynced, CaptureTyped, Captures
      <3>3. /\ capture'.overflow = capture.overflow /\ capture'.open = capture.open
            /\ capture'.intake = capture.intake
            /\ capture'.captureLoss = capture.captureLoss
            /\ capture'.durabilityLoss = capture.durabilityLoss
            /\ capture'.invalidated = capture.invalidated
        BY <1>2 DEF MarkerSynced, CaptureTyped, Captures
      <3> QED
        BY <3>1, <3>2, <3>3 DEF LossAllowed
    <2> QED
      BY <1>2, <2>1, <2>2, LossKeeps DEF MarkerSynced, CaptureTyped
  <1>3. CASE MarkerFails
    <2>1. capture' \in Captures
      BY <1>3, CaptureFields DEF MarkerFails, CaptureTyped
    <2>2. LossAllowed(capture, capture')
      BY <1>3 DEF MarkerFails, CaptureTyped, Captures, LossAllowed
    <2> QED
      BY <1>3, <2>1, <2>2, LossKeeps DEF MarkerFails, CaptureTyped
  <1>4. CASE StreamFails
    <2>1. capture' \in Captures
      BY <1>4, CaptureFields DEF StreamFails, CaptureTyped
    <2>2. LossAllowed(capture, capture')
      BY <1>4 DEF StreamFails, CaptureTyped, Captures, LossAllowed
    <2> QED
      BY <1>4, <2>1, <2>2, LossKeeps DEF StreamFails, CaptureTyped
  <1> QED
    BY <1>1, <1>2, <1>3, <1>4 DEF Marks

\* The intake is shut, and the seal called, whatever else is going on: what was
\* counted is left alone.
LEMMA CalledKeeps ==
    ASSUME CaptureInv, capture' \in Captures,
           NEW c \in Captures, LossAllowed(capture, c),
           NEW source \in {"eof", "cutover"}, capture' = SealCalled(c, source),
           source = "eof" => stream'.ended,
           UNCHANGED <<files, observation>>,
           stream' \in [ended : BOOLEAN, failed : BOOLEAN],
           stream.ended => stream'.ended,
           terminal' = terminal \/ terminal' = terminal \cup {"freeze"},
           terminal' = terminal => capture.discard = "none"
    PROVE  CaptureInv'
  <1> USE CaptureConstants, NullIsNoValue DEF CaptureInv
  <1>1. /\ capture'.drained = capture.drained /\ capture'.admitted = capture.admitted
        /\ capture'.written = capture.written /\ capture'.pump = c.pump
        /\ capture'.marker = c.marker /\ capture'.candidate = capture.candidate
        /\ capture'.result = capture.result /\ capture'.discard = capture.discard
        /\ capture'.closes = capture.closes
    BY DEF SealCalled, LossAllowed, Captures
  <1>2. /\ capture'.overflow <=> capture.overflow
        /\ capture'.captureLoss <=> c.captureLoss
        /\ capture'.durabilityLoss <=> c.durabilityLoss
        /\ capture'.open <=> capture.open
        /\ ~capture'.intake
        /\ capture'.invalidated <=> capture.invalidated
    BY DEF SealCalled, LossAllowed, Captures
  <1>3. IF capture.seal = "none"
        THEN capture'.seal = "draining" /\ capture'.source = source
        ELSE capture'.seal = capture.seal /\ capture'.source = capture.source
    BY DEF SealCalled, LossAllowed, Captures
  <1>4. CaptureTyped'
    BY DEF CaptureTyped
  <1>5. BytesCounted' /\ MarkerTells'
    BY <1>1, <1>2 DEF CaptureTyped, Captures, BytesCounted, MarkerTells, LossAllowed
  <1>6. \A r : TrueReceipt(r, capture, stream) => TrueReceipt(r, capture', stream')
    BY <1>1, <1>2, ReceiptsStayTrue DEF CaptureTyped, Captures
  <1>7. SealInOrder'
    BY <1>1, <1>2, <1>3, <1>6
    DEF CaptureTyped, Captures, SealInOrder, Drained, Closed, LossAllowed
  <1>8. DiscardInOrder'
    BY <1>1, <1>2 DEF CaptureTyped, Captures, DiscardInOrder
  <1>9. ClosedInTurn'
    <2>1. SUFFICES ASSUME ~Overlapped' PROVE ClosedInTurn'
      BY DEF ClosedInTurn
    <2>2. ~Overlapped /\ capture.discard = "none"
      BY <2>1 DEF CaptureTyped, Overlapped, DiscardInOrder
    <2> QED
      BY <1>1, <1>3, <2>2 DEF ClosedInTurn
  <1>10. PublishedTruly'
    BY <1>1 DEF PublishedTruly
  <1> QED
    BY <1>4, <1>5, <1>7, <1>8, <1>9, <1>10

\* The end of the stream, and the freeze.
LEMMA CallsKeep ==
    ASSUME CaptureInv, StreamEnds \/ Freeze
    PROVE  CaptureInv'
  <1> USE DEF CaptureInv
  <1>1. \A c \in Captures, source \in {"eof", "cutover"} :
            SealCalled(c, source) \in Captures
    BY CaptureFields DEF SealCalled, SealSteps
  <1>2. CASE StreamEnds
    <2>1. LossAllowed(capture, capture)
      BY Zenon DEF LossAllowed
    <2>2. capture.discard = "none"
      BY <1>2 DEF StreamEnds, DiscardInOrder
    <2> QED
      BY <1>1, <1>2, <2>1, <2>2, CalledKeeps DEF StreamEnds, CaptureTyped
  <1>3. CASE Freeze
    <2>1. PICK lost \in BOOLEAN, c \in Captures :
              /\ lost = (capture.captureLoss \/ stream.failed)
              /\ c = [capture EXCEPT !.captureLoss = lost]
      BY CaptureFields DEF CaptureTyped
    <2>2. LossAllowed(capture, c)
      <3>1. /\ c.pump = capture.pump /\ c.drained = capture.drained
            /\ c.admitted = capture.admitted /\ c.written = capture.written
            /\ c.seal = capture.seal /\ c.source = capture.source
            /\ c.candidate = capture.candidate /\ c.result = capture.result
            /\ c.discard = capture.discard /\ c.closes = capture.closes
            /\ c.marker = capture.marker
        BY <2>1 DEF CaptureTyped, Captures
      <3>2. /\ c.overflow = capture.overflow /\ c.open = capture.open
            /\ c.intake = capture.intake /\ c.durabilityLoss = capture.durabilityLoss
            /\ c.invalidated = capture.invalidated
        BY <2>1 DEF CaptureTyped, Captures
      <3>3. capture.captureLoss => c.captureLoss
        BY <2>1 DEF CaptureTyped, Captures
      <3> QED
        BY <3>1, <3>2, <3>3 DEF LossAllowed
    <2>3. capture' = SealCalled(c, "cutover")
      BY <1>3, <2>1 DEF Freeze
    <2>4. terminal' # terminal
      BY <1>3 DEF Freeze
    <2> QED
      BY <1>1, <1>3, <2>2, <2>3, <2>4, CalledKeeps DEF Freeze, CaptureTyped
  <1> QED
    BY <1>2, <1>3

\* A discard begins: nothing more is admitted, and a receipt that is not composed
\* yet never will be.
LEMMA DiscardKeeps ==
    ASSUME CaptureInv, Discard
    PROVE  CaptureInv'
  <1> USE CaptureConstants, NullIsNoValue DEF CaptureInv
  <1>1. capture.discard = "none" /\ terminal' = {"discard"} /\ terminal = {}
    BY DEF Discard, DiscardInOrder
  <1>2. CaptureTyped'
    <2>1. PICK x \in Captures : x = [capture EXCEPT !.intake = FALSE]
      BY CaptureFields DEF CaptureTyped
    <2>2. PICK y \in Captures : y = [x EXCEPT !.invalidated = TRUE]
      BY CaptureFields
    <2>3. [y EXCEPT !.discard = "draining"] \in Captures
      BY CaptureFields
    <2> QED
      BY <2>1, <2>2, <2>3 DEF Discard, CaptureTyped
  <1>3. BytesCounted' /\ MarkerTells'
    BY DEF Discard, CaptureTyped, Captures, BytesCounted, MarkerTells
  <1>4. \A r : TrueReceipt(r, capture, stream) => TrueReceipt(r, capture', stream')
    <2>1. /\ capture'.written = capture.written /\ capture'.drained = capture.drained
          /\ capture'.overflow = capture.overflow /\ stream' = stream
      BY DEF Discard, CaptureTyped, Captures
    <2> QED
      BY <2>1, ReceiptsStayTrue
  <1>5. SealInOrder'
    BY <1>1, <1>4 DEF Discard, CaptureTyped, Captures, SealInOrder, Drained, Closed
  <1>6. DiscardInOrder'
    BY <1>1 DEF Discard, CaptureTyped, Captures, DiscardInOrder
  <1>7. ClosedInTurn'
    BY <1>1 DEF Discard, CaptureTyped, Captures, ClosedInTurn, Overlapped
  <1>8. PublishedTruly'
    BY <1>1 DEF Discard, CaptureTyped, Captures, PublishedTruly
  <1> QED
    BY <1>2, <1>3, <1>5, <1>6, <1>7, <1>8

-----------------------------------------------------------------------------
(* Sealing *)

\* A step of seal() counts nothing, and decides nothing but how far it is.
SealsOnly(c, d) ==
    /\ d.drained = c.drained /\ d.admitted = c.admitted /\ d.written = c.written
    /\ d.overflow = c.overflow /\ d.pump = c.pump /\ d.marker = c.marker
    /\ d.captureLoss = c.captureLoss /\ d.intake = c.intake /\ d.source = c.source
    /\ c.durabilityLoss => d.durabilityLoss
    /\ d.invalidated = c.invalidated /\ d.discard = c.discard

\* Neither the counts nor what the store knows depend on how far seal() is, before
\* it has a result.
LEMMA SealFrame ==
    ASSUME CaptureInv, capture' \in Captures, SealsOnly(capture, capture'),
           files' \in Artifacts, files'.raw = files.raw, files'.marker = files.marker,
           UNCHANGED <<stream, terminal, observation>>, capture.seal # "sealed",
           SealInOrder', ClosedInTurn'
    PROVE  CaptureInv'
  <1> USE DEF CaptureInv
  <1>1. CaptureTyped'
    BY DEF CaptureTyped
  <1>2. BytesCounted' /\ MarkerTells'
    BY DEF BytesCounted, MarkerTells, SealsOnly
  <1>3. DiscardInOrder'
    BY DEF DiscardInOrder, SealsOnly
  <1>4. PublishedTruly'
    BY DEF PublishedTruly, SealInOrder
  <1> QED
    BY <1>1, <1>2, <1>3, <1>4

\* The receipts that are true before a step of seal() are true after it.
LEMMA SealKeepsReceipts ==
    ASSUME SealsOnly(capture, capture'), UNCHANGED stream
    PROVE  \A r : TrueReceipt(r, capture, stream) => TrueReceipt(r, capture', stream')
  BY ReceiptsStayTrue DEF SealsOnly

\* seal() goes on when the pump and the marker are done, and calls the close.
LEMMA SealBeginsKeeps ==
    ASSUME CaptureInv, SealDrained \/ SealSyncs \/ SealCloses
    PROVE  CaptureInv'
  <1> USE CaptureConstants, NullIsNoValue DEF CaptureInv
  <1>1. files' = files /\ UNCHANGED <<stream, terminal, observation>>
    BY DEF SealDrained, SealSyncs, SealCloses
  <1>2. capture.seal \in {"draining", "syncing", "closing"}
    BY DEF SealDrained, SealSyncs, SealCloses
  <1>3. files.closed = Null /\ capture.result = Null
    BY <1>2 DEF SealInOrder
  <1>4. CASE SealDrained
    <2>1. capture' \in Captures
      BY <1>4, CaptureFields DEF SealDrained, CaptureTyped, SealSteps
    <2>2. SealsOnly(capture, capture')
      BY <1>4 DEF SealDrained, CaptureTyped, Captures, SealsOnly
    <2>3. /\ capture'.seal = IF capture.open THEN "syncing" ELSE "closed"
          /\ capture'.result = capture.result /\ capture'.open = capture.open
          /\ capture'.closes = capture.closes
      BY <1>4 DEF SealDrained, CaptureTyped, Captures
    <2>4. SealInOrder'
      BY <1>1, <1>3, <1>4, <2>2, <2>3
      DEF SealDrained, SealInOrder, SealsOnly, Drained, Closed
    <2>5. ClosedInTurn'
      <3> SUFFICES ASSUME ~Overlapped' PROVE ClosedInTurn'
        BY DEF ClosedInTurn
      <3> QED
        BY <1>1, <1>4, <2>2, <2>3 DEF SealDrained, ClosedInTurn, Overlapped, SealsOnly
    <2> QED
      BY <1>1, <1>2, <2>1, <2>2, <2>4, <2>5, SealFrame DEF CaptureTyped
  <1>5. CASE SealSyncs
    <2>1. PICK lost \in BOOLEAN :
              capture' = [capture EXCEPT !.seal = "closing",
                             !.closes = @ + (IF capture.open THEN 1 ELSE 0),
                             !.durabilityLoss = @ \/ lost \/ ~capture.open]
      BY <1>5 DEF SealSyncs
    <2>2. capture' \in Captures
      <3>1. PICK x \in Captures : x = [capture EXCEPT !.seal = "closing"]
        BY CaptureFields DEF CaptureTyped, SealSteps
      <3>2. PICK k \in Nat : k = capture.closes + (IF capture.open THEN 1 ELSE 0)
        BY DEF CaptureTyped, Captures
      <3>3. PICK y \in Captures : y = [x EXCEPT !.closes = k]
        BY CaptureFields
      <3>4. PICK b \in BOOLEAN : b = (capture.durabilityLoss \/ lost \/ ~capture.open)
        OBVIOUS
      <3>5. [y EXCEPT !.durabilityLoss = b] \in Captures
        BY CaptureFields
      <3>6. capture' = [y EXCEPT !.durabilityLoss = b]
        BY <2>1, <3>1, <3>2, <3>3, <3>4 DEF CaptureTyped, Captures
      <3> QED
        BY <3>5, <3>6
    <2>3. SealsOnly(capture, capture')
      BY <2>1 DEF CaptureTyped, Captures, SealsOnly
    <2>4. /\ capture'.seal = "closing" /\ capture.seal = "syncing"
          /\ capture'.result = capture.result
          /\ capture'.closes = capture.closes + (IF capture.open THEN 1 ELSE 0)
      BY <1>5, <2>1 DEF SealSyncs, CaptureTyped, Captures
    <2>5. SealInOrder'
      BY <1>1, <1>3, <2>3, <2>4 DEF SealInOrder, SealsOnly, Drained, Closed
    <2>6. ClosedInTurn'
      <3> SUFFICES ASSUME ~Overlapped' PROVE ClosedInTurn'
        BY DEF ClosedInTurn
      <3>1. ~Overlapped
        BY <1>1 DEF Overlapped
      <3>2. capture.discard \in {"none", "draining"} /\ capture.closes = 0
        BY <2>4, <3>1 DEF ClosedInTurn, CaptureTyped, Captures
      <3> QED
        BY <2>3, <2>4, <3>2 DEF ClosedInTurn, SealsOnly
    <2> QED
      BY <1>1, <1>2, <2>2, <2>3, <2>5, <2>6, SealFrame DEF CaptureTyped
  <1>6. CASE SealCloses
    <2>1. PICK lost \in BOOLEAN :
              capture' = [capture EXCEPT !.seal = "closed", !.open = FALSE,
                                         !.durabilityLoss = @ \/ lost]
      BY <1>6 DEF SealCloses
    <2>2. capture' \in Captures
      <3>1. PICK x \in Captures : x = [capture EXCEPT !.seal = "closed"]
        BY CaptureFields DEF CaptureTyped, SealSteps
      <3>2. PICK y \in Captures : y = [x EXCEPT !.open = FALSE]
        BY CaptureFields
      <3>3. PICK b \in BOOLEAN : b = (capture.durabilityLoss \/ lost)
        OBVIOUS
      <3>4. [y EXCEPT !.durabilityLoss = b] \in Captures
        BY CaptureFields
      <3>5. capture' = [y EXCEPT !.durabilityLoss = b]
        BY <2>1, <3>1, <3>2, <3>3 DEF CaptureTyped, Captures
      <3> QED
        BY <3>4, <3>5
    <2>3. SealsOnly(capture, capture')
      BY <2>1 DEF CaptureTyped, Captures, SealsOnly
    <2>4. /\ capture'.seal = "closed" /\ capture.seal = "closing"
          /\ capture'.result = capture.result /\ capture'.open = FALSE
          /\ capture'.closes = capture.closes
      BY <1>6, <2>1 DEF SealCloses, CaptureTyped, Captures
    <2>5. SealInOrder'
      BY <1>1, <1>3, <2>3, <2>4 DEF SealInOrder, SealsOnly, Drained, Closed
    <2>6. ClosedInTurn'
      <3> SUFFICES ASSUME ~Overlapped' PROVE ClosedInTurn'
        BY DEF ClosedInTurn
      <3> QED
        BY <1>1, <2>3, <2>4 DEF ClosedInTurn, Overlapped, SealsOnly
    <2> QED
      BY <1>1, <1>2, <2>2, <2>3, <2>5, <2>6, SealFrame DEF CaptureTyped
  <1> QED
    BY <1>4, <1>5, <1>6

\* The receipt of a drained capture that lost no durability is true.
LEMMA CandidateIsTrue ==
    ASSUME CaptureInv, capture.seal = "closed", Publishable(capture)
    PROVE  /\ Candidate(capture) \in Receipts /\ files.raw # Null
           /\ TrueReceipt(Candidate(capture), capture, stream)
  <1> USE CaptureConstants, NullIsNoValue DEF CaptureInv
  <1>1. /\ capture.pump = "idle" /\ capture.marker # "syncing"
        /\ capture.source \in {"eof", "cutover"}
        /\ capture.source = "eof" => stream.ended
    BY DEF SealInOrder, Drained
  <1>2. capture.written \in 0..Limit /\ files.raw # Null
    BY DEF CaptureTyped, Captures, Publishable
  <1>3. capture.overflow <=> (capture.overflow /\ capture.marker = "durable")
    BY <1>1 DEF MarkerTells, Publishable, CaptureTyped, Captures
  <1>4. PICK t \in BOOLEAN, i \in BOOLEAN, o \in BOOLEAN,
             m \in {"eof", "cutover", "capture_error"} :
            /\ t <=> capture.overflow
            /\ i <=> (capture.captureLoss \/ capture.source = "cutover")
            /\ o <=> capture.source = "cutover"
            /\ m = IF capture.captureLoss THEN "capture_error" ELSE capture.source
            /\ Candidate(capture) = [retained |-> capture.written, truncated |-> t,
                                     incomplete |-> i, openAtCutover |-> o, reason |-> m]
    BY <1>1, <1>3 DEF Candidate
  <1>5. Candidate(capture) \in Receipts
    BY <1>2, <1>4 DEF Receipts, Reasons
  <1>6. Parses(Candidate(capture))
    BY <1>1, <1>4 DEF Parses, BytesCounted, CaptureTyped, Captures
  <1>7. TrueReceipt(Candidate(capture), capture, stream)
    BY <1>1, <1>2, <1>4, <1>6 DEF TrueReceipt, BytesCounted, CaptureTyped, Captures
  <1> QED
    BY <1>2, <1>5, <1>7

\* A seal that ends without a result leaves no receipt.
LEMMA SealEndsEmpty ==
    ASSUME CaptureInv, capture' = Sealed(capture, Null),
           capture.seal \in {"closed", "renaming", "directory"}, ~capture.open,
           files' \in Artifacts, files'.raw = files.raw, files'.marker = files.marker,
           files'.closed = Null, UNCHANGED <<stream, terminal, observation>>
    PROVE  CaptureInv'
  <1> USE CaptureConstants, NullIsNoValue DEF CaptureInv
  <1>1. capture' \in Captures
    <2>1. PICK x \in Captures : x = [capture EXCEPT !.seal = "sealed"]
      BY CaptureFields DEF CaptureTyped, SealSteps
    <2>2. PICK y \in Captures : y = [x EXCEPT !.result = Null]
      BY CaptureFields
    <2>3. PICK z \in Captures : z = [y EXCEPT !.candidate = Null]
      BY CaptureFields
    <2>4. [z EXCEPT !.durabilityLoss = TRUE] \in Captures
      BY CaptureFields
    <2>5. capture' = [z EXCEPT !.durabilityLoss = TRUE]
      BY <2>1, <2>2, <2>3 DEF Sealed, CaptureTyped, Captures
    <2> QED
      BY <2>4, <2>5
  <1>2. SealsOnly(capture, capture')
    BY DEF Sealed, CaptureTyped, Captures, SealsOnly
  <1>3. /\ capture'.seal = "sealed" /\ capture'.result = Null
        /\ capture'.open = capture.open /\ capture'.closes = capture.closes
    BY DEF Sealed, CaptureTyped, Captures
  <1>4. SealInOrder'
    BY <1>2, <1>3 DEF SealInOrder, SealsOnly, Drained, Closed
  <1>5. ClosedInTurn'
    <2> SUFFICES ASSUME ~Overlapped' PROVE ClosedInTurn'
      BY DEF ClosedInTurn
    <2> QED
      BY <1>2, <1>3 DEF ClosedInTurn, Overlapped, SealsOnly
  <1> QED
    BY <1>1, <1>2, <1>4, <1>5, SealFrame

\* The receipt is composed, or the seal ends without one.
LEMMA SealComposesKeeps ==
    ASSUME CaptureInv, SealComposes
    PROVE  CaptureInv'
  <1> USE CaptureConstants, NullIsNoValue DEF CaptureInv
  <1>1. files' = files /\ UNCHANGED <<stream, terminal, observation>>
        /\ capture.seal = "closed"
    BY DEF SealComposes
  <1>2. files.closed = Null /\ capture.result = Null /\ ~capture.open
    BY <1>1 DEF SealInOrder, Closed
  <1>3. CASE /\ Publishable(capture)
             /\ capture' = [capture EXCEPT !.seal = "renaming",
                                           !.candidate = Candidate(capture)]
    <2>1. PICK r \in Receipts : r = Candidate(capture)
      BY <1>1, <1>3, CandidateIsTrue
    <2>2. capture' \in Captures
      <3>1. PICK x \in Captures : x = [capture EXCEPT !.seal = "renaming"]
        BY CaptureFields DEF CaptureTyped, SealSteps
      <3>2. [x EXCEPT !.candidate = r] \in Captures
        BY CaptureFields
      <3> QED
        BY <1>3, <2>1, <3>1, <3>2
    <2>3. SealsOnly(capture, capture')
      BY <1>3 DEF CaptureTyped, Captures, SealsOnly
    <2>4. /\ capture'.seal = "renaming" /\ capture'.candidate = r
          /\ capture'.result = capture.result /\ capture'.open = capture.open
          /\ capture'.closes = capture.closes
      BY <1>3, <2>1 DEF CaptureTyped, Captures
    <2>5. TrueReceipt(r, capture', stream') /\ files.raw # Null /\ r # Null
      BY <1>1, <1>3, <2>1, <2>3, CandidateIsTrue, SealKeepsReceipts
    <2>6. capture.discard = "none"
      BY <1>3 DEF Publishable, DiscardInOrder
    <2>7. SealInOrder'
      BY <1>1, <1>2, <2>3, <2>4, <2>5, <2>6 DEF SealInOrder, SealsOnly, Drained, Closed
    <2>8. ClosedInTurn'
      <3> SUFFICES ASSUME ~Overlapped' PROVE ClosedInTurn'
        BY DEF ClosedInTurn
      <3> QED
        BY <1>1, <2>3, <2>4, <2>6 DEF ClosedInTurn, Overlapped, SealsOnly
    <2> QED
      BY <1>1, <2>2, <2>3, <2>7, <2>8, SealFrame DEF CaptureTyped
  <1>4. CASE capture' = Sealed(capture, Null)
    BY <1>1, <1>2, <1>4, SealEndsEmpty DEF CaptureTyped
  <1> QED
    BY <1>3, <1>4 DEF SealComposes

\* The receipt takes its name, or the seal ends without one.
LEMMA ReceiptRenamedKeeps ==
    ASSUME CaptureInv, ReceiptRenamed
    PROVE  CaptureInv'
  <1> USE CaptureConstants, NullIsNoValue DEF CaptureInv
  <1>1. UNCHANGED <<stream, terminal, observation>> /\ capture.seal = "renaming"
    BY DEF ReceiptRenamed
  <1>2. /\ files.closed = Null /\ capture.result = Null /\ ~capture.open
        /\ capture.candidate # Null /\ capture.candidate \in Receipts
    BY <1>1 DEF SealInOrder, Closed, CaptureTyped, Captures
  <1>3. CASE /\ files' = [files EXCEPT !.closed = capture.candidate]
             /\ capture' = [capture EXCEPT !.seal = "directory"]
    <2>1. capture' \in Captures /\ files' \in Artifacts
      <3>1. capture' \in Captures
        BY <1>3, CaptureFields DEF CaptureTyped, SealSteps
      <3>2. files' \in Artifacts
        BY <1>2, <1>3 DEF CaptureTyped, Artifacts
      <3> QED
        BY <3>1, <3>2
    <2>2. SealsOnly(capture, capture')
      BY <1>3 DEF CaptureTyped, Captures, SealsOnly
    <2>3. /\ capture'.seal = "directory" /\ capture'.candidate = capture.candidate
          /\ capture'.result = capture.result /\ capture'.open = capture.open
          /\ capture'.closes = capture.closes
      BY <1>3 DEF CaptureTyped, Captures
    <2>4. /\ files'.raw = files.raw /\ files'.marker = files.marker
          /\ files'.closed = capture.candidate
      BY <1>3 DEF CaptureTyped, Artifacts
    <2>5. TrueReceipt(capture.candidate, capture', stream') /\ files.raw # Null
          /\ capture.discard \in {"none", "draining"}
      BY <1>1, <2>2, SealKeepsReceipts DEF SealInOrder
    <2>6. SealInOrder'
      BY <1>1, <1>2, <2>2, <2>3, <2>4, <2>5 DEF SealInOrder, SealsOnly, Drained, Closed
    <2>7. ClosedInTurn'
      <3> SUFFICES ASSUME ~Overlapped' PROVE ClosedInTurn'
        BY DEF ClosedInTurn
      <3> QED
        BY <1>1, <2>2, <2>3 DEF ClosedInTurn, Overlapped, SealsOnly
    <2> QED
      BY <1>1, <2>1, <2>2, <2>4, <2>6, <2>7, SealFrame
  <1>4. CASE capture' = Sealed(capture, Null) /\ files' = files
    BY <1>1, <1>2, <1>4, SealEndsEmpty DEF CaptureTyped
  <1> QED
    BY <1>3, <1>4 DEF ReceiptRenamed

\* The receipt is durable and is the result, or it goes and there is none.
LEMMA DirectorySyncedKeeps ==
    ASSUME CaptureInv, DirectorySynced
    PROVE  CaptureInv'
  <1> USE CaptureConstants, NullIsNoValue DEF CaptureInv
  <1>1. UNCHANGED <<stream, terminal, observation>> /\ capture.seal = "directory"
    BY DEF DirectorySynced
  <1>2. /\ files.closed = capture.candidate /\ ~capture.open /\ files.raw # Null
        /\ capture.candidate \in Receipts
        /\ TrueReceipt(capture.candidate, capture, stream)
    BY <1>1 DEF SealInOrder, Closed, CaptureTyped, Captures
  <1>3. ClosureCoherent
    BY <1>2 DEF ClosureCoherent, TrueReceipt, BytesCounted, MarkerTells, CaptureTyped,
                Artifacts, Captures, Receipts
  <1>4. CASE capture' = Sealed(capture, capture.candidate) /\ files' = files
    <2>1. capture' \in Captures
      <3>1. PICK x \in Captures : x = [capture EXCEPT !.seal = "sealed"]
        BY CaptureFields DEF CaptureTyped, SealSteps
      <3>2. PICK y \in Captures : y = [x EXCEPT !.result = capture.candidate]
        BY <1>2, CaptureFields
      <3>3. PICK z \in Captures : z = [y EXCEPT !.candidate = Null]
        BY CaptureFields
      <3>4. PICK b \in BOOLEAN : b = (capture.durabilityLoss \/ capture.candidate = Null)
        OBVIOUS
      <3>5. [z EXCEPT !.durabilityLoss = b] \in Captures
        BY CaptureFields
      <3>6. capture' = [z EXCEPT !.durabilityLoss = b]
        BY <1>4, <3>1, <3>2, <3>3, <3>4 DEF Sealed, CaptureTyped, Captures
      <3> QED
        BY <3>5, <3>6
    <2>2. SealsOnly(capture, capture')
      BY <1>4 DEF Sealed, CaptureTyped, Captures, SealsOnly
    <2>3. /\ capture'.seal = "sealed" /\ capture'.result = capture.candidate
          /\ capture'.open = capture.open /\ capture'.closes = capture.closes
      BY <1>4 DEF Sealed, CaptureTyped, Captures
    <2>4. TrueReceipt(capture.candidate, capture', stream')
      BY <1>1, <1>2, <2>2, SealKeepsReceipts
    <2>5. SealInOrder'
      BY <1>1, <1>2, <1>4, <2>2, <2>3, <2>4 DEF SealInOrder, SealsOnly, Drained, Closed
    <2>6. ClosedInTurn'
      <3> SUFFICES ASSUME ~Overlapped' PROVE ClosedInTurn'
        BY DEF ClosedInTurn
      <3> QED
        BY <1>1, <2>2, <2>3 DEF ClosedInTurn, Overlapped, SealsOnly
    <2> QED
      BY <1>1, <1>4, <2>1, <2>2, <2>5, <2>6, SealFrame DEF CaptureTyped
  <1>5. CASE capture' = Sealed(capture, Null) /\ files' = [files EXCEPT !.closed = Null]
    <2>1. files' \in Artifacts /\ files'.closed = Null
          /\ files'.raw = files.raw /\ files'.marker = files.marker
      BY <1>5 DEF CaptureTyped, Artifacts
    <2> QED
      BY <1>1, <1>2, <1>5, <2>1, SealEndsEmpty
  <1> QED
    BY <1>3, <1>4, <1>5 DEF DirectorySynced

-----------------------------------------------------------------------------
(* Discarding and publishing *)

\* The discard calls the close when no seal is under way.
LEMMA DiscardDrainedKeeps ==
    ASSUME CaptureInv, DiscardDrained
    PROVE  CaptureInv'
  <1> USE CaptureConstants, NullIsNoValue DEF CaptureInv
  <1>1. /\ capture.discard = "draining" /\ capture.seal \in {"none", "sealed"}
        /\ UNCHANGED <<files, stream, terminal, observation>>
        /\ capture' = DiscardClosing(capture)
    BY DEF DiscardDrained
  <1>2. capture' \in Captures
    <2>1. PICK x \in Captures : x = [capture EXCEPT !.discard = "closing"]
      BY CaptureFields DEF CaptureTyped
    <2>2. PICK k \in Nat : k = capture.closes + (IF capture.open THEN 1 ELSE 0)
      BY DEF CaptureTyped, Captures
    <2>3. [x EXCEPT !.closes = k] \in Captures
      BY CaptureFields
    <2>4. capture' = [x EXCEPT !.closes = k]
      BY <1>1, <2>1, <2>2 DEF DiscardClosing, CaptureTyped, Captures
    <2> QED
      BY <2>3, <2>4
  <1>3. /\ capture'.drained = capture.drained /\ capture'.admitted = capture.admitted
        /\ capture'.written = capture.written /\ capture'.pump = capture.pump
        /\ capture'.overflow = capture.overflow /\ capture'.marker = capture.marker
        /\ capture'.captureLoss = capture.captureLoss
        /\ capture'.durabilityLoss = capture.durabilityLoss
        /\ capture'.intake = capture.intake /\ capture'.source = capture.source
    BY <1>1 DEF DiscardClosing, CaptureTyped, Captures
  <1>4. /\ capture'.seal = capture.seal /\ capture'.open = capture.open
        /\ capture'.candidate = capture.candidate /\ capture'.result = capture.result
        /\ capture'.invalidated = capture.invalidated /\ capture'.discard = "closing"
        /\ capture'.closes = capture.closes + (IF capture.open THEN 1 ELSE 0)
    BY <1>1 DEF DiscardClosing, CaptureTyped, Captures
  <1>5. CaptureTyped' /\ BytesCounted' /\ MarkerTells'
    BY <1>1, <1>2, <1>3 DEF CaptureTyped, BytesCounted, MarkerTells
  <1>6. \A r : TrueReceipt(r, capture, stream) => TrueReceipt(r, capture', stream')
    BY <1>1, <1>3, ReceiptsStayTrue
  <1>7. SealInOrder'
    BY <1>1, <1>3, <1>4, <1>6 DEF SealInOrder, Drained, Closed
  <1>8. DiscardInOrder' /\ PublishedTruly'
    BY <1>1, <1>3, <1>4 DEF DiscardInOrder, PublishedTruly
  <1>9. ClosedInTurn'
    <2> SUFFICES ASSUME ~Overlapped' PROVE ClosedInTurn'
      BY DEF ClosedInTurn
    <2>1. ~Overlapped
      BY <1>1 DEF Overlapped
    <2>2. capture.seal = "sealed" => ~capture.open
      BY DEF SealInOrder, Closed
    <2> QED
      BY <1>1, <1>4, <2>1, <2>2 DEF ClosedInTurn, CaptureTyped, Captures
  <1> QED
    BY <1>5, <1>7, <1>8, <1>9

\* What a discard removes is an empty capture.
LEMMA DiscardClosesKeeps ==
    ASSUME CaptureInv, DiscardCloses
    PROVE  CaptureInv'
  <1> USE CaptureConstants, NullIsNoValue DEF CaptureInv
  <1>1. /\ capture.discard = "closing" /\ files' = Staging(files)
        /\ UNCHANGED <<stream, terminal, observation>>
        /\ capture' = [capture EXCEPT !.discard = "done", !.open = FALSE]
    BY DEF DiscardCloses
  <1>2. capture' \in Captures
    <2>1. PICK x \in Captures : x = [capture EXCEPT !.discard = "done"]
      BY CaptureFields DEF CaptureTyped
    <2> QED
      BY <1>1, <2>1, CaptureFields
  <1>3. /\ capture'.drained = capture.drained /\ capture'.admitted = capture.admitted
        /\ capture'.written = capture.written /\ capture'.pump = capture.pump
        /\ capture'.overflow = capture.overflow /\ capture'.marker = capture.marker
        /\ capture'.captureLoss = capture.captureLoss
        /\ capture'.durabilityLoss = capture.durabilityLoss
        /\ capture'.intake = capture.intake /\ capture'.source = capture.source
    BY <1>1 DEF CaptureTyped, Captures
  <1>4. /\ capture'.seal = capture.seal /\ capture'.open = FALSE
        /\ capture'.candidate = capture.candidate /\ capture'.result = capture.result
        /\ capture'.invalidated = capture.invalidated /\ capture'.discard = "done"
        /\ capture'.closes = capture.closes
    BY <1>1 DEF CaptureTyped, Captures
  <1>5. /\ files' \in Artifacts /\ files'.marker = files.marker
        /\ files'.closed \in {files.closed, Null}
        /\ files'.raw = files.raw \/ (files.raw = 0 /\ files'.raw = Null
                                      /\ capture.drained = 0 /\ files'.closed = Null)
    <2>1. CASE capture.drained > 0
      BY <1>1, <2>1 DEF Staging, CaptureTyped
    <2>2. CASE ~(capture.drained > 0)
      <3>1. PICK w \in 0..Limit \cup {Null} : w = IF files.raw = 0 THEN Null ELSE files.raw
        BY DEF CaptureTyped, Artifacts
      <3>2. PICK f \in Artifacts : f = [files EXCEPT !.closed = Null]
        BY DEF CaptureTyped, Artifacts
      <3>3. files' = [f EXCEPT !.raw = w]
        BY <1>1, <2>2, <3>1, <3>2 DEF Staging, CaptureTyped, Artifacts
      <3>4. files' \in Artifacts
        BY <3>3 DEF Artifacts
      <3>5. files'.marker = files.marker /\ files'.closed = Null /\ files'.raw = w
        BY <3>2, <3>3 DEF CaptureTyped, Artifacts
      <3>6. capture.drained = 0
        BY <2>2 DEF CaptureTyped, Captures
      <3> QED
        BY <3>1, <3>4, <3>5, <3>6
    <2> QED
      BY <2>1, <2>2
  <1>6. ~capture.intake
    BY <1>1 DEF DiscardInOrder
  <1>7. CaptureTyped' /\ BytesCounted' /\ MarkerTells'
    <2>1. capture.drained = 0 => capture.admitted = 0
      BY DEF BytesCounted, CaptureTyped, Captures
    <2> QED
      BY <1>1, <1>2, <1>3, <1>5, <1>6, <2>1 DEF CaptureTyped, BytesCounted, MarkerTells
  <1>8. \A r : TrueReceipt(r, capture, stream) => TrueReceipt(r, capture', stream')
    <2>1. /\ capture'.written = capture.written /\ capture'.drained = capture.drained
          /\ capture'.overflow = capture.overflow /\ stream' = stream
      BY <1>1, <1>3
    <2> QED
      BY <2>1, ReceiptsStayTrue
  <1>9. SealInOrder'
    BY <1>1, <1>3, <1>4, <1>5, <1>8 DEF SealInOrder, Drained, Closed
  <1>10. DiscardInOrder' /\ PublishedTruly'
    BY <1>1, <1>3, <1>4 DEF DiscardInOrder, PublishedTruly
  <1>11. ClosedInTurn'
    BY <1>1, <1>4 DEF ClosedInTurn, Overlapped
  <1> QED
    BY <1>7, <1>9, <1>10, <1>11

\* The publication says what the result says, or that there is none.
LEMMA TerminalPublishedKeeps ==
    ASSUME CaptureInv, TerminalPublished
    PROVE  CaptureInv'
  <1> USE CaptureConstants, NullIsNoValue DEF CaptureInv
  <1>1. UNCHANGED <<files, capture, stream, terminal>>
    BY DEF TerminalPublished
  <1>2. CASE observation' = Finalized(Nothing)
    <2>1. CaptureTyped'
      BY <1>1, <1>2 DEF CaptureTyped, Observations, Finalized, Nothing
    <2>2. PublishedTruly'
      BY <1>2 DEF PublishedTruly, Finalized, Nothing
    <2> QED
      BY <1>1, <2>1, <2>2 DEF BytesCounted, MarkerTells, SealInOrder, DiscardInOrder,
                              ClosedInTurn, Overlapped
  <1>3. CASE observation' = Finalized(ResultFacts(capture)) /\ "freeze" \in terminal
    <2>1. CASE capture.result = Null
      <3>1. PICK o \in BOOLEAN : o = (capture.source = "cutover")
        OBVIOUS
      <3>2. observation' = [finalized |-> TRUE, available |-> FALSE, truncated |-> FALSE,
                            incomplete |-> TRUE, openAtCutover |-> o]
        BY <1>3, <2>1, <3>1 DEF Finalized, ResultFacts
      <3>3. CaptureTyped' /\ PublishedTruly'
        BY <1>1, <3>2 DEF CaptureTyped, Observations, PublishedTruly
      <3> QED
        BY <1>1, <3>3 DEF BytesCounted, MarkerTells, SealInOrder, DiscardInOrder,
                          ClosedInTurn, Overlapped
    <2>2. CASE capture.result # Null
      <3>1. capture.result \in Receipts
        BY <2>2 DEF CaptureTyped, Captures
      <3>2. observation' = [finalized |-> TRUE, available |-> TRUE,
                            truncated |-> capture.result.truncated,
                            incomplete |-> capture.result.incomplete,
                            openAtCutover |-> capture.result.openAtCutover]
        BY <1>3, <2>2 DEF Finalized, ResultFacts
      <3>3. observation' \in Observations
        BY <3>1, <3>2 DEF Observations, Receipts
      <3>4. CaptureTyped' /\ PublishedTruly'
        BY <1>1, <1>3, <2>2, <3>2, <3>3 DEF CaptureTyped, PublishedTruly
      <3> QED
        BY <1>1, <3>4 DEF BytesCounted, MarkerTells, SealInOrder, DiscardInOrder,
                          ClosedInTurn, Overlapped
    <2> QED
      BY <2>1, <2>2
  <1> QED
    BY <1>2, <1>3 DEF TerminalPublished

\* No step of the capture breaks what it keeps.
LEMMA CaptureStep == CaptureInv /\ [CaptureNext]_captureVars => CaptureInv'
  <1> SUFFICES ASSUME CaptureInv, [CaptureNext]_captureVars PROVE CaptureInv'
    OBVIOUS
  <1>1. CASE \E n \in Chunks : Accept(n)
    BY <1>1, AcceptKeeps
  <1>2. CASE Pumps \/ Marks \/ StreamFails
    BY <1>2, PumpWritesKeeps, LossesKeep DEF Pumps
  <1>3. CASE StreamEnds \/ Freeze \/ Discard
    BY <1>3, CallsKeep, DiscardKeeps
  <1>4. CASE Seals
    BY <1>4, SealBeginsKeeps, SealComposesKeeps, ReceiptRenamedKeeps, DirectorySyncedKeeps
    DEF Seals
  <1>5. CASE Discards \/ TerminalPublished
    BY <1>5, DiscardDrainedKeeps, DiscardClosesKeeps, TerminalPublishedKeeps
    DEF Discards
  <1>6. CASE UNCHANGED captureVars
    BY <1>6 DEF captureVars, CaptureInv, CaptureTyped, BytesCounted, MarkerTells,
                SealInOrder, DiscardInOrder, ClosedInTurn, Overlapped, PublishedTruly
  <1> QED
    BY <1>1, <1>2, <1>3, <1>4, <1>5, <1>6 DEF CaptureNext

\* A receipt on disk agrees with the raw file and the marker.
LEMMA CoherentOnDisk == CaptureInv /\ files.closed # Null => ClosureCoherent
  <1> SUFFICES ASSUME CaptureInv, files.closed # Null PROVE ClosureCoherent
    OBVIOUS
  <1> USE DEF CaptureInv
  <1>1. /\ TrueReceipt(files.closed, capture, stream) /\ files.raw # Null
        /\ files.closed \in Receipts
    BY DEF SealInOrder, CaptureTyped, Artifacts
  <1> QED
    BY <1>1 DEF ClosureCoherent, TrueReceipt, BytesCounted, MarkerTells, CaptureTyped,
                Artifacts, Captures, Receipts

-----------------------------------------------------------------------------
(* What the capture keeps *)

\* What the invariant says of receipts, publications and the descriptor.
LEMMA CaptureTellsTheTruth ==
    CaptureInv => ReceiptIsTrue /\ DurableBeforePublished /\ ClosedOnce
  <1> SUFFICES ASSUME CaptureInv
               PROVE  ReceiptIsTrue /\ DurableBeforePublished /\ ClosedOnce
    OBVIOUS
  <1> USE CaptureConstants, NullIsNoValue DEF CaptureInv
  <1>1. ReceiptIsTrue
    <2> SUFFICES ASSUME files.closed # Null PROVE ReceiptIsTrue
      BY DEF ReceiptIsTrue
    <2>1. TrueReceipt(files.closed, capture, stream) /\ files.raw # Null
          /\ files.closed \in Receipts
      BY DEF SealInOrder, CaptureTyped, Artifacts
    <2>2. files.raw = files.closed.retained
      BY <2>1 DEF TrueReceipt, BytesCounted
    <2>3. files.closed.truncated => files.marker /\ capture.drained > files.closed.retained
      BY <2>1 DEF TrueReceipt, BytesCounted, MarkerTells, CaptureTyped, Captures
    <2>4. files.closed.reason = "eof" => stream.ended
      BY <2>1 DEF TrueReceipt, CaptureTyped
    <2> QED
      BY <2>1, <2>2, <2>3, <2>4 DEF ReceiptIsTrue, TrueReceipt
  <1>2. DurableBeforePublished
    <2> SUFFICES ASSUME ~Overlapped, observation.available = TRUE
                 PROVE  AvailableIsReadable
      BY DEF DurableBeforePublished, AvailableIsReadable
    <2>1. "freeze" \in terminal /\ capture.result # Null
      BY DEF PublishedTruly
    <2>2. capture.discard = "none"
      BY <2>1 DEF Overlapped, DiscardInOrder, CaptureTyped
    <2>3. files.closed = capture.result /\ files.raw # Null
      BY <2>1, <2>2 DEF SealInOrder
    <2>4. ClosureCoherent
      BY <2>1, <2>3, CoherentOnDisk
    <2> QED
      BY <2>3, <2>4 DEF AvailableIsReadable, PublishedTruly
  <1>3. ClosedOnce
    BY DEF ClosedOnce, ClosedInTurn
  <1> QED
    BY <1>1, <1>2, <1>3

\* Of any step of the capture: bytes and the marker only come, a receipt that is there
\* or a result keeps the counts as they are, and what is published stays.
CaptureAdvances ==
    /\ capture.written <= capture'.written
    /\ files.marker => files'.marker
    /\ capture.seal \in {"directory", "sealed"} =>
           /\ capture'.seal \in {"directory", "sealed"}
           /\ capture'.written = capture.written /\ capture'.drained = capture.drained
           /\ files'.raw \in {files.raw, Null}
           /\ \A r : TrueReceipt(r, capture, stream) => TrueReceipt(r, capture', stream')
           /\ capture.seal = "directory" =>
                  \/ capture'.seal = "directory" /\ capture'.candidate = capture.candidate
                  \/ /\ capture'.seal = "sealed"
                     /\ capture'.result \in {capture.candidate, Null}
           /\ capture.seal = "sealed" =>
                  capture'.seal = "sealed" /\ capture'.result = capture.result
    /\ observation.finalized => observation' = observation
    /\ Overlapped => Overlapped'


\* A step that counts and seals nothing.
LEMMA StillAdvances ==
    ASSUME CaptureInv,
           capture'.written = capture.written, capture'.drained = capture.drained,
           capture'.overflow = capture.overflow, capture'.candidate = capture.candidate,
           capture'.seal = capture.seal \/ capture.seal = "none",
           capture'.result = capture.result, files'.marker = files.marker,
           files'.raw \in {files.raw, Null}, stream.ended => stream'.ended,
           observation' = observation \/ ~observation.finalized,
           Overlapped => Overlapped'
    PROVE  CaptureAdvances
  <1>1. \A r : TrueReceipt(r, capture, stream) => TrueReceipt(r, capture', stream')
    BY ReceiptsStayTrue
  <1>2. capture.written <= capture'.written
    BY DEF CaptureInv, CaptureTyped, Captures
  <1> QED
    BY <1>1, <1>2 DEF CaptureAdvances

\* Of a capture that is not frozen, a step keeps the bytes and the marker.
LEMMA OpenAdvances ==
    ASSUME capture.seal \notin {"directory", "sealed"},
           capture.written <= capture'.written, files.marker => files'.marker,
           UNCHANGED <<terminal, observation>>
    PROVE  CaptureAdvances
  BY DEF CaptureAdvances, Overlapped

\* No step of the capture takes anything back.
LEMMA CaptureOnlyAdvances ==
    ASSUME CaptureInv, [CaptureNext]_captureVars
    PROVE  CaptureAdvances
  <1> USE CaptureConstants, NullIsNoValue DEF CaptureInv
  <1>1. ASSUME NEW n \in Chunks, Accept(n)
        PROVE  CaptureAdvances
    <2>1. capture.seal \notin {"directory", "sealed"}
      BY <1>1 DEF Accept, SealInOrder
    <2>2. capture'.written = capture.written
      BY <1>1 DEF Accept, Admitted, CaptureTyped, Captures
    <2>3. files.marker => files'.marker
      BY <1>1 DEF Accept, CaptureTyped, Artifacts
    <2> QED
      BY <1>1, <2>1, <2>2, <2>3, OpenAdvances DEF Accept, CaptureTyped, Captures
  <1>2. CASE PumpWrites
    <2>1. capture.seal \notin {"directory", "sealed"}
      BY <1>2 DEF PumpWrites, SealInOrder, Drained
    <2>2. PICK n \in 1..(capture.admitted - capture.written) :
              /\ capture' = [[capture EXCEPT !.written = @ + n] EXCEPT
                    !.pump = IF [capture EXCEPT !.written = @ + n].written
                                    < [capture EXCEPT !.written = @ + n].admitted
                                /\ ~[capture EXCEPT !.written = @ + n].captureLoss
                             THEN @ ELSE "idle"]
              /\ files' = [files EXCEPT !.raw = @ + n]
      BY <1>2 DEF PumpWrites
    <2>3. capture.written <= capture'.written /\ files'.marker = files.marker
      BY <2>2 DEF CaptureTyped, Captures, Artifacts
    <2> QED
      BY <1>2, <2>1, <2>3, OpenAdvances DEF PumpWrites
  <1>3. CASE PumpFails \/ Marks \/ StreamFails
    <2>1. /\ capture'.written = capture.written /\ capture'.drained = capture.drained
          /\ capture'.overflow = capture.overflow
          /\ capture'.candidate = capture.candidate
          /\ capture'.seal = capture.seal /\ capture'.result = capture.result
      <3>1. CASE PumpFails
        BY <3>1 DEF PumpFails, CaptureTyped, Captures
      <3>2. CASE MarkerSynced
        BY <3>2 DEF MarkerSynced, CaptureTyped, Captures
      <3>3. CASE MarkerFails
        BY <3>3 DEF MarkerFails, CaptureTyped, Captures
      <3>4. CASE StreamFails
        BY <3>4 DEF StreamFails, CaptureTyped, Captures
      <3> QED
        BY <1>3, <3>1, <3>2, <3>3, <3>4 DEF Marks
    <2>2. files' = files /\ UNCHANGED <<terminal, observation>>
          /\ (stream.ended => stream'.ended)
      BY <1>3 DEF PumpFails, Marks, MarkerSynced, MarkerFails, StreamFails, CaptureTyped
    <2> QED
      BY <2>1, <2>2, StillAdvances DEF Overlapped
  <1>4. CASE StreamEnds \/ Freeze \/ Discard
    <2>1. /\ capture'.written = capture.written /\ capture'.drained = capture.drained
          /\ capture'.overflow = capture.overflow
          /\ capture'.candidate = capture.candidate
          /\ capture'.seal = capture.seal \/ capture.seal = "none"
          /\ capture'.result = capture.result
      <3>1. CASE StreamEnds
        BY <3>1 DEF StreamEnds, SealCalled, CaptureTyped, Captures
      <3>2. CASE Freeze
        <4>1. PICK lost :
                  capture' = SealCalled([capture EXCEPT !.captureLoss = lost], "cutover")
          BY <3>2 DEF Freeze
        <4>2. CASE capture.seal = "none"
          BY <4>1, <4>2 DEF SealCalled, CaptureTyped, Captures
        <4>3. CASE capture.seal # "none"
          BY <4>1, <4>3 DEF SealCalled, CaptureTyped, Captures
        <4> QED
          BY <4>2, <4>3
      <3>3. CASE Discard
        BY <3>3 DEF Discard, CaptureTyped, Captures
      <3> QED
        BY <1>4, <3>1, <3>2, <3>3
    <2>2. files' = files /\ UNCHANGED observation
          /\ (stream.ended => stream'.ended)
      BY <1>4 DEF StreamEnds, Freeze, Discard, CaptureTyped
    <2>3. Overlapped => Overlapped'
      BY <1>4 DEF StreamEnds, Freeze, Discard, Overlapped
    <2> QED
      BY <2>1, <2>2, <2>3, StillAdvances
  <1>5. CASE SealDrained \/ SealSyncs \/ SealCloses \/ SealComposes \/ ReceiptRenamed
    <2>1. capture.seal \notin {"directory", "sealed"}
      BY <1>5 DEF SealDrained, SealSyncs, SealCloses, SealComposes, ReceiptRenamed
    <2>2. capture'.written = capture.written
      <3>1. CASE SealDrained
        BY <3>1 DEF SealDrained, CaptureTyped, Captures
      <3>2. CASE SealSyncs
        BY <3>2 DEF SealSyncs, CaptureTyped, Captures
      <3>3. CASE SealCloses
        BY <3>3 DEF SealCloses, CaptureTyped, Captures
      <3>4. CASE SealComposes \/ ReceiptRenamed
        BY <3>4 DEF SealComposes, ReceiptRenamed, Sealed, CaptureTyped, Captures
      <3> QED
        BY <1>5, <3>1, <3>2, <3>3, <3>4
    <2>3. files'.marker = files.marker
      BY <1>5 DEF SealDrained, SealSyncs, SealCloses, SealComposes, ReceiptRenamed,
                  CaptureTyped, Artifacts
    <2>4. UNCHANGED <<terminal, observation>>
      BY <1>5 DEF SealDrained, SealSyncs, SealCloses, SealComposes, ReceiptRenamed
    <2> QED
      BY <2>1, <2>2, <2>3, <2>4, OpenAdvances DEF CaptureTyped, Captures
  <1>6. CASE DirectorySynced
    <2>1. /\ capture.seal = "directory" /\ UNCHANGED <<stream, terminal, observation>>
          /\ files'.marker = files.marker /\ files'.raw = files.raw
      BY <1>6 DEF DirectorySynced, CaptureTyped, Artifacts
    <2>2. /\ capture'.written = capture.written /\ capture'.drained = capture.drained
          /\ capture'.overflow = capture.overflow /\ capture'.seal = "sealed"
          /\ capture'.result \in {capture.candidate, Null}
      <3>1. PICK result \in {capture.candidate, Null} : capture' = Sealed(capture, result)
        BY <1>6 DEF DirectorySynced
      <3> QED
        BY <3>1 DEF Sealed, CaptureTyped, Captures
    <2>3. \A r : TrueReceipt(r, capture, stream) => TrueReceipt(r, capture', stream')
      BY <2>1, <2>2, ReceiptsStayTrue
    <2> QED
      BY <2>1, <2>2, <2>3 DEF CaptureAdvances, Overlapped, CaptureTyped, Captures
  <1>7. CASE Discards
    <2>1. /\ capture'.written = capture.written /\ capture'.drained = capture.drained
          /\ capture'.overflow = capture.overflow
          /\ capture'.candidate = capture.candidate
          /\ capture'.seal = capture.seal /\ capture'.result = capture.result
      <3>1. CASE DiscardDrained
        BY <3>1 DEF DiscardDrained, DiscardClosing, CaptureTyped, Captures
      <3>2. CASE DiscardCloses
        BY <3>2 DEF DiscardCloses, CaptureTyped, Captures
      <3> QED
        BY <1>7, <3>1, <3>2 DEF Discards
    <2>2. files'.marker = files.marker /\ files'.raw \in {files.raw, Null}
      BY <1>7
      DEF Discards, DiscardDrained, DiscardCloses, Staging, CaptureTyped, Artifacts
    <2>3. UNCHANGED <<stream, terminal, observation>>
      BY <1>7 DEF Discards, DiscardDrained, DiscardCloses
    <2> QED
      BY <2>1, <2>2, <2>3, StillAdvances DEF Overlapped
  <1>8. CASE TerminalPublished
    BY <1>8, StillAdvances DEF TerminalPublished, Overlapped
  <1>9. CASE UNCHANGED captureVars
    BY <1>9, StillAdvances DEF captureVars, Overlapped
  <1> QED
    BY <1>1, <1>2, <1>3, <1>4, <1>5, <1>6, <1>7, <1>8, <1>9
    DEF CaptureNext, Pumps, Seals

\* Once a receipt is visible, the raw file has its final length.
LEMMA VisibleReceiptIsFinal ==
    CaptureInv /\ [CaptureNext]_captureVars =>
        (files.closed # Null => files'.raw \in {files.raw, Null})
  BY CaptureOnlyAdvances DEF CaptureAdvances, CaptureInv, SealInOrder

-----------------------------------------------------------------------------
(* The reader *)

\* A new reader has seen nothing.
LEMMA ReaderStarts == ReaderInit => OutputInv
  <1> SUFFICES ASSUME ReaderInit PROVE OutputInv
    OBVIOUS
  <1> USE CaptureConstants, NullIsNoValue, NullIsNoError
  <1>1. CaptureInv
    BY CaptureStarts DEF ReaderInit
  <1>2. observation \in Observations /\ capture.written \in 0..Limit
    BY <1>1 DEF CaptureInv, CaptureTyped, Captures
  <1>3. ReaderTyped
    <2>1. reader \in Readers
      BY <1>2 DEF ReaderInit, NewReader, Readers, ReaderSteps
    <2>2. page \in Pages
      BY DEF ReaderInit, NoPage, Pages
    <2> QED
      BY <2>1, <2>2 DEF ReaderInit, ReaderTyped
  <1>4. SnapshotHolds
    BY <1>2 DEF ReaderInit, NewReader, SnapshotHolds
  <1>5. PagesHold
    BY DEF ReaderInit, NoPage, PagesHold
  <1> QED
    BY <1>1, <1>3, <1>4, <1>5 DEF OutputInv

\* An observation after the publication, of an available stream, was made of a capture
\* that is sealed with a receipt.
LEMMA FinalObservation ==
    ASSUME OutputInv, reader.seen.finalized, reader.seen.available # FALSE
    PROVE  /\ reader.seen = observation /\ observation.available = TRUE
           /\ capture.seal = "sealed" /\ capture.result # Null
  <1> USE NullIsNoValue DEF OutputInv, CaptureInv
  <1>1. reader.seen = observation
    BY DEF SnapshotHolds, Unpublished
  <1>2. observation.available = TRUE
    BY <1>1 DEF PublishedTruly
  <1> QED
    BY <1>1, <1>2 DEF PublishedTruly, SealInOrder

\* What the reader has loaded and answered stays true while the writer goes on.
LEMMA WriterKeepsReader ==
    ASSUME OutputInv, [CaptureNext]_captureVars, UNCHANGED readerVars
    PROVE  OutputInv'
  <1> USE NullIsNoValue
  <1>1. CaptureInv' /\ CaptureAdvances
    BY CaptureStep, CaptureOnlyAdvances DEF OutputInv
  <1>2. ReaderTyped'
    BY DEF OutputInv, ReaderTyped, readerVars
  <1>3. reader' = reader /\ page' = page /\ ended' = ended
    BY DEF readerVars
  <1>4. /\ capture.written \in Nat /\ capture'.written \in Nat
        /\ reader.offset \in Nat /\ reader.size \in Nat
    BY <1>1 DEF OutputInv, CaptureInv, CaptureTyped, Captures, ReaderTyped, Readers
  <1>5. reader.seen.finalized /\ reader.step # "idle" => Frozen
    BY FinalObservation DEF OutputInv, SnapshotHolds, Frozen
  <1>6. reader.receipt # Null => SoleReceipt(reader.receipt)'
    <2> SUFFICES ASSUME reader.receipt # Null PROVE SoleReceipt(reader.receipt)'
      OBVIOUS
    <2>1. SoleReceipt(reader.receipt)
      BY DEF OutputInv, SnapshotHolds
    <2>2. CASE capture.seal = "directory"
      BY <1>1, <1>3, <2>1, <2>2 DEF SoleReceipt, CaptureAdvances
    <2>3. CASE capture.seal = "sealed"
      BY <1>1, <1>3, <2>1, <2>3 DEF SoleReceipt, CaptureAdvances
    <2> QED
      BY <2>1, <2>2, <2>3 DEF SoleReceipt
  <1>7. SnapshotHolds'
    <2>1. reader.seen \in {observation', Unpublished}
      BY <1>1 DEF OutputInv, CaptureInv, SnapshotHolds, PublishedTruly, CaptureAdvances
    <2>2. capture.written <= capture'.written /\ (files.marker => files'.marker)
          /\ (Overlapped => Overlapped') /\ (Frozen => capture'.written = capture.written)
      BY <1>1 DEF CaptureAdvances, Frozen
    <2>3. reader.offset <= capture'.written
      BY <1>4, <2>2 DEF OutputInv, SnapshotHolds
    <2>4. reader.step \notin {"idle", "raw"} =>
              /\ reader.size <= capture'.written /\ reader.offset <= reader.size
              /\ reader.seen.finalized => reader.size = capture'.written
      BY <1>4, <1>5, <2>2 DEF OutputInv, SnapshotHolds
    <2>5. (reader.marker => files'.marker) /\ SnapshotHolds
      BY <2>2 DEF OutputInv, SnapshotHolds
    <2>6. ~Overlapped' => ~Overlapped
      BY <2>2
    <2> QED
      BY <1>3, <1>6, <2>1, <2>3, <2>4, <2>5, <2>6 DEF SnapshotHolds
  <1>8. PagesHold'
    <2>1. Frozen => Frozen' /\ capture'.written = capture.written
                    /\ capture'.drained = capture.drained
      BY <1>1 DEF CaptureAdvances, Frozen
    <2> QED
      BY <1>3, <2>1 DEF OutputInv, PagesHold
  <1> QED
    BY <1>1, <1>2, <1>7, <1>8 DEF OutputInv

\* An answer that is typed, and whose end is the end, is kept for good.
LEMMA AnswerKeeps ==
    ASSUME OutputInv, NEW p \in Pages, Answer(p), UNCHANGED captureVars,
           p.next <= capture.written,
           p.available /\ ~p.canGrow =>
               p.retained >= Limit \/ (Frozen /\ p.retained = capture.written),
           /\ p.available /\ ~p.canGrow
           /\ ~p.truncated /\ ~p.incomplete /\ p.retained < Limit
           => Frozen /\ p.retained = capture.drained
    PROVE  OutputInv'
  <1> USE NullIsNoValue
  <1>1. CaptureInv'
    BY CaptureStep DEF OutputInv
  <1>2. /\ capture' = capture /\ files' = files /\ terminal' = terminal
        /\ observation' = observation /\ stream' = stream /\ page' = p
    BY DEF captureVars, Answer
  <1>3. /\ reader'.step = "idle" /\ reader'.seen = reader.seen
        /\ reader'.offset = p.next
        /\ reader'.marker = FALSE /\ reader'.receipt = Null
    BY DEF Answer, OutputInv, ReaderTyped, Readers
  <1>4. ReaderTyped'
    <2>1. p.next \in Nat /\ p.retained \in Nat
      BY DEF Pages
    <2>2. reader' \in Readers
      BY <2>1 DEF Answer, OutputInv, ReaderTyped, Readers, ReaderSteps
    <2>3. ended' \in Nat \cup {Null}
      BY <2>1 DEF Answer, OutputInv, ReaderTyped
    <2> QED
      BY <1>2, <2>2, <2>3 DEF ReaderTyped
  <1>5. SnapshotHolds'
    BY <1>2, <1>3 DEF OutputInv, SnapshotHolds
  <1>6. PagesHold'
    <2>1. ended' # Null => ended' >= Limit \/ (Frozen /\ ended' = capture.written)
      BY DEF Answer, OutputInv, PagesHold
    <2> QED
      BY <1>2, <2>1 DEF PagesHold, Frozen
  <1> QED
    BY <1>1, <1>4, <1>5, <1>6 DEF OutputInv

\* A refusal, or an answer without a stream, says nothing of its end.
LEMMA FailureKeeps ==
    ASSUME OutputInv, NEW error \in Errors, Fails(error), UNCHANGED captureVars
    PROVE  OutputInv' /\ page'.error = error
  <1> DEFINE p == [NoPage EXCEPT !.error = error]
  <1>1. /\ p \in Pages /\ p.next = 0 /\ p.available = FALSE /\ p.error = error
    BY DEF NoPage, Pages
  <1>2. Answer(p) /\ page' = p
    BY DEF Fails, Answer
  <1>3. capture.written >= 0
    BY CaptureConstants DEF OutputInv, CaptureInv, CaptureTyped, Captures
  <1> HIDE DEF p
  <1> QED
    BY <1>1, <1>2, <1>3, AnswerKeeps


\* The reader's steps before the verdict: each loads what is there.
LEMMA LoadingKeeps ==
    ASSUME OutputInv, UNCHANGED <<captureVars, page, ended>>, reader' \in Readers,
           SnapshotHolds'
    PROVE  OutputInv'
  <1>1. CaptureInv'
    BY CaptureStep DEF OutputInv
  <1>2. ReaderTyped' /\ PagesHold'
    BY DEF OutputInv, ReaderTyped, PagesHold, Frozen, captureVars
  <1> QED
    BY <1>1, <1>2 DEF OutputInv

\* A stream that the store does not call unavailable is read.
LEMMA ObservesKeeps ==
    ASSUME OutputInv, ReaderObserves
    PROVE  OutputInv'
  <1> USE NullIsNoValue
  <1>1. CASE observation.available # FALSE
    <2>1. /\ reader' = [reader EXCEPT !.step = "raw", !.seen = observation]
          /\ UNCHANGED <<captureVars, page, ended>> /\ reader.step = "idle"
      BY <1>1 DEF ReaderObserves
    <2>2. reader' \in Readers /\ observation \in Observations
      BY <2>1 DEF OutputInv, CaptureInv, CaptureTyped, ReaderTyped, Readers, ReaderSteps
    <2>3. /\ reader'.step = "raw" /\ reader'.seen = observation
          /\ reader'.offset = reader.offset /\ reader'.marker = reader.marker
          /\ reader'.receipt = reader.receipt
      BY <2>1 DEF OutputInv, ReaderTyped, Readers
    <2>4. reader.receipt = Null
      BY <2>1 DEF OutputInv, SnapshotHolds
    <2>5. SnapshotHolds'
      BY <1>1, <2>1, <2>3, <2>4 DEF OutputInv, SnapshotHolds, captureVars
    <2> QED
      BY <2>1, <2>2, <2>5, LoadingKeeps
  <1>2. CASE observation.available = FALSE /\ reader.offset > 0
    BY <1>2, FailureKeeps DEF ReaderObserves, Errors
  <1>3. CASE /\ observation.available = FALSE
             /\ Answer([NoPage EXCEPT !.canGrow = FALSE,
                                      !.incomplete = observation.incomplete])
    <2>1. PICK p \in Pages : /\ p = [NoPage EXCEPT !.canGrow = FALSE,
                                                   !.incomplete = observation.incomplete]
                             /\ p.available = FALSE /\ p.next = 0
      <3>1. observation.incomplete \in BOOLEAN
        BY DEF OutputInv, CaptureInv, CaptureTyped, Observations
      <3> QED
        <4>1. PICK b \in BOOLEAN : b = observation.incomplete
          BY <3>1
        <4>2. [NoPage EXCEPT !.canGrow = FALSE, !.incomplete = b] \in Pages
          BY DEF NoPage, Pages
        <4> QED
          BY <4>1, <4>2 DEF NoPage
    <2>2. capture.written >= 0 /\ UNCHANGED captureVars
      BY CaptureConstants
      DEF ReaderObserves, OutputInv, CaptureInv, CaptureTyped, Captures
    <2> QED
      BY <1>3, <2>1, <2>2, AnswerKeeps
  <1> QED
    BY <1>1, <1>2, <1>3 DEF ReaderObserves

\* The length of the raw file is what was written by then, and all of it after the
\* publication; an offset of an earlier page is not beyond it.
LEMMA OpensRawKeeps ==
    ASSUME OutputInv, ReaderOpensRaw
    PROVE  /\ OutputInv'
           /\ reader'.step = "idle" => page'.error = "CAPTURE_UNAVAILABLE"
  <1> USE NullIsNoValue
  <1>1. UNCHANGED captureVars /\ reader.step = "raw"
    BY DEF ReaderOpensRaw
  <1>2. CASE files.raw = Null
    BY <1>1, <1>2, FailureKeeps DEF ReaderOpensRaw, Errors
  <1>3. CASE files.raw # Null
    <2>1. files.raw = capture.written /\ files.raw \in 0..Limit
          /\ reader.offset \in Nat /\ reader.offset <= files.raw
      BY <1>3 DEF OutputInv, CaptureInv, BytesCounted, CaptureTyped, Artifacts,
                  SnapshotHolds, ReaderTyped, Readers
    <2>2. /\ reader' = [reader EXCEPT !.step = "marker", !.size = files.raw]
          /\ UNCHANGED <<page, ended>>
      BY CaptureConstants, <1>3, <2>1 DEF ReaderOpensRaw
    <2>3. reader' \in Readers
      <3>1. PICK n \in Nat : n = files.raw
        BY CaptureConstants, <2>1
      <3>2. [reader EXCEPT !.step = "marker", !.size = n] \in Readers
        BY DEF OutputInv, ReaderTyped, Readers, ReaderSteps
      <3> QED
        BY <2>2, <3>1, <3>2
    <2>4. /\ reader'.step = "marker" /\ reader'.seen = reader.seen
          /\ reader'.offset = reader.offset /\ reader'.marker = reader.marker
          /\ reader'.receipt = reader.receipt /\ reader'.size = files.raw
      BY <2>2 DEF OutputInv, ReaderTyped, Readers
    <2>5. reader.receipt = Null
      BY <1>1 DEF OutputInv, SnapshotHolds
    <2>6. SnapshotHolds'
      <3>1. /\ capture' = capture /\ files' = files /\ terminal' = terminal
            /\ observation' = observation
        BY <1>1 DEF captureVars
      <3>2. /\ reader'.seen \in {observation', Unpublished}
            /\ reader'.seen.available # FALSE /\ (reader'.marker => files'.marker)
        BY <1>1, <2>4, <3>1 DEF OutputInv, SnapshotHolds
      <3>3. /\ reader'.size = capture'.written /\ reader'.size <= capture'.written
            /\ reader'.offset <= reader'.size /\ reader'.offset <= capture'.written
        BY CaptureConstants, <2>1, <2>4, <3>1
      <3> QED
        BY <2>4, <2>5, <3>2, <3>3 DEF SnapshotHolds
    <2> QED
      BY <1>1, <2>2, <2>3, <2>4, <2>6, LoadingKeeps
  <1> QED
    BY <1>2, <1>3

\* The marker that is loaded is there, and a receipt is looked for. After the
\* publication, if no discard ran beside the freeze, there is one.
LEMMA SidecarsKeep ==
    ASSUME OutputInv, ReaderLoadsMarker \/ ReaderFindsReceipt \/ ReaderReloadsMarker
    PROVE  OutputInv' /\ reader'.step # "idle"
  <1> USE NullIsNoValue
  <1>1. UNCHANGED <<captureVars, page, ended>>
    BY DEF ReaderLoadsMarker, ReaderFindsReceipt, ReaderReloadsMarker
  <1>2. CASE ReaderLoadsMarker
    <2>1. files.marker \in BOOLEAN
      BY DEF OutputInv, CaptureInv, CaptureTyped, Artifacts
    <2>2. reader' \in Readers
      BY <1>2, <2>1 DEF ReaderLoadsMarker, OutputInv, ReaderTyped, Readers, ReaderSteps
    <2>3. /\ reader.step = "marker" /\ reader'.step = "closed"
          /\ reader'.seen = reader.seen
          /\ reader'.offset = reader.offset /\ reader'.marker = files.marker
          /\ reader'.receipt = reader.receipt /\ reader'.size = reader.size
      BY <1>2 DEF ReaderLoadsMarker, OutputInv, ReaderTyped, Readers
    <2>4. SnapshotHolds'
      BY <1>1, <2>3 DEF OutputInv, SnapshotHolds, captureVars
    <2> QED
      BY <1>1, <2>2, <2>3, <2>4, LoadingKeeps
  <1>3. CASE ReaderFindsReceipt
    <2>1. reader' \in Readers
      BY <1>3
      DEF ReaderFindsReceipt, Advance, OutputInv, ReaderTyped, Readers, ReaderSteps
    <2>2. /\ reader.step = "closed" /\ reader'.seen = reader.seen
          /\ reader'.step = IF files.closed = Null THEN "verdict" ELSE "receipt"
          /\ reader'.offset = reader.offset /\ reader'.marker = reader.marker
          /\ reader'.receipt = reader.receipt /\ reader'.size = reader.size
      BY <1>3 DEF ReaderFindsReceipt, Advance, OutputInv, ReaderTyped, Readers
    <2>3. reader.receipt = Null /\ reader.seen.available # FALSE
      BY <2>2 DEF OutputInv, SnapshotHolds
    <2>4. ~Overlapped /\ reader.seen.finalized => files.closed # Null
      BY <2>3, FinalObservation, CaptureTellsTheTruth
      DEF OutputInv, DurableBeforePublished, AvailableIsReadable, ClosureCoherent
    <2>5. SnapshotHolds'
      BY <1>1, <2>2, <2>3, <2>4 DEF OutputInv, SnapshotHolds, captureVars, Overlapped
    <2> QED
      BY <1>1, <2>1, <2>2, <2>5, LoadingKeeps
  <1>4. CASE ReaderReloadsMarker
    <2>1. files.marker \in BOOLEAN
      BY DEF OutputInv, CaptureInv, CaptureTyped, Artifacts
    <2>2. reader' \in Readers
      BY <1>4, <2>1
      DEF ReaderReloadsMarker, OutputInv, ReaderTyped, Readers, ReaderSteps
    <2>3. /\ reader.step = "again" /\ reader'.step = "verdict"
          /\ reader'.seen = reader.seen
          /\ reader'.offset = reader.offset /\ reader'.marker = files.marker
          /\ reader'.receipt = reader.receipt /\ reader'.size = reader.size
      BY <1>4 DEF ReaderReloadsMarker, OutputInv, ReaderTyped, Readers
    <2>4. reader.receipt # Null /\ SoleReceipt(reader.receipt)
      BY <2>3 DEF OutputInv, SnapshotHolds
    <2>5. reader.receipt.truncated => files.marker
      BY <2>4 DEF SoleReceipt, TrueReceipt, OutputInv, CaptureInv, MarkerTells
    <2>6. SoleReceipt(reader.receipt)'
      BY <1>1, <2>3, <2>4 DEF SoleReceipt, TrueReceipt, captureVars
    <2>7. SnapshotHolds'
      BY <1>1, <2>3, <2>4, <2>5, <2>6 DEF OutputInv, SnapshotHolds, captureVars
    <2> QED
      BY <1>1, <2>2, <2>3, <2>7, LoadingKeeps
  <1> QED
    BY <1>2, <1>3, <1>4


\* An observation from before the publication permits growth.
LEMMA EarlyPermitsGrowth ==
    ASSUME OutputInv, ~reader.seen.finalized
    PROVE  PermitsGrowth(reader.seen)
  <1>1. reader.seen = Unpublished
    BY DEF OutputInv, SnapshotHolds, CaptureInv, PublishedTruly
  <1>2. Null # FALSE
    BY NullIsNoValue
  <1>3. /\ ~Unpublished.finalized /\ Unpublished.available = Null
        /\ ~Unpublished.truncated /\ ~Unpublished.incomplete
        /\ ~Unpublished.openAtCutover
    BY DEF Unpublished
  <1> QED
    BY <1>1, <1>2, <1>3 DEF PermitsGrowth

\* A receipt on disk is no shorter than the snapshot, and after the publication no
\* longer.
LEMMA ReceiptIsAccepted ==
    ASSUME OutputInv, reader.step = "receipt", files.closed # Null
    PROVE  ~ReceiptRejected(files.closed)
  <1> USE NullIsNoValue
  <1>1. /\ TrueReceipt(files.closed, capture, stream) /\ files.closed \in Receipts
    BY DEF OutputInv, CaptureInv, SealInOrder, CaptureTyped, Artifacts
  <1>2. /\ files.closed.retained = capture.written /\ Parses(files.closed)
        /\ files.closed.retained \in Nat /\ reader.size \in Nat
    BY CaptureConstants, <1>1
    DEF TrueReceipt, Receipts, OutputInv, ReaderTyped, Readers
  <1>3. /\ reader.size <= capture.written
        /\ reader.seen.finalized => reader.size = capture.written
        /\ reader.seen.available # FALSE
        /\ reader.seen \in {observation, Unpublished}
    BY DEF OutputInv, SnapshotHolds
  <1>4. ~reader.seen.finalized => PermitsGrowth(reader.seen)
    BY EarlyPermitsGrowth
  <1> QED
    BY <1>2, <1>3, <1>4 DEF ReceiptRejected, Ahead

\* A receipt that is loaded is the only one there ever is, and of the snapshot's
\* length; one that is missed was withdrawn.
LEMMA LoadsReceiptKeeps ==
    ASSUME OutputInv, ReaderLoadsReceipt
    PROVE  /\ OutputInv'
           /\ reader'.step = "idle" => page'.error = "CAPTURE_CORRUPT" /\ files.closed = Null
  <1> USE NullIsNoValue
  <1>1. UNCHANGED captureVars /\ reader.step = "receipt"
    BY DEF ReaderLoadsReceipt
  <1>2. CASE files.closed = Null
    BY <1>1, <1>2, FailureKeeps DEF ReaderLoadsReceipt, Errors
  <1>3. CASE files.closed # Null
    <2>1. PICK receipt \in Receipts : receipt = files.closed
      BY <1>3 DEF OutputInv, CaptureInv, CaptureTyped, Artifacts
    <2>2. ~ReceiptRejected(receipt) /\ receipt # Null
      BY <1>1, <1>3, <2>1, ReceiptIsAccepted
    <2>3. /\ TrueReceipt(receipt, capture, stream)
          /\ capture.seal = "directory" => capture.candidate = receipt
          /\ capture.seal = "sealed" => capture.result \in {receipt, Null}
          /\ capture.seal \in {"directory", "sealed"}
      <3>1. /\ TrueReceipt(receipt, capture, stream)
            /\ capture.seal \in {"directory", "sealed"}
            /\ capture.seal = "directory" => capture.candidate = receipt
        BY <1>3, <2>1 DEF OutputInv, CaptureInv, SealInOrder
      <3>2. capture.result # Null => capture.result = receipt
        BY <1>3, <2>1 DEF OutputInv, CaptureInv, SealInOrder
      <3> QED
        BY <3>1, <3>2
    <2>4. receipt.retained \in Nat /\ reader.size \in Nat
                                   /\ receipt.retained >= reader.size
      BY CaptureConstants, <2>2
      DEF ReceiptRejected, Receipts, OutputInv, ReaderTyped, Readers
    <2>5. reader.receipt = Null /\ SnapshotHolds /\ reader \in Readers
      BY <1>1 DEF OutputInv, SnapshotHolds, ReaderTyped
    <2>6. CASE Ahead(receipt)
      <3>1. reader' = [reader EXCEPT !.step = "verdict"] /\ UNCHANGED <<page, ended>>
        BY <2>1, <2>2, <2>6 DEF ReaderLoadsReceipt
      <3>2. /\ reader' \in Readers /\ reader'.step = "verdict"
            /\ reader'.seen = reader.seen
            /\ reader'.offset = reader.offset /\ reader'.marker = reader.marker
            /\ reader'.receipt = Null /\ reader'.size = reader.size
        BY <2>5, <3>1 DEF Readers, ReaderSteps
      <3>3. ~reader.seen.finalized
        BY <2>2, <2>6 DEF ReceiptRejected, PermitsGrowth
      <3>4. SnapshotHolds'
        BY <1>1, <2>5, <3>2, <3>3 DEF SnapshotHolds, captureVars
      <3> QED
        BY <1>1, <3>1, <3>2, <3>4, LoadingKeeps
    <2>7. CASE ~Ahead(receipt)
      <3>1. PICK step \in {"again", "verdict"} :
                /\ reader' = [[reader EXCEPT !.receipt = receipt] EXCEPT !.step = step]
                /\ step = IF ReloadsMarker(receipt) THEN "again" ELSE "verdict"
                /\ UNCHANGED <<page, ended>>
        BY <2>1, <2>2, <2>7 DEF ReaderLoadsReceipt
      <3>2. /\ reader' \in Readers /\ reader'.step = step /\ reader'.seen = reader.seen
            /\ reader'.offset = reader.offset /\ reader'.marker = reader.marker
            /\ reader'.receipt = receipt /\ reader'.size = reader.size
        BY <2>5, <3>1 DEF Readers, ReaderSteps
      <3>3. receipt.retained = reader.size
        BY <2>4, <2>7 DEF Ahead
      <3>4. SoleReceipt(receipt)'
        BY <1>1, <2>3 DEF SoleReceipt, captureVars
      <3>5. step = "verdict" /\ receipt.truncated => reader.marker
        BY <3>1 DEF ReloadsMarker
      <3>6. SnapshotHolds'
        BY <1>1, <2>2, <2>5, <3>1, <3>2, <3>3, <3>4, <3>5 DEF SnapshotHolds, captureVars
      <3> QED
        BY <1>1, <3>1, <3>2, <3>6, LoadingKeeps
    <2> QED
      BY <2>6, <2>7
  <1> QED
    BY <1>2, <1>3

\* A verdict without a false alarm: what was loaded is consistent.
LEMMA HonestIsNotCorrupt ==
    ASSUME OutputInv, reader.step = "verdict", ~Overlapped
    PROVE  ~Corrupt
  <1> USE NullIsNoValue
  <1>1. /\ reader \in Readers /\ SnapshotHolds /\ MarkerTells
    BY DEF OutputInv, ReaderTyped, CaptureInv
  <1>2. reader.seen.available # FALSE /\ reader.seen \in {observation, Unpublished}
    BY <1>1 DEF SnapshotHolds
  <1>3. ~reader.seen.finalized => PermitsGrowth(reader.seen)
    BY EarlyPermitsGrowth
  <1>4. CASE reader.receipt = Null
    <2>1. ~reader.seen.finalized
      BY <1>1, <1>4 DEF SnapshotHolds
    <2> QED
      BY <1>3, <1>4, <2>1 DEF Corrupt
  <1>5. CASE reader.receipt # Null
    <2>1. PICK r \in Receipts : r = reader.receipt
      BY <1>1, <1>5 DEF Readers
    <2>2. SoleReceipt(r) /\ r.retained = reader.size /\ (r.truncated => reader.marker)
      BY <1>1, <1>5, <2>1 DEF SnapshotHolds
    <2>3. reader.marker => r.truncated
      BY <1>1, <2>2 DEF SnapshotHolds, SoleReceipt, TrueReceipt, MarkerTells
    <2>4. ~MarkerIgnored
      <3>1. SUFFICES ASSUME reader.marker, reader.size < Limit PROVE PartialOverflow
        BY DEF MarkerIgnored
      <3>2. r.truncated /\ Parses(r) /\ r.retained # Limit
        BY CaptureConstants, <1>1, <2>2, <2>3, <3>1
        DEF SoleReceipt, TrueReceipt, Readers
      <3>3. r.reason = "capture_error"
        BY <3>2 DEF Parses
      <3> QED
        BY <1>5, <2>1, <3>2, <3>3 DEF PartialOverflow
    <2>5. r.truncated <=> MarkerObserved
      BY <2>2, <2>3, <2>4 DEF MarkerObserved
    <2>6. reader.seen.finalized =>
              MatchesFinalFacts(r, reader.seen) /\ (reader.seen.truncated => MarkerObserved)
      <3> SUFFICES ASSUME reader.seen.finalized
                   PROVE  MatchesFinalFacts(r, reader.seen)
                          /\ (reader.seen.truncated => MarkerObserved)
        OBVIOUS
      <3>1. /\ reader.seen = observation /\ observation.available = TRUE
            /\ capture.seal = "sealed" /\ capture.result # Null
        BY <1>2, FinalObservation
      <3>2. capture.result = r
        BY <2>2, <3>1 DEF SoleReceipt
      <3>3. /\ observation.truncated = r.truncated
            /\ observation.incomplete = r.incomplete
            /\ observation.openAtCutover = r.openAtCutover
        BY <3>1, <3>2 DEF OutputInv, CaptureInv, PublishedTruly
      <3> QED
        BY <2>5, <3>1, <3>3 DEF MatchesFinalFacts
    <2>7. r.truncated = MarkerObserved
      <3>1. r.truncated \in BOOLEAN /\ MarkerObserved \in BOOLEAN
        BY DEF Receipts, MarkerObserved
      <3> QED
        BY Zenon, <2>5, <3>1
    <2> QED
      BY <1>5, <2>1, <2>4, <2>6, <2>7 DEF Corrupt
  <1> QED
    BY <1>4, <1>5


\* What a page says of the end, and of completeness, is so.
LEMMA VerdictKeeps ==
    ASSUME OutputInv, ReaderAnswers
    PROVE  OutputInv' /\ (~Overlapped => page'.error = Null)
  <1> USE NullIsNoValue
  <1>1. UNCHANGED captureVars /\ reader.step = "verdict"
    BY DEF ReaderAnswers
  <1>2. CASE Corrupt
    BY <1>1, <1>2, FailureKeeps, HonestIsNotCorrupt DEF ReaderAnswers, Errors
  <1>3. CASE ~Corrupt
    <2>1. /\ reader \in Readers /\ SnapshotHolds /\ capture.written \in 0..Limit
          /\ reader.size \in Nat /\ reader.offset \in Nat
      BY DEF OutputInv, ReaderTyped, CaptureInv, CaptureTyped, Captures, Readers
    <2>2. /\ reader.size <= capture.written /\ reader.offset <= reader.size
          /\ reader.seen.available # FALSE
      BY <1>1, <2>1 DEF SnapshotHolds
    <2>3. PICK next \in reader.offset..reader.size,
               t \in BOOLEAN, i \in BOOLEAN, g \in BOOLEAN :
              /\ t = IF reader.receipt # Null THEN reader.receipt.truncated
                     ELSE MarkerObserved
              /\ i = IF reader.receipt # Null THEN reader.receipt.incomplete
                     ELSE reader.seen.incomplete
              /\ g = CanGrow
              /\ Answer([error |-> Null, available |-> TRUE, canGrow |-> g,
                         retained |-> reader.size, next |-> next,
                         truncated |-> t, incomplete |-> i])
      <3>1. PICK t \in BOOLEAN : t = IF reader.receipt # Null THEN reader.receipt.truncated
                                     ELSE MarkerObserved
        BY <2>1 DEF Readers, Receipts, MarkerObserved
      <3>2. PICK i \in BOOLEAN : i = IF reader.receipt # Null THEN reader.receipt.incomplete
                                     ELSE reader.seen.incomplete
        BY <2>1 DEF Readers, Receipts, Observations
      <3>3. PICK g \in BOOLEAN : g = CanGrow
        BY DEF CanGrow
      <3> QED
        BY <1>3, <3>1, <3>2, <3>3 DEF ReaderAnswers
    <2>4. PICK p \in Pages : /\ p = [error |-> Null, available |-> TRUE, canGrow |-> g,
                                     retained |-> reader.size, next |-> next,
                                     truncated |-> t, incomplete |-> i]
                             /\ p.error = Null
      <3>1. next \in Nat
        BY <2>1, <2>3
      <3>2. [error |-> Null, available |-> TRUE, canGrow |-> g, retained |-> reader.size,
             next |-> next, truncated |-> t, incomplete |-> i] \in Pages
        BY <2>1, <3>1 DEF Pages
      <3> QED
        BY <3>2
    <2>5. /\ p.next = next /\ p.available = TRUE /\ p.canGrow = g
          /\ p.retained = reader.size
          /\ p.truncated = t /\ p.incomplete = i /\ next <= capture.written
      BY <2>1, <2>2, <2>4
    <2>6. ~g /\ reader.size < Limit => reader.receipt # Null
      <3>1. reader.seen.finalized => reader.receipt # Null
        BY <1>3 DEF Corrupt
      <3> QED
        BY <2>3, <3>1, EarlyPermitsGrowth DEF CanGrow
    <2>7. reader.receipt # Null =>
              /\ Frozen /\ reader.size = capture.written
              /\ ~t /\ ~i => reader.size = capture.drained
      BY <2>1, <2>3 DEF SnapshotHolds, SoleReceipt, TrueReceipt, Frozen
    <2>8. Limit \in Nat
      BY CaptureConstants
    <2>9. OutputInv'
      BY <1>1, <2>1, <2>3, <2>4, <2>5, <2>6, <2>7, <2>8, AnswerKeeps
    <2> QED
      BY <2>3, <2>4, <2>9 DEF Answer
  <1> QED
    BY <1>2, <1>3

\* No step of the writer or the reader breaks what both keep.
LEMMA OutputStep == OutputInv /\ [ReaderNext]_outputVars => OutputInv'
  <1> SUFFICES ASSUME OutputInv, [ReaderNext]_outputVars PROVE OutputInv'
    OBVIOUS
  <1>1. CASE [CaptureNext]_captureVars /\ UNCHANGED readerVars
    BY <1>1, WriterKeepsReader
  <1>2. CASE Reads
    BY <1>2, ObservesKeeps, OpensRawKeeps, SidecarsKeep, LoadsReceiptKeeps, VerdictKeeps
    DEF Reads
  <1> QED
    BY <1>1, <1>2 DEF ReaderNext, outputVars

\* The invariant holds of every behaviour of a writer with a reader.
LEMMA OutputInvariant == ReaderSpec => []OutputInv
  BY ReaderStarts, OutputStep, PTL DEF ReaderSpec

-----------------------------------------------------------------------------
(* What holds in every state and of every step *)

\* The capture, its files, the store's observation, the reader and its pages are
\* typed in every reachable state.
THEOREM OutputTypeCorrect == ReaderSpec => [](CaptureTyped /\ ReaderTyped)
  <1>1. OutputInv => CaptureTyped /\ ReaderTyped
    BY DEF OutputInv, CaptureInv
  <1> QED
    BY <1>1, OutputInvariant, PTL

\* Whatever file operations fail, and in whatever order chunks, errors and the
\* runner's terminal paths come: a receipt on disk counts the raw file, says truly
\* whether output was dropped, and accounts for every byte unless it says otherwise.
THEOREM ReceiptIsAlwaysTrue == ReaderSpec => []ReceiptIsTrue
  <1>1. OutputInv => ReceiptIsTrue
    BY CaptureTellsTheTruth DEF OutputInv
  <1> QED
    BY <1>1, OutputInvariant, PTL

\* What the store calls available has a receipt on disk that says the same, where one
\* terminal path ends the capture.
THEOREM DurableIsAlwaysFirst == ReaderSpec => []DurableBeforePublished
  <1>1. OutputInv => DurableBeforePublished
    BY CaptureTellsTheTruth DEF OutputInv
  <1> QED
    BY <1>1, OutputInvariant, PTL

\* No descriptor is closed twice, where one terminal path ends the capture.
THEOREM ClosedAtMostOnce == ReaderSpec => []ClosedOnce
  <1>1. OutputInv => ClosedOnce
    BY CaptureTellsTheTruth DEF OutputInv
  <1> QED
    BY <1>1, OutputInvariant, PTL

\* Under a visible receipt the raw file does not grow.
THEOREM SealedAlwaysStaysSealed == ReaderSpec => SealedStaysSealed
  <1>1. OutputInv /\ [ReaderNext]_outputVars =>
            [files.closed # Null => files'.raw \in {files.raw, Null}]_captureVars
    <2> SUFFICES ASSUME OutputInv, [ReaderNext]_outputVars, files.closed # Null
                 PROVE  files'.raw \in {files.raw, Null}
      OBVIOUS
    <2>1. [CaptureNext]_captureVars
      BY DEF ReaderNext, Reads, outputVars, ReaderObserves, ReaderOpensRaw,
             ReaderLoadsMarker, ReaderFindsReceipt, ReaderLoadsReceipt,
             ReaderReloadsMarker, ReaderAnswers, captureVars
    <2> QED
      BY <2>1, VisibleReceiptIsFinal DEF OutputInv
  <1> QED
    BY <1>1, OutputInvariant, PTL DEF ReaderSpec, SealedStaysSealed

\* A page that said canGrow: false is never outgrown by the file.
THEOREM EndIsAlwaysTheEnd == ReaderSpec => []EndIsEnd
  <1>1. OutputInv => EndIsEnd
    BY CaptureConstants, NullIsNoValue
    DEF OutputInv, EndIsEnd, PagesHold, Frozen, ReaderTyped, CaptureInv, BytesCounted,
        CaptureTyped, Artifacts, Captures
  <1> QED
    BY <1>1, OutputInvariant, PTL

\* A page that claims to be complete shows as much as the stream delivered.
THEOREM CompletePageIsAlwaysComplete == ReaderSpec => []CompletePageIsComplete
  <1>1. OutputInv => CompletePageIsComplete
    BY DEF OutputInv, PagesHold, CompletePageIsComplete
  <1> QED
    BY <1>1, OutputInvariant, PTL

\* A reader takes an honest writer for a corrupt one only when a receipt was withdrawn
\* under its eyes, and never refuses an offset that a page handed out.
THEOREM NeverAFalseAlarm == ReaderSpec => NoFalseAlarm
  <1>1. OutputInv /\ [ReaderNext]_outputVars =>
            [reader.step # "idle" /\ reader'.step = "idle" /\ ~Overlapped =>
                /\ page'.error = "CAPTURE_CORRUPT" =>
                      reader.step = "receipt" /\ files.closed = Null
                /\ page'.error # "OFFSET_OUT_OF_RANGE"]_outputVars
    <2> SUFFICES ASSUME OutputInv, [ReaderNext]_outputVars,
                        reader.step # "idle", reader'.step = "idle", ~Overlapped
                 PROVE  /\ page'.error = "CAPTURE_CORRUPT" =>
                              reader.step = "receipt" /\ files.closed = Null
                        /\ page'.error # "OFFSET_OUT_OF_RANGE"
      OBVIOUS
    <2>1. Reads
      BY DEF ReaderNext, outputVars, readerVars
    <2>2. CASE ReaderOpensRaw
      BY <2>2, OpensRawKeeps
    <2>3. CASE ReaderLoadsReceipt
      BY <2>3, LoadsReceiptKeeps DEF ReaderLoadsReceipt
    <2>4. CASE ReaderAnswers
      BY <2>4, VerdictKeeps, NullIsNoError DEF Errors
    <2> QED
      BY <2>1, <2>2, <2>3, <2>4, SidecarsKeep DEF Reads, ReaderObserves
  <1> QED
    BY <1>1, OutputInvariant, PTL DEF ReaderSpec, NoFalseAlarm

=============================================================================
