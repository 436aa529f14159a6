------------------------------ MODULE OutputPages ------------------------------
(***************************************************************************)
(* The pages of one retained stream (paginate in src/src/output.ts): a     *)
(* reader asks again and again from the offset of its last page, each time *)
(* of a snapshot, while the capture may still append. Each page decodes a  *)
(* window of the snapshot and three bytes more, as far as a limit on lines *)
(* and one on the whole envelope allow.                                    *)
(*                                                                         *)
(* A byte is what UTF-8 and the escaping of JSON tell apart: one-byte      *)
(* characters ("text", "lf", "control"), continuation bytes by range       *)
(* ("low" 80-8F, "mid" 90-9F, "high" A0-BF), lead bytes by what may follow *)
(* them ("c2" for all of C2-DF), and "bad" bytes that never occur.         *)
(***************************************************************************)
EXTENDS Integers, SequencesExt

CONSTANTS
    Alphabet,       \* the bytes that the command writes
    MaxBytes,       \* bound on the length of the stream
    Window,         \* RAW_RESPONSE_WINDOW
    Lookahead,      \* UTF8_LOOKAHEAD
    LineLimit,      \* OUTPUT_LINE_LIMIT
    EnvelopeLimit,  \* OUTPUT_ENVELOPE_LIMIT
    Radix           \* of the offset in the envelope: 10

Bytes == {"text", "lf", "control", "low", "mid", "high", "c2", "e0", "e1", "ed",
          "f0", "f1", "f4", "bad"}

ASSUME AlphabetIsBytes == Alphabet \subseteq Bytes
ASSUME LimitsAreNumbers ==
    /\ {MaxBytes, Window, LineLimit} \subseteq Nat \ {0}
    /\ EnvelopeLimit \in Nat /\ Radix \in Nat \ {0, 1}
ASSUME LookaheadCompletesACharacter == Lookahead \in Nat /\ Lookahead >= 3

VARIABLES
    stream,   \* the retained bytes
    growing,  \* the capture may still append
    offset,   \* where the next page starts
    shown     \* the characters of all pages so far

vars == <<stream, growing, offset, shown>>

\* A character is the sequence of its bytes, or U+FFFD.
Replacement == <<"replacement">>

-----------------------------------------------------------------------------
(* utf8Token() *)

Width(first) ==
    CASE first \in {"text", "lf", "control"} -> 1
      [] first = "c2" -> 2
      [] first \in {"e0", "e1", "ed"} -> 3
      [] first \in {"f0", "f1", "f4"} -> 4
      [] OTHER -> 0

IsContinuation(byte) == byte \in {"low", "mid", "high"}

\* Overlong forms, surrogates and what lies beyond U+10FFFF show in the second byte.
FirstContinuationValid(first, byte) ==
    /\ first = "e0" => byte = "high"
    /\ first = "ed" => byte # "high"
    /\ first = "f0" => byte # "low"
    /\ first = "f4" => byte = "low"

Incomplete == [consumed |-> 0, text |-> <<>>]

\* Mutated: the end of a snapshot is taken for the end of the stream.
CutAtOnce(available, endsHere, canGrow) ==
    [consumed |-> available, text |-> Replacement]

\* Mutated: a cut character is waited for even at the end of the stream.
CutWaiting(available, endsHere, canGrow) ==
    IF endsHere THEN Incomplete ELSE [consumed |-> available, text |-> Replacement]

\* A character that the end of a snapshot cuts is left for a later page.
Cut(available, endsHere, canGrow) ==
    IF endsHere /\ canGrow
    THEN Incomplete ELSE [consumed |-> available, text |-> Replacement]

\* The bytes after the first that do not continue its character.
Invalid(bytes, index) ==
    LET first == bytes[index + 1]
        byte(k) == bytes[index + 1 + k]
    IN  {k \in 1..(Width(first) - 1) :
           /\ k < Len(bytes) - index
           /\ \/ ~IsContinuation(byte(k))
              \/ k = 1 /\ ~FirstContinuationValid(first, byte(k))}

Token(bytes, index, endsHere, canGrow) ==
    LET width == Width(bytes[index + 1])
        available == Len(bytes) - index
        invalid == Invalid(bytes, index)
    IN  IF width = 0 THEN [consumed |-> 1, text |-> Replacement]
        ELSE IF invalid # {} THEN [consumed |-> Min(invalid), text |-> Replacement]
        ELSE IF available >= width
             THEN [consumed |-> width, text |-> SubSeq(bytes, index + 1, index + width)]
        ELSE Cut(available, endsHere, canGrow)

-----------------------------------------------------------------------------
(* What JSON.stringify makes of a page *)

\* sanitize(): \xNN, whose backslash JSON escapes once more.
IsControl(text) == text \in {<<"control">>, <<"c2", "low">>, <<"c2", "mid">>}

Escaped(text) ==
    IF IsControl(text) THEN 5
    ELSE IF text = <<"lf">> THEN 2
    ELSE IF text = Replacement THEN 3
    ELSE Len(text)

Digits(n) == 1 + Cardinality({k \in 1..n : Radix ^ k \in 1..n})

\* The offset and "true" or "false"; the length of the other fields does not depend
\* on the page.
Metadata(next, retained) == Digits(next) + (IF next < retained THEN 4 ELSE 5)

\* The envelope has room for one character, of five bytes at most.
ASSUME OneCharacterFits == Digits(MaxBytes) + 5 + 5 <= EnvelopeLimit

-----------------------------------------------------------------------------
(* paginate() *)

EmptyPage == [consumed |-> 0, text |-> <<>>, escaped |-> 0, lineFeeds |-> 0,
              full |-> FALSE]

\* The page with one more character.
Extended(p, token) ==
    [consumed |-> p.consumed + token.consumed,
     text |-> Append(p.text, token.text),
     escaped |-> p.escaped + Escaped(token.text),
     lineFeeds |-> p.lineFeeds + (IF token.text = <<"lf">> THEN 1 ELSE 0),
     full |-> FALSE]

\* A line feed ends its line, anything else is on one more.
Fits(p, from, retained) ==
    /\ p.lineFeeds + (IF Last(p.text) = <<"lf">> THEN 0 ELSE 1) <= LineLimit
    /\ Metadata(from + p.consumed, retained) + p.escaped <= EnvelopeLimit

Extend(p, bytes, from, retained, canGrow) ==
    LET endsHere == from + Len(bytes) = retained
        token == Token(bytes, p.consumed, endsHere, canGrow)
        longer == Extended(p, token)
    IN  IF token # Incomplete /\ Fits(longer, from, retained)
        THEN longer ELSE [p EXCEPT !.full = TRUE]

\* One turn of the loop.
Turn(p, bytes, from, retained, canGrow) ==
    IF p.full \/ p.consumed >= Window \/ p.consumed = Len(bytes)
    THEN p ELSE Extend(p, bytes, from, retained, canGrow)

\* Every character takes a byte of the window at least.
Paginate(bytes, from, retained, canGrow) ==
    LET pages[n \in 0..Window] ==
          IF n = 0 THEN EmptyPage
          ELSE Turn(pages[n - 1], bytes, from, retained, canGrow)
    IN  pages[Window]

\* What JSON.stringify makes of all the characters of a page.
EscapedText(text) ==
    LET sum[n \in 0..Len(text)] ==
          IF n = 0 THEN 0 ELSE sum[n - 1] + Escaped(text[n])
    IN  sum[Len(text)]

\* What Buffer.byteLength says of the whole envelope.
SerializedBytes(p, from, retained) ==
    Metadata(from + p.consumed, retained) + EscapedText(p.text)

-----------------------------------------------------------------------------
(* The stream and its reader *)

Init ==
    /\ stream = <<>> /\ growing = TRUE
    /\ offset = 0 /\ shown = <<>>

Grow(byte) ==
    /\ growing /\ Len(stream) < MaxBytes
    /\ stream' = Append(stream, byte)
    /\ UNCHANGED <<growing, offset, shown>>

StopGrowing ==
    /\ growing
    /\ growing' = FALSE
    /\ UNCHANGED <<stream, offset, shown>>

NextPage(canGrow) ==
    LET bytes == SubSeq(stream, offset + 1,
                        Min({Len(stream), offset + Window + Lookahead}))
    IN  Paginate(bytes, offset, Len(stream), canGrow)

\* One snapshot, read from the reader's offset. That a stream can grow may be
\* old news; that it cannot is final (OutputReader!EndIsEnd). A page over the
\* limit is an OUTPUT_READ_FAILED.
ReadPage(canGrow) ==
    /\ ~canGrow => ~growing
    /\ offset < Len(stream)
    /\ \E p \in {NextPage(canGrow)} :
          /\ SerializedBytes(p, offset, Len(stream)) <= EnvelopeLimit
          /\ offset' = offset + p.consumed
          /\ shown' = shown \o p.text
    /\ UNCHANGED <<stream, growing>>

Next ==
    \/ \E byte \in Alphabet : Grow(byte)
    \/ StopGrowing
    \/ \E canGrow \in BOOLEAN : ReadPage(canGrow)

Spec == Init /\ [][Next]_vars

-----------------------------------------------------------------------------
(* Properties *)

Continuation == {"low", "mid", "high"}

\* The well-formed sequences of UTF-8, a row per table entry of the standard.
WellFormed ==
    { <<{"text", "lf", "control"}>>,
      <<{"c2"}, Continuation>>,
      <<{"e0"}, {"high"}, Continuation>>,
      <<{"e1"}, Continuation, Continuation>>,
      <<{"ed"}, {"low", "mid"}, Continuation>>,
      <<{"f0"}, {"mid", "high"}, Continuation, Continuation>>,
      <<{"f1"}, Continuation, Continuation, Continuation>>,
      <<{"f4"}, {"low"}, Continuation, Continuation>> }

\* How far the bytes after a position follow a row.
Follows(row, bytes, at) ==
    Max({n \in 0..Len(row) :
           at + n <= Len(bytes) /\ \A k \in 1..n : bytes[at + k] \in row[k]})

\* A character is the longest part that follows a row, or a stray byte.
Longest(bytes, at) == Max({1} \cup {Follows(row, bytes, at) : row \in WellFormed})

\* It is shown when it is complete; else it is one U+FFFD.
CharacterAt(bytes, at) ==
    IF \E row \in WellFormed : Follows(row, bytes, at) = Len(row)
    THEN SubSeq(bytes, at + 1, at + Longest(bytes, at)) ELSE Replacement

\* What a decoder of the whole stream shows.
Decoded(bytes) ==
    LET rest[at \in 0..Len(bytes)] ==
          IF at = Len(bytes) THEN <<>>
          ELSE <<CharacterAt(bytes, at)>> \o rest[at + Longest(bytes, at)]
    IN  rest[0]

\* However the snapshots and the windows cut the stream, the pages put together
\* show what one decoder of the whole would show, and at the end all of it: no
\* character is torn, lost or shown twice (output.ts:200-247).
PagesDecodeTheStream ==
    /\ IsPrefix(shown, Decoded(stream))
    /\ offset = Len(stream) => shown = Decoded(stream)

\* What comes later cannot change a character: it is complete, or a byte that does
\* not continue it is there.
Settled(bytes, at) ==
    \A row \in WellFormed :
        Follows(row, bytes, at) = Len(row) \/ at + Follows(row, bytes, at) < Len(bytes)

\* There is a character for the next page: all of one, if more bytes may come.
CanAdvance(bytes, from, canGrow) ==
    from < Len(bytes) /\ (canGrow => Settled(bytes, from))

\* A reader that keeps asking reaches the end: a page before it is never empty and
\* never fails over its own limits ("The incremental accounting is exact",
\* output.ts:318), unless later bytes could still change the next character.
PagesAdvance ==
    \A canGrow \in BOOLEAN :
       LET p == NextPage(canGrow)
       IN  CanAdvance(stream, offset, canGrow) =>
             /\ p.consumed > 0
             /\ SerializedBytes(p, offset, Len(stream)) <= EnvelopeLimit
=============================================================================
