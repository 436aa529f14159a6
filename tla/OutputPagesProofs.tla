--------------------------- MODULE OutputPagesProofs ---------------------------
(***************************************************************************)
(* The pages of a stream, for every stream, every limit and every choice   *)
(* of snapshots: they decode it, and each of them moves on.                *)
(*                                                                         *)
(* Induction over a number is by its least counterexample: the theorems of *)
(* the library with a predicate for a parameter are out of the provers'    *)
(* reach, the one about sets is not.                                       *)
(***************************************************************************)
EXTENDS OutputPages, SequenceTheorems, FiniteSetTheorems, WellFoundedInduction, TLAPS

-----------------------------------------------------------------------------
(* Numbers: least, smallest and largest elements *)

\* Every set of natural numbers that has an element has a least one.
LEMMA LeastNat ==
    ASSUME NEW T, T \subseteq Nat, T # {}
    PROVE  \E x \in T : \A y \in T : x <= y
  <1> DEFINE R == {ss \in Nat \X Nat : ss[1] < ss[2]}
  <1>1. IsWellFoundedOn(R, Nat)
    BY NatLessThanWellFounded DEF OpToRel
  <1>2. PICK x \in T : \A y \in T : ~(<<y, x>> \in R)
    <2> HIDE DEF R
    <2> QED
      BY <1>1, WFMin
  <1>3. ASSUME NEW y \in T PROVE x <= y
    <2>1. ~(y < x)
      BY <1>2
    <2>2. x \in Nat /\ y \in Nat
      OBVIOUS
    <2> QED
      BY <2>1, <2>2
  <1> QED
    BY <1>3

\* Induction over the numbers up to a bound: a set with 0 that is closed under
\* successor has them all.
LEMMA Upwards ==
    ASSUME NEW N \in Nat, NEW S, 0 \in S,
           \A n \in 0..(N - 1) : n \in S => n + 1 \in S
    PROVE  0..N \subseteq S
  <1> SUFFICES ASSUME ~(0..N \subseteq S) PROVE FALSE
    OBVIOUS
  <1> DEFINE T == 0..N \ S
  <1>1. T \subseteq Nat /\ T # {}
    OBVIOUS
  <1>2. PICK x \in T : \A y \in T : x <= y
    <2> HIDE DEF T
    <2> QED
      BY <1>1, LeastNat
  <1>3. x \in 1..N
    OBVIOUS
  <1>4. x - 1 \in 0..(N - 1) /\ x - 1 \in S
    BY <1>2, <1>3
  <1>5. (x - 1) + 1 \in S
    BY <1>4
  <1> QED
    BY <1>3, <1>5

\* Max of a finite set of numbers: the element that none exceeds.
LEMMA MaxIs ==
    ASSUME NEW S, S \subseteq Int, NEW m \in S, \A x \in S : x <= m
    PROVE  Max(S) = m
  <1>1. \A y \in S : (\A x \in S : y >= x) => y = m
    OBVIOUS
  <1> QED
    BY <1>1 DEF Max

LEMMA MinIs ==
    ASSUME NEW S, S \subseteq Int, NEW m \in S, \A x \in S : m <= x
    PROVE  Min(S) = m
  <1>1. \A y \in S : (\A x \in S : y <= x) => y = m
    OBVIOUS
  <1> QED
    BY <1>1 DEF Min

\* The smallest of some natural numbers.
LEMMA MinOfNats ==
    ASSUME NEW S, S \subseteq Nat, S # {}
    PROVE  Min(S) \in S /\ \A x \in S : Min(S) <= x
  BY LeastNat DEF Min

\* The largest of some natural numbers up to a bound.
LEMMA MaxOfNats ==
    ASSUME NEW N \in Nat, NEW S, S \subseteq 0..N, S # {}
    PROVE  Max(S) \in S /\ \A x \in S : x <= Max(S)
  <1> DEFINE T == {N - x : x \in S}
  <1>1. T \subseteq Nat /\ T # {}
    <2>1. \A x \in S : N - x \in Nat
      OBVIOUS
    <2> QED
      BY <2>1
  <1>2. PICK y \in T : \A z \in T : y <= z
    <2> HIDE DEF T
    <2> QED
      BY <1>1, LeastNat
  <1>3. PICK m \in S : y = N - m
    OBVIOUS
  <1>4. ASSUME NEW x \in S PROVE x <= m
    <2>1. N - x \in T
      OBVIOUS
    <2> HIDE DEF T
    <2>2. N - m <= N - x
      BY <1>2, <1>3, <2>1
    <2> QED
      BY <2>2
  <1>5. S \subseteq Int
    OBVIOUS
  <1> HIDE DEF T
  <1>6. Max(S) = m
    BY <1>4, <1>5, MaxIs
  <1> QED
    BY <1>4, <1>6

-----------------------------------------------------------------------------
(* The recursive functions are the functions that their equations describe *)

\* The sums of the first m characters of a text.
AreSums(f, text, m) ==
    /\ f \in [0..m -> Nat] /\ f[0] = 0
    /\ \A n \in 1..m : f[n] = f[n - 1] + Escaped(text[n])

LEMMA SumsExist ==
    ASSUME NEW text, Len(text) \in Nat,
           \A i \in 1..Len(text) : Escaped(text[i]) \in Nat
    PROVE  \E f : AreSums(f, text, Len(text))
  <1> DEFINE S == {m \in 0..Len(text) : \E f : AreSums(f, text, m)}
  <1>1. 0 \in S
    <2>1. AreSums([n \in 0..0 |-> 0], text, 0)
      BY DEF AreSums
    <2> QED
      BY <2>1
  <1>2. ASSUME NEW m \in 0..(Len(text) - 1), m \in S PROVE m + 1 \in S
    <2>1. PICK f : AreSums(f, text, m)
      BY <1>2
    <2> DEFINE g == [n \in 0..(m + 1) |->
                       IF n = m + 1 THEN f[m] + Escaped(text[m + 1]) ELSE f[n]]
    <2>2. m + 1 \in 1..Len(text) /\ Escaped(text[m + 1]) \in Nat
      OBVIOUS
    <2>3. g \in [0..(m + 1) -> Nat] /\ g[0] = 0
      BY <2>1, <2>2 DEF AreSums
    <2>4. ASSUME NEW n \in 1..(m + 1) PROVE g[n] = g[n - 1] + Escaped(text[n])
      <3>1. CASE n = m + 1
        BY <3>1
      <3>2. CASE n \in 1..m
        BY <2>1, <3>2 DEF AreSums
      <3> QED
        BY <3>1, <3>2
    <2>5. AreSums(g, text, m + 1)
      BY <2>3, <2>4 DEF AreSums
    <2> HIDE DEF g
    <2> QED
      BY <2>5
  <1>3. Len(text) \in S
    <2> HIDE DEF S
    <2>1. 0..Len(text) \subseteq S
      BY <1>1, <1>2, Upwards
    <2> QED
      BY <2>1
  <1> QED
    BY <1>3

\* What EscapedText computes is the last of these sums.
LEMMA EscapedTextIsSum ==
    ASSUME NEW text, Len(text) \in Nat,
           \A i \in 1..Len(text) : Escaped(text[i]) \in Nat
    PROVE  \E f : AreSums(f, text, Len(text)) /\ EscapedText(text) = f[Len(text)]
  <1> DEFINE IsSum(f) == f = [n \in 0..Len(text) |->
                                IF n = 0 THEN 0 ELSE f[n - 1] + Escaped(text[n])]
  <1>1. PICK g : AreSums(g, text, Len(text))
    BY SumsExist
  <1>2. IsSum(g)
    BY <1>1 DEF AreSums
  <1> DEFINE sum == CHOOSE f : IsSum(f)
  <1>3. IsSum(sum)
    BY <1>2
  <1>4. EscapedText(text) = sum[Len(text)]
    BY DEF EscapedText
  <1> HIDE DEF sum
  <1>5. sum[0] = 0 /\ \A n \in 1..Len(text) : sum[n] = sum[n - 1] + Escaped(text[n])
    BY <1>3
  <1>6. \A n \in 0..Len(text) : sum[n] \in Nat
    <2> DEFINE S == {n \in Nat : sum[n] \in Nat}
    <2>1. 0 \in S /\ \A n \in 0..(Len(text) - 1) : n \in S => n + 1 \in S
      <3>1. ASSUME NEW n \in 0..(Len(text) - 1), n \in S PROVE n + 1 \in S
        <4>1. n + 1 \in 1..Len(text) /\ (n + 1) - 1 = n
          OBVIOUS
        <4>2. sum[n + 1] = sum[n] + Escaped(text[n + 1])
          BY <1>5, <4>1
        <4> QED
          BY <3>1, <4>1, <4>2
      <3> QED
        BY <1>5, <3>1
    <2> HIDE DEF S
    <2>2. 0..Len(text) \subseteq S
      BY <2>1, Upwards
    <2> QED
      BY <2>2 DEF S
  <1>7. DOMAIN sum = 0..Len(text) /\ sum = [n \in 0..Len(text) |-> sum[n]]
    BY <1>3
  <1>8. AreSums(sum, text, Len(text))
    BY <1>5, <1>6, <1>7 DEF AreSums
  <1> QED
    BY <1>4, <1>8

\* Sums of the same characters are the same.
LEMMA SumsAgree ==
    ASSUME NEW m \in Nat, NEW f, NEW g, NEW t, NEW u,
           AreSums(f, t, m), \A n \in 1..m : g[n] = g[n - 1] + Escaped(u[n]),
           g[0] = 0, \A n \in 1..m : t[n] = u[n]
    PROVE  f[m] = g[m]
  <1> DEFINE S == {n \in Nat : f[n] = g[n]}
  <1>1. 0 \in S
    BY DEF AreSums
  <1>2. ASSUME NEW n \in 0..(m - 1), n \in S PROVE n + 1 \in S
    <2>1. n + 1 \in 1..m /\ (n + 1) - 1 = n
      OBVIOUS
    <2>2. f[n + 1] = f[n] + Escaped(t[n + 1]) /\ g[n + 1] = g[n] + Escaped(u[n + 1])
      BY <2>1 DEF AreSums
    <2> QED
      BY <1>2, <2>1, <2>2
  <1> HIDE DEF S
  <1>3. 0..m \subseteq S
    BY <1>1, <1>2, Upwards
  <1> QED
    BY <1>3 DEF S

\* A text without characters takes no bytes; one more character, its own.
LEMMA EscapedTextEmpty == EscapedText(<<>>) = 0
  <1>1. Len(<<>>) = 0
    OBVIOUS
  <1>2. PICK f : AreSums(f, <<>>, 0) /\ EscapedText(<<>>) = f[0]
    BY <1>1, EscapedTextIsSum
  <1> QED
    BY <1>2 DEF AreSums

LEMMA EscapedTextAppend ==
    ASSUME NEW S, NEW text \in Seq(S), NEW x \in S,
           \A y \in S : Escaped(y) \in Nat
    PROVE  EscapedText(Append(text, x)) = EscapedText(text) + Escaped(x)
  <1> DEFINE m == Len(text)
             longer == Append(text, x)
  <1>1. /\ m \in Nat /\ longer \in Seq(S) /\ Len(longer) = m + 1
        /\ longer[m + 1] = x /\ \A i \in 1..m : longer[i] = text[i]
    BY AppendProperties, LenProperties
  <1>2. /\ \A i \in 1..m : Escaped(text[i]) \in Nat
        /\ \A i \in 1..(m + 1) : Escaped(longer[i]) \in Nat
    BY <1>1, ElementOfSeq
  <1>3. PICK f : AreSums(f, text, m) /\ EscapedText(text) = f[m]
    BY <1>1, <1>2, EscapedTextIsSum
  <1> HIDE DEF longer
  <1>4. PICK g : AreSums(g, longer, m + 1) /\ EscapedText(longer) = g[m + 1]
    <2>1. Len(longer) \in Nat /\ \A i \in 1..Len(longer) : Escaped(longer[i]) \in Nat
      BY <1>1, <1>2
    <2>2. \E g : AreSums(g, longer, Len(longer)) /\ EscapedText(longer) = g[Len(longer)]
      BY <2>1, EscapedTextIsSum
    <2> QED
      BY <1>1, <2>2
  <1> HIDE DEF m
  <1>5. g[0] = 0 /\ \A n \in 1..(m + 1) : g[n] = g[n - 1] + Escaped(longer[n])
    BY <1>4 DEF AreSums
  <1>6. f[m] = g[m]
    BY <1>1, <1>3, <1>5, SumsAgree
  <1>7. g[m + 1] = g[m] + Escaped(x)
    BY <1>1, <1>5
  <1> QED
    BY <1>3, <1>4, <1>6, <1>7 DEF longer

\* The turns of the loop of paginate().
AreTurns(f, n, bytes, from, retained, canGrow) ==
    /\ f = [i \in 0..n |-> f[i]] /\ f[0] = EmptyPage
    /\ \A i \in 1..n : f[i] = Turn(f[i - 1], bytes, from, retained, canGrow)

\* The page is what the last turn leaves.
LEMMA PaginateIsTurns ==
    ASSUME NEW bytes, NEW from, NEW retained, NEW canGrow
    PROVE  \E f : /\ AreTurns(f, Window, bytes, from, retained, canGrow)
                  /\ Paginate(bytes, from, retained, canGrow) = f[Window]
  <1> DEFINE Step(p) == Turn(p, bytes, from, retained, canGrow)
             IsPages(f) == f = [n \in 0..Window |-> IF n = 0 THEN EmptyPage
                                                   ELSE Step(f[n - 1])]
             pages == CHOOSE f : IsPages(f)
             S == {n \in 0..Window : \E f : AreTurns(f, n, bytes, from, retained, canGrow)}
  <1>1. Window \in Nat
    BY LimitsAreNumbers
  <1>2. 0 \in S
    <2>1. AreTurns([i \in 0..0 |-> EmptyPage], 0, bytes, from, retained, canGrow)
      BY DEF AreTurns
    <2> QED
      BY <1>1, <2>1
  <1>3. ASSUME NEW n \in 0..(Window - 1), n \in S PROVE n + 1 \in S
    <2>1. PICK f : AreTurns(f, n, bytes, from, retained, canGrow)
      BY <1>3
    <2> DEFINE g == [i \in 0..(n + 1) |-> IF i = n + 1 THEN Step(f[n]) ELSE f[i]]
    <2>2. g = [i \in 0..(n + 1) |-> g[i]] /\ g[0] = EmptyPage
      BY <2>1 DEF AreTurns
    <2>3. ASSUME NEW i \in 1..(n + 1) PROVE g[i] = Step(g[i - 1])
      <3>1. CASE i = n + 1
        BY <3>1
      <3>2. CASE i \in 1..n
        BY <2>1, <3>2 DEF AreTurns
      <3> QED
        BY <3>1, <3>2
    <2>4. AreTurns(g, n + 1, bytes, from, retained, canGrow)
      BY <2>2, <2>3 DEF AreTurns
    <2>5. n + 1 \in 0..Window
      BY <1>1
    <2> HIDE DEF g
    <2> QED
      BY <2>4, <2>5
  <1>4. Window \in S
    <2> HIDE DEF S
    <2>1. 0..Window \subseteq S
      BY <1>1, <1>2, <1>3, Upwards
    <2> QED
      BY <1>1, <2>1
  <1>5. PICK f : AreTurns(f, Window, bytes, from, retained, canGrow)
    BY <1>4
  <1>6. IsPages(f)
    <2>1. ASSUME NEW n \in 0..Window
          PROVE  f[n] = IF n = 0 THEN EmptyPage ELSE Step(f[n - 1])
      <3>1. CASE n = 0
        BY <1>5, <3>1 DEF AreTurns
      <3>2. CASE n \in 1..Window
        BY <1>5, <3>2 DEF AreTurns
      <3> QED
        BY <3>1, <3>2
    <2>2. f = [n \in 0..Window |-> f[n]]
      BY <1>5 DEF AreTurns
    <2> QED
      BY <2>1, <2>2
  <1>7. IsPages(pages)
    BY <1>6
  <1>8. Paginate(bytes, from, retained, canGrow) = pages[Window]
    BY DEF Paginate
  <1> HIDE DEF pages
  <1>9. AreTurns(pages, Window, bytes, from, retained, canGrow)
    <2>1. pages = [n \in 0..Window |-> IF n = 0 THEN EmptyPage ELSE Step(pages[n - 1])]
      BY <1>7
    <2> HIDE DEF Step
    <2>2. pages[0] = EmptyPage /\ \A n \in 1..Window : pages[n] = Step(pages[n - 1])
      BY <1>1, <2>1
    <2>3. pages = [n \in 0..Window |-> pages[n]]
      BY <2>1
    <2> QED
      BY <2>2, <2>3 DEF AreTurns, Step
  <1> QED
    BY <1>8, <1>9

-----------------------------------------------------------------------------
(* Rows and characters *)

\* The rows are of one to four bytes, which they name.
LEMMA RowShape ==
    ASSUME NEW row \in WellFormed
    PROVE  Len(row) \in 1..4 /\ \A k \in 1..Len(row) : row[k] \subseteq Bytes
  BY DEF WellFormed, Bytes, Continuation

\* The row of a lead byte: of its width, no other row starts with the byte, and what
\* utf8Token() takes for a continuation is what the row says.
IsRowOf(row, first) ==
    /\ row \in WellFormed /\ Len(row) = Width(first) /\ first \in row[1]
    /\ \A other \in WellFormed : other # row => first \notin other[1]
    /\ \A k \in 1..(Width(first) - 1) : \A byte \in Bytes :
          byte \in row[k + 1] <=>
             /\ IsContinuation(byte)
             /\ k = 1 => FirstContinuationValid(first, byte)

\* Only the second byte of a character depends on the first.
LEMMA RowByRow ==
    ASSUME NEW first \in Bytes, NEW row \in WellFormed,
           Len(row) = Width(first), Width(first) \in 2..4, first \in row[1],
           \A other \in WellFormed : other # row => first \notin other[1],
           \A byte \in Bytes : byte \in row[2] <=>
              IsContinuation(byte) /\ FirstContinuationValid(first, byte),
           \A k \in 3..Width(first) : row[k] = Continuation
    PROVE  IsRowOf(row, first)
  <1>1. ASSUME NEW k \in 1..(Width(first) - 1), NEW byte \in Bytes
        PROVE  byte \in row[k + 1] <=> /\ IsContinuation(byte)
                                       /\ k = 1 => FirstContinuationValid(first, byte)
    <2>1. CASE k = 1
      BY <2>1
    <2>2. CASE k # 1
      <3>1. row[k + 1] = Continuation
        BY <2>2
      <3> QED
        BY <2>2, <3>1 DEF Continuation, IsContinuation
    <2> QED
      BY <2>1, <2>2
  <1> QED
    BY <1>1 DEF IsRowOf

\* Every lead byte has a row.
LEMMA RowOfLead ==
    ASSUME NEW first \in Bytes, Width(first) # 0
    PROVE  \E row : IsRowOf(row, first)
  <1>1. CASE first \in {"text", "lf", "control"}
    <2> DEFINE row == <<{"text", "lf", "control"}>>
    <2>1. /\ row \in WellFormed /\ Len(row) = 1 /\ Width(first) = 1
          /\ \A other \in WellFormed : other # row => first \notin other[1]
      BY <1>1 DEF WellFormed, Width, Continuation
    <2>2. first \in row[1]
      BY <1>1
    <2>3. IsRowOf(row, first)
      <3> HIDE DEF row
      <3> QED
        BY <2>1, <2>2 DEF IsRowOf
    <2> QED
      BY <2>3
  <1>2. CASE first = "e0"
    <2> DEFINE row == <<{"e0"}, {"high"}, Continuation>>
    <2>1. /\ row \in WellFormed /\ Len(row) = 3 /\ Width(first) = 3
          /\ \A other \in WellFormed : other # row => first \notin other[1]
      BY <1>2 DEF WellFormed, Width, Continuation
    <2>2. \A byte \in Bytes : byte \in row[2] <=>
              IsContinuation(byte) /\ FirstContinuationValid(first, byte)
      BY <1>2 DEF Continuation, IsContinuation, FirstContinuationValid
    <2>3. first \in row[1] /\ \A k \in 3..3 : row[k] = Continuation
      BY <1>2
    <2> HIDE DEF row
    <2>4. \A k \in 3..Width(first) : row[k] = Continuation
      BY <2>1, <2>3
    <2>5. Width(first) \in 2..4 /\ Len(row) = Width(first)
      BY <2>1
    <2>6. IsRowOf(row, first)
      BY <2>1, <2>2, <2>3, <2>4, <2>5, RowByRow
    <2> QED
      BY <2>6
  <1>3. CASE first = "e1"
    <2> DEFINE row == <<{"e1"}, Continuation, Continuation>>
    <2>1. /\ row \in WellFormed /\ Len(row) = 3 /\ Width(first) = 3
          /\ \A other \in WellFormed : other # row => first \notin other[1]
      BY <1>3 DEF WellFormed, Width, Continuation
    <2>2. \A byte \in Bytes : byte \in row[2] <=>
              IsContinuation(byte) /\ FirstContinuationValid(first, byte)
      BY <1>3 DEF Continuation, IsContinuation, FirstContinuationValid
    <2>3. first \in row[1] /\ \A k \in 3..3 : row[k] = Continuation
      BY <1>3
    <2> HIDE DEF row
    <2>4. \A k \in 3..Width(first) : row[k] = Continuation
      BY <2>1, <2>3
    <2>5. Width(first) \in 2..4 /\ Len(row) = Width(first)
      BY <2>1
    <2>6. IsRowOf(row, first)
      BY <2>1, <2>2, <2>3, <2>4, <2>5, RowByRow
    <2> QED
      BY <2>6
  <1>4. CASE first = "ed"
    <2> DEFINE row == <<{"ed"}, {"low", "mid"}, Continuation>>
    <2>1. /\ row \in WellFormed /\ Len(row) = 3 /\ Width(first) = 3
          /\ \A other \in WellFormed : other # row => first \notin other[1]
      BY <1>4 DEF WellFormed, Width, Continuation
    <2>2. \A byte \in Bytes : byte \in row[2] <=>
              IsContinuation(byte) /\ FirstContinuationValid(first, byte)
      BY <1>4 DEF Continuation, IsContinuation, FirstContinuationValid
    <2>3. first \in row[1] /\ \A k \in 3..3 : row[k] = Continuation
      BY <1>4
    <2> HIDE DEF row
    <2>4. \A k \in 3..Width(first) : row[k] = Continuation
      BY <2>1, <2>3
    <2>5. Width(first) \in 2..4 /\ Len(row) = Width(first)
      BY <2>1
    <2>6. IsRowOf(row, first)
      BY <2>1, <2>2, <2>3, <2>4, <2>5, RowByRow
    <2> QED
      BY <2>6
  <1>5. CASE first = "f0"
    <2> DEFINE row == <<{"f0"}, {"mid", "high"}, Continuation, Continuation>>
    <2>1. /\ row \in WellFormed /\ Len(row) = 4 /\ Width(first) = 4
          /\ \A other \in WellFormed : other # row => first \notin other[1]
      BY <1>5 DEF WellFormed, Width, Continuation
    <2>2. \A byte \in Bytes : byte \in row[2] <=>
              IsContinuation(byte) /\ FirstContinuationValid(first, byte)
      BY <1>5 DEF Continuation, IsContinuation, FirstContinuationValid
    <2>3. first \in row[1] /\ \A k \in 3..4 : row[k] = Continuation
      BY <1>5
    <2> HIDE DEF row
    <2>4. \A k \in 3..Width(first) : row[k] = Continuation
      BY <2>1, <2>3
    <2>5. Width(first) \in 2..4 /\ Len(row) = Width(first)
      BY <2>1
    <2>6. IsRowOf(row, first)
      BY <2>1, <2>2, <2>3, <2>4, <2>5, RowByRow
    <2> QED
      BY <2>6
  <1>6. CASE first = "f1"
    <2> DEFINE row == <<{"f1"}, Continuation, Continuation, Continuation>>
    <2>1. /\ row \in WellFormed /\ Len(row) = 4 /\ Width(first) = 4
          /\ \A other \in WellFormed : other # row => first \notin other[1]
      BY <1>6 DEF WellFormed, Width, Continuation
    <2>2. \A byte \in Bytes : byte \in row[2] <=>
              IsContinuation(byte) /\ FirstContinuationValid(first, byte)
      BY <1>6 DEF Continuation, IsContinuation, FirstContinuationValid
    <2>3. first \in row[1] /\ \A k \in 3..4 : row[k] = Continuation
      BY <1>6
    <2> HIDE DEF row
    <2>4. \A k \in 3..Width(first) : row[k] = Continuation
      BY <2>1, <2>3
    <2>5. Width(first) \in 2..4 /\ Len(row) = Width(first)
      BY <2>1
    <2>6. IsRowOf(row, first)
      BY <2>1, <2>2, <2>3, <2>4, <2>5, RowByRow
    <2> QED
      BY <2>6
  <1>7. CASE first = "f4"
    <2> DEFINE row == <<{"f4"}, {"low"}, Continuation, Continuation>>
    <2>1. /\ row \in WellFormed /\ Len(row) = 4 /\ Width(first) = 4
          /\ \A other \in WellFormed : other # row => first \notin other[1]
      BY <1>7 DEF WellFormed, Width, Continuation
    <2>2. \A byte \in Bytes : byte \in row[2] <=>
              IsContinuation(byte) /\ FirstContinuationValid(first, byte)
      BY <1>7 DEF Continuation, IsContinuation, FirstContinuationValid
    <2>3. first \in row[1] /\ \A k \in 3..4 : row[k] = Continuation
      BY <1>7
    <2> HIDE DEF row
    <2>4. \A k \in 3..Width(first) : row[k] = Continuation
      BY <2>1, <2>3
    <2>5. Width(first) \in 2..4 /\ Len(row) = Width(first)
      BY <2>1
    <2>6. IsRowOf(row, first)
      BY <2>1, <2>2, <2>3, <2>4, <2>5, RowByRow
    <2> QED
      BY <2>6
  <1>8. CASE first = "c2"
    <2> DEFINE row == <<{"c2"}, Continuation>>
    <2>1. /\ row \in WellFormed /\ Len(row) = 2 /\ Width(first) = 2
          /\ \A other \in WellFormed : other # row => first \notin other[1]
      BY <1>8 DEF WellFormed, Width, Continuation
    <2>2. \A byte \in Bytes : byte \in row[2] <=>
              IsContinuation(byte) /\ FirstContinuationValid(first, byte)
      BY <1>8 DEF Continuation, IsContinuation, FirstContinuationValid
    <2>3. first \in row[1] /\ \A k \in 3..2 : row[k] = Continuation
      BY <1>8
    <2> HIDE DEF row
    <2>4. \A k \in 3..Width(first) : row[k] = Continuation
      BY <2>1, <2>3
    <2>5. Width(first) \in 2..4 /\ Len(row) = Width(first)
      BY <2>1
    <2>6. IsRowOf(row, first)
      BY <2>1, <2>2, <2>3, <2>4, <2>5, RowByRow
    <2> QED
      BY <2>6
  <1> QED
    BY <1>1, <1>2, <1>3, <1>4, <1>5, <1>6, <1>7, <1>8 DEF Bytes, Width

\* Any other byte has none.
LEMMA NoRow ==
    ASSUME NEW first \in Bytes, Width(first) = 0
    PROVE  \A row \in WellFormed : first \notin row[1]
  BY DEF WellFormed, Width, Bytes, Continuation

\* Up to n bytes after a position follow a row.
FollowsFor(row, bytes, at, n) ==
    n \in 0..Len(row) /\ at + n <= Len(bytes) /\ \A k \in 1..n : bytes[at + k] \in row[k]

\* ... and no more than n do.
StopsAfter(row, bytes, at, n) ==
    n = Len(row) \/ at + n = Len(bytes) \/ bytes[at + n + 1] \notin row[n + 1]

\* Follows is the length of the part of a character that is there: it follows the
\* row, and what comes next does not.
LEMMA FollowsIs ==
    ASSUME NEW row \in WellFormed, NEW bytes \in Seq(Bytes), NEW at \in 0..Len(bytes),
           NEW n, FollowsFor(row, bytes, at, n), StopsAfter(row, bytes, at, n)
    PROVE  Follows(row, bytes, at) = n
  <1> DEFINE S == {m \in 0..Len(row) :
                     at + m <= Len(bytes) /\ \A k \in 1..m : bytes[at + k] \in row[k]}
  <1>1. Len(row) \in Nat /\ Len(bytes) \in Nat
    BY RowShape, LenProperties
  <1>2. n \in S /\ S \subseteq Int
    BY DEF FollowsFor
  <1>3. ASSUME NEW m \in S PROVE m <= n
    <2> SUFFICES ASSUME m > n PROVE FALSE
      BY <1>1, <1>2
    <2>1. n + 1 \in 1..m /\ at + n + 1 = at + (n + 1)
      BY <1>1, <1>2
    <2>2. bytes[at + (n + 1)] \in row[n + 1]
      BY <2>1
    <2>3. n # Len(row) /\ at + n # Len(bytes)
      BY <1>1, <2>1
    <2> QED
      BY <2>1, <2>2, <2>3 DEF StopsAfter
  <1>4. Follows(row, bytes, at) = Max(S)
    BY DEF Follows
  <1> HIDE DEF S
  <1> QED
    BY <1>2, <1>3, <1>4, MaxIs

LEMMA FollowsProperties ==
    ASSUME NEW row \in WellFormed, NEW bytes \in Seq(Bytes), NEW at \in 0..Len(bytes)
    PROVE  /\ FollowsFor(row, bytes, at, Follows(row, bytes, at))
           /\ StopsAfter(row, bytes, at, Follows(row, bytes, at))
  <1> DEFINE S == {m \in 0..Len(row) :
                     at + m <= Len(bytes) /\ \A k \in 1..m : bytes[at + k] \in row[k]}
             n == Follows(row, bytes, at)
  <1>1. Len(row) \in Nat /\ Len(bytes) \in Nat
    BY RowShape, LenProperties
  <1>2. n = Max(S)
    BY DEF Follows
  <1>3. S \subseteq 0..Len(row) /\ 0 \in S
    BY <1>1
  <1>4. n \in S /\ \A m \in S : m <= n
    <2> HIDE DEF S, n
    <2> QED
      BY <1>1, <1>2, <1>3, MaxOfNats
  <1> HIDE DEF n
  <1>5. FollowsFor(row, bytes, at, n)
    BY <1>4 DEF FollowsFor
  <1>6. ASSUME ~StopsAfter(row, bytes, at, n) PROVE FALSE
    <2>1. /\ n # Len(row) /\ at + n # Len(bytes)
          /\ at + n + 1 = at + (n + 1) /\ bytes[at + n + 1] \in row[n + 1]
      BY <1>1, <1>4, <1>6 DEF StopsAfter
    <2>2. n + 1 \in S
      <3>1. n + 1 \in 0..Len(row) /\ at + (n + 1) <= Len(bytes)
        BY <1>1, <1>4, <2>1
      <3>2. ASSUME NEW k \in 1..(n + 1) PROVE bytes[at + k] \in row[k]
        <4>1. CASE k = n + 1
          BY <2>1, <4>1
        <4>2. CASE k \in 1..n
          BY <1>4, <4>2
        <4> QED
          BY <1>4, <4>1, <4>2
      <3> QED
        BY <3>1, <3>2
    <2> QED
      BY <1>4, <2>2
  <1> QED
    BY <1>5, <1>6 DEF n

\* What a page shows for one character: one to four bytes, or U+FFFD.
Texts == Seq(Bytes \cup {"replacement"})
Characters == {text \in Texts : Len(text) \in 1..4}

LEMMA ReplacementIsCharacter == Replacement \in Characters
  BY DEF Replacement, Characters, Texts

\* Where no row begins, nothing follows it.
LEMMA FollowsNot ==
    ASSUME NEW row \in WellFormed, NEW bytes \in Seq(Bytes), NEW at \in 0..(Len(bytes) - 1),
           bytes[at + 1] \notin row[1]
    PROVE  Follows(row, bytes, at) = 0
  <1>1. Len(row) \in 1..4 /\ Len(bytes) \in Nat
    BY RowShape, LenProperties
  <1>2. FollowsFor(row, bytes, at, 0)
    BY <1>1 DEF FollowsFor
  <1>3. at + 0 + 1 = at + 1 /\ 0 + 1 = 1
    OBVIOUS
  <1>4. StopsAfter(row, bytes, at, 0)
    BY <1>3 DEF StopsAfter
  <1> QED
    BY <1>1, <1>2, <1>4, FollowsIs

\* A character is within the bytes.
LEMMA LongestProperties ==
    ASSUME NEW bytes \in Seq(Bytes), NEW at \in 0..(Len(bytes) - 1)
    PROVE  Longest(bytes, at) \in 1..4 /\ at + Longest(bytes, at) <= Len(bytes)
  <1> DEFINE S == {1} \cup {Follows(row, bytes, at) : row \in WellFormed}
  <1>1. Len(bytes) \in Nat
    BY LenProperties
  <1>2. ASSUME NEW row \in WellFormed
        PROVE  Follows(row, bytes, at) \in 0..4 /\ at + Follows(row, bytes, at) <= Len(bytes)
    <2>1. FollowsFor(row, bytes, at, Follows(row, bytes, at)) /\ Len(row) \in 1..4
      BY <1>1, RowShape, FollowsProperties
    <2> QED
      BY <2>1 DEF FollowsFor
  <1>3. \A x \in S : x \in 0..4 /\ at + x <= Len(bytes)
    BY <1>1, <1>2
  <1>4. Longest(bytes, at) = Max(S)
    BY DEF Longest
  <1>5. 1 \in S
    OBVIOUS
  <1> HIDE DEF S
  <1>6. Max(S) \in S /\ 1 <= Max(S)
    BY <1>3, <1>5, MaxOfNats
  <1> QED
    BY <1>3, <1>4, <1>6

LEMMA CharacterAtType ==
    ASSUME NEW bytes \in Seq(Bytes), NEW at \in 0..(Len(bytes) - 1)
    PROVE  CharacterAt(bytes, at) \in Characters
  <1> DEFINE n == Longest(bytes, at)
  <1>1. n \in 1..4 /\ at + n <= Len(bytes) /\ Len(bytes) \in Nat
    BY LongestProperties, LenProperties
  <1> HIDE DEF n
  <1>2. \A i \in (at + 1)..(at + n) : bytes[i] \in Bytes \cup {"replacement"}
    BY <1>1, ElementOfSeq
  <1>3. /\ SubSeq(bytes, at + 1, at + n) \in Texts
        /\ Len(SubSeq(bytes, at + 1, at + n)) = n
    BY <1>1, <1>2, SubSeqProperties DEF Texts
  <1> QED
    BY <1>1, <1>3, ReplacementIsCharacter DEF CharacterAt, Characters, n

\* The character after a position where one row begins.
LEMMA CharacterOfRow ==
    ASSUME NEW bytes \in Seq(Bytes), NEW at \in 0..(Len(bytes) - 1),
           NEW row \in WellFormed, bytes[at + 1] \in row[1],
           \A other \in WellFormed : other # row => bytes[at + 1] \notin other[1],
           NEW n, FollowsFor(row, bytes, at, n), StopsAfter(row, bytes, at, n)
    PROVE  /\ Follows(row, bytes, at) = n /\ Longest(bytes, at) = n
           /\ CharacterAt(bytes, at) = IF n = Len(row) THEN SubSeq(bytes, at + 1, at + n)
                                                       ELSE Replacement
  <1> DEFINE S == {1} \cup {Follows(r, bytes, at) : r \in WellFormed}
  <1>1. Len(row) \in 1..4 /\ Len(bytes) \in Nat /\ n \in 0..4
    BY RowShape, LenProperties DEF FollowsFor
  <1>2. Follows(row, bytes, at) = n
    BY <1>1, FollowsIs
  <1>3. \A other \in WellFormed : other # row => Follows(other, bytes, at) = 0
    BY FollowsNot
  <1>4. n >= 1
    <2>1. n # 0
      BY <1>1 DEF StopsAfter
    <2> QED
      BY <1>1, <2>1
  <1>5. n \in S /\ S \subseteq Int /\ \A x \in S : x <= n
    BY <1>1, <1>2, <1>3, <1>4
  <1>6. Longest(bytes, at) = n
    <2>1. Longest(bytes, at) = Max(S)
      BY DEF Longest
    <2> HIDE DEF S
    <2> QED
      BY <1>5, <2>1, MaxIs
  <1>7. (\E r \in WellFormed : Follows(r, bytes, at) = Len(r)) <=> n = Len(row)
    BY <1>1, <1>2, <1>3, RowShape
  <1> QED
    BY <1>2, <1>6, <1>7 DEF CharacterAt

\* A stray byte.
LEMMA CharacterOfNone ==
    ASSUME NEW bytes \in Seq(Bytes), NEW at \in 0..(Len(bytes) - 1),
           \A row \in WellFormed : bytes[at + 1] \notin row[1]
    PROVE  Longest(bytes, at) = 1 /\ CharacterAt(bytes, at) = Replacement
  <1> DEFINE S == {1} \cup {Follows(r, bytes, at) : r \in WellFormed}
  <1>1. \A row \in WellFormed : Follows(row, bytes, at) = 0
    BY FollowsNot
  <1>2. 1 \in S /\ S \subseteq Int /\ \A x \in S : x <= 1
    BY <1>1
  <1>3. Longest(bytes, at) = Max(S)
    BY DEF Longest
  <1> HIDE DEF S
  <1>4. Longest(bytes, at) = 1
    BY <1>2, <1>3, MaxIs
  <1> QED
    BY <1>1, <1>4, RowShape DEF CharacterAt

\* In every buffer, utf8Token() gives the character that is there according to the
\* table of the standard; and it waits for exactly those that the end of a snapshot
\* cuts, if the stream may grow, and that later bytes could change. Four bytes are
\* enough to settle a character.
THEOREM TokenIsCharacter ==
    ASSUME NEW bytes \in Seq(Bytes), NEW index \in 0..(Len(bytes) - 1),
           NEW endsHere \in BOOLEAN, NEW canGrow \in BOOLEAN
    PROVE  LET token == Token(bytes, index, endsHere, canGrow)
           IN  /\ token # Incomplete =>
                     /\ token.consumed = Longest(bytes, index)
                     /\ token.text = CharacterAt(bytes, index)
               /\ token = Incomplete <=> endsHere /\ canGrow /\ ~Settled(bytes, index)
               /\ Len(bytes) - index >= 4 => Settled(bytes, index)
  <1> DEFINE token == Token(bytes, index, endsHere, canGrow)
             first == bytes[index + 1]
             available == Len(bytes) - index
             invalid == Invalid(bytes, index)
             Claim(n, text) ==
                 /\ token = [consumed |-> n, text |-> text]
                 /\ n = Longest(bytes, index) /\ text = CharacterAt(bytes, index)
  <1>1. Len(bytes) \in Nat /\ first \in Bytes /\ index \in 0..Len(bytes) /\ available \in Nat \ {0}
    BY LenProperties, ElementOfSeq
  <1>2. ASSUME NEW n, n >= 1, NEW text PROVE [consumed |-> n, text |-> text] # Incomplete
    BY <1>2 DEF Incomplete
  <1>3. CASE Width(first) = 0
    <2>1. \A row \in WellFormed : first \notin row[1]
      BY <1>1, <1>3, NoRow
    <2>2. Claim(1, Replacement)
      BY <1>1, <1>3, <2>1, CharacterOfNone DEF Token
    <2>3. Settled(bytes, index)
      <3>1. ASSUME NEW row \in WellFormed PROVE index + Follows(row, bytes, index) < Len(bytes)
        <4>1. Follows(row, bytes, index) = 0
          BY <2>1, FollowsNot
        <4> QED
          BY <1>1, <4>1
      <3> QED
        BY <3>1 DEF Settled
    <2> QED
      BY <1>2, <2>2, <2>3
  <1>4. CASE Width(first) # 0
    <2>1. PICK row : IsRowOf(row, first)
      BY <1>1, <1>4, RowOfLead
    <2> DEFINE w == Width(first)
    <2>2. /\ row \in WellFormed /\ Len(row) = w /\ w \in 1..4 /\ first \in row[1]
          /\ \A other \in WellFormed : other # row => first \notin other[1]
      BY <2>1, RowShape DEF IsRowOf
    <2>3. invalid = {k \in 1..(w - 1) : k < available /\ bytes[index + 1 + k] \notin row[k + 1]}
      <3>1. ASSUME NEW k \in 1..(w - 1), k < available
            PROVE  bytes[index + 1 + k] \in row[k + 1] <=>
                      /\ IsContinuation(bytes[index + 1 + k])
                      /\ k = 1 => FirstContinuationValid(first, bytes[index + 1 + k])
        <4>1. index + 1 + k \in 1..Len(bytes)
          BY <1>1, <2>2, <3>1
        <4>2. bytes[index + 1 + k] \in Bytes
          BY <4>1, ElementOfSeq
        <4> QED
          BY <2>1, <4>2 DEF IsRowOf
      <3> QED
        BY <3>1 DEF Invalid
    <2>4. \A row2 \in WellFormed : row2 # row => index + Follows(row2, bytes, index) < Len(bytes)
      <3>1. ASSUME NEW row2 \in WellFormed, row2 # row
            PROVE  index + Follows(row2, bytes, index) < Len(bytes)
        <4>1. Follows(row2, bytes, index) = 0
          BY <2>2, <3>1, FollowsNot
        <4> QED
          BY <1>1, <4>1
      <3> QED
        BY <3>1
    <2> HIDE DEF w, invalid, first
    <2>5. CASE invalid # {}
      <3> DEFINE m == Min(invalid)
      <3>1. invalid \subseteq Nat
        BY <2>2, <2>3
      <3>2. m \in invalid /\ \A k \in invalid : m <= k
        BY <2>5, <3>1, MinOfNats
      <3> HIDE DEF m
      <3>3. m \in 1..(w - 1) /\ m < available /\ bytes[index + 1 + m] \notin row[m + 1]
        BY <2>3, <3>2
      <3>4. FollowsFor(row, bytes, index, m)
        <4>1. ASSUME NEW k \in 1..m PROVE bytes[index + k] \in row[k]
          <5>1. CASE k = 1
            BY <2>2, <5>1 DEF first
          <5>2. CASE k # 1
            <6>1. k - 1 \in 1..(w - 1) /\ k - 1 < available /\ k - 1 \notin invalid
              BY <1>1, <2>2, <3>2, <3>3, <5>2
            <6>2. index + 1 + (k - 1) = index + k /\ (k - 1) + 1 = k
              BY <1>1, <3>3
            <6> QED
              BY <2>3, <6>1, <6>2
          <5> QED
            BY <5>1, <5>2
        <4> QED
          BY <1>1, <2>2, <3>3, <4>1 DEF FollowsFor
      <3>5. StopsAfter(row, bytes, index, m)
        <4>1. index + m + 1 = index + 1 + m
          BY <1>1, <3>3
        <4> QED
          BY <3>3, <4>1 DEF StopsAfter
      <3>6. m # Len(row)
        BY <2>2, <3>3
      <3>7. /\ Follows(row, bytes, index) = m /\ Longest(bytes, index) = m
            /\ CharacterAt(bytes, index) = Replacement
        BY <2>2, <3>4, <3>5, <3>6, CharacterOfRow DEF first
      <3>8. token = [consumed |-> m, text |-> Replacement]
        BY <1>4, <2>5 DEF Token, first, invalid, m
      <3>9. Settled(bytes, index)
        BY <1>1, <2>4, <3>3, <3>7 DEF Settled
      <3> QED
        BY <1>2, <3>3, <3>7, <3>8, <3>9
    <2>6. CASE invalid = {}
      <3>1. ASSUME NEW n \in 1..w, n <= available PROVE FollowsFor(row, bytes, index, n)
        <4>1. ASSUME NEW k \in 1..n PROVE bytes[index + k] \in row[k]
          <5>1. CASE k = 1
            BY <2>2, <5>1 DEF first
          <5>2. CASE k # 1
            <6>1. k - 1 \in 1..(w - 1) /\ k - 1 < available /\ k - 1 \notin invalid
              BY <1>1, <2>2, <2>6, <3>1, <5>2
            <6>2. index + 1 + (k - 1) = index + k /\ (k - 1) + 1 = k
              BY <1>1, <2>2
            <6> QED
              BY <2>3, <6>1, <6>2
          <5> QED
            BY <5>1, <5>2
        <4> QED
          BY <1>1, <2>2, <3>1, <4>1 DEF FollowsFor
      <3>2. CASE available >= w
        <4>1. FollowsFor(row, bytes, index, w) /\ StopsAfter(row, bytes, index, w)
          BY <2>2, <3>1, <3>2 DEF StopsAfter
        <4>2. /\ Follows(row, bytes, index) = w /\ Longest(bytes, index) = w
              /\ CharacterAt(bytes, index) = SubSeq(bytes, index + 1, index + w)
          BY <2>2, <4>1, CharacterOfRow DEF first
        <4>3. token = [consumed |-> w, text |-> SubSeq(bytes, index + 1, index + w)]
          BY <1>4, <2>6, <3>2 DEF Token, first, invalid, w
        <4>4. Settled(bytes, index)
          BY <2>2, <2>4, <4>2 DEF Settled
        <4>5. token # Incomplete
          BY <1>2, <2>2, <4>3
        <4>6. token.consumed = Longest(bytes, index) /\ token.text = CharacterAt(bytes, index)
          <5> HIDE DEF token
          <5>1. token.consumed = w /\ token.text = SubSeq(bytes, index + 1, index + w)
            BY <4>3
          <5> QED
            BY <4>2, <5>1
        <4> QED
          BY <4>4, <4>5, <4>6
      <3>3. CASE available < w
        <4>1. FollowsFor(row, bytes, index, available) /\ available # Len(row)
          BY <1>1, <2>2, <3>1, <3>3
        <4>2. StopsAfter(row, bytes, index, available)
          BY <1>1 DEF StopsAfter
        <4>3. Longest(bytes, index) = available /\ CharacterAt(bytes, index) = Replacement
          BY <2>2, <4>1, <4>2, CharacterOfRow DEF first
        <4>4. token = Cut(available, endsHere, canGrow)
          BY <1>1, <1>4, <2>2, <2>6, <3>3 DEF Token, first, invalid, w
        <4>5. ~(available >= 4) /\ index + available = Len(bytes)
          BY <1>1, <2>2, <3>3
        <4>6. Follows(row, bytes, index) = available
          BY <2>2, <4>1, <4>2, CharacterOfRow DEF first
        <4>7. ~Settled(bytes, index)
          <5>1. Follows(row, bytes, index) # Len(row)
            BY <4>1, <4>6
          <5>2. index + Follows(row, bytes, index) = Len(bytes)
            BY <4>5, <4>6
          <5>3. ~(index + Follows(row, bytes, index) < Len(bytes))
            BY <1>1, <5>2
          <5> QED
            BY <2>2, <5>1, <5>3 DEF Settled
        <4>8. \/ endsHere /\ canGrow /\ token = Incomplete
              \/ ~(endsHere /\ canGrow) /\ Claim(available, Replacement)
          BY <4>3, <4>4 DEF Cut
        <4>9. [consumed |-> available, text |-> Replacement] # Incomplete
          BY <1>1, <1>2
        <4>10. token # Incomplete =>
                  token.consumed = Longest(bytes, index) /\ token.text = CharacterAt(bytes, index)
          BY <4>8
        <4>11. token = Incomplete <=> endsHere /\ canGrow /\ ~Settled(bytes, index)
          BY <4>7, <4>8, <4>9
        <4> QED
          BY <4>5, <4>10, <4>11
      <3> QED
        BY <1>1, <2>2, <3>2, <3>3
    <2> QED
      BY <2>5, <2>6
  <1> QED
    BY <1>3, <1>4

-----------------------------------------------------------------------------
(* A character depends on four bytes *)

\* The next four bytes are the same, as far as there are as many.
SameBytes(s, i, t, j) ==
    \A k \in 1..4 : i + k <= Len(s) /\ j + k <= Len(t) => s[i + k] = t[j + k]

\* As many bytes are left, or enough for any character.
SameLeft(s, i, t, j) ==
    Len(s) - i # Len(t) - j => Len(s) - i >= 4 /\ Len(t) - j >= 4

\* What follows the same rows, with the same bytes, is the same character.
LEMMA SameCharacter ==
    ASSUME NEW s \in Seq(Bytes), NEW i \in 0..(Len(s) - 1),
           NEW t \in Seq(Bytes), NEW j \in 0..(Len(t) - 1),
           \A row \in WellFormed : Follows(row, s, i) = Follows(row, t, j),
           SameBytes(s, i, t, j)
    PROVE  Longest(s, i) = Longest(t, j) /\ CharacterAt(s, i) = CharacterAt(t, j)
  <1> DEFINE n == Longest(s, i)
             left == SubSeq(s, i + 1, i + n)
             right == SubSeq(t, j + 1, j + n)
  <1>1. Longest(s, i) = Longest(t, j)
    <2>1. {Follows(row, s, i) : row \in WellFormed} = {Follows(row, t, j) : row \in WellFormed}
      OBVIOUS
    <2> QED
      BY <2>1 DEF Longest
  <1>2. /\ n \in 1..4 /\ i + n <= Len(s) /\ j + n <= Len(t)
        /\ Len(s) \in Nat /\ Len(t) \in Nat
    BY <1>1, LongestProperties, LenProperties
  <1> HIDE DEF n
  <1>3. /\ \A k \in (i + 1)..(i + n) : s[k] \in Bytes
        /\ \A k \in (j + 1)..(j + n) : t[k] \in Bytes
    BY <1>2, ElementOfSeq
  <1>4. /\ left \in Seq(Bytes) /\ Len(left) = n
        /\ \A k \in 1..n : left[k] = s[i + k]
    <2>1. /\ left \in Seq(Bytes) /\ Len(left) = n
          /\ \A k \in 1..((i + n) - (i + 1) + 1) : left[k] = s[(i + 1) + k - 1]
      BY <1>2, <1>3, SubSeqProperties
    <2>2. \A k \in 1..n : (i + 1) + k - 1 = i + k /\ k \in 1..((i + n) - (i + 1) + 1)
      BY <1>2
    <2> QED
      BY <2>1, <2>2
  <1>5. /\ right \in Seq(Bytes) /\ Len(right) = n
        /\ \A k \in 1..n : right[k] = t[j + k]
    <2>1. /\ right \in Seq(Bytes) /\ Len(right) = n
          /\ \A k \in 1..((j + n) - (j + 1) + 1) : right[k] = t[(j + 1) + k - 1]
      BY <1>2, <1>3, SubSeqProperties
    <2>2. \A k \in 1..n : (j + 1) + k - 1 = j + k /\ k \in 1..((j + n) - (j + 1) + 1)
      BY <1>2
    <2> QED
      BY <2>1, <2>2
  <1>6. ASSUME NEW k \in 1..n PROVE s[i + k] = t[j + k]
    <2>1. k \in 1..4 /\ i + k <= Len(s) /\ j + k <= Len(t)
      BY <1>2
    <2> QED
      BY <2>1 DEF SameBytes
  <1> HIDE DEF left, right
  <1>7. left = right
    BY <1>4, <1>5, <1>6, SeqEqual
  <1> QED
    BY <1>1, <1>7 DEF CharacterAt, left, right, n

\* A window with four bytes left, or with all that are left, shows the character
\* that the stream has there.
LEMMA WindowShowsCharacter ==
    ASSUME NEW s \in Seq(Bytes), NEW i \in 0..(Len(s) - 1),
           NEW t \in Seq(Bytes), NEW j \in 0..(Len(t) - 1),
           SameBytes(s, i, t, j),
           SameLeft(s, i, t, j)
    PROVE  /\ Longest(s, i) = Longest(t, j) /\ CharacterAt(s, i) = CharacterAt(t, j)
           /\ Settled(s, i) => Settled(t, j)
  <1>1. Len(s) \in Nat /\ Len(t) \in Nat
    BY LenProperties
  <1> USE <1>1
  <1>5. \A m \in 0..4 : i + m <= Len(s) <=> j + m <= Len(t)
    BY DEF SameLeft
  <1>6. \A m \in 0..3 : i + m < Len(s) <=> j + m < Len(t)
    BY DEF SameLeft
  <1>2. ASSUME NEW row \in WellFormed
        PROVE  /\ Follows(row, s, i) = Follows(row, t, j)
               /\ Follows(row, s, i) \in 0..Len(row) /\ Len(row) \in 1..4
    <2> DEFINE n == Follows(row, s, i)
    <2>1. FollowsFor(row, s, i, n) /\ StopsAfter(row, s, i, n) /\ Len(row) \in 1..4
      BY <1>1, FollowsProperties, RowShape
    <2> HIDE DEF n
    <2>7. n \in 0..Len(row) /\ i + n <= Len(s)
      BY <2>1 DEF FollowsFor
    <2>8. PICK w \in 1..4 : w = Len(row)
      BY <2>1
    <2>9. n \in 0..w
      BY <2>7, <2>8
    <2>6. n \in 0..4
      BY <2>9
    <2>2. n \in 0..Len(row) /\ i + n <= Len(s) /\ j + n <= Len(t)
      BY <1>5, <2>6, <2>7
    <2>3. FollowsFor(row, t, j, n)
      <3>1. ASSUME NEW k \in 1..n PROVE t[j + k] \in row[k]
        <4>1. k \in 1..4 /\ i + k <= Len(s) /\ j + k <= Len(t) /\ s[i + k] \in row[k]
          BY <2>1, <2>2, <2>6 DEF FollowsFor
        <4> QED
          BY <4>1 DEF SameBytes
      <3> QED
        BY <2>2, <3>1 DEF FollowsFor
    <2>4. StopsAfter(row, t, j, n)
      <3>1. CASE n = Len(row)
        BY <3>1 DEF StopsAfter
      <3>2. CASE n # Len(row) /\ i + n = Len(s)
        <4>1. n \in 0..3
          <5>1. n # w
            BY <2>8, <3>2
          <5> QED
            BY <2>9, <5>1
        <4>2. ~(i + n < Len(s)) /\ ~(j + n < Len(t))
          BY <1>6, <3>2, <4>1
        <4>3. j + n = Len(t)
          BY <2>2, <2>6, <4>2
        <4> QED
          BY <4>3 DEF StopsAfter
      <3>3. CASE n # Len(row) /\ i + n # Len(s) /\ j + n # Len(t)
        <4>4. n + 1 \in 1..4
          <5>1. n # w
            BY <2>8, <3>3
          <5> QED
            BY <2>9, <5>1
        <4>1. n + 1 \in 1..4 /\ i + (n + 1) <= Len(s) /\ j + (n + 1) <= Len(t)
          BY <2>2, <2>6, <3>3, <4>4
        <4>2. s[i + (n + 1)] = t[j + (n + 1)]
          BY <4>1 DEF SameBytes
        <4>3. i + n + 1 = i + (n + 1) /\ j + n + 1 = j + (n + 1)
          BY <1>1, <2>2
        <4> QED
          BY <2>1, <3>3, <4>2, <4>3 DEF StopsAfter
      <3> QED
        BY <3>1, <3>2, <3>3 DEF StopsAfter
    <2>5. Follows(row, t, j) = n
      BY <1>1, <2>3, <2>4, FollowsIs
    <2> QED
      BY <2>1, <2>2, <2>5 DEF n
  <1>3. Longest(s, i) = Longest(t, j) /\ CharacterAt(s, i) = CharacterAt(t, j)
    BY <1>2, SameCharacter
  <1>4. ASSUME Settled(s, i), NEW row \in WellFormed
        PROVE  Follows(row, t, j) = Len(row) \/ j + Follows(row, t, j) < Len(t)
    <2>1. Follows(row, s, i) = Len(row) \/ i + Follows(row, s, i) < Len(s)
      BY <1>4 DEF Settled
    <2> DEFINE n == Follows(row, s, i)
    <2>2. Follows(row, t, j) = n /\ n \in 0..Len(row) /\ Len(row) \in 1..4
      BY <1>2
    <2> HIDE DEF n
    <2>3. PICK w \in 1..4 : w = Len(row)
      BY <2>2
    <2>6. n \in 0..w
      BY <2>2, <2>3
    <2>4. n # Len(row) => n \in 0..3
      <3>1. n # Len(row) => n # w
        BY <2>3
      <3> QED
        BY <2>6, <3>1
    <2>5. n # Len(row) => j + n < Len(t)
      BY <1>6, <2>1, <2>4 DEF n
    <2> QED
      BY <2>2, <2>5
  <1> QED
    BY <1>3, <1>4 DEF Settled

\* One more byte leaves a settled character as it is.
LEMMA SettledStays ==
    ASSUME NEW s \in Seq(Bytes), NEW i \in 0..(Len(s) - 1), NEW x \in Bytes, Settled(s, i)
    PROVE  LET t == Append(s, x)
           IN  /\ Longest(t, i) = Longest(s, i) /\ CharacterAt(t, i) = CharacterAt(s, i)
               /\ Settled(t, i)
  <1> DEFINE t == Append(s, x)
  <1>1. /\ Len(s) \in Nat /\ t \in Seq(Bytes) /\ Len(t) = Len(s) + 1
        /\ \A k \in 1..Len(s) : t[k] = s[k]
    BY LenProperties, AppendProperties
  <1> HIDE DEF t
  <1>2. ASSUME NEW row \in WellFormed
        PROVE  /\ Follows(row, s, i) = Follows(row, t, i)
               /\ Follows(row, s, i) = Len(row) \/ i + Follows(row, s, i) < Len(s)
               /\ Follows(row, s, i) \in 0..Len(row) /\ Len(row) \in 1..4
    <2> DEFINE n == Follows(row, s, i)
    <2>1. /\ FollowsFor(row, s, i, n) /\ StopsAfter(row, s, i, n) /\ Len(row) \in 1..4
          /\ n = Len(row) \/ i + n < Len(s)
      BY <1>1, FollowsProperties, RowShape DEF Settled
    <2> HIDE DEF n
    <2>2. n \in 0..Len(row) /\ i + n <= Len(s)
      BY <1>1, <2>1 DEF FollowsFor
    <2>3. FollowsFor(row, t, i, n)
      <3>1. ASSUME NEW k \in 1..n PROVE t[i + k] \in row[k]
        <4>1. i + k \in 1..Len(s) /\ s[i + k] \in row[k]
          BY <1>1, <2>1, <2>2 DEF FollowsFor
        <4> QED
          BY <1>1, <4>1
      <3> QED
        BY <1>1, <2>2, <3>1 DEF FollowsFor
    <2>4. StopsAfter(row, t, i, n)
      <3>1. CASE n = Len(row)
        BY <3>1 DEF StopsAfter
      <3>2. CASE n # Len(row) /\ i + n < Len(s)
        <4>1. i + n + 1 \in 1..Len(s)
          BY <1>1, <2>1, <2>2, <3>2
        <4> QED
          BY <1>1, <2>1, <3>2, <4>1 DEF StopsAfter
      <3> QED
        BY <2>1, <3>1, <3>2
    <2>5. Follows(row, t, i) = n
      BY <1>1, <2>3, <2>4, FollowsIs
    <2> QED
      BY <2>1, <2>2, <2>5 DEF n
  <1>3. Longest(s, i) = Longest(t, i) /\ CharacterAt(s, i) = CharacterAt(t, i)
    <2>1. SameBytes(s, i, t, i)
      <3>1. ASSUME NEW k \in 1..4, i + k <= Len(s) PROVE s[i + k] = t[i + k]
        <4>1. i + k \in 1..Len(s)
          BY <1>1, <3>1
        <4> QED
          BY <1>1, <4>1
      <3> QED
        BY <3>1 DEF SameBytes
    <2>2. i \in 0..(Len(t) - 1)
      BY <1>1
    <2> QED
      BY <1>1, <1>2, <2>1, <2>2, SameCharacter
  <1>4. Settled(t, i)
    <2>1. ASSUME NEW row \in WellFormed
          PROVE  Follows(row, t, i) = Len(row) \/ i + Follows(row, t, i) < Len(t)
      BY <1>1, <1>2
    <2> QED
      BY <2>1 DEF Settled
  <1> QED
    BY <1>3, <1>4 DEF t

-----------------------------------------------------------------------------
(* A text that shows a part of the stream *)

\* Cutting s at these places, from a to z, gives the characters of a text.
CutsInto(cuts, s, a, z, text, settled) ==
    /\ cuts \in [0..Len(text) -> 0..Len(s)] /\ cuts[0] = a /\ cuts[Len(text)] = z
    /\ \A i \in 1..Len(text) :
          /\ cuts[i - 1] < Len(s)
          /\ cuts[i] = cuts[i - 1] + Longest(s, cuts[i - 1])
          /\ text[i] = CharacterAt(s, cuts[i - 1])
          /\ settled => Settled(s, cuts[i - 1])

\* The text shows the bytes of s from a to z; if it is settled, it will whatever
\* bytes follow.
ShowsPart(s, a, z, text, settled) == \E cuts : CutsInto(cuts, s, a, z, text, settled)

LEMMA ShowsNothing ==
    ASSUME NEW s \in Seq(Bytes), NEW a \in 0..Len(s), NEW settled
    PROVE  ShowsPart(s, a, a, <<>>, settled)
  <1> DEFINE cuts == [i \in 0..0 |-> a]
  <1>1. Len(<<>>) = 0 /\ cuts \in [0..0 -> 0..Len(s)] /\ cuts[0] = a
    OBVIOUS
  <1>2. CutsInto(cuts, s, a, a, <<>>, settled)
    BY <1>1 DEF CutsInto
  <1> QED
    BY <1>2 DEF ShowsPart

LEMMA ShowsWithin ==
    ASSUME NEW s \in Seq(Bytes), NEW a, NEW z, NEW text \in Seq(Characters), NEW settled,
           ShowsPart(s, a, z, text, settled)
    PROVE  a \in 0..Len(s) /\ z \in 0..Len(s)
  <1>1. PICK cuts : CutsInto(cuts, s, a, z, text, settled)
    BY DEF ShowsPart
  <1>2. Len(text) \in Nat
    BY LenProperties
  <1> QED
    BY <1>1, <1>2 DEF CutsInto

\* One character more.
LEMMA ShowsOneMore ==
    ASSUME NEW s \in Seq(Bytes), NEW a, NEW z \in 0..(Len(s) - 1),
           NEW text \in Seq(Characters), NEW settled,
           ShowsPart(s, a, z, text, settled), settled => Settled(s, z)
    PROVE  ShowsPart(s, a, z + Longest(s, z), Append(text, CharacterAt(s, z)), settled)
  <1> DEFINE m == Len(text)
             x == CharacterAt(s, z)
             longer == Append(text, x)
             next == z + Longest(s, z)
  <1>1. PICK cuts : CutsInto(cuts, s, a, z, text, settled)
    BY DEF ShowsPart
  <1> DEFINE more == [i \in 0..(m + 1) |-> IF i = m + 1 THEN next ELSE cuts[i]]
  <1>2. Len(s) \in Nat /\ next \in 0..Len(s)
    BY LenProperties, LongestProperties
  <1>3. x \in Characters
    BY CharacterAtType
  <1> HIDE DEF x, next
  <1>4. /\ m \in Nat /\ Len(longer) = m + 1 /\ longer[m + 1] = x
        /\ \A i \in 1..m : longer[i] = text[i]
    BY <1>3, LenProperties, AppendProperties
  <1> HIDE DEF longer
  <1>5. /\ cuts \in [0..m -> 0..Len(s)] /\ cuts[0] = a /\ cuts[m] = z
        /\ \A i \in 1..m :
              /\ cuts[i - 1] < Len(s)
              /\ cuts[i] = cuts[i - 1] + Longest(s, cuts[i - 1])
              /\ text[i] = CharacterAt(s, cuts[i - 1])
              /\ settled => Settled(s, cuts[i - 1])
    BY <1>1 DEF CutsInto
  <1> HIDE DEF m
  <1>6. more \in [0..(m + 1) -> 0..Len(s)] /\ more[0] = a /\ more[m + 1] = next
    BY <1>2, <1>4, <1>5
  <1>7. ASSUME NEW i \in 1..(m + 1)
        PROVE  /\ more[i - 1] < Len(s)
               /\ more[i] = more[i - 1] + Longest(s, more[i - 1])
               /\ longer[i] = CharacterAt(s, more[i - 1])
               /\ settled => Settled(s, more[i - 1])
    <2>1. CASE i = m + 1
      <3>1. more[i - 1] = z /\ more[i] = next
        BY <1>4, <1>5, <2>1
      <3> HIDE DEF more
      <3> QED
        BY <1>2, <1>4, <2>1, <3>1 DEF next, x
    <2>2. CASE i \in 1..m
      <3>1. more[i] = cuts[i] /\ more[i - 1] = cuts[i - 1] /\ longer[i] = text[i]
        BY <1>4, <2>2
      <3> HIDE DEF more
      <3> QED
        BY <1>5, <2>2, <3>1
    <2> QED
      BY <1>4, <2>1, <2>2
  <1> HIDE DEF more
  <1>8. CutsInto(more, s, a, next, longer, settled)
    BY <1>4, <1>6, <1>7 DEF CutsInto
  <1> QED
    BY <1>8 DEF ShowsPart, longer, x, next

\* Two parts, one after the other, are one.
LEMMA ShowsBoth ==
    ASSUME NEW s \in Seq(Bytes), NEW a, NEW b, NEW z, NEW settled,
           NEW t \in Seq(Characters), ShowsPart(s, a, b, t, settled),
           NEW u \in Seq(Characters), ShowsPart(s, b, z, u, settled)
    PROVE  ShowsPart(s, a, z, t \o u, settled)
  <1> DEFINE m == Len(t)
             n == Len(u)
             both == t \o u
  <1>1. PICK f : CutsInto(f, s, a, b, t, settled)
    BY DEF ShowsPart
  <1>2. PICK g : CutsInto(g, s, b, z, u, settled)
    BY DEF ShowsPart
  <1> DEFINE h == [i \in 0..(m + n) |-> IF i <= m THEN f[i] ELSE g[i - m]]
  <1>3. /\ m \in Nat /\ n \in Nat /\ Len(both) = m + n
        /\ \A i \in 1..(m + n) : both[i] = IF i <= m THEN t[i] ELSE u[i - m]
    BY LenProperties, ConcatProperties
  <1> HIDE DEF both
  <1>4. /\ f \in [0..m -> 0..Len(s)] /\ f[0] = a /\ f[m] = b
        /\ \A i \in 1..m :
              /\ f[i - 1] < Len(s)
              /\ f[i] = f[i - 1] + Longest(s, f[i - 1])
              /\ t[i] = CharacterAt(s, f[i - 1])
              /\ settled => Settled(s, f[i - 1])
    BY <1>1 DEF CutsInto
  <1>5. /\ g \in [0..n -> 0..Len(s)] /\ g[0] = b /\ g[n] = z
        /\ \A i \in 1..n :
              /\ g[i - 1] < Len(s)
              /\ g[i] = g[i - 1] + Longest(s, g[i - 1])
              /\ u[i] = CharacterAt(s, g[i - 1])
              /\ settled => Settled(s, g[i - 1])
    BY <1>2 DEF CutsInto
  <1> HIDE DEF m, n
  <1>6. h \in [0..(m + n) -> 0..Len(s)] /\ h[0] = a /\ h[m + n] = z
    <2>1. ASSUME NEW i \in 0..(m + n) PROVE h[i] \in 0..Len(s)
      <3>1. CASE i <= m
        BY <1>3, <1>4, <3>1
      <3>2. CASE i > m
        <4>1. i - m \in 0..n
          BY <1>3, <3>2
        <4> QED
          BY <1>3, <1>5, <3>2, <4>1
      <3> QED
        BY <1>3, <3>1, <3>2
    <2>2. CASE n = 0
      BY <1>3, <1>4, <1>5, <2>1, <2>2
    <2>3. CASE n # 0
      <3>1. ~(m + n <= m) /\ (m + n) - m = n /\ 0 <= m
        BY <1>3, <2>3
      <3> QED
        BY <1>3, <1>4, <1>5, <2>1, <3>1
    <2> QED
      BY <2>2, <2>3
  <1>7. ASSUME NEW i \in 1..(m + n)
        PROVE  /\ h[i - 1] < Len(s)
               /\ h[i] = h[i - 1] + Longest(s, h[i - 1])
               /\ both[i] = CharacterAt(s, h[i - 1])
               /\ settled => Settled(s, h[i - 1])
    <2>1. CASE i <= m
      <3>1. h[i] = f[i] /\ h[i - 1] = f[i - 1] /\ both[i] = t[i] /\ i \in 1..m
        BY <1>3, <2>1
      <3> HIDE DEF h
      <3> QED
        BY <1>4, <3>1
    <2>2. CASE i > m
      <3> DEFINE k == i - m
      <3>1. k \in 1..n /\ h[i] = g[k] /\ both[i] = u[k]
        BY <1>3, <2>2
      <3>2. h[i - 1] = g[k - 1]
        <4>1. CASE i = m + 1
          BY <1>3, <1>4, <1>5, <4>1
        <4>2. CASE i # m + 1
          <5>1. ~(i - 1 <= m) /\ (i - 1) - m = k - 1 /\ i - 1 \in 0..(m + n)
            BY <1>3, <2>2, <4>2
          <5> QED
            BY <5>1
        <4> QED
          BY <4>1, <4>2
      <3> HIDE DEF h, k
      <3> QED
        BY <1>5, <3>1, <3>2
    <2> QED
      BY <1>3, <2>1, <2>2
  <1> HIDE DEF h
  <1>8. CutsInto(h, s, a, z, both, settled)
    BY <1>3, <1>6, <1>7 DEF CutsInto
  <1> QED
    BY <1>8 DEF ShowsPart, both

\* A settled part is a part.
LEMMA ShowsAnyway ==
    ASSUME NEW s, NEW a, NEW z, NEW text, NEW settled, NEW less,
           ShowsPart(s, a, z, text, settled), less => settled
    PROVE  ShowsPart(s, a, z, text, less)
  BY DEF ShowsPart, CutsInto

\* A settled part stays when the stream grows.
LEMMA ShowsStill ==
    ASSUME NEW s \in Seq(Bytes), NEW x \in Bytes, NEW a, NEW z,
           NEW text \in Seq(Characters), ShowsPart(s, a, z, text, TRUE)
    PROVE  ShowsPart(Append(s, x), a, z, text, TRUE)
  <1> DEFINE t == Append(s, x)
  <1>1. PICK cuts : CutsInto(cuts, s, a, z, text, TRUE)
    BY DEF ShowsPart
  <1>2. /\ Len(s) \in Nat /\ Len(text) \in Nat /\ Len(t) = Len(s) + 1
    BY LenProperties, AppendProperties
  <1>3. /\ cuts \in [0..Len(text) -> 0..Len(s)] /\ cuts[0] = a /\ cuts[Len(text)] = z
        /\ \A i \in 1..Len(text) :
              /\ cuts[i - 1] < Len(s)
              /\ cuts[i] = cuts[i - 1] + Longest(s, cuts[i - 1])
              /\ text[i] = CharacterAt(s, cuts[i - 1])
              /\ Settled(s, cuts[i - 1])
    BY <1>1 DEF CutsInto
  <1> HIDE DEF t
  <1>4. ASSUME NEW i \in 1..Len(text)
        PROVE  /\ cuts[i - 1] < Len(t)
               /\ cuts[i] = cuts[i - 1] + Longest(t, cuts[i - 1])
               /\ text[i] = CharacterAt(t, cuts[i - 1])
               /\ Settled(t, cuts[i - 1])
    <2>3. cuts[i - 1] \in 0..Len(s)
      <3>1. i - 1 \in 0..Len(text)
        BY <1>2
      <3> QED
        BY <1>3, <3>1
    <2>1. cuts[i - 1] \in 0..(Len(s) - 1) /\ Settled(s, cuts[i - 1])
      BY <1>2, <1>3, <2>3
    <2>2. /\ Longest(t, cuts[i - 1]) = Longest(s, cuts[i - 1])
          /\ CharacterAt(t, cuts[i - 1]) = CharacterAt(s, cuts[i - 1])
          /\ Settled(t, cuts[i - 1])
      BY <2>1, SettledStays DEF t
    <2> QED
      BY <1>2, <1>3, <2>1, <2>2
  <1>5. cuts \in [0..Len(text) -> 0..Len(t)]
    BY <1>2, <1>3
  <1>6. CutsInto(cuts, t, a, z, text, TRUE)
    BY <1>3, <1>4, <1>5 DEF CutsInto
  <1> QED
    BY <1>6 DEF ShowsPart, t

\* What a decoder shows of the bytes from a position on, for the last m positions.
AreRests(f, s, m) ==
    /\ f \in [(Len(s) - m)..Len(s) -> Seq(Characters)] /\ f[Len(s)] = <<>>
    /\ \A at \in (Len(s) - m)..(Len(s) - 1) :
          f[at] = <<CharacterAt(s, at)>> \o f[at + Longest(s, at)]

LEMMA RestsExist ==
    ASSUME NEW s \in Seq(Bytes)
    PROVE  \E f : AreRests(f, s, Len(s))
  <1> DEFINE n == Len(s)
             S == {m \in 0..n : \E f : AreRests(f, s, m)}
  <1>1. n \in Nat
    BY LenProperties
  <1>2. 0 \in S
    <2> DEFINE f == [at \in (n - 0)..n |-> <<>>]
    <2>1. /\ f \in [(n - 0)..n -> Seq(Characters)] /\ f[n] = <<>>
          /\ (n - 0)..(n - 1) = {}
      BY <1>1, EmptySeq
    <2> HIDE DEF f
    <2>2. AreRests(f, s, 0)
      BY <2>1 DEF AreRests
    <2> QED
      BY <1>1, <2>2
  <1>3. ASSUME NEW m \in 0..(n - 1), m \in S PROVE m + 1 \in S
    <2>1. PICK f : AreRests(f, s, m)
      BY <1>3
    <2> DEFINE top == n - (m + 1)
               jump == top + Longest(s, top)
               first == <<CharacterAt(s, top)>> \o f[jump]
               g == [at \in top..n |-> IF at = top THEN first ELSE f[at]]
    <2>2. top \in 0..(n - 1) /\ n - m = top + 1 /\ top + 1 <= n
      BY <1>1
    <2>3. jump \in (n - m)..n
      BY <1>1, <2>2, LongestProperties
    <2> HIDE DEF top, jump
    <2>4. f \in [(n - m)..n -> Seq(Characters)] /\ f[n] = <<>>
      BY <2>1 DEF AreRests
    <2>5. first \in Seq(Characters)
      <3>1. <<CharacterAt(s, top)>> \in Seq(Characters)
        BY <2>2, CharacterAtType
      <3>2. f[jump] \in Seq(Characters)
        BY <2>3, <2>4
      <3> QED
        BY <3>1, <3>2, ConcatProperties
    <2> HIDE DEF first
    <2>6. g \in [top..n -> Seq(Characters)] /\ g[n] = <<>>
      BY <1>1, <2>2, <2>4, <2>5
    <2>7. ASSUME NEW at \in top..(n - 1)
          PROVE  g[at] = <<CharacterAt(s, at)>> \o g[at + Longest(s, at)]
      <3>1. at \in 0..(n - 1)
        BY <1>1, <2>2
      <3>2. Longest(s, at) \in 1..4 /\ at + Longest(s, at) <= n
        BY <3>1, LongestProperties
      <3>3. g[at + Longest(s, at)] = f[at + Longest(s, at)]
        BY <1>1, <2>2, <3>1, <3>2
      <3>4. CASE at = top
        <4>1. g[at] = first
          BY <1>1, <2>2, <3>4
        <4> QED
          BY <3>3, <3>4, <4>1 DEF first, jump
      <3>5. CASE at # top
        <4>1. at \in (n - m)..(n - 1) /\ g[at] = f[at]
          BY <1>1, <2>2, <3>5
        <4> HIDE DEF g
        <4>2. f[at] = <<CharacterAt(s, at)>> \o f[at + Longest(s, at)]
          BY <2>1, <4>1 DEF AreRests
        <4> QED
          BY <3>3, <4>1, <4>2
      <3> QED
        BY <3>4, <3>5
    <2> HIDE DEF g
    <2>8. AreRests(g, s, m + 1)
      BY <2>6, <2>7 DEF AreRests, top
    <2> QED
      BY <1>1, <2>8
  <1>4. n \in S
    <2> HIDE DEF S, n
    <2>1. 0..n \subseteq S
      BY <1>1, <1>2, <1>3, Upwards
    <2> QED
      BY <1>1, <2>1
  <1> QED
    BY <1>4

\* Decoded shows the whole.
LEMMA DecodedIsRest ==
    ASSUME NEW s \in Seq(Bytes)
    PROVE  \E f : AreRests(f, s, Len(s)) /\ Decoded(s) = f[0]
  <1> DEFINE n == Len(s)
             IsRest(f) == f = [at \in 0..n |->
                                 IF at = n THEN <<>>
                                 ELSE <<CharacterAt(s, at)>> \o f[at + Longest(s, at)]]
             rest == CHOOSE f : IsRest(f)
  <1>1. n \in Nat /\ n - n = 0
    BY LenProperties
  <1>2. PICK g : AreRests(g, s, n)
    BY RestsExist
  <1>3. /\ g \in [0..n -> Seq(Characters)] /\ g[n] = <<>>
        /\ \A at \in 0..(n - 1) : g[at] = <<CharacterAt(s, at)>> \o g[at + Longest(s, at)]
    BY <1>1, <1>2 DEF AreRests
  <1>4. IsRest(g)
    <2>1. ASSUME NEW at \in 0..n
          PROVE  g[at] = IF at = n THEN <<>>
                         ELSE <<CharacterAt(s, at)>> \o g[at + Longest(s, at)]
      <3>1. CASE at = n
        BY <1>3, <3>1
      <3>2. CASE at # n
        <4>1. at \in 0..(n - 1)
          BY <1>1, <3>2
        <4> QED
          BY <1>3, <3>2, <4>1
      <3> QED
        BY <3>1, <3>2
    <2> QED
      BY <1>3, <2>1
  <1>5. IsRest(rest)
    BY <1>4
  <1>6. Decoded(s) = rest[0]
    BY DEF Decoded
  <1> HIDE DEF rest
  <1>7. /\ rest[n] = <<>> /\ DOMAIN rest = 0..n /\ rest = [at \in 0..n |-> rest[at]]
        /\ \A at \in 0..(n - 1) :
              rest[at] = <<CharacterAt(s, at)>> \o rest[at + Longest(s, at)]
    <2>1. \A at \in 0..n : rest[at] = IF at = n THEN <<>>
                           ELSE <<CharacterAt(s, at)>> \o rest[at + Longest(s, at)]
      BY <1>5
    <2>2. rest[n] = <<>>
      <3>1. n \in 0..n
        BY <1>1
      <3> HIDE DEF n
      <3> QED
        BY <2>1, <3>1
    <2>3. ASSUME NEW at \in 0..(n - 1)
          PROVE  rest[at] = <<CharacterAt(s, at)>> \o rest[at + Longest(s, at)]
      <3>1. at \in 0..n /\ at # n
        BY <1>1
      <3> QED
        BY <2>1, <3>1
    <2>4. DOMAIN rest = 0..n /\ rest = [at \in 0..n |-> rest[at]]
      BY <1>5
    <2> QED
      BY <2>2, <2>3, <2>4
  <1> DEFINE S == {m \in 0..n : \A at \in (n - m)..n : rest[at] \in Seq(Characters)}
  <1>8. 0 \in S
    <2>1. \A at \in (n - 0)..n : at = n
      BY <1>1
    <2>2. <<>> \in Seq(Characters)
      BY EmptySeq
    <2>3. \A at \in (n - 0)..n : rest[at] \in Seq(Characters)
      BY <1>7, <2>1, <2>2
    <2>4. 0 \in 0..n
      BY <1>1
    <2> QED
      BY <2>3, <2>4
  <1>9. ASSUME NEW m \in 0..(n - 1), m \in S PROVE m + 1 \in S
    <2>1. ASSUME NEW at \in (n - (m + 1))..n PROVE rest[at] \in Seq(Characters)
      <3>1. CASE at \in (n - m)..n
        BY <1>9, <3>1
      <3>2. CASE at = n - (m + 1)
        <4>1. at \in 0..(n - 1)
          BY <1>1, <3>2
        <4>2. Longest(s, at) \in 1..4 /\ at + Longest(s, at) <= n
          BY <4>1, LongestProperties
        <4>3. at + Longest(s, at) \in (n - m)..n
          BY <1>1, <3>2, <4>1, <4>2
        <4>4. rest[at + Longest(s, at)] \in Seq(Characters)
          BY <1>9, <4>3
        <4>5. <<CharacterAt(s, at)>> \in Seq(Characters)
          BY <4>1, CharacterAtType
        <4>6. <<CharacterAt(s, at)>> \o rest[at + Longest(s, at)] \in Seq(Characters)
          BY <4>4, <4>5, ConcatProperties
        <4> QED
          BY <1>7, <4>1, <4>6
      <3> QED
        BY <1>1, <3>1, <3>2
    <2>2. m + 1 \in 0..n
      BY <1>1
    <2> QED
      BY <2>1, <2>2
  <1>10. \A at \in 0..n : rest[at] \in Seq(Characters)
    <2>1. n \in S
      <3> HIDE DEF S, n
      <3>1. 0..n \subseteq S
        BY <1>1, <1>8, <1>9, Upwards
      <3> QED
        BY <1>1, <3>1
    <2> QED
      BY <1>1, <2>1
  <1>11. AreRests(rest, s, n)
    <2>1. rest \in [0..n -> Seq(Characters)]
      BY <1>7, <1>10
    <2> QED
      BY <1>1, <1>7, <2>1 DEF AreRests
  <1> QED
    BY <1>6, <1>11

\* Texts are put together in any order.
LEMMA TextsAssociate ==
    ASSUME NEW x \in Seq(Characters), NEW y \in Seq(Characters), NEW w \in Seq(Characters)
    PROVE  (x \o y) \o w = x \o (y \o w)
  BY ConcatAssociative

\* A text that shows the stream up to a place is a prefix of what a decoder of the
\* whole stream shows; at its end it is all of that.
LEMMA ShownIsDecoded ==
    ASSUME NEW s \in Seq(Bytes), NEW z, NEW text \in Seq(Characters), NEW settled,
           ShowsPart(s, 0, z, text, settled)
    PROVE  IsPrefix(text, Decoded(s)) /\ (z = Len(s) => text = Decoded(s))
  <1> DEFINE m == Len(text)
             n == Len(s)
  <1>1. m \in Nat /\ n \in Nat /\ n - n = 0
    BY LenProperties
  <1>2. PICK cuts : CutsInto(cuts, s, 0, z, text, settled)
    BY DEF ShowsPart
  <1>3. PICK rest : AreRests(rest, s, n) /\ Decoded(s) = rest[0]
    BY DecodedIsRest
  <1>4. /\ cuts \in [0..m -> 0..n] /\ cuts[0] = 0
        /\ \A i \in 1..m : /\ cuts[i - 1] < n
                           /\ cuts[i] = cuts[i - 1] + Longest(s, cuts[i - 1])
                           /\ text[i] = CharacterAt(s, cuts[i - 1])
    BY <1>2 DEF CutsInto
  <1>5. /\ rest \in [0..n -> Seq(Characters)]
        /\ \A at \in 0..(n - 1) : rest[at] = <<CharacterAt(s, at)>> \o rest[at + Longest(s, at)]
    BY <1>1, <1>3 DEF AreRests
  <1> HIDE DEF m, n
  <1> DEFINE S == {i \in Nat : rest[0] = SubSeq(text, 1, i) \o rest[cuts[i]]}
  <1>6. 0 \in S
    <2>1. rest[0] \in Seq(Characters) /\ SubSeq(text, 1, 0) = <<>>
      BY <1>1, <1>5, SubSeqEmpty
    <2> QED
      BY <1>4, <2>1, ConcatEmptySeq
  <1>7. ASSUME NEW i \in 0..(m - 1), i \in S PROVE i + 1 \in S
    <2> DEFINE at == cuts[i]
               head == SubSeq(text, 1, i)
               one == <<CharacterAt(s, at)>>
               tail == rest[cuts[i + 1]]
    <2>1. i \in 0..m /\ i + 1 \in 1..m /\ i + 1 \in 0..m /\ (i + 1) - 1 = i
      BY <1>1
    <2>2. /\ at \in 0..(n - 1) /\ cuts[i + 1] = at + Longest(s, at)
          /\ text[i + 1] = CharacterAt(s, at) /\ cuts[i + 1] \in 0..n
      BY <1>1, <1>4, <2>1
    <2> HIDE DEF at
    <2>3. rest[at] = one \o tail
      BY <1>5, <2>2
    <2>4. tail \in Seq(Characters) /\ one \in Seq(Characters)
      BY <1>5, <2>2, CharacterAtType DEF n
    <2>5. SubSeq(text, 1, i + 1) = head \o one
      <3>1. 1 \in 1..Len(text) /\ i + 1 \in 1..Len(text) /\ (i + 1) - 1 = i
        BY <1>1, <2>1 DEF m
      <3>2. SubSeq(text, 1, i + 1) = SubSeq(text, 1, (i + 1) - 1) \o <<text[i + 1]>>
        BY <3>1, SubSeqRecursiveSecond
      <3> QED
        BY <2>2, <3>1, <3>2
    <2>6. head \in Seq(Characters)
      <3>1. \A k \in 1..i : text[k] \in Characters
        BY <1>1, <2>1, ElementOfSeq DEF m
      <3> QED
        BY <3>1, SubSeqProperties
    <2>7. rest[0] = head \o rest[at]
      BY <1>7 DEF at
    <2>8. rest[0] = head \o (one \o tail)
      <3> HIDE DEF head, one, tail
      <3> QED
        BY <2>3, <2>7
    <2>9. (head \o one) \o tail = head \o (one \o tail)
      <3> HIDE DEF head, one, tail
      <3> QED
        BY <2>4, <2>6, TextsAssociate
    <2>10. rest[0] = SubSeq(text, 1, i + 1) \o rest[cuts[i + 1]]
      BY <2>5, <2>8, <2>9
    <2>11. i + 1 \in Nat
      OBVIOUS
    <2> QED
      BY Zenon, <2>10, <2>11
  <1>8. m \in S
    <2> HIDE DEF S
    <2>1. 0..m \subseteq S
      BY <1>1, <1>6, <1>7, Upwards
    <2> QED
      BY <1>1, <2>1
  <1>9. rest[0] = text \o rest[cuts[m]]
    BY <1>8, SubSeqFull DEF m
  <1>10. rest[cuts[m]] \in Seq(Characters)
    BY <1>1, <1>4, <1>5
  <1>11. PICK tail : tail \in Seq(Characters) /\ Decoded(s) = text \o tail
    BY <1>3, <1>9, <1>10
  <1>12. Len(text) \in Nat /\ Len(text \o tail) = Len(text) + Len(tail) /\ Len(tail) \in Nat
    BY <1>11, ConcatProperties, LenProperties
  <1>13. SubSeq(text \o tail, 1, Len(text)) = SubSeq(text, 1, Len(text))
    <2>1. CASE Len(text) = 0
      BY <1>12, <2>1, SubSeqEmpty
    <2>2. CASE Len(text) # 0
      <3>1. 1 \in 1..Len(text) /\ Len(text) \in 1..Len(text)
        BY <1>12, <2>2
      <3> QED
        BY <1>11, <3>1, SubSeqOfConcat1
    <2> QED
      BY <2>1, <2>2
  <1>14. IsPrefix(text, Decoded(s))
    BY <1>11, <1>12, <1>13 DEF IsPrefix
  <1>15. ASSUME z = Len(s) PROVE text = Decoded(s)
    <2>1. cuts[m] = n
      BY <1>2, <1>15 DEF CutsInto, m, n
    <2>2. rest[n] = <<>>
      BY <1>3 DEF AreRests, n
    <2>3. text \o <<>> = text
      BY ConcatEmptySeq
    <2> QED
      BY <1>3, <1>9, <2>1, <2>2, <2>3
  <1> QED
    BY <1>14, <1>15

-----------------------------------------------------------------------------
(* What a page takes of the envelope *)

LEMMA EscapedBound ==
    ASSUME NEW text \in Characters
    PROVE  Escaped(text) \in 1..5
  BY DEF Escaped, Characters

\* A larger number has no fewer digits.
LEMMA DigitsGrow ==
    ASSUME NEW n \in Nat, NEW N \in Nat, n <= N
    PROVE  Digits(n) \in Nat /\ Digits(n) <= Digits(N)
  <1> DEFINE Powers(m) == {k \in 1..m : Radix ^ k \in 1..m}
  <1>1. 1..n \subseteq 1..N
    OBVIOUS
  <1>2. Powers(n) \subseteq Powers(N) /\ Powers(N) \subseteq 1..N
    BY <1>1
  <1>3. IsFiniteSet(1..N)
    BY FS_Interval
  <1> HIDE DEF Powers
  <1>4. IsFiniteSet(Powers(N))
    BY <1>2, <1>3, FS_Subset
  <1>5. IsFiniteSet(Powers(n)) /\ Cardinality(Powers(n)) <= Cardinality(Powers(N))
    BY <1>2, <1>4, FS_Subset
  <1>6. Cardinality(Powers(n)) \in Nat /\ Cardinality(Powers(N)) \in Nat
    BY <1>4, <1>5, FS_CardinalityType
  <1>7. Digits(n) = 1 + Cardinality(Powers(n)) /\ Digits(N) = 1 + Cardinality(Powers(N))
    BY DEF Digits, Powers
  <1> QED
    BY <1>5, <1>6, <1>7

\* The envelope of a page with one character is within its limit.
LEMMA OneCharacterIsWithin ==
    ASSUME NEW next \in Nat, NEW retained, next <= MaxBytes, NEW x \in Characters
    PROVE  /\ Metadata(next, retained) \in Nat
           /\ Metadata(next, retained) + Escaped(x) <= EnvelopeLimit
  <1>1. MaxBytes \in Nat /\ EnvelopeLimit \in Nat
    BY LimitsAreNumbers
  <1>2. Digits(next) \in Nat /\ Digits(next) <= Digits(MaxBytes) /\ Digits(MaxBytes) \in Nat
    BY <1>1, DigitsGrow
  <1>3. Metadata(next, retained) \in Nat /\ Metadata(next, retained) <= Digits(MaxBytes) + 5
    BY <1>2 DEF Metadata
  <1>4. Escaped(x) \in 1..5
    BY EscapedBound
  <1> QED
    BY <1>1, <1>2, <1>3, <1>4, OneCharacterFits

-----------------------------------------------------------------------------
(* A page *)

\* The bytes that a page decodes.
WindowAt(s, from) == SubSeq(s, from + 1, Min({Len(s), from + Window + Lookahead}))

\* They are the next of the stream, up to its end or Lookahead beyond the window.
LEMMA WindowProperties ==
    ASSUME NEW s \in Seq(Bytes), NEW from \in 0..Len(s)
    PROVE  LET bytes == WindowAt(s, from)
           IN  /\ bytes \in Seq(Bytes) /\ Len(bytes) \in Nat
               /\ from + Len(bytes) <= Len(s)
               /\ from + Len(bytes) = Len(s) \/ Len(bytes) = Window + Lookahead
               /\ \A k \in 1..Len(bytes) : bytes[k] = s[from + k]
  <1> DEFINE last == Min({Len(s), from + Window + Lookahead})
             bytes == WindowAt(s, from)
  <1>1. /\ Len(s) \in Nat /\ Window \in Nat /\ Lookahead \in Nat /\ from \in Nat
        /\ from <= Len(s)
    BY LenProperties, LimitsAreNumbers, LookaheadCompletesACharacter
  <1>2. from + Window + Lookahead \in Nat /\ from <= from + Window + Lookahead
    BY <1>1
  <1>3. {Len(s), from + Window + Lookahead} \subseteq Nat
    BY <1>1, <1>2
  <1>4. /\ last \in {Len(s), from + Window + Lookahead}
        /\ \A x \in {Len(s), from + Window + Lookahead} : last <= x
    BY <1>3, MinOfNats
  <1>5. /\ last \in Nat /\ from <= last /\ last <= Len(s)
        /\ last = Len(s) \/ last = from + Window + Lookahead
    BY <1>1, <1>2, <1>4
  <1> HIDE DEF last
  <1>6. \A k \in (from + 1)..last : k \in 1..Len(s)
    BY <1>1, <1>5
  <1>7. \A k \in (from + 1)..last : s[k] \in Bytes
    BY <1>6, ElementOfSeq
  <1>8. bytes = SubSeq(s, from + 1, last)
    BY DEF last, WindowAt
  <1>9. from + 1 \in Int /\ last \in Int
    BY <1>1, <1>5
  <1>10. /\ bytes \in Seq(Bytes)
         /\ Len(bytes) = IF from + 1 <= last THEN last - (from + 1) + 1 ELSE 0
         /\ \A k \in 1..(last - (from + 1) + 1) : bytes[k] = s[(from + 1) + k - 1]
    BY <1>7, <1>8, <1>9, SubSeqProperties
  <1> HIDE DEF bytes
  <1>11. Len(bytes) = last - from
    BY <1>1, <1>5, <1>10
  <1>12. \A k \in 1..Len(bytes) : bytes[k] = s[from + k]
    <2> TAKE k \in 1..Len(bytes)
    <2>1. k \in 1..(last - (from + 1) + 1) /\ (from + 1) + k - 1 = from + k
      BY <1>1, <1>5, <1>11
    <2> QED
      BY <1>10, <2>1
  <1>13. /\ Len(bytes) \in Nat /\ from + Len(bytes) <= Len(s)
         /\ from + Len(bytes) = Len(s) \/ Len(bytes) = Window + Lookahead
    BY <1>1, <1>5, <1>11
  <1> QED
    BY <1>10, <1>12, <1>13 DEF bytes

\* A page shows what it has consumed, counts what it shows, and has room for it.
IsPage(p, s, from, canGrow) ==
    /\ p \in [consumed : Nat, text : Seq(Characters), escaped : Nat, lineFeeds : Nat,
              full : BOOLEAN]
    /\ p.consumed <= Len(WindowAt(s, from))
    /\ p.escaped = EscapedText(p.text)
    /\ ShowsPart(s, from, from + p.consumed, p.text, canGrow)
    /\ p.consumed > 0 => Metadata(from + p.consumed, Len(s)) + p.escaped <= EnvelopeLimit

LEMMA EmptyPageIsPage ==
    ASSUME NEW s \in Seq(Bytes), NEW from \in 0..Len(s), NEW canGrow \in BOOLEAN
    PROVE  IsPage(EmptyPage, s, from, canGrow)
  <1>1. Len(WindowAt(s, from)) \in Nat /\ from + 0 = from
    BY WindowProperties
  <1>2. ShowsPart(s, from, from, <<>>, canGrow)
    BY ShowsNothing
  <1>3. <<>> \in Seq(Characters)
    BY EmptySeq
  <1> QED
    BY <1>1, <1>2, <1>3, EscapedTextEmpty DEF IsPage, EmptyPage

\* The next character of the window is the next character of the stream.
LEMMA NextCharacter ==
    ASSUME NEW s \in Seq(Bytes), NEW from \in 0..Len(s), NEW canGrow \in BOOLEAN,
           NEW at \in Nat, at < Len(WindowAt(s, from)), at < Window
    PROVE  LET bytes == WindowAt(s, from)
               token == Token(bytes, at, from + Len(bytes) = Len(s), canGrow)
           IN  /\ token # Incomplete =>
                     /\ token.consumed = Longest(s, from + at)
                     /\ token.text = CharacterAt(s, from + at)
                     /\ token.consumed \in 1..4 /\ token.text \in Characters
                     /\ at + token.consumed <= Len(bytes)
                     /\ canGrow => Settled(s, from + at)
               /\ at = 0 /\ CanAdvance(s, from, canGrow) => token # Incomplete
               /\ from + at \in 0..(Len(s) - 1)
  <1> DEFINE bytes == WindowAt(s, from)
             endsHere == from + Len(bytes) = Len(s)
             token == Token(bytes, at, endsHere, canGrow)
             left == Len(bytes) - at
  <1>1. /\ bytes \in Seq(Bytes) /\ Len(bytes) \in Nat
        /\ from + Len(bytes) <= Len(s)
        /\ from + Len(bytes) = Len(s) \/ Len(bytes) = Window + Lookahead
        /\ \A k \in 1..Len(bytes) : bytes[k] = s[from + k]
    BY WindowProperties
  <1>2. Len(s) \in Nat /\ Window \in Nat /\ Lookahead \in Nat /\ Lookahead >= 3
    BY LenProperties, LimitsAreNumbers, LookaheadCompletesACharacter
  <1>3. at < Len(bytes)
    OBVIOUS
  <1> HIDE DEF bytes
  <1>4. at \in 0..(Len(bytes) - 1) /\ from + at \in 0..(Len(s) - 1)
    BY <1>1, <1>2, <1>3
  <1>5. endsHere \/ left >= 4
    BY <1>1, <1>2
  <1>6. SameBytes(bytes, at, s, from + at)
    <2> SUFFICES ASSUME NEW k \in 1..4, at + k <= Len(bytes)
                 PROVE  bytes[at + k] = s[from + at + k]
      BY DEF SameBytes
    <2>1. at + k \in 1..Len(bytes) /\ from + (at + k) = from + at + k
      BY <1>1, <1>2
    <2> QED
      BY <1>1, <2>1
  <1>7. SameLeft(bytes, at, s, from + at)
    BY <1>1, <1>2, <1>3 DEF SameLeft
  <1>8. /\ Longest(bytes, at) = Longest(s, from + at)
        /\ CharacterAt(bytes, at) = CharacterAt(s, from + at)
        /\ Settled(bytes, at) => Settled(s, from + at)
    BY <1>1, <1>4, <1>6, <1>7, WindowShowsCharacter
  <1>9. /\ Longest(bytes, at) \in 1..4 /\ at + Longest(bytes, at) <= Len(bytes)
        /\ CharacterAt(bytes, at) \in Characters
    BY <1>1, <1>4, LongestProperties, CharacterAtType
  <1>10. endsHere \in BOOLEAN
    OBVIOUS
  <1> HIDE DEF endsHere
  <1>11. /\ token # Incomplete =>
               /\ token.consumed = Longest(bytes, at)
               /\ token.text = CharacterAt(bytes, at)
         /\ token = Incomplete <=> endsHere /\ canGrow /\ ~Settled(bytes, at)
         /\ Len(bytes) - at >= 4 => Settled(bytes, at)
    BY <1>1, <1>4, <1>10, TokenIsCharacter
  <1>12. at = 0 /\ CanAdvance(s, from, canGrow) => token # Incomplete
    <2> SUFFICES ASSUME at = 0, canGrow => Settled(s, from + at) PROVE token # Incomplete
      BY <1>1 DEF CanAdvance
    <2>1. SameBytes(s, from + at, bytes, at) /\ SameLeft(s, from + at, bytes, at)
      BY <1>6, <1>7 DEF SameBytes, SameLeft
    <2>2. Settled(s, from + at) => Settled(bytes, at)
      BY <1>1, <1>4, <2>1, WindowShowsCharacter
    <2> QED
      BY <1>11, <2>2
  <1> HIDE DEF token
  <1> QED
    BY <1>4, <1>5, <1>8, <1>9, <1>11, <1>12 DEF token, endsHere, bytes

\* Extending keeps a page a page.
LEMMA ExtendedIsPage ==
    ASSUME NEW s \in Seq(Bytes), NEW from \in 0..Len(s), NEW canGrow \in BOOLEAN,
           NEW p, IsPage(p, s, from, canGrow), NEW token,
           token.consumed = Longest(s, from + p.consumed),
           token.text = CharacterAt(s, from + p.consumed),
           token.consumed \in 1..4, token.text \in Characters,
           p.consumed + token.consumed <= Len(WindowAt(s, from)),
           canGrow => Settled(s, from + p.consumed),
           from + p.consumed \in 0..(Len(s) - 1),
           Fits(Extended(p, token), from, Len(s))
    PROVE  /\ IsPage(Extended(p, token), s, from, canGrow)
           /\ Extended(p, token).consumed > 0
  <1> DEFINE longer == Extended(p, token)
  <1>1. /\ p.consumed \in Nat /\ p.text \in Seq(Characters) /\ p.escaped \in Nat
        /\ p.lineFeeds \in Nat /\ p.escaped = EscapedText(p.text)
        /\ ShowsPart(s, from, from + p.consumed, p.text, canGrow)
    BY DEF IsPage
  <1>2. /\ longer.consumed = p.consumed + token.consumed
        /\ longer.text = Append(p.text, token.text)
        /\ longer.escaped = p.escaped + Escaped(token.text)
        /\ longer = [consumed |-> longer.consumed, text |-> longer.text,
                     escaped |-> longer.escaped, lineFeeds |-> longer.lineFeeds,
                     full |-> longer.full]
        /\ longer.lineFeeds = p.lineFeeds + (IF token.text = <<"lf">> THEN 1 ELSE 0)
        /\ longer.full = FALSE
    BY DEF Extended
  <1>3. Escaped(token.text) \in Nat /\ \A y \in Characters : Escaped(y) \in Nat
    BY EscapedBound
  <1>4. Append(p.text, token.text) \in Seq(Characters)
    BY <1>1, AppendProperties
  <1>5. EscapedText(Append(p.text, token.text)) = EscapedText(p.text) + Escaped(token.text)
    BY <1>1, <1>3, EscapedTextAppend
  <1>6. from + longer.consumed = (from + p.consumed) + Longest(s, from + p.consumed)
    BY <1>1, <1>2
  <1>7. ShowsPart(s, from, (from + p.consumed) + Longest(s, from + p.consumed),
                  Append(p.text, CharacterAt(s, from + p.consumed)), canGrow)
    BY <1>1, ShowsOneMore
  <1> HIDE DEF longer
  <1>8. ShowsPart(s, from, from + longer.consumed, longer.text, canGrow)
    BY <1>2, <1>6, <1>7
  <1>9. Metadata(from + longer.consumed, Len(s)) + longer.escaped <= EnvelopeLimit
    BY DEF Fits, longer
  <1>10. /\ longer.consumed \in Nat /\ longer.consumed > 0
         /\ longer.escaped \in Nat /\ longer.lineFeeds \in Nat /\ longer.full \in BOOLEAN
         /\ longer.text \in Seq(Characters)
    <2>1. longer.consumed \in Nat /\ longer.consumed > 0
      <3>1. token.consumed \in Nat /\ token.consumed > 0
        OBVIOUS
      <3>2. longer.consumed = p.consumed + token.consumed
        BY <1>2
      <3> QED
        BY <1>1, <3>1, <3>2
    <2>2. longer.escaped \in Nat
      BY <1>1, <1>2, <1>3
    <2>3. longer.lineFeeds \in Nat
      <3>1. (IF token.text = <<"lf">> THEN 1 ELSE 0) \in {0, 1}
        OBVIOUS
      <3> QED
        BY <1>1, <1>2, <3>1
    <2> QED
      BY <1>2, <1>4, <2>1, <2>2, <2>3
  <1>11. longer \in [consumed : Nat, text : Seq(Characters), escaped : Nat,
                     lineFeeds : Nat, full : BOOLEAN]
    BY <1>2, <1>10
  <1>12. IsPage(longer, s, from, canGrow)
    BY <1>1, <1>2, <1>5, <1>8, <1>9, <1>11 DEF IsPage
  <1> QED
    BY <1>10, <1>12 DEF longer

\* Every turn does, and no turn takes back what the page has.
LEMMA TurnIsPage ==
    ASSUME NEW s \in Seq(Bytes), NEW from \in 0..Len(s), NEW canGrow \in BOOLEAN,
           NEW p, IsPage(p, s, from, canGrow)
    PROVE  LET q == Turn(p, WindowAt(s, from), from, Len(s), canGrow)
           IN  IsPage(q, s, from, canGrow) /\ (p.consumed > 0 => q.consumed > 0)
  <1> DEFINE bytes == WindowAt(s, from)
             token == Token(bytes, p.consumed, from + Len(bytes) = Len(s), canGrow)
             longer == Extended(p, token)
             q == Turn(p, bytes, from, Len(s), canGrow)
             full == [p EXCEPT !.full = TRUE]
  <1>1. /\ p.consumed \in Nat /\ p.consumed <= Len(bytes)
        /\ p \in [consumed : Nat, text : Seq(Characters), escaped : Nat, lineFeeds : Nat,
                  full : BOOLEAN]
    BY DEF IsPage
  <1>2. Len(bytes) \in Nat /\ Window \in Nat
    BY WindowProperties, LimitsAreNumbers
  <1>3. IsPage(full, s, from, canGrow) /\ full.consumed = p.consumed
    <2>1. /\ full.consumed = p.consumed /\ full.text = p.text /\ full.escaped = p.escaped
          /\ full \in [consumed : Nat, text : Seq(Characters), escaped : Nat,
                       lineFeeds : Nat, full : BOOLEAN]
      BY <1>1
    <2> HIDE DEF full
    <2> QED
      BY <2>1 DEF IsPage
  <1>4. \/ q = p
        \/ q = full
        \/ /\ q = longer /\ token # Incomplete /\ Fits(longer, from, Len(s))
           /\ p.consumed < Len(bytes) /\ p.consumed < Window
    <2>1. p.full \/ p.consumed >= Window \/ p.consumed = Len(bytes) => q = p
      BY DEF Turn
    <2>2. ~(p.full \/ p.consumed >= Window \/ p.consumed = Len(bytes)) =>
             /\ p.consumed < Len(bytes) /\ p.consumed < Window
             /\ q = IF token # Incomplete /\ Fits(longer, from, Len(s))
                    THEN longer ELSE full
      <3>1. ~(p.full \/ p.consumed >= Window \/ p.consumed = Len(bytes)) =>
               q = Extend(p, bytes, from, Len(s), canGrow)
        BY DEF Turn
      <3>2. Extend(p, bytes, from, Len(s), canGrow)
               = IF token # Incomplete /\ Fits(longer, from, Len(s)) THEN longer ELSE full
        BY DEF Extend
      <3> HIDE DEF q, full, longer, token, bytes
      <3> QED
        BY <1>1, <1>2, <3>1, <3>2
    <2> HIDE DEF q, full, longer, token, bytes
    <2> QED
      BY <2>1, <2>2
  <1>5. ASSUME q = longer, token # Incomplete, Fits(longer, from, Len(s)),
               p.consumed < Len(bytes), p.consumed < Window
        PROVE  IsPage(q, s, from, canGrow) /\ q.consumed > 0
    <2>1. /\ token.consumed = Longest(s, from + p.consumed)
          /\ token.text = CharacterAt(s, from + p.consumed)
          /\ token.consumed \in 1..4 /\ token.text \in Characters
          /\ p.consumed + token.consumed <= Len(WindowAt(s, from))
          /\ canGrow => Settled(s, from + p.consumed)
          /\ from + p.consumed \in 0..(Len(s) - 1)
      BY <1>1, <1>5, NextCharacter
    <2>2. Fits(Extended(p, token), from, Len(s))
      BY <1>5
    <2> HIDE DEF q, token, bytes
    <2>3. IsPage(Extended(p, token), s, from, canGrow) /\ Extended(p, token).consumed > 0
      BY <2>1, <2>2, ExtendedIsPage
    <2> QED
      BY <1>5, <2>3
  <1> HIDE DEF full, longer, token
  <1>6. IsPage(q, s, from, canGrow) /\ (p.consumed > 0 => q.consumed > 0)
    <2> HIDE DEF q
    <2> QED
      BY <1>3, <1>4, <1>5
  <1> QED
    BY <1>6

\* The first turn takes a character, if one can be had: it is within both limits.
LEMMA FirstTurnAdvances ==
    ASSUME NEW s \in Seq(Bytes), Len(s) <= MaxBytes, NEW from \in 0..Len(s),
           NEW canGrow \in BOOLEAN, CanAdvance(s, from, canGrow)
    PROVE  Turn(EmptyPage, WindowAt(s, from), from, Len(s), canGrow).consumed > 0
  <1> DEFINE bytes == WindowAt(s, from)
             token == Token(bytes, 0, from + Len(bytes) = Len(s), canGrow)
             longer == Extended(EmptyPage, token)
             q == Turn(EmptyPage, bytes, from, Len(s), canGrow)
  <1>1. /\ Len(bytes) \in Nat /\ from + Len(bytes) <= Len(s)
        /\ from + Len(bytes) = Len(s) \/ Len(bytes) = Window + Lookahead
    BY WindowProperties
  <1>2. /\ Len(s) \in Nat /\ Window \in Nat \ {0} /\ Lookahead \in Nat
        /\ LineLimit \in Nat \ {0} /\ MaxBytes \in Nat
    BY LenProperties, LimitsAreNumbers, LookaheadCompletesACharacter
  <1>3. Len(s) - from > 0
    BY <1>2, <1>1 DEF CanAdvance
  <1>4. 0 \in Nat /\ 0 < Len(bytes) /\ 0 < Window
    BY <1>1, <1>2, <1>3
  <1>5. token # Incomplete
    BY <1>4, NextCharacter
  <1>6. /\ token.consumed \in 1..4 /\ token.text \in Characters
        /\ 0 + token.consumed <= Len(bytes)
    BY <1>4, <1>5, NextCharacter
  <1> HIDE DEF token
  <1>7. /\ longer.consumed = 0 + token.consumed
        /\ longer.text = Append(<<>>, token.text)
        /\ longer.escaped = 0 + Escaped(token.text)
        /\ longer.lineFeeds = 0 + (IF token.text = <<"lf">> THEN 1 ELSE 0)
    BY DEF Extended, EmptyPage
  <1>8. Last(longer.text) = token.text
    <2>1. <<>> \in Seq(Characters) /\ Len(<<>>) = 0
      BY EmptySeq
    <2>2. Len(longer.text) = 1 /\ longer.text[1] = token.text
      BY <1>6, <1>7, <2>1, AppendProperties
    <2> QED
      BY <2>2 DEF Last
  <1>9. longer.lineFeeds + (IF Last(longer.text) = <<"lf">> THEN 0 ELSE 1) <= LineLimit
    <2>1. CASE token.text = <<"lf">>
      BY <1>2, <1>7, <1>8, <2>1
    <2>2. CASE token.text # <<"lf">>
      BY <1>2, <1>7, <1>8, <2>2
    <2> QED
      BY <2>1, <2>2
  <1>10. Metadata(from + longer.consumed, Len(s)) + longer.escaped <= EnvelopeLimit
    <2>1. from + longer.consumed \in Nat /\ from + longer.consumed <= MaxBytes
      BY <1>1, <1>2, <1>6, <1>7
    <2>2. Escaped(token.text) \in Nat
      BY <1>6, EscapedBound
    <2>3. longer.escaped = Escaped(token.text)
      BY <1>7, <2>2
    <2> HIDE DEF longer
    <2> QED
      BY <1>6, <2>1, <2>3, OneCharacterIsWithin
  <1>11. Fits(longer, from, Len(s))
    BY <1>9, <1>10 DEF Fits
  <1>12. q = Extend(EmptyPage, bytes, from, Len(s), canGrow)
    <2>1. EmptyPage.full = FALSE /\ EmptyPage.consumed = 0
      BY DEF EmptyPage
    <2>2. ~(0 >= Window) /\ 0 # Len(bytes)
      BY <1>2, <1>4
    <2> HIDE DEF bytes
    <2> QED
      BY <2>1, <2>2 DEF Turn
  <1>13. EmptyPage.consumed = 0
    BY DEF EmptyPage
  <1>14. Extend(EmptyPage, bytes, from, Len(s), canGrow) = longer
    BY <1>5, <1>11, <1>13 DEF Extend, token
  <1>15. longer.consumed > 0
    BY <1>6, <1>7
  <1> HIDE DEF longer
  <1> QED
    BY <1>12, <1>14, <1>15

\* So the whole page is one, and moves on if a character can be had.
LEMMA PaginateIsPage ==
    ASSUME NEW s \in Seq(Bytes), Len(s) <= MaxBytes, NEW from \in 0..Len(s),
           NEW canGrow \in BOOLEAN
    PROVE  LET p == Paginate(WindowAt(s, from), from, Len(s), canGrow)
           IN  /\ IsPage(p, s, from, canGrow)
               /\ CanAdvance(s, from, canGrow) => p.consumed > 0
  <1> DEFINE bytes == WindowAt(s, from)
  <1>1. PICK f : /\ AreTurns(f, Window, bytes, from, Len(s), canGrow)
                 /\ Paginate(bytes, from, Len(s), canGrow) = f[Window]
    BY PaginateIsTurns
  <1>2. /\ f[0] = EmptyPage
        /\ \A i \in 1..Window : f[i] = Turn(f[i - 1], bytes, from, Len(s), canGrow)
    BY <1>1 DEF AreTurns
  <1>3. Window \in Nat \ {0}
    BY LimitsAreNumbers
  <1> DEFINE Good(n) == /\ IsPage(f[n], s, from, canGrow)
                        /\ n > 0 /\ CanAdvance(s, from, canGrow) => f[n].consumed > 0
             S == {n \in Nat : Good(n)}
  <1>4. 0 \in S
    BY <1>2, EmptyPageIsPage
  <1>5. ASSUME NEW n \in 0..(Window - 1), n \in S PROVE n + 1 \in S
    <2>1. n \in Nat /\ n + 1 \in Nat /\ n + 1 \in 1..Window /\ (n + 1) - 1 = n
      BY <1>3
    <2>2. Good(n)
      BY <1>5
    <2>3. f[n + 1] = Turn(f[n], bytes, from, Len(s), canGrow)
      BY <1>2, <2>1
    <2>4. /\ IsPage(f[n + 1], s, from, canGrow)
          /\ f[n].consumed > 0 => f[n + 1].consumed > 0
      BY <2>2, <2>3, TurnIsPage
    <2>5. ASSUME CanAdvance(s, from, canGrow) PROVE f[n + 1].consumed > 0
      <3>1. CASE n = 0
        BY <1>2, <2>3, <2>5, <3>1, FirstTurnAdvances
      <3>2. CASE n # 0
        BY <2>1, <2>2, <2>4, <2>5, <3>2
      <3> QED
        BY <3>1, <3>2
    <2>6. Good(n + 1)
      BY <2>4, <2>5
    <2> HIDE DEF Good
    <2> QED
      BY <2>1, <2>6
  <1>6. Good(Window)
    <2> HIDE DEF S
    <2>1. 0..Window \subseteq S
      BY <1>3, <1>4, <1>5, Upwards
    <2>2. Window \in S
      BY <1>3, <2>1
    <2> QED
      BY <2>2 DEF S
  <1> QED
    BY <1>1, <1>3, <1>6

-----------------------------------------------------------------------------
(* The stream and its reader *)

\* The inductive invariant: what has been shown is the stream up to the reader's
\* offset, cut into characters that, while the capture may append, no later byte
\* can change.
PagesInv ==
    /\ stream \in Seq(Bytes) /\ Len(stream) <= MaxBytes
    /\ growing \in BOOLEAN
    /\ offset \in 0..Len(stream)
    /\ shown \in Seq(Characters)
    /\ ShowsPart(stream, 0, offset, shown, growing)

LEMMA PagesInit == Init => PagesInv
  <1> SUFFICES ASSUME Init PROVE PagesInv
    OBVIOUS
  <1>1. stream = <<>> /\ growing = TRUE /\ offset = 0 /\ shown = <<>>
    BY DEF Init
  <1>2. <<>> \in Seq(Bytes) /\ <<>> \in Seq(Characters) /\ Len(<<>>) = 0
    BY EmptySeq
  <1>3. stream \in Seq(Bytes) /\ shown \in Seq(Characters) /\ Len(stream) = 0
    BY <1>1, <1>2
  <1>4. 0 \in 0..Len(stream)
    BY <1>3
  <1>5. ShowsPart(stream, 0, 0, <<>>, TRUE)
    BY <1>3, <1>4, ShowsNothing
  <1>6. Len(stream) <= MaxBytes
    BY <1>3, LimitsAreNumbers
  <1> QED
    BY <1>1, <1>3, <1>4, <1>5, <1>6 DEF PagesInv

LEMMA PagesNext == PagesInv /\ [Next]_vars => PagesInv'
  <1> SUFFICES ASSUME PagesInv, [Next]_vars PROVE PagesInv'
    OBVIOUS
  <1>1. /\ stream \in Seq(Bytes) /\ Len(stream) \in Nat /\ Len(stream) <= MaxBytes
        /\ growing \in BOOLEAN /\ offset \in 0..Len(stream) /\ shown \in Seq(Characters)
        /\ ShowsPart(stream, 0, offset, shown, growing)
    BY LenProperties DEF PagesInv
  <1>2. MaxBytes \in Nat
    BY LimitsAreNumbers
  <1>3. ASSUME NEW byte \in Alphabet, Grow(byte) PROVE PagesInv'
    <2>1. /\ growing = TRUE /\ Len(stream) < MaxBytes
          /\ stream' = Append(stream, byte) /\ growing' = growing
          /\ offset' = offset /\ shown' = shown
      BY <1>1, <1>3 DEF Grow
    <2>2. byte \in Bytes
      BY AlphabetIsBytes
    <2>3. stream' \in Seq(Bytes) /\ Len(stream') = Len(stream) + 1
      BY <1>1, <2>1, <2>2, AppendProperties
    <2>4. ShowsPart(Append(stream, byte), 0, offset, shown, TRUE)
      BY <1>1, <2>1, <2>2, ShowsStill
    <2>5. ShowsPart(stream', 0, offset', shown', growing')
      BY <2>1, <2>4
    <2>6. Len(stream') <= MaxBytes /\ offset' \in 0..Len(stream')
      BY <1>1, <1>2, <2>1, <2>3
    <2> QED
      BY <1>1, <2>1, <2>3, <2>5, <2>6 DEF PagesInv
  <1>4. ASSUME StopGrowing PROVE PagesInv'
    <2>1. growing' = FALSE /\ stream' = stream /\ offset' = offset /\ shown' = shown
      BY <1>4 DEF StopGrowing
    <2>2. ShowsPart(stream, 0, offset, shown, FALSE)
      BY <1>1, ShowsAnyway
    <2> QED
      BY <1>1, <2>1, <2>2 DEF PagesInv
  <1>5. ASSUME NEW canGrow \in BOOLEAN, ReadPage(canGrow) PROVE PagesInv'
    <2> DEFINE p == Paginate(WindowAt(stream, offset), offset, Len(stream), canGrow)
    <2>1. /\ ~canGrow => ~growing
          /\ offset' = offset + p.consumed /\ shown' = shown \o p.text
          /\ stream' = stream /\ growing' = growing
      BY <1>5 DEF ReadPage, NextPage, WindowAt
    <2>2. IsPage(p, stream, offset, canGrow)
      BY <1>1, PaginateIsPage
    <2> HIDE DEF p
    <2>3. p.text \in Seq(Characters) /\ ShowsPart(stream, offset, offset + p.consumed, p.text, canGrow)
      BY <2>2 DEF IsPage
    <2>4. growing => canGrow
      BY <2>1
    <2>5. ShowsPart(stream, offset, offset + p.consumed, p.text, growing)
      BY <2>3, <2>4, ShowsAnyway
    <2>6. ShowsPart(stream, 0, offset + p.consumed, shown \o p.text, growing)
      BY <1>1, <2>3, <2>5, ShowsBoth
    <2>7. shown \o p.text \in Seq(Characters)
      BY <1>1, <2>3, ConcatProperties
    <2>8. offset + p.consumed \in 0..Len(stream)
      BY <1>1, <2>6, <2>7, ShowsWithin
    <2> QED
      BY <1>1, <2>1, <2>6, <2>7, <2>8 DEF PagesInv
  <1>6. CASE UNCHANGED vars
    BY <1>1, <1>6 DEF PagesInv, vars
  <1> QED
    BY <1>3, <1>4, <1>5, <1>6 DEF Next

\* At every moment the pages put together show the stream up to the offset of the
\* next one, cut where its characters end, however the snapshots and the windows cut
\* it; and a byte that the capture appends later changes none of them
\* (utf8Token() and paginate()).
THEOREM PagesShowTheStreamAlways == Spec => []PagesInv
  <1>1. Init => PagesInv
    BY PagesInit
  <1>2. PagesInv /\ [Next]_vars => PagesInv'
    BY PagesNext
  <1> QED
    BY <1>1, <1>2, PTL DEF Spec

\* The pages put together are a prefix of what one decoder of the whole stream would
\* show, and all of it once the reader is at its end: no character is torn, lost or
\* shown twice, for every stream, window and limit (paginate() and utf8Token()).
THEOREM PagesDecodeTheStreamAlways == Spec => []PagesDecodeTheStream
  <1>1. PagesInv => PagesDecodeTheStream
    BY ShownIsDecoded DEF PagesInv, PagesDecodeTheStream
  <1> QED
    BY <1>1, PagesShowTheStreamAlways, PTL

\* A page before the end of the stream takes a character at least, unless the stream
\* may grow and later bytes could change the next one, and what JSON.stringify makes
\* of it is within the limit, as its running count said (paginate()).
THEOREM PagesAdvanceAlways == Spec => []PagesAdvance
  <1>1. ASSUME PagesInv PROVE PagesAdvance
    <2> SUFFICES ASSUME NEW canGrow \in BOOLEAN, CanAdvance(stream, offset, canGrow)
                 PROVE  /\ NextPage(canGrow).consumed > 0
                        /\ SerializedBytes(NextPage(canGrow), offset, Len(stream))
                             <= EnvelopeLimit
      BY DEF PagesAdvance
    <2> DEFINE p == Paginate(WindowAt(stream, offset), offset, Len(stream), canGrow)
    <2>1. stream \in Seq(Bytes) /\ Len(stream) <= MaxBytes /\ offset \in 0..Len(stream)
      BY <1>1 DEF PagesInv
    <2>2. NextPage(canGrow) = p
      BY DEF NextPage, WindowAt
    <2>3. IsPage(p, stream, offset, canGrow) /\ p.consumed > 0
      BY <2>1, PaginateIsPage
    <2> HIDE DEF p
    <2>4. /\ Metadata(offset + p.consumed, Len(stream)) + p.escaped <= EnvelopeLimit
          /\ p.escaped = EscapedText(p.text)
      BY <2>3 DEF IsPage
    <2>5. SerializedBytes(p, offset, Len(stream)) <= EnvelopeLimit
      BY <2>4 DEF SerializedBytes
    <2> QED
      BY <2>2, <2>3, <2>5
  <1> QED
    BY <1>1, PagesShowTheStreamAlways, PTL
==============================================================================
