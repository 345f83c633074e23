--------------------------- MODULE StatementsProofs ---------------------------
(***************************************************************************)
(* Proofs about Statements, for inputs and buffers of any length.          *)
(*                                                                         *)
(* BufferInv says what the scanner knows when it reads: it has seen no     *)
(* end, and its buffer has room.  After the end it reads no more, so that  *)
(* what fits then fits for good.                                           *)
(*                                                                         *)
(* CutInv says that a scan starts where the input has a terminator, or at  *)
(* its beginning.  From there the flags of splitStatements, which know the *)
(* buffer alone, are what the whole input says of each byte (FlagsAreHere).*)
(* That needs induction over the bytes.  The induction theorems of the     *)
(* library take an operator, which the provers cannot instantiate, so it   *)
(* is done with sets: what holds of 0 and with n of n + 1 holds in Nat,    *)
(* for Nat is well founded.                                                *)
(***************************************************************************)
EXTENDS Statements, TLAPS, WellFoundedInduction, FiniteSetTheorems

BufferInv ==
  /\ pc = "read" => ~over
  /\ over => fetched = Len(input)
  /\ pc = "read" \/ over => fetched - start < MaxToken
  /\ Adjacent /\ PiecesFit

CutInv ==
  /\ start = 0 \/ start \in Ends \/ (over /\ start = Len(input))
  /\ pc = "read" \/ (mode = "query" /\ over) => Ends \cap (start + 1)..fetched = {}
  /\ \A k \in DOMAIN pieces : pieces[k].to <= start
  /\ why = "limit" => pc = "done"
  /\ CutWhereTheInputSays /\ EndsForALongPiece

-----------------------------------------------------------------------------
(* Induction. *)

\* What holds of 0, and with a number of the next, holds of all.
LEMMA NatSet ==
  ASSUME NEW S \in SUBSET Nat, 0 \in S, \A n \in S : n + 1 \in S
  PROVE  S = Nat
<1> DEFINE R == {ss \in Nat \X Nat : ss[1] < ss[2]}
           T == Nat \ S
<1>1. IsWellFoundedOn(R, Nat)
  BY NatLessThanWellFounded DEF OpToRel
<1>2. SUFFICES ASSUME T # {} PROVE FALSE
  OBVIOUS
<1>3. T \subseteq Nat
  OBVIOUS
<1> HIDE DEF R, T
<1>4. PICK x \in T : \A y \in T : ~(<<y, x>> \in R)
  BY <1>1, <1>2, <1>3, WFMin
<1>5. x \in Nat /\ x \notin S
  BY DEF T
<1>6. x - 1 \in Nat
  BY <1>5
<1>7. x - 1 \in S
  <2>1. x - 1 \in T => <<x - 1, x>> \in R
    BY <1>5, <1>6 DEF R
  <2>2. QED
    BY <1>4, <1>6, <2>1 DEF T
<1>8. QED
  BY <1>5, <1>6, <1>7

\* The same between two numbers.
LEMMA IntervalSet ==
  ASSUME NEW m \in Nat, NEW n \in Nat, NEW S,
         m \in S, \A i \in m..n : i \in S /\ i < n => i + 1 \in S
  PROVE  \A i \in m..n : i \in S
<1> DEFINE A == {k \in Nat : k < m \/ k > n \/ k \in S}
<1>1. A \in SUBSET Nat /\ 0 \in A
  OBVIOUS
<1>2. ASSUME NEW k \in A PROVE k + 1 \in A
  OBVIOUS
<1> HIDE DEF A
<1>3. A = Nat
  BY <1>1, <1>2, NatSet
<1>4. QED
  BY <1>3 DEF A

\* A set of numbers has a least one.
LEMMA Least ==
  ASSUME NEW T \in SUBSET Nat, T # {}
  PROVE  \E x \in T : \A y \in T : x <= y
<1> DEFINE R == {ss \in Nat \X Nat : ss[1] < ss[2]}
<1>1. IsWellFoundedOn(R, Nat)
  BY NatLessThanWellFounded DEF OpToRel
<1> HIDE DEF R
<1>2. PICK x \in T : \A y \in T : ~(<<y, x>> \in R)
  BY <1>1, WFMin
<1>3. ASSUME NEW y \in T PROVE x <= y
  <2>1. x \in Nat /\ y \in Nat
    OBVIOUS
  <2>2. ~(y < x)
    <3>1. y < x => <<y, x>> \in R
      BY <2>1 DEF R
    <3>2. QED
      BY <1>2, <3>1
  <2>3. QED
    BY <2>1, <2>2
<1>4. QED
  BY <1>3

\* Adding one turns even into odd.
LEMMA Parity == \A n \in Nat : (n % 2 = 0 \/ n % 2 = 1) /\ ((n + 1) % 2 = 1 <=> n % 2 = 0)
OBVIOUS

-----------------------------------------------------------------------------
\* What the types say of the numbers.
LEMMA Numbers ==
  ASSUME TypeOK
  PROVE  /\ Len(input) \in Nat /\ start \in Nat /\ fetched \in Nat /\ MaxToken \in Nat
         /\ start <= fetched /\ fetched <= Len(input) /\ fetched - start <= MaxToken
         /\ Len(pieces) \in Nat
         /\ \A k \in 1..Len(pieces) : pieces[k].from \in Nat /\ pieces[k].to \in Nat
<1>1. Len(input) \in Nat /\ MaxToken \in Nat
  BY StatementsAssumption DEF TypeOK, StatementsAssumption
<1>2. fetched \in 0..Len(input) /\ start \in 0..fetched
  BY DEF TypeOK, Positions
<1>3. /\ Len(pieces) \in Nat
      /\ \A k \in 1..Len(pieces) : pieces[k].from \in Nat /\ pieces[k].to \in Nat
  <2> DEFINE R == [from : Positions, to : Positions]
  <2>1. pieces \in Seq(R)
    BY DEF TypeOK
  <2>2. \A x \in R : x.from \in Nat /\ x.to \in Nat
    BY <1>1 DEF Positions
  <2> HIDE DEF R
  <2>3. Len(pieces) \in Nat /\ \A k \in 1..Len(pieces) : pieces[k] \in R
    BY <2>1
  <2>4. QED
    BY <2>2, <2>3
<1>4. QED
  BY <1>1, <1>2, <1>3 DEF TypeOK

\* A Token or the Rest is a piece that starts where the scanner is.
LEMMA CutPiece ==
  ASSUME TypeOK, Token \/ Rest
  PROVE  \E to \in Nat, next \in Nat :
           /\ start <= to /\ to <= next /\ start < next /\ next <= fetched
           /\ next = IF over /\ to = fetched THEN to ELSE to + 1
           /\ Cut([from |-> start, to |-> to], next)
<1>1. CASE Token
  <2>1. PICK i \in Terminators : Cut([from |-> start, to |-> i - 1], i)
    BY <1>1 DEF Token
  <2>2. i \in (start + 1)..fetched
    BY DEF Terminators
  <2>3. /\ i - 1 \in Nat /\ i \in Nat /\ start <= i - 1 /\ i - 1 <= i /\ start < i /\ i <= fetched
        /\ i = IF over /\ i - 1 = fetched THEN i - 1 ELSE (i - 1) + 1
    BY <2>2, Numbers
  <2>4. QED
    BY <2>1, <2>3
<1>2. CASE Rest
  <2>1. start < fetched /\ over /\ Cut([from |-> start, to |-> fetched], fetched)
    BY <1>2 DEF Rest
  <2>2. QED
    BY <2>1, Numbers
<1>3. QED
  BY <1>1, <1>2

\* Cutting keeps the state well typed.
LEMMA CutType ==
  ASSUME TypeOK, Token \/ Rest
  PROVE  TypeOK'
<1>1. PICK to \in Nat, next \in Nat :
        /\ start <= to /\ to <= next /\ start < next /\ next <= fetched
        /\ Cut([from |-> start, to |-> to], next)
  BY CutPiece
<1>2. start \in Positions /\ to \in Positions /\ next \in 0..fetched /\ fetched - next <= MaxToken
  BY <1>1, Numbers DEF Positions
<1> DEFINE piece == [from |-> start, to |-> to]
<1>3. piece \in [from : Positions, to : Positions]
  BY <1>2
<1> HIDE DEF piece
<1>4. Append(pieces, piece) \in Seq([from : Positions, to : Positions])
  BY <1>3 DEF TypeOK
<1>5. Cut(piece, next)
  BY <1>1 DEF piece
<1>6. QED
  BY <1>2, <1>4, <1>5 DEF TypeOK, Cut, Positions

\* A piece that is cut follows the one before it, and fits.
LEMMA CutKeepsBufferInv ==
  ASSUME TypeOK, BufferInv, Token \/ Rest
  PROVE  BufferInv'
<1> USE DEF BufferInv
<1>1. PICK to \in Nat, next \in Nat :
        /\ start <= to /\ to <= next /\ start < next /\ next <= fetched
        /\ next = IF over /\ to = fetched THEN to ELSE to + 1
        /\ Cut([from |-> start, to |-> to], next)
  BY CutPiece
<1> DEFINE piece == [from |-> start, to |-> to]
           n == Len(pieces)
<1>2. /\ start \in Nat /\ to \in Nat /\ next \in Nat /\ fetched \in Nat /\ MaxToken \in Nat
      /\ fetched - start <= MaxToken
      /\ pieces \in Seq([from : Positions, to : Positions]) /\ n \in Nat
      /\ \A k \in 1..n : pieces[k].from \in Nat /\ pieces[k].to \in Nat
  BY Numbers DEF TypeOK
<1>3. /\ pieces' = Append(pieces, piece) /\ start' = next /\ pc' = "act"
      /\ input' = input /\ fetched' = fetched /\ over' = over /\ why' = why
  BY <1>1 DEF Cut
<1>4. /\ Len(pieces') = n + 1 /\ pieces'[n + 1] = piece
      /\ \A k \in 1..n : pieces'[k] = pieces[k]
  BY <1>2, <1>3
<1>5. why' # "end"
  BY <1>1, <1>3 DEF Token, Rest, Adjacent, TypeOK, Positions
<1>6. start = IF n = 0 THEN 0 ELSE pieces[n].to + 1
  <2>1. n > 0 => ~(over /\ pieces[n].to = fetched)
    BY <1>1, <1>2 DEF Adjacent
  <2>2. QED
    BY <1>2, <2>1 DEF Adjacent
<1>7. Adjacent'
  <2>1. \A k \in 1..(n + 1) : pieces'[k].from = IF k = 1 THEN 0 ELSE pieces'[k - 1].to + 1
    <3>1. ASSUME NEW k \in 1..n PROVE pieces'[k].from = IF k = 1 THEN 0 ELSE pieces'[k - 1].to + 1
      <4>1. pieces[k].from = IF k = 1 THEN 0 ELSE pieces[k - 1].to + 1
        BY DEF Adjacent
      <4>2. k # 1 => k - 1 \in 1..n
        BY <1>2
      <4>3. QED
        BY <1>4, <4>1, <4>2
    <3>2. pieces'[n + 1].from = IF n + 1 = 1 THEN 0 ELSE pieces'[n].to + 1
      BY <1>2, <1>4, <1>6
    <3>3. QED
      BY <1>2, <3>1, <3>2
  <2>2. pieces' # <<>>
    BY <1>2, <1>3
  <2>3. pieces'[Len(pieces')].to = to
    BY <1>4
  <2>4. start' = IF over' /\ to = fetched' THEN to ELSE to + 1
    BY <1>1, <1>3
  <2>5. QED
    BY <1>4, <1>5, <2>1, <2>2, <2>3, <2>4 DEF Adjacent
<1>8. PiecesFit'
  <2>1. to - start < MaxToken
    BY <1>1, <1>2
  <2>2. QED
    BY <1>1, <1>2, <1>3, <1>4, <2>1 DEF PiecesFit
<1>9. QED
  BY <1>1, <1>2, <1>3, <1>7, <1>8

-----------------------------------------------------------------------------
\* The states are well typed, the buffer is never read into when it is full, and
\* the pieces cover the input without a gap (postgresql.go:61-63, 142-167).
THEOREM StatementsTypeCorrect == Spec => [](TypeOK /\ BufferInv)
<1>1. Init => TypeOK /\ BufferInv
  <2> SUFFICES ASSUME Init
               PROVE  TypeOK /\ BufferInv
    OBVIOUS
  <2>1. PICK n \in 0..MaxInput : input \in [1..n -> Bytes]
    BY DEF Init
  <2>2. n \in Nat /\ n <= MaxInput /\ MaxToken \in Nat /\ MaxToken > 0
    BY StatementsAssumption DEF StatementsAssumption
  <2>3. input \in Seq(Bytes) /\ Len(input) = n
    BY <2>1, <2>2
  <2>4. <<>> \in Seq([from : Positions, to : Positions])
    OBVIOUS
  <2>5. TypeOK
    <3>1. 0 \in 0..0 /\ 0 \in Positions /\ 0 - 0 <= MaxToken
      BY <2>2, <2>3 DEF Positions
    <3>2. pieces \in Seq([from : Positions, to : Positions])
      BY <2>4 DEF Init
    <3>3. QED
      BY <2>2, <2>3, <3>1, <3>2 DEF Init, TypeOK
  <2>6. QED
    BY <2>5 DEF Init, BufferInv, Adjacent, PiecesFit
<1>2. TypeOK /\ BufferInv /\ [Next]_vars => (TypeOK /\ BufferInv)'
  <2> SUFFICES ASSUME TypeOK, BufferInv, [Next]_vars
               PROVE  TypeOK' /\ BufferInv'
    OBVIOUS
  <2>1. CASE Token \/ Rest
    BY <2>1, CutType, CutKeepsBufferInv
  <2>2. CASE InputEnds \/ TooLong \/ More \/ ActStep
    <3>1. UNCHANGED <<mode, input, start, fetched, over, pieces>>
      BY <2>2 DEF InputEnds, TooLong, More, ActStep, Succeeds, Fails
    <3>2. /\ pc' \in {"split", "read", "act", "done"} /\ why' \in {"none", "end", "limit", "failed"}
          /\ pc' = "read" => ~over /\ fetched - start < MaxToken
          /\ why' = "end" => why = "end" \/ (over /\ start = fetched)
      <4>1. CASE InputEnds \/ TooLong
        BY <4>1 DEF InputEnds, TooLong
      <4>2. CASE More
        BY <4>2 DEF More, TypeOK
      <4>3. CASE ActStep
        BY <4>3 DEF ActStep, Succeeds, Fails, TypeOK
      <4>4. QED
        BY <2>2, <4>1, <4>2, <4>3
    <3>3. TypeOK'
      BY <3>1, <3>2 DEF TypeOK, Positions
    <3>4. why' = "end" => start = Len(input)
      BY <3>2 DEF BufferInv, Adjacent
    <3>5. Adjacent' /\ PiecesFit'
      BY <3>1, <3>4 DEF BufferInv, Adjacent, PiecesFit
    <3>6. BufferInv'
      BY <3>1, <3>2, <3>5 DEF BufferInv
    <3>7. QED
      BY <3>3, <3>6
  <2>3. CASE Read
    <3>1. /\ UNCHANGED <<mode, input, start, over, pieces, why>> /\ pc' = "split"
          /\ ~over /\ fetched' \in (fetched + 1)..Len(input) /\ fetched' - start <= MaxToken
      BY <2>3 DEF Read, BufferInv
    <3>2. QED
      BY <3>1 DEF TypeOK, Positions, BufferInv, Adjacent, PiecesFit
  <2>4. CASE ReadEnds
    <3>1. /\ UNCHANGED <<mode, input, start, fetched, pieces, why>> /\ pc' = "split"
          /\ ~over /\ over' = TRUE /\ fetched = Len(input) /\ fetched - start < MaxToken
      BY <2>4 DEF ReadEnds, BufferInv
    <3>2. pieces # <<>> => pieces[Len(pieces)].to + 1 = start /\ pieces[Len(pieces)].to \in Nat
      <4>1. pieces # <<>> => Len(pieces) \in 1..Len(pieces)
        BY DEF TypeOK
      <4>2. QED
        BY <3>1, <4>1, Numbers DEF BufferInv, Adjacent
    <3>3. Adjacent'
      BY <3>1, <3>2, Numbers DEF BufferInv, Adjacent
    <3>4. QED
      BY <3>1, <3>3 DEF TypeOK, Positions, BufferInv, PiecesFit
  <2>5. CASE UNCHANGED vars
    BY <2>5 DEF TypeOK, Positions, BufferInv, Adjacent, PiecesFit, vars
  <2>6. QED
    BY <2>1, <2>2, <2>3, <2>4, <2>5 DEF Next, ScanStep
<1>3. QED
  BY <1>1, <1>2, PTL DEF Spec

\* No byte of the input is skipped or acted on twice (postgresql.go:61-63, 142-167).
THEOREM PiecesAreAdjacent == Spec => []Adjacent
<1>1. BufferInv => Adjacent
  BY DEF BufferInv
<1>2. QED
  BY <1>1, StatementsTypeCorrect, PTL

\* No piece is acted on that the buffer could not hold (postgresql.go:63).
THEOREM PiecesFitTheBuffer == Spec => []PiecesFit
<1>1. BufferInv => PiecesFit
  BY DEF BufferInv
<1>2. QED
  BY <1>1, StatementsTypeCorrect, PTL

-----------------------------------------------------------------------------
(* The flags of splitStatements, and what they stand for. *)

\* The equation of Flags, for a buffer that is input[m+1..n].
ScanIs(f, m, n) ==
  f = [i \in m..n |-> IF i = m THEN Plain ELSE See(f[i - 1], input[i])]

\* It has a solution, whatever the bytes.
LEMMA ScanExists ==
  ASSUME NEW m \in Nat, NEW n \in Nat, m <= n
  PROVE  \E f : ScanIs(f, m, n)
<1> DEFINE S == {k \in Nat : \E f : ScanIs(f, m, k)}
<1>1. m \in S
  <2> DEFINE f == [i \in m..m |-> Plain]
  <2>1. ScanIs(f, m, m)
    BY DEF ScanIs
  <2>2. QED
    BY <2>1
<1>2. ASSUME NEW k \in m..n, k \in S PROVE k + 1 \in S
  <2>1. PICK f : ScanIs(f, m, k)
    BY <1>2
  <2> DEFINE g == [i \in m..(k + 1) |-> IF i = m THEN Plain ELSE See(f[i - 1], input[i])]
  <2>2. ASSUME NEW i \in m..(k + 1), i # m PROVE g[i - 1] = f[i - 1]
    BY <2>1, <2>2 DEF ScanIs
  <2>3. g = [i \in m..(k + 1) |-> IF i = m THEN Plain ELSE See(g[i - 1], input[i])]
    BY <2>2
  <2>4. ScanIs(g, m, k + 1)
    BY <2>3 DEF ScanIs
  <2>5. QED
    BY <2>4
<1> HIDE DEF S
<1>3. \A k \in m..n : k \in S
  BY <1>1, <1>2, IntervalSet
<1>4. QED
  BY <1>3 DEF S

\* So Flags is one: it starts plain and sees one byte after the other.
LEMMA FlagsScan ==
  ASSUME start \in Nat, fetched \in Nat, start <= fetched
  PROVE  /\ Flags[start] = Plain
         /\ \A i \in (start + 1)..fetched : Flags[i] = See(Flags[i - 1], input[i])
<1>1. \E f : ScanIs(f, start, fetched)
  BY ScanExists
<1>2. Flags = CHOOSE f : ScanIs(f, start, fetched)
  BY DEF Flags, ScanIs
<1>3. ScanIs(Flags, start, fetched)
  BY <1>1, <1>2
<1>4. QED
  BY <1>3 DEF ScanIs

\* The backslashes from j on are the ones right before i.
Run(j, i) ==
  /\ \A k \in j..(i - 1) : input[k] = "backslash"
  /\ j = 1 \/ input[j - 1] # "backslash"

\* There is one such run at most.
LEMMA RunIsOne ==
  ASSUME NEW i \in Nat, NEW j \in 1..i, NEW l \in 1..i, Run(j, i), Run(l, i)
  PROVE  j = l
BY DEF Run

\* And there is one.
LEMMA RunStarts ==
  ASSUME NEW i \in Nat, i > 0
  PROVE  \E j \in 1..i : Run(j, i)
<1> DEFINE T == {j \in 1..i : \A k \in j..(i - 1) : input[k] = "backslash"}
<1>1. i \in T /\ T \in SUBSET Nat
  OBVIOUS
<1>2. PICK j \in T : \A l \in T : j <= l
  <2> HIDE DEF T
  <2>1. T # {}
    BY <1>1
  <2>2. QED
    BY <1>1, <2>1, Least
<1>3. j = 1 \/ input[j - 1] # "backslash"
  <2>1. SUFFICES ASSUME j # 1, input[j - 1] = "backslash" PROVE FALSE
    OBVIOUS
  <2>2. j - 1 \in T
    BY <2>1
  <2>3. j \in Nat
    OBVIOUS
  <2>4. QED
    BY <1>2, <2>2, <2>3
<1>4. QED
  BY <1>2, <1>3 DEF Run

\* A byte is escaped when its run is odd.
LEMMA EscapedRun ==
  ASSUME NEW i \in Nat, NEW j \in 1..i, Run(j, i)
  PROVE  Escaped(i) <=> (i - j) % 2 = 1
<1>1. ASSUME Escaped(i) PROVE (i - j) % 2 = 1
  <2>1. PICK l \in 1..(i - 1) : Run(l, i) /\ (i - l) % 2 = 1
    BY <1>1 DEF Escaped, Run
  <2>2. l = j
    BY <2>1, RunIsOne
  <2>3. QED
    BY <2>1, <2>2
<1>2. ASSUME (i - j) % 2 = 1 PROVE Escaped(i)
  <2>1. j # i
    BY <1>2
  <2>2. QED
    BY <1>2, <2>1 DEF Escaped, Run
<1>3. QED
  BY <1>1, <1>2

\* Escaping, a byte at a time.
LEMMA EscapedNext ==
  ASSUME NEW i \in Nat, i > 0
  PROVE  Escaped(i + 1) <=> input[i] = "backslash" /\ ~Escaped(i)
<1>1. PICK j \in 1..i : Run(j, i)
  BY RunStarts
<1>2. CASE input[i] = "backslash"
  <2>1. Run(j, i + 1)
    BY <1>1, <1>2 DEF Run
  <2>2. Escaped(i + 1) <=> (i + 1 - j) % 2 = 1
    BY <2>1, EscapedRun
  <2>3. Escaped(i) <=> (i - j) % 2 = 1
    BY <1>1, EscapedRun
  <2>4. i - j \in Nat /\ i + 1 - j = (i - j) + 1
    OBVIOUS
  <2>5. QED
    BY <1>2, <2>2, <2>3, <2>4, Parity
<1>3. CASE input[i] # "backslash"
  BY <1>3 DEF Escaped
<1>4. QED
  BY <1>2, <1>3

Quotes(i) == {j \in 1..(i - 1) : input[j] = "quote" /\ ~Escaped(j)}

\* Strings, a byte at a time.
LEMMA InStringNext ==
  ASSUME NEW i \in Nat, i > 0
  PROVE  InString(i + 1) <=> IF input[i] = "quote" /\ ~Escaped(i) THEN ~InString(i) ELSE InString(i)
<1> DEFINE b == input[i] = "quote" /\ ~Escaped(i)
<1> HIDE DEF b
<1>1. IsFiniteSet(Quotes(i)) /\ Cardinality(Quotes(i)) \in Nat
  <2>1. IsFiniteSet(1..(i - 1))
    BY FS_Interval
  <2>2. Quotes(i) \in SUBSET (1..(i - 1))
    BY DEF Quotes
  <2>3. QED
    BY <2>1, <2>2, FS_Subset, FS_CardinalityType
<1>2. CASE b
  <2>1. Quotes(i + 1) = Quotes(i) \cup {i} /\ i \notin Quotes(i)
    BY <1>2 DEF Quotes, b
  <2>2. Cardinality(Quotes(i + 1)) = Cardinality(Quotes(i)) + 1
    BY <1>1, <2>1, FS_AddElement
  <2>3. QED
    BY <1>1, <1>2, <2>2, Parity DEF InString, Quotes, b
<1>3. CASE ~b
  <2>1. Quotes(i + 1) = Quotes(i)
    BY <1>3 DEF Quotes, b
  <2>2. QED
    BY <1>3, <2>1 DEF InString, Quotes, b
<1>4. QED
  BY <1>2, <1>3

\* What the whole input says of byte i, in the form of the flags.
Here(i) == [escape |-> Escaped(i), string |-> InString(i)]

\* The body of the loop takes it from one byte to the next (postgresql.go:148-161).
LEMMA SeeNext ==
  ASSUME NEW i \in Nat, i > 0, input[i] \in Bytes
  PROVE  See(Here(i), input[i]) = Here(i + 1)
<1>1. Here(i).escape = Escaped(i) /\ Here(i).string = InString(i)
  BY DEF Here
<1>2. /\ Escaped(i) \in BOOLEAN /\ InString(i) \in BOOLEAN
      /\ Escaped(i + 1) \in BOOLEAN /\ InString(i + 1) \in BOOLEAN
  BY DEF Escaped, InString
<1>3. CASE Escaped(i)
  <2>1. See(Here(i), input[i]) = [escape |-> FALSE, string |-> InString(i)]
    BY <1>1, <1>3 DEF See, Here
  <2>2. Escaped(i + 1) = FALSE /\ InString(i + 1) = InString(i)
    BY <1>2, <1>3, EscapedNext, InStringNext
  <2>3. QED
    BY <2>1, <2>2 DEF Here
<1>4. CASE ~Escaped(i) /\ input[i] = "backslash"
  <2>1. See(Here(i), input[i]) = [escape |-> TRUE, string |-> InString(i)]
    BY <1>1, <1>4 DEF See, Here
  <2>2. Escaped(i + 1) = TRUE /\ InString(i + 1) = InString(i)
    BY <1>2, <1>4, EscapedNext, InStringNext
  <2>3. QED
    BY <2>1, <2>2 DEF Here
<1>5. CASE ~Escaped(i) /\ input[i] = "quote"
  <2>1. See(Here(i), input[i]) = [escape |-> FALSE, string |-> ~InString(i)]
    BY <1>1, <1>2, <1>5 DEF See, Here
  <2>2. Escaped(i + 1) = FALSE /\ InString(i + 1) = ~InString(i)
    BY <1>2, <1>5, EscapedNext, InStringNext
  <2>3. QED
    BY <2>1, <2>2 DEF Here
<1>6. CASE ~Escaped(i) /\ input[i] # "backslash" /\ input[i] # "quote"
  <2>1. See(Here(i), input[i]) = Here(i)
    BY <1>1, <1>6 DEF See
  <2>2. Escaped(i + 1) = Escaped(i) /\ InString(i + 1) = InString(i)
    BY <1>2, <1>6, EscapedNext, InStringNext
  <2>3. QED
    BY <2>1, <2>2 DEF Here
<1>7. QED
  BY <1>3, <1>4, <1>5, <1>6

\* Plain is neither escaped nor in a string.
LEMMA PlainFlags ==
  \A e, q \in BOOLEAN : [escape |-> e, string |-> q] = Plain <=> ~e /\ ~q
BY DEF Plain

\* A statement begins outside of strings.
LEMMA PlainHere ==
  ASSUME TypeOK, mode = "query", start = 0 \/ start \in Ends
  PROVE  Here(start + 1) = Plain
<1>1. CASE start = 0
  <2>1. ~Escaped(1)
    BY DEF Escaped
  <2>2. {j \in 1..(1 - 1) : input[j] = "quote" /\ ~Escaped(j)} = {}
    OBVIOUS
  <2>3. ~InString(1)
    BY <2>2, FS_EmptySet DEF InString
  <2>4. Escaped(1) \in BOOLEAN /\ InString(1) \in BOOLEAN
    BY DEF Escaped, InString
  <2>5. QED
    BY <1>1, <2>1, <2>3, <2>4, PlainFlags DEF Here
<1>2. CASE start \in Ends
  <2>1. start \in Nat /\ start > 0 /\ input[start] = "semicolon" /\ ~Escaped(start) /\ ~InString(start)
    BY <1>2 DEF Ends, TypeOK
  <2>2. ~Escaped(start + 1) /\ ~InString(start + 1)
    BY <2>1, EscapedNext, InStringNext
  <2>3. Escaped(start + 1) \in BOOLEAN /\ InString(start + 1) \in BOOLEAN
    BY DEF Escaped, InString
  <2>4. QED
    BY <2>2, <2>3, PlainFlags DEF Here
<1>3. QED
  BY <1>1, <1>2

\* A scan that begins where a statement does gives each byte its flags.
LEMMA FlagsAreHere ==
  ASSUME TypeOK, mode = "query", start = 0 \/ start \in Ends
  PROVE  \A i \in start..fetched : Flags[i] = Here(i + 1)
<1>1. /\ start \in Nat /\ fetched \in Nat /\ start <= fetched /\ fetched <= Len(input)
      /\ \A i \in 1..Len(input) : input[i] \in Bytes
  BY DEF TypeOK, Positions
<1> DEFINE S == {i \in Nat : Flags[i] = Here(i + 1)}
<1>2. start \in S
  BY <1>1, FlagsScan, PlainHere
<1>3. ASSUME NEW i \in start..fetched, i \in S, i < fetched PROVE i + 1 \in S
  <2>1. i \in Nat /\ i + 1 \in (start + 1)..fetched /\ i + 1 \in 1..Len(input) /\ (i + 1) - 1 = i
    BY <1>1, <1>3
  <2>2. Flags[i + 1] = See(Flags[i], input[i + 1])
    BY <1>1, <2>1, FlagsScan
  <2>3. Flags[i] = Here(i + 1)
    BY <1>3
  <2>4. See(Here(i + 1), input[i + 1]) = Here((i + 1) + 1)
    BY <1>1, <2>1, SeeNext
  <2>5. QED
    BY <2>1, <2>2, <2>3, <2>4
<1> HIDE DEF S
<1>4. \A i \in start..fetched : i \in S
  BY <1>1, <1>2, <1>3, IntervalSet
<1>5. QED
  BY <1>4 DEF S

\* So the terminators it finds in its buffer are those of the input.
LEMMA TerminatorsAreEnds ==
  ASSUME TypeOK, mode = "query" => start = 0 \/ start \in Ends
  PROVE  Terminators = Ends \cap (start + 1)..fetched
<1>1. /\ start \in Nat /\ fetched \in Nat /\ start <= fetched /\ fetched <= Len(input)
      /\ DOMAIN input = 1..Len(input)
  BY DEF TypeOK, Positions
<1>2. CASE mode = "query"
  <2>1. ASSUME NEW i \in (start + 1)..fetched
        PROVE  Flags[i - 1] = Plain <=> ~Escaped(i) /\ ~InString(i)
    <3>1. i - 1 \in start..fetched /\ (i - 1) + 1 = i
      BY <1>1
    <3>2. Flags[i - 1] = Here(i)
      BY <1>2, <3>1, FlagsAreHere
    <3>3. Escaped(i) \in BOOLEAN /\ InString(i) \in BOOLEAN
      BY DEF Escaped, InString
    <3>4. QED
      BY <3>2, <3>3, PlainFlags DEF Here
  <2>2. QED
    BY <1>1, <1>2, <2>1 DEF Terminators, Ends
<1>3. CASE mode # "query"
  BY <1>1, <1>3 DEF Terminators, Ends
<1>4. QED
  BY <1>2, <1>3

-----------------------------------------------------------------------------
(* The pieces. *)

\* The terminators that have been passed, and those of the pieces.
Passed == {i \in Ends : i <= start}
Cuts == {p.to + 1 : p \in {q \in {pieces[k] : k \in DOMAIN pieces} : q.to < start}}

\* The input does not change, nor what it says.
LEMMA EndsStay ==
  ASSUME UNCHANGED <<mode, input>>
  PROVE  Ends' = Ends
BY DEF Ends, InString, Escaped

\* Terminators are positions.
LEMMA EndsNat ==
  ASSUME TypeOK
  PROVE  \A i \in Ends : i \in Nat /\ i > 0
BY DEF Ends, TypeOK

\* A piece that is cut up to the next terminator, or up to the end, is one of the input.
LEMMA CutKeepsCuts ==
  ASSUME TypeOK, CutInv, pc = "split",
         NEW to \in Nat, NEW next \in Nat,
         start <= to, to <= next, start < next, next <= fetched,
         Cut([from |-> start, to |-> to], next),
         {i \in Ends : start < i /\ i <= next} = IF to < next THEN {to + 1} ELSE {},
         to = next => over /\ next = Len(input),
         to < next => next = to + 1 /\ next \in Ends,
         mode = "query" /\ over => to = next
  PROVE  CutInv'
<1> DEFINE piece == [from |-> start, to |-> to]
           n == Len(pieces)
<1>1. /\ start \in Nat /\ fetched \in Nat /\ fetched <= Len(input) /\ Len(input) \in Nat /\ n \in Nat
      /\ \A k \in 1..n : pieces[k].to \in Nat
      /\ DOMAIN pieces = 1..n
  BY Numbers DEF TypeOK
<1>2. /\ pieces' = Append(pieces, piece) /\ start' = next /\ pc' = "act"
      /\ UNCHANGED <<mode, input, fetched, over, why>>
  BY DEF Cut
<1>3. /\ DOMAIN pieces' = 1..(n + 1) /\ pieces'[n + 1].to = to
      /\ \A k \in 1..n : pieces'[k] = pieces[k]
  BY <1>2 DEF TypeOK
<1> HIDE DEF piece, n
<1>4. Ends' = Ends
  BY <1>2, EndsStay
<1>5. \A k \in 1..n : pieces[k].to <= start
  BY <1>1 DEF CutInv
<1>6. \A k \in 1..n : pieces[k].to < start
  <2>1. \A k \in 1..n : pieces[k].to # start
    BY <1>1 DEF CutInv, CutWhereTheInputSays
  <2>2. QED
    BY <1>1, <1>5, <2>1
<1>7. Cuts = {pieces[k].to + 1 : k \in 1..n}
  BY <1>1, <1>6 DEF Cuts
<1>8. Cuts' = Cuts \cup IF to < next THEN {to + 1} ELSE {}
  <2>1. \A k \in 1..n : pieces'[k].to = pieces[k].to /\ pieces[k].to < next
    BY <1>1, <1>3, <1>6
  <2>2. pieces'[n + 1].to = to /\ 1..(n + 1) = (1..n) \cup {n + 1}
    BY <1>1, <1>3
  <2>3. Cuts' = {p.to + 1 : p \in {q \in {pieces'[k] : k \in 1..(n + 1)} : q.to < next}}
    BY <1>2, <1>3 DEF Cuts
  <2>4. CASE to < next
    <3>1. Cuts' = {pieces'[k].to + 1 : k \in 1..(n + 1)}
      BY <1>1, <2>1, <2>2, <2>3, <2>4
    <3>2. Cuts' = {pieces'[k].to + 1 : k \in 1..n} \cup {to + 1}
      BY <2>2, <3>1
    <3>3. {pieces'[k].to + 1 : k \in 1..n} = {pieces[k].to + 1 : k \in 1..n}
      BY <2>1
    <3>4. QED
      BY <1>7, <2>4, <3>2, <3>3
  <2>5. CASE to = next
    <3>1. Cuts' = {pieces'[k].to + 1 : k \in 1..n}
      BY <1>1, <2>1, <2>2, <2>3, <2>5
    <3>2. QED
      BY <1>1, <1>7, <2>1, <2>5, <3>1
  <2>6. QED
    BY <2>4, <2>5
<1>9. Passed' = Passed \cup IF to < next THEN {to + 1} ELSE {}
  <2>1. Passed' = {i \in Ends : i <= next}
    BY <1>2, <1>4 DEF Passed
  <2>2. \A i \in Ends : i <= next <=> i <= start \/ (start < i /\ i <= next)
    BY <1>1, EndsNat
  <2>3. QED
    BY <2>1, <2>2 DEF Passed
<1>10. Passed = Cuts
  BY DEF CutInv, CutWhereTheInputSays, Passed, Cuts
<1>11. Passed' = Cuts'
  BY <1>8, <1>9, <1>10
<1>12. \A k \in 1..(n + 1) : pieces'[k].to = next => over /\ next = Len(input)
  <2>1. \A k \in 1..n : pieces'[k].to # next
    BY <1>1, <1>3, <1>6
  <2>2. pieces'[n + 1].to = to /\ 1..(n + 1) = (1..n) \cup {n + 1}
    BY <1>1, <1>3
  <2>3. QED
    BY <1>1, <2>1, <2>2
<1>13. CutWhereTheInputSays'
  BY <1>2, <1>3, <1>11, <1>12 DEF CutWhereTheInputSays, Passed, Cuts
<1>14. why # "limit"
  BY DEF CutInv
<1>15. EndsForALongPiece'
  BY <1>2, <1>14 DEF EndsForALongPiece
<1>16. \A k \in 1..(n + 1) : pieces'[k].to <= next
  BY <1>1, <1>3, <1>6
<1>17. start' = 0 \/ start' \in Ends' \/ (over' /\ start' = Len(input'))
  BY <1>2, <1>4
<1>18. mode = "query" /\ over => Ends \cap (next + 1)..fetched = {}
  BY <1>1
<1>19. QED
  BY <1>2, <1>3, <1>4, <1>13, <1>14, <1>15, <1>16, <1>17, <1>18 DEF CutInv

\* A Token is.
LEMMA TokenKeepsCuts ==
  ASSUME TypeOK, CutInv, Token
  PROVE  CutInv'
<1>1. /\ start \in Nat /\ fetched \in Nat /\ fetched <= Len(input) /\ Len(input) \in Nat
      /\ start <= fetched
  BY Numbers
<1>2. PICK i \in Terminators :
        (\A j \in Terminators : i <= j) /\ Cut([from |-> start, to |-> i - 1], i)
  BY DEF Token
<1>3. Terminators = Ends \cap (start + 1)..fetched
  <2>1. mode = "query" => start = 0 \/ start \in Ends
    BY DEF Token, CutInv
  <2>2. QED
    BY <2>1, TerminatorsAreEnds
<1>4. i \in Ends /\ i \in Nat /\ start < i /\ i <= fetched
  BY <1>1, <1>2, <1>3
<1>5. \A j \in Ends : start < j /\ j <= i <=> j = i
  <2>1. ASSUME NEW j \in Ends, start < j, j <= i
        PROVE  j = i
    <3>1. j \in Nat
      BY EndsNat
    <3>2. j \in Terminators
      BY <1>1, <1>3, <1>4, <2>1, <3>1
    <3>3. QED
      BY <1>2, <1>4, <2>1, <3>1, <3>2
  <2>2. QED
    BY <1>4, <2>1
<1>6. {j \in Ends : start < j /\ j <= i} = {i}
  BY <1>4, <1>5
<1>7. /\ i - 1 \in Nat /\ start <= i - 1 /\ i - 1 <= i /\ i - 1 < i /\ i = (i - 1) + 1
      /\ i - 1 # i
  BY <1>1, <1>4
<1>8. pc = "split" /\ ~(mode = "query" /\ over)
  BY DEF Token
<1>9. QED
  BY <1>2, <1>4, <1>6, <1>7, <1>8, CutKeepsCuts

\* So is the Rest.
LEMMA RestKeepsCuts ==
  ASSUME TypeOK, BufferInv, CutInv, Rest
  PROVE  CutInv'
<1>1. /\ start \in Nat /\ fetched \in Nat /\ start < fetched
      /\ over /\ pc = "split" /\ fetched = Len(input)
      /\ Cut([from |-> start, to |-> fetched], fetched)
  BY Numbers DEF Rest, BufferInv
<1>2. Ends \cap (start + 1)..fetched = {}
  <2>1. CASE mode = "query"
    BY <1>1, <2>1 DEF CutInv
  <2>2. CASE mode # "query"
    BY <2>2, TerminatorsAreEnds DEF Rest
  <2>3. QED
    BY <2>1, <2>2
<1>3. {i \in Ends : start < i /\ i <= fetched} = {}
  BY <1>1, <1>2, EndsNat
<1>4. QED
  BY <1>1, <1>3, CutKeepsCuts

\* A scan that gives up, or wants more, has a buffer without terminators.
LEMMA NothingFound ==
  ASSUME TypeOK, CutInv, More \/ TooLong
  PROVE  Ends \cap (start + 1)..fetched = {}
<1>1. ~over /\ Terminators = {}
  BY DEF More, TooLong
<1>2. mode = "query" => start = 0 \/ start \in Ends
  BY <1>1 DEF CutInv
<1>3. QED
  BY <1>1, <1>2, TerminatorsAreEnds

\* Steps that cut nothing leave what has been cut as it was.
LEMMA CutsStay ==
  ASSUME UNCHANGED <<mode, input, start, pieces>>, over => over'
  PROVE  CutWhereTheInputSays => CutWhereTheInputSays'
<1>1. Ends' = Ends
  BY EndsStay
<1>2. QED
  BY <1>1 DEF CutWhereTheInputSays

\* They keep the rest of the invariant too.
LEMMA OtherKeepsCuts ==
  ASSUME TypeOK, BufferInv, CutInv,
         InputEnds \/ More \/ TooLong \/ Read \/ ReadEnds \/ ActStep \/ UNCHANGED vars
  PROVE  CutInv'
<1>1. UNCHANGED <<mode, input, start, pieces>> /\ (over => over')
  BY DEF InputEnds, More, TooLong, Read, ReadEnds, ActStep, Succeeds, Fails, vars
<1>2. Ends' = Ends
  BY <1>1, EndsStay
<1>3. CutWhereTheInputSays'
  BY <1>1, CutsStay DEF CutInv
<1>4. start' = 0 \/ start' \in Ends' \/ (over' /\ start' = Len(input'))
  BY <1>1, <1>2 DEF CutInv
<1>5. \A k \in DOMAIN pieces' : pieces'[k].to <= start'
  BY <1>1 DEF CutInv
<1>6. why' = "limit" => pc' = "done" /\ (why = "limit" \/ TooLong)
  BY DEF InputEnds, More, TooLong, Read, ReadEnds, ActStep, Succeeds, Fails, vars, CutInv
<1>7. EndsForALongPiece'
  <2>1. SUFFICES ASSUME why' = "limit"
                 PROVE  /\ Len(input) >= start + MaxToken
                        /\ Ends \cap (start + 1)..(start + MaxToken) = {}
    BY <1>1, <1>2 DEF EndsForALongPiece
  <2>2. CASE why = "limit"
    BY <2>2 DEF CutInv, EndsForALongPiece
  <2>3. CASE TooLong
    <3>1. fetched = start + MaxToken /\ Len(input) >= start + MaxToken
      BY <2>3, Numbers DEF TooLong
    <3>2. QED
      BY <2>3, <3>1, NothingFound
  <2>4. QED
    BY <1>6, <2>1, <2>2, <2>3
<1>8. pc' = "read" \/ (mode' = "query" /\ over') => Ends' \cap (start' + 1)..fetched' = {}
  <2>1. SUFFICES ASSUME pc' = "read" \/ (mode = "query" /\ over')
                 PROVE  Ends \cap (start + 1)..fetched' = {}
    BY <1>1, <1>2
  <2>2. CASE More
    BY <2>2, NothingFound DEF More
  <2>3. CASE Read
    BY <2>1, <2>3 DEF Read, BufferInv
  <2>4. CASE InputEnds \/ TooLong \/ ReadEnds \/ ActStep \/ UNCHANGED vars
    <3>1. fetched' = fetched /\ (pc = "read" \/ (mode = "query" /\ over))
      BY <2>1, <2>4 DEF InputEnds, TooLong, ReadEnds, ActStep, Succeeds, Fails, vars
    <3>2. QED
      BY <3>1 DEF CutInv
  <2>5. QED
    BY <2>2, <2>3, <2>4
<1>9. QED
  BY <1>3, <1>4, <1>5, <1>6, <1>7, <1>8 DEF CutInv

\* Each scan begins at a terminator, and none is passed over (postgresql.go:61-63, 142-167).
THEOREM CutsInvariant == Spec => []CutInv
<1>1. Init => CutInv
  <2> SUFFICES ASSUME Init
               PROVE  CutInv
    OBVIOUS
  <2>1. start = 0 /\ pieces = <<>> /\ pc = "split" /\ over = FALSE /\ why = "none"
    BY DEF Init
  <2>2. DOMAIN pieces = {}
    BY <2>1
  <2>3. {i \in Ends : i <= start} = {}
    <3>1. \A i \in Ends : i \in Nat /\ i > 0
      <4>1. PICK n \in 0..MaxInput : input \in [1..n -> Bytes]
        BY DEF Init
      <4>2. DOMAIN input = 1..n
        BY <4>1
      <4>3. QED
        BY <4>2 DEF Ends
    <3>2. QED
      BY <2>1, <3>1
  <2>4. {p.to + 1 : p \in {q \in {pieces[k] : k \in DOMAIN pieces} : q.to < start}} = {}
    BY <2>2
  <2>5. QED
    BY <2>1, <2>2, <2>3, <2>4 DEF CutInv, CutWhereTheInputSays, EndsForALongPiece
<1>2. TypeOK /\ BufferInv /\ CutInv /\ [Next]_vars => CutInv'
  BY TokenKeepsCuts, RestKeepsCuts, OtherKeepsCuts DEF Next, ScanStep
<1>3. QED
  BY <1>1, <1>2, StatementsTypeCorrect, PTL DEF Spec

\* The pieces are those of the input as a whole, however it arrives in Reads and
\* wherever the buffer ends (postgresql.go:142-167, listen_notify.go, websocket.go).
THEOREM PiecesAreTheInputs == Spec => []CutWhereTheInputSays
<1>1. CutInv => CutWhereTheInputSays
  BY DEF CutInv
<1>2. QED
  BY <1>1, CutsInvariant, PTL

\* A loop gives up only before a piece of MaxToken bytes or more (postgresql.go:63).
THEOREM LimitIsForALongPiece == Spec => []EndsForALongPiece
<1>1. CutInv => EndsForALongPiece
  BY DEF CutInv
<1>2. QED
  BY <1>1, CutsInvariant, PTL

\* The flags of the loop, which starts anew with each buffer, are those of the bytes
\* in the whole input.
FlagsAreTheInputs ==
  mode = "query" /\ ~over => \A i \in start..fetched : Flags[i] = Here(i + 1)

\* splitStatements keeps nothing between its calls, and needs nothing: its scan gives
\* every byte the flags that a scan of the whole input would (postgresql.go:142-167).
THEOREM ScanAfreshIsRight == Spec => []FlagsAreTheInputs
<1>1. TypeOK /\ CutInv => FlagsAreTheInputs
  BY FlagsAreHere DEF CutInv, FlagsAreTheInputs
<1>2. QED
  BY <1>1, CutsInvariant, StatementsTypeCorrect, PTL

\* A loop that waits for the stream has no whole piece in its buffer.
WaitsOnlyForMore == pc = "read" => \A i \in Ends : i <= fetched => i <= start

\* The safety half of CompleteIsActedOn: the Read that may block for ever is never
\* called while a whole piece is in the buffer (postgresql.go:61-63).
THEOREM ReadsOnlyForMore == Spec => []WaitsOnlyForMore
<1>1. TypeOK /\ CutInv => WaitsOnlyForMore
  <2> SUFFICES ASSUME TypeOK, CutInv, pc = "read", NEW i \in Ends, i <= fetched
               PROVE  i <= start
    BY DEF WaitsOnlyForMore
  <2>1. i \in Nat /\ start \in Nat /\ fetched \in Nat
    BY Numbers, EndsNat
  <2>2. i \notin (start + 1)..fetched
    BY DEF CutInv
  <2>3. QED
    BY <2>1, <2>2
<1>2. QED
  BY <1>1, CutsInvariant, StatementsTypeCorrect, PTL

-----------------------------------------------------------------------------
(* The other half: the loop comes to its next Read, or to its end. *)

\* What is left to do: bytes to fetch, bytes to cut, the end to see, and the turn.
Left ==
  2 * (Len(input) - start) + 2 * (Len(input) - fetched) + (IF over THEN 0 ELSE 2)
    + CASE pc = "act" -> 2 [] pc = "split" -> 1 [] OTHER -> 0

LeftShrinks == Left \in Nat /\ Left' < Left

\* Every step leaves less to do, so that between two Reads there are finitely many: the
\* loop never goes round without using up some of the input, which is what a
\* bufio.SplitFunc has to see to (postgresql.go:142-167).
THEOREM LoopRunsOut == Spec => [][LeftShrinks]_vars
<1>1. TypeOK /\ BufferInv /\ [Next]_vars => [LeftShrinks]_vars
  <2> SUFFICES ASSUME TypeOK, BufferInv, Next
               PROVE  LeftShrinks
    OBVIOUS
  <2>1. /\ Len(input) \in Nat /\ start \in Nat /\ fetched \in Nat
        /\ start <= fetched /\ fetched <= Len(input)
    BY Numbers
  <2>2. CASE Token \/ Rest
    <3>1. PICK to \in Nat, next \in Nat :
            start < next /\ next <= fetched /\ Cut([from |-> start, to |-> to], next)
      BY <2>2, CutPiece
    <3>2. pc = "split"
      BY <2>2 DEF Token, Rest
    <3>3. /\ start' = next /\ input' = input /\ fetched' = fetched /\ over' = over /\ pc' = "act"
      BY <3>1 DEF Cut
    <3> DEFINE L == Len(input)
               v == IF over THEN 0 ELSE 2
    <3>4. Left = 2 * (L - start) + 2 * (L - fetched) + v + 1
      BY <3>2 DEF Left
    <3>5. Left' = 2 * (L - next) + 2 * (L - fetched) + v + 2
      BY <3>3 DEF Left
    <3>6. v \in Nat /\ L \in Nat
      BY <2>1
    <3> HIDE DEF L, v
    <3>7. fetched <= L
      BY <2>1 DEF L
    <3>8. QED
      BY <2>1, <3>1, <3>4, <3>5, <3>6, <3>7 DEF LeftShrinks
  <2>3. CASE InputEnds \/ More \/ TooLong
    <3>1. /\ start' = start /\ input' = input /\ fetched' = fetched /\ over' = over
          /\ pc = "split" /\ pc' \in {"read", "done"}
      BY <2>3 DEF InputEnds, More, TooLong
    <3>2. QED
      BY <2>1, <3>1 DEF LeftShrinks, Left
  <2>4. CASE Read
    <3>1. /\ start' = start /\ input' = input /\ over' = over /\ pc = "read" /\ pc' = "split"
          /\ fetched' \in Nat /\ fetched < fetched' /\ fetched' <= Len(input)
      BY <2>1, <2>4 DEF Read
    <3> DEFINE L == Len(input)
               v == IF over THEN 0 ELSE 2
    <3>2. Left = 2 * (L - start) + 2 * (L - fetched) + v
      BY <2>1, <3>1 DEF Left
    <3>3. Left' = 2 * (L - start) + 2 * (L - fetched') + v + 1
      BY <3>1 DEF Left
    <3>4. v \in Nat /\ L \in Nat
      BY <2>1
    <3> HIDE DEF L, v
    <3>5. /\ start \in Nat /\ fetched \in Nat /\ fetched' \in Nat
          /\ start <= fetched /\ fetched < fetched' /\ fetched <= L /\ fetched' <= L
      BY <2>1, <3>1 DEF L
    <3>6. \A l, w, i, j, k \in Nat : i <= j /\ j < k /\ k <= l =>
            LET all == 2 * (l - i) + 2 * (l - j) + w IN
            all \in Nat /\ 2 * (l - i) + 2 * (l - k) + w + 1 < all
      OBVIOUS
    <3>7. QED
      BY <3>2, <3>3, <3>4, <3>5, <3>6 DEF LeftShrinks
  <2>5. CASE ReadEnds
    <3>1. /\ start' = start /\ input' = input /\ fetched' = fetched /\ ~over /\ over' = TRUE
          /\ pc = "read" /\ pc' = "split"
      BY <2>5 DEF ReadEnds, BufferInv
    <3>2. QED
      BY <2>1, <3>1 DEF LeftShrinks, Left
  <2>6. CASE ActStep
    <3>1. /\ start' = start /\ input' = input /\ fetched' = fetched /\ over' = over
          /\ pc = "act" /\ pc' \in {"split", "done"}
      BY <2>6 DEF ActStep, Succeeds, Fails
    <3>2. QED
      BY <2>1, <3>1 DEF LeftShrinks, Left
  <2>7. QED
    BY <2>2, <2>3, <2>4, <2>5, <2>6 DEF Next, ScanStep
<1>2. QED
  BY <1>1, StatementsTypeCorrect, PTL DEF Spec
=============================================================================
