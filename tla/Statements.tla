------------------------------ MODULE Statements ------------------------------
(***************************************************************************)
(* The loops that cut what a stream brings into pieces and do something    *)
(* with each: a query of postgres: for every statement, a notification of  *)
(* postgres+notify: for every line, a message of ws: for every line.  They *)
(* share bufio.Scanner, whose buffer is tried before more is read, and     *)
(* which gives up, to its caller as if the input had ended, when its       *)
(* buffer is full and holds no whole piece.                                *)
(*                                                                         *)
(* Positions count the bytes of the input; the piece [from, to] is what    *)
(* lies after from and up to to.  No Reader of the program returns its     *)
(* last bytes together with the end, and one that fails rather than ends   *)
(* is, to the scanner, one whose input was shorter.                        *)
(***************************************************************************)
EXTENDS Naturals, Sequences, FiniteSets

CONSTANTS
  MaxInput,  \* bound: the length of the input
  MaxToken   \* bufio.MaxScanTokenSize, the most the buffer holds (64 KiB)

ASSUME StatementsAssumption == MaxInput \in Nat /\ MaxToken \in Nat \ {0}

\* The bytes that count; "newline" is any other byte to a query, as they are to a line.
Bytes == {"backslash", "quote", "semicolon", "newline"}
Modes == {"query", "notify", "message"}

VARIABLES
  mode,    \* which of the loops it is
  input,   \* what the stream is going to bring
  start,   \* bytes the scanner has done with
  fetched, \* bytes it has read
  over,    \* Read has returned an end
  pc,      \* "split", "read", "act" or "done"
  pieces,  \* the pieces cut so far
  why      \* what ended the loop: "end", "limit" or "failed"; "none" before

vars == <<mode, input, start, fetched, over, pc, pieces, why>>

Init ==
  /\ mode \in Modes
  /\ input \in UNION {[1..n -> Bytes] : n \in 0..MaxInput}
  /\ start = 0 /\ fetched = 0 /\ over = FALSE
  /\ pc = "split" /\ pieces = <<>> /\ why = "none"

-----------------------------------------------------------------------------
(* Where the buffer, which is input[start+1..fetched], is cut. *)

Plain == [escape |-> FALSE, string |-> FALSE]

\* Mutant: a quote that is escaped ends the string.
SeeUnescaped(s, b) ==
  CASE b = "quote" -> [escape |-> FALSE, string |-> ~s.string]
    [] s.escape -> [s EXCEPT !.escape = FALSE]
    [] b = "backslash" -> [s EXCEPT !.escape = TRUE]
    [] OTHER -> s

See(s, b) ==
  CASE s.escape -> [s EXCEPT !.escape = FALSE]
    [] ~s.escape /\ b = "backslash" -> [s EXCEPT !.escape = TRUE]
    [] ~s.escape /\ b = "quote" -> [s EXCEPT !.string = ~@]
    [] OTHER -> s

\* The flags of the loop before it looks at each byte of the buffer.
Flags ==
  LET flags[i \in start..fetched] ==
        IF i = start THEN Plain ELSE See(flags[i - 1], input[i])
  IN flags

Terminators ==
  IF mode = "query"
  THEN {i \in (start + 1)..fetched : input[i] = "semicolon" /\ Flags[i - 1] = Plain}
  ELSE {i \in (start + 1)..fetched : input[i] = "newline"}

Cut(piece, next) ==
  /\ pieces' = Append(pieces, piece) /\ start' = next /\ pc' = "act"
  /\ UNCHANGED <<mode, input, fetched, over, why>>

\* Mutant: the byte after the piece, its terminator, stays in the buffer.
TokenKeepsTerminator ==
  /\ pc = "split" /\ ~over
  /\ \E i \in Terminators :
       /\ \A j \in Terminators : i <= j
       /\ Cut([from |-> start, to |-> i - 1], IF i - 1 > start THEN i - 1 ELSE i)

\* With the end in sight statements are not searched for: the rest is one.
Token ==
  /\ pc = "split" /\ ~(over /\ mode = "query")
  /\ \E i \in Terminators :
       /\ \A j \in Terminators : i <= j
       /\ Cut([from |-> start, to |-> i - 1], i)

Rest ==
  /\ pc = "split" /\ over /\ start < fetched
  /\ mode = "query" \/ Terminators = {}
  /\ Cut([from |-> start, to |-> fetched], fetched)

InputEnds ==
  /\ pc = "split" /\ over /\ start = fetched
  /\ pc' = "done" /\ why' = "end"
  /\ UNCHANGED <<mode, input, start, fetched, over, pieces>>

-----------------------------------------------------------------------------
(* No whole piece in the buffer. *)

\* Mutant: the buffer is filled before it is looked at.
MoreFirst ==
  /\ pc = "split" /\ ~over /\ fetched - start < MaxToken
  /\ pc' = "read"
  /\ UNCHANGED <<mode, input, start, fetched, over, pieces, why>>

More ==
  /\ pc = "split" /\ ~over /\ Terminators = {} /\ fetched - start < MaxToken
  /\ pc' = "read"
  /\ UNCHANGED <<mode, input, start, fetched, over, pieces, why>>

\* Mutant: the buffer counts as full one byte too soon.
TooLongTooSoon ==
  /\ pc = "split" /\ ~over /\ Terminators = {} /\ fetched - start + 1 >= MaxToken
  /\ pc' = "done" /\ why' = "limit"
  /\ UNCHANGED <<mode, input, start, fetched, over, pieces>>

\* Scan returns false; no loop but that of ws: looks at scanner.Err.
TooLong ==
  /\ pc = "split" /\ ~over /\ Terminators = {} /\ fetched - start >= MaxToken
  /\ pc' = "done" /\ why' = "limit"
  /\ UNCHANGED <<mode, input, start, fetched, over, pieces>>

\* Mutant: the room for one more Read is not what the buffer has left.
ReadOver ==
  /\ pc = "read"
  /\ fetched' \in (fetched + 1)..Len(input)
  /\ fetched' - fetched <= MaxToken
  /\ pc' = "split"
  /\ UNCHANGED <<mode, input, start, over, pieces, why>>

Read ==
  /\ pc = "read"
  /\ fetched' \in (fetched + 1)..Len(input)
  /\ fetched' - start <= MaxToken
  /\ pc' = "split"
  /\ UNCHANGED <<mode, input, start, over, pieces, why>>

ReadEnds ==
  /\ pc = "read" /\ fetched = Len(input)
  /\ over' = TRUE /\ pc' = "split"
  /\ UNCHANGED <<mode, input, start, fetched, pieces, why>>

-----------------------------------------------------------------------------
(* What is done with a piece. *)

Succeeds ==
  /\ pc = "act" /\ pc' = "split"
  /\ UNCHANGED <<mode, input, start, fetched, over, pieces, why>>

\* A query that fails is logged; a notification or a message that does ends the loop.
Fails ==
  /\ pc = "act"
  /\ \/ mode = "query" /\ pc' = "split" /\ why' = why
     \/ mode # "query" /\ pc' = "done" /\ why' = "failed"
  /\ UNCHANGED <<mode, input, start, fetched, over, pieces>>

-----------------------------------------------------------------------------
ScanStep == Token \/ Rest \/ InputEnds \/ More \/ TooLong
ActStep == Succeeds \/ Fails
Next == ScanStep \/ Read \/ ReadEnds \/ ActStep

\* The goroutine runs and the server answers.  Nothing is assumed of the stream.
Fairness == WF_vars(ScanStep) /\ WF_vars(ActStep)

Spec == Init /\ [][Next]_vars /\ Fairness

-----------------------------------------------------------------------------
Positions == 0..Len(input)

TypeOK ==
  /\ mode \in Modes /\ input \in Seq(Bytes) /\ Len(input) <= MaxInput
  /\ start \in 0..fetched /\ fetched \in Positions /\ fetched - start <= MaxToken
  /\ over \in BOOLEAN /\ pc \in {"split", "read", "act", "done"}
  /\ pieces \in Seq([from : Positions, to : Positions])
  /\ why \in {"none", "end", "limit", "failed"}

\* Nothing is skipped and nothing is used twice: the first piece starts the input,
\* each starts after the terminator of the one before, the scanner is at the byte
\* after the last, and a loop that ends because its input has, has used all of it
\* (postgresql.go:61-63, 142-167).
Adjacent ==
  /\ \A k \in 1..Len(pieces) :
       pieces[k].from = IF k = 1 THEN 0 ELSE pieces[k - 1].to + 1
  /\ start = IF pieces = <<>> THEN 0
             ELSE LET last == pieces[Len(pieces)].to IN IF over /\ last = fetched THEN last ELSE last + 1
  /\ why = "end" => start = Len(input)

\* A piece that is acted on was in the buffer with its terminator, or with room
\* left when the input ended: it has fewer than MaxToken bytes.
PiecesFit ==
  \A k \in 1..Len(pieces) :
    /\ pieces[k].from <= pieces[k].to
    /\ pieces[k].to - pieces[k].from < MaxToken

\* What ends a statement, said of the whole input and without a scan of it: a byte
\* is escaped when an odd number of backslashes comes right before it, and in a
\* string when an odd number of quotes that are not escaped do.
Escaped(i) ==
  \E j \in 1..(i - 1) :
    /\ \A k \in j..(i - 1) : input[k] = "backslash"
    /\ j = 1 \/ input[j - 1] # "backslash"
    /\ (i - j) % 2 = 1
InString(i) == Cardinality({j \in 1..(i - 1) : input[j] = "quote" /\ ~Escaped(j)}) % 2 = 1
Ends ==
  IF mode = "query"
  THEN {i \in DOMAIN input : input[i] = "semicolon" /\ ~Escaped(i) /\ ~InString(i)}
  ELSE {i \in DOMAIN input : input[i] = "newline"}

\* However the input arrives, its pieces are the ones that the input as a whole
\* has, and what is left over at the end is one more.
CutWhereTheInputSays ==
  /\ {i \in Ends : i <= start} = {p.to + 1 : p \in {q \in {pieces[k] : k \in DOMAIN pieces} : q.to < start}}
  /\ \A k \in DOMAIN pieces : pieces[k].to = start => over /\ start = Len(input)

\* A loop gives up only before a piece that is too long: one that has MaxToken
\* bytes before its terminator is, one with a byte less is not
\* (postgresql.go:63, 81).
EndsForALongPiece ==
  why = "limit" =>
    /\ Len(input) >= start + MaxToken
    /\ Ends \cap (start + 1)..(start + MaxToken) = {}

\* A piece is acted on when its terminator has come; it does not wait for what
\* comes after it, unless the loop has ended.
CompleteIsActedOn ==
  \A i \in 1..MaxInput : i <= fetched /\ i \in Ends ~> start >= i \/ pc = "done"
=============================================================================
