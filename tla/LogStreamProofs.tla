--------------------------- MODULE LogStreamProofs ---------------------------
(***************************************************************************)
(* Proofs about LogStream, for any number of chunks and pieces.            *)
(*                                                                         *)
(* PipeInv is the account of each pipe.  What the logger has seen of the   *)
(* send pipe is what Read has returned and what of the chunk in hand has   *)
(* gone through; what is short on the recv pipe is the rest of the chunk   *)
(* in hand, or of the one whose Write failed, which was the last.          *)
(*                                                                         *)
(* NobodyWaitsForEver and LeftShrinks say what of ClosedEndIsLeft needs no *)
(* fairness: at a closed end there is always a step to take, and there are *)
(* only so many.                                                           *)
(***************************************************************************)
EXTENDS LogStream, TLAPS

PipeInv ==
  /\ Seen("send") = got + (IF reader = "tee" THEN passed["send"] ELSE 0)
  /\ writer \in {"idle", "below"} => put = Seen("recv")
  /\ writer = "tee" => put = Seen("recv") + (Pieces - passed["recv"])
  /\ Seen("recv") <= put /\ put <= Seen("recv") + Pieces

\* Until Read is over all chunks read but the one in hand have been returned whole.
WholeChunks ==
  /\ reader \in {"idle", "below"} => got = taken * Pieces
  /\ reader = "tee" => taken > 0 /\ got = (taken - 1) * Pieces

-----------------------------------------------------------------------------
\* The counters keep their types.
LEMMA LogTypeStep ==
  ASSUME TypeOK, [Next]_vars
  PROVE  TypeOK'
<1> USE LogAssumption DEF LogAssumption, TypeOK
<1>1. CASE Feed \/ SourceEnds \/ Read \/ Write
  <2>1. CASE Feed
    <3>1. fed' \in 0..MaxChunks /\ taken' \in 0..fed'
      BY <2>1 DEF Feed
    <3>2. QED
      BY <2>1, <3>1 DEF Feed
  <2>2. CASE SourceEnds
    BY <2>2 DEF SourceEnds
  <2>3. CASE Read
    BY <2>3 DEF Read
  <2>4. CASE Write
    BY <2>4 DEF Write
  <2>5. QED
    BY <1>1, <2>1, <2>2, <2>3, <2>4
<1>2. CASE ReadStep
  <2>1. CASE ReadBelow
    BY <2>1 DEF ReadBelow, Pipes
  <2>2. CASE ReadFails
    BY <2>2 DEF ReadFails
  <2>3. CASE TeeReturns \/ TeeFails
    <3>1. "send" \in Pipes
      BY DEF Pipes
    <3>2. passed["send"] \in Nat
      BY <3>1
    <3>3. QED
      BY <2>3, <3>2 DEF TeeReturns, TeeFails
  <2>4. QED
    BY <1>2, <2>1, <2>2, <2>3 DEF ReadStep
<1>3. CASE WriteStep
  BY <1>3 DEF WriteStep, WriteBelow, WriteFails, LogWritten, LogFails, Pipes
<1>4. ASSUME NEW l \in Pipes, LoggerStep(l)
      PROVE  TypeOK'
  BY <1>4 DEF LoggerStep, LoggerReads, Log, LoggerEnds
<1>5. ASSUME NEW e \in Ends, CloseBelow(e) \/ ClosePipe(e)
      PROVE  TypeOK'
  BY <1>5 DEF CloseBelow, ClosePipe
<1>6. CASE UNCHANGED vars
  BY <1>6 DEF vars
<1>7. QED
  BY <1>1, <1>2, <1>3, <1>4, <1>5, <1>6 DEF Next

\* Every state is well typed (internal/stream.go, internal/io.go:109-187).
THEOREM LogTypeCorrect == Spec => []TypeOK
<1>1. Init => TypeOK
  <2> SUFFICES ASSUME Init
               PROVE  TypeOK
    OBVIOUS
  <2>1. 0 \in 0..MaxChunks /\ 0 \in 0..Pieces /\ 0 \in 0..0
    BY LogAssumption DEF LogAssumption
  <2>2. fed \in 0..MaxChunks /\ ended \in BOOLEAN /\ taken \in 0..fed
    BY <2>1 DEF Init
  <2>3. /\ passed \in [Pipes -> 0..Pieces] /\ logs \in [Pipes -> Nat] /\ got \in Nat /\ put \in Nat
        /\ logger \in [Pipes -> {"read", "log", "done"}]
        /\ end \in [Ends -> {"open", "closing", "closed"}]
    BY <2>1 DEF Init
  <2>4. QED
    BY <2>2, <2>3 DEF Init, TypeOK
<1>2. QED
  BY <1>1, LogTypeStep, PTL DEF Spec

-----------------------------------------------------------------------------
\* A step of a logger moves one piece from its pipe into what it has seen.
LEMMA LoggerKeepsPipeInv ==
  ASSUME TypeOK, PipeInv, NEW l \in Pipes, LoggerStep(l)
  PROVE  PipeInv'
<1> USE LogAssumption DEF LogAssumption, TypeOK
<1>1. UNCHANGED <<reader, writer, got, put>>
  BY DEF LoggerStep, LoggerReads, Log, LoggerEnds
<1>2. CASE LoggerReads(l)
  <2>1. /\ passed'[l] = passed[l] + 1 /\ Seen(l)' = Seen(l) + 1
        /\ \A k \in Pipes : k # l => passed'[k] = passed[k] /\ Seen(k)' = Seen(k)
    BY <1>2 DEF LoggerReads, Seen
  <2>2. CallOn(l) = "tee" /\ passed[l] < Pieces
    BY <1>2 DEF LoggerReads
  <2>3. \A k \in Pipes : Seen(k) \in Nat /\ passed[k] \in Nat
    BY DEF Seen
  <2>4. CASE l = "send"
    BY <1>1, <2>1, <2>2, <2>3, <2>4 DEF PipeInv, CallOn, Pipes
  <2>5. CASE l = "recv"
    BY <1>1, <2>1, <2>2, <2>3, <2>5 DEF PipeInv, CallOn, Pipes
  <2>6. QED
    BY <2>4, <2>5 DEF Pipes
<1>3. CASE Log(l) \/ LoggerEnds(l)
  <2>1. passed' = passed /\ \A k \in Pipes : Seen(k)' = Seen(k)
    BY <1>3 DEF Log, LoggerEnds, Seen
  <2>2. QED
    BY <1>1, <2>1 DEF PipeInv, Pipes
<1>4. QED
  BY <1>2, <1>3 DEF LoggerStep

\* So do all other steps.
LEMMA PipeStep ==
  ASSUME TypeOK, PipeInv, [Next]_vars
  PROVE  PipeInv'
<1> USE LogAssumption DEF LogAssumption, TypeOK
<1>1. "send" \in Pipes /\ "recv" \in Pipes
  BY DEF Pipes
<1>2. Seen("send") \in Nat /\ Seen("recv") \in Nat
  BY <1>1 DEF Seen
<1>3. CASE \/ Feed \/ SourceEnds \/ Read \/ ReadFails \/ Write \/ WriteFails
           \/ (\E e \in Ends : CloseBelow(e) \/ ClosePipe(e)) \/ UNCHANGED vars
  <2>1. UNCHANGED <<passed, got, put, logger, logs>>
    BY <1>3 DEF Feed, SourceEnds, Read, ReadFails, Write, WriteFails, CloseBelow, ClosePipe, vars
  <2>2. /\ reader' = "tee" <=> reader = "tee"
        /\ writer' \in {"idle", "below"} => writer \in {"idle", "below"}
        /\ writer' = "tee" => writer = "tee"
    BY <1>3 DEF Feed, SourceEnds, Read, ReadFails, Write, WriteFails, CloseBelow, ClosePipe, vars
  <2>3. Seen("send")' = Seen("send") /\ Seen("recv")' = Seen("recv")
    BY <2>1 DEF Seen
  <2>4. QED
    BY <2>1, <2>2, <2>3 DEF PipeInv
<1>4. CASE ReadBelow \/ TeeReturns \/ TeeFails
  <2>1. UNCHANGED <<writer, put, logger, logs>> /\ passed'["recv"] = passed["recv"]
    BY <1>1, <1>4 DEF ReadBelow, TeeReturns, TeeFails
  <2>2. Seen("send")' = Seen("send") /\ Seen("recv")' = Seen("recv")
    BY <2>1 DEF Seen
  <2>3. got' + (IF reader' = "tee" THEN passed'["send"] ELSE 0)
          = got + (IF reader = "tee" THEN passed["send"] ELSE 0)
    BY <1>1, <1>4 DEF ReadBelow, TeeReturns, TeeFails
  <2>4. QED
    BY <2>1, <2>2, <2>3 DEF PipeInv
<1>5. CASE WriteBelow \/ LogWritten \/ LogFails
  <2>1. UNCHANGED <<reader, got, logger, logs>> /\ passed'["send"] = passed["send"]
    BY <1>1, <1>5 DEF WriteBelow, LogWritten, LogFails
  <2>2. Seen("send")' = Seen("send") /\ Seen("recv")' = Seen("recv")
    BY <2>1 DEF Seen
  <2>3. /\ passed["recv"] \in 0..Pieces
        /\ \/ writer = "below" /\ writer' = "tee" /\ put' = put + Pieces /\ passed'["recv"] = 0
           \/ writer = "tee" /\ writer' = "idle" /\ put' = put /\ passed["recv"] = Pieces
           \/ writer = "tee" /\ writer' = "over" /\ put' = put
    BY <1>1, <1>5 DEF WriteBelow, LogWritten, LogFails
  <2>4. QED
    BY <1>2, <2>1, <2>2, <2>3 DEF PipeInv
<1>6. QED
  BY <1>3, <1>4, <1>5, LoggerKeepsPipeInv DEF Next, ReadStep, WriteStep

\* Nothing goes to the network unseen, and nothing is logged as received that was
\* not passed on (stream.go:71-74, io.go:165-187).
THEOREM LogsAreTrue == Spec => []LogsWhatPasses
<1>1. Init => PipeInv
  BY LogAssumption DEF Init, PipeInv, Seen, Pipes, LogAssumption
<1>2. TypeOK /\ PipeInv => LogsWhatPasses
  BY LogAssumption DEF TypeOK, PipeInv, LogsWhatPasses, Seen, Pipes, LogAssumption
<1>3. QED
  BY <1>1, <1>2, PipeStep, LogTypeCorrect, PTL DEF Spec

-----------------------------------------------------------------------------
\* Products of chunks and pieces.
LEMMA Products ==
  ASSUME NEW a \in Nat, NEW b \in Nat, a < b
  PROVE  /\ a * Pieces \in Nat /\ b * Pieces \in Nat
         /\ (a + 1) * Pieces = a * Pieces + Pieces
         /\ a * Pieces < b * Pieces
<1>1. Pieces \in Nat /\ Pieces > 0
  BY LogAssumption DEF LogAssumption
<1>2. PICK d \in Nat : b = a + 1 + d
  <2>1. b - a - 1 \in Nat /\ b = a + 1 + (b - a - 1)
    OBVIOUS
  <2>2. QED
    BY <2>1
<1>3. a * Pieces \in Nat /\ b * Pieces \in Nat /\ d * Pieces \in Nat
  BY <1>1
<1>4. (a + 1) * Pieces = a * Pieces + Pieces
  BY <1>1
<1>5. (a + 1 + d) * Pieces = a * Pieces + Pieces + d * Pieces
  BY <1>1
<1>6. QED
  BY <1>1, <1>2, <1>3, <1>4, <1>5

\* Chunks are returned whole.
LEMMA WholeChunksStep ==
  ASSUME TypeOK, WholeChunks, [Next]_vars
  PROVE  WholeChunks'
<1> USE DEF WholeChunks
<1>1. CASE ReadStep
  <2>1. taken \in Nat /\ taken < taken + 1 /\ (taken + 1) - 1 = taken
    BY DEF TypeOK
  <2>2. CASE ReadBelow
    BY <2>1, <2>2 DEF ReadBelow
  <2>3. CASE ReadFails \/ TeeFails
    BY <2>3 DEF ReadFails, TeeFails
  <2>4. CASE TeeReturns
    <3>1. taken > 0 /\ taken - 1 \in Nat /\ got = (taken - 1) * Pieces /\ (taken - 1) + 1 = taken
      BY <2>1, <2>4 DEF TeeReturns
    <3>2. ((taken - 1) + 1) * Pieces = (taken - 1) * Pieces + Pieces
      BY <2>1, <3>1, Products
    <3>3. QED
      BY <2>4, <3>1, <3>2 DEF TeeReturns
  <2>5. QED
    BY <1>1, <2>2, <2>3, <2>4 DEF ReadStep
<1>2. CASE ~ReadStep
  <2>1. taken' = taken /\ got' = got /\ (reader' = reader \/ (reader = "idle" /\ reader' = "below"))
    BY <1>2 DEF Next, Feed, SourceEnds, Read, Write, WriteStep, WriteBelow, WriteFails, LogWritten,
       LogFails, LoggerStep, LoggerReads, Log, LoggerEnds, CloseBelow, ClosePipe, vars
  <2>2. QED
    BY <2>1
<1>3. QED
  BY <1>1, <1>2

\* Each Read of the logged stream is one of the plain stream.
LEMMA ReadImplementsPlain ==
  ASSUME TypeOK, WholeChunks, ReadStep
  PROVE  Plain!Next \/ UNCHANGED Plain!vars
<1> DEFINE Reading == IF reader \in {"below", "tee"} THEN "reading" ELSE reader
<1>1. UNCHANGED <<fed, ended, writer, put, end>>
  BY DEF ReadStep, ReadBelow, ReadFails, TeeReturns, TeeFails
<1>2. /\ fed \in Nat /\ taken \in Nat /\ taken <= fed /\ passed["send"] \in 0..Pieces
      /\ Pieces \in Nat \ {0} /\ got \in Nat
  BY LogAssumption DEF TypeOK, LogAssumption, Pipes
<1>3. CASE ReadBelow
  <2>1. Reading' = Reading /\ got' = got
    BY <1>3 DEF ReadBelow
  <2>2. QED
    BY <1>1, <2>1 DEF Plain!vars
<1>4. CASE ReadFails
  <2>1. reader = "below" /\ reader' = "over" /\ got' = got
    BY <1>4 DEF ReadFails
  <2>2. "Reader" \notin {e \in Ends : end[e] = "open"} \/ (ended /\ got = fed * Pieces)
    BY <1>4, <2>1 DEF ReadFails, WholeChunks
  <2>3. Plain!ReadFails
    BY <1>1, <2>1, <2>2 DEF Plain!ReadFails
  <2>4. QED
    BY <2>3 DEF Plain!Next
<1>5. CASE TeeReturns \/ TeeFails
  <2>1. reader = "tee" /\ taken > 0 /\ taken - 1 \in Nat /\ got = (taken - 1) * Pieces
    BY <1>2, <1>5 DEF TeeReturns, TeeFails, WholeChunks
  <2>2. got < fed * Pieces
    BY <1>2, <2>1, Products
  <2>3. \/ got' = got + Pieces /\ reader' = "idle"
        \/ /\ "Reader" \notin {e \in Ends : end[e] = "open"}
           /\ got' \in got..(got + Pieces - 1) /\ reader' = "over"
    BY <1>2, <1>5 DEF TeeReturns, TeeFails
  <2>4. Plain!ReadReturns
    BY <1>1, <2>1, <2>2, <2>3 DEF Plain!ReadReturns
  <2>5. QED
    BY <2>4 DEF Plain!Next
<1>6. QED
  BY <1>3, <1>4, <1>5 DEF ReadStep

\* Each Write of it too.
LEMMA WriteImplementsPlain ==
  ASSUME TypeOK, WriteStep
  PROVE  Plain!Next
<1>1. UNCHANGED <<fed, ended, reader, got, end>>
  BY DEF WriteStep, WriteBelow, WriteFails, LogWritten, LogFails
<1>2. CASE WriteBelow
  <2>1. Plain!PassOn
    BY <1>1, <1>2 DEF WriteBelow, Plain!PassOn
  <2>2. QED
    BY <2>1 DEF Plain!Next
<1>3. CASE WriteFails \/ LogFails
  <2>1. Plain!WriteFails
    BY <1>1, <1>3 DEF WriteFails, LogFails, Plain!WriteFails
  <2>2. QED
    BY <2>1 DEF Plain!Next
<1>4. CASE LogWritten
  <2>1. Plain!WriteReturns
    BY <1>1, <1>4 DEF LogWritten, Plain!WriteReturns
  <2>2. QED
    BY <2>1 DEF Plain!Next
<1>5. QED
  BY <1>2, <1>3, <1>4 DEF WriteStep

\* Closing an end closes it for the caller; its logger's pipe is not seen.
LEMMA CloseImplementsPlain ==
  ASSUME TypeOK, NEW e \in Ends, CloseBelow(e) \/ ClosePipe(e)
  PROVE  Plain!Next \/ UNCHANGED Plain!vars
<1>1. UNCHANGED <<fed, ended, reader, writer, got, put>>
  BY DEF CloseBelow, ClosePipe
<1> DEFINE Open == {x \in Ends : end[x] = "open"}
<1>2. CASE CloseBelow(e)
  <2>1. e \in Open /\ Open' = Open \ {e}
    BY <1>2 DEF CloseBelow, TypeOK
  <2>2. Plain!Close(e)
    BY <1>1, <2>1 DEF Plain!Close
  <2>3. QED
    BY <2>2 DEF Plain!Next, Ends
<1>3. CASE ClosePipe(e)
  <2>1. Open' = Open
    BY <1>3 DEF ClosePipe, TypeOK
  <2>2. QED
    BY <1>1, <2>1 DEF Plain!vars
<1>4. QED
  BY <1>2, <1>3

\* To its callers a logged stream is the stream below: the loggers, and the pipes
\* they read, show in no step that PlainStream does not allow (stream.go:48-75).
THEOREM LoggingIsTransparent == Spec => Plain!Spec
<1>1. Init => Plain!Init
  BY DEF Init, Plain!Init, Ends
<1>2. Init => WholeChunks
  <2>1. 0 * Pieces = 0
    BY LogAssumption DEF LogAssumption
  <2>2. QED
    BY <2>1 DEF Init, WholeChunks
<1>3. TypeOK /\ WholeChunks /\ [Next]_vars => WholeChunks' /\ [Plain!Next]_Plain!vars
  <2> SUFFICES ASSUME TypeOK, WholeChunks, [Next]_vars
               PROVE  WholeChunks' /\ (Plain!Next \/ UNCHANGED Plain!vars)
    OBVIOUS
  <2>1. WholeChunks'
    BY WholeChunksStep
  <2>2. CASE Feed
    <3>1. Plain!Feed
      BY <2>2 DEF Feed, Plain!Feed, TypeOK
    <3>2. QED
      BY <2>1, <3>1 DEF Plain!Next
  <2>3. CASE SourceEnds
    <3>1. Plain!End
      BY <2>3 DEF SourceEnds, Plain!End
    <3>2. QED
      BY <2>1, <3>1 DEF Plain!Next
  <2>4. CASE Read
    <3>1. Plain!Read
      BY <2>4 DEF Read, Plain!Read
    <3>2. QED
      BY <2>1, <3>1 DEF Plain!Next
  <2>5. CASE Write
    <3>1. Plain!Write
      BY <2>5 DEF Write, Plain!Write
    <3>2. QED
      BY <2>1, <3>1 DEF Plain!Next
  <2>6. CASE ReadStep
    BY <2>1, <2>6, ReadImplementsPlain
  <2>7. CASE WriteStep
    BY <2>1, <2>7, WriteImplementsPlain
  <2>8. CASE \E e \in Ends : CloseBelow(e) \/ ClosePipe(e)
    BY <2>1, <2>8, CloseImplementsPlain
  <2>9. CASE (\E l \in Pipes : LoggerStep(l)) \/ UNCHANGED vars
    <3>1. UNCHANGED <<fed, ended, reader, writer, got, put, end>>
      BY <2>9 DEF LoggerStep, LoggerReads, Log, LoggerEnds, vars
    <3>2. QED
      BY <2>1, <3>1 DEF Plain!vars
  <2>10. QED
    BY <2>2, <2>3, <2>4, <2>5, <2>6, <2>7, <2>8, <2>9 DEF Next
<1>4. QED
  BY <1>1, <1>2, <1>3, LogTypeCorrect, PTL DEF Spec, Plain!Spec

-----------------------------------------------------------------------------
(* What becomes of a closed end, as far as safety says it: ClosedEndIsLeft     *)
(* without the fairness.                                                       *)

\* The guards of the steps that Fairness lets happen on pipe l.
Goes(l) ==
  \/ end[EndOf(l)] = "closing"
  \/ logger[l] = "log" \/ (logger[l] = "read" /\ end[EndOf(l)] = "closed")
  \/ CallOn(l) = "tee" /\ (passed[l] = Pieces \/ end[EndOf(l)] = "closed")

\* Nobody waits for ever at a closed end: what is not over yet can go on.
NobodyWaitsForEver ==
  \A l \in Pipes :
    end[EndOf(l)] # "open" => Goes(l) \/ (logger[l] = "done" /\ CallOn(l) # "tee")

TeeStep(l) == IF l = "send" THEN TeeReturns \/ TeeFails ELSE LogWritten \/ LogFails

CloseLeft(l) == IF end[EndOf(l)] = "closing" THEN 1 ELSE 0
LoggerLeft(l) == CASE logger[l] = "read" -> 1 [] logger[l] = "log" -> 2 [] OTHER -> 0
CallLeft(l) == IF CallOn(l) = "tee" THEN 1 + 2 * (Pieces - passed[l]) ELSE 0

\* A bound on the steps there are at pipe l once its end is closed.
Left(l) == CloseLeft(l) + LoggerLeft(l) + CallLeft(l)

\* A closed end stays closed, and whoever does anything there leaves less to do:
\* nobody else adds to it.
LeftShrinks ==
  \A l \in Pipes : end[EndOf(l)] # "open" =>
    /\ end'[EndOf(l)] # "open"
    /\ Left(l)' <= Left(l)
    /\ LoggerStep(l) \/ TeeStep(l) \/ ClosePipe(EndOf(l)) => Left(l)' < Left(l)

\* The goroutines of a closed end are never stuck: its logger can end, and a call
\* that is blocked on the logger's pipe can return (stream.go:71-74, io.go:127-187).
THEOREM ClosedEndGoesOn == Spec => []NobodyWaitsForEver
<1>1. TypeOK => NobodyWaitsForEver
  <2> SUFFICES ASSUME TypeOK, NEW l \in Pipes, end[EndOf(l)] # "open", ~Goes(l)
               PROVE  logger[l] = "done" /\ CallOn(l) # "tee"
    BY DEF NobodyWaitsForEver
  <2>1. EndOf(l) \in Ends
    BY DEF EndOf, Ends
  <2>2. end[EndOf(l)] = "closed" /\ logger[l] \in {"read", "log", "done"}
    BY <2>1 DEF TypeOK, Goes
  <2>3. QED
    BY <2>2 DEF Goes
<1>2. QED
  BY <1>1, LogTypeCorrect, PTL

\* What a step does at a pipe whose end is closed: no chunk comes into the call.
LEMMA StepAtClosedEnd ==
  ASSUME TypeOK, [Next]_vars, NEW l \in Pipes, end[EndOf(l)] # "open"
  PROVE  LET e == EndOf(l)
             Same == UNCHANGED <<end[e], logger[l], CallOn(l), passed[l]>>
         IN
         /\ e \in Ends /\ end'[e] # "open"
         /\ \/ Same
            \/ /\ end[e] = "closing" /\ end'[e] = "closed"
               /\ UNCHANGED <<logger[l], CallOn(l), passed[l]>>
            \/ /\ logger[l] = "read" /\ logger'[l] = "log" /\ CallOn(l) = "tee"
               /\ passed'[l] = passed[l] + 1 /\ UNCHANGED <<end[e], CallOn(l)>>
            \/ /\ logger[l] = "log" /\ logger'[l] = "read"
               /\ UNCHANGED <<end[e], CallOn(l), passed[l]>>
            \/ /\ logger[l] = "read" /\ logger'[l] = "done"
               /\ UNCHANGED <<end[e], CallOn(l), passed[l]>>
            \/ /\ CallOn(l) = "tee" /\ CallOn(l)' # "tee"
               /\ UNCHANGED <<end[e], logger[l], passed[l]>>
            \/ /\ CallOn(l) # "tee" /\ CallOn(l)' # "tee"
               /\ UNCHANGED <<end[e], logger[l], passed[l]>>
         /\ LoggerStep(l) \/ TeeStep(l) \/ ClosePipe(e) => ~Same
<1> DEFINE e == EndOf(l)
           Same == UNCHANGED <<end[e], logger[l], CallOn(l), passed[l]>>
<1>1. /\ e \in Ends /\ (l = "send" => e = "Reader") /\ (l = "recv" => e = "Writer")
      /\ (l = "send" \/ l = "recv") /\ passed[l] \in 0..Pieces
  BY DEF EndOf, Ends, Pipes, TypeOK
<1>q. /\ CallOn(l) = (IF l = "send" THEN reader ELSE writer)
      /\ CallOn(l)' = (IF l = "send" THEN reader' ELSE writer')
  BY DEF CallOn
<1>w. passed[l] # passed[l] + 1
  BY <1>1
<1>t. TypeOK
  OBVIOUS
<1> HIDE DEF e
<1>2. ASSUME Feed \/ SourceEnds \/ UNCHANGED vars
      PROVE  Same
  BY <1>2, <1>q DEF Feed, SourceEnds, vars
<1>3. ASSUME Read \/ Write \/ ReadBelow \/ ReadFails \/ WriteBelow \/ WriteFails
      PROVE  \/ Same
             \/ CallOn(l) # "tee" /\ CallOn(l)' # "tee" /\ UNCHANGED <<end[e], logger[l], passed[l]>>
  BY <1>3, <1>1, <1>q, <1>t DEF e, Read, Write, ReadBelow, ReadFails, WriteBelow, WriteFails, TypeOK
<1>4. ASSUME TeeReturns \/ TeeFails \/ LogWritten \/ LogFails
      PROVE  \/ Same
             \/ CallOn(l) = "tee" /\ CallOn(l)' # "tee" /\ UNCHANGED <<end[e], logger[l], passed[l]>>
  BY <1>4, <1>1, <1>q DEF TeeReturns, TeeFails, LogWritten, LogFails
<1>5. ASSUME NEW k \in Pipes, k # l, LoggerStep(k)
      PROVE  Same
  BY <1>5, <1>q, <1>t DEF LoggerStep, LoggerReads, Log, LoggerEnds, TypeOK
<1>6. ASSUME LoggerStep(l)
      PROVE  /\ ~Same /\ UNCHANGED <<end[e], CallOn(l)>>
             /\ \/ /\ logger[l] = "read" /\ logger'[l] = "log" /\ CallOn(l) = "tee"
                   /\ passed'[l] = passed[l] + 1
                \/ logger[l] = "log" /\ logger'[l] = "read" /\ passed'[l] = passed[l]
                \/ logger[l] = "read" /\ logger'[l] = "done" /\ passed'[l] = passed[l]
  BY <1>6, <1>q, <1>t, <1>w DEF LoggerStep, LoggerReads, Log, LoggerEnds, TypeOK
<1>7. ASSUME NEW f \in Ends, CloseBelow(f) \/ ClosePipe(f)
      PROVE  \/ Same
             \/ /\ end[e] = "closing" /\ end'[e] = "closed"
                /\ UNCHANGED <<logger[l], CallOn(l), passed[l]>>
  BY <1>7, <1>1, <1>q, <1>t DEF e, CloseBelow, ClosePipe, TypeOK
<1>8. ASSUME TeeStep(l) \/ ClosePipe(e)
      PROVE  ~Same
  <2>1. CASE TeeStep(l)
    BY <2>1, <1>1, <1>q DEF TeeStep, TeeReturns, TeeFails, LogWritten, LogFails
  <2>2. CASE ClosePipe(e)
    BY <2>2, <1>1, <1>t DEF ClosePipe, TypeOK
  <2>3. QED
    BY <1>8, <2>1, <2>2
<1>9. \/ Feed \/ SourceEnds \/ UNCHANGED vars
      \/ Read \/ Write \/ ReadBelow \/ ReadFails \/ WriteBelow \/ WriteFails
      \/ TeeReturns \/ TeeFails \/ LogWritten \/ LogFails
      \/ LoggerStep(l) \/ (\E k \in Pipes : k # l /\ LoggerStep(k))
      \/ \E f \in Ends : CloseBelow(f) \/ ClosePipe(f)
  BY DEF Next, ReadStep, WriteStep
<1>10. end[e] # "open"
  BY DEF e
<1> HIDE DEF Same
<1>11. /\ \/ Same
          \/ /\ end[e] = "closing" /\ end'[e] = "closed"
             /\ UNCHANGED <<logger[l], CallOn(l), passed[l]>>
          \/ /\ logger[l] = "read" /\ logger'[l] = "log" /\ CallOn(l) = "tee"
             /\ passed'[l] = passed[l] + 1 /\ UNCHANGED <<end[e], CallOn(l)>>
          \/ /\ logger[l] = "log" /\ logger'[l] = "read"
             /\ UNCHANGED <<end[e], CallOn(l), passed[l]>>
          \/ /\ logger[l] = "read" /\ logger'[l] = "done"
             /\ UNCHANGED <<end[e], CallOn(l), passed[l]>>
          \/ /\ CallOn(l) = "tee" /\ CallOn(l)' # "tee"
             /\ UNCHANGED <<end[e], logger[l], passed[l]>>
          \/ /\ CallOn(l) # "tee" /\ CallOn(l)' # "tee"
             /\ UNCHANGED <<end[e], logger[l], passed[l]>>
  BY <1>2, <1>3, <1>4, <1>5, <1>6, <1>7, <1>9
<1>12. end'[e] # "open"
  <2>1. Same => end'[e] = end[e]
    BY DEF Same
  <2>2. QED
    BY <1>10, <1>11, <2>1
<1>13. QED
  BY <1>1, <1>6, <1>8, <1>11, <1>12 DEF Same, e

\* What is left is a sum of three counts.
LEMMA SmallerSum ==
  \A a, b, c, x, y, z \in Nat :
    /\ a <= x /\ b <= y /\ c <= z => a + b + c <= x + y + z
    /\ (a <= x /\ b <= y /\ c <= z) /\ (a < x \/ b < y \/ c < z) => a + b + c < x + y + z
    /\ a = x /\ b <= y + 1 /\ c + 2 <= z => a + b + c < x + y + z
OBVIOUS

LEMMA OnePieceLess ==
  \A n, p \in Nat : p + 1 <= n =>
    /\ 1 + 2 * (n - p) \in Nat /\ 1 + 2 * (n - (p + 1)) \in Nat
    /\ (1 + 2 * (n - (p + 1))) + 2 <= 1 + 2 * (n - p)
OBVIOUS

LEMMA LeftType ==
  ASSUME TypeOK, NEW l \in Pipes
  PROVE  CloseLeft(l) \in 0..1 /\ LoggerLeft(l) \in 0..2 /\ CallLeft(l) \in Nat
         /\ (CallOn(l) = "tee" => CallLeft(l) > 0)
<1>1. passed[l] \in 0..Pieces /\ Pieces \in Nat
  BY LogAssumption DEF TypeOK, LogAssumption
<1>2. 1 + 2 * (Pieces - passed[l]) \in Nat /\ 1 + 2 * (Pieces - passed[l]) > 0
  BY <1>1
<1>3. QED
  BY <1>2 DEF CloseLeft, LoggerLeft, CallLeft

LEMMA LeftTypeNext ==
  ASSUME TypeOK', NEW l \in Pipes
  PROVE  CloseLeft(l)' \in 0..1 /\ LoggerLeft(l)' \in 0..2 /\ CallLeft(l)' \in Nat
<1>1. passed'[l] \in 0..Pieces /\ Pieces \in Nat
  BY LogAssumption DEF TypeOK, LogAssumption
<1>2. 1 + 2 * (Pieces - passed'[l]) \in Nat
  BY <1>1
<1>3. QED
  BY <1>2 DEF CloseLeft, LoggerLeft, CallLeft

\* With the end closed every step there brings it nearer to being left: no Read or
\* Write comes in that could block on the logger again (stream.go:71-74,
\* io.go:127-187).
THEOREM ClosedEndRunsOut == Spec => [][LeftShrinks]_vars
<1>1. ASSUME TypeOK, TypeOK', [Next]_vars
      PROVE  LeftShrinks
  <2> SUFFICES ASSUME NEW l \in Pipes, end[EndOf(l)] # "open"
               PROVE  /\ end'[EndOf(l)] # "open"
                      /\ Left(l)' <= Left(l)
                      /\ LoggerStep(l) \/ TeeStep(l) \/ ClosePipe(EndOf(l)) => Left(l)' < Left(l)
    BY DEF LeftShrinks
  <2> DEFINE e == EndOf(l)
             Same == UNCHANGED <<end[e], logger[l], CallOn(l), passed[l]>>
             Acts == LoggerStep(l) \/ TeeStep(l) \/ ClosePipe(e)
  <2>t. /\ CloseLeft(l) \in Nat /\ LoggerLeft(l) \in Nat /\ CallLeft(l) \in Nat
        /\ CloseLeft(l)' \in Nat /\ LoggerLeft(l)' \in Nat /\ CallLeft(l)' \in Nat
        /\ (CallOn(l) = "tee" => CallLeft(l) > 0)
    <3>1. \A n : n \in 0..1 \/ n \in 0..2 => n \in Nat
      OBVIOUS
    <3>2. QED
      BY <1>1, <3>1, LeftType, LeftTypeNext
  <2>s. /\ Left(l) = CloseLeft(l) + LoggerLeft(l) + CallLeft(l)
        /\ Left(l)' = CloseLeft(l)' + LoggerLeft(l)' + CallLeft(l)'
    BY DEF Left
  <2>f. /\ end'[e] # "open"
        /\ \/ Same
           \/ /\ end[e] = "closing" /\ end'[e] = "closed"
              /\ UNCHANGED <<logger[l], CallOn(l), passed[l]>>
           \/ /\ logger[l] = "read" /\ logger'[l] = "log" /\ CallOn(l) = "tee"
              /\ passed'[l] = passed[l] + 1 /\ UNCHANGED <<end[e], CallOn(l)>>
           \/ /\ logger[l] = "log" /\ logger'[l] = "read"
              /\ UNCHANGED <<end[e], CallOn(l), passed[l]>>
           \/ /\ logger[l] = "read" /\ logger'[l] = "done"
              /\ UNCHANGED <<end[e], CallOn(l), passed[l]>>
           \/ /\ CallOn(l) = "tee" /\ CallOn(l)' # "tee"
              /\ UNCHANGED <<end[e], logger[l], passed[l]>>
           \/ /\ CallOn(l) # "tee" /\ CallOn(l)' # "tee"
              /\ UNCHANGED <<end[e], logger[l], passed[l]>>
        /\ Acts => ~Same
    BY <1>1, StepAtClosedEnd
  <2>p. passed[l] \in Nat /\ passed'[l] \in Nat /\ passed'[l] <= Pieces /\ Pieces \in Nat
    BY <1>1, LogAssumption DEF TypeOK, LogAssumption
  <2>i. \A n \in Nat : n <= n
    OBVIOUS
  <2>1. CASE Same
    <3>1. CloseLeft(l)' = CloseLeft(l) /\ LoggerLeft(l)' = LoggerLeft(l) /\ CallLeft(l)' = CallLeft(l)
      BY <2>1 DEF CloseLeft, LoggerLeft, CallLeft
    <3>2. Left(l)' = Left(l) /\ Left(l) \in Nat
      BY <2>s, <2>t, <3>1
    <3>3. QED
      BY <2>1, <2>f, <2>i, <3>2
  <2>2. ASSUME Left(l)' < Left(l)
        PROVE  Left(l)' <= Left(l)
    <3> DEFINE m == CloseLeft(l)' + LoggerLeft(l)' + CallLeft(l)'
               n == CloseLeft(l) + LoggerLeft(l) + CallLeft(l)
    <3>1. m \in Nat /\ n \in Nat
      BY <2>t
    <3>2. \A i, j \in Nat : i < j => i <= j
      OBVIOUS
    <3> HIDE DEF m, n
    <3>3. m < n
      BY <2>2, <2>s DEF m, n
    <3>4. m <= n
      BY <3>1, <3>2, <3>3
    <3>5. QED
      BY <2>s, <3>4 DEF m, n
  <2>3. CASE ~Same
    <3>1. CASE /\ end[e] = "closing" /\ end'[e] = "closed"
               /\ UNCHANGED <<logger[l], CallOn(l), passed[l]>>
      <4>1. CloseLeft(l)' = 0 /\ CloseLeft(l) = 1
            /\ LoggerLeft(l)' = LoggerLeft(l) /\ CallLeft(l)' = CallLeft(l)
        BY <3>1 DEF CloseLeft, LoggerLeft, CallLeft
      <4>2. CloseLeft(l)' < CloseLeft(l) /\ CloseLeft(l)' <= CloseLeft(l)
        BY <4>1
      <4>3. Left(l)' < Left(l)
        BY <2>t, <2>s, <2>i, <4>1, <4>2, SmallerSum
      <4>4. QED
        BY <2>2, <2>f, <4>3
    <3>2. CASE /\ logger[l] = "read" /\ logger'[l] = "log" /\ CallOn(l) = "tee"
               /\ passed'[l] = passed[l] + 1 /\ UNCHANGED <<end[e], CallOn(l)>>
      <4>1. CloseLeft(l)' = CloseLeft(l) /\ LoggerLeft(l)' = 2 /\ LoggerLeft(l) = 1
        BY <3>2 DEF CloseLeft, LoggerLeft
      <4>2. LoggerLeft(l)' <= LoggerLeft(l) + 1
        BY <4>1
      <4>3. /\ CallLeft(l) = 1 + 2 * (Pieces - passed[l])
            /\ CallLeft(l)' = 1 + 2 * (Pieces - (passed[l] + 1))
        BY <3>2 DEF CallLeft
      <4>4. passed[l] + 1 <= Pieces
        BY <2>p, <3>2
      <4>5. CallLeft(l)' + 2 <= CallLeft(l)
        BY <2>p, <4>3, <4>4, OnePieceLess
      <4>6. Left(l)' < Left(l)
        BY <2>t, <2>s, <4>1, <4>2, <4>5, SmallerSum
      <4>7. QED
        BY <2>2, <2>f, <4>6
    <3>3. CASE /\ \/ logger[l] = "log" /\ logger'[l] = "read"
                  \/ logger[l] = "read" /\ logger'[l] = "done"
               /\ UNCHANGED <<end[e], CallOn(l), passed[l]>>
      <4>1. CloseLeft(l)' = CloseLeft(l) /\ CallLeft(l)' = CallLeft(l)
        BY <3>3 DEF CloseLeft, CallLeft
      <4>2. LoggerLeft(l)' < LoggerLeft(l) /\ LoggerLeft(l)' <= LoggerLeft(l)
        BY <3>3 DEF LoggerLeft
      <4>3. Left(l)' < Left(l)
        BY <2>t, <2>s, <2>i, <4>1, <4>2, SmallerSum
      <4>4. QED
        BY <2>2, <2>f, <4>3
    <3>4. CASE /\ CallOn(l) = "tee" /\ CallOn(l)' # "tee"
               /\ UNCHANGED <<end[e], logger[l], passed[l]>>
      <4>1. CloseLeft(l)' = CloseLeft(l) /\ LoggerLeft(l)' = LoggerLeft(l) /\ CallLeft(l)' = 0
        BY <3>4 DEF CloseLeft, LoggerLeft, CallLeft
      <4>2. CallLeft(l)' < CallLeft(l) /\ CallLeft(l)' <= CallLeft(l)
        BY <2>t, <3>4, <4>1
      <4>3. Left(l)' < Left(l)
        BY <2>t, <2>s, <2>i, <4>1, <4>2, SmallerSum
      <4>4. QED
        BY <2>2, <2>f, <4>3
    <3>5. CASE /\ CallOn(l) # "tee" /\ CallOn(l)' # "tee"
               /\ UNCHANGED <<end[e], logger[l], passed[l]>>
      <4>1. CloseLeft(l)' = CloseLeft(l) /\ LoggerLeft(l)' = LoggerLeft(l) /\ CallLeft(l)' = CallLeft(l)
        BY <3>5 DEF CloseLeft, LoggerLeft, CallLeft
      <4>2. Left(l)' = Left(l) /\ Left(l) \in Nat
        BY <2>s, <2>t, <4>1
      <4>3. ~Acts
        <5>1. ~(LoggerStep(l) /\ UNCHANGED <<logger[l]>>)
          BY <1>1 DEF LoggerStep, LoggerReads, Log, LoggerEnds, TypeOK
        <5>2. ~(TeeStep(l) /\ CallOn(l) # "tee")
          BY DEF TeeStep, CallOn, TeeReturns, TeeFails, LogWritten, LogFails
        <5>3. e \in Ends
          BY DEF EndOf, Ends
        <5>4. ~(ClosePipe(e) /\ UNCHANGED <<end[e]>>)
          <6> HIDE DEF e
          <6>1. QED
            BY <1>1, <5>3 DEF ClosePipe, TypeOK
        <5>5. QED
          BY <3>5, <5>1, <5>2, <5>4
      <4>4. QED
        BY <2>f, <2>i, <4>2, <4>3
    <3>6. QED
      BY <2>f, <2>3, <3>1, <3>2, <3>3, <3>4, <3>5
  <2>4. QED
    BY <2>1, <2>3
<1>2. QED
  BY <1>1, LogTypeCorrect, PTL DEF Spec
=============================================================================
