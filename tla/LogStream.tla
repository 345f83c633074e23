------------------------------ MODULE LogStream ------------------------------
(***************************************************************************)
(* A stream of --log-io: streamWithLogging of internal/stream.go with the  *)
(* TeeReadCloser and MultiWriteCloser of internal/io.go.                   *)
(*                                                                         *)
(*    source --> Read --> TeeReader --> caller                             *)
(*                            \--send pipe--> logger                       *)
(*    caller --> MultiWriter --> Write of the stream below                 *)
(*                            \--recv pipe--> logger                       *)
(*                                                                         *)
(* The pipes have no buffer: a Read or Write of the logged stream lasts    *)
(* until the logger, which has a buffer of one piece (1024 bytes), has     *)
(* read the chunk piece by piece.  Close closes the end below and then the *)
(* pipe, which is what stops the logger.                                   *)
(***************************************************************************)
EXTENDS Naturals

CONSTANTS
  MaxChunks,  \* bound: the chunks that go each way
  Pieces      \* the pieces of a chunk

ASSUME LogAssumption == MaxChunks \in Nat /\ Pieces \in Nat \ {0}

VARIABLES
  fed,     \* chunks the source below has come up with
  ended,   \* the source has ended
  taken,   \* chunks read from it
  reader,  \* the caller's Read: "idle", "below", "tee" or "over"
  writer,  \* the caller's Write: "idle", "below", "tee" or "over"
  passed,  \* pieces of the chunk in hand that the logger has read
  got,     \* pieces that Read has returned
  put,     \* pieces the stream below has been given
  logger,  \* "read", "log" (it prints what it has read) or "done"
  logs,    \* pieces it has printed
  end      \* "open", "closing" (the end below is closed) or "closed"

vars == <<fed, ended, taken, reader, writer, passed, got, put, logger, logs, end>>

Pipes == {"send", "recv"}
Ends == {"Reader", "Writer"}
EndOf(l) == IF l = "send" THEN "Reader" ELSE "Writer"
CallOn(l) == IF l = "send" THEN reader ELSE writer

Init ==
  /\ fed = 0 /\ ended = FALSE /\ taken = 0
  /\ reader = "idle" /\ writer = "idle"
  /\ passed = [l \in Pipes |-> 0] /\ got = 0 /\ put = 0
  /\ logger = [l \in Pipes |-> "read"] /\ logs = [l \in Pipes |-> 0]
  /\ end = [e \in Ends |-> "open"]

-----------------------------------------------------------------------------
(* The source. *)

Feed ==
  /\ ~ended /\ fed < MaxChunks
  /\ fed' = fed + 1
  /\ UNCHANGED <<ended, taken, reader, writer, passed, got, put, logger, logs, end>>

SourceEnds ==
  /\ ~ended /\ ended' = TRUE
  /\ UNCHANGED <<fed, taken, reader, writer, passed, got, put, logger, logs, end>>

-----------------------------------------------------------------------------
(* Read of the TeeReader. *)

Read ==
  /\ reader = "idle" /\ reader' = "below"
  /\ UNCHANGED <<fed, ended, taken, writer, passed, got, put, logger, logs, end>>

\* Mutant: the chunk is taken as seen when the one before it was.
ReadBelowUnseen ==
  /\ reader = "below" /\ taken < fed /\ end["Reader"] = "open"
  /\ taken' = taken + 1 /\ reader' = "tee"
  /\ UNCHANGED <<fed, ended, writer, passed, got, put, logger, logs, end>>

ReadBelow ==
  /\ reader = "below" /\ taken < fed /\ end["Reader"] = "open"
  /\ taken' = taken + 1 /\ reader' = "tee"
  /\ passed' = [passed EXCEPT !["send"] = 0]
  /\ UNCHANGED <<fed, ended, writer, got, put, logger, logs, end>>

\* EOF or an error; nothing is written to the pipe.
ReadFails ==
  /\ reader = "below" /\ (end["Reader"] # "open" \/ (ended /\ taken = fed))
  /\ reader' = "over"
  /\ UNCHANGED <<fed, ended, taken, writer, passed, got, put, logger, logs, end>>

\* Mutant: the chunk is returned when the logger has read the first piece of it.
TeeReturnsEarly ==
  /\ reader = "tee" /\ passed["send"] > 0
  /\ got' = got + passed["send"] /\ reader' = "idle"
  /\ UNCHANGED <<fed, ended, taken, writer, passed, put, logger, logs, end>>

TeeReturns ==
  /\ reader = "tee" /\ passed["send"] = Pieces
  /\ got' = got + Pieces /\ reader' = "idle"
  /\ UNCHANGED <<fed, ended, taken, writer, passed, put, logger, logs, end>>

\* The pipe is closed under the write: TeeReader returns the error and the number
\* of bytes that were written.
TeeFails ==
  /\ reader = "tee" /\ passed["send"] < Pieces /\ end["Reader"] = "closed"
  /\ got' = got + passed["send"] /\ reader' = "over"
  /\ UNCHANGED <<fed, ended, taken, writer, passed, put, logger, logs, end>>

-----------------------------------------------------------------------------
(* Write of the MultiWriter. *)

Write ==
  /\ writer = "idle" /\ put < MaxChunks * Pieces /\ writer' = "below"
  /\ UNCHANGED <<fed, ended, taken, reader, passed, got, put, logger, logs, end>>

WriteBelow ==
  /\ writer = "below" /\ end["Writer"] = "open"
  /\ put' = put + Pieces /\ writer' = "tee"
  /\ passed' = [passed EXCEPT !["recv"] = 0]
  /\ UNCHANGED <<fed, ended, taken, reader, got, logger, logs, end>>

\* The end is closed, or the other side of it has gone.
WriteFails ==
  /\ writer = "below" /\ writer' = "over"
  /\ UNCHANGED <<fed, ended, taken, reader, passed, got, put, logger, logs, end>>

LogWritten ==
  /\ writer = "tee" /\ passed["recv"] = Pieces /\ writer' = "idle"
  /\ UNCHANGED <<fed, ended, taken, reader, passed, got, put, logger, logs, end>>

\* The chunk has been passed on and Write returns an error all the same.
LogFails ==
  /\ writer = "tee" /\ passed["recv"] < Pieces /\ end["Writer"] = "closed"
  /\ writer' = "over"
  /\ UNCHANGED <<fed, ended, taken, reader, passed, got, put, logger, logs, end>>

-----------------------------------------------------------------------------
(* The loggers. *)

LoggerReads(l) ==
  /\ logger[l] = "read" /\ CallOn(l) = "tee" /\ passed[l] < Pieces
  /\ end[EndOf(l)] # "closed"
  /\ passed' = [passed EXCEPT ![l] = @ + 1]
  /\ logger' = [logger EXCEPT ![l] = "log"]
  /\ UNCHANGED <<fed, ended, taken, reader, writer, got, put, logs, end>>

Log(l) ==
  /\ logger[l] = "log"
  /\ logs' = [logs EXCEPT ![l] = @ + 1]
  /\ logger' = [logger EXCEPT ![l] = "read"]
  /\ UNCHANGED <<fed, ended, taken, reader, writer, passed, got, put, end>>

LoggerEnds(l) ==
  /\ logger[l] = "read" /\ end[EndOf(l)] = "closed"
  /\ logger' = [logger EXCEPT ![l] = "done"]
  /\ UNCHANGED <<fed, ended, taken, reader, writer, passed, got, put, logs, end>>

-----------------------------------------------------------------------------
(* Close, which any goroutine may call at any time; a second call on an end    *)
(* waits for the first and does nothing.                                       *)

CloseBelow(e) ==
  /\ end[e] = "open"
  /\ end' = [end EXCEPT ![e] = "closing"]
  /\ UNCHANGED <<fed, ended, taken, reader, writer, passed, got, put, logger, logs>>

\* Mutant: the pipe is not among the writers that are closed.
ClosePipeOfReader(e) ==
  /\ e = "Reader" /\ end[e] = "closing"
  /\ end' = [end EXCEPT ![e] = "closed"]
  /\ UNCHANGED <<fed, ended, taken, reader, writer, passed, got, put, logger, logs>>

ClosePipe(e) ==
  /\ end[e] = "closing"
  /\ end' = [end EXCEPT ![e] = "closed"]
  /\ UNCHANGED <<fed, ended, taken, reader, writer, passed, got, put, logger, logs>>

-----------------------------------------------------------------------------
ReadStep == ReadBelow \/ ReadFails \/ TeeReturns \/ TeeFails
WriteStep == WriteBelow \/ WriteFails \/ LogWritten \/ LogFails
LoggerStep(l) == LoggerReads(l) \/ Log(l) \/ LoggerEnds(l)

Next ==
  \/ Feed \/ SourceEnds \/ Read \/ ReadStep \/ Write \/ WriteStep
  \/ \E l \in Pipes : LoggerStep(l)
  \/ \E e \in Ends : CloseBelow(e) \/ ClosePipe(e)

\* The goroutines run.  Nothing is assumed of the source, of when the caller
\* reads, writes or closes, nor that a Write to the stream below returns.
Fairness ==
  /\ WF_vars(ReadStep) /\ WF_vars(LogWritten \/ LogFails)
  /\ \A l \in Pipes : WF_vars(LoggerStep(l))
  /\ \A e \in Ends : WF_vars(ClosePipe(e))

Spec == Init /\ [][Next]_vars /\ Fairness

-----------------------------------------------------------------------------
TypeOK ==
  /\ fed \in 0..MaxChunks /\ ended \in BOOLEAN /\ taken \in 0..fed
  /\ reader \in {"idle", "below", "tee", "over"} /\ writer \in {"idle", "below", "tee", "over"}
  /\ passed \in [Pipes -> 0..Pieces] /\ got \in Nat /\ put \in Nat
  /\ logger \in [Pipes -> {"read", "log", "done"}] /\ logs \in [Pipes -> Nat]
  /\ end \in [Ends -> {"open", "closing", "closed"}]

\* What the loggers have read of all chunks.
Seen(l) == logs[l] + (IF logger[l] = "log" THEN 1 ELSE 0)

\* Nothing goes to the network unseen by the send logger, which is ahead by less
\* than the chunk in hand; the recv logger sees nothing that was not passed on
\* (stream.go:71-74, io.go:165-187).
LogsWhatPasses ==
  /\ got <= Seen("send") /\ Seen("send") <= got + Pieces
  /\ Seen("recv") <= put /\ put <= Seen("recv") + Pieces

\* A logged stream behaves as the stream below does: its callers see the same
\* pieces in the same order, and a call that would return there returns here.
Plain == INSTANCE PlainStream WITH
  reader <- IF reader \in {"below", "tee"} THEN "reading" ELSE reader,
  writer <- CASE writer = "below" -> "writing" [] writer = "tee" -> "written"
              [] OTHER -> writer,
  open <- {e \in Ends : end[e] = "open"}

ImplementsPlain == Plain!FairSpec

\* A closed end leaves no goroutine behind: its logger ends, and a call that is
\* blocked on the logger's pipe returns.
ClosedEndIsLeft ==
  \A l \in Pipes : end[EndOf(l)] # "open" ~> logger[l] = "done" /\ CallOn(l) # "tee"
=============================================================================
