------------------------------- MODULE Fanout -------------------------------
(***************************************************************************)
(* STDIN multiplexed over the open streams: the Fanout of internal/io.go   *)
(* together with the goroutine of internal/stdio.go that copies os.Stdin   *)
(* into it and the handlers that call NewStream.                           *)
(*                                                                         *)
(* One goroutine, the copier, reads chunks from STDIN and writes each one  *)
(* to every registered pipe writer, in registration order, holding the     *)
(* mutex.  With no writer registered it unlocks and waits on wakeCh.  Every*)
(* NewStream registers a pipe (Tee) and wakes the copier if, at that very  *)
(* moment, it is waiting.  The pipes are io.Pipe: a write returns when a   *)
(* reader has taken the bytes, or fails when either end is closed.         *)
(*                                                                         *)
(* A chunk is what one Write is called with, named by its number.          *)
(***************************************************************************)
EXTENDS Naturals, Sequences, Functions

CONSTANTS
  Streams,     \* the calls of NewStream, one per connection or request
  Abandoners,  \* those whose handler may stop reading without closing the Reader
  MaxChunks    \* bound: the chunks STDIN delivers before it ends or stays silent

ASSUME FanoutAssumption ==
  /\ Abandoners \subseteq Streams
  /\ MaxChunks \in Nat

VARIABLES
  writers,  \* Fanout.writers: the streams whose pipe writer is registered
  closed,   \* Fanout.closed
  copier,   \* where the STDIN goroutine is
  chunk,    \* number of the last chunk read from STDIN
  todo,     \* the writers the range loop of Write has still to visit
  kept,     \* openWriters of that Write
  stream,   \* where the handler of each stream is
  pipe,     \* which ends of the stream's pipe have been closed
  first,    \* history: the first chunk a stream is entitled to
  got       \* history: the chunks the handler of a stream has read

vars == <<writers, closed, copier, chunk, todo, kept, stream, pipe, first, got>>
fanoutVars == <<writers, closed, copier, chunk, todo, kept>>

\* The copier has a chunk in hand and has not begun to write it.
Holding == {"lock", "parking", "parked", "relock"}

CopierStates == {"stdin", "write", "close", "done"} \cup Holding
StreamStates == {"new", "tee", "select", "reading", "eof", "closed", "abandoned"}

\* The mutex is held across steps by the loop of Write alone: each of the
\* other critical sections is a single step here.
Locked == copier = "write"

\* Chunks whose distribution has begun.
Sent == IF copier \in Holding THEN chunk - 1 ELSE chunk

Init ==
  /\ writers = <<>> /\ closed = FALSE
  /\ copier = "stdin" /\ chunk = 0
  /\ todo = <<>> /\ kept = <<>>
  /\ stream = [s \in Streams |-> "new"]
  /\ pipe = [s \in Streams |-> {}]
  /\ first = [s \in Streams |-> 0]
  /\ got = [s \in Streams |-> <<>>]

-----------------------------------------------------------------------------
(***************************************************************************)
(* The copier: io.Copy(m.stdinFanout, os.Stdin), then the deferred Close.  *)
(***************************************************************************)

\* os.Stdin.Read returns a chunk and io.Copy calls Write with it.
StdinChunk ==
  /\ copier = "stdin" /\ chunk < MaxChunks
  /\ chunk' = chunk + 1
  /\ copier' = "lock"
  /\ UNCHANGED <<writers, closed, todo, kept, stream, pipe, first, got>>

\* os.Stdin.Read returns EOF or an error, io.Copy returns, Close is due.
StdinEnd ==
  /\ copier = "stdin"
  /\ copier' = "close"
  /\ UNCHANGED <<writers, closed, chunk, todo, kept, stream, pipe, first, got>>

\* Mutant: openWriters is made with the length of f.writers, so it begins with
\* nil writers.
StartLoopWithHoles ==
  /\ copier' = "write"
  /\ todo' = writers /\ kept' = [i \in 1..Len(writers) |-> "nil"]
  /\ UNCHANGED <<writers, closed, chunk, stream, pipe, first, got>>

\* Mutant: the loop ranges over f.writers[1:].
StartLoopAtSecond ==
  /\ copier' = "write"
  /\ todo' = Tail(writers) /\ kept' = <<>>
  /\ UNCHANGED <<writers, closed, chunk, stream, pipe, first, got>>

StartLoop ==
  /\ copier' = "write"
  /\ todo' = writers /\ kept' = <<>>
  /\ UNCHANGED <<writers, closed, chunk, stream, pipe, first, got>>

\* Write: lock; with writers registered, enter the loop.  The "fanout is
\* closed" return is not reached: closed is set by this goroutine's last step.
WriteLock ==
  /\ copier = "lock" /\ ~closed
  /\ writers # <<>>
  /\ StartLoop

\* Write: lock; with no writer registered, unlock to wait on wakeCh.
WriteUnlock ==
  /\ copier = "lock" /\ ~closed
  /\ writers = <<>>
  /\ copier' = "parking"
  /\ UNCHANGED <<writers, closed, chunk, todo, kept, stream, pipe, first, got>>

\* Write: block in the receive on wakeCh.  Only from here on does the
\* non-blocking send of Tee find a receiver.
WritePark ==
  /\ copier = "parking"
  /\ copier' = "parked"
  /\ UNCHANGED <<writers, closed, chunk, todo, kept, stream, pipe, first, got>>

\* Write: woken up, take the lock again and enter the loop.
WriteRelock ==
  /\ copier = "relock"
  /\ StartLoop

\* Mutant: the write that has succeeded is tried again.
WriteDeliverTwice(s) ==
  /\ Locked /\ todo # <<>> /\ s = Head(todo)
  /\ pipe[s] = {} /\ stream[s] = "reading" /\ Len(got[s]) < 2 * MaxChunks
  /\ got' = [got EXCEPT ![s] = Append(@, chunk)]
  /\ UNCHANGED <<writers, closed, copier, chunk, todo, kept, stream, pipe, first>>

\* Write: w.Write(p) returns nil, for the handler of s has read the chunk.
WriteDeliver(s) ==
  /\ Locked /\ todo # <<>> /\ s = Head(todo)
  /\ pipe[s] = {} /\ stream[s] = "reading"
  /\ got' = [got EXCEPT ![s] = Append(@, chunk)]
  /\ todo' = Tail(todo) /\ kept' = Append(kept, s)
  /\ UNCHANGED <<writers, closed, copier, chunk, stream, pipe, first>>

\* Mutant: a writer whose reader is not ready is dropped like a closed one.
WriteSkipBusy(s) ==
  /\ Locked /\ todo # <<>> /\ s = Head(todo)
  /\ todo' = Tail(todo)
  /\ UNCHANGED <<writers, closed, copier, chunk, kept, stream, pipe, first, got>>

\* Mutant: a write that has failed is tried again, after the others.
WriteRetries(s) ==
  /\ Locked /\ todo # <<>> /\ s = Head(todo)
  /\ pipe[s] # {}
  /\ todo' = Append(Tail(todo), s)
  /\ UNCHANGED <<writers, closed, copier, chunk, kept, stream, pipe, first, got>>

\* Write: w.Write(p) fails, for the pipe is closed; the writer is not kept.
WriteSkip(s) ==
  /\ Locked /\ todo # <<>> /\ s = Head(todo)
  /\ pipe[s] # {}
  /\ todo' = Tail(todo)
  /\ UNCHANGED <<writers, closed, copier, chunk, kept, stream, pipe, first, got>>

\* Write: f.writers = openWriters, unlock, return len(p), nil.
WriteReturn ==
  /\ Locked /\ todo = <<>>
  /\ writers' = kept /\ kept' = <<>>
  /\ copier' = "stdin"
  /\ UNCHANGED <<closed, chunk, todo, stream, pipe, first, got>>

\* Mutant: Close sets the flag and closes no writer.
CloseFlagOnly ==
  /\ copier = "close"
  /\ closed' = TRUE
  /\ copier' = "done"
  /\ UNCHANGED <<writers, chunk, todo, kept, stream, pipe, first, got>>

\* Close: under the lock, close every registered writer.
Close ==
  /\ copier = "close"
  /\ pipe' = [s \in Streams |->
                IF s \in Range(writers) THEN pipe[s] \cup {"writer"} ELSE pipe[s]]
  /\ closed' = TRUE
  /\ copier' = "done"
  /\ UNCHANGED <<writers, chunk, todo, kept, stream, first, got>>

-----------------------------------------------------------------------------
(***************************************************************************)
(* The handlers.                                                           *)
(***************************************************************************)

\* Mutant: Tee wakes the copier before it has registered the writer.
NewStreamWakes(s) ==
  /\ stream[s] = "new"
  /\ stream' = [stream EXCEPT ![s] = "tee"]
  /\ copier' = IF copier = "parked" THEN "relock" ELSE copier
  /\ UNCHANGED <<writers, closed, chunk, todo, kept, pipe, first, got>>

\* A connection or request arrives and its handler calls NewStream.
NewStream(s) ==
  /\ stream[s] = "new"
  /\ stream' = [stream EXCEPT ![s] = "tee"]
  /\ UNCHANGED <<fanoutVars, pipe, first, got>>

\* Mutant: Tee appends without the lock.
TeeRegisterUnlocked(s) ==
  /\ stream[s] = "tee"
  /\ writers' = Append(writers, s)
  /\ first' = [first EXCEPT ![s] = Sent + 1]
  /\ stream' = [stream EXCEPT ![s] = "select"]
  /\ UNCHANGED <<closed, copier, chunk, todo, kept, pipe, got>>

\* Tee: lock, append the pipe writer, unlock.
TeeRegister(s) ==
  /\ stream[s] = "tee" /\ ~Locked
  /\ writers' = Append(writers, s)
  /\ first' = [first EXCEPT ![s] = Sent + 1]
  /\ stream' = [stream EXCEPT ![s] = "select"]
  /\ UNCHANGED <<closed, copier, chunk, todo, kept, pipe, got>>

\* Mutant: the select has no default.
TeeSelectBlocking(s) ==
  /\ stream[s] = "select" /\ copier = "parked"
  /\ stream' = [stream EXCEPT ![s] = "reading"]
  /\ copier' = "relock"
  /\ UNCHANGED <<writers, closed, chunk, todo, kept, pipe, first, got>>

\* Tee: the select that sends on wakeCh if the copier is receiving from it at
\* this moment and else does nothing; NewStream returns.
TeeSelect(s) ==
  /\ stream[s] = "select"
  /\ stream' = [stream EXCEPT ![s] = "reading"]
  /\ copier' = IF copier = "parked" THEN "relock" ELSE copier
  /\ UNCHANGED <<writers, closed, chunk, todo, kept, pipe, first, got>>

\* The handler's Read returns EOF: the writing end is closed.
ReadEOF(s) ==
  /\ stream[s] = "reading" /\ "writer" \in pipe[s]
  /\ stream' = [stream EXCEPT ![s] = "eof"]
  /\ UNCHANGED <<fanoutVars, pipe, first, got>>

\* The handler closes the stream: at EOF, or before it because its client has
\* gone or its other half has finished.
CloseReader(s) ==
  /\ stream[s] \in {"reading", "eof"}
  /\ stream' = [stream EXCEPT ![s] = "closed"]
  /\ pipe' = [pipe EXCEPT ![s] = @ \cup {"reader"}]
  /\ UNCHANGED <<fanoutVars, first, got>>

\* The copy from stream.Reader has returned on a write error and nobody calls
\* Close: the udp and ssh listeners.
Abandon(s) ==
  /\ s \in Abandoners /\ stream[s] = "reading"
  /\ stream' = [stream EXCEPT ![s] = "abandoned"]
  /\ UNCHANGED <<fanoutVars, pipe, first, got>>

-----------------------------------------------------------------------------
Next ==
  \/ StdinChunk \/ StdinEnd
  \/ WriteLock \/ WriteUnlock \/ WritePark \/ WriteRelock \/ WriteReturn \/ Close
  \/ \E s \in Streams :
       \/ WriteDeliver(s) \/ WriteSkip(s)
       \/ NewStream(s) \/ TeeRegister(s) \/ TeeSelect(s)
       \/ ReadEOF(s) \/ CloseReader(s) \/ Abandon(s)

(***************************************************************************)
(* Goroutines that can run do run; sync.Mutex hands itself to a goroutine  *)
(* that has waited for long, so a wait for the lock is strongly fair.      *)
(* Nothing is assumed of STDIN, of the arrival of streams or of clients    *)
(* going away; a handler that has not abandoned its stream reads again.    *)
(***************************************************************************)
Fairness ==
  /\ WF_vars(WriteLock \/ WriteUnlock) /\ WF_vars(WriteRelock) /\ WF_vars(Close)
  /\ WF_vars(WritePark) /\ WF_vars(WriteReturn)
  /\ \A s \in Streams :
       /\ WF_vars(WriteDeliver(s)) /\ WF_vars(WriteSkip(s))
       /\ SF_vars(TeeRegister(s)) /\ WF_vars(TeeSelect(s))
       /\ WF_vars(ReadEOF(s))

Spec == Init /\ [][Next]_vars /\ Fairness

-----------------------------------------------------------------------------
TypeOK ==
  /\ writers \in Seq(Streams) /\ todo \in Seq(Streams) /\ kept \in Seq(Streams)
  /\ closed \in BOOLEAN
  /\ copier \in CopierStates
  /\ chunk \in 0..MaxChunks
  /\ stream \in [Streams -> StreamStates]
  /\ pipe \in [Streams -> SUBSET {"reader", "writer"}]
  /\ first \in [Streams -> Nat]
  /\ got \in [Streams -> Seq(Nat)]

\* The streams that have been registered and whose pipe nobody has closed.
Live == {s \in Streams : stream[s] \notin {"new", "tee"} /\ pipe[s] = {}}

\* What a stream reads is a run of consecutive chunks that starts with the one
\* being distributed next when Tee registered it: none is skipped, repeated or
\* reordered (io.go Write and Tee).
InOrder ==
  \A s \in Streams : \A i \in 1..Len(got[s]) : got[s][i] = first[s] + i - 1

\* Between two Writes every live stream is registered and has read every chunk
\* since it was registered: the rebuild of f.writers at the end of Write loses
\* nobody, whatever Tee and the readers do during the loop.
NobodyMissesAChunk ==
  copier # "write" =>
    \A s \in Live : s \in Range(writers) /\ first[s] + Len(got[s]) = Sent + 1

\* The fanout is a broadcast to the live streams: the chunk being distributed
\* is sent when the loop of Write starts, and a stream joins in Tee.
Member ==
  [s \in Streams |-> IF stream[s] \in {"new", "tee"} THEN "no"
                     ELSE IF pipe[s] = {} THEN "yes" ELSE "gone"]

B == INSTANCE Broadcast WITH sent <- Sent, member <- Member

\* The steps of Write, Tee, Close and the readers (io.go:58-107) are steps of the
\* broadcast: a Write distributes its chunk to all live streams before the next
\* one begins.
ImplementsBroadcast == B!Spec

\* And each live stream does get the chunk that Write distributes, when no
\* handler abandons its stream (io.go:80-86).
ImplementsFairBroadcast == B!FairSpec

\* A Write that was woken up finds a writer, as the code assumes when it ranges
\* over f.writers without looking at its length again (io.go:76-80).
WokenFindsWriter == copier = "relock" => writers # <<>>

\* NewStream returns: neither a Write in progress nor the wake-up blocks it for
\* ever, as long as every reader reads on or is closed.
NewStreamReturns ==
  \A s \in Streams : stream[s] = "tee" ~> stream[s] = "reading"

\* A Write that has entered its loop returns, although any of its readers may
\* be closed at any moment.
WriteTerminates == copier = "write" ~> copier = "stdin"

\* When STDIN ends, each stream registered by then reads EOF or is closed.
EndOfInputIsSeen ==
  \A s \in Streams :
    (copier = "close" /\ s \in Range(writers)) ~> stream[s] \in {"eof", "closed"}

-----------------------------------------------------------------------------
(***************************************************************************)
(* What a comment of the code says and its steps do not keep.               *)
(***************************************************************************)

\* io.go:98 "Wake any outstanding write now that there is a writer to handle
\* it": a Write waiting for a writer goes on once one is registered.
WriteIsWoken ==
  (copier \in {"parking", "parked"} /\ Live # {})
    ~> (copier \notin {"parking", "parked"} \/ Live = {})
=============================================================================
