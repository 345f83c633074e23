---------------------------- MODULE FanoutProofs ----------------------------
(***************************************************************************)
(* Proofs about Fanout, for any set of streams and any number of chunks.   *)
(*                                                                         *)
(* NobodyMissesAChunk is not inductive: between two Writes it needs to know*)
(* what the loop of Write does to the streams it has visited and to those  *)
(* it has not.  IInv says that the two lists of the loop are disjoint, hold*)
(* no stream twice, and between them account for every live stream, the    *)
(* unvisited ones being exactly one chunk behind.                          *)
(***************************************************************************)
EXTENDS Fanout, TLAPS

Registered == {s \in Streams : stream[s] \notin {"new", "tee"}}

LoopInv ==
  /\ copier # "write" => todo = <<>> /\ kept = <<>>
  /\ copier \in Holding \cup {"write"} => chunk > 0
  /\ closed <=> copier = "done"

\* Each list holds registered streams, each of them once; the loop has visited
\* none of those it has still to visit.
ListInv ==
  /\ Range(writers) \cup Range(todo) \cup Range(kept) \subseteq Registered
  /\ IsInjective(writers) /\ IsInjective(todo) /\ IsInjective(kept)
  /\ Range(todo) \cap Range(kept) = {}

\* Who closes a pipe, and when.
PipeInv ==
  \A s \in Streams :
    /\ "reader" \in pipe[s] => stream[s] = "closed"
    /\ "writer" \in pipe[s] => closed
    /\ stream[s] \in {"new", "tee"} => pipe[s] = {} /\ got[s] = <<>>

\* Every live stream is accounted for.
ProgressInv ==
  \A s \in Live :
    IF copier = "write"
    THEN \/ s \in Range(todo) /\ first[s] + Len(got[s]) = chunk
         \/ s \in Range(kept) /\ first[s] + Len(got[s]) = chunk + 1
    ELSE s \in Range(writers) /\ first[s] + Len(got[s]) = Sent + 1

IInv == LoopInv /\ ListInv /\ PipeInv /\ ProgressInv /\ InOrder /\ WokenFindsWriter
-----------------------------------------------------------------------------
(* Lists as sets of streams. *)

\* Appending to a list adds one element to the set it stands for.
LEMMA RangeOfAppend ==
  ASSUME NEW S, NEW q \in Seq(S), NEW e \in S
  PROVE  Range(Append(q, e)) = Range(q) \cup {e}
<1>1. /\ DOMAIN Append(q, e) = 1..Len(q) + 1
      /\ \A i \in 1..Len(q) : Append(q, e)[i] = q[i]
      /\ Append(q, e)[Len(q) + 1] = e
  OBVIOUS
<1>2. DOMAIN q = 1..Len(q) /\ Len(q) \in Nat
  OBVIOUS
<1>3. Range(Append(q, e)) \subseteq Range(q) \cup {e}
  <2>1. \A i \in 1..Len(q) + 1 : i \in 1..Len(q) \/ i = Len(q) + 1
    BY <1>2
  <2>2. QED
    BY <1>1, <1>2, <2>1 DEF Range
<1>4. Range(q) \cup {e} \subseteq Range(Append(q, e))
  <2>1. Len(q) + 1 \in 1..Len(q) + 1 /\ 1..Len(q) \subseteq 1..Len(q) + 1
    BY <1>2
  <2>2. QED
    BY <1>1, <1>2, <2>1 DEF Range
<1>5. QED
  BY <1>3, <1>4

\* A list that holds each element once still does with a new one appended.
LEMMA InjectiveAppend ==
  ASSUME NEW S, NEW q \in Seq(S), NEW e \in S, IsInjective(q), e \notin Range(q)
  PROVE  IsInjective(Append(q, e))
<1>1. /\ DOMAIN Append(q, e) = 1..Len(q) + 1
      /\ \A i \in 1..Len(q) : Append(q, e)[i] = q[i]
      /\ Append(q, e)[Len(q) + 1] = e
  OBVIOUS
<1>2. DOMAIN q = 1..Len(q) /\ Len(q) \in Nat
  OBVIOUS
<1>3. \A i \in 1..Len(q) + 1 : i \in 1..Len(q) \/ i = Len(q) + 1
  BY <1>2
<1>4. \A i \in 1..Len(q) : q[i] # e
  BY <1>2 DEF Range
<1>5. QED
  BY <1>1, <1>2, <1>3, <1>4 DEF IsInjective

\* Taking the head off a list takes it off the set, if the list holds it once.
LEMMA HeadAndTail ==
  ASSUME NEW S, NEW q \in Seq(S), q # <<>>
  PROVE  /\ Head(q) \in S /\ Tail(q) \in Seq(S)
         /\ Range(q) = {Head(q)} \cup Range(Tail(q))
         /\ IsInjective(q) => IsInjective(Tail(q)) /\ Head(q) \notin Range(Tail(q))
<1>1. /\ Len(q) \in Nat \ {0} /\ DOMAIN q = 1..Len(q)
      /\ Head(q) = q[1] /\ Head(q) \in S
      /\ Tail(q) \in Seq(S)
  OBVIOUS
<1>2. /\ DOMAIN Tail(q) = 1..Len(q) - 1
      /\ \A i \in 1..Len(q) - 1 : Tail(q)[i] = q[i + 1]
  OBVIOUS
<1>3. \A i \in 1..Len(q) : i = 1 \/ (i - 1 \in 1..Len(q) - 1 /\ (i - 1) + 1 = i)
  BY <1>1
<1>4. \A i \in 1..Len(q) - 1 : i + 1 \in 1..Len(q) /\ i + 1 # 1
  BY <1>1
<1>5. 1 \in 1..Len(q)
  BY <1>1
<1>6. Range(q) \subseteq {Head(q)} \cup Range(Tail(q))
  <2> SUFFICES ASSUME NEW i \in 1..Len(q), i # 1
               PROVE  q[i] \in Range(Tail(q))
    BY <1>1 DEF Range
  <2>1. i - 1 \in DOMAIN Tail(q) /\ Tail(q)[i - 1] = q[i]
    BY <1>2, <1>3
  <2>2. QED
    BY <2>1 DEF Range
<1>7. {Head(q)} \cup Range(Tail(q)) \subseteq Range(q)
  BY <1>1, <1>2, <1>4, <1>5 DEF Range
<1>8. ASSUME IsInjective(q)
      PROVE  IsInjective(Tail(q)) /\ Head(q) \notin Range(Tail(q))
  <2>1. \A i, j \in 1..Len(q) : q[i] = q[j] => i = j
    BY <1>1, <1>8 DEF IsInjective
  <2>2. ASSUME NEW i \in DOMAIN Tail(q), NEW j \in DOMAIN Tail(q),
               Tail(q)[i] = Tail(q)[j]
        PROVE  i = j
    BY <1>2, <1>4, <2>1, <2>2
  <2>3. ASSUME NEW i \in DOMAIN Tail(q)
        PROVE  Tail(q)[i] # Head(q)
    BY <1>1, <1>2, <1>4, <1>5, <2>1, <2>3
  <2>4. QED
    BY <2>2, <2>3 DEF IsInjective, Range
<1>9. QED
  BY <1>1, <1>6, <1>7, <1>8

\* The empty list.
LEMMA EmptyList == Range(<<>>) = {} /\ IsInjective(<<>>)
  BY DEF Range, IsInjective

-----------------------------------------------------------------------------
(* Type correctness. *)

\* Every state is well typed: the lists of the fanout hold streams, the chunk
\* counter stays within its bound (internal/io.go, internal/stdio.go).
THEOREM TypeCorrect == Spec => []TypeOK
<1>1. Init => TypeOK
  <2> SUFFICES ASSUME Init
               PROVE  TypeOK
    OBVIOUS
  <2>1. <<>> \in Seq(Streams) /\ <<>> \in Seq(Nat)
    OBVIOUS
  <2>2. 0 \in 0..MaxChunks
    BY FanoutAssumption DEF FanoutAssumption
  <2>3. got \in [Streams -> Seq(Nat)]
    BY <2>1 DEF Init
  <2>4. QED
    BY <2>1, <2>2, <2>3 DEF Init, TypeOK, CopierStates, StreamStates
<1>2. TypeOK /\ [Next]_vars => TypeOK'
  <2> SUFFICES ASSUME TypeOK, [Next]_vars
               PROVE  TypeOK'
    OBVIOUS
  <2> USE DEF TypeOK, CopierStates, StreamStates, Holding, fanoutVars
  <2>1. CASE StdinChunk
    BY <2>1, FanoutAssumption DEF StdinChunk, FanoutAssumption
  <2>2. CASE StdinEnd
    BY <2>2 DEF StdinEnd
  <2>3. CASE WriteLock
    BY <2>3 DEF WriteLock, StartLoop
  <2>4. CASE WriteUnlock
    BY <2>4 DEF WriteUnlock
  <2>5. CASE WritePark
    BY <2>5 DEF WritePark
  <2>6. CASE WriteRelock
    BY <2>6 DEF WriteRelock, StartLoop
  <2>7. CASE WriteReturn
    BY <2>7 DEF WriteReturn
  <2>8. CASE Close
    BY <2>8 DEF Close
  <2>9. ASSUME NEW s \in Streams, WriteDeliver(s)
        PROVE  TypeOK'
    <3>1. Tail(todo) \in Seq(Streams)
      BY <2>9, HeadAndTail DEF WriteDeliver
    <3>2. Append(kept, s) \in Seq(Streams) /\ Append(got[s], chunk) \in Seq(Nat)
      OBVIOUS
    <3>3. QED
      BY <2>9, <3>1, <3>2 DEF WriteDeliver
  <2>10. ASSUME NEW s \in Streams, WriteSkip(s)
         PROVE  TypeOK'
    BY <2>10, HeadAndTail DEF WriteSkip
  <2>11. ASSUME NEW s \in Streams, NewStream(s)
         PROVE  TypeOK'
    BY <2>11 DEF NewStream
  <2>12. ASSUME NEW s \in Streams, TeeRegister(s)
         PROVE  TypeOK'
    <3>1. Sent + 1 \in Nat
      BY DEF Sent
    <3>2. QED
      BY <2>12, <3>1 DEF TeeRegister
  <2>13. ASSUME NEW s \in Streams, TeeSelect(s)
         PROVE  TypeOK'
    BY <2>13 DEF TeeSelect
  <2>14. ASSUME NEW s \in Streams, ReadEOF(s)
         PROVE  TypeOK'
    BY <2>14 DEF ReadEOF
  <2>15. ASSUME NEW s \in Streams, CloseReader(s)
         PROVE  TypeOK'
    BY <2>15 DEF CloseReader
  <2>16. ASSUME NEW s \in Streams, Abandon(s)
         PROVE  TypeOK'
    BY <2>16 DEF Abandon
  <2>17. CASE UNCHANGED vars
    BY <2>17 DEF vars
  <2>18. QED
    BY <2>1, <2>2, <2>3, <2>4, <2>5, <2>6, <2>7, <2>8, <2>9, <2>10, <2>11,
       <2>12, <2>13, <2>14, <2>15, <2>16, <2>17 DEF Next
<1>3. QED
  BY <1>1, <1>2, PTL DEF Spec

-----------------------------------------------------------------------------
(* The inductive invariant, relative to TypeOK. *)

\* With no stream opened and nothing read from STDIN, nothing is owed to anyone.
LEMMA InitIInv == Init => IInv
<1> SUFFICES ASSUME Init
             PROVE  IInv
  OBVIOUS
<1>1. LoopInv
  BY DEF Init, LoopInv, Holding
<1>2. ListInv
  BY EmptyList DEF Init, ListInv
<1>3. PipeInv
  BY DEF Init, PipeInv
<1>4. ProgressInv
  BY DEF Init, ProgressInv, Live
<1>5. InOrder
  BY DEF Init, InOrder
<1>6. WokenFindsWriter
  BY DEF Init, WokenFindsWriter
<1>7. QED
  BY <1>1, <1>2, <1>3, <1>4, <1>5, <1>6 DEF IInv

\* A step of the copier that leaves the loop, the lists and the streams alone.
LEMMA CopierStep ==
  ASSUME IInv, TypeOK, TypeOK', StdinChunk \/ StdinEnd \/ WriteUnlock \/ WritePark
  PROVE  IInv'
<1> USE DEF IInv, TypeOK
<1> USE DEF StdinChunk, StdinEnd, WriteUnlock, WritePark
<1>1. LoopInv'
  BY DEF LoopInv, Holding
<1>2. ListInv'
  BY DEF ListInv, Registered
<1>3. PipeInv'
  BY DEF PipeInv
<1>4. ProgressInv'
  <2>1. copier # "write" /\ copier' # "write"
    OBVIOUS
  <2>2. Sent' = Sent
    <3>1. chunk \in Int
      OBVIOUS
    <3>2. CASE StdinChunk
      <4>1. copier = "stdin" /\ copier' = "lock" /\ chunk' = chunk + 1
        BY <3>2
      <4>2. QED
        BY <3>1, <4>1 DEF Sent, Holding
    <3>3. CASE StdinEnd \/ WriteUnlock \/ WritePark
      BY <3>3 DEF Sent, Holding
    <3>4. QED
      BY <3>2, <3>3
  <2>3. QED
    BY <2>1, <2>2 DEF ProgressInv, Live
<1>5. InOrder'
  BY DEF InOrder
<1>6. WokenFindsWriter'
  BY DEF WokenFindsWriter
<1>7. QED
  BY <1>1, <1>2, <1>3, <1>4, <1>5, <1>6

\* Write enters its loop: everyone is one chunk behind the one now sent.
LEMMA StartLoopStep ==
  ASSUME IInv, TypeOK, TypeOK', WriteLock \/ WriteRelock
  PROVE  IInv'
<1> USE DEF IInv, TypeOK
<1> USE DEF WriteLock, WriteRelock, StartLoop
<1>1. LoopInv'
  BY DEF LoopInv, Holding
<1>2. ListInv'
  BY EmptyList DEF ListInv, Registered
<1>3. PipeInv'
  BY DEF PipeInv
<1>4. ProgressInv'
  <2>1. copier # "write" /\ copier' = "write" /\ Sent = chunk - 1 /\ chunk' = chunk
    BY DEF Sent, Holding
  <2>2. Live' = Live
    BY DEF Live
  <2>3. ASSUME NEW s \in Live'
        PROVE  s \in Range(todo') /\ first'[s] + Len(got'[s]) = chunk'
    BY <2>1, <2>2, <2>3 DEF ProgressInv
  <2>4. QED
    BY <2>1, <2>3 DEF ProgressInv
<1>5. InOrder'
  BY DEF InOrder
<1>6. WokenFindsWriter'
  BY DEF WokenFindsWriter
<1>7. QED
  BY <1>1, <1>2, <1>3, <1>4, <1>5, <1>6

\* The loop hands the chunk to the stream at the head of its list.
LEMMA DeliverStep ==
  ASSUME IInv, TypeOK, TypeOK', NEW s \in Streams, WriteDeliver(s)
  PROVE  IInv'
<1> USE DEF IInv, TypeOK
<1> USE DEF WriteDeliver, Locked
<1>1. /\ Range(todo) = {s} \cup Range(todo')
      /\ IsInjective(todo') /\ s \notin Range(todo')
  BY HeadAndTail DEF ListInv
<1>2. s \notin Range(kept)
  BY <1>1 DEF ListInv
<1>3. Range(kept') = Range(kept) \cup {s} /\ IsInjective(kept')
  BY <1>2, RangeOfAppend, InjectiveAppend DEF ListInv
<1>4. s \in Live /\ first[s] + Len(got[s]) = chunk
  BY <1>2 DEF Live, ProgressInv
<1>5. Len(got'[s]) = Len(got[s]) + 1 /\ got'[s][Len(got[s]) + 1] = chunk
      /\ \A i \in 1..Len(got[s]) : got'[s][i] = got[s][i]
  OBVIOUS
<1>6. LoopInv'
  BY DEF LoopInv, Holding
<1>7. ListInv'
  BY <1>1, <1>3 DEF ListInv, Registered
<1>8. PipeInv'
  BY DEF PipeInv
<1>9. ProgressInv'
  <2>1. Live' = Live
    BY DEF Live
  <2>2. ASSUME NEW t \in Live', t # s
        PROVE  \/ t \in Range(todo') /\ first'[t] + Len(got'[t]) = chunk'
               \/ t \in Range(kept') /\ first'[t] + Len(got'[t]) = chunk' + 1
    <3>1. t \in Streams /\ got'[t] = got[t] /\ first'[t] = first[t] /\ chunk' = chunk
      BY <2>2 DEF Live
    <3>2. QED
      BY <1>1, <1>3, <2>1, <2>2, <3>1 DEF ProgressInv
  <2>3. s \in Range(kept') /\ first'[s] + Len(got'[s]) = chunk' + 1
    <3>1. first[s] \in Nat /\ Len(got[s]) \in Nat
      OBVIOUS
    <3>2. first'[s] = first[s] /\ chunk' = chunk
      OBVIOUS
    <3> HIDE DEF WriteDeliver, Locked, TypeOK, IInv
    <3>3. first'[s] + Len(got'[s]) = (first[s] + Len(got[s])) + 1
      BY <1>5, <3>1, <3>2
    <3>4. QED
      BY <1>3, <1>4, <3>2, <3>3
  <2>4. QED
    BY <2>2, <2>3 DEF ProgressInv
<1>10. InOrder'
  <2>1. /\ Len(got[s]) \in Nat /\ first[s] \in Nat /\ first' = first /\ InOrder
        /\ \A t \in Streams : t # s => got'[t] = got[t]
    OBVIOUS
  <2> HIDE DEF IInv, TypeOK, WriteDeliver
  <2>2. ASSUME NEW i \in 1..Len(got'[s])
        PROVE  got'[s][i] = first'[s] + i - 1
    <3>1. i \in 1..Len(got[s]) \/ i = Len(got[s]) + 1
      BY <1>5, <2>1
    <3>2. QED
      BY <1>4, <1>5, <2>1, <3>1 DEF InOrder
  <2>3. QED
    BY <2>1, <2>2 DEF InOrder
<1>11. WokenFindsWriter'
  BY DEF WokenFindsWriter
<1>12. QED
  BY <1>6, <1>7, <1>8, <1>9, <1>10, <1>11

\* The loop passes over a stream whose pipe is closed.
LEMMA SkipStep ==
  ASSUME IInv, TypeOK, TypeOK', NEW s \in Streams, WriteSkip(s)
  PROVE  IInv'
<1> USE DEF IInv, TypeOK
<1> USE DEF WriteSkip, Locked
<1>1. /\ Range(todo) = {s} \cup Range(todo')
      /\ IsInjective(todo') /\ s \notin Range(todo')
  BY HeadAndTail DEF ListInv
<1>2. LoopInv'
  BY DEF LoopInv, Holding
<1>3. ListInv'
  BY <1>1 DEF ListInv, Registered
<1>4. PipeInv'
  BY DEF PipeInv
<1>5. ProgressInv'
  BY <1>1 DEF ProgressInv, Live
<1>6. InOrder'
  BY DEF InOrder
<1>7. WokenFindsWriter'
  BY DEF WokenFindsWriter
<1>8. QED
  BY <1>2, <1>3, <1>4, <1>5, <1>6, <1>7

\* The loop ends: the live streams, all visited, are the new f.writers.
LEMMA ReturnStep ==
  ASSUME IInv, TypeOK, TypeOK', WriteReturn
  PROVE  IInv'
<1> USE DEF IInv, TypeOK
<1> USE DEF WriteReturn, Locked
<1>1. LoopInv'
  BY DEF LoopInv, Holding
<1>2. ListInv'
  BY EmptyList DEF ListInv, Registered
<1>3. PipeInv'
  BY DEF PipeInv
<1>4. ProgressInv'
  BY EmptyList DEF ProgressInv, Live, Sent, Holding
<1>5. InOrder'
  BY DEF InOrder
<1>6. WokenFindsWriter'
  BY DEF WokenFindsWriter
<1>7. QED
  BY <1>1, <1>2, <1>3, <1>4, <1>5, <1>6

\* Close closes every registered pipe; no live stream is left.
LEMMA CloseStep ==
  ASSUME IInv, TypeOK, TypeOK', Close
  PROVE  IInv'
<1> USE DEF IInv, TypeOK
<1> USE DEF Close
<1>1. LoopInv'
  BY DEF LoopInv, Holding
<1>2. ListInv'
  BY DEF ListInv, Registered
<1>3. PipeInv'
  BY DEF PipeInv, ListInv, Registered
<1>4. ProgressInv'
  <2>1. Live' = {}
    BY DEF Live, ProgressInv
  <2>2. QED
    BY <2>1 DEF ProgressInv
<1>5. InOrder'
  BY DEF InOrder
<1>6. WokenFindsWriter'
  BY DEF WokenFindsWriter
<1>7. QED
  BY <1>1, <1>2, <1>3, <1>4, <1>5, <1>6

\* Tee registers a stream, outside the loop of Write.
LEMMA RegisterStep ==
  ASSUME IInv, TypeOK, TypeOK', NEW s \in Streams, TeeRegister(s)
  PROVE  IInv'
<1> USE DEF IInv, TypeOK
<1> USE DEF TeeRegister, Locked
<1>1. s \notin Range(writers)
  BY DEF ListInv, Registered
<1>2. Range(writers') = Range(writers) \cup {s} /\ IsInjective(writers')
  BY <1>1, RangeOfAppend, InjectiveAppend DEF ListInv
<1>3. LoopInv'
  BY DEF LoopInv, Holding
<1>4. ListInv'
  <2>1. Registered' = Registered \cup {s}
    BY DEF Registered
  <2>2. QED
    BY <1>2, <2>1 DEF ListInv
<1>5. PipeInv'
  BY DEF PipeInv
<1>6. ProgressInv'
  <2>1. Live' = Live \cup {s}
    BY DEF Live, PipeInv
  <2>2. Sent' = Sent /\ Sent \in Int
    BY DEF Sent, Holding
  <2>3. got'[s] = <<>> /\ first'[s] = Sent + 1
    BY DEF PipeInv
  <2>4. first'[s] + Len(got'[s]) = Sent' + 1
    BY <2>2, <2>3
  <2>5. ASSUME NEW t \in Live, t # s
        PROVE  t \in Range(writers') /\ first'[t] + Len(got'[t]) = Sent' + 1
    BY <1>2, <2>2, <2>5 DEF ProgressInv, Live
  <2>6. QED
    BY <1>2, <2>1, <2>4, <2>5 DEF ProgressInv
<1>7. InOrder'
  <2>1. got' = got /\ got[s] = <<>>
    BY DEF PipeInv
  <2>2. ASSUME NEW t \in Streams, t # s
        PROVE  first'[t] = first[t]
    BY <2>2
  <2>3. InOrder
    OBVIOUS
  <2> HIDE DEF IInv, TypeOK, TeeRegister
  <2>4. \A i \in 1..Len(got[s]) : got[s][i] = first'[s] + i - 1
    BY <2>1
  <2>5. QED
    BY <2>1, <2>2, <2>3, <2>4 DEF InOrder
<1>8. WokenFindsWriter'
  BY <1>2, EmptyList DEF WokenFindsWriter
<1>9. QED
  BY <1>3, <1>4, <1>5, <1>6, <1>7, <1>8

\* Tee wakes a waiting copier: the stream it registered is still a writer, for
\* its handler has not got the Reader yet and Close has not run.
LEMMA SelectStep ==
  ASSUME IInv, TypeOK, TypeOK', NEW s \in Streams, TeeSelect(s)
  PROVE  IInv'
<1> USE DEF IInv, TypeOK
<1> USE DEF TeeSelect
<1>1. LoopInv'
  BY DEF LoopInv, Holding
<1>2. ListInv'
  BY DEF ListInv, Registered
<1>3. PipeInv'
  BY DEF PipeInv
<1>4. Live' = Live /\ Sent' = Sent /\ (copier' = "write" <=> copier = "write")
  BY DEF Live, Sent, Holding
<1>5. ProgressInv'
  BY <1>4 DEF ProgressInv, Live
<1>6. InOrder'
  BY DEF InOrder
<1>7. WokenFindsWriter'
  <2> SUFFICES ASSUME copier' = "relock", copier = "parked"
               PROVE  writers # <<>>
    BY DEF WokenFindsWriter
  <2>1. pipe[s] = {}
    BY DEF PipeInv, LoopInv
  <2>2. s \in Range(writers)
    BY <2>1 DEF Live, ProgressInv
  <2>3. QED
    BY <2>2, EmptyList
<1>8. QED
  BY <1>1, <1>2, <1>3, <1>5, <1>6, <1>7

\* Steps of the handlers that do not touch the fanout.
LEMMA HandlerStep ==
  ASSUME IInv, TypeOK, TypeOK', NEW s \in Streams,
         NewStream(s) \/ ReadEOF(s) \/ CloseReader(s) \/ Abandon(s)
  PROVE  IInv'
<1> USE DEF IInv, TypeOK
<1>1. UNCHANGED <<closed, copier, chunk, todo, kept, writers, got, first>>
  BY DEF NewStream, ReadEOF, CloseReader, Abandon, fanoutVars
<1>2. \A t \in Streams : t # s => pipe'[t] = pipe[t] /\ stream'[t] = stream[t]
  BY DEF NewStream, ReadEOF, CloseReader, Abandon
<1>3. \/ stream[s] = "new" /\ stream'[s] = "tee" /\ pipe'[s] = pipe[s]
      \/ /\ stream[s] \in {"reading", "eof"}
         /\ \/ stream'[s] \in {"eof", "abandoned"} /\ pipe'[s] = pipe[s]
            \/ stream'[s] = "closed" /\ pipe'[s] = pipe[s] \cup {"reader"}
  BY DEF NewStream, ReadEOF, CloseReader, Abandon
<1>4. LoopInv /\ ListInv /\ PipeInv /\ ProgressInv /\ InOrder /\ WokenFindsWriter
  OBVIOUS
<1> HIDE DEF IInv, TypeOK
<1>5. LoopInv'
  BY <1>1, <1>4 DEF LoopInv, Holding
<1>6. ListInv'
  BY <1>1, <1>2, <1>3, <1>4 DEF ListInv, Registered
<1>7. PipeInv'
  BY <1>1, <1>2, <1>3, <1>4 DEF PipeInv
<1>8. ProgressInv'
  <2>1. Live' \subseteq Live
    BY <1>2, <1>3 DEF Live
  <2>2. QED
    BY <1>1, <1>4, <2>1 DEF ProgressInv, Sent, Holding
<1>9. InOrder'
  BY <1>1, <1>4 DEF InOrder
<1>10. WokenFindsWriter'
  BY <1>1, <1>4 DEF WokenFindsWriter
<1>11. QED
  BY <1>5, <1>6, <1>7, <1>8, <1>9, <1>10 DEF IInv

\* IInv holds in every state.
LEMMA Invariance == Spec => []IInv
<1>1. TypeOK /\ TypeOK' /\ IInv /\ [Next]_vars => IInv'
  <2> SUFFICES ASSUME TypeOK, TypeOK', IInv, [Next]_vars
               PROVE  IInv'
    OBVIOUS
  <2>1. CASE UNCHANGED vars
    BY <2>1 DEF vars, IInv, LoopInv, ListInv, Registered, PipeInv, ProgressInv, Live,
                Sent, InOrder, WokenFindsWriter
  <2>2. CASE Next
    BY <2>2, CopierStep, StartLoopStep, DeliverStep, SkipStep, ReturnStep, CloseStep,
       RegisterStep, SelectStep, HandlerStep DEF Next
  <2>3. QED
    BY <2>1, <2>2
<1>2. QED
  BY <1>1, InitIInv, TypeCorrect, PTL DEF Spec

-----------------------------------------------------------------------------
(* The safety properties, and the broadcast the fanout implements. *)

\* What a stream reads is the run of consecutive chunks that starts where Tee
\* registered it (internal/io.go, Write and Tee).
THEOREM ReadsInOrder == Spec => []InOrder
<1>1. IInv => InOrder
  BY DEF IInv
<1>2. QED
  BY <1>1, Invariance, PTL

\* Between two Writes no live stream has been forgotten or left behind, however
\* Tee, the readers and Close interleave with the loop of Write (io.go:79-87).
THEOREM NobodyMisses == Spec => []NobodyMissesAChunk
<1>1. IInv => NobodyMissesAChunk
  BY DEF IInv, ProgressInv, NobodyMissesAChunk
<1>2. QED
  BY <1>1, Invariance, PTL

\* The receive on wakeCh is answered only when there is a writer (io.go:76-80).
THEOREM WokenToWrite == Spec => []WokenFindsWriter
<1>1. IInv => WokenFindsWriter
  BY DEF IInv
<1>2. QED
  BY <1>1, Invariance, PTL

\* A step that changes neither what is sent nor who is a member is a stutter.
LEMMA StutterStep ==
  ASSUME Sent' = Sent, Member' = Member, UNCHANGED <<first, got>>
  PROVE  [B!Next]_(B!broadcastVars)
  BY DEF B!broadcastVars

\* Hang-ups and the end of the input remove members.
LEMMA LeaveStep ==
  ASSUME TypeOK, IInv, Close \/ \E s \in Streams : CloseReader(s)
  PROVE  [B!Next]_(B!broadcastVars)
<1> DEFINE S == {s \in Streams : Member[s] = "yes" /\ Member'[s] = "gone"}
<1>1. UNCHANGED <<first, got>> /\ Sent' = Sent
  BY DEF Close, CloseReader, fanoutVars, Sent, Holding
<1>2. S \in SUBSET B!Members
  BY DEF B!Members
<1>3. \A s \in Streams : Member'[s] = IF s \in S THEN "gone" ELSE Member[s]
  <2>1. CASE Close
    BY <2>1 DEF Close, Member, TypeOK
  <2>2. ASSUME NEW s \in Streams, CloseReader(s)
        PROVE  \A t \in Streams : Member'[t] = IF t \in S THEN "gone" ELSE Member[t]
    BY <2>2 DEF CloseReader, Member, TypeOK
  <2>3. QED
    BY <2>1, <2>2
<1>4. Member' = [s \in Streams |-> IF s \in S THEN "gone" ELSE Member[s]]
  BY <1>3 DEF Member
<1>5. B!Leave(S)
  BY <1>1, <1>4 DEF B!Leave
<1>6. QED
  BY <1>2, <1>5 DEF B!Next

\* Every behaviour of the fanout is one of the broadcast: Write sends when its
\* loop starts, which it does only when every member has read what was sent
\* before, Tee joins, and closing a pipe at either end leaves.
THEOREM FanoutIsBroadcast == Spec => ImplementsBroadcast
<1>1. Init => B!Init
  BY DEF Init, B!Init, Sent, Member, Holding
<1>2. TypeOK /\ IInv /\ [Next]_vars => [B!Next]_(B!broadcastVars)
  <2> SUFFICES ASSUME TypeOK, IInv, [Next]_vars
               PROVE  [B!Next]_(B!broadcastVars)
    OBVIOUS
  <2>1. CASE UNCHANGED vars
    BY <2>1, StutterStep DEF vars, Sent, Member
  <2>2. CASE StdinChunk
    <3>1. copier = "stdin" /\ copier' = "lock" /\ chunk' = chunk + 1 /\ chunk \in Int
      BY <2>2 DEF StdinChunk, TypeOK
    <3>2. Sent' = Sent
      BY <3>1 DEF Sent, Holding
    <3>3. Member' = Member /\ UNCHANGED <<first, got>>
      BY <2>2 DEF StdinChunk, Member
    <3>4. QED
      BY <3>2, <3>3, StutterStep
  <2>3. CASE StdinEnd \/ WriteUnlock \/ WritePark \/ WriteReturn
    BY <2>3, StutterStep
       DEF StdinEnd, WriteUnlock, WritePark, WriteReturn, Locked, Sent, Holding, Member
  <2>4. CASE WriteLock \/ WriteRelock
    <3>1. /\ copier \in Holding /\ copier # "write" /\ copier' = "write"
          /\ chunk' = chunk /\ chunk \in Int
          /\ UNCHANGED <<stream, pipe, first, got>>
      BY <2>4 DEF WriteLock, WriteRelock, StartLoop, Holding, TypeOK
    <3>2. Sent' = Sent + 1
      BY <3>1 DEF Sent, Holding
    <3>3. B!Members \subseteq Live
      BY DEF B!Members, Member, Live
    <3>4. \A s \in B!Members : B!Awaits(s) = Sent + 1
      BY <3>1, <3>3 DEF IInv, ProgressInv, B!Awaits
    <3>5. B!Send
      BY <3>1, <3>2, <3>4 DEF B!Send, Member
    <3>6. QED
      BY <3>5 DEF B!Next
  <2>5. ASSUME NEW s \in Streams, WriteDeliver(s)
        PROVE  B!Next
    <3>1. /\ Sent = chunk /\ Sent' = Sent /\ Member' = Member
          /\ s \in Live /\ s \in B!Members
      BY <2>5 DEF WriteDeliver, Locked, Sent, Holding, Member, Live, B!Members
    <3>2. s \in Range(todo) /\ s \notin Range(kept)
      BY <2>5, HeadAndTail DEF WriteDeliver, IInv, ListInv, TypeOK
    <3>3. B!Awaits(s) = Sent
      BY <2>5, <3>1, <3>2 DEF WriteDeliver, Locked, IInv, ProgressInv, B!Awaits
    <3>4. got' = [got EXCEPT ![s] = Append(@, Sent)] /\ first' = first
      BY <2>5, <3>1 DEF WriteDeliver
    <3>5. B!Receive(s)
      BY <3>1, <3>3, <3>4 DEF B!Receive
    <3>6. QED
      BY <3>5 DEF B!Next
  <2>6. ASSUME NEW s \in Streams, TeeRegister(s)
        PROVE  B!Next
    <3>1. Sent' = Sent
      BY <2>6 DEF TeeRegister, Sent
    <3>2. Member[s] = "no" /\ pipe[s] = {}
      BY <2>6 DEF TeeRegister, Member, IInv, PipeInv
    <3>3. Member' = [Member EXCEPT ![s] = "yes"]
      BY <2>6, <3>2 DEF TeeRegister, Member, TypeOK
    <3>4. first' = [first EXCEPT ![s] = Sent + 1] /\ got' = got
      BY <2>6 DEF TeeRegister
    <3>5. B!Join(s)
      BY <3>1, <3>2, <3>3, <3>4 DEF B!Join
    <3>6. QED
      BY <3>5 DEF B!Next
  <2>7. ASSUME NEW s \in Streams,
               WriteSkip(s) \/ NewStream(s) \/ TeeSelect(s) \/ ReadEOF(s) \/ Abandon(s)
        PROVE  [B!Next]_(B!broadcastVars)
    <3>1. Sent' = Sent /\ UNCHANGED <<first, got, pipe>>
      BY <2>7 DEF WriteSkip, NewStream, TeeSelect, ReadEOF, Abandon, fanoutVars, Sent, Holding
    <3>2. \A t \in Streams : stream'[t] \in {"new", "tee"} <=> stream[t] \in {"new", "tee"}
      BY <2>7 DEF WriteSkip, NewStream, TeeSelect, ReadEOF, Abandon, TypeOK
    <3>3. Member' = Member
      BY <3>1, <3>2 DEF Member
    <3>4. QED
      BY <3>1, <3>3, StutterStep
  <2>8. CASE Close \/ \E s \in Streams : CloseReader(s)
    BY <2>8, LeaveStep
  <2>9. QED
    BY <2>1, <2>2, <2>3, <2>4, <2>5, <2>6, <2>7, <2>8 DEF Next
<1>3. QED
  BY <1>1, <1>2, TypeCorrect, Invariance, PTL DEF Spec, ImplementsBroadcast, B!Spec

-----------------------------------------------------------------------------
(* No Write is kept for ever, and no stream left without the end of the input. *)

\* A handler that no longer reads has closed its pipe or seen it closed, unless it has
\* abandoned it.
ReadsOn ==
  \A s \in Streams :
    /\ stream[s] = "eof" => "writer" \in pipe[s]
    /\ stream[s] = "closed" => "reader" \in pipe[s]
    /\ stream[s] = "abandoned" => s \in Abandoners

\* The stream that the loop of Write is at has its pipe closed, or a handler that reads it
\* or is about to.
WriteWaitsForAReader ==
  copier = "write" /\ todo # <<>> =>
    LET s == Head(todo)
    IN  \/ pipe[s] # {} \/ stream[s] \in {"select", "reading"}
        \/ s \in Abandoners /\ stream[s] = "abandoned"

\* The loop goes on to its next stream or is left, and nobody adds one to it.
LoopShrinks ==
  copier = "write" =>
    \/ UNCHANGED fanoutVars
    \/ todo # <<>> /\ copier' = "write" /\ writers' = writers /\ Len(todo') < Len(todo)
    \/ todo = <<>> /\ copier' = "stdin"

\* When the fanout is closed, no stream that is open then goes on waiting for input.
CloseReachesAll == Close => Live' = {}

LEMMA ReadsOnStep ==
  ASSUME TypeOK, ReadsOn, [Next]_vars
  PROVE  ReadsOn'
<1>1. CASE \/ UNCHANGED <<stream, pipe>> \/ Close
  BY <1>1 DEF Close, ReadsOn, TypeOK
<1>2. ASSUME NEW s \in Streams,
             \/ NewStream(s) \/ TeeRegister(s) \/ TeeSelect(s) \/ ReadEOF(s) \/ CloseReader(s)
             \/ Abandon(s)
      PROVE  ReadsOn'
  BY <1>2 DEF NewStream, TeeRegister, TeeSelect, ReadEOF, CloseReader, Abandon, ReadsOn, TypeOK
<1>3. ASSUME NEW s \in Streams, WriteDeliver(s) \/ WriteSkip(s)
      PROVE  UNCHANGED <<stream, pipe>>
  BY <1>3 DEF WriteDeliver, WriteSkip
<1>4. ASSUME \/ StdinChunk \/ StdinEnd \/ WriteLock \/ WriteUnlock \/ WritePark \/ WriteRelock
             \/ WriteReturn \/ UNCHANGED vars
      PROVE  UNCHANGED <<stream, pipe>>
  BY <1>4 DEF StdinChunk, StdinEnd, WriteLock, WriteUnlock, WritePark, WriteRelock, WriteReturn,
     StartLoop, vars
<1>5. QED
  BY <1>1, <1>2, <1>3, <1>4 DEF Next

\* The Write that holds the mutex waits for nobody but a handler that reads, or is in the
\* select of its Tee, which waits for nothing.  Only a stream that its handler has
\* abandoned can keep it there (io.go:80-86, udp.go, ssh.go).
THEOREM WriteNeverStops == Spec => []WriteWaitsForAReader
<1>1. Init => ReadsOn
  BY DEF Init, ReadsOn
<1>2. TypeOK /\ ReadsOn /\ [Next]_vars => ReadsOn'
  BY ReadsOnStep
<1>3. TypeOK /\ IInv /\ ReadsOn => WriteWaitsForAReader
  <2> SUFFICES ASSUME TypeOK, IInv, ReadsOn, todo # <<>>
               PROVE  LET s == Head(todo)
                      IN  \/ pipe[s] # {} \/ stream[s] \in {"select", "reading"}
                          \/ s \in Abandoners /\ stream[s] = "abandoned"
    BY DEF WriteWaitsForAReader
  <2>1. Head(todo) \in Streams /\ Head(todo) \in Range(todo)
    BY HeadAndTail DEF TypeOK
  <2>2. stream[Head(todo)] \in StreamStates \ {"new", "tee"}
    BY <2>1 DEF TypeOK, IInv, ListInv, Registered
  <2>3. QED
    BY <2>1, <2>2 DEF ReadsOn, StreamStates
<1>4. QED
  BY <1>1, <1>2, <1>3, TypeCorrect, Invariance, PTL DEF Spec

\* Nor does it go round: while it holds the mutex no Tee adds a stream, and each of the
\* writes takes one off its list.  So every Write returns, and every NewStream that waits
\* for the mutex gets its turn, unless a stream is abandoned (io.go:80-97).
THEOREM WriteRunsOut == Spec => [][LoopShrinks]_vars
<1>1. TypeOK /\ [Next]_vars => [LoopShrinks]_vars
  <2> SUFFICES ASSUME TypeOK, Next, copier = "write"
               PROVE  \/ UNCHANGED fanoutVars
                      \/ /\ todo # <<>> /\ copier' = "write" /\ writers' = writers
                         /\ Len(todo') < Len(todo)
                      \/ todo = <<>> /\ copier' = "stdin"
    BY DEF LoopShrinks
  <2>1. CASE WriteReturn
    BY <2>1 DEF WriteReturn
  <2>2. CASE \E s \in Streams : WriteDeliver(s) \/ WriteSkip(s)
    <3>1. todo # <<>> /\ todo' = Tail(todo) /\ UNCHANGED <<copier, writers>>
      BY <2>2 DEF WriteDeliver, WriteSkip
    <3>2. Len(Tail(todo)) < Len(todo)
      BY <3>1 DEF TypeOK
    <3>3. QED
      BY <3>1, <3>2
  <2>3. CASE \E s \in Streams :
               \/ NewStream(s) \/ TeeRegister(s) \/ TeeSelect(s) \/ ReadEOF(s)
               \/ CloseReader(s) \/ Abandon(s)
    BY <2>3 DEF NewStream, TeeRegister, TeeSelect, ReadEOF, CloseReader, Abandon, Locked,
       fanoutVars
  <2>4. ~(StdinChunk \/ StdinEnd \/ WriteLock \/ WriteUnlock \/ WritePark \/ WriteRelock \/ Close)
    BY DEF StdinChunk, StdinEnd, WriteLock, WriteUnlock, WritePark, WriteRelock, Close
  <2>5. QED
    BY <2>1, <2>2, <2>3, <2>4 DEF Next
<1>2. QED
  BY <1>1, TypeCorrect, PTL DEF Spec

\* The end of STDIN reaches every stream that is open when the fanout is closed: each of
\* them is registered then, wherever the Writes and Tees before it have left the list
\* (stdio.go:23, io.go:58-66).
THEOREM EndReachesAll == Spec => [][CloseReachesAll]_vars
<1>1. TypeOK /\ NobodyMissesAChunk /\ [Next]_vars => [CloseReachesAll]_vars
  <2> SUFFICES ASSUME TypeOK, NobodyMissesAChunk, Close
               PROVE  Live' = {}
    BY DEF CloseReachesAll
  <2>1. \A s \in Live : s \in Range(writers)
    BY DEF NobodyMissesAChunk, Close
  <2>2. \A s \in Streams : pipe'[s] = {} => pipe[s] = {} /\ s \notin Range(writers)
    BY DEF Close, TypeOK
  <2>3. stream' = stream
    BY DEF Close
  <2>4. QED
    BY <2>1, <2>2, <2>3 DEF Live
<1>2. QED
  BY <1>1, TypeCorrect, NobodyMisses, PTL DEF Spec
=============================================================================
