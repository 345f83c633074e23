---------------------------- MODULE SessionProofs ----------------------------
(***************************************************************************)
(* Proofs about Session, for any number of chunks and any buffer size.     *)
(*                                                                         *)
(* CloseInv ties where a process is in its deferred calls to what has been *)
(* closed by then, and the first close to the reason of it: a copy ends    *)
(* because the client or the child has, or because something was closed,   *)
(* which by induction goes back to one of them.                            *)
(*                                                                         *)
(* FlowInv is about the chunks.  All of them are on the way from the       *)
(* client to the client, in order, until a socket is closed with unread    *)
(* input or dns has sent its one message; what the client has been given   *)
(* is a prefix for ever.  RequestInv says which places on the way of an    *)
(* http request are empty when; it is what makes the echo whole.           *)
(*                                                                         *)
(* The last two theorems are what of SessionEnds is no matter of fairness. *)
(* With TurnInv, there is always somebody who can go on once one side has  *)
(* ended; and a measure shows that no step goes round.                     *)
(***************************************************************************)
EXTENDS Session, TLAPS

Begun(p) == at[p] \in Resources \cup {"finish", "close", "failed", "done"}

CloseInv ==
  /\ \A p \in Processes :
       /\ at[p] = "Writer" => "Reader" \notin open
       /\ at[p] = "conn" => kind = "ssh" \/ open \subseteq {"conn"}
       /\ Begun(p) => client # "open" \/ child # "running"
  /\ \A p \in Copies :
       /\ at[p] # "wait"
       /\ at[p] \in Resources => kind = "tcp"
       /\ at[p] = "done" /\ kind = "tcp" => open = {}
       /\ at[p] = "failed" => kind = "http" /\ p = "recv"
       /\ at[p] \in {"finish", "close", "later"} => kind \in {"http", "dns"}
  /\ kind = "dns" => client # "open" /\ (at["handler"] # "done" => "conn" \in open)
  /\ at["handler"] \in {"wait", "done"} \cup Resources
  /\ at["handler"] = "done" => "conn" \notin open /\ (kind # "ssh" => open = {})
  /\ at["handler"] # "wait" => \A q \in Awaited : Returned(q)
  /\ ClosesForAReason

RequestInv ==
  /\ at["recv"] \in {"finish", "close"} \/ (kind = "http" /\ at["recv"] = "copy")
       => at["send"] = "later"
  /\ child = "exited" => "Writer" \notin open /\ buffer["stdin"] = <<>> /\ holds["child"] = <<>>
  /\ kind = "http" =>
       /\ at["recv"] \in {"copy", "finish", "close"} => open = Resources
       /\ Ending => buffer["inbound"] = <<>> /\ client # "open"
       /\ at["recv"] \in {"close", "done"} /\ child # "died" => holds["recv"] = <<>>
       /\ at["send"] = "later" => at["recv"] \in {"copy", "finish", "close"}
       /\ at["send"] = "copy" => at["recv"] = "done" /\ {"Reader", "conn"} \subseteq open
       /\ at["recv"] = "failed" => client = "gone" \/ child = "died"
       /\ at["recv"] = "done" /\ at["send"] = "done" =>
            \/ client = "gone" \/ child = "died"
            \/ child = "exited" /\ buffer["stdout"] = <<>> /\ holds["send"] = <<>>

\* Chunks may have been lost.
Broken == "conn" \notin open /\ ~Ending

Delivered == received \o buffer["outbound"]

FlowInv ==
  /\ ~Broken => InFlight = Given
  /\ \A i \in 1..Len(Delivered) : i <= Len(Given) /\ Delivered[i] = Given[i]
  /\ kind = "dns" /\ "conn" \in open => received = <<>> /\ buffer["outbound"] = <<>>

-----------------------------------------------------------------------------
(* Sequences. *)

\* Sequences that agree everywhere are the same.
LEMMA SeqEqual ==
  ASSUME NEW S, NEW p \in Seq(S), NEW q \in Seq(S), Len(p) = Len(q), \A i \in 1..Len(p) : p[i] = q[i]
  PROVE  p = q
OBVIOUS

\* One more element.
LEMMA OneMore ==
  ASSUME NEW n \in Nat, NEW g \in Seq(Nat), Len(g) = n, NEW h \in Seq(Nat), Len(h) = n + 1,
         NEW e \in Nat, h[n + 1] = e, \A i \in 1..n : h[i] = g[i]
  PROVE  h = Append(g, e)
<1>1. Append(g, e) \in Seq(Nat) /\ Len(Append(g, e)) = n + 1
  OBVIOUS
<1>2. \A i \in 1..(n + 1) : h[i] = Append(g, e)[i]
  OBVIOUS
<1>3. QED BY <1>1, <1>2, SeqEqual

\* Concatenation is associative.
LEMMA Assoc ==
  ASSUME NEW S, NEW x \in Seq(S), NEW y \in Seq(S), NEW z \in Seq(S)
  PROVE  x \o y \o z = x \o (y \o z) /\ x \o y \in Seq(S)
OBVIOUS

\* What a sequence is continued with does not change it.
LEMMA Continued ==
  ASSUME NEW S, NEW p \in Seq(S), NEW q \in Seq(S)
  PROVE  Len(p) <= Len(p \o q) /\ \A i \in 1..Len(p) : (p \o q)[i] = p[i]
OBVIOUS

\* The first of a sequence taken into an empty one, into another, and the second of
\* two put behind the first.
LEMMA TakeFirst ==
  ASSUME NEW S, NEW y \in Seq(S), y # <<>>
  PROVE  Head(y) \in S /\ Tail(y) \in Seq(S) /\ <<Head(y)>> \in Seq(S) /\ <<Head(y)>> \o Tail(y) = y
<1>1. /\ <<Head(y)>> \o Tail(y) \in Seq(S) /\ Len(<<Head(y)>> \o Tail(y)) = Len(y)
  OBVIOUS
<1>2. \A i \in 1..Len(y) : (<<Head(y)>> \o Tail(y))[i] = y[i]
  OBVIOUS
<1>3. QED BY <1>1, <1>2, SeqEqual

LEMMA AppendFirst ==
  ASSUME NEW S, NEW x \in Seq(S), NEW y \in Seq(S), y # <<>>
  PROVE  Append(x, Head(y)) \in Seq(S) /\ Append(x, Head(y)) \o Tail(y) = x \o y
<1> DEFINE e == Head(y)  t == Tail(y)  f == <<e>>
<1>1. e \in S /\ t \in Seq(S) /\ f \in Seq(S) /\ f \o t = y
  BY TakeFirst
<1>2. Append(x, e) = x \o f
  BY <1>1
<1>3. f \in Seq(S) /\ t \in Seq(S)
  BY <1>1
<1> HIDE DEF e, t, f
<1>4. x \o f \o t = x \o (f \o t)
  BY <1>3, Assoc
<1>5. Append(x, e) \in Seq(S)
  BY <1>1
<1>6. Append(x, e) \o t = x \o y
  BY <1>1, <1>2, <1>4
<1>7. QED BY <1>5, <1>6 DEF e, t

LEMMA PutBehind ==
  ASSUME NEW S, NEW x \in Seq(S), NEW y \in Seq(S)
  PROVE  x \o y \in Seq(S) /\ (x \o y) \o <<>> = x \o y /\ <<>> \in Seq(S) /\ <<>> \o y = y
OBVIOUS

\* The way of a chunk through its eight places.
Way(s1, s2, s3, s4, s5, s6, s7, s8) == s1 \o s2 \o s3 \o s4 \o s5 \o s6 \o s7 \o s8

AllSeq(S, s1, s2, s3, s4, s5, s6, s7, s8) ==
  /\ s1 \in Seq(S) /\ s2 \in Seq(S) /\ s3 \in Seq(S) /\ s4 \in Seq(S)
  /\ s5 \in Seq(S) /\ s6 \in Seq(S) /\ s7 \in Seq(S) /\ s8 \in Seq(S)

\* The beginnings of the way are sequences too.
LEMMA Beginnings ==
  ASSUME NEW S, NEW s1, NEW s2, NEW s3, NEW s4, NEW s5, NEW s6, NEW s7, NEW s8,
         AllSeq(S, s1, s2, s3, s4, s5, s6, s7, s8)
  PROVE  /\ s1 \o s2 \in Seq(S) /\ s1 \o s2 \o s3 \in Seq(S)
         /\ s1 \o s2 \o s3 \o s4 \in Seq(S) /\ s1 \o s2 \o s3 \o s4 \o s5 \in Seq(S)
         /\ s1 \o s2 \o s3 \o s4 \o s5 \o s6 \in Seq(S)
<1> DEFINE p2 == s1 \o s2  p3 == p2 \o s3  p4 == p3 \o s4  p5 == p4 \o s5  p6 == p5 \o s6
<1>1. p2 \in Seq(S)
  BY Assoc DEF AllSeq
<1> HIDE DEF p2
<1>2. p3 \in Seq(S)
  BY <1>1, Assoc DEF AllSeq
<1> HIDE DEF p3
<1>3. p4 \in Seq(S)
  BY <1>2, Assoc DEF AllSeq
<1> HIDE DEF p4
<1>4. p5 \in Seq(S)
  BY <1>3, Assoc DEF AllSeq
<1> HIDE DEF p5
<1>5. p6 \in Seq(S)
  BY <1>4, Assoc DEF AllSeq
<1> HIDE DEF p6
<1>6. QED
  BY <1>1, <1>2, <1>3, <1>4, <1>5 DEF p2, p3, p4, p5, p6

\* Two neighbouring places whose contents together are what they were.
Swap(S, a, b, x, y) == x \in Seq(S) /\ y \in Seq(S) /\ x \o y = a \o b

Behind(S, p, a, b, x, y) ==
  p \in Seq(S) /\ a \in Seq(S) /\ b \in Seq(S) /\ Swap(S, a, b, x, y)

LEMMA SwapBehind ==
  ASSUME NEW S, NEW p, NEW a, NEW b, NEW x, NEW y, Behind(S, p, a, b, x, y)
  PROVE  p \o x \o y = p \o a \o b
<1>1. p \in Seq(S) /\ x \in Seq(S) /\ y \in Seq(S) => p \o x \o y = p \o (x \o y)
  BY Assoc
<1>2. p \in Seq(S) /\ a \in Seq(S) /\ b \in Seq(S) => p \o a \o b = p \o (a \o b)
  BY Assoc
<1>3. Swap(S, a, b, x, y) => x \in Seq(S) /\ y \in Seq(S) /\ x \o y = a \o b
  BY DEF Swap
<1>4. QED
  BY <1>1, <1>2, <1>3, Zenon DEF Behind

\* A step from one place to the one before it leaves the whole as it is.
LEMMA Move1 ==
  ASSUME NEW S, NEW s1, NEW s2, NEW s3, NEW s4, NEW s5, NEW s6, NEW s7, NEW s8, NEW x, NEW y,
         AllSeq(S, s1, s2, s3, s4, s5, s6, s7, s8), Swap(S, s1, s2, x, y)
  PROVE  Way(x, y, s3, s4, s5, s6, s7, s8) = Way(s1, s2, s3, s4, s5, s6, s7, s8)
BY DEF Swap, Way

LEMMA Move2 ==
  ASSUME NEW S, NEW s1, NEW s2, NEW s3, NEW s4, NEW s5, NEW s6, NEW s7, NEW s8, NEW x, NEW y,
         AllSeq(S, s1, s2, s3, s4, s5, s6, s7, s8), Swap(S, s2, s3, x, y)
  PROVE  Way(s1, x, y, s4, s5, s6, s7, s8) = Way(s1, s2, s3, s4, s5, s6, s7, s8)
<1> DEFINE p == s1
<1>1. Behind(S, p, s2, s3, x, y)
  BY Beginnings DEF AllSeq, Behind
<1> HIDE DEF p
<1>2. p \o x \o y = p \o s2 \o s3
  BY <1>1, SwapBehind
<1>3. QED
  BY <1>2 DEF Way, p

LEMMA Move3 ==
  ASSUME NEW S, NEW s1, NEW s2, NEW s3, NEW s4, NEW s5, NEW s6, NEW s7, NEW s8, NEW x, NEW y,
         AllSeq(S, s1, s2, s3, s4, s5, s6, s7, s8), Swap(S, s3, s4, x, y)
  PROVE  Way(s1, s2, x, y, s5, s6, s7, s8) = Way(s1, s2, s3, s4, s5, s6, s7, s8)
<1> DEFINE p == s1 \o s2
<1>1. Behind(S, p, s3, s4, x, y)
  BY Beginnings DEF AllSeq, Behind
<1> HIDE DEF p
<1>2. p \o x \o y = p \o s3 \o s4
  BY <1>1, SwapBehind
<1>3. QED
  BY <1>2 DEF Way, p

LEMMA Move4 ==
  ASSUME NEW S, NEW s1, NEW s2, NEW s3, NEW s4, NEW s5, NEW s6, NEW s7, NEW s8, NEW x, NEW y,
         AllSeq(S, s1, s2, s3, s4, s5, s6, s7, s8), Swap(S, s4, s5, x, y)
  PROVE  Way(s1, s2, s3, x, y, s6, s7, s8) = Way(s1, s2, s3, s4, s5, s6, s7, s8)
<1> DEFINE p == s1 \o s2 \o s3
<1>1. Behind(S, p, s4, s5, x, y)
  BY Beginnings DEF AllSeq, Behind
<1> HIDE DEF p
<1>2. p \o x \o y = p \o s4 \o s5
  BY <1>1, SwapBehind
<1>3. QED
  BY <1>2 DEF Way, p

LEMMA Move5 ==
  ASSUME NEW S, NEW s1, NEW s2, NEW s3, NEW s4, NEW s5, NEW s6, NEW s7, NEW s8, NEW x, NEW y,
         AllSeq(S, s1, s2, s3, s4, s5, s6, s7, s8), Swap(S, s5, s6, x, y)
  PROVE  Way(s1, s2, s3, s4, x, y, s7, s8) = Way(s1, s2, s3, s4, s5, s6, s7, s8)
<1> DEFINE p == s1 \o s2 \o s3 \o s4
<1>1. Behind(S, p, s5, s6, x, y)
  BY Beginnings DEF AllSeq, Behind
<1> HIDE DEF p
<1>2. p \o x \o y = p \o s5 \o s6
  BY <1>1, SwapBehind
<1>3. QED
  BY <1>2 DEF Way, p

LEMMA Move6 ==
  ASSUME NEW S, NEW s1, NEW s2, NEW s3, NEW s4, NEW s5, NEW s6, NEW s7, NEW s8, NEW x, NEW y,
         AllSeq(S, s1, s2, s3, s4, s5, s6, s7, s8), Swap(S, s6, s7, x, y)
  PROVE  Way(s1, s2, s3, s4, s5, x, y, s8) = Way(s1, s2, s3, s4, s5, s6, s7, s8)
<1> DEFINE p == s1 \o s2 \o s3 \o s4 \o s5
<1>1. Behind(S, p, s6, s7, x, y)
  BY Beginnings DEF AllSeq, Behind
<1> HIDE DEF p
<1>2. p \o x \o y = p \o s6 \o s7
  BY <1>1, SwapBehind
<1>3. QED
  BY <1>2 DEF Way, p

LEMMA Move7 ==
  ASSUME NEW S, NEW s1, NEW s2, NEW s3, NEW s4, NEW s5, NEW s6, NEW s7, NEW s8, NEW x, NEW y,
         AllSeq(S, s1, s2, s3, s4, s5, s6, s7, s8), Swap(S, s7, s8, x, y)
  PROVE  Way(s1, s2, s3, s4, s5, s6, x, y) = Way(s1, s2, s3, s4, s5, s6, s7, s8)
<1> DEFINE p == s1 \o s2 \o s3 \o s4 \o s5 \o s6
<1>1. Behind(S, p, s7, s8, x, y)
  BY Beginnings DEF AllSeq, Behind
<1> HIDE DEF p
<1>2. p \o x \o y = p \o s7 \o s8
  BY <1>1, SwapBehind
<1>3. QED
  BY <1>2 DEF Way, p

-----------------------------------------------------------------------------
\* Moving a chunk between a buffer and a process keeps both well typed.
LEMMA TakeType ==
  ASSUME TypeOK, NEW p \in Copies \cup {"child"}, NEW b \in Buffers, Take(p, b)
  PROVE  /\ buffer' \in [Buffers -> Seq(Chunks)]
         /\ holds' \in [Copies \cup {"child"} -> Seq(Chunks)]
<1>1. Head(buffer[b]) \in Chunks /\ Tail(buffer[b]) \in Seq(Chunks)
  BY DEF TypeOK, Take
<1>2. <<Head(buffer[b])>> \in Seq(Chunks)
  BY <1>1
<1>3. QED
  BY <1>1, <1>2 DEF TypeOK, Take

\* Writing it to a buffer does too.
LEMMA PutType ==
  ASSUME TypeOK, NEW p \in Copies \cup {"child"}, NEW b \in Buffers, Put(p, b)
  PROVE  /\ buffer' \in [Buffers -> Seq(Chunks)]
         /\ holds' \in [Copies \cup {"child"} -> Seq(Chunks)]
<1>1. buffer[b] \o holds[p] \in Seq(Chunks) /\ <<>> \in Seq(Chunks)
  BY DEF TypeOK
<1>2. QED
  BY <1>1 DEF TypeOK, Put

\* Every state is well typed (internal/schemes/tcp/tcp.go).
THEOREM SessionTypeCorrect == Spec => []TypeOK
<1>1. Init => TypeOK
  <2> SUFFICES ASSUME Init
               PROVE  TypeOK
    OBVIOUS
  <2>1. <<>> \in Seq(Chunks) /\ 0 \in 0..MaxChunks /\ kind \in {"tcp", "http", "dns", "ssh"}
    BY SessionAssumption DEF SessionAssumption, Init
  <2>2. kind = "dns" => 1 \in 0..MaxChunks /\ <<1>> \in Seq(Chunks)
    BY SessionAssumption DEF SessionAssumption, Init, Chunks, Newline
  <2>3. QED
    BY <2>1, <2>2 DEF Init, TypeOK, Processes, Copies
<1>2. TypeOK /\ [Next]_vars => TypeOK'
  <2> SUFFICES ASSUME TypeOK, [Next]_vars
               PROVE  TypeOK'
    OBVIOUS
  <2>1. CASE ClientSends
    <3>1. sent + 1 \in Chunks /\ sent + 1 \in 0..MaxChunks
      BY <2>1, SessionAssumption DEF ClientSends, TypeOK, Chunks, Newline, SessionAssumption
    <3>2. Append(buffer["inbound"], sent + 1) \in Seq(Chunks)
      BY <3>1 DEF TypeOK, Buffers
    <3>3. QED
      BY <2>1, <3>1, <3>2 DEF ClientSends, TypeOK, Buffers
  <2>2. CASE ClientReads
    <3>1. buffer["outbound"] \in Seq(Chunks) /\ buffer["outbound"] # <<>>
      BY <2>2 DEF ClientReads, TypeOK, Buffers
    <3>2. /\ Head(buffer["outbound"]) \in Chunks
          /\ Tail(buffer["outbound"]) \in Seq(Chunks)
      BY <3>1
    <3>3. Append(received, Head(buffer["outbound"])) \in Seq(Chunks)
      BY <3>2 DEF TypeOK
    <3>4. buffer' \in [Buffers -> Seq(Chunks)]
      BY <2>2, <3>2 DEF ClientReads, TypeOK, Buffers
    <3>5. QED
      BY <2>2, <3>3, <3>4 DEF ClientReads, TypeOK
  <2>3. CASE ClientHalfCloses \/ ClientLeaves \/ ChildExits \/ ChildDies \/ CloseWriterAndRead
    BY <2>3 DEF ClientHalfCloses, ClientLeaves, ChildExits, ChildDies, CloseWriterAndRead, TypeOK
  <2>4. CASE ChildReads \/ RecvRead
    <3>1. /\ buffer' \in [Buffers -> Seq(Chunks)]
          /\ holds' \in [Copies \cup {"child"} -> Seq(Chunks)]
      BY <2>4, TakeType DEF ChildReads, RecvRead, Copies, Buffers
    <3>2. QED
      BY <2>4, <3>1 DEF ChildReads, RecvRead, TypeOK
  <2>5. CASE ChildWrites \/ RecvWrite \/ SendWrite
    <3>1. /\ buffer' \in [Buffers -> Seq(Chunks)]
          /\ holds' \in [Copies \cup {"child"} -> Seq(Chunks)]
      BY <2>5, PutType DEF ChildWrites, RecvWrite, SendWrite, Copies, Buffers
    <3>2. QED
      BY <2>5, <3>1 DEF ChildWrites, RecvWrite, SendWrite, TypeOK
  <2>6. CASE SendRead
    <3>1. /\ buffer' \in [Buffers -> Seq(Chunks)]
          /\ holds' \in [Copies \cup {"child"} -> Seq(Chunks)]
      <4>1. CASE Take("send", "stdout")
        BY <4>1, TakeType DEF Copies, Buffers
      <4>2. CASE kind = "dns" /\ ~Take("send", "stdout")
        <5>1. /\ buffer["stdout"] \in Seq(Chunks) /\ buffer["stdout"] # <<>>
              /\ holds["send"] \in Seq(Chunks)
          BY <2>6, <4>2 DEF SendRead, TypeOK, Buffers, Copies
        <5>2. /\ Append(holds["send"], Head(buffer["stdout"])) \in Seq(Chunks)
              /\ Tail(buffer["stdout"]) \in Seq(Chunks)
          BY <5>1
        <5>3. QED
          BY <2>6, <4>2, <5>2 DEF SendRead, TypeOK
      <4>3. QED
        BY <2>6, <4>1, <4>2 DEF SendRead
    <3>2. QED
      BY <2>6, <3>1 DEF SendRead, TypeOK
  <2>7. CASE BodyEnds \/ BodyFails
    <3>1. <<Newline>> \in Seq(Chunks)
      BY SessionAssumption DEF Newline, Chunks, SessionAssumption
    <3>2. QED
      BY <2>7, <3>1 DEF BodyEnds, BodyFails, TypeOK, Processes, Copies
  <2>8. CASE LastWrite
    <3>1. /\ buffer' \in [Buffers -> Seq(Chunks)]
          /\ holds' \in [Copies \cup {"child"} -> Seq(Chunks)]
      BY <2>8, PutType DEF LastWrite, TypeOK, Copies, Buffers
    <3>2. QED
      BY <2>8, <3>1 DEF LastWrite, TypeOK
  <2>9. CASE ReplyRead
    BY <2>9 DEF ReplyRead, TypeOK
  <2>10. ASSUME NEW p \in Processes, BeginClose(p) \/ CopyReturns(p)
         PROVE  TypeOK'
    BY <2>10 DEF BeginClose, CopyReturns, TypeOK, Resources
  <2>11. ASSUME NEW p \in Processes, CloseNext(p)
         PROVE  TypeOK'
    <3>1. AfterClosing[at[p]] \in Resources \cup {"done"}
      BY <2>11 DEF CloseNext, AfterClosing, Resources
    <3>2. <<>> \in Seq(Chunks) /\ holds["send"] \in Seq(Chunks)
      BY DEF TypeOK, Copies
    <3>3. buffer' \in [Buffers -> Seq(Chunks)]
      BY <2>11, <3>2 DEF CloseNext, Answers, TypeOK
    <3>4. QED
      BY <2>11, <3>1, <3>3 DEF CloseNext, TypeOK
  <2>12. CASE UNCHANGED vars
    BY <2>12 DEF vars, TypeOK
  <2>13. QED
    BY <2>1, <2>2, <2>3, <2>4, <2>5, <2>6, <2>7, <2>8, <2>9, <2>10, <2>11, <2>12
       DEF Next, Child, Recv, Send, End
<1>3. QED
  BY <1>1, <1>2, PTL DEF Spec

-----------------------------------------------------------------------------
(* Who has closed what, and why. *)

\* What a copy does on its own: it goes on to its last Write or its Close, or it
\* returns.
LEMMA TurnKeepsCloseInv ==
  ASSUME TypeOK, CloseInv,
         BodyEnds \/ BodyFails \/ LastWrite \/ ReplyRead \/ \E p \in Copies : CopyReturns(p)
  PROVE  CloseInv'
<1>1. /\ UNCHANGED <<kind, client, open, child>>
      /\ at'["handler"] = at["handler"] /\ DOMAIN at' = Processes
  BY DEF TypeOK, BodyEnds, BodyFails, LastWrite, ReplyRead, CopyReturns, Copies, Processes
<1>2. \A p \in Copies : at'[p] # at[p] =>
        /\ at'[p] \in {"finish", "close", "done", "failed"}
        /\ Returned(p) => at'[p] = "done"
        /\ kind # "tcp" /\ (at'[p] = "failed" => kind = "http" /\ p = "recv")
        /\ at'[p] \in {"finish", "close"} => kind \in {"http", "dns"}
        /\ client # "open" \/ child # "running"
  <2>1. CASE BodyEnds
    BY <2>1 DEF BodyEnds, TypeOK, Copies, Processes, Returned
  <2>2. CASE BodyFails
    <3>1. client # "open" \/ child # "running" \/ open # Resources
      BY <2>2 DEF BodyFails, WriteFails, Resources
    <3>2. client # "open" \/ child # "running"
      BY <3>1 DEF CloseInv, ClosesForAReason
    <3>3. kind = "http" /\ at["recv"] = "copy" /\ at'["recv"] = "failed" /\ at'["send"] = "done"
      BY <2>2 DEF BodyFails, TypeOK, Copies, Processes
    <3>4. QED
      BY <3>2, <3>3 DEF Copies, Returned
  <2>3. CASE LastWrite
    BY <2>3 DEF LastWrite, TypeOK, Copies, Processes, CloseInv, Begun, Returned
  <2>4. CASE ReplyRead
    BY <2>4 DEF ReplyRead, TypeOK, Copies, Processes, CloseInv, Returned
  <2>5. ASSUME NEW p \in Copies, CopyReturns(p)
        PROVE  \A q \in Copies : at'[q] # at[q] =>
                 /\ at'[q] = "done" /\ at[q] = "copy" /\ kind # "tcp"
                 /\ client # "open" \/ child # "running"
    <3>1. client # "open" \/ child # "running" \/ open # Resources
      BY <2>5 DEF CopyReturns, ReadEnds, WriteFails, Resources
    <3>2. QED
      BY <2>5, <3>1 DEF CopyReturns, TypeOK, Copies, Processes, CloseInv, ClosesForAReason
  <2>6. QED
    BY <2>1, <2>2, <2>3, <2>4, <2>5 DEF Returned
<1>3. \A p \in Processes : p \in Copies \/ p = "handler"
  BY DEF Processes
<1>4. /\ Copies \subseteq Processes /\ "handler" \notin Copies
      /\ Awaited \subseteq Copies /\ Awaited' = Awaited
  BY <1>1 DEF Processes, Copies, Awaited
<1>5. \A p \in Processes : at'[p] # at[p] => p \in Copies
  BY <1>1, <1>3
<1>6. \A p \in Copies : Returned(p) => Returned(p)'
  BY <1>2 DEF Returned
<1>7. \A p \in Processes :
        /\ at'[p] = "Writer" => "Reader" \notin open'
        /\ at'[p] = "conn" => kind' = "ssh" \/ open' \subseteq {"conn"}
        /\ Begun(p)' => client' # "open" \/ child' # "running"
  BY <1>1, <1>2, <1>5 DEF CloseInv, Begun
<1>8. \A p \in Copies :
        /\ at'[p] # "wait"
        /\ at'[p] \in Resources => kind' = "tcp"
        /\ at'[p] = "done" /\ kind' = "tcp" => open' = {}
        /\ at'[p] = "failed" => kind' = "http" /\ p = "recv"
        /\ at'[p] \in {"finish", "close", "later"} => kind' \in {"http", "dns"}
  BY <1>1, <1>2 DEF CloseInv, Resources
<1>9. QED
  BY <1>1, <1>4, <1>6, <1>7, <1>8 DEF CloseInv, ClosesForAReason

\* The Writer is closed after the request.
LEMMA WriterKeepsCloseInv ==
  ASSUME TypeOK, CloseInv, CloseWriterAndRead
  PROVE  CloseInv'
<1>1. /\ UNCHANGED <<kind, client, child>> /\ open' = open \ {"Writer"}
      /\ at["recv"] = "close" /\ at'["recv"] = "done" /\ at'["send"] = "copy"
      /\ at'["handler"] = at["handler"]
  BY DEF CloseWriterAndRead, TypeOK, Processes, Copies
<1>2. /\ client # "open" \/ child # "running"
      /\ kind \in {"http", "dns"} /\ at["handler"] = "wait"
  BY <1>1 DEF CloseInv, Begun, Processes, Copies, Awaited, Returned
<1>3. QED
  BY <1>1, <1>2 DEF CloseInv, Begun, ClosesForAReason, Processes, Copies, Resources

\* A copy of tcp ends, or the handler sees what it waits for end.
LEMMA BeginKeepsCloseInv ==
  ASSUME TypeOK, CloseInv, NEW p \in Processes, BeginClose(p)
  PROVE  CloseInv'
<1>1. client # "open" \/ child # "running"
  <2>1. CASE kind = "tcp" /\ at[p] = "copy" /\ (ReadEnds(p) \/ WriteFails(p))
    <3>1. open # Resources \/ client # "open" \/ child # "running"
      BY <2>1 DEF ReadEnds, WriteFails, Resources
    <3>2. QED
      BY <3>1 DEF CloseInv, ClosesForAReason
  <2>2. CASE at[p] = "wait" /\ \A q \in Awaited : Returned(q)
    <3>1. "send" \in Awaited /\ "send" \in Processes
      BY DEF Awaited, Copies, Processes
    <3>2. QED
      BY <2>2, <3>1 DEF CloseInv, Begun, Returned
  <2>3. QED
    BY <2>1, <2>2 DEF BeginClose
<1>2. /\ UNCHANGED <<kind, client, open, child>>
      /\ at'[p] = (IF kind = "ssh" THEN "conn" ELSE "Reader")
      /\ \A q \in Processes : q # p => at'[q] = at[q]
  BY DEF BeginClose, TypeOK
<1>3. Copies \subseteq Processes /\ "handler" \notin Copies /\ "handler" \in Processes
      /\ Awaited \subseteq Copies /\ Awaited' = Awaited
  BY <1>2 DEF Copies, Processes, Awaited
<1>4. p \in Copies => kind = "tcp" /\ at[p] = "copy" /\ at["handler"] = "wait"
  BY <1>3 DEF BeginClose, CloseInv, Awaited, Returned
<1>5. p = "handler" => \A q \in Awaited : Returned(q)
  BY DEF BeginClose, CloseInv
<1>6. at'["handler"] # "wait" => \A q \in Awaited : Returned(q)'
  <2>1. CASE p = "handler"
    BY <1>2, <1>3, <1>5, <2>1 DEF Returned
  <2>2. CASE p \in Copies
    BY <1>2, <1>3, <1>4, <2>2
  <2>3. QED
    BY <2>1, <2>2 DEF Processes
<1>7. \A q \in Processes :
        /\ at'[q] = "Writer" => "Reader" \notin open'
        /\ at'[q] = "conn" => kind' = "ssh" \/ open' \subseteq {"conn"}
        /\ Begun(q)' => client' # "open" \/ child' # "running"
  BY <1>1, <1>2 DEF CloseInv, Begun
<1>8. \A q \in Copies :
        /\ at'[q] # "wait"
        /\ at'[q] \in Resources => kind' = "tcp"
        /\ at'[q] = "done" /\ kind' = "tcp" => open' = {}
        /\ at'[q] = "failed" => kind' = "http" /\ q = "recv"
        /\ at'[q] \in {"finish", "close", "later"} => kind' \in {"http", "dns"}
  BY <1>2, <1>3, <1>4 DEF CloseInv, Resources
<1>9. /\ at'["handler"] \in {"wait", "done"} \cup Resources
      /\ at'["handler"] = "done" <=> at["handler"] = "done"
  BY <1>2, <1>3 DEF BeginClose, CloseInv, Resources
<1>10. QED
  BY <1>1, <1>2, <1>3, <1>6, <1>7, <1>8, <1>9 DEF CloseInv, ClosesForAReason

\* A deferred Close is called.
LEMMA CloseKeepsCloseInv ==
  ASSUME TypeOK, CloseInv, NEW p \in Processes, CloseNext(p)
  PROVE  CloseInv'
<1>1. client # "open" \/ child # "running"
  BY DEF CloseNext, CloseInv, Begun
<1>2. /\ UNCHANGED <<kind, client, child>>
      /\ at[p] \in Resources /\ open' = open \ {at[p]} /\ open \subseteq Resources
      /\ at[p] = "Reader" => at'[p] = "Writer"
      /\ at[p] = "Writer" => at'[p] = "conn"
      /\ at[p] = "conn" => at'[p] = "done"
      /\ \A q \in Processes : q # p => at'[q] = at[q]
  BY DEF CloseNext, TypeOK, AfterClosing, Resources
<1>3. Copies \subseteq Processes /\ "handler" \notin Copies /\ "handler" \in Processes
      /\ Awaited \subseteq Copies /\ Awaited' = Awaited
  BY <1>2 DEF Copies, Processes, Awaited
<1>4. \A q \in Processes :
        /\ at'[q] = "Writer" => "Reader" \notin open'
        /\ at'[q] = "conn" => kind' = "ssh" \/ open' \subseteq {"conn"}
        /\ Begun(q)' => client' # "open" \/ child' # "running"
  BY <1>1, <1>2 DEF CloseInv, Resources
<1>5. p \in Copies => kind = "tcp" /\ (at'[p] = "done" => open' = {})
  BY <1>2, <1>3 DEF CloseInv, Resources
<1>6. \A q \in Copies :
        /\ at'[q] # "wait"
        /\ at'[q] \in Resources => kind' = "tcp"
        /\ at'[q] = "done" /\ kind' = "tcp" => open' = {}
        /\ at'[q] = "failed" => kind' = "http" /\ q = "recv"
        /\ at'[q] \in {"finish", "close", "later"} => kind' \in {"http", "dns"}
  BY <1>2, <1>3, <1>5 DEF CloseInv, Resources
<1>7. /\ at'["handler"] \in {"wait", "done"} \cup Resources
      /\ at'["handler"] = "done" => "conn" \notin open' /\ (kind' # "ssh" => open' = {})
  BY <1>2, <1>3 DEF CloseInv, Resources
<1>8. at'["handler"] # "wait" => \A q \in Awaited : Returned(q)'
  <2>1. at["handler"] # "wait" => \A q \in Awaited : Returned(q)
    BY DEF CloseInv
  <2>2. p \in Awaited => ~Returned(p)
    BY <1>2 DEF Returned, Resources
  <2>3. p \in Copies => at'["handler"] = at["handler"]
    BY <1>2, <1>3
  <2>4. p = "handler" => at["handler"] # "wait"
    BY <1>2 DEF Resources
  <2>5. QED
    BY <1>2, <1>3, <2>1, <2>2, <2>3, <2>4 DEF Returned, Processes
<1>9. kind = "dns" /\ at'["handler"] # "done" => "conn" \in open'
  <2>1. kind = "dns" => p = "handler"
    BY <1>5, <1>3 DEF Processes
  <2>2. QED
    BY <1>2, <1>3, <2>1 DEF CloseInv, Resources
<1>10. QED
  BY <1>1, <1>2, <1>3, <1>4, <1>6, <1>7, <1>8, <1>9 DEF CloseInv, ClosesForAReason

LEMMA CloseInvStep ==
  ASSUME TypeOK, CloseInv, [Next]_vars
  PROVE  CloseInv'
<1>1. CASE \/ ClientSends \/ ClientReads \/ ClientHalfCloses \/ ClientLeaves
           \/ Child \/ RecvRead \/ RecvWrite \/ SendRead \/ SendWrite \/ UNCHANGED vars
  <2>1. /\ open' = open /\ at' = at /\ kind' = kind
        /\ client # "open" => client' # "open"
        /\ child # "running" => child' # "running"
    BY <1>1 DEF ClientSends, ClientReads, ClientHalfCloses, ClientLeaves, Child, ChildReads,
       ChildWrites, ChildExits, ChildDies, RecvRead, RecvWrite, SendRead, SendWrite, vars
  <2>2. QED
    BY <2>1 DEF CloseInv, Begun, ClosesForAReason, Awaited, Returned
<1>2. QED
  BY <1>1, TurnKeepsCloseInv, WriterKeepsCloseInv, BeginKeepsCloseInv, CloseKeepsCloseInv
     DEF Next, Recv, Send, End

LEMMA CloseInvInit ==
  ASSUME Init
  PROVE  CloseInv
<1>1. kind \in {"tcp", "http", "dns", "ssh"}
  BY SessionAssumption DEF Init, SessionAssumption
<1>2. QED
  BY <1>1 DEF Init, CloseInv, Begun, ClosesForAReason, Processes, Copies, Resources

\* Everything is closed when a handler returns, and nothing while the client is there
\* and the child runs (tcp.go:38-50 and 95-118, http/listen.go:110-145).
THEOREM SessionClosesSafely == Spec => [](ReturnsClosed /\ ClosesForAReason)
<1>1. CloseInv => ReturnsClosed /\ ClosesForAReason
  BY DEF CloseInv, ReturnsClosed, Resources
<1>2. QED
  BY <1>1, CloseInvInit, CloseInvStep, SessionTypeCorrect, PTL DEF Spec

\* While the client is there and the child runs, nothing is closed (tcp.go:95-118).
THEOREM SessionHasReason == Spec => []ClosesForAReason
BY SessionClosesSafely, PTL

-----------------------------------------------------------------------------
(* What is empty when, on the way of a request. *)

\* A close, or the beginning of one, comes when the handler's part is over.
LEMMA EndIsLate ==
  ASSUME TypeOK, CloseInv, NEW p \in Processes, BeginClose(p) \/ CloseNext(p)
  PROVE  /\ p \in Copies => kind = "tcp"
         /\ kind \in {"http", "dns"} => p = "handler" /\ \A q \in Copies : Returned(q)
         /\ p = "handler" => at'["recv"] = at["recv"] /\ at'["send"] = at["send"]
<1>1. p \in Copies => kind = "tcp"
  BY DEF BeginClose, CloseNext, CloseInv
<1>2. p \in Copies \/ p = "handler"
  BY DEF Processes
<1>3. p = "handler" => \A q \in Awaited : Returned(q)
  BY DEF BeginClose, CloseNext, CloseInv, Resources
<1>4. p = "handler" => at'["recv"] = at["recv"] /\ at'["send"] = at["send"]
  BY DEF BeginClose, CloseNext, TypeOK, Processes, Copies
<1>5. QED
  BY <1>1, <1>2, <1>3, <1>4 DEF Awaited

LEMMA RequestInvStep ==
  ASSUME TypeOK, CloseInv, RequestInv, [Next]_vars
  PROVE  RequestInv'
<1>1. CASE ClientSends
  BY <1>1 DEF ClientSends, RequestInv, Ending, TypeOK, Buffers, Resources
<1>2. CASE ClientReads
  BY <1>2 DEF ClientReads, RequestInv, Ending, TypeOK, Buffers
<1>3. CASE ClientHalfCloses \/ ClientLeaves \/ ChildExits \/ ChildDies
  BY <1>3 DEF ClientHalfCloses, ClientLeaves, ChildExits, ChildDies, RequestInv, Ending
<1>4. CASE ChildReads
  BY <1>4 DEF ChildReads, Take, RequestInv, Ending, TypeOK, Buffers, Copies
<1>5. CASE ChildWrites
  BY <1>5 DEF ChildWrites, Put, RequestInv, Ending, TypeOK, Buffers, Copies
<1>6. CASE RecvRead
  BY <1>6 DEF RecvRead, Take, RequestInv, Ending, TypeOK, Buffers, Copies
<1>7. CASE RecvWrite
  BY <1>7 DEF RecvWrite, Put, RequestInv, Ending, TypeOK, Buffers, Copies
<1>8. CASE BodyEnds
  BY <1>8 DEF BodyEnds, RequestInv, Ending, TypeOK, Processes, Copies
<1>9. CASE BodyFails
  BY <1>9 DEF BodyFails, WriteFails, RequestInv, Ending, TypeOK, Processes, Copies, Resources
<1>10. CASE LastWrite
  BY <1>10 DEF LastWrite, Put, RequestInv, Ending, TypeOK, Processes, Copies, Buffers, Resources
<1>11. CASE CloseWriterAndRead
  BY <1>11 DEF CloseWriterAndRead, RequestInv, Ending, TypeOK, Processes, Copies, Resources
<1>12. CASE SendRead
  BY <1>12 DEF SendRead, Take, RequestInv, Ending, TypeOK, Buffers, Copies
<1>13. CASE SendWrite
  BY <1>13 DEF SendWrite, Put, RequestInv, Ending, TypeOK, Buffers, Copies
<1>14. CASE ReplyRead
  BY <1>14 DEF ReplyRead, RequestInv, Ending, TypeOK, Processes, Copies
<1>15. ASSUME NEW p \in Copies, CopyReturns(p)
       PROVE  RequestInv'
  BY <1>15 DEF CopyReturns, ReadEnds, WriteFails, RequestInv, Ending, TypeOK, Processes, Copies
<1>16. ASSUME NEW p \in Processes, BeginClose(p)
       PROVE  RequestInv'
  BY <1>16, EndIsLate DEF BeginClose, RequestInv, CloseInv, TypeOK, Ending, Returned, Copies
<1>17. ASSUME NEW p \in Processes, CloseNext(p)
       PROVE  RequestInv'
  <2>1. /\ UNCHANGED <<kind, client, holds, child>> /\ open' \subseteq open
        /\ buffer'["stdin"] = buffer["stdin"] /\ buffer'["stdout"] = buffer["stdout"]
        /\ buffer'["inbound"] = buffer["inbound"]
    BY <1>17 DEF CloseNext, Answers, TypeOK, Buffers
  <2>2. kind \in {"http", "dns"} =>
          /\ Returned("recv") /\ Returned("send")
          /\ at'["recv"] = at["recv"] /\ at'["send"] = at["send"]
    BY <1>17, EndIsLate DEF Copies
  <2>3. at'["recv"] \in {"finish", "close"} => kind \in {"http", "dns"}
    BY <1>17 DEF CloseNext, CloseInv, TypeOK, AfterClosing, Resources, Copies, Processes
  <2>4. QED
    BY <2>1, <2>2, <2>3 DEF RequestInv, Ending, Returned, TypeOK
<1>18. CASE UNCHANGED vars
  BY <1>18 DEF vars, RequestInv, Ending
<1>19. QED
  BY <1>1, <1>2, <1>3, <1>4, <1>5, <1>6, <1>7, <1>8, <1>9, <1>10, <1>11, <1>12, <1>13,
     <1>14, <1>15, <1>16, <1>17, <1>18 DEF Next, Child, Recv, Send, End

LEMMA RequestInvInit ==
  ASSUME Init
  PROVE  RequestInv
<1>1. kind \in {"tcp", "http", "dns", "ssh"}
  BY SessionAssumption DEF Init, SessionAssumption
<1>2. QED
  BY <1>1 DEF Init, RequestInv, Ending, Processes, Copies, Buffers, Resources

-----------------------------------------------------------------------------
(* The chunks on their way. *)

\* What is first on the way is a beginning of the whole.
LEMMA FirstOnTheWay ==
  ASSUME NEW S, NEW s1, NEW s2, NEW s3, NEW s4, NEW s5, NEW s6, NEW s7, NEW s8,
         AllSeq(S, s1, s2, s3, s4, s5, s6, s7, s8)
  PROVE  /\ s1 \o s2 \in Seq(S) /\ Way(s1, s2, s3, s4, s5, s6, s7, s8) \in Seq(S)
         /\ Len(s1 \o s2) <= Len(Way(s1, s2, s3, s4, s5, s6, s7, s8))
         /\ \A i \in 1..Len(s1 \o s2) :
              Way(s1, s2, s3, s4, s5, s6, s7, s8)[i] = (s1 \o s2)[i]
<1> DEFINE p2 == s1 \o s2  p3 == p2 \o s3  p4 == p3 \o s4  p5 == p4 \o s5
           p6 == p5 \o s6  p7 == p6 \o s7  p8 == p7 \o s8
<1>1. p2 \in Seq(S)
  BY Assoc DEF AllSeq
<1>2. Way(s1, s2, s3, s4, s5, s6, s7, s8) = p8
  BY DEF Way
<1> HIDE DEF p2
<1>3. p3 \in Seq(S) /\ Len(p2) <= Len(p3) /\ \A i \in 1..Len(p2) : p3[i] = p2[i]
  BY <1>1, Assoc, Continued DEF AllSeq
<1> HIDE DEF p3
<1>4. p4 \in Seq(S) /\ Len(p3) <= Len(p4) /\ \A i \in 1..Len(p3) : p4[i] = p3[i]
  BY <1>3, Assoc, Continued DEF AllSeq
<1> HIDE DEF p4
<1>5. p5 \in Seq(S) /\ Len(p4) <= Len(p5) /\ \A i \in 1..Len(p4) : p5[i] = p4[i]
  BY <1>4, Assoc, Continued DEF AllSeq
<1> HIDE DEF p5
<1>6. p6 \in Seq(S) /\ Len(p5) <= Len(p6) /\ \A i \in 1..Len(p5) : p6[i] = p5[i]
  BY <1>5, Assoc, Continued DEF AllSeq
<1> HIDE DEF p6
<1>7. p7 \in Seq(S) /\ Len(p6) <= Len(p7) /\ \A i \in 1..Len(p6) : p7[i] = p6[i]
  BY <1>6, Assoc, Continued DEF AllSeq
<1> HIDE DEF p7
<1>8. p8 \in Seq(S) /\ Len(p7) <= Len(p8) /\ \A i \in 1..Len(p7) : p8[i] = p7[i]
  BY <1>7, Assoc, Continued DEF AllSeq
<1> HIDE DEF p8
<1>9. /\ Len(p2) \in Nat /\ Len(p3) \in Nat /\ Len(p4) \in Nat /\ Len(p5) \in Nat
      /\ Len(p6) \in Nat /\ Len(p7) \in Nat /\ Len(p8) \in Nat
  BY <1>1, <1>3, <1>4, <1>5, <1>6, <1>7, <1>8
<1>10. Len(p2) <= Len(p8)
  BY <1>3, <1>4, <1>5, <1>6, <1>7, <1>8, <1>9
<1>11. ASSUME NEW i \in 1..Len(p2)
       PROVE  p8[i] = p2[i]
  <2>1. /\ i \in 1..Len(p3) /\ i \in 1..Len(p4) /\ i \in 1..Len(p5)
        /\ i \in 1..Len(p6) /\ i \in 1..Len(p7)
    BY <1>3, <1>4, <1>5, <1>6, <1>7, <1>9
  <2>2. QED
    BY <2>1, <1>3, <1>4, <1>5, <1>6, <1>7, <1>8
<1>12. QED
  BY <1>1, <1>2, <1>8, <1>10, <1>11 DEF p2

\* The eight places are sequences of chunks.
LEMMA PlacesType ==
  ASSUME TypeOK
  PROVE  AllSeq(Chunks, received, buffer["outbound"], holds["send"], buffer["stdout"],
                holds["child"], buffer["stdin"], holds["recv"], buffer["inbound"])
BY DEF TypeOK, AllSeq, Buffers, Copies

LEMMA PlacesTypeNext ==
  ASSUME TypeOK'
  PROVE  AllSeq(Chunks, received', buffer'["outbound"], holds'["send"], buffer'["stdout"],
                holds'["child"], buffer'["stdin"], holds'["recv"], buffer'["inbound"])
BY DEF TypeOK, AllSeq, Buffers, Copies

LEMMA FlightIsWay ==
  /\ InFlight = Way(received, buffer["outbound"], holds["send"], buffer["stdout"],
                    holds["child"], buffer["stdin"], holds["recv"], buffer["inbound"])
  /\ InFlight' = Way(received', buffer'["outbound"], holds'["send"], buffer'["stdout"],
                     holds'["child"], buffer'["stdin"], holds'["recv"], buffer'["inbound"])
BY DEF InFlight, Way

\* What the child is to be given, in both states.
LEMMA GivenType ==
  ASSUME TypeOK
  PROVE  /\ Given \in Seq(Nat) /\ Len(Given) = sent + (IF Ending THEN 1 ELSE 0)
         /\ \A i \in 1..sent : Given[i] = i
         /\ Ending => Given[sent + 1] = Newline
<1>1. sent \in Nat /\ Newline \in Nat
  BY DEF TypeOK, Newline
<1>2. /\ \A i \in 1..(sent + (IF Ending THEN 1 ELSE 0)) : Given[i] \in Nat
      /\ DOMAIN Given = 1..(sent + (IF Ending THEN 1 ELSE 0))
  BY <1>1 DEF Given
<1>3. \A i \in 1..sent : Given[i] = i
  BY <1>1 DEF Given
<1>4. Ending => Given[sent + 1] = Newline
  BY <1>1 DEF Given
<1>5. QED
  BY <1>1, <1>2, <1>3, <1>4 DEF Given

LEMMA GivenSame ==
  ASSUME sent' = sent, Ending' = Ending
  PROVE  Given' = Given
BY DEF Given

\* Unless some are lost, what is delivered is a beginning of what was given because
\* it is a beginning of what is on its way.
LEMMA FlowFromFlight ==
  ASSUME TypeOK', InFlight' = Given'
  PROVE  \A i \in 1..Len(Delivered') : i <= Len(Given') /\ Delivered'[i] = Given'[i]
<1>1. /\ Len(Delivered') <= Len(InFlight') /\ Len(Delivered') \in Nat /\ Len(InFlight') \in Nat
      /\ \A i \in 1..Len(Delivered') : InFlight'[i] = Delivered'[i]
  BY PlacesTypeNext, FirstOnTheWay, FlightIsWay DEF Delivered
<1>2. QED
  BY <1>1

\* A step that leaves the whole as it is.
LEMMA SameFlight ==
  ASSUME TypeOK', FlowInv, Given' = Given, InFlight' = InFlight, Broken => Broken',
         Broken' => Delivered' = Delivered,
         kind' = "dns" /\ "conn" \in open' => received' = <<>> /\ buffer'["outbound"] = <<>>
  PROVE  FlowInv'
<1>1. CASE Broken'
  BY <1>1 DEF FlowInv
<1>2. CASE ~Broken'
  <2>1. InFlight' = Given'
    BY <1>2 DEF FlowInv
  <2>2. QED
    BY <1>2, <2>1, FlowFromFlight DEF FlowInv
<1>3. QED
  BY <1>1, <1>2

\* Taking the first of a buffer, and putting what a process holds behind a buffer,
\* leaves the two together as they are.
LEMMA TakeTogether ==
  ASSUME TypeOK, NEW p \in Copies \cup {"child"}, NEW b \in Buffers, Take(p, b)
  PROVE  /\ holds'[p] \o buffer'[b] = holds[p] \o buffer[b]
         /\ \A q \in (Copies \cup {"child"}) \ {p} : holds'[q] = holds[q]
         /\ \A c \in Buffers \ {b} : buffer'[c] = buffer[c]
<1>1. buffer[b] \in Seq(Chunks) /\ buffer[b] # <<>> /\ holds[p] = <<>>
  BY DEF TypeOK, Take
<1>2. /\ holds'[p] = <<Head(buffer[b])>> /\ buffer'[b] = Tail(buffer[b])
      /\ \A q \in (Copies \cup {"child"}) \ {p} : holds'[q] = holds[q]
      /\ \A c \in Buffers \ {b} : buffer'[c] = buffer[c]
  BY DEF TypeOK, Take
<1>3. <<Head(buffer[b])>> \o Tail(buffer[b]) = buffer[b]
  BY <1>1, TakeFirst
<1>4. <<>> \o buffer[b] = buffer[b]
  BY <1>1
<1>5. QED
  BY <1>1, <1>2, <1>3, <1>4

LEMMA PutTogether ==
  ASSUME TypeOK, NEW p \in Copies \cup {"child"}, NEW b \in Buffers, Put(p, b)
  PROVE  /\ buffer'[b] \o holds'[p] = buffer[b] \o holds[p]
         /\ \A q \in (Copies \cup {"child"}) \ {p} : holds'[q] = holds[q]
         /\ \A c \in Buffers \ {b} : buffer'[c] = buffer[c]
<1>1. buffer[b] \in Seq(Chunks) /\ holds[p] \in Seq(Chunks)
  BY DEF TypeOK
<1>2. /\ holds'[p] = <<>> /\ buffer'[b] = buffer[b] \o holds[p]
      /\ \A q \in (Copies \cup {"child"}) \ {p} : holds'[q] = holds[q]
      /\ \A c \in Buffers \ {b} : buffer'[c] = buffer[c]
  BY DEF TypeOK, Put
<1>3. (buffer[b] \o holds[p]) \o <<>> = buffer[b] \o holds[p]
  BY <1>1, PutBehind
<1>4. QED
  BY <1>2, <1>3

\* A chunk that a process moves one place on leaves the whole as it is.
LEMMA MoveKeepsFlight ==
  ASSUME TypeOK, TypeOK', received' = received,
         NEW p \in Copies \cup {"child"}, NEW b \in Buffers,
         \A q \in (Copies \cup {"child"}) \ {p} : holds'[q] = holds[q],
         \A c \in Buffers \ {b} : buffer'[c] = buffer[c],
         \/ /\ <<p, b>> \in {<<"recv", "inbound">>, <<"child", "stdin">>, <<"send", "stdout">>}
            /\ holds'[p] \o buffer'[b] = holds[p] \o buffer[b]
         \/ /\ <<p, b>> \in {<<"recv", "stdin">>, <<"child", "stdout">>, <<"send", "outbound">>}
            /\ buffer'[b] \o holds'[p] = buffer[b] \o holds[p]
  PROVE  InFlight' = InFlight
<1>1. /\ AllSeq(Chunks, received, buffer["outbound"], holds["send"], buffer["stdout"],
                holds["child"], buffer["stdin"], holds["recv"], buffer["inbound"])
      /\ holds'[p] \in Seq(Chunks) /\ buffer'[b] \in Seq(Chunks)
  BY PlacesType DEF TypeOK
<1>2. CASE p = "recv" /\ b = "inbound"
  <2>1. /\ holds'["send"] = holds["send"] /\ holds'["child"] = holds["child"]
        /\ buffer'["outbound"] = buffer["outbound"] /\ buffer'["stdout"] = buffer["stdout"]
        /\ buffer'["stdin"] = buffer["stdin"]
    BY <1>2 DEF Copies, Buffers
  <2>2. Swap(Chunks, holds["recv"], buffer["inbound"],
             holds'["recv"], buffer'["inbound"])
    BY <1>1, <1>2 DEF Swap
  <2>3. Way(received, buffer["outbound"], holds["send"], buffer["stdout"],
             holds["child"], buffer["stdin"], holds'["recv"], buffer'["inbound"])
          = Way(received, buffer["outbound"], holds["send"], buffer["stdout"],
               holds["child"], buffer["stdin"], holds["recv"], buffer["inbound"])
    BY <1>1, <2>2, Move7
  <2>4. QED
    BY <2>1, <2>3, FlightIsWay
<1>3. CASE p = "child" /\ b = "stdin"
  <2>1. /\ holds'["send"] = holds["send"] /\ holds'["recv"] = holds["recv"]
        /\ buffer'["outbound"] = buffer["outbound"] /\ buffer'["stdout"] = buffer["stdout"]
        /\ buffer'["inbound"] = buffer["inbound"]
    BY <1>3 DEF Copies, Buffers
  <2>2. Swap(Chunks, holds["child"], buffer["stdin"],
             holds'["child"], buffer'["stdin"])
    BY <1>1, <1>3 DEF Swap
  <2>3. Way(received, buffer["outbound"], holds["send"], buffer["stdout"],
             holds'["child"], buffer'["stdin"], holds["recv"], buffer["inbound"])
          = Way(received, buffer["outbound"], holds["send"], buffer["stdout"],
               holds["child"], buffer["stdin"], holds["recv"], buffer["inbound"])
    BY <1>1, <2>2, Move5
  <2>4. QED
    BY <2>1, <2>3, FlightIsWay
<1>4. CASE p = "send" /\ b = "stdout"
  <2>1. /\ holds'["child"] = holds["child"] /\ holds'["recv"] = holds["recv"]
        /\ buffer'["outbound"] = buffer["outbound"] /\ buffer'["stdin"] = buffer["stdin"]
        /\ buffer'["inbound"] = buffer["inbound"]
    BY <1>4 DEF Copies, Buffers
  <2>2. Swap(Chunks, holds["send"], buffer["stdout"],
             holds'["send"], buffer'["stdout"])
    BY <1>1, <1>4 DEF Swap
  <2>3. Way(received, buffer["outbound"], holds'["send"], buffer'["stdout"],
             holds["child"], buffer["stdin"], holds["recv"], buffer["inbound"])
          = Way(received, buffer["outbound"], holds["send"], buffer["stdout"],
               holds["child"], buffer["stdin"], holds["recv"], buffer["inbound"])
    BY <1>1, <2>2, Move3
  <2>4. QED
    BY <2>1, <2>3, FlightIsWay
<1>5. CASE p = "recv" /\ b = "stdin"
  <2>1. /\ holds'["send"] = holds["send"] /\ holds'["child"] = holds["child"]
        /\ buffer'["outbound"] = buffer["outbound"] /\ buffer'["stdout"] = buffer["stdout"]
        /\ buffer'["inbound"] = buffer["inbound"]
    BY <1>5 DEF Copies, Buffers
  <2>2. Swap(Chunks, buffer["stdin"], holds["recv"],
             buffer'["stdin"], holds'["recv"])
    BY <1>1, <1>5 DEF Swap
  <2>3. Way(received, buffer["outbound"], holds["send"], buffer["stdout"],
             holds["child"], buffer'["stdin"], holds'["recv"], buffer["inbound"])
          = Way(received, buffer["outbound"], holds["send"], buffer["stdout"],
               holds["child"], buffer["stdin"], holds["recv"], buffer["inbound"])
    BY <1>1, <2>2, Move6
  <2>4. QED
    BY <2>1, <2>3, FlightIsWay
<1>6. CASE p = "child" /\ b = "stdout"
  <2>1. /\ holds'["send"] = holds["send"] /\ holds'["recv"] = holds["recv"]
        /\ buffer'["outbound"] = buffer["outbound"] /\ buffer'["stdin"] = buffer["stdin"]
        /\ buffer'["inbound"] = buffer["inbound"]
    BY <1>6 DEF Copies, Buffers
  <2>2. Swap(Chunks, buffer["stdout"], holds["child"],
             buffer'["stdout"], holds'["child"])
    BY <1>1, <1>6 DEF Swap
  <2>3. Way(received, buffer["outbound"], holds["send"], buffer'["stdout"],
             holds'["child"], buffer["stdin"], holds["recv"], buffer["inbound"])
          = Way(received, buffer["outbound"], holds["send"], buffer["stdout"],
               holds["child"], buffer["stdin"], holds["recv"], buffer["inbound"])
    BY <1>1, <2>2, Move4
  <2>4. QED
    BY <2>1, <2>3, FlightIsWay
<1>7. CASE p = "send" /\ b = "outbound"
  <2>1. /\ holds'["child"] = holds["child"] /\ holds'["recv"] = holds["recv"]
        /\ buffer'["stdout"] = buffer["stdout"] /\ buffer'["stdin"] = buffer["stdin"]
        /\ buffer'["inbound"] = buffer["inbound"]
    BY <1>7 DEF Copies, Buffers
  <2>2. Swap(Chunks, buffer["outbound"], holds["send"],
             buffer'["outbound"], holds'["send"])
    BY <1>1, <1>7 DEF Swap
  <2>3. Way(received, buffer'["outbound"], holds'["send"], buffer["stdout"],
             holds["child"], buffer["stdin"], holds["recv"], buffer["inbound"])
          = Way(received, buffer["outbound"], holds["send"], buffer["stdout"],
               holds["child"], buffer["stdin"], holds["recv"], buffer["inbound"])
    BY <1>1, <2>2, Move2
  <2>4. QED
    BY <2>1, <2>3, FlightIsWay
<1>8. QED
  BY <1>2, <1>3, <1>4, <1>5, <1>6, <1>7

\* What does not touch the chunks keeps all there is to say of them.
LEMMA StillKeepsFlow ==
  ASSUME TypeOK', FlowInv, UNCHANGED <<kind, sent, received, buffer, holds>>, Ending' = Ending,
         "conn" \in open' <=> "conn" \in open
  PROVE  FlowInv'
<1>1. InFlight' = InFlight /\ Delivered' = Delivered /\ Given' = Given
  BY GivenSame DEF InFlight, Delivered
<1>2. Broken' = Broken
  BY DEF Broken
<1>3. QED
  BY <1>1, <1>2 DEF FlowInv

\* A move by one of the processes, other than to the client.
LEMMA InnerMoveKeepsFlow ==
  ASSUME TypeOK, TypeOK', FlowInv, UNCHANGED <<kind, sent, received, open>>,
         Ending' = Ending, InFlight' = InFlight,
         buffer'["outbound"] = buffer["outbound"]
  PROVE  FlowInv'
<1>1. Delivered' = Delivered /\ Given' = Given /\ Broken' = Broken
  BY GivenSame DEF Delivered, Broken
<1>2. kind' = "dns" /\ "conn" \in open' => received' = <<>> /\ buffer'["outbound"] = <<>>
  BY DEF FlowInv
<1>3. QED
  BY <1>1, <1>2, SameFlight

\* A chunk that is new is the last of all.
LEMMA AppendBehind ==
  ASSUME NEW S, NEW q, NEW s, NEW e
  PROVE  q \in Seq(S) /\ s \in Seq(S) /\ e \in S => q \o Append(s, e) = Append(q \o s, e)
OBVIOUS

LEMMA SentOnTheWay ==
  ASSUME NEW S, NEW s1, NEW s2, NEW s3, NEW s4, NEW s5, NEW s6, NEW s7, NEW s8, NEW e \in S,
         AllSeq(S, s1, s2, s3, s4, s5, s6, s7, s8)
  PROVE  Way(s1, s2, s3, s4, s5, s6, s7, Append(s8, e))
           = Append(Way(s1, s2, s3, s4, s5, s6, s7, s8), e)
<1> DEFINE p == s1 \o s2 \o s3 \o s4 \o s5 \o s6
<1>1. p \in Seq(S) /\ s7 \in Seq(S)
  BY Beginnings DEF AllSeq
<1> HIDE DEF p
<1>2. p \o s7 \in Seq(S) /\ s8 \in Seq(S)
  BY <1>1, Assoc DEF AllSeq
<1>3. p \o s7 \o Append(s8, e) = Append(p \o s7 \o s8, e)
  BY <1>2, AppendBehind
<1>4. QED
  BY <1>3 DEF Way, p

LEMMA HeldOnTheWay ==
  ASSUME NEW S, NEW s1, NEW s2, NEW s3, NEW s4, NEW s5, NEW s6, NEW e \in S,
         AllSeq(S, s1, s2, s3, s4, s5, s6, <<>>, <<>>)
  PROVE  Way(s1, s2, s3, s4, s5, s6, <<e>>, <<>>)
           = Append(Way(s1, s2, s3, s4, s5, s6, <<>>, <<>>), e)
<1> DEFINE p == s1 \o s2 \o s3 \o s4 \o s5 \o s6
<1>1. p \in Seq(S)
  BY Beginnings
<1> HIDE DEF p
<1>2. p \o <<e>> \o <<>> = Append(p \o <<>> \o <<>>, e)
  BY <1>1
<1>3. QED
  BY <1>2 DEF Way, p

\* What is to be given grows by the chunk that is new.
LEMMA GivenGrows ==
  ASSUME TypeOK, TypeOK', NEW e \in Nat, ~Ending,
         \/ sent' = sent + 1 /\ ~Ending' /\ e = sent + 1
         \/ sent' = sent /\ Ending' /\ e = Newline
  PROVE  Given' = Append(Given, e)
<1>1. sent \in Nat /\ sent' \in Nat /\ Newline \in Nat
  BY DEF TypeOK, Newline
<1>2. /\ Given \in Seq(Nat) /\ Len(Given) = sent /\ \A i \in 1..sent : Given[i] = i
  BY <1>1, GivenType
<1>3. /\ Given' \in Seq(Nat) /\ Len(Given') = sent + 1 /\ \A i \in 1..sent : Given'[i] = i
      /\ Given'[sent + 1] = e
  <2>1. Given' = [i \in 1..(sent' + (IF Ending' THEN 1 ELSE 0)) |-> IF i <= sent' THEN i ELSE Newline]
    BY DEF Given
  <2>2. CASE sent' = sent + 1 /\ ~Ending' /\ e = sent + 1
    <3>1. Given' = [i \in 1..(sent + 1) |-> IF i <= sent + 1 THEN i ELSE Newline]
      BY <1>1, <2>1, <2>2
    <3>2. QED
      BY <1>1, <2>2, <3>1
  <2>3. CASE sent' = sent /\ Ending' /\ e = Newline
    <3>1. Given' = [i \in 1..(sent + 1) |-> IF i <= sent THEN i ELSE Newline]
      BY <1>1, <2>1, <2>3
    <3>2. QED
      BY <1>1, <2>3, <3>1
  <2>4. QED
    BY <2>2, <2>3
<1>4. \A i \in 1..sent : Given'[i] = Given[i]
  BY <1>2, <1>3
<1>5. QED
  BY <1>1, <1>2, <1>3, <1>4, OneMore

LEMMA GrowthKeepsFlow ==
  ASSUME TypeOK', FlowInv, ~Broken, ~Broken', NEW e,
         InFlight' = Append(InFlight, e), Given' = Append(Given, e), kind' # "dns"
  PROVE  FlowInv'
<1>1. InFlight' = Given'
  BY DEF FlowInv
<1>2. QED
  BY <1>1, FlowFromFlight DEF FlowInv

\* The client sends, or the body of a request ends.
LEMMA ClientSendsKeepsFlow ==
  ASSUME TypeOK, TypeOK', CloseInv, RequestInv, FlowInv, ClientSends
  PROVE  FlowInv'
<1>1. /\ sent + 1 \in Chunks /\ sent + 1 \in Nat
  BY SessionAssumption DEF ClientSends, TypeOK, Chunks, Newline, SessionAssumption
<1>2. /\ UNCHANGED <<kind, received, holds, open, at>> /\ sent' = sent + 1
      /\ buffer'["outbound"] = buffer["outbound"] /\ buffer'["stdout"] = buffer["stdout"]
      /\ buffer'["stdin"] = buffer["stdin"]
      /\ buffer'["inbound"] = Append(buffer["inbound"], sent + 1)
      /\ kind # "dns" /\ "conn" \in open
  BY DEF ClientSends, TypeOK, Buffers, CloseInv
<1>3. ~Ending /\ ~Ending'
  BY <1>2 DEF ClientSends, RequestInv, Ending
<1>4. InFlight' = Append(InFlight, sent + 1)
  <2>1. Way(received, buffer["outbound"], holds["send"], buffer["stdout"], holds["child"],
            buffer["stdin"], holds["recv"], Append(buffer["inbound"], sent + 1))
          = Append(Way(received, buffer["outbound"], holds["send"], buffer["stdout"],
                       holds["child"], buffer["stdin"], holds["recv"], buffer["inbound"]), sent + 1)
    BY <1>1, PlacesType, SentOnTheWay
  <2>2. QED
    BY <1>2, <2>1, FlightIsWay
<1>5. Given' = Append(Given, sent + 1)
  BY <1>1, <1>2, <1>3, GivenGrows
<1>6. ~Broken /\ ~Broken'
  BY <1>2 DEF Broken
<1>7. QED
  BY <1>2, <1>4, <1>5, <1>6, GrowthKeepsFlow

LEMMA BodyEndsKeepsFlow ==
  ASSUME TypeOK, TypeOK', FlowInv, BodyEnds
  PROVE  FlowInv'
<1>1. Newline \in Chunks /\ Newline \in Nat
  BY SessionAssumption DEF Chunks, Newline, SessionAssumption
<1>2. /\ UNCHANGED <<kind, sent, received, buffer, open>>
      /\ holds'["send"] = holds["send"] /\ holds'["child"] = holds["child"]
      /\ holds'["recv"] = <<Newline>> /\ holds["recv"] = <<>> /\ buffer["inbound"] = <<>>
      /\ kind # "dns" /\ "conn" \in open
  BY DEF BodyEnds, TypeOK, Copies
<1>3. ~Ending /\ Ending'
  BY DEF BodyEnds, TypeOK, Ending, Processes, Copies
<1>4. InFlight' = Append(InFlight, Newline)
  <2>1. AllSeq(Chunks, received, buffer["outbound"], holds["send"], buffer["stdout"],
               holds["child"], buffer["stdin"], <<>>, <<>>)
    BY <1>2, PlacesType
  <2>2. Way(received, buffer["outbound"], holds["send"], buffer["stdout"], holds["child"],
            buffer["stdin"], <<Newline>>, <<>>)
          = Append(Way(received, buffer["outbound"], holds["send"], buffer["stdout"],
                       holds["child"], buffer["stdin"], <<>>, <<>>), Newline)
    BY <1>1, <2>1, HeldOnTheWay
  <2>3. QED
    BY <1>2, <2>2, FlightIsWay
<1>5. Given' = Append(Given, Newline)
  BY <1>1, <1>2, <1>3, GivenGrows
<1>6. ~Broken /\ ~Broken'
  BY <1>2 DEF Broken
<1>7. QED
  BY <1>2, <1>4, <1>5, <1>6, GrowthKeepsFlow

\* The reply of dns, sent to a client that has been sent nothing, is a beginning of
\* the question.
LEMMA AnswerIsGiven ==
  ASSUME TypeOK, FlowInv, kind = "dns", "conn" \in open
  PROVE  /\ holds["send"] \in Seq(Chunks) /\ Len(holds["send"]) <= Len(Given)
         /\ \A i \in 1..Len(holds["send"]) : Given[i] = holds["send"][i]
<1>1. received = <<>> /\ buffer["outbound"] = <<>> /\ InFlight = Given
  BY DEF FlowInv, Broken
<1>2. /\ AllSeq(Chunks, <<>>, <<>>, holds["send"], buffer["stdout"],
                holds["child"], buffer["stdin"], holds["recv"], buffer["inbound"])
      /\ holds["send"] \in Seq(Chunks) /\ <<>> \in Seq(Chunks)
  BY <1>1, PlacesType DEF TypeOK, Copies
<1>3. Swap(Chunks, <<>>, holds["send"], holds["send"], <<>>)
  BY <1>2 DEF Swap
<1>4. Way(<<>>, holds["send"], <<>>, buffer["stdout"],
          holds["child"], buffer["stdin"], holds["recv"], buffer["inbound"]) = Given
  <2>1. Way(<<>>, holds["send"], <<>>, buffer["stdout"],
            holds["child"], buffer["stdin"], holds["recv"], buffer["inbound"])
          = Way(<<>>, <<>>, holds["send"], buffer["stdout"],
                holds["child"], buffer["stdin"], holds["recv"], buffer["inbound"])
    BY <1>2, <1>3, Move2
  <2>2. QED
    BY <1>1, <2>1, FlightIsWay
<1>5. AllSeq(Chunks, <<>>, holds["send"], <<>>, buffer["stdout"],
             holds["child"], buffer["stdin"], holds["recv"], buffer["inbound"])
  BY <1>2 DEF AllSeq
<1>6. /\ Len(<<>> \o holds["send"]) <= Len(Given)
      /\ \A i \in 1..Len(<<>> \o holds["send"]) : Given[i] = (<<>> \o holds["send"])[i]
  <2>1. LET w == Way(<<>>, holds["send"], <<>>, buffer["stdout"],
                     holds["child"], buffer["stdin"], holds["recv"], buffer["inbound"])
        IN  /\ Len(<<>> \o holds["send"]) <= Len(w)
            /\ \A i \in 1..Len(<<>> \o holds["send"]) : w[i] = (<<>> \o holds["send"])[i]
    BY <1>5, FirstOnTheWay
  <2>2. QED
    BY <1>4, <2>1
<1>7. <<>> \o holds["send"] = holds["send"]
  BY <1>2
<1>8. QED
  BY <1>2, <1>6, <1>7

\* Closing the connection may lose what the client has not read; the answer of dns is
\* sent then.
LEMMA CloseKeepsFlow ==
  ASSUME TypeOK, TypeOK', CloseInv, RequestInv, FlowInv, NEW p \in Processes, CloseNext(p)
  PROVE  FlowInv'
<1>1. /\ UNCHANGED <<kind, sent, received, holds>> /\ open' = open \ {at[p]}
      /\ at[p] \in Resources
  BY DEF CloseNext
<1>2. kind \in {"http", "dns"} =>
        /\ Returned("recv") /\ Returned("send") /\ p = "handler"
        /\ at'["recv"] = at["recv"] /\ at'["send"] = at["send"]
  BY EndIsLate DEF Copies
<1>3. Given' = Given /\ Ending' = Ending
  BY <1>1, <1>2, GivenSame DEF Ending
<1>4. Broken => Broken'
  BY <1>1, <1>2, <1>3 DEF Broken
<1>5. CASE buffer' = buffer
  <2>1. InFlight' = InFlight /\ Delivered' = Delivered
    BY <1>1, <1>5 DEF InFlight, Delivered
  <2>2. kind' = "dns" /\ "conn" \in open' => received' = <<>> /\ buffer'["outbound"] = <<>>
    BY <1>1, <1>5 DEF FlowInv
  <2>3. QED
    BY <1>3, <1>4, <2>1, <2>2, SameFlight
<1>6. CASE buffer' # buffer
  <2>1. /\ at[p] = "conn" /\ "conn" \notin open'
        /\ \/ kind # "dns" /\ buffer["inbound"] # <<>> /\ buffer'["outbound"] = <<>>
           \/ kind = "dns" /\ buffer'["outbound"] = holds["send"]
    BY <1>1, <1>6 DEF CloseNext, Answers, TypeOK, Buffers
  <2>2. ~Ending
    BY <2>1 DEF RequestInv, Ending
  <2>3. Broken'
    BY <1>3, <2>1, <2>2 DEF Broken
  <2>4. received \in Seq(Chunks) /\ buffer["outbound"] \in Seq(Chunks)
    BY DEF TypeOK, Buffers
  <2>5. \A i \in 1..Len(Delivered') : i <= Len(Given) /\ Delivered'[i] = Given[i]
    <3>1. CASE kind # "dns"
      <4>1. Delivered' = received
        BY <1>1, <2>1, <2>4, <3>1 DEF Delivered
      <4>2. Len(received) <= Len(Delivered) /\ \A i \in 1..Len(received) : Delivered[i] = received[i]
        BY <2>4, Continued DEF Delivered
      <4>3. Len(received) \in Nat /\ Len(Delivered) \in Nat
        BY <2>4 DEF Delivered
      <4>4. QED
        BY <4>1, <4>2, <4>3 DEF FlowInv
    <3>2. CASE kind = "dns"
      <4>1. "conn" \in open
        BY <1>2, <2>1, <3>2 DEF CloseInv
      <4>2. received = <<>>
        BY <3>2, <4>1 DEF FlowInv
      <4>3. /\ holds["send"] \in Seq(Chunks) /\ Len(holds["send"]) <= Len(Given)
            /\ \A i \in 1..Len(holds["send"]) : Given[i] = holds["send"][i]
        BY <3>2, <4>1, AnswerIsGiven
      <4>4. Delivered' = <<>> \o holds["send"]
        BY <1>1, <2>1, <3>2, <4>2 DEF Delivered
      <4>5. Delivered' = holds["send"]
        BY <4>3, <4>4
      <4>6. Len(Given) \in Nat /\ Len(holds["send"]) \in Nat
        BY <4>3, GivenType
      <4>7. QED
        BY <4>3, <4>5, <4>6
    <3>3. QED
      BY <3>1, <3>2
  <2>6. QED
    BY <1>3, <2>1, <2>3, <2>5 DEF FlowInv
<1>7. QED
  BY <1>5, <1>6

\* The client reads, or is written to.
LEMMA ClientReadsKeepsFlow ==
  ASSUME TypeOK, TypeOK', FlowInv, ClientReads
  PROVE  FlowInv'
<1>1. /\ UNCHANGED <<kind, sent, holds, open, at>>
      /\ buffer["outbound"] # <<>>
      /\ received' = Append(received, Head(buffer["outbound"]))
      /\ buffer'["outbound"] = Tail(buffer["outbound"])
      /\ buffer'["stdout"] = buffer["stdout"] /\ buffer'["stdin"] = buffer["stdin"]
      /\ buffer'["inbound"] = buffer["inbound"]
  BY DEF ClientReads, TypeOK, Buffers
<1>2. received' \o buffer'["outbound"] = received \o buffer["outbound"]
  <2>1. received \in Seq(Chunks) /\ buffer["outbound"] \in Seq(Chunks)
    BY DEF TypeOK, Buffers
  <2>2. QED
    BY <1>1, <2>1, AppendFirst
<1>3. Swap(Chunks, received, buffer["outbound"], received', buffer'["outbound"])
  BY <1>2 DEF Swap, TypeOK, Buffers
<1>4. InFlight' = InFlight
  <2>1. Way(received', buffer'["outbound"], holds["send"], buffer["stdout"],
            holds["child"], buffer["stdin"], holds["recv"], buffer["inbound"])
          = Way(received, buffer["outbound"], holds["send"], buffer["stdout"],
                holds["child"], buffer["stdin"], holds["recv"], buffer["inbound"])
    BY <1>3, PlacesType, Move1
  <2>2. QED
    BY <1>1, <2>1, FlightIsWay
<1>5. Delivered' = Delivered /\ Broken' = Broken /\ Given' = Given
  BY <1>1, <1>2, GivenSame DEF Delivered, Broken, Ending
<1>6. ~(kind' = "dns" /\ "conn" \in open')
  BY <1>1 DEF FlowInv
<1>7. QED
  BY <1>4, <1>5, <1>6, SameFlight

LEMMA SendWriteKeepsFlow ==
  ASSUME TypeOK, TypeOK', FlowInv, SendWrite
  PROVE  FlowInv'
<1>1. /\ UNCHANGED <<kind, sent, received, open, at>> /\ kind # "dns" /\ "conn" \in open
      /\ Put("send", "outbound")
  BY DEF SendWrite
<1>2. InFlight' = InFlight
  BY <1>1, PutTogether, MoveKeepsFlight DEF Copies, Buffers
<1>3. Given' = Given /\ ~Broken'
  BY <1>1, GivenSame DEF Broken, Ending
<1>4. ~Broken
  BY <1>1 DEF Broken
<1>5. QED
  BY <1>1, <1>2, <1>3, <1>4, SameFlight

\* The other moves.
LEMMA InnerStepKeepsFlow ==
  ASSUME TypeOK, TypeOK', FlowInv,
         ChildReads \/ ChildWrites \/ RecvRead \/ RecvWrite \/ SendRead \/ LastWrite
  PROVE  FlowInv'
<1>1. /\ UNCHANGED <<kind, sent, received, open>> /\ Ending' = Ending
  BY DEF ChildReads, ChildWrites, RecvRead, RecvWrite, SendRead, LastWrite, Ending, TypeOK,
         Processes, Copies
<1>2. InFlight' = InFlight /\ buffer'["outbound"] = buffer["outbound"]
  <2>1. ASSUME NEW p \in Copies \cup {"child"}, NEW b \in Buffers, Take(p, b),
               <<p, b>> \in {<<"recv", "inbound">>, <<"child", "stdin">>, <<"send", "stdout">>}
        PROVE  InFlight' = InFlight /\ buffer'["outbound"] = buffer["outbound"]
    <3>1. InFlight' = InFlight
      BY <1>1, <2>1, TakeTogether, MoveKeepsFlight
    <3>2. QED
      BY <2>1, <3>1, TakeTogether DEF Buffers
  <2>2. ASSUME NEW p \in Copies \cup {"child"}, NEW b \in Buffers, Put(p, b),
               <<p, b>> \in {<<"recv", "stdin">>, <<"child", "stdout">>}
        PROVE  InFlight' = InFlight /\ buffer'["outbound"] = buffer["outbound"]
    <3>1. InFlight' = InFlight
      BY <1>1, <2>2, PutTogether, MoveKeepsFlight
    <3>2. QED
      BY <2>2, <3>1, PutTogether DEF Buffers
  <2>3. CASE \/ Take("child", "stdin") \/ Take("recv", "inbound") \/ Take("send", "stdout")
             \/ Put("child", "stdout") \/ Put("recv", "stdin")
    BY <2>1, <2>2, <2>3 DEF Copies, Buffers
  <2>4. CASE LastWrite /\ UNCHANGED <<holds, buffer>>
    BY <1>1, <2>4 DEF InFlight
  <2>5. CASE /\ buffer["stdout"] # <<>>
             /\ holds' = [holds EXCEPT !["send"] = Append(@, Head(buffer["stdout"]))]
             /\ buffer' = [buffer EXCEPT !["stdout"] = Tail(@)]
    <3>1. /\ \A q \in (Copies \cup {"child"}) \ {"send"} : holds'[q] = holds[q]
          /\ \A c \in Buffers \ {"stdout"} : buffer'[c] = buffer[c]
          /\ holds'["send"] = Append(holds["send"], Head(buffer["stdout"]))
          /\ buffer'["stdout"] = Tail(buffer["stdout"]) /\ buffer["stdout"] # <<>>
      BY <2>5 DEF TypeOK, Copies, Buffers
    <3>2. holds["send"] \in Seq(Chunks) /\ buffer["stdout"] \in Seq(Chunks)
      BY DEF TypeOK, Copies, Buffers
    <3>3. holds'["send"] \o buffer'["stdout"] = holds["send"] \o buffer["stdout"]
      <4>1. Append(holds["send"], Head(buffer["stdout"])) \o Tail(buffer["stdout"])
              = holds["send"] \o buffer["stdout"]
        BY <3>1, <3>2, AppendFirst
      <4>2. QED
        BY <3>1, <4>1
    <3>4. InFlight' = InFlight
      BY <1>1, <3>1, <3>3, MoveKeepsFlight DEF Copies, Buffers
    <3>5. QED
      BY <3>1, <3>4 DEF Buffers
  <2>6. QED
    BY <2>3, <2>4, <2>5 DEF ChildReads, ChildWrites, RecvRead, RecvWrite, SendRead, LastWrite
<1>3. QED
  BY <1>1, <1>2, InnerMoveKeepsFlow

\* What touches no chunk.
LEMMA OtherStepKeepsFlow ==
  ASSUME TypeOK, TypeOK', CloseInv, RequestInv, FlowInv,
         \/ ClientHalfCloses \/ ClientLeaves \/ ChildExits \/ ChildDies \/ BodyFails
         \/ CloseWriterAndRead \/ ReplyRead \/ (\E p \in Copies : CopyReturns(p))
         \/ (\E p \in Processes : BeginClose(p)) \/ UNCHANGED vars
  PROVE  FlowInv'
<1>1. /\ UNCHANGED <<kind, sent, received, buffer, holds>>
      /\ "conn" \in open' <=> "conn" \in open
  BY DEF ClientHalfCloses, ClientLeaves, ChildExits, ChildDies, BodyFails, CloseWriterAndRead,
         ReplyRead, CopyReturns, BeginClose, vars
<1>2. kind = "http" => (at'["recv"] \in {"finish", "close", "done"} <=>
                        at["recv"] \in {"finish", "close", "done"})
  <2>1. CASE ClientHalfCloses \/ ClientLeaves \/ ChildExits \/ ChildDies \/ UNCHANGED vars
    BY <2>1 DEF ClientHalfCloses, ClientLeaves, ChildExits, ChildDies, vars
  <2>2. CASE BodyFails \/ CloseWriterAndRead \/ ReplyRead
    BY <2>2 DEF BodyFails, CloseWriterAndRead, ReplyRead, TypeOK, Processes, Copies
  <2>3. ASSUME NEW p \in Copies, CopyReturns(p), kind = "http"
        PROVE  at'["recv"] = at["recv"]
    BY <2>3 DEF CopyReturns, TypeOK, Processes, Copies
  <2>4. ASSUME NEW p \in Processes, BeginClose(p), kind = "http"
        PROVE  at'["recv"] = at["recv"]
    BY <2>4, EndIsLate
  <2>5. QED
    BY <2>1, <2>2, <2>3, <2>4
<1>3. Ending' = Ending
  BY <1>1, <1>2 DEF Ending
<1>4. QED
  BY <1>1, <1>2, <1>3, StillKeepsFlow

LEMMA FlowInvStep ==
  ASSUME TypeOK, TypeOK', CloseInv, RequestInv, FlowInv, [Next]_vars
  PROVE  FlowInv'
BY ClientSendsKeepsFlow, ClientReadsKeepsFlow, BodyEndsKeepsFlow,
   CloseKeepsFlow, SendWriteKeepsFlow, InnerStepKeepsFlow, OtherStepKeepsFlow
   DEF Next, Child, Recv, Send, End

LEMMA FlowInvInit ==
  ASSUME Init
  PROVE  FlowInv
<1>1. /\ received = <<>> /\ buffer["outbound"] = <<>> /\ buffer["stdout"] = <<>>
      /\ buffer["stdin"] = <<>> /\ buffer["inbound"] = <<>>
      /\ holds["send"] = <<>> /\ holds["child"] = <<>>
      /\ holds["recv"] = (IF kind = "dns" THEN <<1>> ELSE <<>>)
      /\ sent = (IF kind = "dns" THEN 1 ELSE 0) /\ ~Ending
  BY DEF Init, Buffers, Copies, Ending, Processes
<1>2. InFlight = (IF kind = "dns" THEN <<1>> ELSE <<>>) /\ Delivered = <<>>
  BY <1>1 DEF InFlight, Delivered
<1>3. Given = (IF kind = "dns" THEN <<1>> ELSE <<>>)
  BY <1>1 DEF Given
<1>4. QED
  BY <1>1, <1>2, <1>3 DEF FlowInv

\* All the invariants of a session.
SessionInv == TypeOK /\ CloseInv /\ RequestInv /\ FlowInv

LEMMA SessionInvariant == Spec => []SessionInv
<1>1. Init => CloseInv /\ RequestInv /\ FlowInv
  BY CloseInvInit, RequestInvInit, FlowInvInit
<1>2. TypeOK /\ TypeOK' /\ CloseInv /\ RequestInv /\ FlowInv /\ [Next]_vars
        => CloseInv' /\ RequestInv' /\ FlowInv'
  BY CloseInvStep, RequestInvStep, FlowInvStep
<1>3. QED
  BY <1>1, <1>2, SessionTypeCorrect, PTL DEF Spec, SessionInv

\* Nothing is lost, repeated or reordered as long as the stream and the connection are
\* open, and what the client has read is a prefix of what the child was given
\* (tcp.go:95-118, http/listen.go:110-145).
THEOREM SessionLosesNothing == Spec => []NothingLostWhileOpen
<1>1. SessionInv => NothingLostWhileOpen
  <2> SUFFICES ASSUME SessionInv
               PROVE  NothingLostWhileOpen
    OBVIOUS
  <2>1. open = Resources \/ (kind \in {"http", "dns"} /\ "conn" \in open) => ~Broken
    BY DEF Broken, Resources
  <2>2. received \in Seq(Chunks) /\ buffer["outbound"] \in Seq(Chunks)
    BY DEF SessionInv, TypeOK, Buffers
  <2>3. Len(received) <= Len(Delivered) /\ \A i \in 1..Len(received) : Delivered[i] = received[i]
    BY <2>2, Continued DEF Delivered
  <2>4. Len(received) \in Nat /\ Len(Delivered) \in Nat
    BY <2>2 DEF Delivered
  <2>5. \A i \in 1..Len(received) : i <= Len(Given) /\ received[i] = Given[i]
    BY <2>3, <2>4 DEF SessionInv, FlowInv
  <2>6. Given \in Seq(Nat) /\ DOMAIN received = 1..Len(received) /\ Len(received) \in Nat
    BY <2>2, GivenType DEF SessionInv
  <2>7. \A i \in DOMAIN received : i \in DOMAIN Given /\ received[i] = Given[i]
    BY <2>5, <2>6
  <2>8. QED
    BY <2>1, <2>7 DEF NothingLostWhileOpen, SessionInv, FlowInv
<1>2. QED
  BY <1>1, SessionInvariant, PTL

\* The reply to an http request is the whole of what its child echoed, unless the client
\* went or the child ended before the end of its input (http/listen.go:127-141).
THEOREM SessionEchoesWhole == Spec => []EchoIsWhole
<1>1. SessionInv => EchoIsWhole
  <2> SUFFICES ASSUME SessionInv,
                      kind = "http", at["handler"] = "done", client = "half", child = "exited"
               PROVE  received \o buffer["outbound"] = Given
    BY DEF EchoIsWhole
  <2>1. at["recv"] = "done" /\ at["send"] = "done"
    BY DEF SessionInv, CloseInv, RequestInv, Awaited, Returned, Copies
  <2>2. Ending /\ ~Broken
    BY <2>1 DEF Ending, Broken
  <2>3. /\ buffer["stdin"] = <<>> /\ holds["child"] = <<>> /\ buffer["inbound"] = <<>>
        /\ holds["recv"] = <<>> /\ buffer["stdout"] = <<>> /\ holds["send"] = <<>>
    BY <2>1, <2>2 DEF SessionInv, RequestInv
  <2>4. received \o buffer["outbound"] \in Seq(Chunks)
    BY DEF SessionInv, TypeOK, Buffers
  <2>5. InFlight = received \o buffer["outbound"]
    BY <2>3, <2>4 DEF InFlight
  <2>6. QED
    BY <2>2, <2>5 DEF SessionInv, FlowInv
<1>2. QED
  BY <1>1, SessionInvariant, PTL

-----------------------------------------------------------------------------
(* Nobody waits for ever. *)

\* Whose turn it is: the last Write has something to write and, for a question, the pipe
\* is empty; the Writer of a request is closed when its reply is read.
TurnInv ==
  /\ at["recv"] # "later" /\ at["send"] \notin {"finish", "close"}
  /\ at["recv"] = "finish" => holds["recv"] # <<>>
  /\ kind = "dns" =>
       /\ at["recv"] # "copy"
       /\ at["recv"] = "finish" => buffer["stdin"] = <<>>
       /\ at["send"] = "later" => at["recv"] \in {"finish", "close"}
  /\ kind \in {"http", "dns"} /\ at["recv"] = "done" => "Writer" \notin open

\* Who can go on, of those that do without being made to.  These are the guards of the
\* steps that Fairness is about.
RecvRuns ==
  \/ /\ at["recv"] = "copy"
     /\ \/ "conn" \in open /\ holds["recv"] = <<>> /\ buffer["inbound"] # <<>>
        \/ "Writer" \in open /\ child = "running" /\ holds["recv"] # <<>> /\ ~Full("stdin")
        \/ /\ kind = "http"
           /\ \/ /\ client = "half" /\ "conn" \in open
                 /\ holds["recv"] = <<>> /\ buffer["inbound"] = <<>>
              \/ WriteFails("recv") \/ (holds["recv"] = <<>> /\ client = "gone")
  \/ at["recv"] = "finish" /\ (child # "running" \/ (holds["recv"] # <<>> /\ ~Full("stdin")))
  \/ at["recv"] = "close"

SendRuns ==
  /\ at["send"] = "copy"
  /\ \/ "Reader" \in open /\ buffer["stdout"] # <<>> /\ (kind = "dns" \/ holds["send"] = <<>>)
     \/ /\ kind # "dns" /\ "conn" \in open /\ client # "gone"
        /\ holds["send"] # <<>> /\ ~Full("outbound")
     \/ kind = "dns" /\ (holds["send"] # <<>> \/ ReadEnds("send"))

ChildRuns ==
  /\ child = "running"
  /\ \/ holds["child"] = <<>> /\ buffer["stdin"] # <<>>
     \/ holds["child"] # <<>> /\ "Reader" \in open /\ ~Full("stdout")
     \/ "Writer" \notin open /\ buffer["stdin"] = <<>> /\ holds["child"] = <<>>
     \/ ~MayDie /\ "Reader" \notin open /\ holds["child"] # <<>>

EndRuns(p) ==
  \/ /\ at[p] = "copy" /\ (ReadEnds(p) \/ WriteFails(p))
     /\ kind \in {"tcp", "ssh"} \/ (kind = "http" /\ p = "send")
  \/ at[p] = "wait" /\ \A q \in Awaited : Returned(q)
  \/ at[p] \in Resources

SomebodyRuns ==
  \/ RecvRuns \/ SendRuns \/ ChildRuns \/ \E p \in Processes : EndRuns(p)
  \/ client # "gone" /\ buffer["outbound"] # <<>>

\* One side has ended, or the client's part of a request, or the child of a session of ssh.
OneSideEnded ==
  \/ kind \in {"tcp", "http", "dns"} /\ client # "open"
  \/ kind \in {"tcp", "ssh"} /\ child # "running"

NobodyWaitsForEver ==
  OneSideEnded => at["handler"] = "done" \/ RequestBlocks \/ SomebodyRuns

LEMMA TurnInvInit ==
  ASSUME Init
  PROVE  TurnInv
<1>1. kind \in {"tcp", "http", "dns", "ssh"}
  BY SessionAssumption DEF Init, SessionAssumption
<1>2. QED
  BY <1>1 DEF Init, TurnInv, Processes, Copies, Buffers

LEMMA TurnInvStep ==
  ASSUME TypeOK, CloseInv, TurnInv, [Next]_vars
  PROVE  TurnInv'
<1>1. CASE \/ ClientSends \/ ClientReads \/ ClientHalfCloses \/ ClientLeaves
           \/ ChildExits \/ ChildDies \/ UNCHANGED vars
  <2>1. /\ UNCHANGED <<kind, holds, open, at>> /\ buffer'["stdin"] = buffer["stdin"]
    BY <1>1 DEF ClientSends, ClientReads, ClientHalfCloses, ClientLeaves, ChildExits, ChildDies,
       vars, TypeOK, Buffers
  <2>2. QED
    BY <2>1 DEF TurnInv
<1>2. CASE ChildReads
  BY <1>2 DEF ChildReads, Take, TurnInv, TypeOK, Buffers, Copies
<1>3. CASE ChildWrites
  BY <1>3 DEF ChildWrites, Put, TurnInv, TypeOK, Buffers, Copies
<1>4. CASE RecvRead
  BY <1>4 DEF RecvRead, Take, TurnInv, TypeOK, Buffers, Copies
<1>5. CASE RecvWrite
  BY <1>5 DEF RecvWrite, Put, TurnInv, TypeOK, Buffers, Copies
<1>6. CASE BodyEnds
  BY <1>6 DEF BodyEnds, TurnInv, TypeOK, Processes, Copies
<1>7. CASE BodyFails
  BY <1>7 DEF BodyFails, TurnInv, TypeOK, Processes, Copies
<1>8. CASE LastWrite
  BY <1>8 DEF LastWrite, TurnInv, TypeOK, Processes, Copies
<1>9. CASE CloseWriterAndRead
  BY <1>9 DEF CloseWriterAndRead, TurnInv, TypeOK, Processes, Copies
<1>10. CASE SendRead
  BY <1>10 DEF SendRead, Take, TurnInv, TypeOK, Buffers, Copies
<1>11. CASE SendWrite
  BY <1>11 DEF SendWrite, Put, TurnInv, TypeOK, Buffers, Copies
<1>12. CASE ReplyRead
  BY <1>12 DEF ReplyRead, TurnInv, TypeOK, Processes, Copies
<1>13. ASSUME NEW p \in Copies, CopyReturns(p)
       PROVE  TurnInv'
  BY <1>13 DEF CopyReturns, TurnInv, TypeOK, Processes, Copies
<1>14. ASSUME NEW p \in Processes, BeginClose(p) \/ CloseNext(p)
       PROVE  TurnInv'
  <2>1. /\ UNCHANGED <<kind, holds>> /\ open' \subseteq open
        /\ buffer'["stdin"] = buffer["stdin"]
    BY <1>14 DEF BeginClose, CloseNext, Answers, TypeOK, Buffers
  <2>2. /\ at'[p] \in Resources \cup {"done"}
        /\ \A q \in Processes : q # p => at'[q] = at[q]
    BY <1>14 DEF BeginClose, CloseNext, TypeOK, AfterClosing, Resources
  <2>3. kind \in {"http", "dns"} => at'["recv"] = at["recv"] /\ at'["send"] = at["send"]
    BY <1>14, EndIsLate
  <2>4. /\ "recv" \in Processes /\ "send" \in Processes
    BY DEF Processes, Copies
  <2>5. QED
    BY <2>1, <2>2, <2>3, <2>4 DEF TurnInv, Resources
<1>15. QED
  BY <1>1, <1>2, <1>3, <1>4, <1>5, <1>6, <1>7, <1>8, <1>9, <1>10, <1>11, <1>12, <1>13, <1>14
     DEF Next, Child, Recv, Send, End

\* A full pipe holds something, and an empty one has room.
LEMMA FullIsSomething ==
  ASSUME TypeOK, NEW b \in Buffers
  PROVE  Full(b) => buffer[b] # <<>>
BY SessionAssumption DEF SessionAssumption, TypeOK, Full

\* A child that runs has something to do when there is input, or its input is over, as
\* long as its output has room.
LEMMA ChildHasWork ==
  ASSUME TypeOK, child = "running", "Reader" \in open, ~Full("stdout") \/ holds["child"] = <<>>,
         buffer["stdin"] # <<>> \/ "Writer" \notin open
  PROVE  ChildRuns
BY DEF ChildRuns

\* Whoever is in the way of the copy to the client, the child or the client can go on.
LEMMA SendHasWork ==
  ASSUME TypeOK, at["send"] = "copy", ~SendRuns, ~EndRuns("send"),
         kind \in {"tcp", "ssh", "http", "dns"}, ~(client # "gone" /\ buffer["outbound"] # <<>>)
  PROVE  /\ holds["send"] = <<>> /\ "Reader" \in open /\ buffer["stdout"] = <<>>
         /\ child = "running"
<1>1. Full("outbound") => buffer["outbound"] # <<>>
  BY FullIsSomething DEF Buffers
<1>2. kind # "dns" => ~ReadEnds("send") /\ ~WriteFails("send")
  BY DEF EndRuns
<1>3. kind = "dns" => ~ReadEnds("send") /\ holds["send"] = <<>>
  BY DEF SendRuns
<1>4. holds["send"] = <<>>
  BY <1>1, <1>2, <1>3 DEF SendRuns, WriteFails
<1>5. QED
  BY <1>2, <1>3, <1>4 DEF SendRuns, ReadEnds

\* The handler has not returned; nobody can go on.
LEMMA TcpRuns ==
  ASSUME TypeOK, CloseInv, TurnInv, kind = "tcp", OneSideEnded, at["handler"] # "done"
  PROVE  SomebodyRuns
<1> SUFFICES ASSUME ~SomebodyRuns PROVE FALSE
  OBVIOUS
<1>1. /\ ~RecvRuns /\ ~SendRuns /\ ~ChildRuns
      /\ ~EndRuns("recv") /\ ~EndRuns("send") /\ ~EndRuns("handler")
      /\ ~(client # "gone" /\ buffer["outbound"] # <<>>)
  BY DEF SomebodyRuns, Processes, Copies
<1>2. at["handler"] = "wait" /\ ~(Returned("recv") /\ Returned("send"))
  BY <1>1 DEF CloseInv, EndRuns, Awaited, Copies
<1>3. at["recv"] \in {"copy", "done"} /\ at["send"] \in {"copy", "done"}
  BY <1>1 DEF EndRuns, CloseInv, TypeOK, Copies, Processes
<1>4. at["recv"] = "copy" => ~ReadEnds("recv") /\ ~WriteFails("recv")
  BY <1>1 DEF EndRuns
<1>5. at["send"] = "copy" => ~ReadEnds("send") /\ ~WriteFails("send")
  BY <1>1 DEF EndRuns
<1>6. at["recv"] = "copy" /\ at["send"] = "copy"
  <2>1. at["recv"] = "done" \/ at["send"] = "done" => open = {}
    BY DEF CloseInv, Copies
  <2>2. open = {} => at["recv"] # "copy" /\ at["send"] # "copy"
    BY <1>4, <1>5 DEF ReadEnds, WriteFails
  <2>3. QED
    BY <1>2, <1>3, <2>1, <2>2 DEF Returned
<1>7. "Reader" \in open /\ buffer["stdout"] = <<>> /\ child = "running"
  BY <1>1, <1>6, SendHasWork
<1>8. ~Full("stdout")
  BY <1>7, FullIsSomething DEF Buffers
<1>9. client # "open"
  BY <1>7 DEF OneSideEnded
<1>10. holds["recv"] # <<>> /\ "Writer" \in open /\ Full("stdin")
  BY <1>1, <1>4, <1>6, <1>9 DEF RecvRuns, ReadEnds, WriteFails, TypeOK
<1>11. buffer["stdin"] # <<>>
  BY <1>10, FullIsSomething DEF Buffers
<1>12. QED
  BY <1>1, <1>7, <1>8, <1>11, ChildHasWork

LEMMA SSHRuns ==
  ASSUME TypeOK, CloseInv, TurnInv, kind = "ssh", OneSideEnded, at["handler"] # "done"
  PROVE  SomebodyRuns
<1> SUFFICES ASSUME ~SomebodyRuns PROVE FALSE
  OBVIOUS
<1>1. /\ ~SendRuns /\ ~EndRuns("send") /\ ~EndRuns("handler")
      /\ ~(client # "gone" /\ buffer["outbound"] # <<>>)
  BY DEF SomebodyRuns, Processes, Copies
<1>2. ~Returned("send")
  BY <1>1 DEF CloseInv, EndRuns, Awaited
<1>3. at["send"] = "copy"
  BY <1>1, <1>2 DEF EndRuns, CloseInv, TypeOK, TurnInv, Copies, Processes, Returned
<1>4. child = "running"
  BY <1>1, <1>3, SendHasWork
<1>5. QED
  BY <1>4 DEF OneSideEnded

LEMMA RequestRuns ==
  ASSUME TypeOK, CloseInv, RequestInv, TurnInv, kind \in {"http", "dns"}, OneSideEnded,
         at["handler"] # "done", ~RequestBlocks
  PROVE  SomebodyRuns
<1> SUFFICES ASSUME ~SomebodyRuns PROVE FALSE
  OBVIOUS
<1>1. /\ ~RecvRuns /\ ~SendRuns /\ ~ChildRuns /\ ~EndRuns("send") /\ ~EndRuns("handler")
      /\ ~(client # "gone" /\ buffer["outbound"] # <<>>)
  BY DEF SomebodyRuns, Processes, Copies
<1>2. ~(Returned("recv") /\ Returned("send"))
  BY <1>1 DEF CloseInv, EndRuns, Awaited, Copies
<1>3. client # "open"
  BY DEF OneSideEnded
<1>4. /\ at["recv"] \in {"copy", "finish", "done", "failed"}
      /\ at["send"] \in {"copy", "later", "done"}
  BY <1>1 DEF RecvRuns, CloseInv, TypeOK, TurnInv, Copies, Processes
<1>5. at["recv"] \in {"copy", "finish"}
        => holds["recv"] # <<>> /\ child = "running" /\ Full("stdin")
  <2>1. CASE at["recv"] = "finish"
    BY <1>1, <2>1 DEF RecvRuns, TurnInv
  <2>2. CASE at["recv"] = "copy"
    <3>1. kind = "http" /\ open = Resources
      BY <2>2 DEF TurnInv, RequestInv
    <3>2. holds["recv"] # <<>>
      BY <1>1, <1>3, <2>2, <3>1 DEF RecvRuns, TypeOK, Resources
    <3>3. child = "running"
      BY <1>1, <2>2, <3>1, <3>2 DEF RecvRuns, WriteFails
    <3>4. QED
      BY <1>1, <2>2, <3>1, <3>2, <3>3 DEF RecvRuns, Resources
  <2>3. QED
    BY <2>1, <2>2
<1>6. at["recv"] \notin {"copy", "finish"}
  <2> SUFFICES ASSUME at["recv"] \in {"copy", "finish"} PROVE FALSE
    OBVIOUS
  <2>1. buffer["stdin"] # <<>>
    BY <1>5, FullIsSomething DEF Buffers
  <2>2. kind = "http" /\ open = Resources
    BY <2>1 DEF TurnInv, RequestInv
  <2>3. ~Full("stdout") \/ holds["child"] = <<>>
    BY <1>5, <2>2 DEF RequestBlocks
  <2>4. QED
    BY <1>1, <1>5, <2>1, <2>2, <2>3, ChildHasWork DEF Resources
<1>7. at["send"] = "copy" /\ at["recv"] \in {"done", "failed"}
  BY <1>2, <1>4, <1>6 DEF Returned, RequestInv, TurnInv
<1>8. "Reader" \in open /\ buffer["stdout"] = <<>> /\ child = "running"
  BY <1>1, <1>7, SendHasWork
<1>9. ~Full("stdout")
  BY <1>8, FullIsSomething DEF Buffers
<1>10. "Writer" \notin open
  <2>1. at["recv"] = "done"
    BY <1>7 DEF RequestInv, CloseInv, Copies
  <2>2. QED
    BY <2>1 DEF TurnInv
<1>11. QED
  BY <1>1, <1>8, <1>9, <1>10, ChildHasWork

\* When one side has ended the handler has returned, or blocks with its child over a
\* request, or there is somebody who can go on: the goroutines, the child and the client
\* never all wait for each other, for buffers of any size (tcp.go:95-118,
\* http/listen.go:110-145).
THEOREM SessionNeverStops == Spec => []NobodyWaitsForEver
<1>1. TypeOK /\ CloseInv /\ RequestInv /\ TurnInv => NobodyWaitsForEver
  <2>1. TypeOK => kind \in {"tcp", "http", "dns", "ssh"}
    BY SessionAssumption DEF TypeOK, SessionAssumption
  <2>2. QED
    BY <2>1, TcpRuns, SSHRuns, RequestRuns DEF NobodyWaitsForEver
<1>2. TypeOK /\ CloseInv /\ TurnInv /\ [Next]_vars => TurnInv'
  BY TurnInvStep
<1>3. SessionInv => TypeOK /\ CloseInv /\ RequestInv
  BY DEF SessionInv
<1>4. QED
  BY <1>1, <1>2, <1>3, TurnInvInit, SessionInvariant, PTL DEF Spec

-----------------------------------------------------------------------------
(* No step goes round. *)

\* What is left to do: a chunk has eight places to go through, a process its turns.  The
\* reply to a question is counted twice, for the message it is sent in.
Unsent == MaxChunks - sent
InInbound == Len(buffer["inbound"])
HeldByRecv == Len(holds["recv"])
InStdin == Len(buffer["stdin"])
HeldByChild == Len(holds["child"])
InStdout == Len(buffer["stdout"])
HeldBySend == Len(holds["send"])
InOutbound == Len(buffer["outbound"])
Message == IF kind = "dns" /\ at["handler"] # "done" THEN Len(holds["send"]) ELSE 0

ChunksLeft ==
  9 * Unsent + 8 * InInbound + 7 * HeldByRecv + 6 * InStdin + 5 * HeldByChild
    + 4 * InStdout + 2 * HeldBySend + InOutbound + Message

TurnsOf(place) ==
  CASE place = "later" -> 11 [] place = "copy" -> 10 [] place = "wait" -> 4
    [] place \in {"finish", "Writer"} -> 2 [] place = "Reader" -> 3
    [] place \in {"close", "conn"} -> 1 [] OTHER -> 0

ClientLeft == CASE client = "open" -> 2 [] client = "half" -> 1 [] OTHER -> 0
ChildLeft == IF child = "running" THEN 1 ELSE 0

RecvLeft == TurnsOf(at["recv"])
SendLeft == TurnsOf(at["send"])
HandlerLeft == TurnsOf(at["handler"])

TurnsLeft == RecvLeft + SendLeft + HandlerLeft + ClientLeft + ChildLeft

Left == ChunksLeft + TurnsLeft

LeftShrinks == Left \in Nat /\ Left' < Left

\* The same after a step.
UnsentNext == MaxChunks - sent'
InInboundNext == Len(buffer'["inbound"])
HeldByRecvNext == Len(holds'["recv"])
InStdinNext == Len(buffer'["stdin"])
HeldByChildNext == Len(holds'["child"])
InStdoutNext == Len(buffer'["stdout"])
HeldBySendNext == Len(holds'["send"])
InOutboundNext == Len(buffer'["outbound"])
MessageNext == IF kind' = "dns" /\ at'["handler"] # "done" THEN Len(holds'["send"]) ELSE 0

ChunksNext ==
  9 * UnsentNext + 8 * InInboundNext + 7 * HeldByRecvNext + 6 * InStdinNext
    + 5 * HeldByChildNext + 4 * InStdoutNext + 2 * HeldBySendNext + InOutboundNext + MessageNext

ClientNext == CASE client' = "open" -> 2 [] client' = "half" -> 1 [] OTHER -> 0
ChildNext == IF child' = "running" THEN 1 ELSE 0
RecvNext == TurnsOf(at'["recv"])
SendNext == TurnsOf(at'["send"])
HandlerNext == TurnsOf(at'["handler"])

TurnsNext == RecvNext + SendNext + HandlerNext + ClientNext + ChildNext

LEMMA LeftNext == Left' = ChunksNext + TurnsNext
BY DEF Left, ChunksLeft, ChunksNext, Unsent, UnsentNext, InInbound, InInboundNext, HeldByRecv,
       HeldByRecvNext, InStdin, InStdinNext, HeldByChild, HeldByChildNext, InStdout,
       InStdoutNext, HeldBySend, HeldBySendNext, InOutbound, InOutboundNext, Message,
       MessageNext, TurnsLeft, TurnsNext, TurnsOf, RecvLeft, RecvNext, SendLeft, SendNext,
       HandlerLeft, HandlerNext, ClientLeft, ClientNext, ChildLeft, ChildNext

\* The lengths are numbers.
LEMMA Lengths ==
  ASSUME TypeOK
  PROVE  /\ Unsent \in Nat /\ InInbound \in Nat /\ HeldByRecv \in Nat /\ InStdin \in Nat
         /\ HeldByChild \in Nat /\ InStdout \in Nat /\ HeldBySend \in Nat
         /\ InOutbound \in Nat /\ Message \in Nat /\ Message <= HeldBySend
<1>1. Unsent \in Nat
  BY SessionAssumption DEF SessionAssumption, TypeOK, Unsent
<1>2. /\ InInbound \in Nat /\ HeldByRecv \in Nat /\ InStdin \in Nat /\ HeldByChild \in Nat
      /\ InStdout \in Nat /\ HeldBySend \in Nat /\ InOutbound \in Nat
  BY DEF TypeOK, Buffers, Copies, InInbound, HeldByRecv, InStdin, HeldByChild, InStdout,
     HeldBySend, InOutbound
<1>3. Message \in Nat /\ Message <= HeldBySend
  BY <1>2 DEF Message, HeldBySend
<1>4. QED
  BY <1>1, <1>2, <1>3

LEMMA LengthsNext ==
  ASSUME TypeOK'
  PROVE  /\ UnsentNext \in Nat /\ InInboundNext \in Nat /\ HeldByRecvNext \in Nat
         /\ InStdinNext \in Nat /\ HeldByChildNext \in Nat /\ InStdoutNext \in Nat
         /\ HeldBySendNext \in Nat /\ InOutboundNext \in Nat
         /\ MessageNext \in Nat /\ MessageNext <= HeldBySendNext
<1>1. UnsentNext \in Nat
  <2>1. \A n \in 0..MaxChunks : MaxChunks - n \in Nat
    BY SessionAssumption DEF SessionAssumption
  <2>2. sent' \in 0..MaxChunks
    BY DEF TypeOK
  <2>3. QED
    BY <2>1, <2>2 DEF UnsentNext
<1>2. /\ InInboundNext \in Nat /\ HeldByRecvNext \in Nat /\ InStdinNext \in Nat
      /\ HeldByChildNext \in Nat /\ InStdoutNext \in Nat /\ HeldBySendNext \in Nat
      /\ InOutboundNext \in Nat
  BY DEF TypeOK, Buffers, Copies, InInboundNext, HeldByRecvNext, InStdinNext, HeldByChildNext,
     InStdoutNext, HeldBySendNext, InOutboundNext
<1>3. MessageNext \in Nat /\ MessageNext <= HeldBySendNext
  BY <1>2 DEF MessageNext, HeldBySendNext
<1>4. QED
  BY <1>1, <1>2, <1>3

\* The turns too.
LEMMA TurnsNat ==
  ASSUME NEW place
  PROVE  TurnsOf(place) \in Nat
BY DEF TurnsOf

LEMMA Turns ==
  /\ RecvLeft \in Nat /\ SendLeft \in Nat /\ HandlerLeft \in Nat
  /\ ClientLeft \in Nat /\ ChildLeft \in Nat
  /\ RecvNext \in Nat /\ SendNext \in Nat /\ HandlerNext \in Nat
  /\ ClientNext \in Nat /\ ChildNext \in Nat
<1>1. /\ RecvLeft \in Nat /\ SendLeft \in Nat /\ HandlerLeft \in Nat
      /\ RecvNext \in Nat /\ SendNext \in Nat /\ HandlerNext \in Nat
  BY TurnsNat DEF RecvLeft, SendLeft, HandlerLeft, RecvNext, SendNext, HandlerNext
<1>2. ClientLeft \in Nat /\ ChildLeft \in Nat /\ ClientNext \in Nat /\ ChildNext \in Nat
  BY DEF ClientLeft, ChildLeft, ClientNext, ChildNext
<1>3. QED
  BY <1>1, <1>2

\* It is enough to look at the chunks and the turns.
LEMMA Shrinks ==
  ASSUME TypeOK, TypeOK',
         \/ ChunksNext < ChunksLeft /\ TurnsNext <= TurnsLeft
         \/ ChunksNext <= ChunksLeft /\ TurnsNext < TurnsLeft
         \/ ChunksNext = ChunksLeft + 7 /\ TurnsNext + 8 = TurnsLeft
  PROVE  LeftShrinks
<1>1. ChunksLeft \in Nat /\ ChunksNext \in Nat
  BY Lengths, LengthsNext DEF ChunksLeft, ChunksNext
<1>2. TurnsLeft \in Nat /\ TurnsNext \in Nat
  BY Turns DEF TurnsLeft, TurnsNext
<1>3. ChunksNext + TurnsNext < ChunksLeft + TurnsLeft /\ ChunksLeft + TurnsLeft \in Nat
  BY <1>1, <1>2
<1>4. QED
  BY <1>3, LeftNext DEF LeftShrinks, Left

\* The lengths of what a process takes from a buffer and puts into one.
LEMMA TakeLengths ==
  ASSUME TypeOK, NEW p \in Copies \cup {"child"}, NEW b \in Buffers, Take(p, b)
  PROVE  /\ Len(buffer[b]) > 0 /\ Len(buffer'[b]) = Len(buffer[b]) - 1
         /\ Len(holds[p]) = 0 /\ Len(holds'[p]) = 1
         /\ \A c \in Buffers : c # b => buffer'[c] = buffer[c]
         /\ \A q \in Copies \cup {"child"} : q # p => holds'[q] = holds[q]
<1>1. buffer[b] \in Seq(Chunks) /\ buffer[b] # <<>>
  BY DEF Take, TypeOK
<1>2. /\ buffer'[b] = Tail(buffer[b]) /\ holds'[p] = <<Head(buffer[b])>> /\ holds[p] = <<>>
  BY DEF Take, TypeOK
<1>3. /\ \A c \in Buffers : c # b => buffer'[c] = buffer[c]
      /\ \A q \in Copies \cup {"child"} : q # p => holds'[q] = holds[q]
  BY DEF Take, TypeOK
<1>4. QED
  BY <1>1, <1>2, <1>3

LEMMA PutLengths ==
  ASSUME TypeOK, NEW p \in Copies \cup {"child"}, NEW b \in Buffers, Put(p, b)
  PROVE  /\ Len(holds[p]) > 0 /\ Len(holds'[p]) = 0
         /\ Len(buffer'[b]) = Len(buffer[b]) + Len(holds[p])
         /\ \A c \in Buffers : c # b => buffer'[c] = buffer[c]
         /\ \A q \in Copies \cup {"child"} : q # p => holds'[q] = holds[q]
<1>1. buffer[b] \in Seq(Chunks) /\ holds[p] \in Seq(Chunks) /\ holds[p] # <<>>
  BY DEF Put, TypeOK
<1>2. buffer'[b] = buffer[b] \o holds[p] /\ holds'[p] = <<>>
  BY DEF Put, TypeOK
<1>3. /\ \A c \in Buffers : c # b => buffer'[c] = buffer[c]
      /\ \A q \in Copies \cup {"child"} : q # p => holds'[q] = holds[q]
  BY DEF Put, TypeOK
<1>4. QED
  BY <1>1, <1>2, <1>3

\* A chunk that goes from one place to the next has one less to go.
LEMMA TakeShrinks ==
  ASSUME TypeOK, TypeOK', UNCHANGED <<kind, sent>>, at'["handler"] = at["handler"],
         \/ Take("recv", "inbound") \/ Take("child", "stdin") \/ Take("send", "stdout")
  PROVE  ChunksNext < ChunksLeft
<1>1. CASE Take("recv", "inbound")
  <2>1. /\ InInboundNext + 1 = InInbound /\ HeldByRecv = 0 /\ HeldByRecvNext = 1
        /\ UnsentNext = Unsent /\ InStdinNext = InStdin /\ HeldByChildNext = HeldByChild
        /\ InStdoutNext = InStdout /\ HeldBySendNext = HeldBySend
        /\ InOutboundNext = InOutbound /\ MessageNext = Message
    BY <1>1, Lengths, TakeLengths DEF Buffers, Copies, Unsent, UnsentNext, InInbound,
       InInboundNext, HeldByRecv, HeldByRecvNext, InStdin, InStdinNext, HeldByChild,
       HeldByChildNext, InStdout, InStdoutNext, HeldBySend, HeldBySendNext, InOutbound,
       InOutboundNext, Message, MessageNext
  <2>2. QED
    BY <2>1, Lengths, LengthsNext DEF ChunksLeft, ChunksNext
<1>2. CASE Take("child", "stdin")
  <2>1. /\ InStdinNext + 1 = InStdin /\ HeldByChild = 0 /\ HeldByChildNext = 1
        /\ UnsentNext = Unsent /\ InInboundNext = InInbound /\ HeldByRecvNext = HeldByRecv
        /\ InStdoutNext = InStdout /\ HeldBySendNext = HeldBySend
        /\ InOutboundNext = InOutbound /\ MessageNext = Message
    BY <1>2, Lengths, TakeLengths DEF Buffers, Copies, Unsent, UnsentNext, InInbound,
       InInboundNext, HeldByRecv, HeldByRecvNext, InStdin, InStdinNext, HeldByChild,
       HeldByChildNext, InStdout, InStdoutNext, HeldBySend, HeldBySendNext, InOutbound,
       InOutboundNext, Message, MessageNext
  <2>2. QED
    BY <2>1, Lengths, LengthsNext DEF ChunksLeft, ChunksNext
<1>3. CASE Take("send", "stdout")
  <2>1. /\ InStdoutNext + 1 = InStdout /\ HeldBySend = 0 /\ HeldBySendNext = 1
        /\ UnsentNext = Unsent /\ InInboundNext = InInbound /\ HeldByRecvNext = HeldByRecv
        /\ InStdinNext = InStdin /\ HeldByChildNext = HeldByChild
        /\ InOutboundNext = InOutbound
    BY <1>3, Lengths, TakeLengths DEF Buffers, Copies, Unsent, UnsentNext, InInbound,
       InInboundNext, HeldByRecv, HeldByRecvNext, InStdin, InStdinNext, HeldByChild,
       HeldByChildNext, InStdout, InStdoutNext, HeldBySend, HeldBySendNext, InOutbound,
       InOutboundNext
  <2>2. QED
    BY <2>1, Lengths, LengthsNext DEF ChunksLeft, ChunksNext
<1>4. QED
  BY <1>1, <1>2, <1>3

LEMMA PutShrinks ==
  ASSUME TypeOK, TypeOK', UNCHANGED <<kind, sent>>, at'["handler"] = at["handler"],
         \/ Put("recv", "stdin") \/ Put("child", "stdout") \/ Put("send", "outbound")
  PROVE  ChunksNext < ChunksLeft
<1>1. CASE Put("recv", "stdin")
  <2>1. /\ HeldByRecv > 0 /\ HeldByRecvNext = 0 /\ InStdinNext = InStdin + HeldByRecv
    BY <1>1, PutLengths DEF Buffers, Copies, HeldByRecv, HeldByRecvNext, InStdin, InStdinNext
  <2>2. /\ UnsentNext = Unsent /\ InInboundNext = InInbound /\ HeldByChildNext = HeldByChild
        /\ InStdoutNext = InStdout /\ HeldBySendNext = HeldBySend
        /\ InOutboundNext = InOutbound /\ MessageNext = Message
    BY <1>1, PutLengths DEF Buffers, Copies, Unsent, UnsentNext, InInbound, InInboundNext,
       HeldByChild, HeldByChildNext, InStdout, InStdoutNext, HeldBySend, HeldBySendNext,
       InOutbound, InOutboundNext, Message, MessageNext
  <2>3. QED
    BY <2>1, <2>2, Lengths, LengthsNext DEF ChunksLeft, ChunksNext
<1>2. CASE Put("child", "stdout")
  <2>1. /\ HeldByChild > 0 /\ HeldByChildNext = 0 /\ InStdoutNext = InStdout + HeldByChild
    BY <1>2, PutLengths DEF Buffers, Copies, HeldByChild, HeldByChildNext, InStdout, InStdoutNext
  <2>2. /\ UnsentNext = Unsent /\ InInboundNext = InInbound /\ HeldByRecvNext = HeldByRecv
        /\ InStdinNext = InStdin /\ HeldBySendNext = HeldBySend
        /\ InOutboundNext = InOutbound /\ MessageNext = Message
    BY <1>2, PutLengths DEF Buffers, Copies, Unsent, UnsentNext, InInbound, InInboundNext,
       HeldByRecv, HeldByRecvNext, InStdin, InStdinNext, HeldBySend, HeldBySendNext,
       InOutbound, InOutboundNext, Message, MessageNext
  <2>3. QED
    BY <2>1, <2>2, Lengths, LengthsNext DEF ChunksLeft, ChunksNext
<1>3. CASE Put("send", "outbound")
  <2>1. /\ HeldBySend > 0 /\ HeldBySendNext = 0 /\ InOutboundNext = InOutbound + HeldBySend
        /\ UnsentNext = Unsent /\ InInboundNext = InInbound /\ HeldByRecvNext = HeldByRecv
        /\ InStdinNext = InStdin /\ HeldByChildNext = HeldByChild /\ InStdoutNext = InStdout
    BY <1>3, Lengths, PutLengths DEF Buffers, Copies, Unsent, UnsentNext, InInbound,
       InInboundNext, HeldByRecv, HeldByRecvNext, InStdin, InStdinNext, HeldByChild,
       HeldByChildNext, InStdout, InStdoutNext, HeldBySend, HeldBySendNext, InOutbound,
       InOutboundNext
  <2>2. QED
    BY <2>1, Lengths, LengthsNext DEF ChunksLeft, ChunksNext
<1>4. QED
  BY <1>1, <1>2, <1>3

LEMMA MoveShrinks ==
  ASSUME TypeOK, TypeOK',
         \/ ClientSends \/ ClientReads \/ ChildReads \/ ChildWrites \/ RecvRead \/ RecvWrite
         \/ SendRead \/ SendWrite
  PROVE  ChunksNext < ChunksLeft
<1>1. CASE ClientSends
  <2>1. /\ Len(buffer'["inbound"]) = Len(buffer["inbound"]) + 1
        /\ sent' = sent + 1 /\ sent < MaxChunks /\ sent \in Nat /\ MaxChunks \in Nat
        /\ buffer'["stdin"] = buffer["stdin"] /\ buffer'["stdout"] = buffer["stdout"]
        /\ buffer'["outbound"] = buffer["outbound"] /\ UNCHANGED <<kind, holds, at>>
    BY <1>1, SessionAssumption DEF ClientSends, TypeOK, Buffers, SessionAssumption
  <2>2. UnsentNext + 1 = Unsent
    <3>1. \A m, n \in Nat : n < m => (m - (n + 1)) + 1 = m - n
      OBVIOUS
    <3>2. QED
      BY <2>1, <3>1 DEF Unsent, UnsentNext
  <2>3. /\ InInboundNext = InInbound + 1
        /\ HeldByRecvNext = HeldByRecv /\ InStdinNext = InStdin
        /\ HeldByChildNext = HeldByChild /\ InStdoutNext = InStdout
        /\ HeldBySendNext = HeldBySend /\ InOutboundNext = InOutbound
        /\ MessageNext = Message
    BY <2>1 DEF InInbound, InInboundNext, HeldByRecv, HeldByRecvNext, InStdin, InStdinNext,
       HeldByChild, HeldByChildNext, InStdout, InStdoutNext, HeldBySend, HeldBySendNext,
       InOutbound, InOutboundNext, Message, MessageNext
  <2>4. QED
    BY <2>2, <2>3, Lengths, LengthsNext DEF ChunksLeft, ChunksNext
<1>2. CASE ClientReads
  <2>1. buffer["outbound"] \in Seq(Chunks) /\ buffer["outbound"] # <<>>
    BY <1>2 DEF ClientReads, TypeOK, Buffers
  <2>2. Len(Tail(buffer["outbound"])) + 1 = Len(buffer["outbound"])
    BY <2>1
  <2>3. /\ buffer'["outbound"] = Tail(buffer["outbound"])
        /\ buffer'["stdin"] = buffer["stdin"] /\ buffer'["stdout"] = buffer["stdout"]
        /\ buffer'["inbound"] = buffer["inbound"] /\ UNCHANGED <<kind, sent, holds, at>>
    BY <1>2 DEF ClientReads, TypeOK, Buffers
  <2>4. /\ InOutboundNext + 1 = InOutbound
        /\ UnsentNext = Unsent /\ InInboundNext = InInbound /\ HeldByRecvNext = HeldByRecv
        /\ InStdinNext = InStdin /\ HeldByChildNext = HeldByChild /\ InStdoutNext = InStdout
        /\ HeldBySendNext = HeldBySend /\ MessageNext = Message
    BY <2>2, <2>3 DEF Unsent, UnsentNext, InInbound, InInboundNext, HeldByRecv,
       HeldByRecvNext, InStdin, InStdinNext, HeldByChild, HeldByChildNext, InStdout,
       InStdoutNext, HeldBySend, HeldBySendNext, InOutbound, InOutboundNext, Message,
       MessageNext
  <2>5. QED
    BY <2>4, Lengths, LengthsNext DEF ChunksLeft, ChunksNext
<1>3. CASE ChildReads \/ ChildWrites \/ RecvRead \/ RecvWrite \/ SendWrite
  <2>1. /\ UNCHANGED <<kind, sent, at>>
        /\ \/ Take("recv", "inbound") \/ Take("child", "stdin")
           \/ Put("recv", "stdin") \/ Put("child", "stdout") \/ Put("send", "outbound")
    BY <1>3 DEF ChildReads, ChildWrites, RecvRead, RecvWrite, SendWrite
  <2>2. QED
    BY <2>1, TakeShrinks, PutShrinks
<1>4. CASE SendRead
  <2>1. CASE Take("send", "stdout")
    BY <1>4, <2>1, TakeShrinks DEF SendRead
  <2>2. CASE ~Take("send", "stdout")
    <3>1. /\ buffer["stdout"] # <<>> /\ UNCHANGED <<kind, sent, at>>
          /\ holds' = [holds EXCEPT !["send"] = Append(@, Head(buffer["stdout"]))]
          /\ buffer' = [buffer EXCEPT !["stdout"] = Tail(@)]
      BY <1>4, <2>2 DEF SendRead
    <3>2. buffer["stdout"] \in Seq(Chunks) /\ holds["send"] \in Seq(Chunks)
      BY DEF TypeOK, Buffers, Copies
    <3>3. /\ Len(Tail(buffer["stdout"])) + 1 = Len(buffer["stdout"])
          /\ Len(Append(holds["send"], Head(buffer["stdout"]))) = Len(holds["send"]) + 1
      BY <3>1, <3>2
    <3>4. /\ buffer'["stdout"] = Tail(buffer["stdout"])
          /\ holds'["send"] = Append(holds["send"], Head(buffer["stdout"]))
          /\ buffer'["stdin"] = buffer["stdin"] /\ buffer'["inbound"] = buffer["inbound"]
          /\ buffer'["outbound"] = buffer["outbound"]
          /\ holds'["recv"] = holds["recv"] /\ holds'["child"] = holds["child"]
      BY <3>1 DEF TypeOK, Buffers, Copies
    <3>5. /\ InStdoutNext + 1 = InStdout /\ HeldBySendNext = HeldBySend + 1
          /\ UnsentNext = Unsent /\ InInboundNext = InInbound /\ HeldByRecvNext = HeldByRecv
          /\ InStdinNext = InStdin /\ HeldByChildNext = HeldByChild
          /\ InOutboundNext = InOutbound
      BY <3>1, <3>3, <3>4 DEF Unsent, UnsentNext, InInbound, InInboundNext, HeldByRecv,
         HeldByRecvNext, InStdin, InStdinNext, HeldByChild, HeldByChildNext, InStdout,
         InStdoutNext, HeldBySend, HeldBySendNext, InOutbound, InOutboundNext
    <3>6. MessageNext <= Message + 1
      BY <3>1, <3>5, Lengths DEF Message, MessageNext, HeldBySend, HeldBySendNext
    <3>7. QED
      BY <3>5, <3>6, Lengths, LengthsNext DEF ChunksLeft, ChunksNext
  <2>3. QED
    BY <2>1, <2>2
<1>5. QED
  BY <1>1, <1>2, <1>3, <1>4

\* The client or the child ends.
LEMMA EndingShrinks ==
  ASSUME TypeOK, TypeOK', ClientHalfCloses \/ ClientLeaves \/ ChildExits \/ ChildDies
  PROVE  ChunksNext <= ChunksLeft /\ TurnsNext < TurnsLeft
<1>1. /\ UNCHANGED <<kind, sent, buffer, holds, at>>
      /\ \/ client = "open" /\ client' = "half" /\ child' = child
         \/ client \in {"open", "half"} /\ client' = "gone" /\ child' = child
         \/ child = "running" /\ child' # "running" /\ client' = client
  BY DEF ClientHalfCloses, ClientLeaves, ChildExits, ChildDies, TypeOK
<1>2. /\ UnsentNext = Unsent /\ InInboundNext = InInbound /\ HeldByRecvNext = HeldByRecv
      /\ InStdinNext = InStdin /\ HeldByChildNext = HeldByChild /\ InStdoutNext = InStdout
      /\ HeldBySendNext = HeldBySend /\ InOutboundNext = InOutbound
      /\ MessageNext = Message
  BY <1>1 DEF Unsent, UnsentNext, InInbound, InInboundNext, HeldByRecv, HeldByRecvNext,
     InStdin, InStdinNext, HeldByChild, HeldByChildNext, InStdout, InStdoutNext, HeldBySend,
     HeldBySendNext, InOutbound, InOutboundNext, Message, MessageNext
<1>3. /\ RecvNext = RecvLeft /\ SendNext = SendLeft /\ HandlerNext = HandlerLeft
      /\ \/ ClientNext < ClientLeft /\ ChildNext = ChildLeft
         \/ ClientNext = ClientLeft /\ ChildNext < ChildLeft
  BY <1>1 DEF RecvLeft, SendLeft, HandlerLeft, RecvNext, SendNext, HandlerNext,
     ClientLeft, ChildLeft, ClientNext, ChildNext
<1>4. ChunksNext <= ChunksLeft
  BY <1>2, Lengths DEF ChunksLeft, ChunksNext
<1>5. TurnsNext < TurnsLeft
  BY <1>3, Turns DEF TurnsLeft, TurnsNext
<1>6. QED
  BY <1>4, <1>5

\* The body of a request has been read: only its newline is new.
LEMMA NewlineShrinks ==
  ASSUME TypeOK, TypeOK', BodyEnds
  PROVE  ChunksNext = ChunksLeft + 7 /\ TurnsNext + 8 = TurnsLeft
<1>1. /\ UNCHANGED <<kind, sent, client, child, buffer>>
      /\ at["recv"] = "copy" /\ at'["recv"] = "finish" /\ at'["send"] = at["send"]
      /\ at'["handler"] = at["handler"]
      /\ holds["recv"] = <<>> /\ holds'["recv"] = <<Newline>>
      /\ holds'["send"] = holds["send"] /\ holds'["child"] = holds["child"]
  BY DEF BodyEnds, TypeOK, Processes, Copies
<1>2. /\ HeldByRecv = 0 /\ HeldByRecvNext = 1
      /\ UnsentNext = Unsent /\ InInboundNext = InInbound /\ InStdinNext = InStdin
      /\ HeldByChildNext = HeldByChild /\ InStdoutNext = InStdout
      /\ HeldBySendNext = HeldBySend /\ InOutboundNext = InOutbound
      /\ MessageNext = Message
  BY <1>1 DEF Unsent, UnsentNext, InInbound, InInboundNext, HeldByRecv, HeldByRecvNext,
     InStdin, InStdinNext, HeldByChild, HeldByChildNext, InStdout, InStdoutNext, HeldBySend,
     HeldBySendNext, InOutbound, InOutboundNext, Message, MessageNext
<1>3. /\ RecvLeft = 10 /\ RecvNext = 2 /\ SendNext = SendLeft /\ HandlerNext = HandlerLeft
      /\ ClientNext = ClientLeft /\ ChildNext = ChildLeft
  BY <1>1 DEF RecvLeft, SendLeft, HandlerLeft, RecvNext, SendNext, HandlerNext, TurnsOf,
     ClientLeft, ChildLeft, ClientNext, ChildNext
<1>4. ChunksNext = ChunksLeft + 7
  BY <1>2, Lengths DEF ChunksLeft, ChunksNext
<1>5. TurnsNext + 8 = TurnsLeft
  BY <1>3, Turns DEF TurnsLeft, TurnsNext
<1>6. QED
  BY <1>4, <1>5

\* A process goes on to its next place.
LEMMA TurnShrinks ==
  ASSUME TypeOK, TypeOK', CloseInv, RequestInv,
         \/ BodyFails \/ LastWrite \/ CloseWriterAndRead \/ ReplyRead
         \/ \E p \in Copies : CopyReturns(p)
  PROVE  ChunksNext <= ChunksLeft /\ TurnsNext < TurnsLeft
<1>1. /\ UNCHANGED <<kind, sent, client, child>> /\ at'["handler"] = at["handler"]
      /\ \/ /\ at["recv"] = "copy" /\ at'["recv"] = "failed"
            /\ at["send"] = "later" /\ at'["send"] = "done"
         \/ /\ at["recv"] = "close" /\ at'["recv"] = "done"
            /\ at["send"] = "later" /\ at'["send"] = "copy"
         \/ at["send"] = "copy" /\ at'["send"] = "done" /\ at'["recv"] = at["recv"]
         \/ at["recv"] = "copy" /\ at'["recv"] = "done" /\ at'["send"] = at["send"]
         \/ at["recv"] = "finish" /\ at'["recv"] = "close" /\ at'["send"] = at["send"]
  BY DEF BodyFails, LastWrite, CloseWriterAndRead, ReplyRead, CopyReturns, RequestInv, TypeOK,
     Processes, Copies
<1>2. /\ RecvNext <= RecvLeft /\ SendNext <= SendLeft /\ HandlerNext = HandlerLeft
      /\ RecvNext < RecvLeft \/ SendNext < SendLeft
      /\ ClientNext = ClientLeft /\ ChildNext = ChildLeft
  BY <1>1, Turns DEF RecvLeft, SendLeft, HandlerLeft, RecvNext, SendNext, HandlerNext, TurnsOf,
     ClientLeft, ChildLeft, ClientNext, ChildNext
<1>3. TurnsNext < TurnsLeft
  BY <1>2, Turns DEF TurnsLeft, TurnsNext
<1>4. ChunksNext <= ChunksLeft
  <2>1. CASE UNCHANGED <<holds, buffer>>
    <3>1. /\ UnsentNext = Unsent /\ InInboundNext = InInbound /\ HeldByRecvNext = HeldByRecv
          /\ InStdinNext = InStdin /\ HeldByChildNext = HeldByChild /\ InStdoutNext = InStdout
          /\ HeldBySendNext = HeldBySend /\ InOutboundNext = InOutbound
          /\ MessageNext = Message
      BY <1>1, <2>1 DEF Unsent, UnsentNext, InInbound, InInboundNext, HeldByRecv,
         HeldByRecvNext, InStdin, InStdinNext, HeldByChild, HeldByChildNext, InStdout,
         InStdoutNext, HeldBySend, HeldBySendNext, InOutbound, InOutboundNext, Message,
         MessageNext
    <3>2. QED
      BY <3>1, Lengths DEF ChunksLeft, ChunksNext
  <2>2. CASE Put("recv", "stdin")
    <3>1. ChunksNext < ChunksLeft
      BY <1>1, <2>2, PutShrinks
    <3>2. QED
      BY <3>1, Lengths, LengthsNext DEF ChunksLeft, ChunksNext
  <2>3. QED
    BY <2>1, <2>2 DEF BodyFails, LastWrite, CloseWriterAndRead, ReplyRead, CopyReturns
<1>5. QED
  BY <1>3, <1>4

\* The message of dns is what was counted for it, and a reset only takes away.
LEMMA CloseShrinks ==
  ASSUME TypeOK, TypeOK', CloseInv, FlowInv, NEW p \in Processes, BeginClose(p) \/ CloseNext(p)
  PROVE  ChunksNext <= ChunksLeft /\ TurnsNext < TurnsLeft
<1>1. UNCHANGED <<kind, sent, client, child, holds>>
  BY DEF BeginClose, CloseNext
<1>2. /\ \A q \in Processes : q # p => at'[q] = at[q]
      /\ \/ at[p] \in {"copy", "wait"} /\ at'[p] \in {"Reader", "conn"}
         \/ at[p] = "Reader" /\ at'[p] = "Writer"
         \/ at[p] = "Writer" /\ at'[p] = "conn"
         \/ at[p] = "conn" /\ at'[p] = "done"
  BY DEF BeginClose, CloseNext, TypeOK, AfterClosing, Resources
<1>3. TurnsNext < TurnsLeft
  <2>1. TurnsOf(at'[p]) < TurnsOf(at[p])
    BY <1>2 DEF TurnsOf
  <2>2. p = "recv" \/ p = "send" \/ p = "handler"
    BY DEF Processes, Copies
  <2>3. /\ RecvNext <= RecvLeft /\ SendNext <= SendLeft /\ HandlerNext <= HandlerLeft
        /\ RecvNext < RecvLeft \/ SendNext < SendLeft \/ HandlerNext < HandlerLeft
    BY <1>2, <2>1, <2>2, Turns DEF RecvLeft, SendLeft, HandlerLeft, RecvNext, SendNext,
       HandlerNext, Processes, Copies
  <2>4. ClientNext = ClientLeft /\ ChildNext = ChildLeft
    BY <1>1 DEF ClientLeft, ChildLeft, ClientNext, ChildNext
  <2>5. QED
    BY <2>3, <2>4, Turns DEF TurnsLeft, TurnsNext
<1>4. /\ UnsentNext = Unsent /\ HeldByRecvNext = HeldByRecv
      /\ HeldByChildNext = HeldByChild /\ HeldBySendNext = HeldBySend
  BY <1>1 DEF Unsent, UnsentNext, HeldByRecv, HeldByRecvNext, HeldByChild, HeldByChildNext,
     HeldBySend, HeldBySendNext
<1>5. /\ InInboundNext = InInbound /\ InStdinNext = InStdin /\ InStdoutNext = InStdout
      /\ InOutboundNext + MessageNext <= InOutbound + Message
  <2>1. /\ buffer'["inbound"] = buffer["inbound"] /\ buffer'["stdin"] = buffer["stdin"]
        /\ buffer'["stdout"] = buffer["stdout"]
    BY DEF BeginClose, CloseNext, Answers, TypeOK, Buffers
  <2>2. InInboundNext = InInbound /\ InStdinNext = InStdin /\ InStdoutNext = InStdout
    BY <2>1 DEF InInbound, InInboundNext, InStdin, InStdinNext, InStdout, InStdoutNext
  <2>3. CASE \/ buffer' = buffer
             \/ kind # "dns" /\ buffer' = [buffer EXCEPT !["outbound"] = <<>>]
    <3>1. InOutboundNext <= InOutbound
      <4>1. buffer'["outbound"] = buffer["outbound"] \/ buffer'["outbound"] = <<>>
        BY <2>3 DEF TypeOK, Buffers
      <4>2. InOutboundNext = InOutbound \/ InOutboundNext = 0
        BY <4>1 DEF InOutbound, InOutboundNext
      <4>3. QED
        BY <4>2, Lengths
    <3>2. MessageNext <= Message
      <4>1. at["handler"] = "done" => at'["handler"] = "done"
        BY <1>2 DEF Processes
      <4>2. MessageNext = Message \/ MessageNext = 0
        BY <1>1, <4>1 DEF Message, MessageNext
      <4>3. QED
        BY <4>2, Lengths
    <3>3. QED
      BY <2>2, <3>1, <3>2, Lengths, LengthsNext
  <2>4. CASE Answers(p)
    <3>1. p = "handler" /\ at[p] = "conn" /\ at'[p] = "done" /\ kind = "dns"
      BY <1>2, <2>4 DEF Answers, CloseInv, Processes, Resources
    <3>2. buffer["outbound"] = <<>>
      BY <3>1 DEF CloseInv, FlowInv
    <3>3. buffer'["outbound"] = holds["send"]
      BY <2>4 DEF Answers, TypeOK, Buffers
    <3>4. InOutbound = 0 /\ InOutboundNext = HeldBySend
      BY <3>2, <3>3 DEF InOutbound, InOutboundNext, HeldBySend
    <3>5. Message = HeldBySend /\ MessageNext = 0
      BY <1>1, <3>1 DEF Message, MessageNext, HeldBySend
    <3>6. QED
      BY <2>2, <3>4, <3>5, Lengths
  <2>5. QED
    BY <2>3, <2>4 DEF BeginClose, CloseNext
<1>6. ChunksNext <= ChunksLeft
  BY <1>4, <1>5, Lengths, LengthsNext DEF ChunksLeft, ChunksNext
<1>7. QED
  BY <1>3, <1>6

\* Every step leaves less to do, so that a connection or request takes finitely many:
\* the two copies, the child and the client never go round without moving a chunk on or
\* coming nearer to the end.  With SessionNeverStops, whoever waits for a session to end
\* waits for finitely many steps, one of which can always be taken (tcp.go:95-118,
\* http/listen.go:110-145).
THEOREM SessionRunsOut == Spec => [][LeftShrinks]_vars
<1>1. SessionInv /\ SessionInv' /\ [Next]_vars => [LeftShrinks]_vars
  <2> SUFFICES ASSUME SessionInv, SessionInv', Next
               PROVE  LeftShrinks
    OBVIOUS
  <2>1. TypeOK /\ TypeOK' /\ CloseInv /\ RequestInv /\ FlowInv
    BY DEF SessionInv
  <2>2. CASE \/ ClientSends \/ ClientReads \/ ChildReads \/ ChildWrites \/ RecvRead
             \/ RecvWrite \/ SendRead \/ SendWrite
    <3>1. ChunksNext < ChunksLeft
      BY <2>1, <2>2, MoveShrinks
    <3>2. UNCHANGED <<client, child, at>>
      BY <2>2 DEF ClientSends, ClientReads, ChildReads, ChildWrites, RecvRead, RecvWrite,
         SendRead, SendWrite
    <3>3. /\ RecvNext = RecvLeft /\ SendNext = SendLeft /\ HandlerNext = HandlerLeft
          /\ ClientNext = ClientLeft /\ ChildNext = ChildLeft
      BY <3>2 DEF RecvLeft, SendLeft, HandlerLeft, RecvNext, SendNext, HandlerNext,
         ClientLeft, ChildLeft, ClientNext, ChildNext
    <3>4. TurnsNext <= TurnsLeft
      BY <3>3, Turns DEF TurnsLeft, TurnsNext
    <3>5. QED
      BY <2>1, <3>1, <3>4, Shrinks
  <2>3. CASE ClientHalfCloses \/ ClientLeaves \/ ChildExits \/ ChildDies
    BY <2>1, <2>3, EndingShrinks, Shrinks
  <2>4. CASE BodyEnds
    BY <2>1, <2>4, NewlineShrinks, Shrinks
  <2>5. CASE \/ BodyFails \/ LastWrite \/ CloseWriterAndRead \/ ReplyRead
             \/ \E p \in Copies : CopyReturns(p)
    BY <2>1, <2>5, TurnShrinks, Shrinks
  <2>6. CASE \E p \in Processes : BeginClose(p) \/ CloseNext(p)
    BY <2>1, <2>6, CloseShrinks, Shrinks
  <2>7. QED
    BY <2>2, <2>3, <2>4, <2>5, <2>6 DEF Next, Child, Recv, Send, End
<1>2. QED
  BY <1>1, SessionInvariant, PTL DEF Spec
=============================================================================
