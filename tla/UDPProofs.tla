------------------------------ MODULE UDPProofs ------------------------------
(***************************************************************************)
(* Proofs about UDP, for any addresses, packets and capacities.            *)
(*                                                                         *)
(* NothingMixedUp is inductive: every step moves one packet along the way  *)
(* of one address, and the packet in the buffer counts for the address it  *)
(* came from until the loop has written it.                                *)
(*                                                                         *)
(* NobodyWaitsForEver, LeftShrinks and EndIsFinal say what of              *)
(* ArrivedIsAnswered and NoChildIsLeft needs no fairness: what may be in   *)
(* the way of a packet, how many steps it takes, and that a server that    *)
(* ends does so for good.                                                  *)
(***************************************************************************)
EXTENDS UDP, TLAPS

Stages == Seq(Packets)

\* The packets of a, from the ones that have come back to the one to be written.
Way(a) == replies[a] \o carried[a] \o stdout[a] \o holds[a] \o stdin[a] \o Unwritten(a)

-----------------------------------------------------------------------------
\* Taking the first of a sequence.
LEMMA TakeFirst ==
  ASSUME NEW S, NEW q \in Seq(S), q # <<>>
  PROVE  /\ Head(q) \in S /\ Tail(q) \in Seq(S) /\ <<Head(q)>> \in Seq(S)
         /\ <<Head(q)>> \o Tail(q) = q
<1>1. Head(q) \in S /\ Tail(q) \in Seq(S)
  OBVIOUS
<1>2. <<Head(q)>> \in Seq(S)
  BY <1>1
<1>3. <<Head(q)>> \o Tail(q) = q
  OBVIOUS
<1>4. QED
  BY <1>1, <1>2, <1>3

\* Moving it, or all of a sequence, to the sequence before changes nothing when the
\* two are read one after the other.
LEMMA Shift ==
  ASSUME NEW S, NEW x \in Seq(S), NEW q \in Seq(S)
  PROVE  /\ x \o <<>> = x
         /\ q # <<>> => x \o <<>> \o q = x \o <<Head(q)>> \o Tail(q)
<1>1. x \o <<>> = x
  OBVIOUS
<1>2. ASSUME q # <<>> PROVE x \o <<Head(q)>> \o Tail(q) = x \o q
  <2>1. <<Head(q)>> \in Seq(S) /\ Tail(q) \in Seq(S) /\ <<Head(q)>> \o Tail(q) = q
    BY <1>2, TakeFirst
  <2>2. x \o <<Head(q)>> \o Tail(q) = x \o (<<Head(q)>> \o Tail(q))
    BY <2>1
  <2>3. QED
    BY <2>1, <2>2
<1>3. QED
  BY <1>1, <1>2

\* Facts about sequences of any kind.
LEMMA AppendOne ==
  ASSUME NEW S, NEW x \in Seq(S), NEW e \in S
  PROVE  Append(x, e) = x \o <<e>>
OBVIOUS

LEMMA Assoc ==
  ASSUME NEW S, NEW x \in Seq(S), NEW y \in Seq(S), NEW z \in Seq(S)
  PROVE  x \o y \o z = x \o (y \o z) /\ x \o y \in Seq(S)
OBVIOUS

\* Two sequences in the middle become one and leave an empty one behind.
LEMMA JoinNext ==
  ASSUME NEW S, NEW x \in Seq(S), NEW y \in Seq(S), NEW z \in Seq(S), NEW q \in Seq(S)
  PROVE  x \o (y \o z) \o <<>> \o q = x \o y \o z \o q
<1>1. x \o y \o z = x \o (y \o z) /\ y \o z \in Seq(S) /\ x \o (y \o z) \in Seq(S)
  BY Assoc
<1>2. x \o (y \o z) \o <<>> = x \o (y \o z)
  BY <1>1
<1>3. QED
  BY <1>1, <1>2

LEMMA StageAssoc ==
  /\ \A x, y \in Stages : x \o y \in Stages
  /\ \A x, y, z \in Stages : x \o y \o z = x \o (y \o z)
BY Assoc DEF Stages

-----------------------------------------------------------------------------
\* The types of what is on the way.
LEMMA WayType ==
  ASSUME TypeOK, NEW a \in Addresses
  PROVE  /\ replies[a] \in Stages /\ carried[a] \in Stages /\ stdout[a] \in Stages
         /\ holds[a] \in Stages /\ stdin[a] \in Stages /\ read[a] \in Stages
         /\ Unwritten(a) \in Stages /\ <<>> \in Stages
BY DEF TypeOK, Stages, Unwritten

\* A step of the loop keeps types.
LEMMA LoopType ==
  ASSUME TypeOK, ReadFrom \/ Write \/ WriteFails
  PROVE  TypeOK'
<1>1. CASE ReadFrom
  <2> DEFINE p == Head(socket)
             a == Head(socket).from
  <2>1. socket \in Seq(Packets) /\ socket # <<>>
    BY <1>1 DEF ReadFrom, TypeOK
  <2>2. p \in Packets /\ Tail(socket) \in Seq(Packets) /\ <<p>> \in Seq(Packets) /\ <<p>> # <<>>
    BY <2>1, TakeFirst
  <2>3. a \in Addresses
    BY <2>2 DEF Packets
  <2>4. \A q \in Seq(Packets) : Append(q, p) \in Seq(Packets)
    BY <2>2
  <2>5. /\ streams' = streams \cup {a}
        /\ child' = IF a \in streams THEN child ELSE [child EXCEPT ![a] = "running"]
        /\ copy' = IF a \in streams THEN copy ELSE [copy EXCEPT ![a] = "running"]
        /\ read' = [read EXCEPT ![a] = Append(@, p)]
        /\ socket' = Tail(socket) /\ buf' = <<p>> /\ loop' = "write"
        /\ UNCHANGED <<sent, stdin, holds, stdout, carried, replies>>
    BY <1>1 DEF ReadFrom, way
  <2> HIDE DEF p, a
  <2>6. read' \in [Addresses -> Seq(Packets)]
    BY <2>3, <2>4, <2>5 DEF TypeOK
  <2>7. /\ child' \in [Addresses -> {"none", "running", "stalled", "exited"}]
        /\ copy' \in [Addresses -> {"none", "running", "ended"}]
        /\ \A b \in Addresses : b \in streams' <=> child'[b] # "none"
    BY <2>3, <2>5 DEF TypeOK
  <2>8. QED
    BY <2>2, <2>5, <2>6, <2>7 DEF TypeOK
<1>2. CASE Write
  <2> DEFINE a == buf[1].from
  <2>1. /\ stdin' = [stdin EXCEPT ![a] = @ \o buf] /\ loop' = "read"
        /\ UNCHANGED <<sent, socket, buf, streams, child, copy, holds, stdout, carried, read, replies>>
    BY <1>2 DEF Write
  <2>2. stdin \in [Addresses -> Seq(Packets)] /\ buf \in Seq(Packets)
    BY DEF TypeOK
  <2> HIDE DEF a
  <2>3. \A q \in Seq(Packets) : q \o buf \in Seq(Packets)
    BY <2>2, Assoc
  <2>4. stdin' \in [Addresses -> Seq(Packets)]
    BY <2>1, <2>2, <2>3
  <2>5. QED
    BY <2>1, <2>4 DEF TypeOK
<1>3. CASE WriteFails
  BY <1>3 DEF WriteFails, TypeOK, way
<1>4. QED
  BY <1>1, <1>2, <1>3

\* So does one of a client or a child.
LEMMA ChildType ==
  ASSUME TypeOK, NEW a \in Addresses,
         ClientSends(a) \/ ChildReads(a) \/ ChildWrites(a) \/ ChildExits(a) \/ ChildStalls(a)
  PROVE  TypeOK'
<1>1. CASE ClientSends(a)
  <2> DEFINE p == [from |-> a, n |-> sent[a] + 1]
  <2>1. MaxPackets[a] \in Nat /\ sent[a] \in Nat /\ sent[a] < MaxPackets[a]
    BY <1>1, UDPAssumption DEF ClientSends, TypeOK, UDPAssumption
  <2>2. p \in Packets
    BY <2>1 DEF Packets
  <2>3. sent' \in [Addresses -> Nat] /\ \A b \in Addresses : sent'[b] <= MaxPackets[b]
    <3>1. sent \in [Addresses -> Nat] /\ \A b \in Addresses : sent[b] <= MaxPackets[b]
      BY DEF TypeOK
    <3>2. sent' = [sent EXCEPT ![a] = sent[a] + 1]
      BY <1>1 DEF ClientSends
    <3>3. sent[a] + 1 \in Nat /\ sent[a] + 1 <= MaxPackets[a]
      BY <2>1
    <3>4. QED
      BY <3>1, <3>2, <3>3
  <2>4. socket' = socket \/ socket' = Append(socket, p)
    BY <1>1 DEF ClientSends
  <2> HIDE DEF p
  <2>5. socket' \in Seq(Packets)
    <3>1. socket \in Seq(Packets)
      BY DEF TypeOK
    <3>2. QED
      BY <2>2, <2>4, <3>1
  <2>6. UNCHANGED <<loop, buf, streams, child, copy, stdin, holds, stdout, carried, read, replies>>
    BY <1>1 DEF ClientSends, way
  <2>7. QED
    BY <2>3, <2>5, <2>6 DEF TypeOK
<1>2. CASE ChildReads(a)
  <2>1. <<Head(stdin[a])>> \in Seq(Packets) /\ Tail(stdin[a]) \in Seq(Packets)
    BY <1>2, WayType, TakeFirst DEF ChildReads, Stages
  <2>2. holds' \in [Addresses -> Seq(Packets)] /\ stdin' \in [Addresses -> Seq(Packets)]
    BY <1>2, <2>1 DEF ChildReads, TypeOK
  <2>3. QED
    BY <1>2, <2>2 DEF ChildReads, TypeOK
<1>3. CASE ChildWrites(a)
  <2>1. stdout[a] \o holds[a] \in Seq(Packets) /\ <<>> \in Seq(Packets)
    BY WayType DEF Stages
  <2>2. holds' \in [Addresses -> Seq(Packets)] /\ stdout' \in [Addresses -> Seq(Packets)]
    BY <1>3, <2>1 DEF ChildWrites, TypeOK
  <2>3. QED
    BY <1>3, <2>2 DEF ChildWrites, TypeOK
<1>4. CASE ChildExits(a) \/ ChildStalls(a)
  <2>1. /\ child' \in [Addresses -> {"none", "running", "stalled", "exited"}]
        /\ \A b \in Addresses : child'[b] # "none" <=> child[b] # "none"
    BY <1>4 DEF ChildExits, ChildStalls, TypeOK
  <2>2. QED
    BY <1>4, <2>1 DEF ChildExits, ChildStalls, TypeOK, way
<1>5. QED
  BY <1>1, <1>2, <1>3, <1>4

\* And one of a copy.
LEMMA CopyType ==
  ASSUME TypeOK, NEW a \in Addresses, CopyRead(a) \/ WriteTo(a) \/ CopyEnds(a)
  PROVE  TypeOK'
<1>1. CASE CopyRead(a)
  <2>1. <<Head(stdout[a])>> \in Seq(Packets) /\ Tail(stdout[a]) \in Seq(Packets)
    BY <1>1, WayType, TakeFirst DEF CopyRead, Stages
  <2>2. carried' \in [Addresses -> Seq(Packets)] /\ stdout' \in [Addresses -> Seq(Packets)]
    BY <1>1, <2>1 DEF CopyRead, TypeOK
  <2>3. QED
    BY <1>1, <2>2 DEF CopyRead, TypeOK
<1>2. CASE WriteTo(a)
  <2>1. replies[a] \o carried[a] \in Seq(Packets) /\ <<>> \in Seq(Packets)
    BY WayType DEF Stages
  <2>2. carried' \in [Addresses -> Seq(Packets)] /\ replies' \in [Addresses -> Seq(Packets)]
    BY <1>2, <2>1 DEF WriteTo, TypeOK
  <2>3. QED
    BY <1>2, <2>2 DEF WriteTo, TypeOK
<1>3. CASE CopyEnds(a)
  BY <1>3 DEF CopyEnds, TypeOK, way
<1>4. QED
  BY <1>1, <1>2, <1>3

\* Every state is well typed: a stream has a child from its first packet on, and
\* the loop never writes from an empty buffer (udp.go:35-72).
THEOREM UDPTypeCorrect == Spec => []TypeOK
<1>1. Init => TypeOK
  <2> SUFFICES ASSUME Init
               PROVE  TypeOK
    OBVIOUS
  <2>1. sent \in [Addresses -> Nat] /\ \A a \in Addresses : sent[a] <= MaxPackets[a]
    <3>1. \A a \in Addresses : MaxPackets[a] \in Nat
      BY UDPAssumption DEF UDPAssumption
    <3>2. QED
      BY <3>1 DEF Init
  <2>2. <<>> \in Seq(Packets) /\ None \in [Addresses -> Seq(Packets)]
    BY DEF None
  <2>3. QED
    BY <2>1, <2>2 DEF Init, TypeOK
<1>2. TypeOK /\ [Next]_vars => TypeOK'
  <2> SUFFICES ASSUME TypeOK, [Next]_vars
               PROVE  TypeOK'
    OBVIOUS
  <2>1. CASE UNCHANGED vars
    BY <2>1 DEF TypeOK, vars
  <2>2. QED
    BY <2>1, LoopType, ChildType, CopyType DEF Next
<1>3. QED
  BY <1>1, <1>2, PTL DEF Spec

-----------------------------------------------------------------------------
\* The loop takes a packet off the socket, writes it, or ends the program.
LEMMA LoopKeepsWay ==
  ASSUME TypeOK, NothingMixedUp, ReadFrom \/ Write \/ WriteFails
  PROVE  NothingMixedUp'
<1>1. CASE ReadFrom
  <2> SUFFICES ASSUME NEW a \in Addresses
               PROVE  Way(a)' = read'[a]
    BY DEF NothingMixedUp, Way
  <2> DEFINE x == replies[a] \o carried[a] \o stdout[a] \o holds[a] \o stdin[a]
             p == Head(socket)
  <2>1. /\ UNCHANGED way /\ UNCHANGED replies /\ loop = "read" /\ loop' = "write" /\ buf' = <<p>>
        /\ read' = [read EXCEPT ![p.from] = Append(@, p)]
    BY <1>1 DEF ReadFrom
  <2>2. x \in Stages /\ read[a] \in Stages
    BY WayType, Assoc DEF Stages
  <2>3. Way(a) = x \o <<>> /\ Way(a) = read[a]
    BY <2>1 DEF Way, Unwritten, NothingMixedUp
  <2>4. x = read[a]
    BY <2>2, <2>3, Shift DEF Stages
  <2>5. Way(a)' = x \o Unwritten(a)'
    BY <2>1 DEF Way, way
  <2>6. Unwritten(a)' = IF p.from = a THEN <<p>> ELSE <<>>
    BY <2>1 DEF Unwritten
  <2>7. DOMAIN read = Addresses
    BY DEF TypeOK
  <2>8. CASE p.from = a
    <3>1. read'[a] = Append(read[a], p)
      BY <2>1, <2>7, <2>8
    <3>2. p \in Packets
      BY <1>1, TakeFirst DEF ReadFrom, TypeOK
    <3>3. Append(read[a], p) = read[a] \o <<p>>
      BY <2>2, <3>2, AppendOne DEF Stages
    <3>4. QED
      BY <2>4, <2>5, <2>6, <2>8, <3>1, <3>3
  <2>9. CASE p.from # a
    BY <2>1, <2>2, <2>4, <2>5, <2>6, <2>7, <2>9, Shift DEF Stages
  <2>10. QED
    BY <2>8, <2>9
<1>2. CASE Write
  <2> SUFFICES ASSUME NEW a \in Addresses
               PROVE  Way(a)' = read'[a]
    BY DEF NothingMixedUp, Way
  <2> DEFINE x == replies[a] \o carried[a] \o stdout[a] \o holds[a]
  <2>1. /\ stdin' = [stdin EXCEPT ![buf[1].from] = @ \o buf] /\ loop = "write" /\ loop' = "read"
        /\ UNCHANGED <<holds, stdout, carried, read, replies>>
    BY <1>2 DEF Write
  <2>2. /\ x \in Stages /\ stdin[a] \in Stages /\ buf \in Stages
        /\ DOMAIN stdin = Addresses
    BY WayType, Assoc DEF Stages, TypeOK
  <2>3. Way(a) = read[a]
    BY <2>1 DEF NothingMixedUp, Way
  <2>4. Way(a)' = x \o stdin'[a] \o <<>>
    BY <2>1 DEF Way, Unwritten
  <2>5. CASE buf[1].from = a
    <3>1. Way(a) = x \o stdin[a] \o buf /\ stdin'[a] = stdin[a] \o buf
      BY <2>1, <2>2, <2>5 DEF Way, Unwritten
    <3>2. x \o stdin[a] \o buf = x \o (stdin[a] \o buf) /\ stdin[a] \o buf \in Stages
      BY <2>2, StageAssoc, Zenon
    <3>3. x \o (stdin[a] \o buf) \in Stages
      BY <2>2, <3>2, Assoc DEF Stages
    <3>4. x \o (stdin[a] \o buf) \o <<>> = x \o (stdin[a] \o buf)
      BY <3>3, Shift DEF Stages
    <3>5. QED
      BY <2>1, <2>3, <2>4, <3>1, <3>2, <3>4
  <2>6. CASE buf[1].from # a
    <3>1. Way(a) = x \o stdin[a] \o <<>> /\ stdin'[a] = stdin[a]
      BY <2>1, <2>2, <2>6 DEF Way, Unwritten
    <3>2. QED
      BY <2>1, <2>3, <2>4, <3>1
  <2>7. QED
    BY <2>5, <2>6
<1>3. CASE WriteFails
  BY <1>3 DEF WriteFails, NothingMixedUp
<1>4. QED
  BY <1>1, <1>2, <1>3

\* A child or a copy moves a packet of its own address.
LEMMA StreamKeepsWay ==
  ASSUME TypeOK, NothingMixedUp, NEW a \in Addresses,
         ChildReads(a) \/ ChildWrites(a) \/ CopyRead(a) \/ WriteTo(a)
  PROVE  NothingMixedUp'
<1> SUFFICES ASSUME NEW b \in Addresses, loop' # "over"
             PROVE  Way(b)' = read'[b]
  BY DEF NothingMixedUp, Way
<1>1. UNCHANGED <<loop, buf, read>> /\ Unwritten(b)' = Unwritten(b)
  BY DEF ChildReads, ChildWrites, CopyRead, WriteTo, Unwritten
<1>2. Way(b) = read[b]
  BY <1>1 DEF NothingMixedUp, Way
<1>3. CASE a # b
  <2>1. /\ replies'[b] = replies[b] /\ carried'[b] = carried[b] /\ stdout'[b] = stdout[b]
        /\ holds'[b] = holds[b] /\ stdin'[b] = stdin[b]
    BY <1>3 DEF ChildReads, ChildWrites, CopyRead, WriteTo, TypeOK
  <2>2. QED
    BY <1>1, <1>2, <2>1 DEF Way
<1>4. CASE a = b
  <2> DEFINE r == replies[a]  c == carried[a]  o == stdout[a]  h == holds[a]  s == stdin[a]
  <2>1. r \in Stages /\ c \in Stages /\ o \in Stages /\ h \in Stages /\ s \in Stages
    BY WayType
  <2>2. /\ DOMAIN replies = Addresses /\ DOMAIN carried = Addresses /\ DOMAIN stdout = Addresses
        /\ DOMAIN holds = Addresses /\ DOMAIN stdin = Addresses
    BY DEF TypeOK
  <2>3. /\ r \o c \in Stages /\ r \o c \o o \in Stages
    BY <2>1, Assoc DEF Stages
  <2>4. SUFFICES replies'[a] \o carried'[a] \o stdout'[a] \o holds'[a] \o stdin'[a] = r \o c \o o \o h \o s
    BY <1>1, <1>2, <1>4 DEF Way
  <2>5. CASE ChildReads(a)
    <3>1. /\ h = <<>> /\ s # <<>> /\ holds'[a] = <<Head(s)>> /\ stdin'[a] = Tail(s)
          /\ UNCHANGED <<replies, carried, stdout>>
      BY <2>2, <2>5 DEF ChildReads
    <3>2. r \o c \o o \o <<>> \o s = r \o c \o o \o <<Head(s)>> \o Tail(s)
      BY <2>1, <2>3, <3>1, Shift DEF Stages
    <3>3. QED
      BY <3>1, <3>2
  <2>6. CASE ChildWrites(a)
    <3>1. /\ holds'[a] = <<>> /\ stdout'[a] = o \o h
          /\ UNCHANGED <<replies, carried, stdin>>
      BY <2>2, <2>6 DEF ChildWrites
    <3> DEFINE rc == r \o c
    <3>2. rc \in Stages /\ o \in Stages /\ h \in Stages /\ s \in Stages
      BY <2>1, <2>3
    <3>3. rc \o (o \o h) \o <<>> \o s = rc \o o \o h \o s
      <4> HIDE DEF r, c, o, h, s, rc
      <4> QED BY <3>2, JoinNext DEF Stages
    <3>4. QED
      BY <3>1, <3>3
  <2>7. CASE CopyRead(a)
    <3>1. /\ c = <<>> /\ o # <<>> /\ carried'[a] = <<Head(o)>> /\ stdout'[a] = Tail(o)
          /\ UNCHANGED <<replies, holds, stdin>>
      BY <2>2, <2>7 DEF CopyRead
    <3>2. r \o <<>> \o o = r \o <<Head(o)>> \o Tail(o)
      BY <2>1, <3>1, Shift DEF Stages
    <3>3. QED
      BY <3>1, <3>2
  <2>8. CASE WriteTo(a)
    <3>1. /\ replies'[a] = r \o c /\ carried'[a] = <<>>
          /\ UNCHANGED <<stdout, holds, stdin>>
      BY <2>2, <2>8 DEF WriteTo
    <3>2. r \o c \o <<>> = r \o c
      BY <2>1, <2>3, Shift DEF Stages
    <3>3. QED
      BY <3>1, <3>2
  <2>9. QED
    BY <2>5, <2>6, <2>7, <2>8
<1>5. QED
  BY <1>3, <1>4

\* One loop and one buffer for all addresses, and yet every packet stays on the way
\* of its own address, once and in order, and comes back to it (udp.go:40-68).
THEOREM PacketsStayApart == Spec => []NothingMixedUp
<1>1. Init => NothingMixedUp
  <2>1. \A a \in Addresses : None[a] = <<>>
    BY DEF None
  <2>2. <<>> \o <<>> = <<>>
    OBVIOUS
  <2>3. SUFFICES ASSUME Init, NEW a \in Addresses
                 PROVE  Way(a) = read[a]
    BY DEF NothingMixedUp, Way
  <2>4. /\ replies[a] = <<>> /\ carried[a] = <<>> /\ stdout[a] = <<>> /\ holds[a] = <<>>
        /\ stdin[a] = <<>> /\ read[a] = <<>> /\ Unwritten(a) = <<>>
    BY <2>1, <2>3 DEF Init, Unwritten
  <2>5. QED
    BY <2>2, <2>3, <2>4 DEF Way
<1>2. TypeOK /\ NothingMixedUp /\ [Next]_vars => NothingMixedUp'
  <2> SUFFICES ASSUME TypeOK, NothingMixedUp, [Next]_vars
               PROVE  NothingMixedUp'
    OBVIOUS
  <2>1. ASSUME NEW a \in Addresses,
               ClientSends(a) \/ ChildExits(a) \/ ChildStalls(a) \/ CopyEnds(a)
        PROVE  NothingMixedUp'
    <3>1. UNCHANGED <<loop, buf, way, read, replies>>
      BY <2>1 DEF ClientSends, ChildExits, ChildStalls, CopyEnds
    <3>2. QED
      BY <3>1 DEF NothingMixedUp, Unwritten, way
  <2>2. CASE UNCHANGED vars
    BY <2>2 DEF NothingMixedUp, Unwritten, vars
  <2>3. QED
    BY <2>1, <2>2, LoopKeepsWay, StreamKeepsWay DEF Next
<1>3. QED
  BY <1>1, <1>2, UDPTypeCorrect, PTL DEF Spec

-----------------------------------------------------------------------------
(* That what has been read goes on, as far as safety says it: the part of      *)
(* ArrivedIsAnswered and NoChildIsLeft that needs no fairness.                 *)

\* A stream has a child and a copy from its first packet on.
StreamInv ==
  /\ loop = "write" => child[buf[1].from] # "none"
  /\ \A a \in Addresses : child[a] = "none" <=> copy[a] = "none"

\* The guards of what Fairness lets happen to the stream of a.
StreamGoes(a) ==
  \/ child[a] = "running" /\ holds[a] = <<>> /\ stdin[a] # <<>>
  \/ child[a] = "running" /\ holds[a] # <<>> /\ Len(stdout[a]) < Cap
  \/ copy[a] = "running" /\ carried[a] = <<>> /\ stdout[a] # <<>>
  \/ copy[a] = "running" /\ carried[a] # <<>>

\* And those of the loop.
LoopGoes ==
  \/ loop = "read" /\ socket # <<>>
  \/ loop = "write" /\ (child[buf[1].from] = "exited" \/ Len(stdin[buf[1].from]) < Cap)

\* A packet in a stream whose child and copy run can move, and the loop waits only
\* for the network, for a stream that moves, or for a child that takes no more.
NobodyWaitsForEver ==
  /\ \A a \in Addresses :
       /\ loop # "over" /\ child[a] = "running" /\ copy[a] = "running"
       /\ \E q \in {stdin[a], holds[a], stdout[a], carried[a]} : q # <<>>
       => StreamGoes(a)
  /\ loop = "write" \/ (loop = "read" /\ socket # <<>>) =>
       LoopGoes \/ StreamGoes(buf[1].from) \/ HeadOfLine

\* The address of the packet in the buffer.
LEMMA BufferAddress ==
  ASSUME TypeOK, loop = "write"
  PROVE  buf[1].from \in Addresses /\ buf \in Seq(Packets) /\ buf # <<>> /\ Len(buf) > 0
<1>1. buf \in Seq(Packets) /\ buf # <<>>
  BY DEF TypeOK
<1>2. Len(buf) > 0 /\ buf[1] \in Packets
  BY <1>1
<1>3. QED
  BY <1>1, <1>2 DEF Packets

LEMMA StreamInvStep ==
  ASSUME TypeOK, StreamInv, [Next]_vars
  PROVE  StreamInv'
<1>1. CASE ReadFrom
  <2> DEFINE p == Head(socket)
             a == Head(socket).from
  <2>1. p \in Packets /\ <<p>>[1] = p
    BY <1>1, TakeFirst DEF ReadFrom, TypeOK
  <2>2. a \in Addresses
    BY <2>1 DEF Packets
  <2>3. /\ child' = IF a \in streams THEN child ELSE [child EXCEPT ![a] = "running"]
        /\ copy' = IF a \in streams THEN copy ELSE [copy EXCEPT ![a] = "running"]
        /\ buf' = <<p>> /\ buf'[1].from = a
    BY <1>1, <2>1 DEF ReadFrom
  <2> HIDE DEF a, p
  <2>4. \A b \in Addresses : child'[b] = "none" <=> copy'[b] = "none"
    BY <2>2, <2>3 DEF TypeOK, StreamInv
  <2>5. child'[a] # "none"
    BY <2>2, <2>3 DEF TypeOK
  <2>6. QED
    BY <2>3, <2>4, <2>5 DEF StreamInv
<1>2. CASE Write \/ WriteFails
  <2>1. loop' # "write" /\ UNCHANGED <<child, copy>>
    BY <1>2 DEF Write, WriteFails
  <2>2. QED
    BY <2>1 DEF StreamInv
<1>3. ASSUME NEW a \in Addresses,
             \/ ClientSends(a) \/ ChildReads(a) \/ ChildWrites(a) \/ CopyRead(a) \/ WriteTo(a)
      PROVE  StreamInv'
  <2>1. UNCHANGED <<loop, buf, child, copy>>
    BY <1>3 DEF ClientSends, ChildReads, ChildWrites, CopyRead, WriteTo
  <2>2. QED
    BY <2>1 DEF StreamInv
<1>4. ASSUME NEW a \in Addresses, ChildExits(a) \/ ChildStalls(a) \/ CopyEnds(a)
      PROVE  StreamInv'
  <2>1. /\ UNCHANGED <<loop, buf>>
        /\ child[a] # "none"
        /\ \A b \in Addresses : /\ child'[b] = "none" <=> child[b] = "none"
                                /\ copy'[b] = "none" <=> copy[b] = "none"
    BY <1>4 DEF ChildExits, ChildStalls, CopyEnds, TypeOK, StreamInv
  <2>2. loop = "write" => buf[1].from \in Addresses
    BY BufferAddress
  <2>3. QED
    BY <2>1, <2>2 DEF StreamInv
<1>5. CASE UNCHANGED vars
  BY <1>5 DEF vars, StreamInv
<1>6. QED
  BY <1>1, <1>2, <1>3, <1>4, <1>5 DEF Next

\* A pipe that is full is not empty.
LEMMA FullPipe ==
  ASSUME NEW q \in Stages, ~(Len(q) < Cap)
  PROVE  q # <<>> /\ Len(q) >= Cap
<1>1. Cap \in Nat \ {0} /\ Len(q) \in Nat
  BY UDPAssumption DEF UDPAssumption, Stages
<1>2. Len(<<>>) = 0
  OBVIOUS
<1>3. QED
  BY <1>1, <1>2

\* The server never stops with a packet in hand, except where it says so: a child
\* that has stalled, or a copy that has ended, with its pipes full (udp.go:40-72).
THEOREM UDPNeverStops == Spec => []NobodyWaitsForEver
<1>1. Init => StreamInv
  BY DEF Init, StreamInv
<1>2. TypeOK /\ StreamInv => NobodyWaitsForEver
  <2> SUFFICES ASSUME TypeOK, StreamInv
               PROVE  NobodyWaitsForEver
    OBVIOUS
  <2>1. ASSUME NEW a \in Addresses, child[a] = "running", copy[a] = "running", ~StreamGoes(a)
        PROVE  stdin[a] = <<>> /\ holds[a] = <<>> /\ stdout[a] = <<>> /\ carried[a] = <<>>
    <3>1. carried[a] = <<>> /\ stdout[a] = <<>>
      BY <2>1 DEF StreamGoes
    <3>2. Len(stdout[a]) < Cap
      BY <2>1, <3>1, FullPipe, WayType
    <3>3. QED
      BY <2>1, <3>1, <3>2 DEF StreamGoes
  <2>2. ASSUME loop = "write", ~LoopGoes, ~StreamGoes(buf[1].from)
        PROVE  HeadOfLine
    <3> DEFINE a == buf[1].from
    <3>1. a \in Addresses
      BY <2>2, BufferAddress
    <3>2. child[a] \in {"running", "stalled"} /\ copy[a] \in {"running", "ended"}
      BY <2>2, <3>1 DEF TypeOK, StreamInv, LoopGoes
    <3>3. stdin[a] # <<>> /\ Len(stdin[a]) >= Cap
      BY <2>2, <3>1, FullPipe, WayType DEF LoopGoes
    <3>4. CASE child[a] = "stalled"
      BY <2>2, <3>3, <3>4 DEF HeadOfLine
    <3>5. CASE child[a] = "running"
      <4>1. copy[a] = "ended"
        BY <2>1, <2>2, <3>1, <3>2, <3>3, <3>5
      <4>2. ~(Len(stdout[a]) < Cap)
        BY <2>2, <3>3, <3>5 DEF StreamGoes
      <4>3. Len(stdout[a]) >= Cap
        BY <3>1, <4>2, FullPipe, WayType
      <4>4. QED
        BY <2>2, <3>3, <4>1, <4>3 DEF HeadOfLine
    <3>6. QED
      BY <3>2, <3>4, <3>5
  <2>3. loop = "read" /\ socket # <<>> => LoopGoes
    BY DEF LoopGoes
  <2>4. QED
    BY <2>1, <2>2, <2>3 DEF NobodyWaitsForEver
<1>3. QED
  BY <1>1, <1>2, StreamInvStep, UDPTypeCorrect, PTL DEF Spec

-----------------------------------------------------------------------------
(* That it does not go on for ever. *)

\* The steps still to come for packets at each stage of the way.
StepsFor(c, o, h, s, u) == c + 2 * o + 3 * h + 4 * s + 5 * u

\* A bound on the steps there are to take with what has been read from a.
WayLeft(a) ==
  StepsFor(Len(carried[a]), Len(stdout[a]), Len(holds[a]), Len(stdin[a]), Len(Unwritten(a)))

StreamStep(a) ==
  \/ ChildReads(a) \/ ChildWrites(a) \/ CopyRead(a) \/ WriteTo(a)
  \/ (Write \/ WriteFails) /\ buf[1].from = a

\* Only a new packet of its own adds to the work of a stream, and whoever takes a
\* step with a packet leaves less of it.
LeftShrinks ==
  \A a \in Addresses : ~(ReadFrom /\ Head(socket).from = a) =>
    /\ WayLeft(a)' <= WayLeft(a)
    /\ StreamStep(a) => WayLeft(a)' < WayLeft(a)

Fewer(m, n) == m < n /\ m <= n

LEMMA FewerSteps ==
  \A c, o, h, s, u \in Nat :
    /\ StepsFor(c, o, h, s, u) \in Nat
    /\ s > 0 => Fewer(StepsFor(c, o, 1, s - 1, u), StepsFor(c, o, 0, s, u))
    /\ h > 0 => Fewer(StepsFor(c, o + h, 0, s, u), StepsFor(c, o, h, s, u))
    /\ o > 0 => Fewer(StepsFor(1, o - 1, h, s, u), StepsFor(0, o, h, s, u))
    /\ c > 0 => Fewer(StepsFor(0, o, h, s, u), StepsFor(c, o, h, s, u))
    /\ u > 0 => Fewer(StepsFor(c, o, h, s + u, 0), StepsFor(c, o, h, s, u))
    /\ u > 0 => Fewer(StepsFor(c, o, h, s, 0), StepsFor(c, o, h, s, u))
BY DEF StepsFor, Fewer

LEMMA Lengths ==
  ASSUME NEW q \in Stages
  PROVE  /\ Len(q) \in Nat /\ Len(<<>>) = 0
         /\ q # <<>> => Len(q) > 0 /\ Len(Tail(q)) = Len(q) - 1 /\ Len(<<Head(q)>>) = 1
         /\ \A r \in Stages : Len(q \o r) = Len(q) + Len(r)
<1>1. Len(<<>>) = 0
  OBVIOUS
<1>2. ASSUME q # <<>>
      PROVE  Len(q) > 0 /\ Len(Tail(q)) = Len(q) - 1
  BY <1>2 DEF Stages
<1>3. Len(<<Head(q)>>) = 1
  OBVIOUS
<1>4. \A r \in Stages : Len(q \o r) = Len(q) + Len(r)
  BY DEF Stages
<1>5. QED
  BY <1>1, <1>2, <1>3, <1>4 DEF Stages

\* A step of the loop with a packet of a.
LEMMA LoopTakesAway ==
  ASSUME TypeOK, NEW a \in Addresses, Write \/ WriteFails, buf[1].from = a
  PROVE  Fewer(WayLeft(a)', WayLeft(a))
<1> DEFINE c == Len(carried[a])  o == Len(stdout[a])  h == Len(holds[a])  s == Len(stdin[a])
           u == Len(buf)
<1>1. loop = "write" /\ loop' # "write" /\ UNCHANGED <<carried, stdout, holds>>
  BY DEF Write, WriteFails, way
<1>2. /\ buf \in Stages /\ u \in Nat /\ u > 0
      /\ c \in Nat /\ o \in Nat /\ h \in Nat /\ s \in Nat
  BY <1>1, BufferAddress, WayType, Lengths DEF Stages
<1>3. Unwritten(a) = buf /\ Unwritten(a)' = <<>> /\ Len(<<>>) = 0
  BY <1>1 DEF Unwritten
<1>4. WayLeft(a) = StepsFor(c, o, h, s, u)
  BY <1>3 DEF WayLeft
<1>5. CASE Write
  <2>1. stdin'[a] = stdin[a] \o buf
    BY <1>5 DEF Write, TypeOK
  <2>2. Len(stdin'[a]) = s + u
    BY <1>2, <2>1, WayType, Lengths
  <2>3. WayLeft(a)' = StepsFor(c, o, h, s + u, 0)
    BY <1>1, <1>3, <2>2 DEF WayLeft
  <2>4. Fewer(StepsFor(c, o, h, s + u, 0), StepsFor(c, o, h, s, u))
    BY <1>2, FewerSteps
  <2>5. QED
    BY <1>4, <2>3, <2>4
<1>6. CASE WriteFails
  <2>1. WayLeft(a)' = StepsFor(c, o, h, s, 0)
    BY <1>1, <1>3, <1>6 DEF WayLeft, WriteFails, way
  <2>2. Fewer(StepsFor(c, o, h, s, 0), StepsFor(c, o, h, s, u))
    BY <1>2, FewerSteps
  <2>3. QED
    BY <1>4, <2>1, <2>2
<1>7. QED
  BY <1>5, <1>6

\* A step of its child or its copy.
LEMMA StreamTakesAway ==
  ASSUME TypeOK, NEW a \in Addresses,
         ChildReads(a) \/ ChildWrites(a) \/ CopyRead(a) \/ WriteTo(a)
  PROVE  Fewer(WayLeft(a)', WayLeft(a))
<1> DEFINE c == Len(carried[a])  o == Len(stdout[a])  h == Len(holds[a])  s == Len(stdin[a])
           u == Len(Unwritten(a))
<1>1. /\ c \in Nat /\ o \in Nat /\ h \in Nat /\ s \in Nat /\ u \in Nat /\ Len(<<>>) = 0
  BY WayType, Lengths
<1>2. Unwritten(a)' = Unwritten(a)
  BY DEF ChildReads, ChildWrites, CopyRead, WriteTo, Unwritten
<1>3. WayLeft(a) = StepsFor(c, o, h, s, u)
  BY DEF WayLeft
<1>4. CASE ChildReads(a)
  <2>1. /\ holds[a] = <<>> /\ stdin[a] # <<>> /\ holds'[a] = <<Head(stdin[a])>>
        /\ stdin'[a] = Tail(stdin[a]) /\ UNCHANGED <<carried, stdout>>
    BY <1>4 DEF ChildReads, TypeOK
  <2>2. h = 0 /\ s > 0 /\ Len(holds'[a]) = 1 /\ Len(stdin'[a]) = s - 1
    BY <1>1, <2>1, WayType, Lengths
  <2>3. WayLeft(a)' = StepsFor(c, o, 1, s - 1, u) /\ WayLeft(a) = StepsFor(c, o, 0, s, u)
    BY <1>2, <1>3, <2>1, <2>2 DEF WayLeft
  <2>4. Fewer(StepsFor(c, o, 1, s - 1, u), StepsFor(c, o, 0, s, u))
    BY <1>1, <2>2, FewerSteps
  <2>5. QED
    BY <2>3, <2>4
<1>5. CASE ChildWrites(a)
  <2>1. /\ holds[a] # <<>> /\ holds'[a] = <<>> /\ stdout'[a] = stdout[a] \o holds[a]
        /\ UNCHANGED <<carried, stdin>>
    BY <1>5 DEF ChildWrites, TypeOK
  <2>2. h > 0 /\ Len(holds'[a]) = 0 /\ Len(stdout'[a]) = o + h
    BY <1>1, <2>1, WayType, Lengths
  <2>3. WayLeft(a)' = StepsFor(c, o + h, 0, s, u)
    BY <1>2, <2>1, <2>2 DEF WayLeft
  <2>4. Fewer(StepsFor(c, o + h, 0, s, u), StepsFor(c, o, h, s, u))
    BY <1>1, <2>2, FewerSteps
  <2>5. QED
    BY <1>3, <2>3, <2>4
<1>6. CASE CopyRead(a)
  <2>1. /\ carried[a] = <<>> /\ stdout[a] # <<>> /\ carried'[a] = <<Head(stdout[a])>>
        /\ stdout'[a] = Tail(stdout[a]) /\ UNCHANGED <<holds, stdin>>
    BY <1>6 DEF CopyRead, TypeOK
  <2>2. c = 0 /\ o > 0 /\ Len(carried'[a]) = 1 /\ Len(stdout'[a]) = o - 1
    BY <1>1, <2>1, WayType, Lengths
  <2>3. WayLeft(a)' = StepsFor(1, o - 1, h, s, u) /\ WayLeft(a) = StepsFor(0, o, h, s, u)
    BY <1>2, <1>3, <2>1, <2>2 DEF WayLeft
  <2>4. Fewer(StepsFor(1, o - 1, h, s, u), StepsFor(0, o, h, s, u))
    BY <1>1, <2>2, FewerSteps
  <2>5. QED
    BY <2>3, <2>4
<1>7. CASE WriteTo(a)
  <2>1. carried[a] # <<>> /\ carried'[a] = <<>> /\ UNCHANGED <<stdout, holds, stdin>>
    BY <1>7 DEF WriteTo, TypeOK
  <2>2. c > 0 /\ Len(carried'[a]) = 0
    BY <1>1, <2>1, WayType, Lengths
  <2>3. WayLeft(a)' = StepsFor(0, o, h, s, u)
    BY <1>2, <2>1, <2>2 DEF WayLeft
  <2>4. Fewer(StepsFor(0, o, h, s, u), StepsFor(c, o, h, s, u))
    BY <1>1, <2>2, FewerSteps
  <2>5. QED
    BY <1>3, <2>3, <2>4
<1>8. QED
  BY <1>4, <1>5, <1>6, <1>7

\* What is none of a's own steps leaves its packets where they are.
LEMMA OthersLeaveTheWay ==
  ASSUME TypeOK, [Next]_vars, NEW a \in Addresses, ~StreamStep(a),
         ~(ReadFrom /\ Head(socket).from = a)
  PROVE  WayLeft(a)' = WayLeft(a)
<1>1. SUFFICES /\ stdin'[a] = stdin[a] /\ holds'[a] = holds[a] /\ stdout'[a] = stdout[a]
               /\ carried'[a] = carried[a] /\ Unwritten(a)' = Unwritten(a)
  BY DEF WayLeft
<1>2. CASE ReadFrom
  <2>1. UNCHANGED way /\ loop = "read" /\ buf' = <<Head(socket)>>
    BY <1>2 DEF ReadFrom
  <2>2. buf'[1].from # a
    BY <1>2, <2>1
  <2>3. Unwritten(a)' = <<>> /\ Unwritten(a) = <<>>
    BY <2>1, <2>2 DEF Unwritten
  <2>4. QED
    BY <2>1, <2>3 DEF way
<1>3. CASE Write \/ WriteFails
  <2>1. buf[1].from # a /\ loop' # "write" /\ UNCHANGED <<holds, stdout, carried>>
    BY <1>3 DEF StreamStep, Write, WriteFails, way
  <2>2. stdin'[a] = stdin[a]
    BY <1>3, <2>1 DEF Write, WriteFails, way, TypeOK
  <2>3. Unwritten(a)' = <<>> /\ Unwritten(a) = <<>>
    BY <2>1 DEF Unwritten
  <2>4. QED
    BY <2>1, <2>2, <2>3
<1>4. ASSUME NEW b \in Addresses, ChildReads(b) \/ ChildWrites(b) \/ CopyRead(b) \/ WriteTo(b)
      PROVE  /\ stdin'[a] = stdin[a] /\ holds'[a] = holds[a] /\ stdout'[a] = stdout[a]
             /\ carried'[a] = carried[a] /\ Unwritten(a)' = Unwritten(a)
  <2>1. b # a
    BY <1>4 DEF StreamStep
  <2>2. UNCHANGED <<loop, buf>>
    BY <1>4 DEF ChildReads, ChildWrites, CopyRead, WriteTo
  <2>3. /\ stdin'[a] = stdin[a] /\ holds'[a] = holds[a] /\ stdout'[a] = stdout[a]
        /\ carried'[a] = carried[a]
    BY <1>4, <2>1 DEF ChildReads, ChildWrites, CopyRead, WriteTo, TypeOK
  <2>4. QED
    BY <2>2, <2>3 DEF Unwritten
<1>5. ASSUME \/ UNCHANGED vars
             \/ \E b \in Addresses :
                  ClientSends(b) \/ ChildExits(b) \/ ChildStalls(b) \/ CopyEnds(b)
      PROVE  /\ stdin'[a] = stdin[a] /\ holds'[a] = holds[a] /\ stdout'[a] = stdout[a]
             /\ carried'[a] = carried[a] /\ Unwritten(a)' = Unwritten(a)
  <2>1. UNCHANGED <<loop, buf, stdin, holds, stdout, carried>>
    BY <1>5 DEF ClientSends, ChildExits, ChildStalls, CopyEnds, vars, way
  <2>2. QED
    BY <2>1 DEF Unwritten
<1>6. QED
  BY <1>2, <1>3, <1>4, <1>5 DEF Next

\* Every packet that has been read is a bounded number of steps from its answer or
\* its end, whatever the other addresses do (udp.go:40-72).
THEOREM UDPRunsOut == Spec => [][LeftShrinks]_vars
<1>1. ASSUME TypeOK, [Next]_vars
      PROVE  LeftShrinks
  <2> SUFFICES ASSUME NEW a \in Addresses, ~(ReadFrom /\ Head(socket).from = a)
               PROVE  /\ WayLeft(a)' <= WayLeft(a)
                      /\ StreamStep(a) => WayLeft(a)' < WayLeft(a)
    BY DEF LeftShrinks
  <2>1. CASE StreamStep(a)
    <3>1. Fewer(WayLeft(a)', WayLeft(a))
      BY <1>1, <2>1, LoopTakesAway, StreamTakesAway DEF StreamStep
    <3>2. QED
      BY <3>1 DEF Fewer
  <2>2. CASE ~StreamStep(a)
    <3>1. WayLeft(a)' = WayLeft(a)
      BY <1>1, <2>2, OthersLeaveTheWay
    <3>2. WayLeft(a) \in Nat
      BY <1>1, WayType, Lengths, FewerSteps DEF WayLeft
    <3>3. \A n \in Nat : n <= n
      OBVIOUS
    <3>4. QED
      BY <2>2, <3>1, <3>2, <3>3
  <2>3. QED
    BY <2>1, <2>2
<1>2. QED
  BY <1>1, UDPTypeCorrect, PTL DEF Spec

-----------------------------------------------------------------------------
(* The end of the server. *)

\* What a child has to do before it exits, once its pipes have been closed.
ChildLeft(a) ==
  IF child[a] # "running" THEN 0 ELSE IF holds[a] = <<>> /\ stdin[a] # <<>> THEN 2 ELSE 1

\* A packet for a child that has exited can only end the server, and then no child
\* is started or fed any more: each has at most two steps left to take.
EndIsFinal ==
  /\ loop = "write" /\ child[buf[1].from] = "exited" =>
       loop' = "over" \/ (loop' = "write" /\ buf' = buf /\ child'[buf[1].from] = "exited")
  /\ loop = "over" =>
       /\ loop' = "over"
       /\ \A a \in Addresses :
            /\ ChildLeft(a)' <= ChildLeft(a)
            /\ ChildReads(a) \/ ChildExits(a) => ChildLeft(a)' < ChildLeft(a)

\* Nothing that is done to another child, and no step of the loop, changes what
\* a child of a dead server has left.
LEMMA OverStep ==
  ASSUME TypeOK, [Next]_vars, loop = "over", NEW a \in Addresses
  PROVE  /\ loop' = "over"
         /\ \/ child'[a] = child[a] /\ stdin'[a] = stdin[a] /\ holds'[a] = holds[a]
            \/ child[a] = "running" /\ child'[a] # "running"
            \/ /\ child[a] = "running" /\ child'[a] = "running" /\ holds[a] = <<>>
               /\ stdin[a] # <<>> /\ holds'[a] # <<>>
         /\ ChildReads(a) =>
              child[a] = "running" /\ holds[a] = <<>> /\ stdin[a] # <<>> /\ holds'[a] # <<>>
         /\ ChildExits(a) => child[a] = "running" /\ child'[a] = "exited"
<1> DEFINE Same == child'[a] = child[a] /\ stdin'[a] = stdin[a] /\ holds'[a] = holds[a]
           Reads == child[a] = "running" /\ holds[a] = <<>> /\ stdin[a] # <<>> /\ holds'[a] # <<>>
<1>1. ~ReadFrom /\ ~Write /\ ~WriteFails
  BY DEF ReadFrom, Write, WriteFails
<1>2. ASSUME NEW b \in Addresses,
             \/ ClientSends(b) \/ ChildWrites(b) \/ CopyRead(b) \/ WriteTo(b) \/ CopyEnds(b)
      PROVE  FALSE
  BY <1>2 DEF ClientSends, ChildWrites, CopyRead, WriteTo, CopyEnds
<1>3. ASSUME NEW b \in Addresses, ChildReads(b)
      PROVE  loop' = "over" /\ (Same \/ (Reads /\ child'[a] = "running"))
  <2>1. CASE b # a
    BY <1>3, <2>1 DEF ChildReads, TypeOK
  <2>2. CASE b = a
    <3>1. <<Head(stdin[a])>> # <<>>
      OBVIOUS
    <3>2. QED
      BY <1>3, <2>2, <3>1 DEF ChildReads, TypeOK
  <2>3. QED
    BY <2>1, <2>2
<1>4. ASSUME NEW b \in Addresses, ChildExits(b) \/ ChildStalls(b)
      PROVE  loop' = "over" /\ (Same \/ (child[a] = "running" /\ child'[a] # "running"))
  BY <1>4 DEF ChildExits, ChildStalls, TypeOK, way
<1>5. ASSUME UNCHANGED vars
      PROVE  loop' = "over" /\ Same
  BY <1>5 DEF vars
<1>6. ChildReads(a) => Reads
  <2>1. <<Head(stdin[a])>> # <<>>
    OBVIOUS
  <2>2. QED
    BY <2>1 DEF ChildReads, TypeOK
<1>7. ChildExits(a) => child[a] = "running" /\ child'[a] = "exited"
  BY DEF ChildExits, TypeOK
<1>8. loop' = "over" /\ (Same \/ (Reads /\ child'[a] = "running")
                          \/ (child[a] = "running" /\ child'[a] # "running"))
  <2> HIDE DEF Same, Reads
  <2>1. QED
    BY <1>1, <1>2, <1>3, <1>4, <1>5 DEF Next
<1>9. QED
  BY <1>6, <1>7, <1>8

\* The packet of a child that has exited keeps the loop until the server ends.
LEMMA DoomStep ==
  ASSUME TypeOK, [Next]_vars, loop = "write", child[buf[1].from] = "exited"
  PROVE  loop' = "over" \/ (loop' = "write" /\ buf' = buf /\ child'[buf[1].from] = "exited")
<1> DEFINE a == buf[1].from
<1>1. a \in Addresses
  BY BufferAddress
<1>2. ~ReadFrom /\ ~Write
  BY DEF ReadFrom, Write
<1>3. WriteFails => loop' = "over"
  BY DEF WriteFails
<1>4. ASSUME NEW b \in Addresses,
             \/ ClientSends(b) \/ ChildReads(b) \/ ChildWrites(b) \/ CopyRead(b) \/ WriteTo(b)
             \/ CopyEnds(b)
      PROVE  loop' = "write" /\ buf' = buf /\ child'[a] = "exited"
  BY <1>4 DEF ClientSends, ChildReads, ChildWrites, CopyRead, WriteTo, CopyEnds
<1>5. ASSUME NEW b \in Addresses, ChildExits(b) \/ ChildStalls(b)
      PROVE  loop' = "write" /\ buf' = buf /\ child'[a] = "exited"
  <2>1. UNCHANGED <<loop, buf>> /\ child[b] = "running"
    BY <1>5 DEF ChildExits, ChildStalls
  <2>2. \E x : child' = [child EXCEPT ![b] = x]
    BY <1>5 DEF ChildExits, ChildStalls
  <2>3. a # b
    BY <2>1
  <2>4. child'[a] = child[a]
    BY <1>1, <2>2, <2>3 DEF TypeOK
  <2>5. QED
    BY <2>1, <2>4
<1>6. ASSUME UNCHANGED vars
      PROVE  loop' = "write" /\ buf' = buf /\ child'[a] = "exited"
  BY <1>6 DEF vars
<1>7. QED
  BY <1>2, <1>3, <1>4, <1>5, <1>6 DEF Next

\* A packet for a child that has exited ends the server, and no child outlives it by
\* more than the packet it may still take from its pipe (udp.go:67-70, main.go).
THEOREM ServerEndsForGood == Spec => [][EndIsFinal]_vars
<1>1. ASSUME TypeOK, [Next]_vars
      PROVE  EndIsFinal
  <2>1. ASSUME loop = "over", NEW a \in Addresses
        PROVE  /\ ChildLeft(a)' <= ChildLeft(a)
               /\ ChildReads(a) \/ ChildExits(a) => ChildLeft(a)' < ChildLeft(a)
    <3>1. ChildLeft(a) \in 0..2
      BY DEF ChildLeft
    <3>2. CASE child'[a] = child[a] /\ stdin'[a] = stdin[a] /\ holds'[a] = holds[a]
      <4>1. ChildLeft(a)' = ChildLeft(a)
        BY <3>2 DEF ChildLeft
      <4>2. ~ChildReads(a) /\ ~ChildExits(a)
        BY <1>1, <2>1, <3>2, OverStep
      <4>3. \A n \in 0..2 : n <= n
        OBVIOUS
      <4>4. QED
        BY <3>1, <4>1, <4>2, <4>3
    <3>3. CASE child[a] = "running" /\ child'[a] # "running"
      <4>1. ChildLeft(a)' = 0 /\ (ChildLeft(a) = 1 \/ ChildLeft(a) = 2)
        BY <3>3 DEF ChildLeft
      <4>2. QED
        BY <4>1
    <3>4. CASE /\ child[a] = "running" /\ child'[a] = "running" /\ holds[a] = <<>>
               /\ stdin[a] # <<>> /\ holds'[a] # <<>>
      <4>1. ChildLeft(a)' = 1 /\ ChildLeft(a) = 2
        BY <3>4 DEF ChildLeft
      <4>2. QED
        BY <4>1
    <3>5. QED
      BY <1>1, <2>1, <3>2, <3>3, <3>4, OverStep
  <2>2. loop = "over" => loop' = "over"
    BY <1>1 DEF Next, ReadFrom, Write, WriteFails, ClientSends, ChildReads, ChildWrites,
       ChildExits, ChildStalls, CopyRead, WriteTo, CopyEnds, vars
  <2>3. QED
    BY <1>1, <2>1, <2>2, DoomStep DEF EndIsFinal
<1>2. QED
  BY <1>1, UDPTypeCorrect, PTL DEF Spec
=============================================================================
