--------------------------------- MODULE UDP ---------------------------------
(***************************************************************************)
(* A UDP server whose streams are subprocesses: Listen of                  *)
(* internal/schemes/udp.                                                   *)
(*                                                                         *)
(*   clients --> socket --> loop --stdin--> child --stdout--> copy --> client *)
(*                                                                         *)
(* One loop reads the packets of all addresses into one buffer and writes  *)
(* each to the stream of its address, which it opens with the first        *)
(* packet.  A goroutine per stream copies back.  Nobody ever closes a      *)
(* stream; a Write that fails ends the server, and the program with it.    *)
(***************************************************************************)
EXTENDS Naturals, Sequences

CONSTANTS
  Addresses,   \* remote addresses
  MaxPackets,  \* bound: how many packets each of them sends
  Backlog,     \* packets the socket keeps
  Cap,         \* packets an OS pipe keeps
  MayDie,      \* a child may exit
  MayStall,    \* a child may stop reading and writing
  MayRefuse    \* a packet back may be refused with an error

ASSUME UDPAssumption ==
  /\ MaxPackets \in [Addresses -> Nat] /\ Backlog \in Nat \ {0} /\ Cap \in Nat \ {0}
  /\ {MayDie, MayStall, MayRefuse} \subseteq BOOLEAN

VARIABLES
  sent,      \* how many packets each address has sent
  socket,    \* packets that have arrived and not been read
  loop,      \* "read", "write" (buf to its stream) or "over" (the program has ended)
  buf,       \* the packet in the loop's buffer, in a sequence; none at first
  streams,   \* the addresses that have a stream
  child,     \* the state of each stream's child
  copy,      \* the state of each stream's copy back
  stdin, holds, stdout, carried, \* packets on their way through each stream
  read,      \* what ReadFrom has returned from each address
  replies    \* what was sent back to each address

vars == <<sent, socket, loop, buf, streams, child, copy,
          stdin, holds, stdout, carried, read, replies>>
way == <<stdin, holds, stdout, carried>>

Packets == UNION {{[from |-> a, n |-> n] : n \in 1..MaxPackets[a]} : a \in Addresses}
None == [a \in Addresses |-> <<>>]

Init ==
  /\ sent = [a \in Addresses |-> 0] /\ socket = <<>>
  /\ loop = "read" /\ buf = <<>> /\ streams = {}
  /\ child = [a \in Addresses |-> "none"] /\ copy = [a \in Addresses |-> "none"]
  /\ stdin = None /\ holds = None /\ stdout = None /\ carried = None
  /\ read = None /\ replies = None

-----------------------------------------------------------------------------
(* The clients and the network, which may lose a packet; so does a full socket. *)

ClientSends(a) ==
  /\ loop # "over" /\ sent[a] < MaxPackets[a]
  /\ sent' = [sent EXCEPT ![a] = @ + 1]
  /\ \/ socket' = socket
     \/ /\ Len(socket) < Backlog
        /\ socket' = Append(socket, [from |-> a, n |-> sent[a] + 1])
  /\ UNCHANGED <<loop, buf, streams, child, copy, way, read, replies>>

-----------------------------------------------------------------------------
(* The loop. *)

\* Mutant: the Write is left to a goroutine and the loop reads on, into the same
\* buffer.
ReadFromWhileWriting ==
  /\ loop \in {"read", "write"} /\ socket # <<>>
  /\ LET a == Head(socket).from IN
       /\ streams' = streams \cup {a}
       /\ child' = IF a \in streams THEN child ELSE [child EXCEPT ![a] = "running"]
       /\ copy' = IF a \in streams THEN copy ELSE [copy EXCEPT ![a] = "running"]
       /\ read' = [read EXCEPT ![a] = Append(@, Head(socket))]
  /\ socket' = Tail(socket) /\ buf' = <<Head(socket)>> /\ loop' = "write"
  /\ UNCHANGED <<sent, way, replies>>

\* Mutant: the new stream is not kept, and the next packet opens another.
ReadFromForgetting ==
  /\ loop = "read" /\ socket # <<>>
  /\ LET a == Head(socket).from IN
       /\ streams' = streams
       /\ child' = [child EXCEPT ![a] = "running"]
       /\ copy' = [copy EXCEPT ![a] = "running"]
       /\ stdin' = [stdin EXCEPT ![a] = <<>>] /\ stdout' = [stdout EXCEPT ![a] = <<>>]
       /\ holds' = [holds EXCEPT ![a] = <<>>] /\ carried' = [carried EXCEPT ![a] = <<>>]
       /\ read' = [read EXCEPT ![a] = Append(@, Head(socket))]
  /\ socket' = Tail(socket) /\ buf' = <<Head(socket)>> /\ loop' = "write"
  /\ UNCHANGED <<sent, replies>>

\* ReadFrom, and NewStream and its copy for an address that has none.
ReadFrom ==
  /\ loop = "read" /\ socket # <<>>
  /\ LET a == Head(socket).from IN
       /\ streams' = streams \cup {a}
       /\ child' = IF a \in streams THEN child ELSE [child EXCEPT ![a] = "running"]
       /\ copy' = IF a \in streams THEN copy ELSE [copy EXCEPT ![a] = "running"]
       /\ read' = [read EXCEPT ![a] = Append(@, Head(socket))]
  /\ socket' = Tail(socket) /\ buf' = <<Head(socket)>> /\ loop' = "write"
  /\ UNCHANGED <<sent, way, replies>>

Write ==
  /\ loop = "write"
  /\ LET a == buf[1].from IN
       /\ child[a] # "exited" /\ Len(stdin[a]) < Cap
       /\ stdin' = [stdin EXCEPT ![a] = @ \o buf]
  /\ loop' = "read"
  /\ UNCHANGED <<sent, socket, buf, streams, child, copy, holds, stdout, carried, read, replies>>

\* Mutant: the error is logged and the loop goes on.
WriteFailsLogged ==
  /\ loop = "write" /\ child[buf[1].from] = "exited"
  /\ loop' = "read"
  /\ UNCHANGED <<sent, socket, buf, streams, child, copy, way, read, replies>>

\* Listen returns the error, Run returns it, and main ends the program.
WriteFails ==
  /\ loop = "write" /\ child[buf[1].from] = "exited"
  /\ loop' = "over"
  /\ UNCHANGED <<sent, socket, buf, streams, child, copy, way, read, replies>>

-----------------------------------------------------------------------------
(* The children, which echo. *)

ChildReads(a) ==
  /\ child[a] = "running" /\ holds[a] = <<>> /\ stdin[a] # <<>>
  /\ holds' = [holds EXCEPT ![a] = <<Head(stdin[a])>>]
  /\ stdin' = [stdin EXCEPT ![a] = Tail(@)]
  /\ UNCHANGED <<sent, socket, loop, buf, streams, child, copy, stdout, carried, read, replies>>

ChildWrites(a) ==
  /\ child[a] = "running" /\ loop # "over" /\ holds[a] # <<>> /\ Len(stdout[a]) < Cap
  /\ stdout' = [stdout EXCEPT ![a] = @ \o holds[a]]
  /\ holds' = [holds EXCEPT ![a] = <<>>]
  /\ UNCHANGED <<sent, socket, loop, buf, streams, child, copy, stdin, carried, read, replies>>

\* Of itself; or at the end of its input or by SIGPIPE, which take the end of the
\* program, for nobody else closes its pipes.
ChildExits(a) ==
  /\ child[a] = "running"
  /\ \/ MayDie
     \/ loop = "over" /\ (holds[a] # <<>> \/ stdin[a] = <<>>)
  /\ child' = [child EXCEPT ![a] = "exited"]
  /\ UNCHANGED <<sent, socket, loop, buf, streams, copy, way, read, replies>>

ChildStalls(a) ==
  /\ MayStall /\ child[a] = "running"
  /\ child' = [child EXCEPT ![a] = "stalled"]
  /\ UNCHANGED <<sent, socket, loop, buf, streams, copy, way, read, replies>>

-----------------------------------------------------------------------------
(* io.Copy from the stream's Reader to a connWriter. *)

CopyRead(a) ==
  /\ loop # "over" /\ copy[a] = "running" /\ carried[a] = <<>> /\ stdout[a] # <<>>
  /\ carried' = [carried EXCEPT ![a] = <<Head(stdout[a])>>]
  /\ stdout' = [stdout EXCEPT ![a] = Tail(@)]
  /\ UNCHANGED <<sent, socket, loop, buf, streams, child, copy, stdin, holds, read, replies>>

WriteTo(a) ==
  /\ loop # "over" /\ copy[a] = "running" /\ carried[a] # <<>>
  /\ replies' = [replies EXCEPT ![a] = @ \o carried[a]]
  /\ carried' = [carried EXCEPT ![a] = <<>>]
  /\ UNCHANGED <<sent, socket, loop, buf, streams, child, copy, stdin, holds, stdout, read>>

\* The copy returns, at the end of the child's output or with an error, and
\* leaves the stream open.
CopyEnds(a) ==
  /\ loop # "over" /\ copy[a] = "running"
  /\ \/ MayRefuse /\ carried[a] # <<>>
     \/ carried[a] = <<>> /\ stdout[a] = <<>> /\ child[a] = "exited"
  /\ copy' = [copy EXCEPT ![a] = "ended"]
  /\ UNCHANGED <<sent, socket, loop, buf, streams, child, way, read, replies>>

-----------------------------------------------------------------------------
Next ==
  \/ ReadFrom \/ Write \/ WriteFails
  \/ \E a \in Addresses :
       \/ ClientSends(a) \/ ChildReads(a) \/ ChildWrites(a) \/ ChildExits(a) \/ ChildStalls(a)
       \/ CopyRead(a) \/ WriteTo(a) \/ CopyEnds(a)

\* The loop and the copies run, and so does a child that has not stalled.
\* Nothing is assumed of the clients, nor that a child exits of itself.
Fairness ==
  /\ WF_vars(ReadFrom \/ Write \/ WriteFails)
  /\ \A a \in Addresses :
       /\ WF_vars(CopyRead(a) \/ WriteTo(a))
       /\ WF_vars(ChildReads(a)) /\ WF_vars(ChildWrites(a))
       /\ WF_vars(loop = "over" /\ ChildExits(a))

Spec == Init /\ [][Next]_vars /\ Fairness

-----------------------------------------------------------------------------
TypeOK ==
  /\ sent \in [Addresses -> Nat] /\ \A a \in Addresses : sent[a] <= MaxPackets[a]
  /\ socket \in Seq(Packets)
  /\ loop \in {"read", "write", "over"} /\ buf \in Seq(Packets)
  /\ loop # "read" => buf # <<>>
  /\ \A a \in Addresses : a \in streams <=> child[a] # "none"
  /\ child \in [Addresses -> {"none", "running", "stalled", "exited"}]
  /\ copy \in [Addresses -> {"none", "running", "ended"}]
  /\ stdin \in [Addresses -> Seq(Packets)] /\ holds \in [Addresses -> Seq(Packets)]
  /\ stdout \in [Addresses -> Seq(Packets)] /\ carried \in [Addresses -> Seq(Packets)]
  /\ read \in [Addresses -> Seq(Packets)] /\ replies \in [Addresses -> Seq(Packets)]

\* What is left to be written of the packet in the buffer.
Unwritten(a) ==
  IF loop = "write" /\ buf[1].from = a THEN buf ELSE <<>>

\* The packets read from an address are all in its own stream or have come back
\* to it, each once and in order, although all addresses share one loop and one
\* buffer (udp.go:40, 62-68).
NothingMixedUp ==
  \A a \in Addresses : loop # "over" =>
    replies[a] \o carried[a] \o stdout[a] \o holds[a] \o stdin[a] \o Unwritten(a) = read[a]

\* The loop waits for the child of the packet in its buffer.
HeadOfLine ==
  loop = "write" /\ LET a == buf[1].from IN
    /\ Len(stdin[a]) >= Cap
    /\ child[a] = "stalled" \/ (copy[a] = "ended" /\ Len(stdout[a]) >= Cap)

\* A packet that has arrived is answered, whatever the other addresses and their
\* children do, unless its own child or copy has ended, or one of them has ended
\* the server or fills its pipe and blocks the loop (udp.go:67-70).
ArrivedIsAnswered ==
  \A a \in Addresses : \A n \in 1..MaxPackets[a] :
    (\E i \in 1..Len(socket) : socket[i] = [from |-> a, n |-> n]) ~>
      \/ \E i \in 1..Len(replies[a]) : replies[a][i].n = n
      \/ child[a] \in {"stalled", "exited"} \/ copy[a] = "ended"
      \/ loop = "over" \/ HeadOfLine

\* A packet for a child that has exited ends the server, and with it every child:
\* although nobody closes their pipes, none is left behind.
NoChildIsLeft ==
  \A a \in Addresses :
    loop = "write" /\ child[buf[1].from] = "exited" ~> child[a] # "running"
=============================================================================
