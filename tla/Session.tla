------------------------------- MODULE Session -------------------------------
(***************************************************************************)
(* One connection or request served by a subprocess that echoes its input: *)
(* the handlers of tcp, tls, http, dns and ssh.                            *)
(*                                                                         *)
(*   client --inbound--> recv --stdin--> child --stdout--> send --outbound *)
(*                                                          --> client     *)
(*                                                                         *)
(* For tcp recv and send are two copies.  Each, when it ends for any       *)
(* reason, closes the Reader, the Writer and the connection; the handler   *)
(* waits for both and closes everything again.  Closing is how one copy    *)
(* ends the other: a blocked read or write on a closed end returns an      *)
(* error.  For ssh they are two copies that close nothing.                 *)
(*                                                                         *)
(* For http and dns they are what one handler does in turn: it writes the  *)
(* request, closes the Writer, which is how the child learns that the      *)
(* request is complete, and reads the reply.                               *)
(*                                                                         *)
(* A chunk is what one Read returns.  ExecStream models what Close does    *)
(* inside the stream; here it is the closing of that end's file.           *)
(***************************************************************************)
EXTENDS Naturals, Sequences, FiniteSets

CONSTANTS
  Kinds,      \* which of "tcp", "http", "dns" and "ssh" the handler may be
  MaxChunks,  \* bound: the chunks the client sends
  Cap,        \* chunks a socket buffer or an OS pipe holds
  MayLeave,   \* the client may drop the connection
  MayDie      \* the child may exit before the end of its input

ASSUME SessionAssumption ==
  /\ MaxChunks \in Nat /\ Cap \in Nat \ {0}
  /\ MayLeave \in BOOLEAN /\ MayDie \in BOOLEAN
  /\ Kinds \subseteq {"tcp", "http", "dns", "ssh"} /\ ("dns" \in Kinds => MaxChunks > 0)

VARIABLES
  kind,      \* which of the handlers it is
  client,    \* "open", "half" (its sending side or its request has ended) or "gone"
  sent,      \* chunks the client has sent
  received,  \* chunks the client has read
  buffer,    \* what is in each of the four buffers
  holds,     \* the chunk, if any, each process has read and not yet written
  open,      \* the ends ndog has not closed: "Reader", "Writer", "conn"
  child,     \* "running", "exited" (at the end of its input) or "died"
  at         \* where recv, send and the handler are

vars == <<kind, client, sent, received, buffer, holds, open, child, at>>

Buffers == {"inbound", "stdin", "stdout", "outbound"}
Copies == {"recv", "send"}
Processes == Copies \cup {"handler"}
Resources == {"Reader", "Writer", "conn"}

Newline == 0

\* A handler of dns is called with the question in its hand.
Init ==
  /\ kind \in Kinds
  /\ client = IF kind = "dns" THEN "half" ELSE "open"
  /\ sent = IF kind = "dns" THEN 1 ELSE 0
  /\ received = <<>> /\ buffer = [b \in Buffers |-> <<>>]
  /\ holds = [p \in Copies \cup {"child"} |->
               IF p = "recv" /\ kind = "dns" THEN <<1>> ELSE <<>>]
  /\ open = Resources /\ child = "running"
  /\ at = [p \in Processes |->
            CASE p = "handler" -> "wait"
              [] p = "recv" -> IF kind = "dns" THEN "finish" ELSE "copy"
              [] p = "send" -> IF kind \in {"tcp", "ssh"} THEN "copy" ELSE "later"]

Full(b) == Len(buffer[b]) >= Cap

\* Process p reads a chunk from a buffer, or writes the one it holds to it.
Take(p, b) ==
  /\ holds[p] = <<>> /\ buffer[b] # <<>>
  /\ holds' = [holds EXCEPT ![p] = <<Head(buffer[b])>>]
  /\ buffer' = [buffer EXCEPT ![b] = Tail(@)]

Put(p, b) ==
  /\ holds[p] # <<>> /\ ~Full(b)
  /\ buffer' = [buffer EXCEPT ![b] = @ \o holds[p]]
  /\ holds' = [holds EXCEPT ![p] = <<>>]

-----------------------------------------------------------------------------
(* The client. *)

ClientSends ==
  /\ client = "open" /\ "conn" \in open
  /\ sent < MaxChunks /\ ~Full("inbound")
  /\ sent' = sent + 1
  /\ buffer' = [buffer EXCEPT !["inbound"] = Append(@, sent + 1)]
  /\ UNCHANGED <<kind, client, received, holds, open, child, at>>

ClientReads ==
  /\ client # "gone" /\ buffer["outbound"] # <<>>
  /\ received' = Append(received, Head(buffer["outbound"]))
  /\ buffer' = [buffer EXCEPT !["outbound"] = Tail(@)]
  /\ UNCHANGED <<kind, client, sent, holds, open, child, at>>

ClientHalfCloses ==
  /\ client = "open"
  /\ client' = "half"
  /\ UNCHANGED <<kind, sent, received, buffer, holds, open, child, at>>

ClientLeaves ==
  /\ MayLeave /\ client # "gone"
  /\ client' = "gone"
  /\ UNCHANGED <<kind, sent, received, buffer, holds, open, child, at>>

-----------------------------------------------------------------------------
(* The child: cat, reading stdin to its end. *)

ChildReads ==
  /\ child = "running" /\ Take("child", "stdin")
  /\ UNCHANGED <<kind, client, sent, received, open, child, at>>

ChildWrites ==
  /\ child = "running" /\ "Reader" \in open /\ Put("child", "stdout")
  /\ UNCHANGED <<kind, client, sent, received, open, child, at>>

ChildExits ==
  /\ child = "running"
  /\ "Writer" \notin open /\ buffer["stdin"] = <<>> /\ holds["child"] = <<>>
  /\ child' = "exited"
  /\ UNCHANGED <<kind, client, sent, received, buffer, holds, open, at>>

\* By SIGPIPE, or of its own.
ChildDies ==
  /\ child = "running"
  /\ MayDie \/ ("Reader" \notin open /\ holds["child"] # <<>>)
  /\ child' = "died"
  /\ UNCHANGED <<kind, client, sent, received, buffer, holds, open, at>>

-----------------------------------------------------------------------------
(* io.Copy(stream.Writer, conn) and io.Copy(conn, stream.Reader), where conn is   *)
(* the connection, the session, or the body of the request and its response.     *)

RecvRead ==
  /\ at["recv"] = "copy" /\ "conn" \in open
  /\ Take("recv", "inbound")
  /\ UNCHANGED <<kind, client, sent, received, open, child, at>>

RecvWrite ==
  /\ at["recv"] = "copy" /\ "Writer" \in open /\ child = "running"
  /\ Put("recv", "stdin")
  /\ UNCHANGED <<kind, client, sent, received, open, child, at>>

\* dns keeps what it reads until it has all of it.
SendRead ==
  /\ at["send"] = "copy" /\ "Reader" \in open
  /\ \/ kind # "dns" /\ Take("send", "stdout")
     \/ /\ kind = "dns" /\ buffer["stdout"] # <<>>
        /\ holds' = [holds EXCEPT !["send"] = Append(@, Head(buffer["stdout"]))]
        /\ buffer' = [buffer EXCEPT !["stdout"] = Tail(@)]
  /\ UNCHANGED <<kind, client, sent, received, open, child, at>>

\* Mutant: a chunk that does not fit in the socket buffer is dropped.
SendWriteDropping ==
  /\ kind # "dns" /\ at["send"] = "copy" /\ "conn" \in open /\ client # "gone"
  /\ holds["send"] # <<>>
  /\ buffer' = IF Full("outbound") THEN buffer
               ELSE [buffer EXCEPT !["outbound"] = @ \o holds["send"]]
  /\ holds' = [holds EXCEPT !["send"] = <<>>]
  /\ UNCHANGED <<kind, client, sent, received, open, child, at>>

SendWrite ==
  /\ kind # "dns" /\ at["send"] = "copy" /\ "conn" \in open /\ client # "gone"
  /\ Put("send", "outbound")
  /\ UNCHANGED <<kind, client, sent, received, open, child, at>>

\* Mutant: a Read that has nothing to return counts as EOF.
ReadEndsOnNothing(p) ==
  /\ holds[p] = <<>>
  /\ \/ p = "recv" /\ ("conn" \notin open \/ client = "gone" \/ buffer["inbound"] = <<>>)
     \/ p = "send" /\ ("Reader" \notin open \/ buffer["stdout"] = <<>>)

\* The copy returns: its Read has returned EOF or an error.
ReadEnds(p) ==
  /\ holds[p] = <<>>
  /\ \/ p = "recv" /\ \/ "conn" \notin open \/ client = "gone"
                      \/ client = "half" /\ buffer["inbound"] = <<>>
     \/ p = "send" /\ \/ "Reader" \notin open
                      \/ child # "running" /\ buffer["stdout"] = <<>>

\* The copy returns: its Write has failed.
WriteFails(p) ==
  /\ holds[p] # <<>>
  /\ \/ p = "recv" /\ ("Writer" \notin open \/ child # "running")
     \/ p = "send" /\ ("conn" \notin open \/ client = "gone")

-----------------------------------------------------------------------------
(* One handler in turn: http and dns. *)

\* The end of the body: the handler goes on with the newline it adds.
BodyEnds ==
  /\ kind = "http" /\ at["recv"] = "copy" /\ client = "half" /\ "conn" \in open
  /\ holds["recv"] = <<>> /\ buffer["inbound"] = <<>>
  /\ holds' = [holds EXCEPT !["recv"] = <<Newline>>]
  /\ at' = [at EXCEPT !["recv"] = "finish"]
  /\ UNCHANGED <<kind, client, sent, received, buffer, open, child>>

\* The copy of the body fails, and the handler returns.
BodyFails ==
  /\ kind = "http" /\ at["recv"] = "copy"
  /\ WriteFails("recv") \/ (holds["recv"] = <<>> /\ client = "gone")
  /\ at' = [at EXCEPT !["recv"] = "failed", !["send"] = "done"]
  /\ UNCHANGED <<kind, client, sent, received, buffer, holds, open, child>>

\* The newline, or the whole question: the error of this Write is not looked at.
LastWrite ==
  /\ at["recv"] = "finish"
  /\ \/ child = "running" /\ Put("recv", "stdin")
     \/ child # "running" /\ UNCHANGED <<holds, buffer>>
  /\ at' = [at EXCEPT !["recv"] = "close"]
  /\ UNCHANGED <<kind, client, sent, received, open, child>>

\* Mutant: the whole stream is closed after the request.
CloseStreamAndRead ==
  /\ at["recv"] = "close"
  /\ open' = open \ {"Reader", "Writer"}
  /\ at' = [at EXCEPT !["recv"] = "done", !["send"] = "copy"]
  /\ UNCHANGED <<kind, client, sent, received, buffer, holds, child>>

\* stream.Writer.Close, and on to the reply.
CloseWriterAndRead ==
  /\ at["recv"] = "close"
  /\ open' = open \ {"Writer"}
  /\ at' = [at EXCEPT !["recv"] = "done", !["send"] = "copy"]
  /\ UNCHANGED <<kind, client, sent, received, buffer, holds, child>>

\* The reply to a question has been read: all of it, or when it is parsed as a zone
\* the first record.
ReplyRead ==
  /\ kind = "dns" /\ at["send"] = "copy"
  /\ holds["send"] # <<>> \/ ReadEnds("send")
  /\ at' = [at EXCEPT !["send"] = "done"]
  /\ UNCHANGED <<kind, client, sent, received, buffer, holds, open, child>>

\* A copy that leaves closing to its handler, or to nobody, returns.
CopyReturns(p) ==
  /\ at[p] = "copy"
  /\ kind = "ssh" \/ (kind = "http" /\ p = "send")
  /\ ReadEnds(p) \/ WriteFails(p)
  /\ at' = [at EXCEPT ![p] = "done"]
  /\ UNCHANGED <<kind, client, sent, received, buffer, holds, open, child>>

-----------------------------------------------------------------------------
(* The end. *)

Returned(p) == at[p] \in {"done", "failed"}

\* What a handler waits for: that of ssh runs the copy to the client itself.
Awaited == IF kind = "ssh" THEN {"send"} ELSE Copies

\* Mutant: handleConn does not wait for both copies.
BeginCloseEarly(p) ==
  /\ \/ kind = "tcp" /\ at[p] = "copy" /\ (ReadEnds(p) \/ WriteFails(p))
     \/ at[p] = "wait" /\ \E q \in Copies : Returned(q)
  /\ at' = [at EXCEPT ![p] = IF kind = "ssh" THEN "conn" ELSE "Reader"]
  /\ UNCHANGED <<kind, client, sent, received, buffer, holds, open, child>>

\* The deferred calls begin: those of a copy of tcp when it ends, those of the
\* handler when what it waits for has ended.  The session of ssh is closed for it.
BeginClose(p) ==
  /\ \/ kind = "tcp" /\ at[p] = "copy" /\ (ReadEnds(p) \/ WriteFails(p))
     \/ at[p] = "wait" /\ \A q \in Awaited : Returned(q)
  /\ at' = [at EXCEPT ![p] = IF kind = "ssh" THEN "conn" ELSE "Reader"]
  /\ UNCHANGED <<kind, client, sent, received, buffer, holds, open, child>>

\* Mutant: the copies do not close the connection.
AfterClosingStreamOnly == [r \in Resources |-> IF r = "Reader" THEN "Writer" ELSE "done"]

\* The deferred calls in their order: stream.Close, that is the Reader and then
\* the Writer, and conn.Close; for http and dns the answer is complete then.
AfterClosing == [r \in Resources |-> CASE r = "Reader" -> "Writer"
                                       [] r = "Writer" -> "conn"
                                       [] r = "conn" -> "done"]

\* dns sends its one message when the stream is closed, without an answer if the reply
\* cannot be parsed.
Answers(p) ==
  /\ kind = "dns" /\ at[p] = "conn"
  /\ buffer' = [buffer EXCEPT !["outbound"] = holds["send"]]

\* Closing a socket whose input has not all been read resets the connection: what
\* the client has not read yet may be lost.
CloseNext(p) ==
  /\ at[p] \in Resources
  /\ open' = open \ {at[p]}
  /\ \/ buffer' = buffer
     \/ /\ kind \in {"tcp", "http"} /\ at[p] = "conn" /\ "conn" \in open
        /\ buffer["inbound"] # <<>> /\ buffer' = [buffer EXCEPT !["outbound"] = <<>>]
     \/ Answers(p)
  /\ at' = [at EXCEPT ![p] = AfterClosing[at[p]]]
  /\ UNCHANGED <<kind, client, sent, received, holds, child>>

-----------------------------------------------------------------------------
Recv == RecvRead \/ RecvWrite \/ BodyEnds \/ BodyFails \/ LastWrite \/ CloseWriterAndRead
Send == SendRead \/ SendWrite \/ ReplyRead
Child == ChildReads \/ ChildWrites \/ ChildExits \/ ChildDies
End(p) == BeginClose(p) \/ CloseNext(p) \/ (p \in Copies /\ CopyReturns(p))

Next ==
  \/ ClientSends \/ ClientReads \/ ClientHalfCloses \/ ClientLeaves
  \/ Child \/ Recv \/ Send
  \/ \E p \in Processes : End(p)

\* The goroutines and the child run, and a client that has not gone reads on.
\* Nothing is assumed of when it sends, shuts down or goes, nor that a child
\* exits before the end of its input.
Fairness ==
  /\ WF_vars(Recv) /\ WF_vars(Send)
  /\ \A p \in Processes : WF_vars(End(p))
  /\ WF_vars(ChildReads) /\ WF_vars(ChildWrites) /\ WF_vars(ChildExits)
  /\ WF_vars(~MayDie /\ ChildDies)
  /\ WF_vars(ClientReads)

Spec == Init /\ [][Next]_vars /\ Fairness

-----------------------------------------------------------------------------
Chunks == Newline..MaxChunks

TypeOK ==
  /\ kind \in Kinds
  /\ client \in {"open", "half", "gone"} /\ child \in {"running", "exited", "died"}
  /\ sent \in 0..MaxChunks /\ received \in Seq(Chunks)
  /\ buffer \in [Buffers -> Seq(Chunks)]
  /\ holds \in [Copies \cup {"child"} -> Seq(Chunks)]
  /\ open \subseteq Resources
  /\ at \in [Processes -> {"copy", "later", "finish", "close", "wait", "failed", "done"}
                           \cup Resources]

\* Where the chunks are, in the order they travel.
InFlight ==
  received \o buffer["outbound"] \o holds["send"] \o buffer["stdout"]
           \o holds["child"] \o buffer["stdin"] \o holds["recv"] \o buffer["inbound"]

\* What the child is to be given: what the client has sent, and after the whole body
\* of a request the newline.
Ending == kind = "http" /\ at["recv"] \in {"finish", "close", "done"}
Given ==
  [i \in 1..(sent + (IF Ending THEN 1 ELSE 0)) |-> IF i <= sent THEN i ELSE Newline]

\* Until something is closed, and in a request of http or dns until its answer is
\* complete, every chunk the client has sent is on its way exactly once and in order:
\* the two copies run concurrently and neither loses, repeats or reorders anything;
\* whatever happens later the client reads a prefix (tcp.go:95-118, http/listen.go:127-141).
NothingLostWhileOpen ==
  /\ open = Resources \/ (kind \in {"http", "dns"} /\ "conn" \in open) => InFlight = Given
  /\ \A i \in DOMAIN received : i \in DOMAIN Given /\ received[i] = Given[i]

\* The client of an http request that waits for its answer gets the whole of what the
\* child wrote, from the first chunk of the request to the newline after the last,
\* when the child has read to the end of its input: closing the Writer before the
\* reply is read cuts neither (http/listen.go:127-141).
EchoIsWhole ==
  kind = "http" /\ at["handler"] = "done" /\ client = "half" /\ child = "exited"
    => received \o buffer["outbound"] = Given

\* The handler returns only when everything is closed and no copy still uses it
\* (tcp.go:39-49 and its defers); that of ssh closes nothing but the session.
ReturnsClosed ==
  at["handler"] = "done" =>
    /\ "conn" \notin open /\ \A p \in Awaited : Returned(p)
    /\ kind # "ssh" => open = {}

\* Nobody closes the connection under the client as long as it is there and the
\* child runs: the first to end is a copy that has seen one of them end.
ClosesForAReason ==
  open # Resources => client # "open" \/ child # "running"

\* The handler writes to a child that writes to it.
RequestBlocks ==
  /\ kind = "http" /\ at["recv"] \in {"copy", "finish"} /\ holds["recv"] # <<>> /\ Full("stdin")
  /\ holds["child"] # <<>> /\ Full("stdout")

\* One side that ends is enough to end a connection of tcp: the copy that notices it
\* unblocks the other, the handler returns and nothing stays open, even when the other
\* copy is blocked in a Read or a Write (tcp.go:95-118).  A request ends when the
\* client's part has, unless its handler and the child block each other; a session
\* of ssh when the child has.
SessionEnds ==
  \/ kind \in {"tcp", "http", "dns"} /\ client # "open"
  \/ kind \in {"tcp", "ssh"} /\ child # "running"
  ~> \/ at["handler"] = "done"
     \/ RequestBlocks
=============================================================================
