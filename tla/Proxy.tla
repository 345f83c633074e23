------------------------------- MODULE Proxy -------------------------------
(***************************************************************************)
(* One proxied stream: ProxyStreamManager.NewStream of internal/proxy.go,  *)
(* the handler of a listening scheme on one side and the Connect of a      *)
(* connecting scheme on the other.                                         *)
(*                                                                         *)
(*   client -> lin --up--> cin -> server      server -> cout --down--> lout *)
(*                                                              -> client  *)
(*                                                                         *)
(* "up" and "down" are the two pipes of io.Pipe.  They hold nothing: a     *)
(* Write returns when its chunk has been read, or when either end of the   *)
(* pipe is closed.  lin and lout are the halves of the handler, cin and    *)
(* cout those of Connect: goroutines, or one goroutine that does the one   *)
(* after the other, as the scheme has it.                                  *)
(*                                                                         *)
(* A chunk is what one Write passes on; for postgres it is a statement,    *)
(* or the rows of one.  Session has the steps of the deferred closes that  *)
(* are one step here.                                                      *)
(***************************************************************************)
EXTENDS Naturals, Sequences

CONSTANTS
  Pairs,       \* the kinds <<listening, connecting>> that are put together
  MaxRequest,  \* bound: the chunks a client sends, a closing newline not counted
  MaxReply     \* bound: the chunks a server sends

\* "copies": tcp, tls and websocket.  "request": http.
ListenKinds == {"copies", "request"}

\* "copies": as above.  "get", "post": http without and with a body.
\* "lookup": dns.  "query", "subscribe", "notify": postgres, postgres+listen,
\* postgres+notify.  "fails": any Connect that cannot reach its server.
ConnectKinds == {"copies", "get", "post", "graphql", "lookup", "query",
                 "subscribe", "notify", "fails"}

ASSUME ProxyAssumption ==
  /\ Pairs \subseteq ListenKinds \X ConnectKinds
  /\ MaxRequest \in Nat /\ MaxReply \in Nat

VARIABLES
  listen, connect,  \* the kinds of this stream
  at,        \* where each half is
  holds,     \* the chunks it has read and not yet written
  open,      \* what ndog has not closed: the ends of the pipes, the connections
  client,    \* "sending", "half" (no more to send) or "gone"
  server,    \* "up" or "gone" (its answer has ended)
  asked,     \* chunks lin has been given to write
  served,    \* chunks the server has been given
  replied,   \* chunks cout has been given to write
  answered,  \* chunks the client has been given
  returned   \* which of the handler and Connect have returned

kinds == <<listen, connect>>
network == <<client, server, asked, served, replied, answered>>
vars == <<kinds, at, holds, open, network, returned>>

Halves == {"lin", "lout", "cin", "cout"}
ListenEnds == {"up.w", "down.r", "client"}
ConnectEnds == {"up.r", "down.w", "server"}

\* The halves that a Connect starts with.
Reading == {"copies", "post", "graphql", "query", "notify"}
Answering == {"copies", "get", "post", "lookup", "query", "subscribe"}

\* Those that do not look at the result of a write to the stream.
Careless == {"lookup", "query", "subscribe"}

InitAt(l, c) ==
  [h \in Halves |->
     CASE h = "lin" -> "run"
       [] h = "lout" -> IF l = "request" THEN "idle" ELSE "run"
       [] h = "cin" -> IF c \in Reading THEN "run" ELSE "done"
       [] h = "cout" -> IF c \in Answering THEN "run"
                        ELSE IF c = "graphql" THEN "idle" ELSE "done"]

Init ==
  /\ \E pair \in Pairs : listen = pair[1] /\ connect = pair[2]
  /\ at = InitAt(listen, connect)
  /\ holds = [h \in Halves |-> <<>>]
  /\ open = ListenEnds \cup ConnectEnds
  /\ client = "sending" /\ server = "up"
  /\ asked = 0 /\ served = <<>> /\ replied = 0 /\ answered = <<>>
  /\ returned = {}

\* The halves that one goroutine runs end together.
EndWith(h) ==
  CASE h \in {"lin", "lout"} /\ listen = "request" -> {"lin", "lout"}
    [] h \in {"cin", "cout"} /\ connect \in {"query", "graphql"} -> {"cin", "cout"}
    [] OTHER -> {h}

Running(h) == at[h] \in {"run", "last"}
Empty(h) == holds[h] = <<>>

-----------------------------------------------------------------------------
(***************************************************************************)
(* The pipes.                                                              *)
(***************************************************************************)

UpIsOpen == {"up.r", "up.w"} \subseteq open
DownIsOpen == {"down.r", "down.w"} \subseteq open

\* ReadAll goes on reading; the others have to have done with what they read
\* before, and the one goroutine of postgres with its rows as well.
CinReads ==
  /\ Running("cin")
  /\ connect # "graphql" => Empty("cin")
  /\ connect = "query" => Empty("cout")

\* Mutant: the Write returns before its chunk is taken from the writer.
PassUpTwice ==
  /\ UpIsOpen /\ Running("lin") /\ ~Empty("lin")
  /\ CinReads
  /\ holds' = [holds EXCEPT !["cin"] = @ \o holds["lin"]]
  /\ UNCHANGED <<kinds, at, open, network, returned>>

\* lin writes the chunk it holds and cin reads it.
PassUp ==
  /\ UpIsOpen /\ Running("lin") /\ ~Empty("lin")
  /\ CinReads
  /\ holds' = [holds EXCEPT !["cin"] = @ \o holds["lin"], !["lin"] = <<>>]
  /\ UNCHANGED <<kinds, at, open, network, returned>>

\* cout writes the chunk it holds and lout reads it.
PassDown ==
  /\ DownIsOpen /\ Running("cout") /\ ~Empty("cout")
  /\ Running("lout") /\ Empty("lout")
  /\ holds' = [holds EXCEPT !["lout"] = holds["cout"], !["cout"] = <<>>]
  /\ UNCHANGED <<kinds, at, open, network, returned>>

-----------------------------------------------------------------------------
(***************************************************************************)
(* The listening side.                                                     *)
(***************************************************************************)

\* The client sends a chunk, and lin reads it.
ListenRead ==
  /\ at["lin"] = "run" /\ Empty("lin") /\ "client" \in open
  /\ client = "sending" /\ asked < MaxRequest
  /\ asked' = asked + 1
  /\ holds' = [holds EXCEPT !["lin"] = <<asked + 1>>]
  /\ UNCHANGED <<kinds, at, open, client, server, served, replied, answered, returned>>

\* The body of an http request has ended; the handler writes a newline.
RequestLast ==
  /\ listen = "request" /\ at["lin"] = "run" /\ Empty("lin")
  /\ client = "half"
  /\ asked' = asked + 1
  /\ holds' = [holds EXCEPT !["lin"] = <<asked + 1>>]
  /\ at' = [at EXCEPT !["lin"] = "last"]
  /\ UNCHANGED <<kinds, open, client, server, served, replied, answered, returned>>

\* Mutant: the handler closes the stream and not its Writer.
RequestSentClosed ==
  /\ at["lin"] = "last" /\ (Empty("lin") \/ ~UpIsOpen)
  /\ holds' = [holds EXCEPT !["lin"] = <<>>]
  /\ open' = open \ {"up.w", "down.r"}
  /\ at' = [at EXCEPT !["lin"] = "done", !["lout"] = "run"]
  /\ UNCHANGED <<kinds, network, returned>>

\* The newline is written, or its error not looked at: the handler closes the
\* Writer and begins to read the response.
RequestSent ==
  /\ at["lin"] = "last" /\ (Empty("lin") \/ ~UpIsOpen)
  /\ holds' = [holds EXCEPT !["lin"] = <<>>]
  /\ open' = open \ {"up.w"}
  /\ at' = [at EXCEPT !["lin"] = "done", !["lout"] = "run"]
  /\ UNCHANGED <<kinds, network, returned>>

\* The client is sent the chunk that lout holds.
ListenWrite ==
  /\ Running("lout") /\ ~Empty("lout")
  /\ "client" \in open /\ client # "gone"
  /\ answered' = answered \o holds["lout"]
  /\ holds' = [holds EXCEPT !["lout"] = <<>>]
  /\ UNCHANGED <<kinds, at, open, client, server, asked, served, replied, returned>>

\* The Read of a half has returned EOF or an error, or its Write an error.
ListenOver(h) ==
  \/ /\ h = "lin" /\ at[h] = "run"
     /\ IF Empty(h)
        THEN \/ client = "gone" \/ "client" \notin open
             \/ client = "half" /\ listen = "copies"
        ELSE ~UpIsOpen
  \/ /\ h = "lout" /\ at[h] = "run"
     /\ IF Empty(h)
        THEN ~DownIsOpen
        ELSE client = "gone" \/ "client" \notin open

\* Mutant: closing the stream closes its Reader alone.
ListenHalfEndsReader(h) ==
  /\ ListenOver(h)
  /\ open' = open \ {"down.r", "client"}
  /\ at' = [g \in Halves |-> IF g \in EndWith(h) THEN "done" ELSE at[g]]
  /\ UNCHANGED <<kinds, holds, network, returned>>

\* Then the stream and the connection are closed.  A copy leaves the other one
\* to find out; a request's handler has only one goroutine.
ListenHalfEnds(h) ==
  /\ ListenOver(h)
  /\ open' = open \ ListenEnds
  /\ at' = [g \in Halves |-> IF g \in EndWith(h) THEN "done" ELSE at[g]]
  /\ UNCHANGED <<kinds, holds, network, returned>>

\* handleConn, or the handler of the request, returns.
HandlerReturns ==
  /\ at["lin"] = "done" /\ at["lout"] = "done"
  /\ returned' = returned \cup {"listen"}
  /\ UNCHANGED <<kinds, at, holds, open, network>>

-----------------------------------------------------------------------------
(***************************************************************************)
(* The connecting side.                                                    *)
(***************************************************************************)

ServerIsThere == server = "up" /\ "server" \in open

\* A copy, the transport of an http request, or the Exec of a NOTIFY passes on
\* what cin has read.
ConnectWrite ==
  /\ connect \in {"copies", "post", "notify"}
  /\ Running("cin") /\ ~Empty("cin") /\ ServerIsThere
  /\ served' = served \o holds["cin"]
  /\ holds' = [holds EXCEPT !["cin"] = <<>>]
  /\ UNCHANGED <<kinds, at, open, client, server, asked, replied, answered, returned>>

\* ReadAll has read to the end: the query is sent as one request.
PostQuery ==
  /\ connect = "graphql" /\ Running("cin") /\ ~UpIsOpen /\ ServerIsThere
  /\ served' = served \o holds["cin"]
  /\ holds' = [holds EXCEPT !["cin"] = <<>>]
  /\ at' = [at EXCEPT !["cin"] = "done", !["cout"] = "run"]
  /\ UNCHANGED <<kinds, open, client, server, asked, replied, answered, returned>>

\* postgres executes a statement, which has rows or none; an error is logged.
ExecuteStatement ==
  /\ connect = "query" /\ Running("cin") /\ ~Empty("cin") /\ Empty("cout")
  /\ \/ /\ ServerIsThere /\ replied < MaxReply
        /\ served' = served \o holds["cin"]
        /\ replied' = replied + 1
        /\ holds' = [holds EXCEPT !["cin"] = <<>>, !["cout"] = <<replied + 1>>]
     \/ /\ ServerIsThere
        /\ served' = served \o holds["cin"]
        /\ holds' = [holds EXCEPT !["cin"] = <<>>]
        /\ UNCHANGED replied
     \/ /\ ~ServerIsThere
        /\ holds' = [holds EXCEPT !["cin"] = <<>>]
        /\ UNCHANGED <<served, replied>>
  /\ UNCHANGED <<kinds, at, open, client, server, asked, answered, returned>>

\* The server sends a chunk, and cout reads it.  A graphql response is decoded
\* as a whole.
ConnectRead ==
  /\ connect # "query" /\ Running("cout") /\ Empty("cout") /\ ServerIsThere
  /\ replied < MaxReply /\ (connect = "graphql" => replied = 0)
  /\ replied' = replied + 1
  /\ holds' = [holds EXCEPT !["cout"] = <<replied + 1>>]
  /\ UNCHANGED <<kinds, at, open, client, server, asked, served, answered, returned>>

\* dns and postgres do not look at the error of a write to the stream.
AnswerDropped ==
  /\ connect \in Careless
  /\ Running("cout") /\ ~Empty("cout") /\ ~DownIsOpen
  /\ holds' = [holds EXCEPT !["cout"] = <<>>]
  /\ UNCHANGED <<kinds, at, open, network, returned>>

\* The half has come to an end: EOF, an error it looks at, its one answer.
ConnectOver(h) ==
  \/ /\ h = "cin" /\ at[h] = "run"
     /\ \/ /\ Empty(h) /\ ~UpIsOpen /\ connect # "graphql"
           /\ connect = "query" => Empty("cout")
        \/ ~Empty(h) /\ ~ServerIsThere /\ connect \in {"copies", "post", "notify"}
        \/ connect = "graphql" /\ ~UpIsOpen /\ ~ServerIsThere
  \/ /\ h = "cout" /\ at[h] = "run" /\ connect # "query"
     /\ IF Empty(h)
        THEN ~ServerIsThere \/ (connect = "graphql" /\ replied = 1)
        ELSE ~DownIsOpen /\ connect \notin Careless

\* Mutant: the transport leaves the body of its request open.
ClosedByCopies(h) == IF connect = "copies" THEN ConnectEnds ELSE {}

\* What a half closes when it ends: a copy closes the stream and the connection,
\* and net/http the body of its request.
ClosedBy(h) ==
  CASE connect = "copies" -> ConnectEnds
    [] connect = "post" /\ h = "cin" -> {"up.r"}
    [] OTHER -> {}

ConnectHalfEnds(h) ==
  /\ ConnectOver(h)
  /\ open' = open \ ClosedBy(h)
  /\ at' = [g \in Halves |-> IF g \in EndWith(h) THEN "done" ELSE at[g]]
  /\ UNCHANGED <<kinds, holds, network, returned>>

\* Connect waits for both copies; a request in http does not wait for its body.
ConnectIsDone ==
  at["cout"] = "done" /\ (connect # "post" => at["cin"] = "done")

\* Mutant: connectWriter is closed only after an error.
ConnectReturnsQuietly ==
  /\ ConnectIsDone
  /\ returned' = returned \cup {"connect"}
  /\ open' = IF connect = "fails" THEN open \ {"down.w"} ELSE open
  /\ UNCHANGED <<kinds, at, holds, network>>

\* Connect returns, closing its connection (http keeps it), and the deferred
\* connectWriter.Close runs.  Nothing closes the other pipe.
ConnectReturns ==
  /\ ConnectIsDone
  /\ returned' = returned \cup {"connect"}
  /\ open' = open \ IF connect \in {"get", "post", "graphql"}
                    THEN {"down.w"} ELSE {"down.w", "server"}
  /\ UNCHANGED <<kinds, at, holds, network>>

-----------------------------------------------------------------------------
(* The client and the server. *)

ClientEnds ==
  /\ \/ client = "sending" /\ client' = "half"
     \/ client # "gone" /\ client' = "gone"
  /\ UNCHANGED <<kinds, at, holds, open, server, asked, served, replied, answered, returned>>

ServerEnds ==
  /\ server = "up"
  /\ server' = "gone"
  /\ UNCHANGED <<kinds, at, holds, open, client, asked, served, replied, answered, returned>>

-----------------------------------------------------------------------------
Next ==
  \/ PassUp \/ PassDown
  \/ ListenRead \/ RequestLast \/ RequestSent \/ ListenWrite
  \/ \E h \in {"lin", "lout"} : ListenHalfEnds(h)
  \/ HandlerReturns
  \/ ConnectWrite \/ PostQuery \/ ExecuteStatement \/ ConnectRead \/ AnswerDropped
  \/ \E h \in {"cin", "cout"} : ConnectHalfEnds(h)
  \/ ConnectReturns
  \/ ClientEnds \/ ServerEnds

\* The goroutines run, and the server of an http request or a dns lookup comes
\* to the end of its answer.  A tcp server or a postgres need not end.
Fairness ==
  /\ WF_vars(PassUp) /\ WF_vars(PassDown)
  /\ WF_vars(RequestLast) /\ WF_vars(RequestSent) /\ WF_vars(ListenWrite)
  /\ \A h \in {"lin", "lout"} : WF_vars(ListenHalfEnds(h))
  /\ WF_vars(HandlerReturns)
  /\ WF_vars(ConnectWrite) /\ WF_vars(PostQuery) /\ WF_vars(ExecuteStatement)
  /\ WF_vars(AnswerDropped)
  /\ \A h \in {"cin", "cout"} : WF_vars(ConnectHalfEnds(h))
  /\ WF_vars(ConnectReturns)
  /\ WF_vars(connect \in {"get", "post", "graphql", "lookup"} /\ ServerEnds)

Spec == Init /\ [][Next]_vars /\ Fairness

-----------------------------------------------------------------------------
TypeOK ==
  /\ listen \in ListenKinds /\ connect \in ConnectKinds
  /\ at \in [Halves -> {"idle", "run", "last", "done"}]
  /\ holds \in [Halves -> Seq(Nat)]
  /\ open \subseteq ListenEnds \cup ConnectEnds
  /\ client \in {"sending", "half", "gone"} /\ server \in {"up", "gone"}
  /\ asked \in 0..MaxRequest + 1 /\ replied \in 0..MaxReply
  /\ served \in Seq(Nat) /\ answered \in Seq(Nat)
  /\ returned \subseteq {"listen", "connect"}

\* s counts on from n.
CountsFrom(s, n) == \A i \in 1..Len(s) : s[i] = n + i

UnderWay == served \o holds["cin"] \o holds["lin"]

\* Whatever pair of schemes is joined and whoever ends first, the server is
\* given the beginning of what the client sent, and the client the beginning of
\* what the server sent: nothing missing in between, repeated or out of order.
\* As long as the pipe and the server are there, what the server has not been
\* given yet is still on its way (proxy.go:17-18).
InOrder ==
  /\ CountsFrom(served, 0) /\ CountsFrom(answered, 0)
  /\ UpIsOpen /\ ServerIsThere => CountsFrom(UnderWay, 0) /\ Len(UnderWay) = asked

\* An http client whose request has been forwarded as a whole to an http server
\* gets the whole response: the handler returns after the last of it, although
\* the two are joined by nothing but the close of a pipe (http/listen.go:133,
\* proxy.go:40).
ReplyIsWhole ==
  listen = "request" /\ connect \in {"post", "graphql"} =>
    ("listen" \in returned /\ client = "half" /\ Len(served) = asked
       => Len(answered) = replied)

\* A client that has sent its request, or has gone, does not leave its handler
\* behind: it is not blocked for ever on a pipe (http/connect.go:98 "we can
\* avoid hanging", postgresql.go:22 "sends input ... and outputs the returned
\* rows").
ListenerReturns == client # "sending" ~> "listen" \in returned

\* When the handler has returned, the close of its two ends of the pipes brings
\* every goroutine of the connecting side to an end, wherever it was.
ConnectReturnsToo == "listen" \in returned ~> \A h \in Halves : at[h] = "done"

\* A connection whose Connect has returned or failed is closed for the client
\* too, who may neither send nor leave: the deferred close of the one pipe is
\* what tells the copies (proxy.go:40).
ClientIsTold ==
  listen = "copies" /\ "connect" \in returned ~> "listen" \in returned
=============================================================================
