-------------------------------- MODULE Ndog --------------------------------
(***************************************************************************)
(* Run of main.go: from a command line to a Listen and its Connects, and   *)
(* the options they share.                                                 *)
(*                                                                         *)
(* Run puts the -o options into one map and hands that map to Listen and   *)
(* to Connect.  Each takes the options it knows out of the map (Pop, and a *)
(* loop for header.<NAME>) and, unless it knows none at all, refuses to    *)
(* start when something is left (Done).  A proxied listener starts one     *)
(* Connect per stream, concurrently and with the same map.                 *)
(*                                                                         *)
(* An option is its key.  A Pop is a look-up and a deletion, with other    *)
(* goroutines in between; the map has no lock, and the Go runtime may end  *)
(* the program when it sees two goroutines in it.                          *)
(***************************************************************************)
EXTENDS Naturals, Sequences, TLSConfig

CONSTANTS
  Commands,  \* the command lines a user may give
  Headers,   \* the options of the form header.<NAME> among them
  Streams    \* bound: the streams a listener opens, one Connect each

VARIABLES
  cmd,      \* the command line
  main,     \* where Run is, or how it ended
  opts,     \* the options still in the map
  at,       \* where Listen and the Connects are
  pending,  \* the keys each has still to Pop
  took,     \* the options each has taken
  cert      \* the certificate a listener presents

vars == <<cmd, main, opts, at, pending, took, cert>>

None == "none"
Listener == "Listen"
Users == Streams \cup {Listener}

-----------------------------------------------------------------------------
(* The registry.  "+post" stands for the nine methods in both cases. *)

Scheme(names, hidden, listens, connects) ==
  [names |-> names, hidden |-> hidden, listens |-> listens, connects |-> connects]

Schemes == {
  Scheme({"dns"}, {}, TRUE, TRUE),
  Scheme({"http", "https"}, {"http+post", "https+post"}, TRUE, TRUE),
  Scheme({"http+graphql", "https+graphql"}, {}, FALSE, TRUE),
  Scheme({"postgres"}, {}, FALSE, TRUE),
  Scheme({"postgres+listen"}, {}, FALSE, TRUE),
  Scheme({"postgres+notify"}, {}, FALSE, TRUE),
  Scheme({"ssh"}, {}, TRUE, FALSE),
  Scheme({"tcp"}, {}, TRUE, TRUE),
  Scheme({"tls"}, {}, TRUE, TRUE),
  Scheme({"udp"}, {}, TRUE, TRUE),
  Scheme({"ws", "wss"}, {}, TRUE, TRUE) }

Lookup(name) == {s \in Schemes : name \in s.names \cup s.hidden}

HTTP == {"http", "https", "http+post", "https+post"}
GraphQL == {"http+graphql", "https+graphql"}
WS == {"ws", "wss"}

-----------------------------------------------------------------------------
(* What each Listen and Connect does with the options. *)

URLScheme(p) == IF p = Listener THEN cmd.listen ELSE cmd.connect

\* The keys each pops, in this order.
HTTPListenPops == <<"msgpack_to_json", "status_code", "proxy_pass", "serve_file">>
HTTPConnectPops == <<"method", "follow_redirects">>
DNSListenPops == <<"zone">>
DNSConnectPops == <<"norecurse", "json">>
WSListenPops == <<"text">>
WSConnectPops == <<"origin", "protocol", "text">>
PostgresPops == <<"json">>

Pops(p) ==
  CASE p = Listener /\ URLScheme(p) \in HTTP -> HTTPListenPops
    [] p = Listener /\ URLScheme(p) = "dns" -> DNSListenPops
    [] p = Listener /\ URLScheme(p) \in WS -> WSListenPops
    [] p # Listener /\ URLScheme(p) \in HTTP \cup GraphQL -> HTTPConnectPops
    [] p # Listener /\ URLScheme(p) = "dns" -> DNSConnectPops
    [] p # Listener /\ URLScheme(p) \in WS -> WSConnectPops
    [] p # Listener /\ URLScheme(p) \in {"postgres", "postgres+listen"} -> PostgresPops
    [] OTHER -> <<>>

TakesHeaders(p) ==
  \/ URLScheme(p) \in HTTP \cup GraphQL
  \/ p # Listener /\ URLScheme(p) \in WS

Known(p) ==
  {Pops(p)[i] : i \in 1..Len(Pops(p))} \cup (IF TakesHeaders(p) THEN Headers ELSE {})

\* The others look neither for options nor for what is left of them.
Checks(p) == URLScheme(p) \notin {"tcp", "tls", "udp", "ssh"}

\* Listeners ask for TLS by the exact name of the scheme; http and websocket
\* Connects load the files whether or not their URL asks for TLS.
UsesTLS(p) ==
  IF p = Listener THEN URLScheme(p) \in {"https", "tls", "wss"}
  ELSE URLScheme(p) \in HTTP \cup GraphQL \cup WS \cup {"tls"}

\* Only https and tls ask for a server's configuration.
AsServer(p) == p = Listener /\ URLScheme(p) \in {"https", "tls"}

CertificateOf(p) == Certificate(cmd.files, AsServer(p))

\* ListenAndServeTLS without a certificate fails.
TLSAllows(p) ==
  UsesTLS(p) =>
    /\ Loads(cmd.files, cmd.bad, AsServer(p))
    /\ p = Listener => CertificateOf(p) # "none"

-----------------------------------------------------------------------------
(* Run. *)

Init ==
  /\ cmd \in Commands
  /\ main = "run" /\ opts = cmd.options
  /\ at = [p \in Users |-> "idle"]
  /\ pending = [p \in Users |-> <<>>] /\ took = [p \in Users |-> {}]
  /\ cert = "none"

CommandRefused ==
  \/ {"verbose", "quiet"} \subseteq cmd.flags
  \/ cmd.listen # None /\ ~\E s \in Lookup(cmd.listen) : s.listens
  \/ cmd.connect # None /\ ~\E s \in Lookup(cmd.connect) : s.connects
  \/ cmd.listen = None /\ cmd.connect = None

\* Up to the last switch of Run, which calls Listen or Connect.  The order of the
\* checks makes no difference, for each ends the program.
Run ==
  /\ main = "run"
  /\ main' = CASE cmd.flags \cap {"list-schemes", "scheme-help", "version"} # {} -> "exit"
               [] OTHER -> IF CommandRefused THEN "error"
                           ELSE IF cmd.listen # None THEN "listen" ELSE "connect"
  /\ UNCHANGED <<cmd, opts, at, pending, took, cert>>

\* The stream manager Listen is given; --exec counts only without --connect.
Manager ==
  CASE cmd.listen # None /\ cmd.connect # None -> "proxy"
    [] OTHER -> IF "exec" \in cmd.flags THEN "exec" ELSE "stdio"

Starts(p) ==
  \/ main = "listen" /\ p = Listener
  \/ main = "listen" /\ p # Listener /\ at[Listener] = "open" /\ Manager = "proxy"
  \/ main = "connect" /\ p # Listener /\ \A q \in Streams : at[q] = "idle"

Begin(p) ==
  /\ at[p] = "idle" /\ Starts(p)
  /\ at' = [at EXCEPT ![p] = IF Checks(p) THEN "popping" ELSE "ready"]
  /\ pending' = [pending EXCEPT ![p] = Pops(p)]
  /\ UNCHANGED <<cmd, main, opts, took, cert>>

-----------------------------------------------------------------------------
(* Extracting the options. *)

Running == main \in {"listen", "connect"}

\* Mutant: the second result of Pop is ignored.
PopMissTaken(p) ==
  /\ Running /\ at[p] = "popping" /\ pending[p] # <<>>
  /\ Head(pending[p]) \notin opts
  /\ took' = [took EXCEPT ![p] = @ \cup {Head(pending[p])}]
  /\ pending' = [pending EXCEPT ![p] = Tail(@)]
  /\ UNCHANGED <<cmd, main, opts, at, cert>>

\* The next key is not there.
PopMiss(p) ==
  /\ Running /\ at[p] = "popping" /\ pending[p] # <<>>
  /\ Head(pending[p]) \notin opts
  /\ pending' = [pending EXCEPT ![p] = Tail(@)]
  /\ UNCHANGED <<cmd, main, opts, at, took, cert>>

PopLookUp(p) ==
  /\ Running /\ at[p] = "popping" /\ pending[p] # <<>>
  /\ Head(pending[p]) \in opts
  /\ took' = [took EXCEPT ![p] = @ \cup {Head(pending[p])}]
  /\ at' = [at EXCEPT ![p] = "deleting"]
  /\ UNCHANGED <<cmd, main, opts, pending, cert>>

\* Mutant: a header is deleted before its value is read.
HeaderNextForgotten(p) ==
  /\ Running /\ at[p] = "popping" /\ pending[p] = <<>> /\ TakesHeaders(p)
  /\ \E k \in opts \cap Headers :
       /\ opts' = opts \ {k}
       /\ took' = IF k \in opts' THEN [took EXCEPT ![p] = @ \cup {k}] ELSE took
       /\ pending' = pending /\ at' = at
  /\ UNCHANGED <<cmd, main, cert>>

\* The range loop over the map comes to the next header, in any order.
HeaderNext(p) ==
  /\ Running /\ at[p] = "popping" /\ pending[p] = <<>> /\ TakesHeaders(p)
  /\ \E k \in opts \cap Headers :
       /\ took' = [took EXCEPT ![p] = @ \cup {k}]
       /\ pending' = [pending EXCEPT ![p] = <<k>>]
  /\ at' = [at EXCEPT ![p] = "deleting"]
  /\ UNCHANGED <<cmd, main, opts, cert>>


\* The value of status_code is scanned with %d into a string, which fails
\* whatever it is.
Delete(p) ==
  /\ Running /\ at[p] = "deleting"
  /\ opts' = opts \ {Head(pending[p])}
  /\ pending' = [pending EXCEPT ![p] = Tail(@)]
  /\ at' = [at EXCEPT ![p] = IF Head(pending[p]) = "status_code" THEN "refused" ELSE "popping"]
  /\ UNCHANGED <<cmd, main, took, cert>>

LoopEnds(p) ==
  /\ Running /\ at[p] = "popping" /\ pending[p] = <<>>
  /\ TakesHeaders(p) => opts \cap Headers = {}

\* Mutant: what is left is looked for among the options one knows.
DoneKnown(p) ==
  /\ LoopEnds(p)
  /\ at' = [at EXCEPT ![p] = IF opts \cap Known(p) = {} THEN "ready" ELSE "refused"]
  /\ UNCHANGED <<cmd, main, opts, pending, took, cert>>

\* Mutant: Done is called before the loop over the headers.
DoneEarly(p) ==
  /\ Running /\ at[p] = "popping" /\ pending[p] = <<>>
  /\ at' = [at EXCEPT ![p] = IF opts = {} THEN "ready" ELSE "refused"]
  /\ UNCHANGED <<cmd, main, opts, pending, took, cert>>

Done(p) ==
  /\ LoopEnds(p)
  /\ at' = [at EXCEPT ![p] = IF opts = {} THEN "ready" ELSE "refused"]
  /\ UNCHANGED <<cmd, main, opts, pending, took, cert>>

Extract(p) == PopMiss(p) \/ PopLookUp(p) \/ HeaderNext(p) \/ Delete(p) \/ Done(p)

\* Two goroutines use the map at the same time: "fatal error: concurrent map
\* read and map write", if the runtime notices.
MapRace ==
  /\ Running
  /\ \E p, q \in Users : p # q /\ at[p] = "deleting" /\ at[q] \in {"popping", "deleting"}
  /\ main' = "crashed"
  /\ UNCHANGED <<cmd, opts, at, pending, took, cert>>

-----------------------------------------------------------------------------
(* After the options. *)

\* The listener listens, the Connect has dialled.
Open(p) ==
  /\ Running /\ at[p] = "ready" /\ TLSAllows(p)
  /\ at' = [at EXCEPT ![p] = "open"]
  /\ cert' = IF p = Listener /\ UsesTLS(p) THEN CertificateOf(p) ELSE cert
  /\ UNCHANGED <<cmd, main, opts, pending, took>>

\* No certificate, an address in use, a server that does not answer; and
\* a Connect, or a Listen whose socket fails, that returns.
Fail(p) ==
  /\ Running /\ at[p] \in {"ready", "open"}
  /\ at' = [at EXCEPT ![p] = "closed"]
  /\ UNCHANGED <<cmd, main, opts, pending, took, cert>>

\* Run returns what its Listen or Connect returns, and the program ends; the
\* Connects of a proxy end for themselves.
Return(p) ==
  /\ Running /\ at[p] \in {"refused", "closed"}
  /\ main = "listen" => p = Listener
  /\ main' = IF at[p] = "refused" THEN "error" ELSE "exit"
  /\ UNCHANGED <<cmd, opts, at, pending, took, cert>>

Next ==
  \/ Run \/ MapRace
  \/ \E p \in Users : Begin(p) \/ Extract(p) \/ Open(p) \/ Fail(p) \/ Return(p)

\* The goroutines run.  Nothing is assumed of when streams are opened, nor that a
\* listener or a Connect ends.
Fairness ==
  /\ WF_vars(Run)
  /\ \A p \in Users : WF_vars(Extract(p)) /\ WF_vars(Return(p))

Spec == Init /\ [][Next]_vars /\ Fairness

-----------------------------------------------------------------------------
ASSUME NdogAssumption ==
  /\ Listener \notin Streams /\ "status_code" \notin Headers
  /\ \A c \in Commands : c.files \subseteq Files /\ c.bad \subseteq Files

TypeOK ==
  /\ main \in {"run", "listen", "connect", "exit", "error", "crashed"}
  /\ opts \subseteq cmd.options
  /\ at \in [Users -> {"idle", "popping", "deleting", "ready", "refused", "open", "closed"}]
  /\ DOMAIN pending = Users /\ \A p \in Users : pending[p] \in Seq(Known(p))
  /\ took \in [Users -> SUBSET cmd.options]
  /\ cert \in Certificates

\* Every option the user gave is still in the map or was taken by somebody who
\* knows it: concurrent Pops and the loop that deletes from the map it ranges over
\* lose none (scheme.go:44-50, http/connect.go:61-69).
OptionsAccounted ==
  /\ \A k \in cmd.options : k \in opts \/ \E p \in Users : k \in took[p]
  /\ \A p \in Users : took[p] \subseteq Known(p)

\* With an option nobody knows, no scheme that looks at options gets as far as the
\* network: when one does, every option has a taker (scheme.go:52-61).
UnknownIsRefused ==
  \A p \in Users : Checks(p) /\ at[p] \in {"ready", "open"} =>
    \A k \in cmd.options : \E q \in Users : k \in took[q]

\* A Connect is refused only for an option it really does not know, never for
\* one that another Connect is about to take out of the shared map.
RefusedForUnknown ==
  \A p \in Streams : at[p] = "refused" => \E k \in opts : k \notin Known(p)

\* Both: whichever Connect comes to the map first, none starts with an option that
\* nobody knows and none is refused for one that it knows (scheme.go:52-61).
RefusedRightly == UnknownIsRefused /\ RefusedForUnknown

\* A TLS listener presents the certificate the user has given, else one that
\* clients which trust the user's CA accept, and does not listen without any
\* (tls/config.go:51-77, http/listen.go:150-158).
ListenerCertificate ==
  at[Listener] = "open" /\ cmd.listen \in {"https", "tls", "wss"} =>
    /\ cert # "none"
    /\ {"cert", "key"} \subseteq cmd.files => cert = "given"
    /\ cert = "self-signed" => ~({"ca-cert", "ca-key"} \subseteq cmd.files)


\* http/connect.go:27 "HTTP method to use (default: GET)": a Connect that dials uses all
\* the options the user gave for it.
EveryStreamSeesOptions ==
  \A p \in Streams : at[p] = "open" =>
    cmd.options \cap Known(p) \subseteq took[p] \cup took[Listener]
=============================================================================
