------------------------------- MODULE MCNdog -------------------------------
(* The command lines Ndog is checked for. *)
EXTENDS Ndog

Command(listen, connect, options, flags, files, bad) ==
  [listen |-> listen, connect |-> connect, options |-> options, flags |-> flags,
   files |-> files, bad |-> bad]

HeaderOptions == {"header.A", "header.B"}
Names == UNION {s.names \cup s.hidden : s \in Schemes}

\* Every pair of schemes, also those that cannot listen or connect, and one that
\* nobody knows, with options some of them know and one that none does.
Pairs ==
  {Command(l, c, o, {}, {}, {}) :
     l \in Names \cup {None, "postgresql"}, c \in Names \cup {None, "postgresql"},
     o \in {{}, {"text"}, {"json", "status_code"}, {"method", "bogus"}}}

\* Options that several Connects contend for.
Contended ==
  {Command("tcp", c, o, {}, {}, {}) :
     c \in {"http", "ws"}, o \in SUBSET (HeaderOptions \cup {"method", "text", "bogus"})}

\* Every combination of certificate flags, with files that cannot be loaded.
Secure ==
  {Command(l, c, {}, {}, f, b) :
     l \in {"https", "https+post", "tls", "wss", None}, c \in {None, "http", "tls"},
     f \in SUBSET Files, b \in {{}, {"ca-cert"}, {"key", "ca-key"}}}

Flagged ==
  {Command(l, "tcp", {"json"}, f, {}, {}) :
     l \in {None, "dns"}, f \in {{"version"}, {"verbose", "quiet"}, {"exec"}}}

MCCommands == Pairs \cup Contended \cup Secure \cup Flagged

\* A tcp listener in front of an http server, with -o method=POST.
PostThroughProxy == {Command("tcp", "http", {"method"}, {}, {}, {})}
=============================================================================
