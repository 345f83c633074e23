------------------------------ MODULE NdogProofs ------------------------------
(***************************************************************************)
(* Proofs about Ndog, for any command lines and any number of streams.     *)
(*                                                                         *)
(* The options are safe because of an order and a symmetry.  A listener is *)
(* done with the map before its first stream is opened, and all Connects   *)
(* know the same keys.  OptsInv adds what a key that is still in the map   *)
(* means: whoever is extracting and knows it has yet to come to it.        *)
(*                                                                         *)
(* ExtractionNarrows is the measure behind ExtractionEnds.                 *)
(***************************************************************************)
EXTENDS Ndog, TLAPS

Left(p) == {pending[p][i] : i \in 1..Len(pending[p])}

ListenerFirst ==
  /\ main = "run" => \A p \in Users : at[p] = "idle"
  /\ main = "connect" => at[Listener] = "idle"
  /\ \A p \in Streams : at[p] # "idle" =>
       at[Listener] \in {"open", "closed"} \/ (main # "listen" /\ at[Listener] = "idle")

StillToCome ==
  \A p \in Users :
    /\ at[p] = "deleting" => pending[p] # <<>> /\ Head(pending[p]) \in took[p]
    /\ at[p] \in {"popping", "deleting"} =>
         \A k \in opts \cap Known(p) : k \in Left(p) \/ (TakesHeaders(p) /\ k \in Headers)

OptsInv ==
  /\ ListenerFirst /\ StillToCome
  /\ OptionsAccounted /\ UnknownIsRefused /\ RefusedForUnknown

-----------------------------------------------------------------------------
\* What a scheme knows depends on the command line only.
LEMMA SameCommand ==
  ASSUME cmd' = cmd, NEW p
  PROVE  /\ Pops(p)' = Pops(p) /\ Known(p)' = Known(p)
         /\ TakesHeaders(p)' = TakesHeaders(p) /\ Checks(p)' = Checks(p)
         /\ UsesTLS(p)' = UsesTLS(p) /\ CertificateOf(p)' = CertificateOf(p)
<1>1. URLScheme(p)' = URLScheme(p)
  BY DEF URLScheme
<1>2. Pops(p)' = Pops(p) /\ TakesHeaders(p)' = TakesHeaders(p)
  BY <1>1 DEF Pops, TakesHeaders
<1>3. Known(p)' = Known(p) /\ Checks(p)' = Checks(p) /\ UsesTLS(p)' = UsesTLS(p)
  BY <1>1, <1>2 DEF Known, Checks, UsesTLS
<1>4. CertificateOf(p)' = CertificateOf(p)
  BY <1>1 DEF CertificateOf, AsServer
<1>5. QED
  BY <1>2, <1>3, <1>4

\* All Connects know the same keys.
LEMMA ConnectsAgree ==
  ASSUME NEW p \in Streams, NEW q \in Streams
  PROVE  Known(p) = Known(q)
<1>1. p # Listener /\ q # Listener
  BY NdogAssumption
<1>2. URLScheme(p) = URLScheme(q)
  BY <1>1 DEF URLScheme
<1>3. Pops(p) = Pops(q) /\ TakesHeaders(p) = TakesHeaders(q)
  BY <1>1, <1>2 DEF Pops, TakesHeaders
<1>4. QED
  BY <1>3 DEF Known

\* Short tuples are sequences.
LEMMA TupleType ==
  ASSUME NEW S, NEW a \in S, NEW b \in S, NEW c \in S, NEW d \in S
  PROVE  /\ <<a>> \in Seq(S) /\ <<a, b>> \in Seq(S)
         /\ <<a, b, c>> \in Seq(S) /\ <<a, b, c, d>> \in Seq(S)
<1>1. <<a>> \in Seq(S) /\ <<a, b>> \in Seq(S)
  OBVIOUS
<1>2. <<a, b, c>> \in Seq(S)
  OBVIOUS
<1>3. <<a, b, c, d>> \in Seq(S)
  OBVIOUS
<1>4. QED
  BY <1>1, <1>2, <1>3

\* The keys a scheme pops are keys it knows.
LEMMA PopsKnown ==
  ASSUME NEW p
  PROVE  Pops(p) \in Seq(Known(p))
<1>1. \E S : Pops(p) \in Seq(S)
  <2> DEFINE S == {"msgpack_to_json", "status_code", "proxy_pass", "serve_file", "method",
                  "follow_redirects", "norecurse", "json", "origin", "protocol", "text", "zone"}
  <2>1. HTTPListenPops \in Seq(S)
    BY TupleType DEF HTTPListenPops
  <2>2. HTTPConnectPops \in Seq(S) /\ DNSConnectPops \in Seq(S)
    BY TupleType DEF HTTPConnectPops, DNSConnectPops
  <2>3. WSConnectPops \in Seq(S)
    BY TupleType DEF WSConnectPops
  <2>4. DNSListenPops \in Seq(S) /\ WSListenPops \in Seq(S) /\ PostgresPops \in Seq(S)
        /\ <<>> \in Seq(S)
    BY TupleType DEF DNSListenPops, WSListenPops, PostgresPops
  <2>5. Pops(p) \in Seq(S)
    BY <2>1, <2>2, <2>3, <2>4, Zenon DEF Pops
  <2>6. QED
    BY <2>5
<1>2. \A i \in 1..Len(Pops(p)) : Pops(p)[i] \in Known(p)
  BY DEF Known
<1>3. QED
  BY <1>1, <1>2

\* No Connect pops status_code.
LEMMA NoStatusCode ==
  ASSUME NEW p \in Streams
  PROVE  "status_code" \notin Known(p)
<1>1. p # Listener
  BY NdogAssumption
<1>2. \A i \in 1..Len(Pops(p)) : Pops(p)[i] # "status_code"
  BY <1>1 DEF Pops, HTTPConnectPops, DNSConnectPops, WSConnectPops, PostgresPops
<1>3. QED
  BY <1>2, NdogAssumption DEF Known

-----------------------------------------------------------------------------
\* A certificate is one of the four kinds.
LEMMA CertificateType ==
  ASSUME NEW given, NEW server \in BOOLEAN
  PROVE  Certificate(given, server) \in Certificates
BY DEF Certificate, Certificates

\* The step of a goroutine that has popped nothing or something keeps types.
LEMMA ExtractType ==
  ASSUME TypeOK, StillToCome, NEW p \in Users, Extract(p)
  PROVE  TypeOK'
<1> USE DEF TypeOK
<1>1. cmd' = cmd /\ main' = main /\ cert' = cert
  BY DEF Extract, PopMiss, PopLookUp, HeaderNext, Delete, Done, LoopEnds
<1>2. \A q \in Users : Known(q)' = Known(q)
  BY <1>1, SameCommand
<1>3. opts' \subseteq cmd.options
  BY DEF Extract, PopMiss, PopLookUp, HeaderNext, Delete, Done, LoopEnds
<1>4. at' \in [Users -> {"idle", "popping", "deleting", "ready", "refused", "open", "closed"}]
  BY DEF Extract, PopMiss, PopLookUp, HeaderNext, Delete, Done, LoopEnds
<1>5. took' \in [Users -> SUBSET cmd.options]
  <2>1. CASE PopMiss(p) \/ Delete(p) \/ Done(p)
    BY <2>1 DEF PopMiss, Delete, Done
  <2>2. CASE PopLookUp(p) \/ HeaderNext(p)
    <3>1. PICK k \in opts : took' = [took EXCEPT ![p] = @ \cup {k}]
      BY <2>2 DEF PopLookUp, HeaderNext
    <3>2. took[p] \cup {k} \in SUBSET cmd.options
      BY <3>1
    <3>3. QED
      BY <3>1, <3>2
  <2>3. QED
    BY <2>1, <2>2 DEF Extract
<1>6. DOMAIN pending' = Users /\ \A q \in Users : pending'[q] \in Seq(Known(q))
  <2>1. CASE PopMiss(p) \/ Delete(p)
    <3>1. pending[p] # <<>> /\ pending[p] \in Seq(Known(p))
      BY <2>1 DEF PopMiss, Delete, StillToCome
    <3>2. Tail(pending[p]) \in Seq(Known(p))
      BY <3>1
    <3>3. pending' = [pending EXCEPT ![p] = Tail(pending[p])]
      BY <2>1 DEF PopMiss, Delete
    <3>4. QED
      BY <3>2, <3>3
  <2>2. CASE PopLookUp(p) \/ Done(p)
    BY <2>2 DEF PopLookUp, Done
  <2>3. CASE HeaderNext(p)
    <3>1. PICK k \in opts \cap Headers : pending' = [pending EXCEPT ![p] = <<k>>]
      BY <2>3 DEF HeaderNext
    <3>2. k \in Known(p)
      BY <2>3 DEF HeaderNext, Known
    <3>3. <<k>> \in Seq(Known(p))
      BY <3>2
    <3>4. QED
      BY <3>1, <3>3
  <2>4. QED
    BY <2>1, <2>2, <2>3 DEF Extract
<1>7. QED
  BY <1>1, <1>2, <1>3, <1>4, <1>5, <1>6

\* So do the steps before and after the options.
LEMMA OtherType ==
  ASSUME TypeOK, NEW p \in Users,
         Run \/ MapRace \/ Begin(p) \/ Open(p) \/ Fail(p) \/ Return(p)
  PROVE  TypeOK'
<1> USE DEF TypeOK
<1>1. cmd' = cmd /\ opts' = opts /\ took' = took
  BY DEF Run, MapRace, Begin, Open, Fail, Return
<1>2. \A q \in Users : Known(q)' = Known(q)
  BY <1>1, SameCommand
<1>3. main' \in {"run", "listen", "connect", "exit", "error", "crashed"}
  BY DEF Run, MapRace, Begin, Open, Fail, Return
<1>4. at' \in [Users -> {"idle", "popping", "deleting", "ready", "refused", "open", "closed"}]
  BY DEF Run, MapRace, Begin, Open, Fail, Return
<1>5. DOMAIN pending' = Users /\ \A q \in Users : pending'[q] \in Seq(Known(q))
  <2>1. pending' = pending \/ pending' = [pending EXCEPT ![p] = Pops(p)]
    BY DEF Run, MapRace, Begin, Open, Fail, Return
  <2>2. Pops(p) \in Seq(Known(p)) /\ DOMAIN pending = Users
    BY PopsKnown
  <2>3. CASE pending' = [pending EXCEPT ![p] = Pops(p)]
    <3>1. DOMAIN pending' = Users
      BY <2>2, <2>3
    <3>2. pending'[p] = Pops(p) /\ \A q \in Users : q # p => pending'[q] = pending[q]
      BY <2>2, <2>3
    <3>3. QED
      BY <2>2, <3>1, <3>2
  <2>4. QED
    BY <2>1, <2>3
<1>6. cert' \in Certificates
  <2>1. AsServer(p) \in BOOLEAN
    BY DEF AsServer
  <2>2. CertificateOf(p) \in Certificates
    BY <2>1, CertificateType DEF CertificateOf
  <2>3. QED
    BY <2>2 DEF Run, MapRace, Begin, Open, Fail, Return
<1>7. QED
  BY <1>1, <1>2, <1>3, <1>4, <1>5, <1>6

-----------------------------------------------------------------------------
\* A step before or after the options, or a crash, touches neither the map nor what
\* was taken, and puts nobody into the middle of extracting.
LEMMA OtherKeepsOpts ==
  ASSUME TypeOK, OptsInv, NEW p \in Users,
         Run \/ MapRace \/ Open(p) \/ Fail(p) \/ Return(p)
  PROVE  OptsInv'
<1> USE DEF TypeOK, OptsInv
<1>1. cmd' = cmd /\ opts' = opts /\ took' = took /\ pending' = pending
  BY DEF Run, MapRace, Open, Fail, Return
<1>2. \A q \in Users : /\ Known(q)' = Known(q) /\ TakesHeaders(q)' = TakesHeaders(q)
                        /\ Checks(q)' = Checks(q) /\ Left(q)' = Left(q)
  BY <1>1, SameCommand DEF Left
<1>3. \A q \in Users :
        \/ at'[q] = at[q]
        \/ at[q] = "ready" /\ at'[q] = "open" /\ Running
        \/ at[q] \in {"ready", "open"} /\ at'[q] = "closed" /\ Running
  BY DEF Run, MapRace, Open, Fail, Return
<1>4. ListenerFirst'
  <2>1. /\ main' # "run" /\ (main' = "listen" => main \in {"run", "listen"})
        /\ main' = "connect" => main \in {"run", "connect"}
    BY <1>3 DEF Run, MapRace, Open, Fail, Return, ListenerFirst, Running
  <2>2. main = "run" => at' = at /\ \A q \in Users : at[q] = "idle"
    BY DEF Run, MapRace, Open, Fail, Return, ListenerFirst, Running
  <2>3. QED
    BY <1>3, <2>1, <2>2 DEF ListenerFirst, Users
<1>5. StillToCome'
  BY <1>1, <1>2, <1>3 DEF StillToCome
<1>6. OptionsAccounted' /\ RefusedForUnknown' /\ UnknownIsRefused'
  BY <1>1, <1>2, <1>3 DEF OptionsAccounted, RefusedForUnknown, UnknownIsRefused, Users
<1>7. QED
  BY <1>4, <1>5, <1>6

\* Whoever begins has all its keys before it.
LEMMA BeginKeepsOpts ==
  ASSUME TypeOK, OptsInv, NEW p \in Users, Begin(p)
  PROVE  OptsInv'
<1> USE DEF TypeOK, OptsInv
<1>1. cmd' = cmd /\ opts' = opts /\ took' = took /\ main' = main
  BY DEF Begin
<1>2. \A q \in Users : /\ Known(q)' = Known(q) /\ TakesHeaders(q)' = TakesHeaders(q)
                        /\ Checks(q)' = Checks(q)
  BY <1>1, SameCommand
<1>3. /\ pending'[p] = Pops(p) /\ at'[p] = IF Checks(p) THEN "popping" ELSE "ready"
      /\ \A q \in Users : q # p => at'[q] = at[q] /\ pending'[q] = pending[q]
  BY DEF Begin
<1>4. \A q \in Users : q # p => Left(q)' = Left(q)
  BY <1>3 DEF Left
<1>5. Known(p) \subseteq Left(p)' \cup (IF TakesHeaders(p) THEN Headers ELSE {})
  BY <1>3 DEF Left, Known
<1>6. ListenerFirst'
  BY <1>1, <1>3, NdogAssumption DEF ListenerFirst, Begin, Starts, Users
<1>7. StillToCome'
  BY <1>1, <1>2, <1>3, <1>4, <1>5 DEF StillToCome
<1>8. OptionsAccounted' /\ RefusedForUnknown' /\ UnknownIsRefused'
  BY <1>1, <1>2, <1>3 DEF OptionsAccounted, RefusedForUnknown, UnknownIsRefused, Users
<1>9. QED
  BY <1>6, <1>7, <1>8

-----------------------------------------------------------------------------
\* What the steps of an extraction have in common: only p moves, on from
\* "popping" or "deleting", and the order of the listener and its streams stays.
LEMMA ExtractKeepsOrder ==
  ASSUME TypeOK, OptsInv, NEW p \in Users, Extract(p)
  PROVE  /\ cmd' = cmd /\ main' = main /\ Running
         /\ at[p] \in {"popping", "deleting"}
         /\ at'[p] \in {"popping", "deleting", "ready", "refused"}
         /\ \A q \in Users : q # p => at'[q] = at[q] /\ pending'[q] = pending[q] /\ took'[q] = took[q]
         /\ took[p] \subseteq took'[p] /\ opts' \subseteq opts
         /\ p = Listener => \A q \in Streams : at[q] = "idle"
         /\ ListenerFirst'
<1> USE DEF TypeOK, OptsInv
<1>1. cmd' = cmd /\ main' = main /\ Running /\ at[p] \in {"popping", "deleting"}
  BY DEF Extract, PopMiss, PopLookUp, HeaderNext, Delete, Done, LoopEnds
<1>2. at'[p] \in {"popping", "deleting", "ready", "refused"} /\ \A q \in Users : q # p => at'[q] = at[q]
  BY <1>1 DEF Extract, PopMiss, PopLookUp, HeaderNext, Delete, Done, LoopEnds
<1>3. \A q \in Users : q # p => pending'[q] = pending[q] /\ took'[q] = took[q]
  BY DEF Extract, PopMiss, PopLookUp, HeaderNext, Delete, Done, LoopEnds
<1>4. took[p] \subseteq took'[p] /\ opts' \subseteq opts
  BY DEF Extract, PopMiss, PopLookUp, HeaderNext, Delete, Done, LoopEnds
<1>5. p = Listener => \A q \in Streams : at[q] = "idle"
  BY <1>1 DEF ListenerFirst
<1>6. ListenerFirst'
  BY <1>1, <1>2, <1>5, NdogAssumption DEF ListenerFirst, Users
<1>7. QED
  BY <1>1, <1>2, <1>3, <1>4, <1>5, <1>6

\* The head of what p has to pop is a key p knows.
LEMMA HeadKnown ==
  ASSUME TypeOK, NEW p \in Users, pending[p] # <<>>
  PROVE  /\ Head(pending[p]) \in Known(p)
         /\ \A k \in Left(p) :
              \/ k = Head(pending[p])
              \/ k \in {Tail(pending[p])[i] : i \in 1..Len(Tail(pending[p]))}
<1>1. pending[p] \in Seq(Known(p)) /\ Len(pending[p]) > 0
  BY DEF TypeOK
<1>2. ASSUME NEW i \in 1..Len(pending[p]), i # 1
      PROVE  pending[p][i] = Tail(pending[p])[i - 1] /\ i - 1 \in 1..Len(Tail(pending[p]))
  BY <1>1, <1>2
<1>3. QED
  BY <1>1, <1>2 DEF Left

\* A key is taken, by a Pop or by the loop over the headers.
LEMMA TakeKeepsOpts ==
  ASSUME TypeOK, OptsInv, NEW p \in Users, PopLookUp(p) \/ HeaderNext(p)
  PROVE  OptsInv'
<1> USE DEF TypeOK, OptsInv
<1>1. PICK k \in opts \cap Known(p) :
        /\ took' = [took EXCEPT ![p] = @ \cup {k}]
        /\ pending'[p] # <<>> /\ Head(pending'[p]) = k
        /\ Left(p) \subseteq Left(p)'
  <2>1. CASE PopLookUp(p)
    BY <2>1, HeadKnown DEF PopLookUp, Left
  <2>2. CASE HeaderNext(p)
    <3>1. PICK k \in opts \cap Headers :
            /\ took' = [took EXCEPT ![p] = @ \cup {k}]
            /\ pending' = [pending EXCEPT ![p] = <<k>>]
      BY <2>2 DEF HeaderNext
    <3>2. k \in Known(p) /\ pending[p] = <<>>
      BY <2>2 DEF HeaderNext, Known
    <3>3. Left(p) = {}
      BY <3>2 DEF Left
    <3>4. <<k>> # <<>> /\ Head(<<k>>) = k /\ pending'[p] = <<k>>
      BY <3>1
    <3>5. QED
      BY <3>1, <3>2, <3>3, <3>4
  <2>3. QED
    BY <2>1, <2>2
<1>2. /\ cmd' = cmd /\ main' = main /\ opts' = opts
      /\ at[p] = "popping" /\ at'[p] = "deleting"
  BY DEF PopLookUp, HeaderNext
<1>3. /\ \A q \in Users : q # p => at'[q] = at[q] /\ pending'[q] = pending[q]
      /\ ListenerFirst'
  BY ExtractKeepsOrder DEF Extract
<1>4. \A q \in Users : /\ Known(q)' = Known(q) /\ TakesHeaders(q)' = TakesHeaders(q)
                        /\ Checks(q)' = Checks(q)
  BY <1>2, SameCommand
<1>5. \A q \in Users : q # p => Left(q)' = Left(q)
  <2> HIDE DEF TypeOK, OptsInv
  <2> QED
    BY <1>3 DEF Left
<1>6. took'[p] = took[p] \cup {k} /\ \A q \in Users : q # p => took'[q] = took[q]
  BY <1>1
<1>7. StillToCome'
  BY <1>1, <1>2, <1>3, <1>4, <1>5, <1>6 DEF StillToCome
<1>8. OptionsAccounted'
  BY <1>1, <1>2, <1>4, <1>6 DEF OptionsAccounted
<1>9. /\ RefusedForUnknown /\ UnknownIsRefused
      /\ \A q \in Users : took[q] \subseteq took'[q]
  BY <1>6
<1> HIDE DEF TypeOK, OptsInv
<1>10. RefusedForUnknown'
  BY <1>2, <1>3, <1>4, <1>9 DEF RefusedForUnknown, Users
<1>11. UnknownIsRefused'
  BY <1>2, <1>3, <1>4, <1>9 DEF UnknownIsRefused
<1>12. QED
  BY <1>3, <1>7, <1>8, <1>10, <1>11 DEF OptsInv

\* A key that is not there, or no longer, is passed over.
LEMMA PassKeepsOpts ==
  ASSUME TypeOK, OptsInv, NEW p \in Users, PopMiss(p) \/ Delete(p)
  PROVE  OptsInv'
<1> USE DEF TypeOK, OptsInv
<1>1. /\ cmd' = cmd /\ main' = main /\ took' = took
      /\ at[p] \in {"popping", "deleting"} /\ at'[p] \in {"popping", "refused"}
      /\ at'[p] = "refused" => Head(pending[p]) = "status_code"
      /\ opts \ {Head(pending[p])} = opts' \ {Head(pending[p])} /\ Head(pending[p]) \notin opts'
  BY DEF PopMiss, Delete
<1>2. pending[p] # <<>> /\ pending'[p] = Tail(pending[p])
  BY DEF PopMiss, Delete, StillToCome
<1>3. /\ \A q \in Users : q # p => at'[q] = at[q] /\ pending'[q] = pending[q]
      /\ opts' \subseteq opts /\ ListenerFirst'
      /\ p = Listener => \A q \in Streams : at[q] = "idle"
  BY ExtractKeepsOrder DEF Extract
<1>4. \A q \in Users : /\ Known(q)' = Known(q) /\ TakesHeaders(q)' = TakesHeaders(q)
                        /\ Checks(q)' = Checks(q)
  BY <1>1, SameCommand
<1>5. \A q \in Users : q # p => Left(q)' = Left(q)
  <2> HIDE DEF TypeOK, OptsInv
  <2> QED
    BY <1>3 DEF Left
<1>6. /\ Head(pending[p]) \in Known(p)
      /\ \A k \in Left(p) : k = Head(pending[p]) \/ k \in Left(p)'
  <2>1. Left(p)' = {Tail(pending[p])[i] : i \in 1..Len(Tail(pending[p]))}
    BY <1>2 DEF Left
  <2>2. QED
    BY <1>2, <2>1, HeadKnown
<1>7. StillToCome'
  <2>1. ASSUME NEW q \in Users, q # p
        PROVE  /\ at'[q] = "deleting" => pending'[q] # <<>> /\ Head(pending'[q]) \in took'[q]
               /\ at'[q] \in {"popping", "deleting"} =>
                    \A k \in opts' \cap Known(q) : k \in Left(q) \/ (TakesHeaders(q) /\ k \in Headers)
    BY <1>1, <1>3, <2>1 DEF StillToCome
  <2>2. \A k \in opts' \cap Known(p) : k \in Left(p)' \/ (TakesHeaders(p) /\ k \in Headers)
    BY <1>1, <1>3, <1>6 DEF StillToCome
  <2>3. at'[p] # "deleting"
    BY <1>1
  <2>4. QED
    BY <1>4, <1>5, <2>1, <2>2, <2>3 DEF StillToCome
<1>8. OptionsAccounted'
  <2>1. opts' = opts \/ (opts' = opts \ {Head(pending[p])} /\ Head(pending[p]) \in took[p])
    BY DEF PopMiss, Delete, StillToCome
  <2>2. QED
    BY <1>1, <1>4, <2>1 DEF OptionsAccounted
<1>9. RefusedForUnknown'
  <2> SUFFICES ASSUME NEW q \in Streams, at'[q] = "refused"
               PROVE  \E k \in opts' : k \notin Known(q)
    BY <1>4 DEF RefusedForUnknown, Users
  <2>1. q # p
    BY <1>1, <1>6, NoStatusCode
  <2>2. at[q] = "refused"
    BY <1>3, <2>1 DEF Users
  <2>3. p \in Streams
    BY <1>3, <2>2 DEF Users
  <2>4. Known(p) = Known(q)
    BY <2>3, ConnectsAgree
  <2>5. PICK k \in opts : k \notin Known(q)
    BY <2>2 DEF RefusedForUnknown
  <2>6. QED
    BY <1>1, <1>6, <2>4, <2>5
<1>10. UnknownIsRefused'
  BY <1>1, <1>3, <1>4 DEF UnknownIsRefused
<1>11. QED
  BY <1>3, <1>7, <1>8, <1>9, <1>10

\* Done: a map that is empty has been emptied by those who took what was in it, and
\* one that is not holds nothing that the caller knows.
LEMMA DoneKeepsOpts ==
  ASSUME TypeOK, OptsInv, NEW p \in Users, Done(p)
  PROVE  OptsInv'
<1> USE DEF TypeOK, OptsInv
<1>1. /\ cmd' = cmd /\ main' = main /\ opts' = opts /\ took' = took /\ pending' = pending
      /\ at[p] = "popping" /\ at'[p] = IF opts = {} THEN "ready" ELSE "refused"
      /\ \A q \in Users : q # p => at'[q] = at[q]
  BY DEF Done, LoopEnds
<1>2. \A q \in Users : /\ Known(q)' = Known(q) /\ TakesHeaders(q)' = TakesHeaders(q)
                        /\ Checks(q)' = Checks(q) /\ Left(q)' = Left(q)
  BY <1>1, SameCommand DEF Left
<1>3. opts \cap Known(p) = {}
  <2>1. Left(p) = {}
    BY DEF Done, LoopEnds, Left
  <2>2. QED
    BY <1>1, <2>1 DEF StillToCome, Done, LoopEnds
<1>4. ListenerFirst'
  BY ExtractKeepsOrder DEF Extract
<1>5. StillToCome'
  BY <1>1, <1>2 DEF StillToCome
<1>6. OptionsAccounted'
  BY <1>1, <1>2 DEF OptionsAccounted
<1>7. RefusedForUnknown'
  BY <1>1, <1>2, <1>3 DEF RefusedForUnknown, Users
<1>8. UnknownIsRefused'
  BY <1>1, <1>2 DEF UnknownIsRefused, OptionsAccounted
<1>9. QED
  BY <1>4, <1>5, <1>6, <1>7, <1>8

-----------------------------------------------------------------------------
\* Every state is well typed, and whoever extracts has yet to come to the keys it
\* knows that are still in the map (main.go, scheme.go:44-61).
THEOREM NdogTypeCorrect == Spec => [](TypeOK /\ OptsInv)
<1>1. Init => TypeOK /\ OptsInv
  <2> SUFFICES ASSUME Init
               PROVE  TypeOK /\ OptsInv
    OBVIOUS
  <2>1. TypeOK
    BY DEF Init, TypeOK, Certificates
  <2>2. OptsInv
    BY DEF Init, OptsInv, ListenerFirst, StillToCome, OptionsAccounted, UnknownIsRefused,
       RefusedForUnknown, Users
  <2>3. QED
    BY <2>1, <2>2
<1>2. TypeOK /\ OptsInv /\ [Next]_vars => (TypeOK /\ OptsInv)'
  <2> SUFFICES ASSUME TypeOK, OptsInv, [Next]_vars
               PROVE  TypeOK' /\ OptsInv'
    OBVIOUS
  <2>1. ASSUME NEW p \in Users, Extract(p) PROVE TypeOK' /\ OptsInv'
    BY <2>1, ExtractType, TakeKeepsOpts, PassKeepsOpts, DoneKeepsOpts DEF Extract, OptsInv
  <2>2. ASSUME NEW p \in Users, Begin(p) PROVE TypeOK' /\ OptsInv'
    BY <2>2, OtherType, BeginKeepsOpts
  <2>3. ASSUME NEW p \in Users, Open(p) \/ Fail(p) \/ Return(p) PROVE TypeOK' /\ OptsInv'
    BY <2>3, OtherType, OtherKeepsOpts
  <2>4. CASE Run \/ MapRace
    <3>1. Listener \in Users
      BY DEF Users
    <3>2. QED
      BY <2>4, <3>1, OtherType, OtherKeepsOpts
  <2>5. CASE UNCHANGED vars
    <3>1. \A q \in Users : /\ Known(q)' = Known(q) /\ TakesHeaders(q)' = TakesHeaders(q)
                            /\ Checks(q)' = Checks(q)
      BY <2>5, SameCommand DEF vars
    <3>2. TypeOK'
      BY <2>5, <3>1 DEF TypeOK, vars
    <3>3. OptsInv'
      BY <2>5, <3>1 DEF OptsInv, ListenerFirst, StillToCome, OptionsAccounted,
         UnknownIsRefused, RefusedForUnknown, Left, Users, vars
    <3>4. QED
      BY <3>2, <3>3
  <2>6. QED
    BY <2>1, <2>2, <2>3, <2>4, <2>5 DEF Next
<1>3. QED
  BY <1>1, <1>2, PTL DEF Spec

\* No option is lost, and none is taken by a scheme that does not know it
\* (scheme.go:44-50).
THEOREM OptionsAreAccounted == Spec => []OptionsAccounted
<1>1. OptsInv => OptionsAccounted
  BY DEF OptsInv
<1>2. QED
  BY <1>1, NdogTypeCorrect, PTL

\* A scheme that looks at options does not start while nobody has taken one of
\* them, and refuses to only for one it does not know (scheme.go:52-61).
THEOREM OptionsAreChecked == Spec => []RefusedRightly
<1>1. OptsInv => RefusedRightly
  BY DEF OptsInv, RefusedRightly
<1>2. QED
  BY <1>1, NdogTypeCorrect, PTL

-----------------------------------------------------------------------------
\* Only the step that opens the listener chooses the certificate.
THEOREM ListenerIsCertified == Spec => []ListenerCertificate
<1>1. Init => ListenerCertificate
  BY DEF Init, ListenerCertificate, Users
<1>2. TypeOK /\ ListenerCertificate /\ [Next]_vars => ListenerCertificate'
  <2> SUFFICES ASSUME TypeOK, ListenerCertificate, [Next]_vars, cmd' = cmd,
                      at'[Listener] = "open", cmd.listen \in {"https", "tls", "wss"}
               PROVE  /\ cert' # "none"
                      /\ {"cert", "key"} \subseteq cmd.files => cert' = "given"
                      /\ cert' = "self-signed" => ~({"ca-cert", "ca-key"} \subseteq cmd.files)
    <3>1. [Next]_vars => cmd' = cmd
      BY DEF Next, Run, MapRace, Begin, Extract, PopMiss, PopLookUp, HeaderNext, Delete, Done,
         LoopEnds, Open, Fail, Return, vars
    <3>2. QED
      BY <3>1 DEF ListenerCertificate
  <2>1. CASE Open(Listener)
    <3>1. UsesTLS(Listener)
      BY DEF UsesTLS, URLScheme
    <3>2. cert' = Certificate(cmd.files, AsServer(Listener)) /\ cert' # "none"
      BY <2>1, <3>1 DEF Open, TLSAllows, CertificateOf
    <3>3. QED
      BY <3>2 DEF Certificate, Pair, CAPair
  <2>2. CASE ~Open(Listener)
    <3>1. at[Listener] = "open" /\ cert' = cert
      BY <2>2 DEF Next, Run, MapRace, Begin, Extract, PopMiss, PopLookUp, HeaderNext, Delete, Done,
         LoopEnds, Open, Fail, Return, vars, TypeOK, Users
    <3>2. QED
      BY <3>1 DEF ListenerCertificate
  <2>3. QED
    BY <2>1, <2>2
<1>3. QED
  BY <1>1, <1>2, NdogTypeCorrect, PTL DEF Spec

-----------------------------------------------------------------------------
(* That the extraction comes to an end, as far as safety says it.              *)

\* The headers that the loop of p may still come to; the one in hand is not among them.
HeadersLeft(p) == {k \in opts \cap Headers : at[p] = "deleting" => k # Head(pending[p])}

\* What p has still to do gets less with each step of p: it is done, or there are
\* fewer headers to come, or as many and fewer keys to pop, or as many of both and
\* the key has been found.  No step of another puts a header back or moves p.
ExtractionNarrows ==
  \A p \in Users : at[p] \in {"popping", "deleting"} =>
    /\ HeadersLeft(p)' \subseteq HeadersLeft(p)
    /\ Extract(p) =>
         \/ at'[p] \in {"ready", "refused"}
         \/ HeadersLeft(p)' # HeadersLeft(p)
         \/ Len(pending'[p]) < Len(pending[p])
         \/ pending'[p] = pending[p] /\ at[p] = "popping" /\ at'[p] = "deleting"
    /\ ~Extract(p) => at'[p] = at[p] /\ pending'[p] = pending[p]

\* A goroutine's own step.
LEMMA ExtractNarrows ==
  ASSUME TypeOK, OptsInv, NEW p \in Users, Extract(p)
  PROVE  /\ HeadersLeft(p)' \subseteq HeadersLeft(p)
         /\ \/ at'[p] \in {"ready", "refused"}
            \/ HeadersLeft(p)' # HeadersLeft(p)
            \/ Len(pending'[p]) < Len(pending[p])
            \/ pending'[p] = pending[p] /\ at[p] = "popping" /\ at'[p] = "deleting"
<1>0. at \in [Users -> {"idle", "popping", "deleting", "ready", "refused", "open", "closed"}]
      /\ DOMAIN pending = Users /\ pending[p] \in Seq(Known(p))
  BY DEF TypeOK
<1>1. ASSUME pending[p] # <<>>
      PROVE  Len(Tail(pending[p])) < Len(pending[p])
  BY <1>0, <1>1
<1>2. CASE PopMiss(p)
  <2>1. at'[p] = "popping" /\ at[p] = "popping" /\ opts' = opts /\ pending'[p] = Tail(pending[p])
        /\ pending[p] # <<>>
    BY <1>0, <1>2 DEF PopMiss
  <2>2. HeadersLeft(p)' = HeadersLeft(p)
    BY <2>1 DEF HeadersLeft
  <2>3. QED
    BY <1>1, <2>1, <2>2
<1>3. CASE PopLookUp(p)
  <2>1. at'[p] = "deleting" /\ at[p] = "popping" /\ opts' = opts /\ pending' = pending
    BY <1>0, <1>3 DEF PopLookUp
  <2>2. HeadersLeft(p)' \subseteq HeadersLeft(p)
    BY <2>1 DEF HeadersLeft
  <2>3. QED
    BY <2>1, <2>2
<1>4. CASE HeaderNext(p)
  <2>1. PICK k \in opts \cap Headers : pending' = [pending EXCEPT ![p] = <<k>>]
    BY <1>4 DEF HeaderNext
  <2>2. at'[p] = "deleting" /\ at[p] = "popping" /\ opts' = opts
    BY <1>0, <1>4 DEF HeaderNext
  <2>3. Head(pending'[p]) = k
    BY <1>0, <2>1
  <2>4. k \in HeadersLeft(p) /\ k \notin HeadersLeft(p)' /\ HeadersLeft(p)' \subseteq HeadersLeft(p)
    BY <2>2, <2>3 DEF HeadersLeft
  <2>5. QED
    BY <2>4
<1>5. CASE Delete(p)
  <2>1. at[p] = "deleting" /\ at'[p] # "deleting" /\ opts' = opts \ {Head(pending[p])}
        /\ pending'[p] = Tail(pending[p])
    BY <1>0, <1>5 DEF Delete
  <2>2. pending[p] # <<>>
    BY <2>1 DEF OptsInv, StillToCome
  <2>3. HeadersLeft(p)' = HeadersLeft(p)
    BY <2>1 DEF HeadersLeft
  <2>4. QED
    BY <1>1, <2>1, <2>2, <2>3
<1>6. CASE Done(p)
  <2>1. at'[p] \in {"ready", "refused"} /\ at[p] = "popping" /\ opts' = opts
    BY <1>0, <1>6 DEF Done, LoopEnds
  <2>2. HeadersLeft(p)' \subseteq HeadersLeft(p)
    BY <2>1 DEF HeadersLeft
  <2>3. QED
    BY <2>1, <2>2
<1>7. QED
  BY <1>2, <1>3, <1>4, <1>5, <1>6 DEF Extract

\* Several Connects that delete headers from the map each of them ranges over only
\* shorten each other's loops (scheme.go:44-50, http/connect.go:61-69).
THEOREM ExtractionRunsOut == Spec => [][ExtractionNarrows]_vars
<1>1. ASSUME TypeOK, OptsInv, [Next]_vars
      PROVE  ExtractionNarrows
  <2> SUFFICES ASSUME NEW p \in Users, at[p] \in {"popping", "deleting"}, ~Extract(p)
               PROVE  /\ HeadersLeft(p)' \subseteq HeadersLeft(p)
                      /\ at'[p] = at[p] /\ pending'[p] = pending[p]
    BY <1>1, ExtractNarrows DEF ExtractionNarrows
  <2>1. ASSUME at'[p] = at[p], pending'[p] = pending[p], opts' \subseteq opts
        PROVE  HeadersLeft(p)' \subseteq HeadersLeft(p)
    BY <2>1 DEF HeadersLeft
  <2>2. ASSUME NEW q \in Users, Extract(q)
        PROVE  at'[p] = at[p] /\ pending'[p] = pending[p] /\ opts' \subseteq opts
    <3>1. p # q
      BY <2>2
    <3>2. QED
      BY <1>1, <2>2, <3>1, ExtractKeepsOrder
  <2>3. ASSUME NEW q \in Users, Begin(q) \/ Open(q) \/ Fail(q) \/ Return(q)
        PROVE  at'[p] = at[p] /\ pending'[p] = pending[p] /\ opts' \subseteq opts
    <3>1. at[q] \notin {"popping", "deleting"} \/ Return(q)
      BY <2>3 DEF Begin, Open, Fail
    <3>2. CASE Return(q)
      BY <3>2 DEF Return
    <3>3. CASE Begin(q) \/ Open(q) \/ Fail(q)
      <4>1. p # q
        BY <3>3 DEF Begin, Open, Fail
      <4>2. QED
        BY <1>1, <3>3, <4>1 DEF Begin, Open, Fail, TypeOK
    <3>4. QED
      BY <2>3, <3>2, <3>3
  <2>4. ASSUME Run \/ MapRace \/ UNCHANGED vars
        PROVE  at'[p] = at[p] /\ pending'[p] = pending[p] /\ opts' \subseteq opts
    BY <2>4 DEF Run, MapRace, vars
  <2>5. QED
    BY <1>1, <2>1, <2>2, <2>3, <2>4 DEF Next
<1>2. QED
  BY <1>1, NdogTypeCorrect, PTL DEF Spec
=============================================================================
