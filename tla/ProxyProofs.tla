---------------------------- MODULE ProxyProofs ----------------------------
(***************************************************************************)
(* Proofs about Proxy, for every set of pairs and any length of request    *)
(* and reply: types, order, and that a forwarded http request gets the     *)
(* whole of its response.                                                  *)
(*                                                                         *)
(* The last two theorems are what of its liveness is no matter of fairness:*)
(* while something is owed one of the halves can go on, and a measure shows*)
(* that no step goes round.                                                *)
(***************************************************************************)
EXTENDS Proxy, TLAPS

\* The newline is written once, after the last chunk of the body.
TypeInv ==
  /\ TypeOK
  /\ at["lin"] = "run" => asked <= MaxRequest

(***************************************************************************)
(* On the way up.  While the pipe and the server are there, what has been  *)
(* served, what cin holds and what lin holds count on from one another; a  *)
(* chunk that is lost leaves the three short of what was asked.            *)
(***************************************************************************)
UpInv ==
  /\ CountsFrom(served, 0)
  /\ ServerIsThere => CountsFrom(holds["cin"], Len(served))
  /\ UpIsOpen /\ ServerIsThere =>
       /\ CountsFrom(holds["lin"], Len(served) + Len(holds["cin"]))
       /\ asked = Len(served) + Len(holds["cin"]) + Len(holds["lin"])
  /\ Len(served) + Len(holds["cin"]) + Len(holds["lin"]) <= asked

\* The same on the way down, where only cout may drop what it holds.
DownInv ==
  /\ CountsFrom(answered, 0)
  /\ CountsFrom(holds["lout"], Len(answered))
  /\ DownIsOpen =>
       /\ CountsFrom(holds["cout"], Len(answered) + Len(holds["lout"]))
       /\ replied = Len(answered) + Len(holds["lout"]) + Len(holds["cout"])

\* The handler of a request: its one goroutine writes, then reads, and closes
\* the Reader and the connection only when it ends.
RequestInv ==
  /\ at["lin"] \in {"run", "last"} => at["lout"] = "idle"
  /\ at["lout"] # "done" => {"down.r", "client"} \subseteq open
  /\ "listen" \in returned => at["lout"] = "done"

\* Some of what lin was given will never be served.
Lost == Len(served) + Len(holds["cin"]) < asked

\* An http Connect behind it: the other end of the pipe down is closed after
\* cout has ended, and cout ends with nothing left to write unless the handler
\* has gone.  So when the handler ends and the client is still there, either it
\* did not get rid of its request, or all of the reply has come.
ReplyInv ==
  /\ connect = "graphql" /\ Running("cin") => at["cout"] = "idle"
  /\ "down.w" \notin open => at["cout"] = "done"
  /\ at["cout"] = "idle" => Empty("cout")
  /\ at["lout"] # "done" =>
       /\ at["cout"] = "done" => Empty("cout")
       /\ replied = Len(answered) + Len(holds["lout"]) + Len(holds["cout"])
  /\ at["lout"] = "done" /\ client # "gone" =>
       Lost \/ (at["cout"] = "done" /\ Len(answered) = replied)

Forwarding == listen = "request" /\ connect \in {"post", "graphql"}

IInv ==
  /\ TypeInv /\ UpInv /\ DownInv
  /\ listen = "request" => RequestInv
  /\ Forwarding => ReplyInv

-----------------------------------------------------------------------------
(* Sequences that count on, and functions changed in two places. *)

\* The empty sequence counts on from anything.
LEMMA CountsNone ==
  ASSUME NEW n, NEW s, s = <<>>
  PROVE  CountsFrom(s, n) /\ Len(s) = 0
  BY DEF CountsFrom

\* A single chunk with the next number counts on.
LEMMA CountsOne ==
  ASSUME NEW n \in Nat, NEW s, s = <<n + 1>>
  PROVE  CountsFrom(s, n) /\ Len(s) = 1
  BY DEF CountsFrom

\* The lengths of what is typed.
LEMMA Lengths ==
  ASSUME TypeOK
  PROVE  /\ Len(served) \in Nat /\ Len(answered) \in Nat
         /\ asked \in Nat /\ replied \in Nat
         /\ Len(holds["cin"]) \in Nat /\ Len(holds["lin"]) \in Nat
         /\ Len(holds["cout"]) \in Nat /\ Len(holds["lout"]) \in Nat
<1>1. asked \in Nat /\ replied \in Nat
  BY ProxyAssumption DEF TypeOK
<1>2. /\ served \in Seq(Nat) /\ answered \in Seq(Nat)
      /\ holds["cin"] \in Seq(Nat) /\ holds["lin"] \in Seq(Nat)
      /\ holds["cout"] \in Seq(Nat) /\ holds["lout"] \in Seq(Nat)
  BY DEF TypeOK, Halves
<1>3. \A s \in Seq(Nat) : Len(s) \in Nat
  OBVIOUS
<1> QED BY <1>1, <1>2, <1>3

\* A sum that a lost chunk makes smaller.
LEMMA Sums ==
  ASSUME NEW a \in Nat, NEW b \in Nat, NEW c \in Nat, NEW n \in Nat, a + b + c <= n
  PROVE  a + b + 0 <= n /\ a + 0 + c <= n
  OBVIOUS

\* A sequence that counts on, and another that counts on from its end.
LEMMA CountsOn ==
  ASSUME NEW n \in Nat, NEW s \in Seq(Nat), NEW t \in Seq(Nat),
         CountsFrom(s, n), CountsFrom(t, n + Len(s))
  PROVE  CountsFrom(s \o t, n)
<1> DEFINE st == s \o t
<1>1. st \in Seq(Nat) /\ Len(st) = Len(s) + Len(t)
  OBVIOUS
<1>2. \A i \in 1..Len(st) : st[i] = n + i
  <2> TAKE i \in 1..Len(st)
  <2>1. CASE i <= Len(s)
    BY <2>1, <1>1 DEF CountsFrom
  <2>2. CASE i > Len(s)
    <3>1. i - Len(s) \in 1..Len(t) /\ st[i] = t[i - Len(s)]
      BY <2>2, <1>1
    <3>2. t[i - Len(s)] = n + Len(s) + (i - Len(s))
      BY <3>1 DEF CountsFrom
    <3> QED BY <3>1, <3>2
  <2> QED BY <2>1, <2>2
<1> QED BY <1>1, <1>2 DEF CountsFrom

\* What a change in two places leaves.
LEMMA Changed ==
  ASSUME NEW f \in [Halves -> Seq(Nat)], NEW g \in Halves, NEW h \in Halves, g # h,
         NEW s \in Seq(Nat), NEW t \in Seq(Nat),
         NEW f2, f2 = [f EXCEPT ![g] = s, ![h] = t]
  PROVE  /\ f2 \in [Halves -> Seq(Nat)] /\ f2[g] = s /\ f2[h] = t
         /\ \A k \in Halves \ {g, h} : f2[k] = f[k]
  OBVIOUS

-----------------------------------------------------------------------------
(* What the actions that move two chunks do, half by half. *)

\* The Read and the Write that meet in the pipe up.
LEMMA PassUpMoves ==
  ASSUME TypeOK, PassUp
  PROVE  /\ holds' \in [Halves -> Seq(Nat)]
         /\ holds'["cin"] = holds["cin"] \o holds["lin"] /\ holds'["lin"] = <<>>
         /\ holds'["cout"] = holds["cout"] /\ holds'["lout"] = holds["lout"]
         /\ UNCHANGED <<kinds, at, open, network, returned>>
<1> DEFINE both == holds["cin"] \o holds["lin"]
<1>1. holds \in [Halves -> Seq(Nat)]
  BY DEF TypeOK
<1>2. both \in Seq(Nat) /\ <<>> \in Seq(Nat)
  BY <1>1 DEF Halves
<1>3. holds' = [holds EXCEPT !["cin"] = both, !["lin"] = <<>>]
  BY DEF PassUp
<1>4. "cin" \in Halves /\ "lin" \in Halves /\ "cin" # "lin"
  BY DEF Halves
<1> HIDE DEF both
<1>5. holds' \in [Halves -> Seq(Nat)]
  BY <1>1, <1>2, <1>3
<1>6. holds'["cin"] = both /\ holds'["lin"] = <<>>
  BY <1>1, <1>3, <1>4
<1>7. \A k \in Halves \ {"cin", "lin"} : holds'[k] = holds[k]
  BY <1>1, <1>3
<1> QED BY <1>5, <1>6, <1>7 DEF PassUp, both, Halves

\* Those that meet in the pipe down.
LEMMA PassDownMoves ==
  ASSUME TypeOK, PassDown
  PROVE  /\ holds' \in [Halves -> Seq(Nat)]
         /\ holds'["lout"] = holds["cout"] /\ holds'["cout"] = <<>>
         /\ holds'["cin"] = holds["cin"] /\ holds'["lin"] = holds["lin"]
         /\ UNCHANGED <<kinds, at, open, network, returned>>
<1>1. holds \in [Halves -> Seq(Nat)]
  BY DEF TypeOK
<1>2. holds["cout"] \in Seq(Nat) /\ <<>> \in Seq(Nat)
  BY <1>1 DEF Halves
<1>3. holds' = [holds EXCEPT !["lout"] = holds["cout"], !["cout"] = <<>>]
  BY DEF PassDown
<1>4. "lout" \in Halves /\ "cout" \in Halves /\ "lout" # "cout"
  BY DEF Halves
<1>5. /\ holds' \in [Halves -> Seq(Nat)] /\ holds'["lout"] = holds["cout"] /\ holds'["cout"] = <<>>
      /\ \A k \in Halves \ {"lout", "cout"} : holds'[k] = holds[k]
  BY <1>1, <1>2, <1>3, <1>4, Changed
<1> QED BY <1>5 DEF PassDown, Halves

\* A statement is executed and leaves a row, or leaves none, or fails.
LEMMA ExecuteMoves ==
  ASSUME TypeOK, ExecuteStatement
  PROVE  /\ holds' \in [Halves -> Seq(Nat)]
         /\ holds'["cin"] = <<>> /\ holds["cout"] = <<>>
         /\ holds'["lin"] = holds["lin"] /\ holds'["lout"] = holds["lout"]
         /\ \/ ServerIsThere /\ served' = served \o holds["cin"]
            \/ ~ServerIsThere /\ served' = served
         /\ \/ /\ replied < MaxReply /\ replied' = replied + 1
               /\ holds'["cout"] = <<replied + 1>>
            \/ replied' = replied /\ holds'["cout"] = <<>>
         /\ connect = "query"
         /\ UNCHANGED <<kinds, at, open, client, server, asked, answered, returned>>
<1>1. holds \in [Halves -> Seq(Nat)] /\ replied \in Nat
  BY ProxyAssumption DEF TypeOK
<1>2. <<replied + 1>> \in Seq(Nat) /\ <<>> \in Seq(Nat)
  BY <1>1
<1>3. "cin" \in Halves /\ "cout" \in Halves /\ "cin" # "cout"
  BY DEF Halves
<1>4. CASE ServerIsThere /\ replied < MaxReply /\ served' = served \o holds["cin"]
           /\ replied' = replied + 1
           /\ holds' = [holds EXCEPT !["cin"] = <<>>, !["cout"] = <<replied + 1>>]
  <2>1. /\ holds' \in [Halves -> Seq(Nat)] /\ holds'["cin"] = <<>>
        /\ holds'["cout"] = <<replied + 1>>
        /\ \A k \in Halves \ {"cin", "cout"} : holds'[k] = holds[k]
    BY <1>1, <1>2, <1>3, <1>4, Changed
  <2> QED BY <1>4, <2>1 DEF ExecuteStatement, Empty, Halves
<1>5. CASE holds' = [holds EXCEPT !["cin"] = <<>>]
  BY <1>1, <1>5 DEF ExecuteStatement, Empty, Halves
<1> QED BY <1>4, <1>5 DEF ExecuteStatement

-----------------------------------------------------------------------------
(* Types. *)

LEMMA Typing == TypeInv /\ [Next]_vars => TypeInv'
<1> SUFFICES ASSUME TypeInv, [Next]_vars PROVE TypeInv'
  OBVIOUS
<1> USE ProxyAssumption DEF TypeInv, TypeOK, kinds, network, Halves
<1>1. CASE PassUp
  BY <1>1, PassUpMoves, Zenon
<1>2. CASE PassDown
  BY <1>2, PassDownMoves, Zenon
<1>3. CASE ListenRead
  BY <1>3 DEF ListenRead
<1>4. CASE RequestLast
  BY <1>4 DEF RequestLast
<1>5. CASE RequestSent
  BY <1>5 DEF RequestSent
<1>6. CASE ListenWrite
  BY <1>6 DEF ListenWrite
<1>7. ASSUME NEW h \in {"lin", "lout"}, ListenHalfEnds(h) PROVE TypeInv'
  BY <1>7 DEF ListenHalfEnds
<1>8. CASE HandlerReturns
  BY <1>8 DEF HandlerReturns
<1>9. CASE ConnectWrite
  BY <1>9 DEF ConnectWrite
<1>10. CASE PostQuery
  BY <1>10 DEF PostQuery
<1>11. CASE ExecuteStatement
  <2>1. served' \in Seq(Nat) /\ replied' \in 0..MaxReply
    <3>1. served \o holds["cin"] \in Seq(Nat)
      OBVIOUS
    <3>2. served' = served \/ served' = served \o holds["cin"]
      BY <1>11, ExecuteMoves, Zenon
    <3>3. replied' = replied \/ (replied < MaxReply /\ replied' = replied + 1)
      BY <1>11, ExecuteMoves, Zenon
    <3>4. served' \in Seq(Nat)
      BY <3>1, <3>2, Zenon
    <3>5. replied' \in 0..MaxReply
      BY <3>3
    <3> QED BY <3>4, <3>5
  <2> QED BY <1>11, <2>1, ExecuteMoves, Zenon
<1>12. CASE ConnectRead
  BY <1>12 DEF ConnectRead
<1>13. CASE AnswerDropped
  BY <1>13 DEF AnswerDropped
<1>14. ASSUME NEW h \in {"cin", "cout"}, ConnectHalfEnds(h) PROVE TypeInv'
  BY <1>14 DEF ConnectHalfEnds
<1>15. CASE ConnectReturns
  BY <1>15 DEF ConnectReturns
<1>16. CASE ClientEnds
  BY <1>16 DEF ClientEnds
<1>17. CASE ServerEnds
  BY <1>17 DEF ServerEnds
<1>18. CASE UNCHANGED vars
  BY <1>18 DEF vars
<1> QED BY <1>1, <1>2, <1>3, <1>4, <1>5, <1>6, <1>7, <1>8, <1>9, <1>10, <1>11,
           <1>12, <1>13, <1>14, <1>15, <1>16, <1>17, <1>18 DEF Next

LEMMA TypingInit == Init => TypeInv
  BY ProxyAssumption DEF Init, InitAt, TypeInv, TypeOK, ListenEnds, ConnectEnds, Halves

\* Every state of a proxied stream is well typed.
THEOREM ProxyTypeCorrect == Spec => []TypeOK
<1>1. TypeInv => TypeOK
  BY DEF TypeInv
<1> QED BY <1>1, TypingInit, Typing, PTL DEF Spec

-----------------------------------------------------------------------------
(* Order. *)

\* Nothing on the way up has moved, and ends are only ever closed.
LEMMA UpStays ==
  ASSUME UpInv, open' \subseteq open, server' = server \/ server' = "gone",
         asked' = asked, served' = served,
         holds'["cin"] = holds["cin"], holds'["lin"] = holds["lin"]
  PROVE  UpInv'
  BY DEF UpInv, ServerIsThere, UpIsOpen, CountsFrom

\* Nor on the way down.
LEMMA DownStays ==
  ASSUME DownInv, open' \subseteq open, replied' = replied, answered' = answered,
         holds'["cout"] = holds["cout"], holds'["lout"] = holds["lout"]
  PROVE  DownInv'
  BY DEF DownInv, DownIsOpen, CountsFrom

\* cin writes all it holds to the server.
LEMMA ServedMore ==
  ASSUME TypeOK, UpInv, ServerIsThere,
         served' = served \o holds["cin"], holds'["cin"] = <<>>,
         holds'["lin"] = holds["lin"], UNCHANGED <<open, asked, server>>
  PROVE  UpInv'
<1>1. served \in Seq(Nat) /\ holds["cin"] \in Seq(Nat) /\ holds["lin"] \in Seq(Nat)
  BY DEF TypeOK, Halves
<1>2. CountsFrom(served, 0) /\ CountsFrom(holds["cin"], 0 + Len(served))
  BY <1>1 DEF UpInv
<1>3. CountsFrom(served', 0)
  BY <1>1, <1>2, CountsOn
<1>4. Len(served') = Len(served) + Len(holds["cin"]) /\ Len(holds'["cin"]) = 0
  BY <1>1
<1>5. CountsFrom(holds'["cin"], Len(served'))
  BY CountsNone
<1>6. (ServerIsThere <=> ServerIsThere') /\ (UpIsOpen <=> UpIsOpen')
  BY DEF ServerIsThere, UpIsOpen
<1>7. UpIsOpen => /\ CountsFrom(holds'["lin"], Len(served') + Len(holds'["cin"]))
                  /\ asked' = Len(served') + Len(holds'["cin"]) + Len(holds'["lin"])
  <2>1. Len(served') + Len(holds'["cin"]) = Len(served) + Len(holds["cin"])
    BY <1>1, <1>4
  <2> QED BY <2>1 DEF UpInv
<1>8. Len(served') + Len(holds'["cin"]) + Len(holds'["lin"]) <= asked'
  <2>1. Len(served') + Len(holds'["cin"]) = Len(served) + Len(holds["cin"])
    BY <1>1, <1>4
  <2> QED BY <2>1 DEF UpInv
<1> QED BY <1>3, <1>5, <1>6, <1>7, <1>8 DEF UpInv

\* lin has been given the next chunk.
LEMMA AskedMore ==
  ASSUME TypeOK, UpInv, holds["lin"] = <<>>, holds'["lin"] = <<asked + 1>>,
         asked' = asked + 1, holds'["cin"] = holds["cin"],
         UNCHANGED <<open, server, served>>
  PROVE  UpInv'
<1>1. /\ served \in Seq(Nat) /\ holds["cin"] \in Seq(Nat) /\ asked \in Nat
      /\ Len(holds["lin"]) = 0 /\ Len(holds'["lin"]) = 1
  BY ProxyAssumption DEF TypeOK, Halves, ProxyAssumption
<1>2. UpIsOpen /\ ServerIsThere => CountsFrom(holds'["lin"], Len(served) + Len(holds["cin"]))
  <2>1. CountsFrom(<<asked + 1>>, asked)
    BY <1>1, CountsOne
  <2>2. UpIsOpen /\ ServerIsThere => asked = Len(served) + Len(holds["cin"])
    BY <1>1 DEF UpInv
  <2> QED BY <2>1, <2>2
<1>3. UpIsOpen /\ ServerIsThere =>
        asked' = Len(served) + Len(holds["cin"]) + Len(holds'["lin"])
  BY <1>1 DEF UpInv
<1>4. (ServerIsThere <=> ServerIsThere') /\ (UpIsOpen <=> UpIsOpen')
  BY DEF ServerIsThere, UpIsOpen
<1>5. Len(served) + Len(holds["cin"]) + Len(holds'["lin"]) <= asked'
  BY <1>1 DEF UpInv
<1>6. CountsFrom(served', 0) /\ (ServerIsThere' => CountsFrom(holds'["cin"], Len(served')))
  BY <1>4 DEF UpInv
<1> QED BY <1>2, <1>3, <1>4, <1>5, <1>6 DEF UpInv

\* cout has been given the next chunk.
LEMMA RepliedMore ==
  ASSUME TypeOK, DownInv, holds["cout"] = <<>>, holds'["cout"] = <<replied + 1>>,
         replied' = replied + 1, holds'["lout"] = holds["lout"],
         UNCHANGED <<open, answered>>
  PROVE  DownInv'
<1>1. /\ answered \in Seq(Nat) /\ holds["lout"] \in Seq(Nat) /\ replied \in Nat
      /\ Len(holds["cout"]) = 0 /\ Len(holds'["cout"]) = 1
  BY ProxyAssumption DEF TypeOK, Halves, ProxyAssumption
<1>2. DownIsOpen => CountsFrom(holds'["cout"], Len(answered) + Len(holds["lout"]))
  <2>1. CountsFrom(<<replied + 1>>, replied)
    BY <1>1, CountsOne
  <2>2. DownIsOpen => replied = Len(answered) + Len(holds["lout"])
    BY <1>1 DEF DownInv
  <2> QED BY <2>1, <2>2
<1>3. DownIsOpen => replied' = Len(answered) + Len(holds["lout"]) + Len(holds'["cout"])
  BY <1>1 DEF DownInv
<1>4. DownIsOpen <=> DownIsOpen'
  BY DEF DownIsOpen
<1>5. CountsFrom(answered', 0) /\ CountsFrom(holds'["lout"], Len(answered'))
  BY DEF DownInv
<1> QED BY <1>2, <1>3, <1>4, <1>5 DEF DownInv

LEMMA OrderInit == Init => UpInv /\ DownInv
<1> SUFFICES ASSUME Init PROVE UpInv /\ DownInv
  OBVIOUS
<1>1. /\ served = <<>> /\ answered = <<>> /\ asked = 0 /\ replied = 0
      /\ \A h \in Halves : holds[h] = <<>>
  BY DEF Init
<1>2. /\ CountsFrom(served, 0) /\ CountsFrom(answered, 0)
      /\ Len(served) = 0 /\ Len(answered) = 0
      /\ \A h \in Halves : CountsFrom(holds[h], 0) /\ Len(holds[h]) = 0
  BY <1>1, CountsNone
<1>3. CountsFrom(holds["cin"], 0) /\ CountsFrom(holds["lin"], 0)
      /\ CountsFrom(holds["cout"], 0) /\ CountsFrom(holds["lout"], 0)
      /\ Len(holds["cin"]) = 0 /\ Len(holds["lin"]) = 0
      /\ Len(holds["cout"]) = 0 /\ Len(holds["lout"]) = 0
  BY <1>2 DEF Halves
<1>4. 0 + 0 = 0
  OBVIOUS
<1> QED BY <1>1, <1>2, <1>3, <1>4 DEF UpInv, DownInv

LEMMA Order == TypeInv /\ UpInv /\ DownInv /\ [Next]_vars => UpInv' /\ DownInv'
<1> SUFFICES ASSUME TypeInv, UpInv, DownInv, [Next]_vars PROVE UpInv' /\ DownInv'
  OBVIOUS
<1>0. TypeOK
  BY DEF TypeInv
<1>h. /\ holds \in [Halves -> Seq(Nat)]
      /\ \A h \in Halves : holds[h] \in Seq(Nat)
  BY <1>0 DEF TypeOK
<1> USE DEF kinds, network
<1>1. CASE PassUp
  <2>1. DownInv'
    BY <1>0, <1>1, PassUpMoves, DownStays
  <2>2. UNCHANGED <<open, server, asked, served>>
    BY <1>0, <1>1, PassUpMoves
  <2>3. holds'["cin"] = holds["cin"] \o holds["lin"] /\ holds'["lin"] = <<>>
    BY <1>0, <1>1, PassUpMoves
  <2>4. holds["cin"] \in Seq(Nat) /\ holds["lin"] \in Seq(Nat) /\ served \in Seq(Nat)
    BY <1>0 DEF TypeOK, Halves
  <2>5. Len(holds'["cin"]) = Len(holds["cin"]) + Len(holds["lin"]) /\ Len(holds'["lin"]) = 0
    BY <2>3, <2>4
  <2>6. ServerIsThere => CountsFrom(holds'["cin"], Len(served))
    <3>1. UpIsOpen
      BY <1>1 DEF PassUp
    <3> SUFFICES ASSUME ServerIsThere PROVE CountsFrom(holds'["cin"], Len(served))
      OBVIOUS
    <3>2. /\ CountsFrom(holds["cin"], Len(served))
          /\ CountsFrom(holds["lin"], Len(served) + Len(holds["cin"]))
      BY <3>1 DEF UpInv
    <3>3. Len(served) \in Nat
      BY <2>4
    <3> QED BY <2>3, <2>4, <3>2, <3>3, CountsOn
  <2>7. CountsFrom(holds'["lin"], Len(served) + Len(holds'["cin"]))
    BY <2>3, CountsNone
  <2>8. /\ UpIsOpen /\ ServerIsThere =>
             asked = Len(served) + Len(holds'["cin"]) + Len(holds'["lin"])
        /\ Len(served) + Len(holds'["cin"]) + Len(holds'["lin"]) <= asked
    <3>1. Len(served) + Len(holds'["cin"]) + Len(holds'["lin"])
            = Len(served) + Len(holds["cin"]) + Len(holds["lin"])
      <4>1. \A a, b, c \in Nat : a + (b + c) + 0 = a + b + c
        OBVIOUS
      <4>2. Len(served) \in Nat /\ Len(holds["cin"]) \in Nat /\ Len(holds["lin"]) \in Nat
        BY <1>0, Lengths
      <4>3. Len(served) + (Len(holds["cin"]) + Len(holds["lin"])) + 0
              = Len(served) + Len(holds["cin"]) + Len(holds["lin"])
        BY <4>1, <4>2, Zenon
      <4> QED BY <2>5, <4>3, Zenon
    <3> QED BY <3>1 DEF UpInv
  <2>9. (ServerIsThere <=> ServerIsThere') /\ (UpIsOpen <=> UpIsOpen')
    BY <2>2 DEF ServerIsThere, UpIsOpen
  <2>10. UpInv'
    BY <2>2, <2>6, <2>7, <2>8, <2>9 DEF UpInv
  <2> QED BY <2>1, <2>10
<1>2. CASE PassDown
  <2>1. UpInv'
    BY <1>0, <1>2, PassDownMoves, UpStays
  <2>2. UNCHANGED <<open, replied, answered>>
    BY <1>0, <1>2, PassDownMoves
  <2>3. holds'["lout"] = holds["cout"] /\ holds'["cout"] = <<>>
    BY <1>0, <1>2, PassDownMoves
  <2>4. /\ answered \in Seq(Nat) /\ holds["cout"] \in Seq(Nat)
        /\ holds["lout"] = <<>> /\ Len(holds["lout"]) = 0 /\ Len(holds'["cout"]) = 0
    BY <1>0, <1>2, <2>3 DEF TypeOK, Halves, PassDown, Empty
  <2>5. CountsFrom(holds["cout"], Len(answered)) /\ replied = Len(answered) + Len(holds["cout"])
    <3>1. Len(answered) + 0 = Len(answered)
      BY <2>4
    <3>2. DownIsOpen
      BY <1>2 DEF PassDown
    <3> QED BY <2>4, <3>1, <3>2 DEF DownInv
  <2>6. CountsFrom(holds'["cout"], Len(answered) + Len(holds'["lout"]))
    BY <2>3, CountsNone
  <2>7. replied = Len(answered) + Len(holds'["lout"]) + Len(holds'["cout"])
    BY <2>3, <2>4, <2>5
  <2>8. CountsFrom(answered, 0)
    BY DEF DownInv
  <2>9. DownInv'
    BY <2>2, <2>3, <2>5, <2>6, <2>7, <2>8 DEF DownInv
  <2> QED BY <2>1, <2>9
<1>3. CASE ListenRead
  <2>1. /\ holds'["lin"] = <<asked + 1>> /\ holds["lin"] = <<>>
        /\ \A h \in Halves \ {"lin"} : holds'[h] = holds[h]
    BY <1>3, <1>h DEF ListenRead, Empty, Halves
  <2>2. UNCHANGED <<open, server, served, answered, replied>> /\ asked' = asked + 1
    BY <1>3 DEF ListenRead
  <2>3. UpInv'
    BY <1>0, <2>1, <2>2, AskedMore DEF Halves
  <2>4. DownInv'
    BY <2>1, <2>2, DownStays DEF Halves
  <2> QED BY <2>3, <2>4
<1>4. CASE RequestLast
  <2>1. /\ holds'["lin"] = <<asked + 1>> /\ holds["lin"] = <<>>
        /\ \A h \in Halves \ {"lin"} : holds'[h] = holds[h]
    BY <1>4, <1>h DEF RequestLast, Empty, Halves
  <2>2. UNCHANGED <<open, server, served, answered, replied>> /\ asked' = asked + 1
    BY <1>4 DEF RequestLast
  <2>3. UpInv'
    BY <1>0, <2>1, <2>2, AskedMore DEF Halves
  <2>4. DownInv'
    BY <2>1, <2>2, DownStays DEF Halves
  <2> QED BY <2>3, <2>4
<1>5. CASE RequestSent
  <2>1. holds'["lin"] = <<>> /\ \A h \in Halves \ {"lin"} : holds'[h] = holds[h]
    BY <1>5, <1>h DEF RequestSent, Halves
  <2>2. /\ UNCHANGED <<server, served, answered, replied, asked>>
        /\ open' \subseteq open /\ ~UpIsOpen'
    BY <1>5 DEF RequestSent, UpIsOpen
  <2>3. Len(served') + Len(holds'["cin"]) + Len(holds'["lin"]) <= asked'
    <3>1. /\ Len(served) \in Nat /\ Len(holds["cin"]) \in Nat /\ Len(holds["lin"]) \in Nat
          /\ asked \in Nat /\ Len(holds'["lin"]) = 0
      BY <1>0, <1>h, <2>1, ProxyAssumption DEF TypeOK, Halves, ProxyAssumption
    <3>2. Len(served) + Len(holds["cin"]) + Len(holds["lin"]) <= asked
      BY DEF UpInv
    <3>3. holds'["cin"] = holds["cin"]
      BY <2>1 DEF Halves
    <3> QED BY <2>2, <3>1, <3>2, <3>3, Sums
  <2>4. UpInv'
    BY <2>1, <2>2, <2>3 DEF UpInv, ServerIsThere, Halves
  <2>5. DownInv'
    BY <2>1, <2>2, DownStays DEF Halves
  <2> QED BY <2>4, <2>5
<1>6. CASE ListenWrite
  <2>1. /\ holds'["lout"] = <<>> /\ answered' = answered \o holds["lout"]
        /\ \A h \in Halves \ {"lout"} : holds'[h] = holds[h]
    BY <1>6, <1>h DEF ListenWrite, Halves
  <2>2. UNCHANGED <<server, served, replied, asked, open>>
    BY <1>6 DEF ListenWrite
  <2>3. UpInv'
    BY <2>1, <2>2, UpStays DEF Halves
  <2>4. answered \in Seq(Nat) /\ holds["lout"] \in Seq(Nat)
    BY <1>0 DEF TypeOK, Halves
  <2>5. Len(answered') = Len(answered) + Len(holds["lout"]) /\ Len(holds'["lout"]) = 0
    BY <2>1, <2>4
  <2>6. CountsFrom(answered', 0)
    <3>1. CountsFrom(answered, 0) /\ CountsFrom(holds["lout"], 0 + Len(answered))
      BY <2>4 DEF DownInv
    <3> QED BY <2>1, <2>4, <3>1, CountsOn
  <2>7. CountsFrom(holds'["lout"], Len(answered'))
    BY <2>1, CountsNone
  <2>8. /\ Len(answered') + Len(holds'["lout"]) = Len(answered) + Len(holds["lout"])
        /\ holds'["cout"] = holds["cout"]
    BY <2>1, <2>4, <2>5 DEF Halves
  <2>9. DownInv'
    BY <2>2, <2>6, <2>7, <2>8 DEF DownInv, DownIsOpen
  <2> QED BY <2>3, <2>9
<1>7. ASSUME NEW h \in {"lin", "lout"}, ListenHalfEnds(h) PROVE UpInv' /\ DownInv'
  <2>1. UNCHANGED <<holds, server, served, answered, replied, asked>> /\ open' \subseteq open
    BY <1>7 DEF ListenHalfEnds
  <2> QED BY <2>1, UpStays, DownStays
<1>8. CASE HandlerReturns
  <2>1. UNCHANGED <<holds, server, served, answered, replied, asked>> /\ open' \subseteq open
    BY <1>8 DEF HandlerReturns
  <2> QED BY <2>1, UpStays, DownStays
<1>9. CASE ConnectWrite
  <2>1. holds'["cin"] = <<>> /\ \A h \in Halves \ {"cin"} : holds'[h] = holds[h]
    BY <1>9, <1>h DEF ConnectWrite, Halves
  <2>2. /\ UNCHANGED <<server, answered, replied, asked, open>> /\ ServerIsThere
        /\ served' = served \o holds["cin"]
    BY <1>9 DEF ConnectWrite
  <2>3. UpInv'
    BY <1>0, <2>1, <2>2, ServedMore DEF Halves
  <2>4. DownInv'
    BY <2>1, <2>2, DownStays DEF Halves
  <2> QED BY <2>3, <2>4
<1>10. CASE PostQuery
  <2>1. holds'["cin"] = <<>> /\ \A h \in Halves \ {"cin"} : holds'[h] = holds[h]
    BY <1>10, <1>h DEF PostQuery, Halves
  <2>2. /\ UNCHANGED <<server, answered, replied, asked, open>> /\ ServerIsThere
        /\ served' = served \o holds["cin"]
    BY <1>10 DEF PostQuery
  <2>3. UpInv'
    BY <1>0, <2>1, <2>2, ServedMore DEF Halves
  <2>4. DownInv'
    BY <2>1, <2>2, DownStays DEF Halves
  <2> QED BY <2>3, <2>4
<1>11. CASE ExecuteStatement
  <2>1. /\ UNCHANGED <<server, answered, asked, open>>
        /\ holds'["cin"] = <<>> /\ holds["cout"] = <<>>
        /\ holds'["lin"] = holds["lin"] /\ holds'["lout"] = holds["lout"]
    BY <1>0, <1>11, ExecuteMoves
  <2>2. UpInv'
    <3>1. CASE ServerIsThere /\ served' = served \o holds["cin"]
      BY <1>0, <2>1, <3>1, ServedMore
    <3>2. CASE ~ServerIsThere /\ served' = served
      <4>1. ~ServerIsThere'
        BY <2>1, <3>2 DEF ServerIsThere
      <4>2. Len(served') + Len(holds'["cin"]) + Len(holds'["lin"]) <= asked'
        <5>1. /\ Len(served) \in Nat /\ Len(holds["cin"]) \in Nat /\ Len(holds["lin"]) \in Nat
              /\ asked \in Nat /\ Len(holds'["cin"]) = 0
          BY <1>0, <1>h, <2>1, ProxyAssumption DEF TypeOK, Halves, ProxyAssumption
        <5>2. Len(served) + Len(holds["cin"]) + Len(holds["lin"]) <= asked
          BY DEF UpInv
        <5>3. Len(served) + 0 + Len(holds["lin"]) <= asked
          BY <5>1, <5>2, Sums
        <5> QED BY <2>1, <3>2, <5>1, <5>3
      <4> QED BY <3>2, <4>1, <4>2 DEF UpInv
    <3> QED BY <1>0, <1>11, <3>1, <3>2, ExecuteMoves
  <2>3. DownInv'
    <3>1. CASE replied' = replied + 1 /\ holds'["cout"] = <<replied + 1>>
      BY <1>0, <2>1, <3>1, RepliedMore
    <3>2. CASE replied' = replied /\ holds'["cout"] = <<>>
      BY <2>1, <3>2, DownStays
    <3> QED BY <1>0, <1>11, <3>1, <3>2, ExecuteMoves
  <2> QED BY <2>2, <2>3
<1>12. CASE ConnectRead
  <2>1. /\ holds'["cout"] = <<replied + 1>> /\ holds["cout"] = <<>>
        /\ \A h \in Halves \ {"cout"} : holds'[h] = holds[h]
    BY <1>12, <1>h DEF ConnectRead, Empty, Halves
  <2>2. UNCHANGED <<open, server, served, answered, asked>> /\ replied' = replied + 1
    BY <1>12 DEF ConnectRead
  <2>3. UpInv'
    BY <2>1, <2>2, UpStays DEF Halves
  <2>4. DownInv'
    BY <1>0, <2>1, <2>2, RepliedMore DEF Halves
  <2> QED BY <2>3, <2>4
<1>13. CASE AnswerDropped
  <2>1. \A h \in Halves \ {"cout"} : holds'[h] = holds[h]
    BY <1>13, <1>h DEF AnswerDropped, Halves
  <2>2. UNCHANGED <<open, server, served, answered, asked>> /\ ~DownIsOpen'
    BY <1>13 DEF AnswerDropped, DownIsOpen
  <2>3. UpInv'
    BY <2>1, <2>2, UpStays DEF Halves
  <2>4. DownInv'
    BY <2>1, <2>2 DEF DownInv, Halves
  <2> QED BY <2>3, <2>4
<1>14. ASSUME NEW h \in {"cin", "cout"}, ConnectHalfEnds(h) PROVE UpInv' /\ DownInv'
  <2>1. UNCHANGED <<holds, server, served, answered, replied, asked>> /\ open' \subseteq open
    BY <1>14 DEF ConnectHalfEnds
  <2> QED BY <2>1, UpStays, DownStays
<1>15. CASE ConnectReturns
  <2>1. UNCHANGED <<holds, server, served, answered, replied, asked>> /\ open' \subseteq open
    BY <1>15 DEF ConnectReturns
  <2> QED BY <2>1, UpStays, DownStays
<1>16. CASE ClientEnds
  <2>1. UNCHANGED <<holds, server, served, answered, replied, asked>> /\ open' \subseteq open
    BY <1>16 DEF ClientEnds
  <2> QED BY <2>1, UpStays, DownStays
<1>17. CASE ServerEnds
  <2>1. /\ UNCHANGED <<holds, served, answered, replied, asked>> /\ open' \subseteq open
        /\ server' = "gone"
    BY <1>17 DEF ServerEnds
  <2> QED BY <2>1, UpStays, DownStays
<1>18. CASE UNCHANGED vars
  <2>1. UNCHANGED <<holds, server, served, answered, replied, asked>> /\ open' \subseteq open
    BY <1>18 DEF vars
  <2> QED BY <2>1, UpStays, DownStays
<1> QED BY <1>1, <1>2, <1>3, <1>4, <1>5, <1>6, <1>7, <1>8, <1>9, <1>10, <1>11,
           <1>12, <1>13, <1>14, <1>15, <1>16, <1>17, <1>18 DEF Next

\* Server and client are given what the other sent, in order and without a gap,
\* and nothing is lost while the way is open, whatever schemes are joined.
THEOREM ProxyKeepsOrder == Spec => []InOrder
<1>1. Init => TypeInv /\ UpInv /\ DownInv
  BY TypingInit, OrderInit
<1>2. TypeInv /\ UpInv /\ DownInv /\ [Next]_vars => (TypeInv /\ UpInv /\ DownInv)'
  BY Typing, Order
<1>3. TypeInv /\ UpInv /\ DownInv => InOrder
  <2> SUFFICES ASSUME TypeInv, UpInv, DownInv PROVE InOrder
    OBVIOUS
  <2>1. served \in Seq(Nat) /\ holds["cin"] \in Seq(Nat) /\ holds["lin"] \in Seq(Nat)
    BY DEF TypeInv, TypeOK, Halves
  <2>2. CountsFrom(served, 0) /\ CountsFrom(answered, 0)
    BY DEF UpInv, DownInv
  <2>3. ASSUME UpIsOpen, ServerIsThere
        PROVE  CountsFrom(UnderWay, 0) /\ Len(UnderWay) = asked
    <3> DEFINE first == served \o holds["cin"]
    <3>1. first \in Seq(Nat) /\ Len(first) = Len(served) + Len(holds["cin"])
      BY <2>1
    <3>2. CountsFrom(holds["cin"], 0 + Len(served))
      BY <2>1, <2>3 DEF UpInv
    <3>3. CountsFrom(first, 0)
      BY <2>1, <2>2, <3>2, CountsOn
    <3>4. CountsFrom(holds["lin"], 0 + Len(first))
      BY <2>1, <2>3, <3>1 DEF UpInv
    <3>5. UnderWay = first \o holds["lin"]
      BY DEF UnderWay
    <3> HIDE DEF first
    <3>6. CountsFrom(UnderWay, 0)
      BY <2>1, <3>1, <3>3, <3>4, <3>5, CountsOn
    <3>7. Len(UnderWay) = Len(first) + Len(holds["lin"])
      <4>1. \A s, u \in Seq(Nat) : Len(s \o u) = Len(s) + Len(u)
        OBVIOUS
      <4> QED BY <2>1, <3>1, <3>5, <4>1
    <3> QED BY <2>3, <3>1, <3>6, <3>7 DEF UpInv
  <2> QED BY <2>2, <2>3 DEF InOrder
<1> QED BY <1>1, <1>2, <1>3, PTL DEF Spec

-----------------------------------------------------------------------------
(* A request and its whole response. *)

LEMMA Request ==
  TypeOK /\ (listen = "request" => RequestInv) /\ [Next]_vars
    => (listen = "request" => RequestInv)'
<1> SUFFICES ASSUME TypeOK, listen = "request" => RequestInv, [Next]_vars,
                    listen' = "request"
             PROVE  RequestInv'
  OBVIOUS
<1>t. at \in [Halves -> {"idle", "run", "last", "done"}]
  BY DEF TypeOK
<1> USE DEF kinds, network, RequestInv
<1>1. CASE UNCHANGED <<kinds, at, open, returned>>
  BY <1>1
<1>2. CASE RequestLast
  <2>1. at'["lin"] = "last" /\ at'["lout"] = at["lout"]
    BY <1>t, <1>2 DEF RequestLast, Halves
  <2> QED BY <1>2, <2>1 DEF RequestLast
<1>3. CASE RequestSent
  <2>1. at'["lin"] = "done" /\ at'["lout"] = "run" /\ at["lout"] = "idle"
    BY <1>t, <1>3 DEF RequestSent, Halves
  <2> QED BY <1>3, <2>1 DEF RequestSent
<1>4. ASSUME NEW h \in {"lin", "lout"}, ListenHalfEnds(h) PROVE RequestInv'
  <2>1. at'["lin"] = "done" /\ at'["lout"] = "done"
    BY <1>4 DEF ListenHalfEnds, EndWith, Halves
  <2> QED BY <2>1
<1>5. CASE HandlerReturns
  BY <1>5 DEF HandlerReturns
<1>6. ASSUME at'["lin"] = at["lin"], at'["lout"] = at["lout"], UNCHANGED <<kinds, returned>>,
             open \ open' \subseteq ConnectEnds
      PROVE  RequestInv'
  BY <1>6 DEF ConnectEnds
<1>7. CASE PostQuery
  <2>1. at'["lin"] = at["lin"] /\ at'["lout"] = at["lout"] /\ UNCHANGED <<kinds, returned, open>>
    BY <1>t, <1>7 DEF PostQuery, Halves
  <2> QED BY <1>6, <2>1
<1>8. ASSUME NEW h \in {"cin", "cout"}, ConnectHalfEnds(h) PROVE RequestInv'
  <2>1. at'["lin"] = at["lin"] /\ at'["lout"] = at["lout"]
    BY <1>t, <1>8 DEF ConnectHalfEnds, EndWith, Halves
  <2>2. open \ open' \subseteq ConnectEnds /\ UNCHANGED <<kinds, returned>>
    BY <1>8 DEF ConnectHalfEnds, ClosedBy, ConnectEnds
  <2> QED BY <1>6, <2>1, <2>2
<1>9. CASE ConnectReturns
  <2>1. open \ open' \subseteq ConnectEnds /\ UNCHANGED <<kinds, at>>
    BY <1>9 DEF ConnectReturns, ConnectEnds
  <2> QED BY <1>9, <2>1 DEF ConnectReturns, ConnectEnds
<1> QED
  <2>1. \/ PassUp \/ PassDown \/ ListenRead \/ ListenWrite \/ ConnectWrite
        \/ ExecuteStatement \/ ConnectRead \/ AnswerDropped \/ ClientEnds \/ ServerEnds
        \/ UNCHANGED vars
        => UNCHANGED <<kinds, at, open, returned>>
    BY DEF PassUp, PassDown, ListenRead, ListenWrite, ConnectWrite, ExecuteStatement,
           ConnectRead, AnswerDropped, ClientEnds, ServerEnds, vars
  <2> QED BY <1>1, <1>2, <1>3, <1>4, <1>5, <1>7, <1>8, <1>9, <2>1 DEF Next

\* The reply stays where it is.
LEMMA ReplyStays ==
  ASSUME ReplyInv, connect' = connect, client' # "gone" => client # "gone",
         at'["cout"] = at["cout"], at'["cin"] = at["cin"], at'["lout"] = at["lout"],
         "down.w" \in open => "down.w" \in open' \/ at["cout"] = "done",
         holds'["cout"] = holds["cout"], holds'["lout"] = holds["lout"],
         UNCHANGED <<replied, answered>>,
         at["lout"] = "done" => (Lost => Lost')
  PROVE  ReplyInv'
  BY DEF ReplyInv, Running, Empty

\* A chunk that moves from cout to lout or on to the client is still counted.
LEMMA ReplyMoves ==
  ASSUME ReplyInv, at["lout"] # "done",
         UNCHANGED <<kinds, at, open, replied>>,
         Empty("cout") => holds'["cout"] = holds["cout"],
         Len(answered') + Len(holds'["lout"]) + Len(holds'["cout"])
           = Len(answered) + Len(holds["lout"]) + Len(holds["cout"])
  PROVE  ReplyInv'
  BY DEF ReplyInv, Running, Empty, kinds

LEMMA Reply ==
  TypeOK /\ UpInv /\ (Forwarding => RequestInv /\ ReplyInv) /\ [Next]_vars
    => (Forwarding => ReplyInv)'
<1> SUFFICES ASSUME TypeOK, UpInv, Forwarding => RequestInv /\ ReplyInv, [Next]_vars,
                    Forwarding'
             PROVE  ReplyInv'
  OBVIOUS
<1>k. UNCHANGED kinds
  BY DEF Next, vars, PassUp, PassDown, ListenRead, RequestLast, RequestSent, ListenWrite,
         ListenHalfEnds, HandlerReturns, ConnectWrite, PostQuery, ExecuteStatement,
         ConnectRead, AnswerDropped, ConnectHalfEnds, ConnectReturns, ClientEnds, ServerEnds
<1>f. Forwarding /\ RequestInv /\ ReplyInv /\ connect' = connect
  BY <1>k DEF Forwarding, kinds
<1>t. /\ at \in [Halves -> {"idle", "run", "last", "done"}]
      /\ holds \in [Halves -> Seq(Nat)]
  BY DEF TypeOK
<1> USE DEF network
<1>0. ASSUME UNCHANGED <<at, open, holds, served, asked, replied, answered>>,
             client' # "gone" => client # "gone"
      PROVE  ReplyInv'
  BY <1>0, <1>f, ReplyStays DEF Lost
<1>1. CASE PassUp
  <2>1. at["lout"] = "idle"
    BY <1>1, <1>f DEF PassUp, Running, RequestInv
  <2> QED BY <1>1, <1>f, <2>1, PassUpMoves, ReplyStays
<1>2. CASE PassDown
  <2>1. at["lout"] # "done" /\ ~Empty("cout") /\ Empty("lout")
    BY <1>2 DEF PassDown, Running
  <2>2. holds'["lout"] = holds["cout"] /\ holds'["cout"] = <<>> /\ holds["lout"] = <<>>
    BY <1>2, <2>1, PassDownMoves DEF Empty
  <2>3. Len(answered) + Len(holds["cout"]) + 0 = Len(answered) + 0 + Len(holds["cout"])
    BY Lengths
  <2>4. Len(<<>>) = 0
    OBVIOUS
  <2>5. UNCHANGED <<kinds, at, open, replied, answered>>
    BY <1>2 DEF PassDown
  <2>6. Len(answered') + Len(holds'["lout"]) + Len(holds'["cout"])
           = Len(answered) + Len(holds["lout"]) + Len(holds["cout"])
    BY <2>2, <2>3, <2>4, <2>5, Zenon
  <2> QED BY <1>f, <2>1, <2>5, <2>6, ReplyMoves
<1>3. CASE ListenRead \/ RequestLast
  <2>1. at["lout"] = "idle"
    BY <1>3, <1>f DEF ListenRead, RequestLast, RequestInv
  <2>2. /\ holds'["cout"] = holds["cout"] /\ holds'["lout"] = holds["lout"]
        /\ at'["cout"] = at["cout"] /\ at'["cin"] = at["cin"] /\ at'["lout"] = at["lout"]
        /\ UNCHANGED <<open, client, replied, answered>>
    BY <1>3, <1>t DEF ListenRead, RequestLast, Halves
  <2> QED BY <1>f, <2>1, <2>2, ReplyStays
<1>4. CASE RequestSent
  <2>1. at["lout"] = "idle" /\ at'["lout"] = "run"
    BY <1>4, <1>f, <1>t DEF RequestSent, RequestInv, Halves
  <2>2. /\ holds'["cout"] = holds["cout"] /\ holds'["lout"] = holds["lout"]
        /\ at'["cout"] = at["cout"] /\ at'["cin"] = at["cin"]
        /\ open' = open \ {"up.w"} /\ UNCHANGED <<client, replied, answered>>
    BY <1>4, <1>t DEF RequestSent, Halves
  <2> QED BY <1>f, <2>1, <2>2 DEF ReplyInv, Running, Empty
<1>5. CASE ListenWrite
  <2>1. /\ at["lout"] # "done" /\ holds'["lout"] = <<>> /\ holds'["cout"] = holds["cout"]
        /\ answered' = answered \o holds["lout"]
    BY <1>5, <1>t DEF ListenWrite, Running, Halves
  <2>2. Len(answered') = Len(answered) + Len(holds["lout"]) /\ Len(holds'["lout"]) = 0
    BY <2>1 DEF TypeOK, Halves
  <2>3. Len(answered) + Len(holds["lout"]) + 0 + Len(holds["cout"])
          = Len(answered) + Len(holds["lout"]) + Len(holds["cout"])
    BY Lengths
  <2>4. UNCHANGED <<kinds, at, open, replied>>
    BY <1>5 DEF ListenWrite
  <2>5. Len(answered') + Len(holds'["lout"]) + Len(holds'["cout"])
           = Len(answered) + Len(holds["lout"]) + Len(holds["cout"])
    BY <2>1, <2>2, <2>3, Zenon
  <2> QED BY <1>f, <2>1, <2>4, <2>5, ReplyMoves
<1>6. ASSUME NEW h \in {"lin", "lout"}, ListenHalfEnds(h) PROVE ReplyInv'
  <2>1. /\ at'["lout"] = "done" /\ at'["cout"] = at["cout"] /\ at'["cin"] = at["cin"]
        /\ open' = open \ ListenEnds /\ UNCHANGED <<connect, holds, network>>
    BY <1>6, <1>f, <1>t DEF ListenHalfEnds, EndWith, Forwarding, Halves, kinds
  <2>2. client = "gone" \/ Lost \/ (at["cout"] = "done" /\ Len(answered) = replied)
    <3>1. CASE h = "lin"
      <4>1. {"down.r", "client"} \subseteq open
        BY <1>6, <1>f, <3>1 DEF ListenHalfEnds, ListenOver, RequestInv
      <4>2. CASE Empty("lin")
        BY <1>6, <1>f, <3>1, <4>1, <4>2 DEF ListenHalfEnds, ListenOver, Forwarding
      <4>3. CASE ~Empty("lin")
        <5>1. holds["lin"] \in Seq(Nat) /\ holds["lin"] # <<>>
          BY <1>t, <4>3 DEF Empty, Halves
        <5>2. Len(holds["lin"]) > 0
          BY <5>1
        <5>3. \A a, b, c, n \in Nat : a + b + c <= n /\ c > 0 => a + b < n
          OBVIOUS
        <5>4. Len(served) + Len(holds["cin"]) < asked
          BY <5>2, <5>3, Lengths DEF UpInv
        <5> QED BY <5>4 DEF Lost
      <4> QED BY <4>2, <4>3
    <3>2. CASE h = "lout"
      <4>1. at["lout"] = "run" /\ {"down.r", "client"} \subseteq open
        BY <1>6, <1>f, <3>2 DEF ListenHalfEnds, ListenOver, RequestInv
      <4>2. CASE Empty("lout")
        <5>1. "down.w" \notin open
          BY <1>6, <3>2, <4>1, <4>2 DEF ListenHalfEnds, ListenOver, DownIsOpen
        <5>2. /\ at["cout"] = "done" /\ Empty("cout")
              /\ replied = Len(answered) + Len(holds["lout"]) + Len(holds["cout"])
          BY <1>f, <4>1, <5>1 DEF ReplyInv
        <5>3. Len(holds["lout"]) = 0 /\ Len(holds["cout"]) = 0
          BY <4>2, <5>2 DEF Empty
        <5>4. \A n \in Nat : n + 0 + 0 = n
          OBVIOUS
        <5>5. replied = Len(answered)
          BY <5>2, <5>3, <5>4, Lengths, Zenon
        <5> QED BY <5>2, <5>5
      <4>3. CASE ~Empty("lout")
        BY <1>6, <3>2, <4>1, <4>3 DEF ListenHalfEnds, ListenOver
      <4> QED BY <4>2, <4>3
    <3> QED BY <3>1, <3>2
  <2> QED BY <1>f, <2>1, <2>2 DEF ReplyInv, Running, Empty, Lost, ListenEnds
<1>7. CASE HandlerReturns
  BY <1>0, <1>7 DEF HandlerReturns
<1>8. ASSUME served' = served \o holds["cin"],
             holds' = [holds EXCEPT !["cin"] = <<>>], asked' = asked
      PROVE  /\ Lost => Lost'
             /\ holds'["cout"] = holds["cout"] /\ holds'["lout"] = holds["lout"]
  <2>1. /\ holds'["cin"] = <<>>
        /\ holds'["cout"] = holds["cout"] /\ holds'["lout"] = holds["lout"]
    BY <1>8, <1>t DEF Halves
  <2>2. Len(served') = Len(served) + Len(holds["cin"]) /\ Len(holds'["cin"]) = 0
    BY <1>8, <2>1 DEF TypeOK, Halves
  <2>3. \A a, b \in Nat : (a + b) + 0 = a + b
    OBVIOUS
  <2>4. Len(served') + Len(holds'["cin"]) = Len(served) + Len(holds["cin"])
    <3>1. (Len(served) + Len(holds["cin"])) + 0 = Len(served) + Len(holds["cin"])
      BY <2>3, Lengths
    <3> QED BY <2>2, <3>1, Zenon
  <2> QED BY <1>8, <2>1, <2>4 DEF Lost
<1>9. CASE ConnectWrite
  <2>1. UNCHANGED <<at, open, client, replied, answered>>
    BY <1>9 DEF ConnectWrite
  <2>2. /\ Lost => Lost'
        /\ holds'["cout"] = holds["cout"] /\ holds'["lout"] = holds["lout"]
    BY <1>8, <1>9 DEF ConnectWrite
  <2> QED BY <1>f, <2>1, <2>2, ReplyStays
<1>10. CASE PostQuery
  <2>1. /\ at["cout"] = "idle" /\ at'["cin"] = "done" /\ at'["cout"] = "run"
        /\ at'["lout"] = at["lout"] /\ UNCHANGED <<open, client, replied, answered>>
    BY <1>10, <1>f, <1>t DEF PostQuery, ReplyInv, Halves
  <2>2. /\ Lost => Lost'
        /\ holds'["cout"] = holds["cout"] /\ holds'["lout"] = holds["lout"]
    BY <1>8, <1>10 DEF PostQuery
  <2> QED BY <1>f, <2>1, <2>2 DEF ReplyInv, Running, Empty
<1>11. CASE ExecuteStatement \/ AnswerDropped
  BY <1>11, <1>f DEF ExecuteStatement, AnswerDropped, Careless, Forwarding
<1>12. CASE ConnectRead
  <2>1. /\ at["cout"] # "done" /\ at["cout"] # "idle" /\ holds["cout"] = <<>>
        /\ holds'["cout"] = <<replied + 1>> /\ holds'["lout"] = holds["lout"]
        /\ holds'["cin"] = holds["cin"] /\ replied' = replied + 1
        /\ UNCHANGED <<at, open, client, asked, served, answered>>
    BY <1>12, <1>t DEF ConnectRead, Running, Empty, Halves
  <2>2. Len(holds["cout"]) = 0 /\ Len(holds'["cout"]) = 1
    BY <2>1
  <2>3. \A a, b, n \in Nat : n = a + b + 0 => n + 1 = a + b + 1
    OBVIOUS
  <2>4. at["lout"] # "done" =>
          replied' = Len(answered) + Len(holds["lout"]) + Len(holds'["cout"])
    BY <1>f, <2>1, <2>2, <2>3, Lengths DEF ReplyInv
  <2> QED BY <1>f, <2>1, <2>4 DEF ReplyInv, Lost, Running
<1>13. ASSUME NEW h \in {"cin", "cout"}, ConnectHalfEnds(h) PROVE ReplyInv'
  <2>1. /\ UNCHANGED <<holds, network>> /\ at'["lout"] = at["lout"]
        /\ at'["cin"] = "done" \/ (connect = "post" /\ at'["cin"] = at["cin"])
        /\ at'["cout"] = at["cout"] \/ at'["cout"] = "done"
    BY <1>13, <1>f, <1>t DEF ConnectHalfEnds, EndWith, Forwarding, Halves
  <2>2. open' = open \/ open' = open \ {"up.r"}
    BY <1>13, <1>f DEF ConnectHalfEnds, ClosedBy, Forwarding
  <2>3. at["cout"] # "done" /\ at'["cout"] = "done"
          => at["lout"] = "done" \/ Empty("cout")
    <3>1. CASE h = "cin" /\ connect = "graphql"
      BY <1>13, <1>f, <3>1 DEF ConnectHalfEnds, ConnectOver, ReplyInv, Running
    <3>2. CASE h = "cin" /\ connect = "post"
      BY <1>13, <1>t, <3>2 DEF ConnectHalfEnds, EndWith, Halves
    <3>3. CASE h = "cout"
      <4>1. at["cout"] = "run" /\ (Empty("cout") \/ ~DownIsOpen)
        BY <1>13, <3>3 DEF ConnectHalfEnds, ConnectOver
      <4> QED BY <1>f, <4>1 DEF ReplyInv, RequestInv, DownIsOpen
    <3> QED BY <1>f, <3>1, <3>2, <3>3 DEF Forwarding
  <2> QED BY <1>f, <2>1, <2>2, <2>3 DEF ReplyInv, Lost, Running, Empty
<1>14. CASE ConnectReturns
  <2>1. at["cout"] = "done" /\ UNCHANGED <<at, holds, network>>
    BY <1>14 DEF ConnectReturns, ConnectIsDone
  <2> QED BY <1>f, <2>1, ReplyStays DEF Lost
<1>15. CASE ClientEnds
  BY <1>0, <1>15 DEF ClientEnds
<1>16. CASE ServerEnds
  BY <1>0, <1>16 DEF ServerEnds
<1>17. CASE UNCHANGED vars
  BY <1>0, <1>17 DEF vars
<1> QED BY <1>1, <1>2, <1>3, <1>4, <1>5, <1>6, <1>7, <1>9, <1>10, <1>11, <1>12, <1>13,
           <1>14, <1>15, <1>16, <1>17 DEF Next

\* A request that an http server was given as a whole is answered as a whole.
THEOREM ProxyReplyIsWhole == Spec => []ReplyIsWhole
<1>1. Init => IInv
  <2> SUFFICES ASSUME Init PROVE IInv
    OBVIOUS
  <2>1. TypeInv /\ UpInv /\ DownInv
    BY TypingInit, OrderInit
  <2>2. listen = "request" => RequestInv
    BY DEF Init, InitAt, RequestInv, ListenEnds, ConnectEnds, Halves
  <2>3. /\ connect = "graphql" => at["cout"] = "idle"
        /\ "down.w" \in open
        /\ Forwarding => at["cout"] # "done"
        /\ at["lout"] # "done" /\ Empty("cout")
    BY DEF Init, InitAt, ConnectEnds, Halves, Forwarding, Answering, Empty
  <2>4. replied = Len(answered) + Len(holds["lout"]) + Len(holds["cout"])
    <3>1. /\ answered = <<>> /\ holds["lout"] = <<>> /\ holds["cout"] = <<>>
          /\ replied = 0
      BY DEF Init, Halves
    <3> QED BY <3>1
  <2> QED BY <2>1, <2>2, <2>3, <2>4 DEF IInv, ReplyInv
<1>2. IInv /\ [Next]_vars => IInv'
  <2> SUFFICES ASSUME IInv, [Next]_vars PROVE IInv'
    OBVIOUS
  <2>1. TypeInv /\ TypeOK /\ UpInv /\ DownInv
    BY DEF IInv, TypeInv
  <2>2. (TypeInv /\ UpInv /\ DownInv)'
    BY <2>1, Typing, Order
  <2>3. (listen = "request" => RequestInv)'
    BY <2>1, Request DEF IInv
  <2>4. (Forwarding => ReplyInv)'
    BY <2>1, Reply DEF IInv, Forwarding
  <2> QED BY <2>2, <2>3, <2>4 DEF IInv
<1>3. IInv => ReplyIsWhole
  <2> SUFFICES ASSUME IInv, Forwarding, "listen" \in returned, client = "half",
                      Len(served) = asked
               PROVE  Len(answered) = replied
    BY DEF ReplyIsWhole, Forwarding
  <2>1. ReplyInv /\ RequestInv /\ TypeOK
    BY DEF IInv, Forwarding, TypeInv
  <2>2. ~Lost
    <3>1. \A a, b \in Nat : ~(a + b < a)
      OBVIOUS
    <3> QED BY <2>1, <3>1, Lengths DEF Lost
  <2> QED BY <2>1, <2>2 DEF ReplyInv, RequestInv
<1> QED BY <1>1, <1>2, <1>3, PTL DEF Spec

-----------------------------------------------------------------------------
(* Nobody waits for ever. *)

\* Where the halves of each kind can be, and what is closed by then.
Shut(ends) == \A e \in ends : e \notin open

ListenPlaces ==
  /\ at["lin"] \in {"run", "last", "done"} /\ at["lout"] \in {"idle", "run", "done"}
  /\ listen = "copies" => at["lin"] # "last" /\ at["lout"] # "idle"
  /\ listen = "request" => (at["lout"] = "idle" <=> at["lin"] # "done")
  /\ listen = "copies" /\ at["lin"] = "done" => Shut(ListenEnds)
  /\ at["lout"] = "done" => Shut(ListenEnds)
  /\ at["lin"] = "done" => "up.w" \notin open
  /\ "listen" \in returned => at["lin"] = "done" /\ at["lout"] = "done"

ConnectPlaces ==
  /\ at["cin"] \in {"run", "done"} /\ at["cout"] \in {"idle", "run", "done"}
  /\ connect \notin Reading => at["cin"] = "done"
  /\ connect \in {"notify", "fails"} => at["cout"] = "done"
  /\ connect # "graphql" => at["cout"] # "idle"
  /\ connect = "graphql" => (at["cout"] = "idle" <=> at["cin"] = "run")
  /\ connect = "query" => at["cin"] = at["cout"]
  /\ connect = "copies" /\ (at["cin"] = "done" \/ at["cout"] = "done") => Shut(ConnectEnds)
  /\ connect = "post" /\ at["cin"] = "done" => "up.r" \notin open
  /\ connect = "graphql" /\ at["cin"] = "done" => ~UpIsOpen
  /\ "connect" \in returned =>
       /\ ConnectIsDone /\ "down.w" \notin open
       /\ connect \notin {"get", "post", "graphql"} => "server" \notin open

\* The pairs that end: a listener of http needs a Connect that reads, and one of copies a
\* Connect that ends.
ComesToAnEnd ==
  IF listen = "copies" THEN connect # "subscribe" ELSE connect \in {"copies", "post", "graphql"}

\* Who can go on, of those that do without being made to.  These are the guards of the
\* steps that Fairness is about.
PipesRun ==
  \/ UpIsOpen /\ Running("lin") /\ ~Empty("lin") /\ CinReads
  \/ DownIsOpen /\ Running("cout") /\ ~Empty("cout") /\ Running("lout") /\ Empty("lout")

ListenRuns ==
  \/ listen = "request" /\ at["lin"] = "run" /\ Empty("lin") /\ client = "half"
  \/ at["lin"] = "last" /\ (Empty("lin") \/ ~UpIsOpen)
  \/ Running("lout") /\ ~Empty("lout") /\ "client" \in open /\ client # "gone"
  \/ ListenOver("lin") \/ ListenOver("lout")
  \/ at["lin"] = "done" /\ at["lout"] = "done" /\ "listen" \notin returned

ConnectRuns ==
  \/ connect \in {"copies", "post", "notify"} /\ Running("cin") /\ ~Empty("cin") /\ ServerIsThere
  \/ connect = "graphql" /\ Running("cin") /\ ~UpIsOpen /\ ServerIsThere
  \/ connect = "query" /\ Running("cin") /\ ~Empty("cin") /\ Empty("cout")
  \/ connect \in Careless /\ Running("cout") /\ ~Empty("cout") /\ ~DownIsOpen
  \/ ConnectOver("cin") \/ ConnectOver("cout")
  \/ ConnectIsDone /\ "connect" \notin returned
  \/ connect \in {"get", "post", "graphql", "lookup"} /\ server = "up"

SomebodyRuns == PipesRun \/ ListenRuns \/ ConnectRuns

\* While nobody can go on, nothing is owed to anybody.
NobodyWaitsForEver ==
  ComesToAnEnd /\ ~SomebodyRuns =>
    /\ client # "sending" => "listen" \in returned
    /\ "listen" \in returned => \A h \in Halves : at[h] = "done"
    /\ listen = "copies" /\ "connect" \in returned => "listen" \in returned

LEMMA PlacesInit ==
  ASSUME Init
  PROVE  ListenPlaces /\ ConnectPlaces
<1>1. listen \in ListenKinds /\ connect \in ConnectKinds
  BY ProxyAssumption DEF Init, ProxyAssumption
<1>2. /\ at["lin"] = "run"
      /\ at["lout"] = IF listen = "request" THEN "idle" ELSE "run"
      /\ at["cin"] = IF connect \in Reading THEN "run" ELSE "done"
      /\ at["cout"] = IF connect \in Answering THEN "run"
                      ELSE IF connect = "graphql" THEN "idle" ELSE "done"
  BY DEF Init, InitAt, Halves
<1>3. open = ListenEnds \cup ConnectEnds /\ returned = {}
  BY DEF Init
<1>4. ListenPlaces
  BY <1>1, <1>2, <1>3 DEF ListenPlaces, ListenKinds
<1>5. ConnectPlaces
  BY <1>1, <1>2, <1>3 DEF ConnectPlaces, ConnectKinds, Reading, Answering
<1>6. QED
  BY <1>4, <1>5

\* The steps that leave all halves where they are.
LEMMA PlacesStay ==
  ASSUME ListenPlaces, ConnectPlaces, UNCHANGED <<kinds, at, open, returned>>
  PROVE  ListenPlaces' /\ ConnectPlaces'
BY DEF ListenPlaces, ConnectPlaces, Shut, UpIsOpen, ConnectIsDone, kinds

\* The listening side moves, and closes its ends.
LEMMA ListenMoves ==
  ASSUME TypeOK, ListenPlaces, ConnectPlaces,
         \/ RequestLast \/ RequestSent \/ \E h \in {"lin", "lout"} : ListenHalfEnds(h)
  PROVE  ListenPlaces' /\ ConnectPlaces'
<1>1. /\ UNCHANGED <<listen, connect, returned>>
      /\ at'["cin"] = at["cin"] /\ at'["cout"] = at["cout"]
      /\ open' \subseteq open /\ open \ ListenEnds \subseteq open'
  BY DEF RequestLast, RequestSent, ListenHalfEnds, EndWith, TypeOK, Halves, kinds, ListenEnds
<1>2. ConnectPlaces'
  BY <1>1 DEF ConnectPlaces, Shut, UpIsOpen, ConnectIsDone, ListenEnds
<1>3. ListenPlaces'
  <2>1. CASE RequestLast
    BY <2>1 DEF RequestLast, ListenPlaces, Shut, TypeOK, Halves, kinds
  <2>2. CASE RequestSent
    BY <2>2, <1>1 DEF RequestSent, ListenPlaces, Shut, TypeOK, Halves, ListenKinds, ListenEnds
  <2>3. CASE \E h \in {"lin", "lout"} : ListenHalfEnds(h)
    <3>1. PICK h \in {"lin", "lout"} : ListenHalfEnds(h)
      BY <2>3
    <3>2. Shut(ListenEnds)' /\ at[h] = "run"
      BY <3>1 DEF ListenHalfEnds, ListenOver, Shut
    <3>3. \/ listen = "copies" /\ at'["lin"] = "done" /\ at'["lout"] = at["lout"]
          \/ listen = "copies" /\ at'["lin"] = at["lin"] /\ at'["lout"] = "done"
          \/ listen = "request" /\ at'["lin"] = "done" /\ at'["lout"] = "done"
      BY <3>1 DEF ListenHalfEnds, EndWith, TypeOK, ListenKinds, Halves
    <3>4. QED
      BY <1>1, <3>2, <3>3 DEF ListenPlaces, Shut, ListenEnds
  <2>4. QED
    BY <2>1, <2>2, <2>3
<1>4. QED
  BY <1>2, <1>3

LEMMA HandlerMoves ==
  ASSUME ListenPlaces, ConnectPlaces, HandlerReturns
  PROVE  ListenPlaces' /\ ConnectPlaces'
BY DEF HandlerReturns, ListenPlaces, ConnectPlaces, Shut, UpIsOpen, ConnectIsDone, kinds

\* The connecting side moves, and closes its ends.
LEMMA ConnectMoves ==
  ASSUME TypeOK, ListenPlaces, ConnectPlaces,
         \/ PostQuery \/ ConnectReturns \/ \E h \in {"cin", "cout"} : ConnectHalfEnds(h)
  PROVE  ListenPlaces' /\ ConnectPlaces'
<1>1. /\ UNCHANGED <<listen, connect>>
      /\ at'["lin"] = at["lin"] /\ at'["lout"] = at["lout"]
      /\ open' \subseteq open /\ ("listen" \in returned' => "listen" \in returned)
  BY DEF PostQuery, ConnectReturns, ConnectHalfEnds, EndWith, TypeOK, Halves, kinds
<1>2. ListenPlaces'
  BY <1>1 DEF ListenPlaces, Shut
<1>3. ConnectPlaces'
  <2>1. CASE PostQuery
    <3>1. /\ connect = "graphql" /\ at'["cin"] = "done" /\ at'["cout"] = "run"
          /\ ~UpIsOpen /\ UNCHANGED <<open, returned>> /\ at["cin"] = "run"
      BY <2>1 DEF PostQuery, TypeOK, Halves, Running, ConnectPlaces
    <3>2. "connect" \notin returned
      BY <3>1 DEF ConnectPlaces, ConnectIsDone
    <3>3. QED
      BY <1>1, <3>1, <3>2 DEF ConnectPlaces, UpIsOpen, Reading
  <2>2. CASE ConnectReturns
    BY <1>1, <2>2 DEF ConnectReturns, ConnectPlaces, Shut, UpIsOpen, ConnectIsDone
  <2>3. CASE \E h \in {"cin", "cout"} : ConnectHalfEnds(h)
    <3>1. PICK h \in {"cin", "cout"} : ConnectHalfEnds(h)
      BY <2>3
    <3>2. open' = open \ ClosedBy(h) /\ at[h] = "run" /\ returned' = returned
          /\ (connect = "graphql" /\ h = "cin" => ~UpIsOpen)
          /\ (h = "cout" => connect # "query")
      BY <3>1 DEF ConnectHalfEnds, ConnectOver
    <3>3. /\ \A g \in {"cin", "cout"} : at'[g] = at[g] \/ at'[g] = "done"
          /\ at'[h] = "done"
          /\ connect \in {"query", "graphql"} => at'["cin"] = "done" /\ at'["cout"] = "done"
          /\ connect \notin {"query", "graphql"} =>
               \A g \in {"cin", "cout"} : g # h => at'[g] = at[g]
      BY <3>1 DEF ConnectHalfEnds, EndWith, TypeOK, Halves
    <3>4. "connect" \in returned => ConnectIsDone'
      BY <1>1, <3>3 DEF ConnectPlaces, ConnectIsDone
    <3>5. connect = "copies" => Shut(ConnectEnds)'
      BY <3>2 DEF Shut, ClosedBy
    <3>6. connect = "post" /\ h = "cin" => "up.r" \notin open'
      BY <3>2 DEF ClosedBy
    <3>7. UpIsOpen' => UpIsOpen
      BY <1>1 DEF UpIsOpen
    <3>8. QED
      BY <1>1, <3>2, <3>3, <3>4, <3>5, <3>6, <3>7 DEF ConnectPlaces, Shut, Reading
  <2>4. QED
    BY <2>1, <2>2, <2>3
<1>4. QED
  BY <1>2, <1>3

\* Each half is where its kind lets it be.
LEMMA PlacesInvariant == Spec => [](TypeOK /\ ListenPlaces /\ ConnectPlaces)
<1>1. TypeOK /\ ListenPlaces /\ ConnectPlaces /\ [Next]_vars => ListenPlaces' /\ ConnectPlaces'
  <2> SUFFICES ASSUME TypeOK, ListenPlaces, ConnectPlaces, [Next]_vars
               PROVE  ListenPlaces' /\ ConnectPlaces'
    OBVIOUS
  <2>1. CASE \/ PassUp \/ PassDown \/ ListenRead \/ ListenWrite \/ ConnectWrite
             \/ ExecuteStatement \/ ConnectRead \/ AnswerDropped \/ ClientEnds \/ ServerEnds
             \/ UNCHANGED vars
    <3>1. UNCHANGED <<kinds, at, open, returned>>
      BY <2>1 DEF PassUp, PassDown, ListenRead, ListenWrite, ConnectWrite, ExecuteStatement,
         ConnectRead, AnswerDropped, ClientEnds, ServerEnds, vars
    <3>2. QED
      BY <3>1, PlacesStay
  <2>2. QED
    BY <2>1, ListenMoves, HandlerMoves, ConnectMoves DEF Next
<1>2. QED
  BY <1>1, PlacesInit, ProxyTypeCorrect, PTL DEF Spec

\* A half that has something to write to the network, or may look, goes on.
LEMMA LoutRuns ==
  ASSUME TypeOK, at["lout"] = "run", ~Empty("lout") \/ ~DownIsOpen
  PROVE  ListenRuns
BY DEF ListenRuns, ListenOver, Running

LEMMA CinRuns ==
  ASSUME connect \in {"copies", "post", "notify"}, at["cin"] = "run", ~Empty("cin")
  PROVE  ConnectRuns
BY DEF ConnectRuns, ConnectOver, Running

\* While nobody can go on, a Connect that has not come to its end reads the pipe.
LEMMA UpIsRead ==
  ASSUME TypeOK, ListenPlaces, ConnectPlaces, ~SomebodyRuns, UpIsOpen, connect # "subscribe",
         \/ connect \in {"copies", "post", "graphql"}
         \/ DownIsOpen /\ at["lout"] = "run" /\ Empty("lout")
  PROVE  CinReads
<1>1. connect \in ConnectKinds
  BY DEF TypeOK
<1>2. CASE connect \in {"copies", "post"}
  <2>1. at["cin"] = "run"
    BY <1>2 DEF ConnectPlaces, UpIsOpen, Shut, ConnectEnds
  <2>2. Empty("cin")
    BY <1>2, <2>1, CinRuns DEF SomebodyRuns
  <2>3. QED
    BY <1>2, <2>1, <2>2 DEF CinReads, Running
<1>3. CASE connect = "graphql"
  BY <1>3 DEF ConnectPlaces, CinReads, Running
<1>4. CASE connect \notin {"copies", "post", "graphql"}
  <2>1. "connect" \notin returned /\ ~ConnectIsDone
    BY <1>4 DEF ConnectPlaces, DownIsOpen, SomebodyRuns, ConnectRuns
  <2>2. Running("cout") => Empty("cout")
    BY <1>4 DEF SomebodyRuns, PipesRun, Running
  <2>3. CASE connect \in {"get", "lookup", "fails"}
    <3>1. at["cin"] = "done" /\ at["cout"] = "run" /\ connect # "fails"
      BY <2>1, <2>3 DEF ConnectPlaces, Reading, ConnectIsDone
    <3>2. ~ServerIsThere
      BY <2>3, <3>1 DEF SomebodyRuns, ConnectRuns, ServerIsThere
    <3>3. ConnectOver("cout")
      BY <2>2, <2>3, <3>1, <3>2 DEF ConnectOver, Running
    <3>4. QED
      BY <3>3 DEF SomebodyRuns, ConnectRuns
  <2>4. CASE connect = "query"
    <3>1. at["cin"] = "run" /\ at["cout"] = "run" /\ Empty("cout")
      BY <2>1, <2>2, <2>4 DEF ConnectPlaces, ConnectIsDone, Running
    <3>2. Empty("cin")
      BY <2>4, <3>1 DEF SomebodyRuns, ConnectRuns, Running
    <3>3. QED
      BY <3>1, <3>2 DEF CinReads, Running
  <2>5. CASE connect = "notify"
    <3>1. at["cin"] = "run"
      BY <2>1, <2>5 DEF ConnectPlaces, ConnectIsDone
    <3>2. Empty("cin")
      BY <2>5, <3>1, CinRuns DEF SomebodyRuns
    <3>3. QED
      BY <2>5, <3>1, <3>2 DEF CinReads, Running
  <2>6. QED
    BY <1>1, <1>4, <2>3, <2>4, <2>5 DEF ConnectKinds
<1>5. QED
  BY <1>2, <1>3, <1>4

\* Of the two copies of a listener, the second to end finds the pipes closed.
LEMMA CopiesEnd ==
  ASSUME TypeOK, ListenPlaces, ~SomebodyRuns, listen = "copies",
         at["lin"] = "done" \/ at["lout"] = "done" \/ ~DownIsOpen
  PROVE  "listen" \in returned
<1>1. Shut(ListenEnds) \/ at["lout"] = "run"
  BY DEF ListenPlaces
<1>2. at["lout"] = "done"
  <2>1. SUFFICES ASSUME at["lout"] # "done"
                 PROVE  FALSE
    OBVIOUS
  <2>2. at["lout"] = "run"
    BY <2>1 DEF ListenPlaces
  <2>3. ~DownIsOpen
    BY <2>1 DEF ListenPlaces, Shut, ListenEnds, DownIsOpen
  <2>4. QED
    BY <2>2, <2>3, LoutRuns DEF SomebodyRuns
<1>3. Shut(ListenEnds)
  BY <1>2 DEF ListenPlaces
<1>4. at["lin"] = "done"
  <2>1. SUFFICES ASSUME at["lin"] = "run"
                 PROVE  FALSE
    BY DEF ListenPlaces
  <2>2. ListenOver("lin")
    BY <1>3, <2>1 DEF ListenOver, Shut, ListenEnds, UpIsOpen
  <2>3. QED
    BY <2>2 DEF SomebodyRuns, ListenRuns
<1>5. QED
  BY <1>2, <1>4 DEF SomebodyRuns, ListenRuns

\* A listener whose client has nothing more to send has returned.
LEMMA CopiesReturn ==
  ASSUME TypeOK, ListenPlaces, ConnectPlaces, ~SomebodyRuns, listen = "copies",
         connect # "subscribe", client # "sending"
  PROVE  "listen" \in returned
<1>1. SUFFICES ASSUME "listen" \notin returned
               PROVE  FALSE
  OBVIOUS
<1>2. at["lin"] = "run" /\ at["lout"] = "run" /\ DownIsOpen
  BY <1>1, CopiesEnd DEF ListenPlaces
<1>3. Empty("lout")
  BY <1>2, LoutRuns DEF SomebodyRuns
<1>4. ~ListenOver("lin")
  BY DEF SomebodyRuns, ListenRuns
<1>5. ~Empty("lin") /\ UpIsOpen
  BY <1>2, <1>4 DEF ListenOver, TypeOK
<1>6. CinReads
  BY <1>2, <1>3, <1>5, UpIsRead
<1>7. QED
  BY <1>2, <1>5, <1>6 DEF SomebodyRuns, PipesRun, Running

LEMMA RequestReturns ==
  ASSUME TypeOK, ListenPlaces, ConnectPlaces, ~SomebodyRuns, listen = "request",
         connect \in {"copies", "post", "graphql"}, client # "sending"
  PROVE  "listen" \in returned
<1>1. SUFFICES ASSUME "listen" \notin returned
               PROVE  FALSE
  OBVIOUS
<1>2. at["lin"] = "done"
  <2>1. SUFFICES ASSUME at["lin"] \in {"run", "last"}
                 PROVE  FALSE
    BY DEF ListenPlaces
  <2>2. ~Empty("lin") /\ UpIsOpen
    BY <2>1 DEF SomebodyRuns, ListenRuns, ListenOver, TypeOK
  <2>3. CinReads
    BY <2>2, UpIsRead
  <2>4. QED
    BY <2>1, <2>2, <2>3 DEF SomebodyRuns, PipesRun, Running
<1>3. at["lout"] = "run" /\ "up.w" \notin open
  BY <1>1, <1>2 DEF ListenPlaces, SomebodyRuns, ListenRuns
<1>4. Empty("lout") /\ DownIsOpen
  BY <1>3, LoutRuns DEF SomebodyRuns
<1>5. "connect" \notin returned /\ ~ConnectIsDone
  BY <1>4 DEF ConnectPlaces, DownIsOpen, SomebodyRuns, ConnectRuns
<1>6. ~UpIsOpen
  BY <1>3 DEF UpIsOpen
<1>7. Running("cout") => Empty("cout")
  BY <1>3, <1>4 DEF SomebodyRuns, PipesRun, Running
<1>8. CASE connect = "copies"
  <2>1. at["cin"] = "run"
    BY <1>4, <1>8 DEF ConnectPlaces, Shut, ConnectEnds, DownIsOpen
  <2>2. ~Empty("cin")
    BY <1>6, <1>8, <2>1 DEF SomebodyRuns, ConnectRuns, ConnectOver
  <2>3. QED
    BY <1>8, <2>1, <2>2, CinRuns DEF SomebodyRuns
<1>9. CASE connect = "post"
  <2>1. at["cout"] = "run" /\ ~ServerIsThere
    BY <1>5, <1>9 DEF ConnectPlaces, ConnectIsDone, SomebodyRuns, ConnectRuns, ServerIsThere
  <2>2. ConnectOver("cout")
    BY <1>7, <1>9, <2>1 DEF ConnectOver, Running
  <2>3. QED
    BY <2>2 DEF SomebodyRuns, ConnectRuns
<1>10. CASE connect = "graphql"
  <2>1. ~ServerIsThere
    BY <1>10 DEF SomebodyRuns, ConnectRuns, ServerIsThere
  <2>2. ConnectOver("cin") \/ ConnectOver("cout")
    BY <1>5, <1>6, <1>7, <1>10, <2>1 DEF ConnectOver, Running, ConnectPlaces, ConnectIsDone
  <2>3. QED
    BY <2>2 DEF SomebodyRuns, ConnectRuns
<1>11. QED
  BY <1>8, <1>9, <1>10

\* When the handler has closed its ends, no half of Connect stays in a read or a write.
LEMMA ConnectEndsToo ==
  ASSUME TypeOK, ListenPlaces, ConnectPlaces, ~SomebodyRuns, connect # "subscribe",
         "listen" \in returned
  PROVE  \A h \in Halves : at[h] = "done"
<1>1. at["lin"] = "done" /\ at["lout"] = "done" /\ ~UpIsOpen /\ ~DownIsOpen
  BY DEF ListenPlaces, Shut, ListenEnds, UpIsOpen, DownIsOpen
<1>2. connect \in ConnectKinds
  BY DEF TypeOK
<1>3. at["cin"] = "done"
  <2>1. SUFFICES ASSUME at["cin"] = "run"
                 PROVE  FALSE
    BY DEF ConnectPlaces
  <2>2. CASE connect \in {"copies", "post", "notify"}
    <3>1. Empty("cin")
      BY <2>1, <2>2, CinRuns DEF SomebodyRuns
    <3>2. ConnectOver("cin")
      BY <1>1, <2>1, <2>2, <3>1 DEF ConnectOver
    <3>3. QED
      BY <3>2 DEF SomebodyRuns, ConnectRuns
  <2>3. CASE connect = "graphql"
    BY <1>1, <2>1, <2>3 DEF SomebodyRuns, ConnectRuns, ConnectOver, Running
  <2>4. CASE connect = "query"
    <3>1. at["cout"] = "run" /\ Empty("cout")
      BY <1>1, <2>1, <2>4 DEF ConnectPlaces, SomebodyRuns, ConnectRuns, Careless, Running
    <3>2. Empty("cin")
      BY <2>1, <2>4, <3>1 DEF SomebodyRuns, ConnectRuns, Running
    <3>3. QED
      BY <1>1, <2>1, <2>4, <3>1, <3>2 DEF SomebodyRuns, ConnectRuns, ConnectOver
  <2>5. QED
    BY <1>2, <2>1, <2>2, <2>3, <2>4 DEF ConnectPlaces, Reading, ConnectKinds
<1>4. at["cout"] = "done"
  <2>1. SUFFICES ASSUME at["cout"] = "run"
                 PROVE  FALSE
    BY <1>3 DEF ConnectPlaces
  <2>2. Empty("cout") \/ connect = "query"
    <3>1. SUFFICES ASSUME ~Empty("cout"), connect # "query"
                   PROVE  FALSE
      OBVIOUS
    <3>2. connect \notin Careless
      BY <1>1, <2>1, <3>1 DEF SomebodyRuns, ConnectRuns, Running
    <3>3. ConnectOver("cout")
      BY <1>1, <2>1, <3>1, <3>2 DEF ConnectOver
    <3>4. QED
      BY <3>3 DEF SomebodyRuns, ConnectRuns
  <2>3. connect \in {"copies", "get", "post", "graphql", "lookup"}
    BY <1>2, <1>3, <2>1 DEF ConnectPlaces, ConnectKinds
  <2>4. ~ServerIsThere
    <3>1. CASE connect = "copies"
      BY <1>3, <3>1 DEF ConnectPlaces, Shut, ConnectEnds, ServerIsThere
    <3>2. CASE connect # "copies"
      BY <2>3, <3>2 DEF SomebodyRuns, ConnectRuns, ServerIsThere
    <3>3. QED
      BY <3>1, <3>2
  <2>5. ConnectOver("cout")
    BY <2>1, <2>2, <2>3, <2>4 DEF ConnectOver
  <2>6. QED
    BY <2>5 DEF SomebodyRuns, ConnectRuns
<1>5. QED
  BY <1>1, <1>3, <1>4 DEF Halves

\* What of ListenerReturns, ConnectReturnsToo and ClientIsTold is no matter of fairness: as
\* long as one of them is still owed, one of the halves can go on, for every pair that comes
\* to an end.  No two halves, on either side of the pipes, wait for each other
\* (proxy.go:17-40, http/listen.go:110-145, http/connect.go:98).
THEOREM ProxyNeverStops == Spec => []NobodyWaitsForEver
<1>1. TypeOK /\ ListenPlaces /\ ConnectPlaces => NobodyWaitsForEver
  <2> SUFFICES ASSUME TypeOK, ListenPlaces, ConnectPlaces, ComesToAnEnd, ~SomebodyRuns
               PROVE  /\ client # "sending" => "listen" \in returned
                      /\ "listen" \in returned => \A h \in Halves : at[h] = "done"
                      /\ listen = "copies" /\ "connect" \in returned => "listen" \in returned
    BY DEF NobodyWaitsForEver
  <2>1. \/ listen = "copies" /\ connect # "subscribe"
        \/ listen = "request" /\ connect \in {"copies", "post", "graphql"}
    BY DEF ComesToAnEnd, TypeOK, ListenKinds
  <2>2. client # "sending" => "listen" \in returned
    BY <2>1, CopiesReturn, RequestReturns
  <2>3. "listen" \in returned => \A h \in Halves : at[h] = "done"
    BY <2>1, ConnectEndsToo
  <2>4. listen = "copies" /\ "connect" \in returned => "listen" \in returned
    BY CopiesEnd DEF ConnectPlaces, DownIsOpen
  <2>5. QED
    BY <2>2, <2>3, <2>4
<1>2. QED
  BY <1>1, PlacesInvariant, PTL

-----------------------------------------------------------------------------
(* No step goes round. *)

\* What is left to do: a chunk has three places to go through, up or down, a half its
\* turns.
Unasked == (MaxRequest + 1) - asked
InLin == Len(holds["lin"])
InCin == Len(holds["cin"])
Unreplied == MaxReply - replied
InCout == Len(holds["cout"])
InLout == Len(holds["lout"])

UpLeft == 3 * Unasked + 2 * InLin + InCin
DownLeft == 3 * Unreplied + 2 * InCout + InLout
ChunksLeft == UpLeft + DownLeft

TurnsOf(place) ==
  CASE place = "run" -> 3 [] place \in {"idle", "last"} -> 4 [] OTHER -> 0

LinLeft == IF at["lin"] = "run" THEN 9 ELSE IF at["lin"] = "last" THEN 8 ELSE 0
LoutLeft == TurnsOf(at["lout"])
CinLeft == TurnsOf(at["cin"])
CoutLeft == TurnsOf(at["cout"])
ClientLeft == CASE client = "sending" -> 2 [] client = "half" -> 1 [] OTHER -> 0
ServerLeft == IF server = "up" THEN 1 ELSE 0
ListenLeft == IF "listen" \in returned THEN 0 ELSE 1
ConnectLeft == IF "connect" \in returned THEN 0 ELSE 1

TurnsLeft ==
  LinLeft + LoutLeft + CinLeft + CoutLeft + ClientLeft + ServerLeft + ListenLeft + ConnectLeft

Left == ChunksLeft + TurnsLeft

LeftShrinks == Left \in Nat /\ Left' < Left

\* The same after a step.
UnaskedNext == (MaxRequest + 1) - asked'
InLinNext == Len(holds'["lin"])
InCinNext == Len(holds'["cin"])
UnrepliedNext == MaxReply - replied'
InCoutNext == Len(holds'["cout"])
InLoutNext == Len(holds'["lout"])

UpNext == 3 * UnaskedNext + 2 * InLinNext + InCinNext
DownNext == 3 * UnrepliedNext + 2 * InCoutNext + InLoutNext
ChunksNext == UpNext + DownNext

LinNext == IF at'["lin"] = "run" THEN 9 ELSE IF at'["lin"] = "last" THEN 8 ELSE 0
LoutNext == TurnsOf(at'["lout"])
CinNext == TurnsOf(at'["cin"])
CoutNext == TurnsOf(at'["cout"])
ClientNext == CASE client' = "sending" -> 2 [] client' = "half" -> 1 [] OTHER -> 0
ServerNext == IF server' = "up" THEN 1 ELSE 0
ListenNext == IF "listen" \in returned' THEN 0 ELSE 1
ConnectNext == IF "connect" \in returned' THEN 0 ELSE 1

TurnsNext ==
  LinNext + LoutNext + CinNext + CoutNext + ClientNext + ServerNext + ListenNext + ConnectNext

LEMMA LeftNext == Left' = ChunksNext + TurnsNext
BY DEF Left, ChunksLeft, ChunksNext, UpLeft, UpNext, DownLeft, DownNext, Unasked, UnaskedNext,
       InLin, InLinNext, InCin, InCinNext,
       Unreplied, UnrepliedNext, InCout, InCoutNext, InLout, InLoutNext, TurnsLeft, TurnsNext,
       TurnsOf, LinLeft, LinNext, LoutLeft, LoutNext, CinLeft, CinNext, CoutLeft, CoutNext,
       ClientLeft, ClientNext, ServerLeft, ServerNext, ListenLeft, ListenNext, ConnectLeft,
       ConnectNext

\* The counts are numbers.
LEMMA Counts ==
  ASSUME TypeOK
  PROVE  /\ Unasked \in Nat /\ InLin \in Nat /\ InCin \in Nat
         /\ Unreplied \in Nat /\ InCout \in Nat /\ InLout \in Nat
<1>1. Unasked \in Nat /\ Unreplied \in Nat
  BY ProxyAssumption DEF ProxyAssumption, TypeOK, Unasked, Unreplied
<1>2. InLin \in Nat /\ InCin \in Nat /\ InCout \in Nat /\ InLout \in Nat
  BY DEF TypeOK, Halves, InLin, InCin, InCout, InLout
<1>3. QED
  BY <1>1, <1>2

LEMMA CountsNext ==
  ASSUME TypeOK'
  PROVE  /\ UnaskedNext \in Nat /\ InLinNext \in Nat /\ InCinNext \in Nat
         /\ UnrepliedNext \in Nat /\ InCoutNext \in Nat /\ InLoutNext \in Nat
<1>1. UnaskedNext \in Nat /\ UnrepliedNext \in Nat
  <2>1. /\ \A n \in 0..MaxRequest + 1 : (MaxRequest + 1) - n \in Nat
        /\ \A n \in 0..MaxReply : MaxReply - n \in Nat
    BY ProxyAssumption DEF ProxyAssumption
  <2>2. asked' \in 0..MaxRequest + 1 /\ replied' \in 0..MaxReply
    BY DEF TypeOK
  <2>3. QED
    BY <2>1, <2>2 DEF UnaskedNext, UnrepliedNext
<1>2. InLinNext \in Nat /\ InCinNext \in Nat /\ InCoutNext \in Nat /\ InLoutNext \in Nat
  BY DEF TypeOK, Halves, InLinNext, InCinNext, InCoutNext, InLoutNext
<1>3. QED
  BY <1>1, <1>2

\* What is left of the way up, and of the way down.
LEMMA Ways ==
  ASSUME TypeOK, TypeOK'
  PROVE  UpLeft \in Nat /\ DownLeft \in Nat /\ UpNext \in Nat /\ DownNext \in Nat
BY Counts, CountsNext DEF UpLeft, DownLeft, UpNext, DownNext

LEMMA UpStaysLeft ==
  ASSUME asked' = asked, holds'["lin"] = holds["lin"], holds'["cin"] = holds["cin"]
  PROVE  UpNext = UpLeft
BY DEF UpNext, UpLeft, Unasked, UnaskedNext, InLin, InLinNext, InCin, InCinNext

LEMMA DownStaysLeft ==
  ASSUME replied' = replied, holds'["cout"] = holds["cout"], holds'["lout"] = holds["lout"]
  PROVE  DownNext = DownLeft
BY DEF DownNext, DownLeft, Unreplied, UnrepliedNext, InCout, InCoutNext, InLout, InLoutNext

\* The turns too.
LEMMA TurnsNat ==
  ASSUME NEW place
  PROVE  TurnsOf(place) \in Nat
BY DEF TurnsOf

LEMMA Turns ==
  /\ LinLeft \in Nat /\ LoutLeft \in Nat /\ CinLeft \in Nat /\ CoutLeft \in Nat
  /\ ClientLeft \in Nat /\ ServerLeft \in Nat /\ ListenLeft \in Nat /\ ConnectLeft \in Nat
  /\ LinNext \in Nat /\ LoutNext \in Nat /\ CinNext \in Nat /\ CoutNext \in Nat
  /\ ClientNext \in Nat /\ ServerNext \in Nat /\ ListenNext \in Nat /\ ConnectNext \in Nat
<1>1. /\ LoutLeft \in Nat /\ CinLeft \in Nat /\ CoutLeft \in Nat
      /\ LoutNext \in Nat /\ CinNext \in Nat /\ CoutNext \in Nat
  BY TurnsNat DEF LoutLeft, CinLeft, CoutLeft, LoutNext, CinNext, CoutNext
<1>2. /\ LinLeft \in Nat /\ ClientLeft \in Nat /\ ServerLeft \in Nat /\ ListenLeft \in Nat
      /\ ConnectLeft \in Nat
  BY DEF LinLeft, ClientLeft, ServerLeft, ListenLeft, ConnectLeft
<1>3. /\ LinNext \in Nat /\ ClientNext \in Nat /\ ServerNext \in Nat /\ ListenNext \in Nat
      /\ ConnectNext \in Nat
  BY DEF LinNext, ClientNext, ServerNext, ListenNext, ConnectNext
<1>4. QED
  BY <1>1, <1>2, <1>3

\* It is enough to look at the chunks and the turns.
LEMMA Shrinks ==
  ASSUME TypeOK, TypeOK',
         \/ ChunksNext < ChunksLeft /\ TurnsNext <= TurnsLeft
         \/ ChunksNext <= ChunksLeft /\ TurnsNext < TurnsLeft
  PROVE  LeftShrinks
<1>1. ChunksLeft \in Nat /\ ChunksNext \in Nat
  BY Ways DEF ChunksLeft, ChunksNext
<1>2. TurnsLeft \in Nat /\ TurnsNext \in Nat
  BY Turns DEF TurnsLeft, TurnsNext
<1>3. ChunksNext + TurnsNext < ChunksLeft + TurnsLeft /\ ChunksLeft + TurnsLeft \in Nat
  BY <1>1, <1>2
<1>4. QED
  BY <1>3, LeftNext DEF LeftShrinks, Left

\* The turns are as they were.
LEMMA TurnsStay ==
  ASSUME UNCHANGED <<at, client, server, returned>>
  PROVE  TurnsNext <= TurnsLeft
<1>1. /\ LinNext = LinLeft /\ LoutNext = LoutLeft /\ CinNext = CinLeft /\ CoutNext = CoutLeft
      /\ ClientNext = ClientLeft /\ ServerNext = ServerLeft
      /\ ListenNext = ListenLeft /\ ConnectNext = ConnectLeft
  BY DEF LinLeft, LinNext, LoutLeft, LoutNext, CinLeft, CinNext, CoutLeft, CoutNext, ClientLeft,
     ClientNext, ServerLeft, ServerNext, ListenLeft, ListenNext, ConnectLeft, ConnectNext
<1>2. QED
  BY <1>1, Turns DEF TurnsLeft, TurnsNext

\* The chunks are where they were.
LEMMA ChunksStay ==
  ASSUME TypeOK, TypeOK', UNCHANGED <<asked, replied, holds>>
  PROVE  ChunksNext <= ChunksLeft
<1>1. UpNext = UpLeft /\ DownNext = DownLeft
  BY UpStaysLeft, DownStaysLeft
<1>2. QED
  BY <1>1, Ways DEF ChunksLeft, ChunksNext

\* A half lets go of what it holds.
LEMMA DropShrinks ==
  ASSUME TypeOK, TypeOK', NEW h \in Halves, holds' = [holds EXCEPT ![h] = <<>>],
         UNCHANGED <<asked, replied>>
  PROVE  /\ ChunksNext <= ChunksLeft
         /\ ~Empty(h) => ChunksNext < ChunksLeft
<1>1. /\ Len(holds'[h]) = 0 /\ (~Empty(h) => Len(holds[h]) > 0)
      /\ \A g \in Halves : g # h => holds'[g] = holds[g]
  <2>1. holds[h] \in Seq(Nat)
    BY DEF TypeOK
  <2>2. holds'[h] = <<>> /\ \A g \in Halves : g # h => holds'[g] = holds[g]
    BY DEF TypeOK
  <2>3. QED
    BY <2>1, <2>2 DEF Empty
<1>2. UnaskedNext = Unasked /\ UnrepliedNext = Unreplied
  BY DEF Unasked, UnaskedNext, Unreplied, UnrepliedNext
<1>3. CASE h \in {"lin", "cin"}
  <2>1. \/ InLinNext = 0 /\ (~Empty(h) => InLin > 0) /\ InCinNext = InCin
        \/ InCinNext = 0 /\ (~Empty(h) => InCin > 0) /\ InLinNext = InLin
    BY <1>1, <1>3 DEF Halves, InLin, InLinNext, InCin, InCinNext
  <2>2. UpNext <= UpLeft /\ (~Empty(h) => UpNext < UpLeft)
    BY <1>2, <2>1, Counts, CountsNext DEF UpLeft, UpNext
  <2>3. DownNext = DownLeft
    BY <1>1, <1>3, DownStaysLeft DEF Halves
  <2>4. QED
    BY <2>2, <2>3, Ways DEF ChunksLeft, ChunksNext
<1>4. CASE h \in {"cout", "lout"}
  <2>1. \/ InCoutNext = 0 /\ (~Empty(h) => InCout > 0) /\ InLoutNext = InLout
        \/ InLoutNext = 0 /\ (~Empty(h) => InLout > 0) /\ InCoutNext = InCout
    BY <1>1, <1>4 DEF Halves, InCout, InCoutNext, InLout, InLoutNext
  <2>2. DownNext <= DownLeft /\ (~Empty(h) => DownNext < DownLeft)
    BY <1>2, <2>1, Counts, CountsNext DEF DownLeft, DownNext
  <2>3. UpNext = UpLeft
    BY <1>1, <1>4, UpStaysLeft DEF Halves
  <2>4. QED
    BY <2>2, <2>3, Ways DEF ChunksLeft, ChunksNext
<1>5. QED
  BY <1>3, <1>4 DEF Halves

\* A chunk is read from the client, the newline of a request among them.
LEMMA AskShrinks ==
  ASSUME TypeOK, TypeOK', asked' = asked + 1, holds["lin"] = <<>>,
         holds' = [holds EXCEPT !["lin"] = <<asked + 1>>], UNCHANGED replied
  PROVE  ChunksNext < ChunksLeft
<1>1. UnaskedNext + 1 = Unasked
  <2>1. \A m, n \in Nat : (m - (n + 1)) + 1 = m - n
    OBVIOUS
  <2>2. asked \in Nat /\ MaxRequest + 1 \in Nat
    BY ProxyAssumption DEF ProxyAssumption, TypeOK
  <2>3. QED
    BY <2>1, <2>2 DEF Unasked, UnaskedNext
<1>2. InLin = 0 /\ InLinNext = 1 /\ InCinNext = InCin
  BY DEF TypeOK, Halves, InLin, InLinNext, InCin, InCinNext
<1>3. DownNext = DownLeft
  BY DownStaysLeft DEF TypeOK, Halves
<1>4. UpNext < UpLeft
  <2>1. Unasked \in Nat /\ UnaskedNext \in Nat /\ InCin \in Nat
    BY Counts, CountsNext
  <2>2. \A a, b, c \in Nat : a + 1 = b => 3 * a + 2 * 1 + c < 3 * b + 2 * 0 + c
    OBVIOUS
  <2>3. QED
    BY <1>1, <1>2, <2>1, <2>2 DEF UpLeft, UpNext
<1>5. QED
  BY <1>3, <1>4, Ways DEF ChunksLeft, ChunksNext

\* A chunk is read from the server, or is the rows of the statement in cin.
LEMMA ReplyShrinks ==
  ASSUME TypeOK, TypeOK', replied' = replied + 1, holds["cout"] = <<>>,
         holds'["cout"] = <<replied + 1>>, UNCHANGED asked,
         holds'["cin"] = holds["cin"] \/ holds'["cin"] = <<>>,
         holds'["lin"] = holds["lin"], holds'["lout"] = holds["lout"]
  PROVE  ChunksNext < ChunksLeft
<1>1. UnrepliedNext + 1 = Unreplied
  <2>1. \A m, n \in Nat : (m - (n + 1)) + 1 = m - n
    OBVIOUS
  <2>2. replied \in Nat /\ MaxReply \in Nat
    BY ProxyAssumption DEF ProxyAssumption, TypeOK
  <2>3. QED
    BY <2>1, <2>2 DEF Unreplied, UnrepliedNext
<1>2. InCout = 0 /\ InCoutNext = 1 /\ InLoutNext = InLout
  BY DEF InCout, InCoutNext, InLout, InLoutNext
<1>3. UpNext <= UpLeft
  <2>1. UnaskedNext = Unasked /\ InLinNext = InLin /\ (InCinNext = InCin \/ InCinNext = 0)
    BY DEF Unasked, UnaskedNext, InLin, InLinNext, InCin, InCinNext
  <2>2. QED
    BY <2>1, Counts DEF UpLeft, UpNext
<1>4. DownNext < DownLeft
  <2>1. Unreplied \in Nat /\ UnrepliedNext \in Nat /\ InLout \in Nat
    BY Counts, CountsNext
  <2>2. \A a, b, c \in Nat : a + 1 = b => 3 * a + 2 * 1 + c < 3 * b + 2 * 0 + c
    OBVIOUS
  <2>3. QED
    BY <1>1, <1>2, <2>1, <2>2 DEF DownLeft, DownNext
<1>5. QED
  BY <1>3, <1>4, Ways DEF ChunksLeft, ChunksNext

\* A chunk goes through a pipe.
LEMMA PassShrinks ==
  ASSUME TypeOK, TypeOK', PassUp \/ PassDown
  PROVE  ChunksNext < ChunksLeft
<1>1. UNCHANGED <<asked, replied>>
  BY DEF PassUp, PassDown, network
<1>2. CASE PassUp
  <2>1. /\ holds["lin"] \in Seq(Nat) /\ holds["cin"] \in Seq(Nat) /\ holds["lin"] # <<>>
        /\ holds'["lin"] = <<>> /\ holds'["cin"] = holds["cin"] \o holds["lin"]
        /\ holds'["lout"] = holds["lout"] /\ holds'["cout"] = holds["cout"]
    BY <1>2 DEF PassUp, Empty, TypeOK, Halves
  <2>2. /\ Len(holds["lin"]) > 0
        /\ Len(holds["cin"] \o holds["lin"]) = Len(holds["cin"]) + Len(holds["lin"])
    BY <2>1
  <2>3. /\ InLin > 0 /\ InLinNext = 0 /\ InCinNext = InCin + InLin /\ UnaskedNext = Unasked
    BY <1>1, <2>1, <2>2 DEF InLin, InLinNext, InCin, InCinNext, Unasked, UnaskedNext
  <2>4. UpNext < UpLeft
    BY <2>3, Counts, CountsNext DEF UpLeft, UpNext
  <2>5. DownNext = DownLeft
    BY <1>1, <2>1, DownStaysLeft
  <2>6. QED
    BY <2>4, <2>5, Ways DEF ChunksLeft, ChunksNext
<1>3. CASE PassDown
  <2>1. /\ holds["cout"] \in Seq(Nat) /\ holds["cout"] # <<>> /\ holds["lout"] = <<>>
        /\ holds'["cout"] = <<>> /\ holds'["lout"] = holds["cout"]
        /\ holds'["lin"] = holds["lin"] /\ holds'["cin"] = holds["cin"]
    BY <1>3 DEF PassDown, Empty, TypeOK, Halves
  <2>2. Len(holds["cout"]) > 0
    BY <2>1
  <2>3. InCout > 0 /\ InCoutNext = 0 /\ InLout = 0 /\ InLoutNext = InCout
        /\ UnrepliedNext = Unreplied
    BY <1>1, <2>1, <2>2 DEF InCout, InCoutNext, InLout, InLoutNext, Unreplied, UnrepliedNext
  <2>4. DownNext < DownLeft
    BY <2>3, Counts, CountsNext DEF DownLeft, DownNext
  <2>5. UpNext = UpLeft
    BY <1>1, <2>1, UpStaysLeft
  <2>6. QED
    BY <2>4, <2>5, Ways DEF ChunksLeft, ChunksNext
<1>4. QED
  BY <1>2, <1>3

\* The steps that move a chunk and nothing else.
LEMMA MoveShrinks ==
  ASSUME TypeOK, TypeOK',
         \/ ListenRead \/ ListenWrite \/ ConnectWrite \/ ExecuteStatement \/ ConnectRead
         \/ AnswerDropped \/ PassUp \/ PassDown
  PROVE  ChunksNext < ChunksLeft
<1>1. CASE ListenRead
  BY <1>1, AskShrinks DEF ListenRead, Empty
<1>2. CASE ConnectRead
  <2>1. /\ holds'["cout"] = <<replied + 1>> /\ holds["cout"] = <<>>
        /\ \A h \in Halves : h # "cout" => holds'[h] = holds[h]
        /\ replied' = replied + 1 /\ UNCHANGED asked
    BY <1>2 DEF ConnectRead, Empty, TypeOK, Halves
  <2>2. QED
    BY <2>1, ReplyShrinks DEF Halves
<1>3. CASE ExecuteStatement
  <2>1. ~Empty("cin") /\ Empty("cout") /\ UNCHANGED asked
    BY <1>3 DEF ExecuteStatement
  <2>2. CASE replied' = replied + 1
    <3>1. holds' = [holds EXCEPT !["cin"] = <<>>, !["cout"] = <<replied + 1>>]
      <4>1. replied \in Nat
        BY DEF TypeOK
      <4>2. replied' # replied
        BY <2>2, <4>1
      <4>3. QED
        BY <1>3, <4>2 DEF ExecuteStatement
    <3>2. /\ holds'["cout"] = <<replied + 1>> /\ holds'["cin"] = <<>>
          /\ holds'["lin"] = holds["lin"] /\ holds'["lout"] = holds["lout"]
      BY <3>1 DEF TypeOK, Halves
    <3>3. QED
      BY <2>1, <2>2, <3>2, ReplyShrinks DEF Empty
  <2>3. CASE holds' = [holds EXCEPT !["cin"] = <<>>] /\ UNCHANGED replied
    BY <2>1, <2>3, DropShrinks DEF Halves
  <2>4. QED
    BY <1>3, <2>2, <2>3 DEF ExecuteStatement
<1>4. CASE ListenWrite
  BY <1>4, DropShrinks DEF ListenWrite, Halves
<1>5. CASE ConnectWrite
  BY <1>5, DropShrinks DEF ConnectWrite, Halves
<1>6. CASE AnswerDropped
  BY <1>6, DropShrinks DEF AnswerDropped, Halves, network
<1>7. QED
  BY <1>1, <1>2, <1>3, <1>4, <1>5, <1>6, PassShrinks

\* A half goes on to its next place, and its chunks go no way back.
LEMMA TurnShrinks ==
  ASSUME TypeOK, TypeOK', ListenPlaces, ConnectPlaces,
         \/ RequestLast \/ RequestSent \/ PostQuery
         \/ \E h \in {"lin", "lout"} : ListenHalfEnds(h)
         \/ \E h \in {"cin", "cout"} : ConnectHalfEnds(h)
  PROVE  ChunksNext <= ChunksLeft /\ TurnsNext < TurnsLeft
<1>1. /\ UNCHANGED <<client, server, returned>>
      /\ \/ /\ at'["cin"] = at["cin"] /\ at'["cout"] = at["cout"]
            /\ \/ at["lin"] = "run" /\ at'["lin"] = "last" /\ at'["lout"] = at["lout"]
               \/ at["lin"] = "last" /\ at'["lin"] = "done" /\ at'["lout"] = "run"
               \/ at["lin"] = "run" /\ at'["lin"] = "done" /\ at'["lout"] \in {at["lout"], "done"}
               \/ at["lout"] = "run" /\ at'["lout"] = "done" /\ at'["lin"] \in {at["lin"], "done"}
         \/ /\ at'["lin"] = at["lin"] /\ at'["lout"] = at["lout"]
            /\ \/ /\ at["cin"] = "run" /\ at'["cin"] = "done"
                  /\ at["cout"] = "idle" /\ at'["cout"] = "run"
               \/ at["cin"] = "run" /\ at'["cin"] = "done" /\ at'["cout"] \in {at["cout"], "done"}
               \/ at["cout"] = "run" /\ at'["cout"] = "done" /\ at'["cin"] \in {at["cin"], "done"}
  <2>1. CASE RequestLast \/ RequestSent
    BY <2>1 DEF RequestLast, RequestSent, network, TypeOK, Halves
  <2>2. CASE PostQuery
    BY <2>2 DEF PostQuery, ConnectPlaces, Running, TypeOK, Halves
  <2>3. CASE \E h \in {"lin", "lout"} : ListenHalfEnds(h)
    BY <2>3 DEF ListenHalfEnds, ListenOver, EndWith, network, TypeOK, Halves
  <2>4. CASE \E h \in {"cin", "cout"} : ConnectHalfEnds(h)
    BY <2>4 DEF ConnectHalfEnds, ConnectOver, EndWith, network, TypeOK, Halves
  <2>5. QED
    BY <2>1, <2>2, <2>3, <2>4
<1>2. ChunksNext <= ChunksLeft
  <2>1. CASE RequestLast
    <3>1. ChunksNext < ChunksLeft
      BY <2>1, AskShrinks DEF RequestLast, Empty
    <3>2. QED
      BY <3>1, Ways DEF ChunksLeft, ChunksNext
  <2>2. CASE RequestSent
    BY <2>2, DropShrinks DEF RequestSent, Halves, network
  <2>3. CASE PostQuery
    BY <2>3, DropShrinks DEF PostQuery, Halves
  <2>4. CASE UNCHANGED <<asked, replied, holds>>
    BY <2>4, ChunksStay
  <2>5. QED
    BY <2>1, <2>2, <2>3, <2>4 DEF ListenHalfEnds, ConnectHalfEnds, network
<1>3. TurnsNext < TurnsLeft
  <2>1. /\ ClientNext = ClientLeft /\ ServerNext = ServerLeft
        /\ ListenNext = ListenLeft /\ ConnectNext = ConnectLeft
    BY <1>1 DEF ClientLeft, ClientNext, ServerLeft, ServerNext, ListenLeft, ListenNext,
       ConnectLeft, ConnectNext
  <2>2. LinNext + LoutNext <= LinLeft + LoutLeft /\ CinNext + CoutNext <= CinLeft + CoutLeft
    BY <1>1, Turns DEF LinLeft, LinNext, LoutLeft, LoutNext, CinLeft, CinNext, CoutLeft, CoutNext,
       TurnsOf
  <2>3. LinNext + LoutNext < LinLeft + LoutLeft \/ CinNext + CoutNext < CinLeft + CoutLeft
    BY <1>1, Turns DEF LinLeft, LinNext, LoutLeft, LoutNext, CinLeft, CinNext, CoutLeft, CoutNext,
       TurnsOf
  <2>4. QED
    BY <2>1, <2>2, <2>3, Turns DEF TurnsLeft, TurnsNext
<1>4. QED
  BY <1>2, <1>3

\* The client or the server ends, or one of the two handlers returns.
LEMMA EndShrinks ==
  ASSUME TypeOK, TypeOK', ConnectPlaces,
         \/ ClientEnds \/ ServerEnds
         \/ HandlerReturns /\ returned' # returned
         \/ ConnectReturns /\ <<open, returned>>' # <<open, returned>>
  PROVE  ChunksNext <= ChunksLeft /\ TurnsNext < TurnsLeft
<1>1. UNCHANGED <<asked, replied, holds, at>>
  BY DEF ClientEnds, ServerEnds, HandlerReturns, ConnectReturns, network
<1>2. ChunksNext <= ChunksLeft
  BY <1>1, ChunksStay
<1>3. /\ LinNext = LinLeft /\ LoutNext = LoutLeft /\ CinNext = CinLeft /\ CoutNext = CoutLeft
  BY <1>1 DEF LinLeft, LinNext, LoutLeft, LoutNext, CinLeft, CinNext, CoutLeft, CoutNext
<1>4. /\ ClientNext <= ClientLeft /\ ServerNext <= ServerLeft
      /\ ListenNext <= ListenLeft /\ ConnectNext <= ConnectLeft
      /\ \/ ClientNext < ClientLeft \/ ServerNext < ServerLeft
         \/ ListenNext < ListenLeft \/ ConnectNext < ConnectLeft
  <2>1. CASE ClientEnds
    BY <2>1, Turns DEF ClientEnds, TypeOK, ClientLeft, ClientNext, ServerLeft, ServerNext,
       ListenLeft, ListenNext, ConnectLeft, ConnectNext
  <2>2. CASE ServerEnds
    BY <2>2, Turns DEF ServerEnds, ClientLeft, ClientNext, ServerLeft, ServerNext, ListenLeft,
       ListenNext, ConnectLeft, ConnectNext
  <2>3. CASE HandlerReturns /\ returned' # returned
    BY <2>3, Turns DEF HandlerReturns, network, ClientLeft, ClientNext, ServerLeft, ServerNext,
       ListenLeft, ListenNext, ConnectLeft, ConnectNext
  <2>4. CASE ConnectReturns /\ <<open, returned>>' # <<open, returned>>
    <3>1. "connect" \notin returned
      BY <2>4 DEF ConnectReturns, ConnectPlaces
    <3>2. QED
      BY <2>4, <3>1, Turns DEF ConnectReturns, network, ClientLeft, ClientNext, ServerLeft,
         ServerNext, ListenLeft, ListenNext, ConnectLeft, ConnectNext
  <2>5. QED
    BY <2>1, <2>2, <2>3, <2>4
<1>5. TurnsNext < TurnsLeft
  BY <1>3, <1>4, Turns DEF TurnsLeft, TurnsNext
<1>6. QED
  BY <1>2, <1>5

\* Every step leaves less to do, so that a proxied stream takes finitely many: with
\* ProxyNeverStops, whoever waits for a handler or a Connect to return waits for finitely
\* many steps, one of which can always be taken (proxy.go:17-40).
THEOREM ProxyRunsOut == Spec => [][LeftShrinks]_vars
<1>1. /\ TypeOK /\ ListenPlaces /\ ConnectPlaces /\ TypeOK' /\ [Next]_vars
      => [LeftShrinks]_vars
  <2> SUFFICES ASSUME TypeOK, ListenPlaces, ConnectPlaces, TypeOK', Next, vars' # vars
               PROVE  LeftShrinks
    OBVIOUS
  <2>1. CASE \/ ListenRead \/ ListenWrite \/ ConnectWrite \/ ExecuteStatement \/ ConnectRead
             \/ AnswerDropped \/ PassUp \/ PassDown
    <3>1. UNCHANGED <<at, client, server, returned>>
      BY <2>1 DEF ListenRead, ListenWrite, ConnectWrite, ExecuteStatement, ConnectRead,
         AnswerDropped, PassUp, PassDown, network
    <3>2. QED
      BY <2>1, <3>1, MoveShrinks, TurnsStay, Shrinks
  <2>2. CASE \/ RequestLast \/ RequestSent \/ PostQuery
             \/ \E h \in {"lin", "lout"} : ListenHalfEnds(h)
             \/ \E h \in {"cin", "cout"} : ConnectHalfEnds(h)
    BY <2>2, TurnShrinks, Shrinks
  <2>3. CASE ClientEnds \/ ServerEnds
    BY <2>3, EndShrinks, Shrinks
  <2>4. CASE HandlerReturns
    <3>1. returned' # returned
      BY <2>4 DEF HandlerReturns, vars, network, kinds
    <3>2. QED
      BY <2>4, <3>1, EndShrinks, Shrinks
  <2>5. CASE ConnectReturns
    <3>1. <<open, returned>>' # <<open, returned>>
      BY <2>5 DEF ConnectReturns, vars, network, kinds
    <3>2. QED
      BY <2>5, <3>1, EndShrinks, Shrinks
  <2>6. QED
    BY <2>1, <2>2, <2>3, <2>4, <2>5 DEF Next
<1>2. QED
  BY <1>1, PlacesInvariant, ProxyTypeCorrect, PTL DEF Spec
=============================================================================
