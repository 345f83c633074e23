------------------------------ MODULE Broadcast ------------------------------
(***************************************************************************)
(* What the STDIN fanout promises, without its lock, its lists and its     *)
(* wake-up: chunks are sent one after the other to all who have joined.    *)
(* A member reads every chunk sent since it joined, in order, until it     *)
(* leaves, and the slowest member sets the pace: the next chunk is sent    *)
(* only when every member has read the previous one.                       *)
(***************************************************************************)
EXTENDS Naturals, Sequences

CONSTANT Streams

VARIABLES
  sent,    \* chunks sent so far
  member,  \* "no", "yes" or "gone" for each stream
  first,   \* the first chunk the stream is entitled to
  got      \* the chunks the stream has read

broadcastVars == <<sent, member, first, got>>

Init ==
  /\ sent = 0
  /\ member = [s \in Streams |-> "no"]
  /\ first = [s \in Streams |-> 0]
  /\ got = [s \in Streams |-> <<>>]

Members == {s \in Streams : member[s] = "yes"}

\* Number of the chunk the stream reads next.
Awaits(s) == first[s] + Len(got[s])

Join(s) ==
  /\ member[s] = "no"
  /\ member' = [member EXCEPT ![s] = "yes"]
  /\ first' = [first EXCEPT ![s] = sent + 1]
  /\ UNCHANGED <<sent, got>>

Send ==
  /\ \A s \in Members : Awaits(s) = sent + 1
  /\ sent' = sent + 1
  /\ UNCHANGED <<member, first, got>>

Receive(s) ==
  /\ s \in Members /\ Awaits(s) = sent
  /\ got' = [got EXCEPT ![s] = Append(@, sent)]
  /\ UNCHANGED <<sent, member, first>>

\* Hang-ups leave one by one, the end of the input takes several at once.
Leave(S) ==
  /\ member' = [s \in Streams |-> IF s \in S THEN "gone" ELSE member[s]]
  /\ UNCHANGED <<sent, first, got>>

Next ==
  \/ Send
  \/ \E s \in Streams : Join(s) \/ Receive(s)
  \/ \E S \in SUBSET Members : Leave(S)

Spec == Init /\ [][Next]_broadcastVars

\* Every chunk that is sent is read by each member, or the member leaves.
FairSpec == Spec /\ \A s \in Streams : WF_broadcastVars(Receive(s))
=============================================================================
