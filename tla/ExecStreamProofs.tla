-------------------------- MODULE ExecStreamProofs --------------------------
(***************************************************************************)
(* Proofs about ExecStream, for any number of goroutines that close the    *)
(* stream.  What is proved of the Reader rests on every one of them calling*)
(* Stream.Close, which closes the Reader before the Writer: the waiter     *)
(* needs both channels, so the Reader's file is closed by its owner, and   *)
(* its flag set, before cmd.Wait can close the file under it.              *)
(*                                                                         *)
(* The second half is about waiting: for a mutex, for another caller, for  *)
(* the child.  It is what of ClosedStreamIsReaped and OneEndsAllEnd needs  *)
(* no fairness.                                                            *)
(***************************************************************************)
EXTENDS ExecStream, TLAPS

\* Every caller calls Stream.Close and nothing else.
OnlyCloses == Program \in [Callers -> Seq({"Close"})]

Waiting == {"wait", "closing", "done"}

\* Whoever holds the mutex of an end is about to close its file.
LockInv ==
  \A e \in Ends :
    lock[e] # None =>
      /\ ends[lock[e]] # <<>> /\ Head(ends[lock[e]]) = e
      /\ chanClosed[e] /\ ~shut[e]

\* A caller in Stream.Close has the Reader and the Writer to close, or only the
\* Writer when the Reader is closed.
CallInv ==
  \A c \in Callers :
    /\ todo[c] \in Seq({"Close"})
    /\ ends[c] \in {<<>>, <<"Reader", "Writer">>, <<"Writer">>}
    /\ ends[c] = <<"Writer">> => shut["Reader"]

ReaderInv ==
  /\ shut["Reader"] => file["Reader"] = "closed"
  /\ chanClosed["Reader"] => shut["Reader"] \/ lock["Reader"] # None
  /\ chanClosed["Writer"] => shut["Reader"]
  /\ file["Reader"] = "closed" => shut["Reader"] \/ waiter = "done"
  /\ waiter # "Writer" => chanClosed["Writer"]
  /\ ReaderClosedOnce

CloseInv == LockInv /\ CallInv /\ ReaderInv

\* The waiter has received from both channels before anything is signalled.
SignalInv ==
  /\ waiter # "Writer" => chanClosed["Writer"]
  /\ waiter \in Waiting => chanClosed["Reader"]
  /\ killer # "unborn" => waiter \in Waiting
  /\ killer = "unborn" => signals = {}
  /\ killer = "term" => signals = {}
  /\ killer = "kill" => "TERM" \in signals \/ child = "reaped"
  /\ "KILL" \in signals => "TERM" \in signals

-----------------------------------------------------------------------------
(* Type correctness. *)

\* Taking the head off a list of calls or ends leaves a list of the same kind.
LEMMA TailType ==
  ASSUME NEW S, NEW q \in Seq(S), q # <<>>
  PROVE  Head(q) \in S /\ Tail(q) \in Seq(S)
  OBVIOUS

\* What an operation closes is a list of ends.
LEMMA EndsOfType == \A op \in Ops : EndsOf(op) \in Seq(Ends)
<1> SUFFICES ASSUME NEW op \in Ops
             PROVE  EndsOf(op) \in Seq(Ends)
  OBVIOUS
<1>1. <<"Reader", "Writer">> \in Seq(Ends)
  BY DEF Ends
<1>2. CASE op = "Close"
  BY <1>1, <1>2 DEF EndsOf
<1>3. CASE op \in Ends
  <2>1. <<op>> \in Seq(Ends)
    BY <1>3
  <2>2. op # "Close"
    BY <1>3 DEF Ends
  <2>3. QED
    BY <2>1, <2>2 DEF EndsOf
<1>4. QED
  BY <1>2, <1>3 DEF Ops

\* Every state is well typed (internal/exec.go, internal/io.go).
THEOREM ExecTypeCorrect == Spec => []TypeOK
<1>1. Init => TypeOK
  <2> SUFFICES ASSUME Init
               PROVE  TypeOK
    OBVIOUS
  <2>1. Program \in [Callers -> Seq(Ops)] /\ 0 \in 0..MaxLines
    BY ExecAssumption DEF ExecAssumption
  <2>2. <<>> \in Seq(Ends)
    OBVIOUS
  <2>3. QED
    BY <2>1, <2>2 DEF Init, TypeOK, Ends, None
<1>2. TypeOK /\ [Next]_vars => TypeOK'
  <2> SUFFICES ASSUME TypeOK, [Next]_vars
               PROVE  TypeOK'
    OBVIOUS
  <2> USE DEF TypeOK, closeVars, childVars, stderrVars
  <2>1. ASSUME NEW c \in Callers, BeginCall(c)
        PROVE  TypeOK'
    <3>1. Head(todo[c]) \in Ops /\ Tail(todo[c]) \in Seq(Ops)
      BY <2>1, TailType DEF BeginCall
    <3>2. EndsOf(Head(todo[c])) \in Seq(Ends)
      BY <3>1, EndsOfType
    <3>3. QED
      BY <2>1, <3>1, <3>2 DEF BeginCall
  <2>2. ASSUME NEW c \in Callers, NEW e \in Ends, CloseAgain(c, e)
        PROVE  TypeOK'
    BY <2>2, TailType DEF CloseAgain
  <2>3. ASSUME NEW c \in Callers, NEW e \in Ends, CloseChan(c, e)
        PROVE  TypeOK'
    BY <2>3 DEF CloseChan
  <2>4. ASSUME NEW c \in Callers, NEW e \in Ends, ClosePanics(c, e)
        PROVE  TypeOK'
    <3>1. <<>> \in Seq(Ends) /\ <<>> \in Seq(Ops)
      OBVIOUS
    <3>2. QED
      BY <2>4, <3>1 DEF ClosePanics
  <2>5. ASSUME NEW c \in Callers, NEW e \in Ends, CloseFile(c, e)
        PROVE  TypeOK'
    BY <2>5, TailType DEF CloseFile
  <2>6. ASSUME NEW e \in Ends, ReceiveClosed(e)
        PROVE  TypeOK'
    BY <2>6 DEF ReceiveClosed, Ends
  <2>7. CASE Reap \/ WaitReturns \/ Terminate \/ Kill \/ KillerCancelled
    BY <2>7 DEF Reap, WaitReturns, Terminate, Kill, KillerCancelled, Ends
  <2>8. CASE LogLine
    BY <2>8, ExecAssumption DEF LogLine, ExecAssumption
  <2>9. CASE ChildWrites
    BY <2>9, ExecAssumption DEF ChildWrites, ExecAssumption
  <2>10. CASE ChildExits
    BY <2>10 DEF ChildExits
  <2>11. CASE UNCHANGED vars
    BY <2>11 DEF vars
  <2>12. QED
    BY <2>1, <2>2, <2>3, <2>4, <2>5, <2>6, <2>7, <2>8, <2>9, <2>10, <2>11
       DEF Next, CallerStep
<1>3. QED
  BY <1>1, <1>2, PTL DEF Spec

-----------------------------------------------------------------------------
(* Signals. *)

\* A child is signalled only once both ends have been closed, and killed only
\* after SIGTERM: a callback that ran early cannot kill a child in use
\* (internal/exec.go:66-91).
THEOREM SignalledInOrder == Spec => []SignalsInOrder
<1>1. Init => SignalInv
  BY DEF Init, SignalInv, Waiting, Ends
<1>2. TypeOK /\ SignalInv /\ [Next]_vars => SignalInv'
  <2> SUFFICES ASSUME TypeOK, SignalInv, [Next]_vars
               PROVE  SignalInv'
    OBVIOUS
  <2> USE DEF SignalInv, Waiting, closeVars, childVars, stderrVars
  <2>1. ASSUME NEW c \in Callers, BeginCall(c)
        PROVE  SignalInv'
    BY <2>1 DEF BeginCall
  <2>2. ASSUME NEW c \in Callers, NEW e \in Ends,
               CloseAgain(c, e) \/ ClosePanics(c, e) \/ CloseFile(c, e)
        PROVE  SignalInv'
    BY <2>2 DEF CloseAgain, ClosePanics, CloseFile
  <2>3. ASSUME NEW c \in Callers, NEW e \in Ends, CloseChan(c, e)
        PROVE  SignalInv'
    BY <2>3 DEF CloseChan, TypeOK, Ends
  <2>4. ASSUME NEW e \in Ends, ReceiveClosed(e)
        PROVE  SignalInv'
    BY <2>4 DEF ReceiveClosed, TypeOK, Ends
  <2>5. CASE Reap \/ WaitReturns
    BY <2>5 DEF Reap, WaitReturns
  <2>6. CASE Terminate
    BY <2>6 DEF Terminate
  <2>7. CASE Kill
    BY <2>7 DEF Kill
  <2>8. CASE KillerCancelled
    BY <2>8 DEF KillerCancelled
  <2>9. CASE LogLine \/ ChildWrites
    BY <2>9 DEF LogLine, ChildWrites
  <2>10. CASE ChildExits
    BY <2>10 DEF ChildExits
  <2>11. CASE UNCHANGED vars
    BY <2>11 DEF vars
  <2>12. QED
    BY <2>1, <2>2, <2>3, <2>4, <2>5, <2>6, <2>7, <2>8, <2>9, <2>10, <2>11
       DEF Next, CallerStep
<1>3. SignalInv => SignalsInOrder
  BY DEF SignalInv, SignalsInOrder, Waiting
<1>4. QED
  BY <1>1, <1>2, <1>3, ExecTypeCorrect, PTL DEF Spec

-----------------------------------------------------------------------------
(* The Reader is closed once. *)

\* A caller comes to its next Stream.Close.
LEMMA BeginKeepsCloseInv ==
  ASSUME TypeOK, CloseInv, NEW c \in Callers, BeginCall(c)
  PROVE  CloseInv'
<1> USE DEF CloseInv, BeginCall
<1>1. Head(todo[c]) = "Close" /\ Tail(todo[c]) \in Seq({"Close"})
  BY TailType DEF CallInv
<1>2. ends'[c] = <<"Reader", "Writer">> /\ todo'[c] \in Seq({"Close"})
  BY <1>1 DEF EndsOf, TypeOK
<1>3. \A d \in Callers : d # c => ends'[d] = ends[d] /\ todo'[d] = todo[d]
  BY DEF TypeOK
<1>4. CallInv'
  <2>1. <<"Reader", "Writer">> # <<"Writer">> /\ shut' = shut
    OBVIOUS
  <2>2. ASSUME NEW d \in Callers, d # c
        PROVE  /\ todo'[d] \in Seq({"Close"})
               /\ ends'[d] \in {<<>>, <<"Reader", "Writer">>, <<"Writer">>}
               /\ ends'[d] = <<"Writer">> => shut'["Reader"]
    BY <1>3, <2>1, <2>2 DEF CallInv
  <2>3. QED
    BY <1>2, <2>1, <2>2 DEF CallInv
<1>5. LockInv'
  <2>1. \A e \in Ends : lock[e] # None => lock[e] # c /\ lock[e] \in Callers
    BY DEF LockInv, TypeOK
  <2>2. QED
    BY <1>3, <2>1 DEF LockInv
<1>6. ReaderInv'
  BY DEF ReaderInv, ReaderClosedOnce
<1>7. QED
  BY <1>4, <1>5, <1>6

\* A caller takes a step in Stream.Close.
LEMMA CallerKeepsCloseInv ==
  ASSUME TypeOK, CloseInv, NEW c \in Callers, NEW e \in Ends,
         CloseAgain(c, e) \/ CloseChan(c, e) \/ ClosePanics(c, e) \/ CloseFile(c, e)
  PROVE  CloseInv'
<1> USE DEF CloseInv
<1>1. c # None
  BY ExecAssumption DEF ExecAssumption
<1>2. \/ ends[c] = <<"Reader", "Writer">> /\ e = "Reader"
      \/ ends[c] = <<"Writer">> /\ e = "Writer" /\ shut["Reader"]
  BY DEF CallInv, CloseAgain, CloseChan, ClosePanics, CloseFile
<1>3. Tail(<<"Reader", "Writer">>) = <<"Writer">> /\ Tail(<<"Writer">>) = <<>>
  OBVIOUS
<1>4. \A f \in Ends : lock[f] = c => f = e
  BY <1>1, <1>2 DEF LockInv
<1>5. "Reader" \in Ends /\ "Writer" \in Ends
  BY DEF Ends
<1>6. CASE CloseAgain(c, e)
  <2> USE <1>6 DEF CloseAgain
  <2>1. ends' = [ends EXCEPT ![c] = Tail(@)] /\ UNCHANGED <<todo, lock, shut, chanClosed>>
        /\ UNCHANGED <<file, panics, waiter>> /\ shut[e] /\ lock[e] = None
    OBVIOUS
  <2>2. CallInv'
    BY <1>2, <1>3, <2>1 DEF CallInv, TypeOK
  <2>3. LockInv'
    BY <1>4, <2>1 DEF LockInv, TypeOK
  <2>4. ReaderInv'
    BY <2>1 DEF ReaderInv, ReaderClosedOnce
  <2>5. QED
    BY <2>2, <2>3, <2>4
<1>7. CASE CloseChan(c, e)
  <2>1. /\ lock' = [lock EXCEPT ![e] = c] /\ chanClosed' = [chanClosed EXCEPT ![e] = TRUE]
        /\ UNCHANGED <<todo, ends, shut, file, panics, waiter>>
        /\ ends[c] # <<>> /\ e = Head(ends[c]) /\ ~shut[e] /\ ~chanClosed[e]
    BY <1>7 DEF CloseChan, childVars
  <2>2. CallInv'
    BY <2>1 DEF CallInv
  <2>3. LockInv'
    BY <2>1 DEF LockInv, TypeOK
  <2>4. ReaderInv'
    BY <1>1, <1>2, <1>5, <2>1 DEF ReaderInv, ReaderClosedOnce, TypeOK
  <2>5. QED
    BY <2>2, <2>3, <2>4
<1>8. CASE ClosePanics(c, e)
  <2>1. /\ panics' = panics \cup {e}
        /\ ends' = [ends EXCEPT ![c] = <<>>] /\ todo' = [todo EXCEPT ![c] = <<>>]
        /\ UNCHANGED <<lock, shut, chanClosed, file, waiter>>
        /\ lock[e] = None /\ ~shut[e] /\ chanClosed[e]
    BY <1>8 DEF ClosePanics
  <2>2. e = "Writer"
    BY <1>2, <2>1 DEF ReaderInv
  <2>3. CallInv'
    <3>1. <<>> \in Seq({"Close"})
      OBVIOUS
    <3>2. QED
      BY <2>1, <3>1 DEF CallInv, TypeOK
  <2>4. LockInv'
    BY <1>4, <2>1, <1>1 DEF LockInv, TypeOK
  <2>5. ReaderInv'
    BY <2>1, <2>2 DEF ReaderInv, ReaderClosedOnce
  <2>6. QED
    BY <2>3, <2>4, <2>5
<1>9. CASE CloseFile(c, e)
  <2>1. /\ shut' = [shut EXCEPT ![e] = (file[e] = "open")]
        /\ file' = [file EXCEPT ![e] = "closed"]
        /\ lock' = [lock EXCEPT ![e] = None]
        /\ ends' = [ends EXCEPT ![c] = Tail(@)]
        /\ UNCHANGED <<todo, chanClosed, panics, waiter>>
        /\ lock[e] = c
    BY <1>9 DEF CloseFile
  <2>2. chanClosed[e] /\ ~shut[e]
    BY <1>1, <2>1 DEF LockInv
  <2>3. e = "Reader" => file[e] = "open" /\ waiter = "Writer"
    <3>1. SUFFICES ASSUME e = "Reader"
                   PROVE  ~chanClosed["Writer"]
      BY <3>1, <2>2 DEF ReaderInv, TypeOK, Ends
    <3>2. QED
      BY <2>2, <3>1 DEF ReaderInv
  <2>4. CallInv'
    BY <1>2, <1>3, <2>1, <2>3 DEF CallInv, TypeOK, Ends
  <2>5. LockInv'
    BY <1>4, <2>1 DEF LockInv, TypeOK
  <2>6. ReaderInv'
    BY <1>2, <2>1, <2>2, <2>3 DEF ReaderInv, ReaderClosedOnce, TypeOK, Ends
  <2>7. QED
    BY <2>4, <2>5, <2>6
<1>10. QED
  BY <1>6, <1>7, <1>8, <1>9

\* The invariant of callers that call Stream.Close and nothing else.
LEMMA CloseInvariant ==
  ASSUME OnlyCloses
  PROVE  Spec => []CloseInv
<1>1. Init => CloseInv
  <2> SUFFICES ASSUME Init
               PROVE  CloseInv
    OBVIOUS
  <2>1. LockInv
    BY DEF Init, LockInv
  <2>2. CallInv
    BY OnlyCloses DEF Init, CallInv, OnlyCloses
  <2>3. ReaderInv
    BY DEF Init, ReaderInv, ReaderClosedOnce, Ends
  <2>4. QED
    BY <2>1, <2>2, <2>3 DEF CloseInv
<1>2. TypeOK /\ CloseInv /\ [Next]_vars => CloseInv'
  <2> SUFFICES ASSUME TypeOK, CloseInv, [Next]_vars
               PROVE  CloseInv'
    OBVIOUS
  <2> USE DEF CloseInv, LockInv, CallInv, ReaderInv, ReaderClosedOnce
  <2> USE DEF closeVars, childVars, stderrVars
  <2>1. ASSUME NEW e \in Ends, ReceiveClosed(e)
        PROVE  CloseInv'
    BY <2>1 DEF ReceiveClosed, Ends
  <2>2. CASE WaitReturns
    BY <2>2 DEF WaitReturns, TypeOK, Ends
  <2>3. CASE Reap
    BY <2>3 DEF Reap
  <2>4. CASE Terminate \/ Kill \/ KillerCancelled \/ LogLine \/ ChildWrites \/ ChildExits
    BY <2>4 DEF Terminate, Kill, KillerCancelled, LogLine, ChildWrites, ChildExits
  <2>5. CASE UNCHANGED vars
    BY <2>5 DEF vars
  <2>6. QED
    BY <2>1, <2>2, <2>3, <2>4, <2>5, BeginKeepsCloseInv, CallerKeepsCloseInv
       DEF Next, CallerStep
<1>3. QED
  BY <1>1, <1>2, ExecTypeCorrect, PTL DEF Spec

\* However many goroutines call Stream.Close, and whenever the child exits, the
\* Reader's channel is closed once, and cmd.Wait is called only when the
\* Reader's file has been closed (internal/stream.go:15, internal/exec.go:66).
THEOREM ReaderSafe ==
  ASSUME OnlyCloses
  PROVE  Spec => [](ReaderClosedOnce /\ WaitAfterReader)
<1>1. TypeOK /\ CloseInv => ReaderClosedOnce /\ WaitAfterReader
  BY DEF TypeOK, CloseInv, ReaderInv, WaitAfterReader
<1>2. QED
  BY <1>1, CloseInvariant, OnlyCloses, ExecTypeCorrect, PTL

\* So the child is waited for only when its Reader's file has been closed
\* (internal/exec.go:85-94).
THEOREM WaitsForReader ==
  ASSUME OnlyCloses
  PROVE  Spec => []WaitAfterReader
BY OnlyCloses, ReaderSafe, PTL

-----------------------------------------------------------------------------
(* Nobody is left waiting, and nothing open. *)

\* An end whose channel and file are closed.
Closed(e) == chanClosed[e] /\ file[e] = "closed"

\* The flag of an end says that it is closed, and who has closed the channel holds the
\* mutex until the file is closed too.
ShutInv ==
  \A e \in Ends :
    /\ shut[e] => Closed(e)
    /\ chanClosed[e] /\ lock[e] = None => Closed(e)

\* A caller whose last Close has returned, or panicked, leaves nothing open.
ReturnInv ==
  \A c \in Callers : todo[c] # Program[c] /\ ends[c] = <<>> => \A e \in Ends : Closed(e)

ClosedWhenReturned ==
  \A c \in Callers : Finished(c) /\ Program[c] # <<>> => \A e \in Ends : Closed(e)

\* A caller that waits for the mutex of an end waits for one that is about to unlock it.
WaitsForACloser ==
  \A c \in Callers :
    LET e == Head(ends[c])
    IN  ends[c] # <<>> /\ lock[e] \notin {None, c} =>
          ends[lock[e]] # <<>> /\ Head(ends[lock[e]]) = e

\* The goroutines of the child are born and die with it.
ReapInv ==
  /\ waiter \in {"closing", "done"} <=> child = "reaped"
  /\ killer = "unborn" <=> waiter \in Ends
  /\ killer = "done" => child = "reaped" \/ "KILL" \in signals

\* When both ends are closed, the child has been reaped or one of the goroutines can go on,
\* or the child has been sent the signal it cannot ignore.
ChildIsSeenTo ==
  (\A e \in Ends : chanClosed[e]) =>
    \/ child = "reaped"
    \/ waiter \in Ends /\ chanClosed[waiter]
    \/ waiter = "wait" /\ child = "exited"
    \/ killer \in {"term", "kill"}
    \/ "KILL" \in signals

\* A caller takes a step.
LEMMA MutexStep ==
  ASSUME TypeOK, LockInv, ShutInv, NEW c \in Callers, NEW e \in Ends,
         BeginCall(c) \/ CloseAgain(c, e) \/ CloseChan(c, e) \/ ClosePanics(c, e)
           \/ CloseFile(c, e)
  PROVE  LockInv' /\ ShutInv'
<1>1. c # None /\ \A f \in Ends : lock[f] = None \/ lock[f] \in Callers
  BY ExecAssumption DEF ExecAssumption, TypeOK
<1>2. \A f \in Ends : lock[f] = c => ends[c] # <<>> /\ f = Head(ends[c])
  BY <1>1 DEF LockInv
<1>3. CASE BeginCall(c)
  <2>1. \A f \in Ends : lock[f] # None => lock[f] # c
    BY <1>2, <1>3 DEF BeginCall
  <2>2. /\ \A d \in Callers : d # c => ends'[d] = ends[d]
        /\ UNCHANGED <<lock, shut, chanClosed, file>>
    BY <1>3 DEF BeginCall, TypeOK
  <2>3. LockInv'
    BY <1>1, <2>1, <2>2 DEF LockInv
  <2>4. ShutInv'
    BY <2>2 DEF ShutInv, Closed
  <2>5. QED
    BY <2>3, <2>4
<1>4. CASE CloseAgain(c, e) \/ ClosePanics(c, e)
  <2>1. \A f \in Ends : lock[f] # None => lock[f] # c
    BY <1>1, <1>2, <1>4 DEF CloseAgain, ClosePanics
  <2>2. /\ \A d \in Callers : d # c => ends'[d] = ends[d]
        /\ UNCHANGED <<lock, shut, chanClosed, file>>
    BY <1>4 DEF CloseAgain, ClosePanics, TypeOK
  <2>3. LockInv'
    BY <1>1, <2>1, <2>2 DEF LockInv
  <2>4. ShutInv'
    BY <2>2 DEF ShutInv, Closed
  <2>5. QED
    BY <2>3, <2>4
<1>5. CASE CloseChan(c, e)
  <2>1. /\ ends[c] # <<>> /\ e = Head(ends[c]) /\ ~shut[e]
        /\ lock' = [lock EXCEPT ![e] = c] /\ chanClosed' = [chanClosed EXCEPT ![e] = TRUE]
        /\ UNCHANGED <<ends, shut, file>>
    BY <1>5 DEF CloseChan
  <2>2. LockInv'
    BY <2>1 DEF LockInv, TypeOK
  <2>3. ShutInv'
    BY <1>1, <2>1 DEF ShutInv, Closed, TypeOK
  <2>4. QED
    BY <2>2, <2>3
<1>6. CASE CloseFile(c, e)
  <2>1. /\ lock[e] = c /\ ends[c] # <<>> /\ e = Head(ends[c])
        /\ shut' = [shut EXCEPT ![e] = (file[e] = "open")]
        /\ file' = [file EXCEPT ![e] = "closed"] /\ lock' = [lock EXCEPT ![e] = None]
        /\ ends' = [ends EXCEPT ![c] = Tail(@)] /\ UNCHANGED chanClosed
    BY <1>6 DEF CloseFile
  <2>2. chanClosed[e]
    BY <1>1, <2>1 DEF LockInv
  <2>3. \A f \in Ends : f # e => lock[f] # c
    BY <1>2, <2>1
  <2>4. LockInv'
    BY <1>1, <2>1, <2>3 DEF LockInv, TypeOK
  <2>5. ShutInv'
    BY <2>1, <2>2 DEF ShutInv, Closed, TypeOK
  <2>6. QED
    BY <2>4, <2>5
<1>7. QED
  BY <1>3, <1>4, <1>5, <1>6

\* Of the goroutines of the child, only cmd.Wait touches a file of the stream.
LEMMA ChildTouches ==
  ASSUME \/ \E e \in Ends : ReceiveClosed(e)
         \/ Reap \/ WaitReturns \/ Terminate \/ Kill \/ KillerCancelled \/ LogLine
         \/ ChildWrites \/ ChildExits \/ UNCHANGED vars
  PROVE  /\ UNCHANGED closeVars
         /\ file' = file \/ file' = [e \in Ends |-> "closed"]
BY DEF ReceiveClosed, Reap, WaitReturns, Terminate, Kill, KillerCancelled, LogLine, ChildWrites,
   ChildExits, vars

\* The two mutexes of a stream do what they are for, whatever the callers close
\* (internal/io.go:109-131, 138-160).
THEOREM MutexInvariant == Spec => [](LockInv /\ ShutInv)
<1>1. Init => LockInv /\ ShutInv
  BY DEF Init, LockInv, ShutInv, Closed
<1>2. TypeOK /\ LockInv /\ ShutInv /\ [Next]_vars => LockInv' /\ ShutInv'
  <2> SUFFICES ASSUME TypeOK, LockInv, ShutInv, [Next]_vars
               PROVE  LockInv' /\ ShutInv'
    OBVIOUS
  <2>1. CASE \E c \in Callers : BeginCall(c) \/ CallerStep(c)
    BY <2>1, MutexStep DEF CallerStep, Ends
  <2>2. CASE UNCHANGED closeVars /\ (file' = file \/ file' = [e \in Ends |-> "closed"])
    BY <2>2 DEF closeVars, LockInv, ShutInv, Closed
  <2>3. QED
    BY <2>1, <2>2, ChildTouches DEF Next
<1>3. QED
  BY <1>1, <1>2, ExecTypeCorrect, PTL DEF Spec

\* No two goroutines that close a stream block each other: one that waits for the mutex of
\* an end waits for another that only has the file of this end to close
\* (internal/io.go:109-131, 138-160).
THEOREM ClosersDoNotBlock == Spec => []WaitsForACloser
<1>1. LockInv /\ TypeOK => WaitsForACloser
  <2> SUFFICES ASSUME LockInv, TypeOK, NEW c \in Callers,
                      ends[c] # <<>>, lock[Head(ends[c])] \notin {None, c}
               PROVE  LET e == Head(ends[c])
                      IN  ends[lock[e]] # <<>> /\ Head(ends[lock[e]]) = e
    BY DEF WaitsForACloser
  <2>1. Head(ends[c]) \in Ends
    BY TailType DEF TypeOK
  <2>2. QED
    BY <2>1 DEF LockInv
<1>2. QED
  BY <1>1, MutexInvariant, ExecTypeCorrect, PTL

\* Where the goroutines of the child are says what has become of it.
LEMMA ReapInvariant == Spec => []ReapInv
<1>1. Init => ReapInv
  BY DEF Init, ReapInv, Ends
<1>2. TypeOK /\ ReapInv /\ [Next]_vars => ReapInv'
  <2> SUFFICES ASSUME TypeOK, ReapInv, [Next]_vars
               PROVE  ReapInv'
    OBVIOUS
  <2> USE DEF ReapInv, childVars, Ends
  <2>1. ASSUME NEW c \in Callers, NEW e \in Ends,
               \/ BeginCall(c) \/ CloseAgain(c, e) \/ CloseChan(c, e) \/ ClosePanics(c, e)
               \/ CloseFile(c, e)
        PROVE  ReapInv'
    BY <2>1 DEF BeginCall, CloseAgain, CloseChan, ClosePanics, CloseFile
  <2>2. ASSUME NEW e \in Ends, ReceiveClosed(e)
        PROVE  ReapInv'
    BY <2>2 DEF ReceiveClosed
  <2>3. CASE Reap \/ WaitReturns
    BY <2>3 DEF Reap, WaitReturns
  <2>4. CASE Terminate \/ Kill
    BY <2>4 DEF Terminate, Kill
  <2>5. CASE KillerCancelled
    BY <2>5 DEF KillerCancelled
  <2>6. CASE LogLine \/ ChildWrites \/ UNCHANGED vars
    BY <2>6 DEF LogLine, ChildWrites, vars
  <2>7. CASE ChildExits
    BY <2>7 DEF ChildExits
  <2>8. QED
    BY <2>1, <2>2, <2>3, <2>4, <2>5, <2>6, <2>7 DEF Next, CallerStep
<1>3. QED
  BY <1>1, <1>2, ExecTypeCorrect, PTL DEF Spec

\* With both ends closed the child is never left to itself: the goroutines that terminate,
\* kill and reap it go on until it has been reaped (internal/exec.go:65-96).
THEOREM ClosedChildIsSeenTo == Spec => []ChildIsSeenTo
<1>1. TypeOK /\ ReapInv => ChildIsSeenTo
  BY DEF TypeOK, ReapInv, ChildIsSeenTo
<1>2. QED
  BY <1>1, ReapInvariant, ExecTypeCorrect, PTL

\* What is closed stays closed.
LEMMA ClosedStays ==
  ASSUME TypeOK, [Next]_vars, NEW f \in Ends, Closed(f)
  PROVE  Closed(f)'
<1>1. ASSUME NEW c \in Callers, NEW e \in Ends,
             \/ BeginCall(c) \/ CloseAgain(c, e) \/ CloseChan(c, e) \/ ClosePanics(c, e)
             \/ CloseFile(c, e)
      PROVE  Closed(f)'
  BY <1>1 DEF BeginCall, CloseAgain, CloseChan, ClosePanics, CloseFile, Closed, TypeOK
<1>2. CASE UNCHANGED closeVars /\ (file' = file \/ file' = [e \in Ends |-> "closed"])
  BY <1>2 DEF closeVars, Closed
<1>3. QED
  BY <1>1, <1>2, ChildTouches DEF Next, CallerStep, Ends

\* A caller that comes out of Stream.Close finds both ends closed.
LEMMA ReturnStep ==
  ASSUME TypeOK, CloseInv, ShutInv, NEW c \in Callers, NEW e \in Ends,
         BeginCall(c) \/ CloseAgain(c, e) \/ CloseChan(c, e) \/ ClosePanics(c, e)
           \/ CloseFile(c, e),
         ends'[c] = <<>>, [Next]_vars
  PROVE  (\A f \in Ends : Closed(f)') \/ (ends[c] = <<>> /\ todo'[c] = todo[c])
<1>1. \A f \in Ends : Closed(f) => Closed(f)'
  BY ClosedStays
<1>2. ~BeginCall(c)
  <2>1. SUFFICES ASSUME BeginCall(c)
                 PROVE  FALSE
    OBVIOUS
  <2>2. Head(todo[c]) = "Close"
    BY <2>1, TailType DEF BeginCall, CloseInv, CallInv
  <2>3. ends'[c] = <<"Reader", "Writer">>
    BY <2>1, <2>2 DEF BeginCall, EndsOf, TypeOK
  <2>4. <<"Reader", "Writer">> # <<>>
    OBVIOUS
  <2>5. QED
    BY <2>3, <2>4
<1>3. CASE CloseChan(c, e)
  BY <1>3 DEF CloseChan
<1>4. CASE CloseAgain(c, e) \/ ClosePanics(c, e) \/ CloseFile(c, e)
  <2>1. \/ ends[c] = <<"Reader", "Writer">> /\ e = "Reader"
        \/ ends[c] = <<"Writer">> /\ e = "Writer" /\ shut["Reader"]
    BY <1>4 DEF CloseInv, CallInv, CloseAgain, ClosePanics, CloseFile
  <2>2. e = "Writer" /\ shut["Reader"]
    <3>1. SUFFICES ASSUME ends[c] = <<"Reader", "Writer">>, e = "Reader"
                   PROVE  FALSE
      BY <2>1
    <3>2. Tail(ends[c]) = <<"Writer">> /\ <<"Writer">> # <<>>
      BY <3>1
    <3>3. ClosePanics(c, e)
      <4>1. SUFFICES ASSUME CloseAgain(c, e) \/ CloseFile(c, e)
                     PROVE  FALSE
        BY <1>4
      <4>2. ends'[c] = Tail(ends[c])
        BY <4>1 DEF CloseAgain, CloseFile, TypeOK
      <4>3. QED
        BY <3>2, <4>2
    <3>4. QED
      BY <3>1, <3>3 DEF ClosePanics, CloseInv, ReaderInv
  <2>3. Closed("Writer")'
    <3>1. CASE CloseAgain(c, e)
      BY <1>1, <2>2, <3>1 DEF CloseAgain, ShutInv
    <3>2. CASE ClosePanics(c, e)
      BY <1>1, <2>2, <3>2 DEF ClosePanics, ShutInv
    <3>3. CASE CloseFile(c, e)
      <4>1. chanClosed[e]
        BY <3>3, ExecAssumption DEF CloseFile, CloseInv, LockInv, ExecAssumption
      <4>2. QED
        BY <2>2, <3>3, <4>1 DEF CloseFile, Closed, TypeOK
    <3>4. QED
      BY <1>4, <3>1, <3>2, <3>3
  <2>4. Closed("Reader")'
    BY <1>1, <2>2 DEF ShutInv, Ends
  <2>5. QED
    BY <2>3, <2>4 DEF Ends
<1>5. QED
  BY <1>2, <1>3, <1>4

LEMMA ReturnInvariant ==
  ASSUME OnlyCloses
  PROVE  Spec => []ReturnInv
<1>1. Init => ReturnInv
  BY DEF Init, ReturnInv
<1>2. TypeOK /\ CloseInv /\ ShutInv /\ ReturnInv /\ [Next]_vars => ReturnInv'
  <2> SUFFICES ASSUME TypeOK, CloseInv, ShutInv, ReturnInv, [Next]_vars, NEW d \in Callers,
                      todo'[d] # Program[d], ends'[d] = <<>>, NEW f \in Ends
               PROVE  Closed(f)'
    BY DEF ReturnInv, Closed
  <2>1. Closed(f) => Closed(f)'
    BY ClosedStays
  <2>2. CASE ends[d] = <<>> /\ todo'[d] = todo[d]
    BY <2>1, <2>2 DEF ReturnInv
  <2>3. CASE \E c \in Callers, e \in Ends :
               \/ BeginCall(c) \/ CloseAgain(c, e) \/ CloseChan(c, e) \/ ClosePanics(c, e)
               \/ CloseFile(c, e)
    <3>1. PICK c \in Callers, e \in Ends :
                 \/ BeginCall(c) \/ CloseAgain(c, e) \/ CloseChan(c, e) \/ ClosePanics(c, e)
                 \/ CloseFile(c, e)
      BY <2>3
    <3>2. CASE c = d
      BY <2>2, <3>1, <3>2, ReturnStep
    <3>3. CASE c # d
      <4>1. ends'[d] = ends[d] /\ todo'[d] = todo[d]
        BY <3>1, <3>3 DEF BeginCall, CloseAgain, CloseChan, ClosePanics, CloseFile, TypeOK
      <4>2. QED
        BY <2>2, <4>1
    <3>4. QED
      BY <3>2, <3>3
  <2>4. CASE UNCHANGED closeVars
    BY <2>2, <2>4 DEF closeVars
  <2>5. QED
    BY <2>3, <2>4, ChildTouches DEF Next, CallerStep, Ends
<1>3. QED
  BY <1>1, <1>2, ExecTypeCorrect, MutexInvariant, CloseInvariant, OnlyCloses, PTL DEF Spec

\* A Stream.Close that has returned has closed both ends, whoever began to close them, even
\* if it found the file closed by cmd.Wait (internal/stream.go:15, internal/io.go:109-160).
THEOREM ReturnedIsClosed ==
  ASSUME OnlyCloses
  PROVE  Spec => []ClosedWhenReturned
<1>1. TypeOK /\ ReturnInv => ClosedWhenReturned
  BY DEF ReturnInv, ClosedWhenReturned, Finished
<1>2. QED
  BY <1>1, ExecTypeCorrect, ReturnInvariant, OnlyCloses, PTL

-----------------------------------------------------------------------------
(* One that ends ends all: OneEndsAllEnd without the fairness. *)

\* The copies and their handler: each closes the stream once, and the handler waits
\* for copies, which wait for nobody (tcp.go:95-118).
CopiesAndHandlers ==
  \A c \in Callers : Program[c] = <<"Close">> /\ \A d \in After[c] : d \in Callers /\ After[d] = {}

\* The guards of the steps that Fairness is about.
CloserRuns(c) == ends[c] # <<>> /\ lock[Head(ends[c])] \in {None, c}
BeginRuns(c) ==
  Prompted(c) /\ ends[c] = <<>> /\ todo[c] # <<>> /\ \A d \in After[c] : Finished(d)
ChildRuns ==
  \/ waiter \in Ends /\ chanClosed[waiter]
  \/ waiter = "wait" /\ child = "exited"
  \/ killer \in {"term", "kill"}
  \/ "KILL" \in signals /\ child = "running"
SomebodyRuns == ChildRuns \/ \E c \in Callers : CloserRuns(c) \/ BeginRuns(c)

\* Once somebody has begun to close, there is somebody who can go on until all have
\* closed and the child has been reaped.
NobodyWaitsForEver ==
  (\E c \in Callers : todo[c] # Program[c]) =>
    (child = "reaped" /\ \A c \in Callers : Finished(c)) \/ SomebodyRuns

\* A caller has its one call before it, or none.
TodoInv == \A c \in Callers : todo[c] = Program[c] \/ todo[c] = <<>>

LEMMA TodoStep ==
  ASSUME CopiesAndHandlers, TypeOK, TodoInv, [Next]_vars
  PROVE  TodoInv'
<1>1. ASSUME NEW c \in Callers, BeginCall(c)
      PROVE  TodoInv'
  <2>1. todo[c] = <<"Close">> /\ Tail(<<"Close">>) = <<>>
    BY <1>1, CopiesAndHandlers DEF BeginCall, TodoInv, CopiesAndHandlers
  <2>2. todo' = [todo EXCEPT ![c] = <<>>]
    BY <1>1, <2>1 DEF BeginCall
  <2>3. QED
    BY <2>2 DEF TodoInv, TypeOK
<1>2. ASSUME NEW c \in Callers, NEW e \in Ends,
             CloseAgain(c, e) \/ CloseChan(c, e) \/ ClosePanics(c, e) \/ CloseFile(c, e)
      PROVE  TodoInv'
  BY <1>2 DEF CloseAgain, CloseChan, ClosePanics, CloseFile, TodoInv, TypeOK
<1>3. CASE UNCHANGED closeVars
  BY <1>3 DEF closeVars, TodoInv
<1>4. QED
  BY <1>1, <1>2, <1>3, ChildTouches DEF Next, CallerStep

\* All callers get there, whoever is the first, and then the child does: no caller
\* waits for the mutex of one that waits, no handler for a copy that nobody ends, and
\* no goroutine of the child for an end that nobody closes (tcp.go:95-118,
\* internal/exec.go:65-96).
THEOREM ExecNeverStops ==
  ASSUME CopiesAndHandlers
  PROVE  Spec => []NobodyWaitsForEver
<1>1. OnlyCloses
  <2>1. <<"Close">> \in Seq({"Close"})
    OBVIOUS
  <2>2. QED
    BY <2>1, CopiesAndHandlers, ExecAssumption DEF CopiesAndHandlers, OnlyCloses, ExecAssumption
<1>2. Init => TodoInv
  BY DEF Init, TodoInv
<1>3. TypeOK /\ TodoInv /\ [Next]_vars => TodoInv'
  BY TodoStep, CopiesAndHandlers
<1>4. TypeOK /\ TodoInv /\ ReturnInv /\ ReapInv /\ WaitsForACloser /\ ChildIsSeenTo => NobodyWaitsForEver
  <2> SUFFICES ASSUME TypeOK, TodoInv, ReturnInv, ReapInv, WaitsForACloser, ChildIsSeenTo,
                      NEW b \in Callers, todo[b] # Program[b], ~SomebodyRuns
               PROVE  child = "reaped" /\ \A c \in Callers : Finished(c)
    BY DEF NobodyWaitsForEver
  <2>1. ASSUME NEW c \in Callers
        PROVE  ends[c] = <<>>
    <3> SUFFICES ASSUME ends[c] # <<>>
                 PROVE  FALSE
      OBVIOUS
    <3> DEFINE e == Head(ends[c])
    <3>1. e \in Ends
      BY TailType DEF TypeOK
    <3>2. lock[e] \notin {None, c}
      BY DEF SomebodyRuns, CloserRuns
    <3>3. lock[e] \in Callers
      BY <3>1, <3>2 DEF TypeOK
    <3>4. ends[lock[e]] # <<>> /\ Head(ends[lock[e]]) = e
      BY <3>2 DEF WaitsForACloser
    <3>5. CloserRuns(lock[e])
      BY <3>4 DEF CloserRuns
    <3>6. QED
      BY <3>3, <3>5 DEF SomebodyRuns
  <2>2. Finished(b)
    BY <2>1 DEF TodoInv, Finished
  <2>3. ASSUME NEW c \in Callers, After[c] = {}
        PROVE  Finished(c)
    <3>1. CASE c = b
      BY <2>2, <3>1
    <3>2. CASE c # b
      <4>1. Prompted(c)
        BY <2>2, <3>2 DEF Prompted
      <4>2. ~BeginRuns(c)
        BY DEF SomebodyRuns
      <4>3. QED
        BY <2>1, <2>3, <4>1, <4>2 DEF BeginRuns, Finished
    <3>3. QED
      BY <3>1, <3>2
  <2>4. ASSUME NEW c \in Callers, After[c] # {}
        PROVE  Finished(c)
    <3>1. \A d \in After[c] : Finished(d)
      BY <2>3, CopiesAndHandlers DEF CopiesAndHandlers
    <3>2. Prompted(c)
      BY <2>4 DEF Prompted
    <3>3. ~BeginRuns(c)
      BY DEF SomebodyRuns
    <3>4. QED
      BY <2>1, <3>1, <3>2, <3>3 DEF BeginRuns, Finished
  <2>5. \A e \in Ends : chanClosed[e]
    BY <2>1 DEF ReturnInv, Closed
  <2>6. child = "reaped"
    <3>1. ~ChildRuns
      BY DEF SomebodyRuns
    <3>2. child = "reaped" \/ "KILL" \in signals
      BY <2>5, <3>1 DEF ChildIsSeenTo, ChildRuns
    <3>3. waiter \notin Ends /\ ~(waiter = "wait" /\ child = "exited")
      BY <2>5, <3>1 DEF ChildRuns
    <3>4. waiter \in {"wait", "closing", "done"} /\ child \in {"running", "exited", "reaped"}
      BY <3>3 DEF TypeOK
    <3>5. QED
      BY <3>1, <3>2, <3>3, <3>4 DEF ChildRuns, ReapInv
  <2>7. QED
    BY <2>3, <2>4, <2>6
<1>5. QED
  BY <1>1, <1>2, <1>3, <1>4, ExecTypeCorrect, ReturnInvariant, ReapInvariant, ClosersDoNotBlock,
     ClosedChildIsSeenTo, PTL DEF Spec
=============================================================================
