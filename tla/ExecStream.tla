----------------------------- MODULE ExecStream -----------------------------
(***************************************************************************)
(* One stream handled by a subprocess: ExecStreamManager.NewStream of      *)
(* internal/exec.go, the Close of its two ends (funcReadCloser and         *)
(* funcWriteCloser of internal/io.go) and the goroutines that close them.  *)
(*                                                                         *)
(* The child's stdout is the Reader and its stdin the Writer.  Closing an  *)
(* end closes a channel and then the file; when both channels are closed a *)
(* goroutine, the waiter, calls cmd.Wait, which reaps the child and closes *)
(* all pipe files that are still open.  Another goroutine, the killer,     *)
(* terminates the child and later kills it unless Wait returns first.      *)
(*                                                                         *)
(* A caller is a goroutine that closes the stream, or one of its ends, at  *)
(* points of its own choosing: a copy in either direction, a handler.      *)
(***************************************************************************)
EXTENDS Naturals, Sequences, FiniteSets

CONSTANTS
  Callers,   \* the goroutines that close the stream
  Program,   \* what each of them closes, in order: "Close", "Reader" or "Writer"
  After,     \* the callers each one waits for before it closes anything
  MaxLines   \* bound: the lines the child writes to stderr

Ends == {"Reader", "Writer"}
Ops == {"Close"} \cup Ends

None == "nobody"

ASSUME ExecAssumption ==
  /\ None \notin Callers
  /\ Program \in [Callers -> Seq(Ops)]
  /\ After \in [Callers -> SUBSET Callers]
  /\ MaxLines \in Nat

VARIABLES
  todo,       \* the calls a caller has still to make
  ends,       \* the ends its present call has still to close
  lock,       \* holder of the mutex of each end, inside closeFunc
  shut,       \* closed, the flag of each end
  chanClosed, \* stdoutClosed and stdinClosed, by end
  file,       \* the parent's file of each end: "open" or "closed"
  panics,     \* history: the ends whose channel somebody closed again
  child,      \* the process: "running", "exited" or "reaped"
  waiter,     \* where the goroutine that waits for the child is
  killer,     \* where the goroutine that terminates it is
  signals,    \* the signals it has sent
  written,    \* stderr lines written by the child
  logged      \* stderr lines logged by the third goroutine

closeVars == <<todo, ends, lock, shut, chanClosed>>
childVars == <<child, killer, signals>>
stderrVars == <<written, logged>>
vars == <<closeVars, file, panics, childVars, waiter, stderrVars>>

Init ==
  /\ todo = Program /\ ends = [c \in Callers |-> <<>>]
  /\ lock = [e \in Ends |-> None] /\ shut = [e \in Ends |-> FALSE]
  /\ chanClosed = [e \in Ends |-> FALSE] /\ file = [e \in Ends |-> "open"]
  /\ panics = {}
  /\ child = "running" /\ waiter = "Writer"
  /\ killer = "unborn" /\ signals = {}
  /\ written = 0 /\ logged = 0

-----------------------------------------------------------------------------
(***************************************************************************)
(* The callers.                                                            *)
(***************************************************************************)

\* Mutant: Stream.Close closes the Writer first.
EndsOfWriterFirst(op) == IF op = "Close" THEN <<"Writer", "Reader">> ELSE <<op>>

\* Stream.Close closes the Reader and then the Writer.
EndsOf(op) == IF op = "Close" THEN <<"Reader", "Writer">> ELSE <<op>>

Finished(c) == todo[c] = <<>> /\ ends[c] = <<>>

\* A caller comes to its next Close: a copy has ended, a request has been
\* written, a handler returns.
BeginCall(c) ==
  /\ ends[c] = <<>> /\ todo[c] # <<>>
  /\ \A d \in After[c] : Finished(d)
  /\ ends' = [ends EXCEPT ![c] = EndsOf(Head(todo[c]))]
  /\ todo' = [todo EXCEPT ![c] = Tail(@)]
  /\ UNCHANGED <<lock, shut, chanClosed, file, panics, childVars, waiter, stderrVars>>

\* Mutant: the early return leaves the mutex locked.
CloseAgainKeepsLock(c, e) ==
  /\ ends[c] # <<>> /\ e = Head(ends[c])
  /\ lock[e] = None /\ shut[e]
  /\ ends' = [ends EXCEPT ![c] = Tail(@)]
  /\ lock' = [lock EXCEPT ![e] = c]
  /\ UNCHANGED <<todo, shut, chanClosed, file, panics, childVars, waiter, stderrVars>>

\* funcReadCloser.Close, funcWriteCloser.Close: the end is closed already.
CloseAgain(c, e) ==
  /\ ends[c] # <<>> /\ e = Head(ends[c])
  /\ lock[e] = None /\ shut[e]
  /\ ends' = [ends EXCEPT ![c] = Tail(@)]
  /\ UNCHANGED <<todo, lock, shut, chanClosed, file, panics, childVars, waiter, stderrVars>>

\* Lock, call closeFunc and close the channel, keeping the lock.
CloseChan(c, e) ==
  /\ ends[c] # <<>> /\ e = Head(ends[c])
  /\ lock[e] = None /\ ~shut[e] /\ ~chanClosed[e]
  /\ lock' = [lock EXCEPT ![e] = c]
  /\ chanClosed' = [chanClosed EXCEPT ![e] = TRUE]
  /\ UNCHANGED <<todo, ends, shut, file, panics, childVars, waiter, stderrVars>>

\* Lock, call closeFunc and find the channel closed: close panics, the deferred
\* Unlock runs and the caller goes no further.
ClosePanics(c, e) ==
  /\ ends[c] # <<>> /\ e = Head(ends[c])
  /\ lock[e] = None /\ ~shut[e] /\ chanClosed[e]
  /\ panics' = panics \cup {e}
  /\ ends' = [ends EXCEPT ![c] = <<>>] /\ todo' = [todo EXCEPT ![c] = <<>>]
  /\ UNCHANGED <<lock, shut, chanClosed, file, childVars, waiter, stderrVars>>

\* Close the file and unlock.  A file that cmd.Wait has closed meanwhile gives
\* an error, and then the closed flag is not set.
CloseFile(c, e) ==
  /\ ends[c] # <<>> /\ e = Head(ends[c])
  /\ lock[e] = c
  /\ shut' = [shut EXCEPT ![e] = file[e] = "open"]
  /\ file' = [file EXCEPT ![e] = "closed"]
  /\ lock' = [lock EXCEPT ![e] = None]
  /\ ends' = [ends EXCEPT ![c] = Tail(@)]
  /\ UNCHANGED <<todo, chanClosed, panics, childVars, waiter, stderrVars>>

-----------------------------------------------------------------------------
(***************************************************************************)
(* The waiter, the killer and the stderr logger.                           *)
(***************************************************************************)

\* Mutant: the waiter receives from stdoutClosed alone.
ReceiveStdoutClosed(e) ==
  /\ e = "Reader" /\ waiter = "Writer" /\ chanClosed[e]
  /\ waiter' = "wait" /\ killer' = "term"
  /\ UNCHANGED <<closeVars, file, panics, child, signals, stderrVars>>

\* Mutant: the waiter does not wait for the ends to be closed.
ReceiveNothing(e) ==
  /\ waiter = e
  /\ IF e = "Writer"
     THEN waiter' = "Reader" /\ killer' = killer
     ELSE waiter' = "wait" /\ killer' = "term"
  /\ UNCHANGED <<closeVars, file, panics, child, signals, stderrVars>>

\* The waiter receives from stdinClosed and then from stdoutClosed.
ReceiveClosed(e) ==
  /\ waiter = e /\ chanClosed[e]
  /\ IF e = "Writer"
     THEN waiter' = "Reader" /\ killer' = killer
     ELSE waiter' = "wait" /\ killer' = "term"
  /\ UNCHANGED <<closeVars, file, panics, child, signals, stderrVars>>

\* cmd.Wait: the process has exited and is reaped.
Reap ==
  /\ waiter = "wait" /\ child = "exited"
  /\ child' = "reaped" /\ waiter' = "closing"
  /\ UNCHANGED <<closeVars, file, panics, killer, signals, stderrVars>>

\* cmd.Wait closes the parent's pipe files and returns; cancel is deferred.
WaitReturns ==
  /\ waiter = "closing"
  /\ file' = [e \in Ends |-> "closed"]
  /\ waiter' = "done"
  /\ UNCHANGED <<closeVars, panics, childVars, stderrVars>>

\* The 10 s timer fires first; signalling a child that was reaped does nothing.
Terminate ==
  /\ killer = "term"
  /\ killer' = "kill"
  /\ signals' = IF child = "reaped" THEN signals ELSE signals \cup {"TERM"}
  /\ UNCHANGED <<closeVars, file, panics, child, waiter, stderrVars>>

\* Mutant: the second timer only logs.
KillLogsOnly ==
  /\ killer = "kill"
  /\ killer' = "done"
  /\ UNCHANGED <<closeVars, file, panics, child, signals, waiter, stderrVars>>

\* The second 10 s timer fires first.
Kill ==
  /\ killer = "kill"
  /\ killer' = "done"
  /\ signals' = IF child = "reaped" THEN signals ELSE signals \cup {"KILL"}
  /\ UNCHANGED <<closeVars, file, panics, child, waiter, stderrVars>>

\* The context is cancelled first.
KillerCancelled ==
  /\ killer \in {"term", "kill"} /\ waiter = "done"
  /\ killer' = "done"
  /\ UNCHANGED <<closeVars, file, panics, child, signals, waiter, stderrVars>>

\* The logger scans a line and logs it, until Wait has closed its pipe.
LogLine ==
  /\ logged < written /\ waiter # "done"
  /\ logged' = logged + 1
  /\ UNCHANGED <<closeVars, file, panics, childVars, waiter, written>>

-----------------------------------------------------------------------------
(* The child, a program of the user's: it may exit when it likes. *)

ChildWrites ==
  /\ child = "running" /\ written < MaxLines
  /\ written' = written + 1
  /\ UNCHANGED <<closeVars, file, panics, childVars, waiter, logged>>

ChildExits ==
  /\ child = "running"
  /\ child' = "exited"
  /\ UNCHANGED <<closeVars, file, panics, killer, signals, waiter, stderrVars>>

-----------------------------------------------------------------------------
CallerStep(c) ==
  \E e \in Ends : CloseAgain(c, e) \/ CloseChan(c, e) \/ ClosePanics(c, e) \/ CloseFile(c, e)

Next ==
  \/ \E c \in Callers : BeginCall(c) \/ CallerStep(c)
  \/ \E e \in Ends : ReceiveClosed(e)
  \/ Reap \/ WaitReturns \/ Terminate \/ Kill \/ KillerCancelled \/ LogLine
  \/ ChildWrites \/ ChildExits

\* A copy that has ended closes the connection too, so the others end as well,
\* and a deferred Close runs once the copies it waits for have ended.
Prompted(c) == After[c] # {} \/ \E d \in Callers \ {c} : Finished(d)

\* Goroutines that can run do run, timers fire and SIGKILL works; nothing is
\* assumed of when the first copy ends or of a child that was not killed.
Fairness ==
  /\ \A c \in Callers : /\ WF_vars(CallerStep(c))
                        /\ WF_vars(Prompted(c) /\ BeginCall(c))
  /\ \A e \in Ends : WF_vars(ReceiveClosed(e))
  /\ WF_vars(Reap) /\ WF_vars(WaitReturns) /\ WF_vars(LogLine)
  /\ WF_vars(Terminate \/ Kill \/ KillerCancelled)
  /\ WF_vars("KILL" \in signals /\ ChildExits)

Spec == Init /\ [][Next]_vars /\ Fairness

-----------------------------------------------------------------------------
TypeOK ==
  /\ todo \in [Callers -> Seq(Ops)] /\ ends \in [Callers -> Seq(Ends)]
  /\ lock \in [Ends -> Callers \cup {None}]
  /\ shut \in [Ends -> BOOLEAN] /\ chanClosed \in [Ends -> BOOLEAN]
  /\ file \in [Ends -> {"open", "closed"}]
  /\ panics \subseteq Ends
  /\ child \in {"running", "exited", "reaped"}
  /\ waiter \in Ends \cup {"wait", "closing", "done"}
  /\ killer \in {"unborn", "term", "kill", "done"}
  /\ signals \subseteq {"TERM", "KILL"}
  /\ written \in 0..MaxLines /\ logged \in 0..MaxLines

\* The flag of an end guards its channel: a goroutine that closes an end which
\* somebody has closed before gets nil and no panic (io.go:120, io.go:148), so
\* a subprocess handles an "individual" stream (README.md:14) and the end of
\* one stream never takes the server down with all others.
NoDoubleClose == panics = {}

\* The channel of the Reader is never closed twice, however many goroutines
\* call Stream.Close, because each of them closes the Reader first and the
\* waiter cannot run before the Writer's channel is closed too (stream.go:15).
ReaderClosedOnce == "Reader" \notin panics

\* cmd.Wait is not called while somebody may still read the child's stdout: by
\* then a Close has closed that file itself, so no output is cut off by Wait
\* closing it under a copy (exec.go:66 "Wait for reader and writer to be
\* closed").
WaitAfterReader == waiter \in {"wait", "closing", "done"} => file["Reader"] = "closed"

\* A child is signalled only once both ends have been closed, and killed only
\* after it has had its chance to terminate (exec.go:66-91).
SignalsInOrder ==
  /\ signals # {} => chanClosed["Reader"] /\ chanClosed["Writer"]
  /\ "KILL" \in signals => "TERM" \in signals

\* Once both ends are closed the child is reaped, even if it ignores the end of
\* its stdin and SIGTERM (exec.go:65-96).
ClosedStreamIsReaped ==
  (chanClosed["Reader"] /\ chanClosed["Writer"]) ~> child = "reaped"

\* One copy that ends is enough: all callers return from Close, none waits on
\* another for ever, and the child is reaped (tcp.go:95-118).
OneEndsAllEnd ==
  (\E c \in Callers : todo[c] # Program[c])
    ~> (child = "reaped" /\ \A c \in Callers : Finished(c))
=============================================================================
