----------------------------- MODULE PlainStream -----------------------------
(***************************************************************************)
(* What the user of a stream may expect of it, logged or not: its Reader   *)
(* returns the source piece by piece and in order, its Writer passes on    *)
(* what it is given, and Close of either end ends the calls on that end.   *)
(*                                                                         *)
(* A chunk is what one Read or Write of the stream below moves; it has     *)
(* Pieces pieces.                                                          *)
(***************************************************************************)
EXTENDS Naturals

CONSTANT Pieces

VARIABLES
  fed,    \* chunks the source has come up with
  ended,  \* the source has ended
  reader, \* "idle", "reading" or "over": the calls of Read
  writer, \* "idle", "writing", "written" or "over": those of Write
  got,    \* pieces that Read has returned
  put,    \* pieces that have been passed on
  open    \* the ends that are not closed

vars == <<fed, ended, reader, writer, got, put, open>>

Init ==
  /\ fed = 0 /\ ended = FALSE
  /\ reader = "idle" /\ writer = "idle" /\ got = 0 /\ put = 0
  /\ open = {"Reader", "Writer"}

Feed ==
  /\ ~ended
  /\ fed' = fed + 1 /\ ended' \in BOOLEAN
  /\ UNCHANGED <<reader, writer, got, put, open>>

End == ~ended /\ ended' = TRUE /\ UNCHANGED <<fed, reader, writer, got, put, open>>

Read == reader = "idle" /\ reader' = "reading" /\ UNCHANGED <<fed, ended, writer, got, put, open>>

\* All of a chunk, or what a Close has left of it.
ReadReturns ==
  /\ reader = "reading" /\ got < fed * Pieces
  /\ \/ got' = got + Pieces /\ reader' = "idle"
     \/ "Reader" \notin open /\ got' \in got..(got + Pieces - 1) /\ reader' = "over"
  /\ UNCHANGED <<fed, ended, writer, put, open>>

ReadFails ==
  /\ reader = "reading"
  /\ "Reader" \notin open \/ (ended /\ got = fed * Pieces)
  /\ reader' = "over"
  /\ UNCHANGED <<fed, ended, writer, got, put, open>>

Write == writer = "idle" /\ writer' = "writing" /\ UNCHANGED <<fed, ended, reader, got, put, open>>

PassOn ==
  /\ writer = "writing" /\ writer' = "written" /\ put' = put + Pieces
  /\ UNCHANGED <<fed, ended, reader, got, open>>

WriteReturns == writer = "written" /\ writer' = "idle" /\ UNCHANGED <<fed, ended, reader, got, put, open>>

\* A chunk that was passed on may be reported as failed when the end is closed
\* meanwhile.
WriteFails ==
  /\ writer = "writing" \/ (writer = "written" /\ "Writer" \notin open)
  /\ writer' = "over"
  /\ UNCHANGED <<fed, ended, reader, got, put, open>>

Close(e) ==
  /\ e \in open /\ open' = open \ {e}
  /\ UNCHANGED <<fed, ended, reader, writer, got, put>>

Next ==
  \/ Feed \/ End \/ Read \/ ReadReturns \/ ReadFails
  \/ Write \/ PassOn \/ WriteReturns \/ WriteFails
  \/ \E e \in {"Reader", "Writer"} : Close(e)

Spec == Init /\ [][Next]_vars

\* A Read with something to return returns, and so does a Write that was passed on.
FairSpec ==
  Spec /\ WF_vars(ReadReturns \/ ReadFails) /\ WF_vars(WriteReturns \/ (writer = "written" /\ WriteFails))
=============================================================================
