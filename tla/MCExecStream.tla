---------------------------- MODULE MCExecStream ----------------------------
(* The goroutines that close an exec stream, for the schemes that do. *)
EXTENDS ExecStream

\* tcp, tls and websocket: two copies, and the handler that waits for them.
CopyCallers == {"recv", "send", "handler"}
CopyProgram == [c \in CopyCallers |-> <<"Close">>]
CopyAfter == [c \in CopyCallers |-> IF c = "handler" THEN {"recv", "send"} ELSE {}]
=============================================================================
