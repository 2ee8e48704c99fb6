------------------------------- MODULE MCPipe -------------------------------
(* End 1 is an XSUB socket, end 2 its session: the session passes on two-part *)
(* messages with credentials between them, the socket two-part messages, and  *)
(* the session hiccups the pipe when it reconnects, also while the socket is  *)
(* between two parts.                                                         *)
EXTENDS Pipe

MCMaxMsgs == [e \in End |-> 2]
MCHwm == [e \in End |-> e]
=============================================================================
