------------------------------- MODULE MCExec -------------------------------
(* One command with three stdin frames, their end and a signal, two pieces of *)
(* output, and connections that hold one message each way.  The queue holds *)
(* one frame, so that it fills.                                             *)
EXTENDS Exec
=============================================================================
