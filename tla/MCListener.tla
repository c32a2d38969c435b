----------------------------- MODULE MCListener -----------------------------
(* Instance of Listener.  Deadlock is not checked: a process that has ended *)
(* and clients that have made their calls stop.                             *)
EXTENDS Listener
============================================================================
