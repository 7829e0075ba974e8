------------------------------- MODULE MCSessions -------------------------------
EXTENDS Sessions
Started(secure, exitNode, again, ownThread) ==
  [secure |-> secure, exitNode |-> exitNode, again |-> again,
   ownThread |-> ownThread]
(* A secure chat server whose loop queues, one whose application queues     *)
(* from its own thread, and an echo server without padding.                 *)
ChatAndEcho == {Started(TRUE, FALSE, FALSE, TRUE), Started(TRUE, FALSE, FALSE, FALSE),
                Started(FALSE, TRUE, TRUE, FALSE)}
================================================================================
