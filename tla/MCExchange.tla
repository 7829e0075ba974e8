------------------------------- MODULE MCExchange -------------------------------
EXTENDS Exchange
Started(secure, exitSecure, echo) ==
  [secure |-> secure, exitSecure |-> exitSecure, echo |-> echo]
(* Both with padding, and both without and exit.py with --echo.             *)
SameMode == {Started(TRUE, TRUE, FALSE), Started(FALSE, FALSE, TRUE)}
(* Padding at one end only: scattered.py pads unless told otherwise, exit.py *)
(* only with --no-proxy.                                                    *)
MixedMode == {Started(TRUE, FALSE, FALSE), Started(FALSE, TRUE, FALSE)}
AllModes == SameMode \cup MixedMode
(* Only the first client probes the exit.  With padding at one end nobody   *)
(* restarts the exit, and messages are empty or a pair of keys without their *)
(* first word.                                                              *)
Few ==
  /\ current[2] # <<2, 0>>
  /\ mode \in MixedMode =>
       /\ generation = 0
       /\ \A c \in Client : \A k \in DOMAIN sent[c] : Len(sent[c][k]) \in {0, 9}
================================================================================
