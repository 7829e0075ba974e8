------------------------------ MODULE MCDirectory ------------------------------
EXTENDS Directory, Functions

CONSTANT MaxStarts   \* bound: starts of all services together
FewStarts == FoldFunction(+, 0, key) <= MaxStarts

ExitAt(h, p) == [type |-> "exit", host |-> h, port |-> p]
RelayAt(h, p) == [type |-> "relay", host |-> h, port |-> p]
(* Two exits and a relay of one host.                                       *)
TwoExitsAndRelay ==
  {ExitAt("h1", 10004), ExitAt("h1", 10005), RelayAt("h1", 10001)}
================================================================================
