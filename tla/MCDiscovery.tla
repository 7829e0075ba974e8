------------------------------- MODULE MCDiscovery -------------------------------
EXTENDS Discovery
(* Services of two machines, one of them the client's: a secure client that *)
(* asks the directory and uses all relays, one that wants two relays and    *)
(* prefers the exit on port 2, and an insecure one that scans the ports of  *)
(* the other machine.                                                       *)
AskAndScan ==
  {[useRegistry |-> TRUE, scanHost |-> Local, exitPort |-> 0, numNodes |-> 0,
    useAll |-> TRUE, secure |-> TRUE],
   [useRegistry |-> TRUE, scanHost |-> Local, exitPort |-> 2, numNodes |-> 2,
    useAll |-> FALSE, secure |-> TRUE],
   [useRegistry |-> FALSE, scanHost |-> 2, exitPort |-> 0, numNodes |-> 1,
    useAll |-> FALSE, secure |-> FALSE]}
(* Two relays on different ports and an exit; one relay and an exit on port *)
(* 2 of either machine.                                                     *)
RelaysAndExits ==
  LET Install(a, b, c, d) == <<1, 1>> :> a @@ <<1, 2>> :> b @@ <<2, 1>> :> c @@ <<2, 2>> :> d
  IN {Install("relay", "relay", "none", "exit"), Install("none", "exit", "relay", "exit")}
(* Those of the client's machine go by localhost, those of the other by its *)
(* address, and the one on its port 1 also by localhost.                    *)
Names == ({1} \X Port \X {Local}) \cup ({2} \X Port \X {2}) \cup {<<2, 1, Local>>}
================================================================================
