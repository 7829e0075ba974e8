----------------------------- MODULE MCOnionTunnel -----------------------------
EXTENDS OnionTunnel, TLC

CONSTANT MaxPayloads   \* bound: payloads of a behaviour, an answer counts two
HostSymmetry == Permutations(Host)
Few == FoldFunction(+, 0, sent) + 2 * FoldFunction(+, 0, answers) <= MaxPayloads

(* The way to a payload that strays: one payload is sent, no request fails, *)
(* the third follows it, and the circuit ends without a reset.              *)
Stray ==
  /\ Few
  /\ \A s \in StreamId : handler[s] \notin {"failed", "ended"}
  /\ nextId > 3 => FoldFunction(+, 0, sent) = 1
  /\ runner # "dead"
  /\ \A c \in Circuit : loop[c] # "raised"
================================================================================
