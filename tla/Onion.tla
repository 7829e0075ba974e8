--------------------------------- MODULE Onion ---------------------------------
(***************************************************************************)
(* The layers of an onion (core/onion.py).  A layer is sealed for one key  *)
(* and holds one hop: what kind of node comes next, its address, and the   *)
(* blob to hand to it.  The ciphers are ideal: a layer opens with the key  *)
(* it was sealed for and with no other.                                    *)
(***************************************************************************)
EXTENDS Naturals, Sequences

HOP_NODE == "N"
HOP_SERVER == "S"

PackHop(type, addr, inner) == [type |-> type, addr |-> addr, inner |-> inner]

WrapLayer(key, hop) == [sealedFor |-> key, hop |-> hop]

BuildOnionOneKey(path, server, payload) ==       \* mutant: every layer for the entry
  LET last == Len(path)
      layer[i \in 1 .. last] ==
        WrapLayer(path[1].key,
                  IF i = last THEN PackHop(HOP_SERVER, server, payload)
                  ELSE PackHop(HOP_NODE, path[i + 1].addr, layer[i + 1]))
  IN layer[1]

(* path is a sequence of nodes with a key and an address, the entry first;  *)
(* the i-th layer is what the i-th node is handed.                          *)
OnionLayers(path, server, payload) ==
  LET last == Len(path)
      layer[i \in 1 .. last] ==
        WrapLayer(path[i].key,
                  IF i = last THEN PackHop(HOP_SERVER, server, payload)
                  ELSE PackHop(HOP_NODE, path[i + 1].addr, layer[i + 1]))
  IN layer

BuildOnion(path, server, payload) == OnionLayers(path, server, payload)[1]

(* rsa.decrypt_message raises on a key other than the one sealed for.       *)
CanPeel(key, layer) == layer.sealedFor = key

PeelLayer(layer) == layer.hop
================================================================================
