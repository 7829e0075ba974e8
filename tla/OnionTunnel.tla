------------------------------ MODULE OnionTunnel ------------------------------
(***************************************************************************)
(* The shared onion tunnel: the client's end, the exit's end and the       *)
(* circuits between them, with the properties that relate the two ends.    *)
(***************************************************************************)
EXTENDS SharedTunnel, ExitMux, FiniteSets

vars == <<wireVars, clientVars, exitVars>>

Init == WireInit /\ ClientInit /\ ExitInit

CutStep == (\E c \in Circuit : Cut(c)) /\ UNCHANGED <<clientVars, exitVars>>

Next ==
  \/ ClientNext /\ UNCHANGED exitVars
  \/ ExitNext /\ UNCHANGED clientVars
  \/ CutStep

Spec == Init /\ [][Next]_vars

(* Every thread of the exit keeps running: a connect, a write to a          *)
(* destination and a recv with something to report return.  The client, the *)
(* relays and the destinations owe nothing.                                 *)
ExitFairness ==
  /\ \A c \in Circuit : /\ WF_vars(Accept(c) /\ UNCHANGED clientVars)
                        /\ WF_vars(LoopStep(c) /\ UNCHANGED clientVars)
  /\ \A i \in StreamId : /\ WF_vars(OpenerStep(i) /\ UNCHANGED clientVars)
                         /\ WF_vars(ReaderStops(i) /\ UNCHANGED clientVars)

FairSpec == Spec /\ ExitFairness

TypeOK == WireTypeOK /\ ClientTypeOK /\ ExitTypeOK

-------------------------------------------------------------------------------
(* What is written to a connection are payloads of the stream its opener    *)
(* read, and until relay_mux has seen the end of the circuit that stream    *)
(* was opened for the host the opener read: late openers and reopened       *)
(* circuits may misplace a connection, but hand no stream's bytes to        *)
(* another stream's destination while the circuit is served.  Then the      *)
(* cleanup assigns stream_id alone, and an opener that has not run yet may  *)
(* join one stream's id with another's host; its circuit is cut by then.    *)
RightDestination ==
  \A i \in StreamId :
    /\ \A p \in Range(delivered[i]) : p.from = boundSid[i]
    /\ boundSid[i] # 0 => \/ boundHost[i] = dest[boundSid[i]]
                          \/ Stopped(openCirc[i])

(* What the browser reads from stream s was sent by the destination it      *)
(* asked for.                                                               *)
RightOrigin ==
  \A s \in StreamId : \A p \in Range(got[s]) : p.from = dest[s]

(* A browser is told its stream is established only if the exit made a      *)
(* connection to the destination it asked for.                              *)
EstablishedIsConnected ==
  \A s \in StreamId : handler[s] \in {"relay", "ended"} =>
    \E i \in StreamId : /\ boundSid[i] = s
                        /\ boundHost[i] = dest[s]
                        /\ sock[i] # "none"

(* No opener has run late: each one that has run read the frame that        *)
(* started it, not a later one.                                             *)
NoneLate == \A i \in StreamId : boundSid[i] \in {0, i}

InSequence(q) == \A k \in 1 .. Len(q) : q[k].n = k

(* While no opener ran late, what a destination has received of a stream is *)
(* its first payloads, and what a browser reads are the first answers of    *)
(* one connection, in order and without a gap: writes that race with        *)
(* close_stream, failing writes, parked payloads and a circuit that is      *)
(* replaced under the stream can only cut either short.                     *)
GaplessPrefixes ==
  NoneLate => /\ \A i \in StreamId : InSequence(delivered[i])
              /\ \A s \in StreamId : InSequence(got[s])

(* While no opener ran late, a parked payload is never taken out again:     *)
(* pending only collects data of streams that are already gone, because the *)
(* client waits for READY and READY follows the flush.                      *)
ParkedForEver ==
  [][NoneLate' => \A c \in Circuit, s \in StreamId :
       Len(pending'[c][s]) >= Len(pending[c][s])]_vars

(* When relay_mux has returned, every thread it started ends, also an       *)
(* opener that registers its connection after the cleanup.                  *)
TunnelTeardown ==
  \A c \in Circuit :
    loop[c] = "done" ~>
      \A i \in StreamId : openCirc[i] = c => opener[i] = "done" /\ reader[i] # "run"

(* A circuit that stands is served in the end, although the exit serves one *)
(* connection at a time: relay_mux of the circuit before it returns once    *)
(* that circuit is cut.  An exit whose accept loop was ended by a reset is  *)
(* excepted.                                                                *)
ReopenedTunnelServed ==
  \A c \in Circuit :
    link[c] = "open" ~> \/ loop[c] # "idle"
                       \/ link[c] = "closed"
                       \/ \E d \in Circuit : loop[d] = "raised"

-------------------------------------------------------------------------------
(* Properties the code is said to have and has not.                         *)

(* README.md: parallel requests are handled "as separate multiplexed        *)
(* streams": no two openers open the same stream.                           *)
SeparateStreams ==
  \A i, j \in StreamId : boundSid[i] = boundSid[j] /\ boundSid[i] # 0 => i = j

(* Separate streams, also when the tunnel ends: what is written to a        *)
(* destination was sent on a stream opened for it.                          *)
OwnDestination ==
  \A i \in StreamId : \A p \in Range(delivered[i]) : boundHost[i] = dest[p.from]

-------------------------------------------------------------------------------
(* The tunnel implements the service.                                       *)

Phase(pc) == CASE pc = "none" -> "idle"
               [] pc \in {"sendopen", "wait"} -> "opening"
               [] pc = "relay" -> "open"
               [] OTHER -> "over"

ConnectedStreams ==
  {s \in StreamId : \E i \in StreamId : /\ boundSid[i] = s
                                       /\ boundHost[i] = dest[s]
                                       /\ sock[i] # "none"}

DetachedStreams ==
  {s \in StreamId : \E c \in Circuit : openCirc[s] = c /\ Stopped(c)}

Service == INSTANCE StreamService WITH
  phase <- [s \in StreamId |-> Phase(handler[s])],
  connected <- ConnectedStreams,
  detached <- DetachedStreams,
  arrivals <- [i \in StreamId |-> [k \in 1 .. Len(delivered[i]) |->
                                   [at |-> boundHost[i], what |-> delivered[i][k]]]],
  received <- [s \in StreamId |-> [k \in 1 .. Len(got[s]) |-> got[s][k].from]]

(* Every behaviour of the tunnel is one the abstract service allows.        *)
ImplementsService == Service!Spec
================================================================================
