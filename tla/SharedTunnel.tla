----------------------------- MODULE SharedTunnel -----------------------------
(***************************************************************************)
(* The client's end of the tunnel: SharedTunnel and relay_over_tunnel of   *)
(* proxy/tunnel_mux.py over StreamCircuit of client/scattered.py.          *)
(*                                                                         *)
(* One handler thread per browser connection asks for a stream; the        *)
(* runner thread opens circuits and dispatches the frames of the current   *)
(* one; each circuit has a receiving thread that notices its end.  A       *)
(* handler is named by the stream id it is given.                          *)
(***************************************************************************)
EXTENDS TunnelWire

VARIABLES
  runner,      \* "opening", "serving" or "dead" (open_tunnel raised)
  circuit,     \* the current circuit, 0 while there is none
  active,      \* active[c]: StreamCircuit.active
  nextId,      \* the next stream id
  registered,  \* registered[s]: s has entries in _streams and _ready_events
  ready,       \* ready[s]: its event is set
  queue,       \* queue[s]: payloads dispatched to s and not yet taken
  handler,     \* handler[s]: where the browser connection's thread is
  dest,        \* dest[s]: the destination the browser asked for
  sent,        \* sent[s]: payloads the browser has given to stream s
  got          \* history: got[s], the payloads handed to the browser

runnerVars == <<runner, circuit, active>>
tableVars == <<nextId, registered, ready, queue>>
handlerVars == <<handler, dest, sent, got>>
clientVars == <<runnerVars, tableVars, handlerVars>>

ClientTypeOK ==
  /\ runner \in {"opening", "serving", "dead"}
  /\ circuit \in Circuit \cup {0}
  /\ active \in [Circuit -> BOOLEAN]
  /\ nextId \in 1 .. MaxStreams + 1
  /\ registered \in [StreamId -> BOOLEAN]
  /\ ready \in [StreamId -> BOOLEAN]
  /\ queue \in [StreamId -> Seq(DownData)]
  /\ handler \in [StreamId -> {"none", "sendopen", "wait", "relay", "ended",
                               "failed"}]
  /\ dest \in [StreamId -> Host \cup {NoHost}]
  /\ sent \in [StreamId -> 0 .. MaxUp]
  /\ got \in [StreamId -> Seq(DownData)]

ClientInit ==
  /\ runner = "opening"
  /\ circuit = 0
  /\ active = [c \in Circuit |-> FALSE]
  /\ nextId = 1
  /\ registered = [s \in StreamId |-> FALSE]
  /\ ready = [s \in StreamId |-> FALSE]
  /\ queue = [s \in StreamId |-> <<>>]
  /\ handler = [s \in StreamId |-> "none"]
  /\ dest = [s \in StreamId |-> NoHost]
  /\ sent = [s \in StreamId |-> 0]
  /\ got = [s \in StreamId |-> <<>>]

-------------------------------------------------------------------------------
(* _send, which ends in StreamCircuit.send.                                 *)

CircuitUp == circuit # 0 /\ active[circuit]

Send(f) ==
  /\ CircuitUp
  /\ link[circuit] = "open"
  /\ toExit' = [toExit EXCEPT ![circuit] = Append(@, f)]
  /\ UNCHANGED <<link, toClient>>

(* Written to a circuit already cut, or dropped by StreamCircuit.send, whose *)
(* own test of active may come after the receiving thread cleared it.       *)
SendLost ==
  /\ CircuitUp
  /\ link[circuit] = "closed"
  /\ UNCHANGED wireVars

(* OSError: no active circuit, or the socket refuses the write.             *)
SendRaises ==
  /\ CircuitUp => link[circuit] = "closed"
  /\ UNCHANGED wireVars

(* Mutated form: the queue is set to None instead of being removed.         *)
UnregisterToNone(s) ==
  /\ registered' = [registered EXCEPT ![s] = FALSE]
  /\ queue' = [queue EXCEPT ![s] = NoData]

(* pop(stream_id, None) on both tables.                                     *)
Unregister(s) ==
  /\ registered' = [registered EXCEPT ![s] = FALSE]
  /\ queue' = [queue EXCEPT ![s] = <<>>]

MoveTo(s, pc) == handler' = [handler EXCEPT ![s] = pc]

-------------------------------------------------------------------------------
(* open_stream.                                                             *)

(* _ensure_circuit has seen an active circuit; the id is allocated and      *)
(* entered in both tables.                                                  *)
Register(h) ==
  /\ CircuitUp
  /\ nextId \in StreamId
  /\ nextId' = nextId + 1
  /\ registered' = [registered EXCEPT ![nextId] = TRUE]
  /\ MoveTo(nextId, "sendopen")
  /\ dest' = [dest EXCEPT ![nextId] = h]
  /\ UNCHANGED <<wireVars, runnerVars, ready, queue, sent, got>>

SendOpen(s) ==
  /\ handler[s] = "sendopen"
  /\ Send(OpenFrame(s, dest[s])) \/ SendLost
  /\ MoveTo(s, "wait")
  /\ UNCHANGED <<runnerVars, tableVars, dest, sent, got>>

(* The exception leaves open_stream before anything is popped.              *)
SendOpenRaises(s) ==
  /\ handler[s] = "sendopen"
  /\ SendRaises
  /\ MoveTo(s, "failed")
  /\ UNCHANGED <<runnerVars, tableVars, dest, sent, got>>

(* Mutated form: open_stream does not wait for READY.                       *)
BecomeReadyAtOnce(s) ==
  /\ handler[s] = "wait"
  /\ MoveTo(s, "relay")
  /\ UNCHANGED <<wireVars, runnerVars, tableVars, dest, sent, got>>

BecomeReady(s) ==
  /\ handler[s] = "wait"
  /\ ready[s]
  /\ MoveTo(s, "relay")
  /\ UNCHANGED <<wireVars, runnerVars, tableVars, dest, sent, got>>

(* The browser is gone when 200 Connection Established is written to it:    *)
(* _handle_connection leaves without close_stream.                          *)
BrowserLeft(s) ==
  /\ handler[s] = "wait"
  /\ ready[s]
  /\ MoveTo(s, "failed")
  /\ UNCHANGED <<wireVars, runnerVars, tableVars, dest, sent, got>>

(* No READY in time: the entries are popped and no CLOSE is sent.           *)
OpenTimeout(s) ==
  /\ handler[s] = "wait"
  /\ ~ready[s]
  /\ MoveTo(s, "failed")
  /\ Unregister(s)
  /\ UNCHANGED <<wireVars, runnerVars, nextId, ready, dest, sent, got>>

-------------------------------------------------------------------------------
(* relay_over_tunnel: its two threads, then close_stream.                   *)

BrowserSend(s) ==
  /\ handler[s] = "relay"
  /\ sent[s] < MaxUp
  /\ sent' = [sent EXCEPT ![s] = @ + 1]
  /\ Send(DataFrame(s, [from |-> s, n |-> sent[s] + 1])) \/ SendLost
  /\ UNCHANGED <<runnerVars, tableVars, handler, dest, got>>

BrowserRecv(s) ==
  /\ handler[s] = "relay"
  /\ queue[s] # <<>>
  /\ got' = [got EXCEPT ![s] = Append(@, Head(queue[s]))]
  /\ queue' = [queue EXCEPT ![s] = Tail(@)]
  /\ UNCHANGED <<wireVars, runnerVars, nextId, registered, ready, handler, dest, sent>>

(* The browser closes, stays idle for 120 s or refuses a write, or the      *)
(* tunnel refuses one: the first thread to end stops the other, and         *)
(* close_stream sends CLOSE if it can and pops the entries.                 *)
EndStream(s) ==
  /\ handler[s] = "relay"
  /\ Send(CloseFrame(s)) \/ SendLost \/ SendRaises
  /\ MoveTo(s, "ended")
  /\ Unregister(s)
  /\ UNCHANGED <<runnerVars, nextId, ready, dest, sent, got>>

-------------------------------------------------------------------------------
(* _run, and the receiving thread of the circuit.                           *)

(* open_tunnel: the entry relay takes the connection and the onion.         *)
OpenTunnel(c) ==
  /\ runner = "opening"
  /\ link[c] = "unused"
  /\ \A d \in 1 .. c - 1 : link[d] # "unused"
  /\ link' = [link EXCEPT ![c] = "open"]
  /\ circuit' = c
  /\ active' = [active EXCEPT ![c] = TRUE]
  /\ runner' = "serving"
  /\ UNCHANGED <<toExit, toClient, tableVars, handlerVars>>

(* No live network or an unreachable entry: nothing catches the exception.  *)
OpenTunnelRaises ==
  /\ runner = "opening"
  /\ runner' = "dead"
  /\ UNCHANGED <<wireVars, circuit, active, tableVars, handlerVars>>

(* The head of the circuit's queue, for the stream it names.                *)
Dispatch(c) ==
  /\ circuit = c
  /\ toClient[c] # <<>>
  /\ toClient' = [toClient EXCEPT ![c] = Tail(@)]
  /\ LET f == Head(toClient[c]) IN
       /\ ready' = IF f.cmd = "READY" /\ registered[f.sid]
                   THEN [ready EXCEPT ![f.sid] = TRUE] ELSE ready
       /\ queue' = IF f.cmd = "DATA" /\ registered[f.sid]
                   THEN [queue EXCEPT ![f.sid] = Append(@, f.data)] ELSE queue
  /\ UNCHANGED <<link, toExit, runnerVars, nextId, registered, handlerVars>>

(* _recv_loop reads the end of the circuit.  The runner tests active before *)
(* each recv, so it takes at most one more frame.                           *)
CircuitLost(c) ==
  /\ link[c] = "closed"
  /\ active[c]
  /\ active' = [active EXCEPT ![c] = FALSE]
  /\ \E k \in {0, 1} : /\ k <= Len(toClient[c])
                       /\ toClient' = [toClient EXCEPT ![c] = SubSeq(@, 1, k)]
  /\ UNCHANGED <<link, toExit, runner, circuit, tableVars, handlerVars>>

(* The while loop ends; the circuit and what its queue held are dropped.    *)
RunnerReopens ==
  /\ circuit # 0
  /\ ~active[circuit]
  /\ circuit' = 0
  /\ toClient' = [toClient EXCEPT ![circuit] = <<>>]
  /\ runner' = "opening"
  /\ UNCHANGED <<link, toExit, active, tableVars, handlerVars>>

-------------------------------------------------------------------------------
HandlerStep(s) ==
  \/ SendOpen(s) \/ SendOpenRaises(s) \/ BecomeReady(s) \/ BrowserLeft(s)
  \/ OpenTimeout(s) \/ BrowserSend(s) \/ BrowserRecv(s) \/ EndStream(s)

RunnerStep ==
  \/ \E c \in Circuit : OpenTunnel(c) \/ Dispatch(c)
  \/ OpenTunnelRaises \/ RunnerReopens

ClientNext ==
  \/ \E h \in Host : Register(h)
  \/ \E s \in StreamId : HandlerStep(s)
  \/ RunnerStep
  \/ \E c \in Circuit : CircuitLost(c)
================================================================================
