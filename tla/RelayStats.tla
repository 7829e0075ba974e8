------------------------------- MODULE RelayStats --------------------------------
(***************************************************************************)
(* What a relay counts (node/stats.py) while the handlers and the copying  *)
(* threads of its connections run (node/relay.py) and the dashboard reads  *)
(* (node/dashboard.py).  Each call on NodeStats holds its lock; the calls  *)
(* of different threads interleave, and so do a call and the operation on  *)
(* the socket that it counts.  All messages have the same length, 1.       *)
(***************************************************************************)
EXTENDS Integers, FiniteSets, Functions

CONSTANTS
  Conn,          \* the connections that clients and relays may make
  MaxMessages    \* bound: messages that one thread copies

ASSUME StatsAssumption == MaxMessages \in Nat
ASSUME FiniteAssumption == IsFiniteSet(Conn)

Direction == {"next", "back"}     \* the threads next_node and back_node

VARIABLES
  at,        \* at[c]: where handle_connection stands
  isOpen,    \* isOpen[c]: the socket of the peer has not been closed
  thread,    \* thread[c][d]: "off", "recv", "send" or "done"
  copied,    \* copied[c][d]: messages received by the thread
  live,      \* _live
  row,       \* row[c]: bytes_in, bytes_out and closed of the ConnectionRecord
  total, active, bytesIn, bytesOut   \* total_connections, active_connections, ...

socketVars == <<isOpen, thread, copied>>
countVars == <<live, row, total, active, bytesIn, bytesOut>>
statsVars == <<at, socketVars, countVars>>

StatsInit ==
  /\ at = [c \in Conn |-> "none"]
  /\ isOpen = [c \in Conn |-> FALSE]
  /\ thread = [c \in Conn |-> [d \in Direction |-> "off"]]
  /\ copied = [c \in Conn |-> [d \in Direction |-> 0]]
  /\ live = {}
  /\ row = [c \in Conn |-> [in |-> 0, out |-> 0, closed |-> FALSE]]
  /\ total = 0 /\ active = 0 /\ bytesIn = 0 /\ bytesOut = 0

---------------------------------------------------------------------------------
(* NodeStats.                                                               *)

OpenConnection(c) ==
  /\ live' = live \cup {c}
  /\ total' = total + 1 /\ active' = active + 1
  /\ UNCHANGED <<row, bytesIn, bytesOut>>

(* The count goes down whether or not the record is still there.            *)
CloseConnection(c) ==
  /\ live' = live \ {c}
  /\ row' = [row EXCEPT ![c].closed = @ \/ c \in live]
  /\ active' = IF active > 0 THEN active - 1 ELSE 0
  /\ UNCHANGED <<total, bytesIn, bytesOut>>

RecordIn(c) ==
  /\ bytesIn' = bytesIn + 1
  /\ row' = [row EXCEPT ![c].in = IF c \in live THEN @ + 1 ELSE @]
  /\ UNCHANGED <<live, total, active, bytesOut>>

RecordOut(c, n) ==
  /\ bytesOut' = bytesOut + n
  /\ row' = [row EXCEPT ![c].out = IF c \in live THEN @ + n ELSE @]
  /\ UNCHANGED <<live, total, active, bytesIn>>

---------------------------------------------------------------------------------
(* handle_connection and what it calls.                                     *)

Goes(c, from, to) == at[c] = from /\ at' = [at EXCEPT ![c] = to]

Accept(c) ==
  /\ Goes(c, "none", "first")
  /\ isOpen' = [isOpen EXCEPT ![c] = TRUE]
  /\ OpenConnection(c)
  /\ UNCHANGED <<thread, copied>>

(* The first message; a probe or a request for the key gets a reply.        *)
First(c) ==
  /\ \E next \in {"reply", "layer", "close"} : Goes(c, "first", next)
  /\ RecordIn(c) /\ UNCHANGED socketVars

ReplyThenCount(c) ==                     \* mutant: counted after the close
  \/ /\ Goes(c, "reply", "replied") /\ CloseConnection(c) /\ UNCHANGED socketVars
  \/ /\ Goes(c, "replied", "done") /\ RecordOut(c, 1) /\ UNCHANGED socketVars
Reply(c) ==
  /\ Goes(c, "reply", "close")
  /\ RecordOut(c, 1) /\ UNCHANGED socketVars

(* handle_onion_client, handle_relay: the layer.                            *)
Layer(c) ==
  /\ Goes(c, "layer", "connect")
  /\ RecordIn(c) /\ UNCHANGED socketVars

ConnectFromLayer(c) ==
  /\ Goes(c, "connect", "hello")
  /\ UNCHANGED <<socketVars, countVars>>

(* The next hop cannot be reached: connect_from_layer closes and returns.   *)
ConnectFromLayerRaises(c) ==              \* mutant: the handler closes again
  /\ Goes(c, "connect", "close")
  /\ isOpen' = [isOpen EXCEPT ![c] = FALSE]
  /\ CloseConnection(c) /\ UNCHANGED <<thread, copied>>
ConnectFromLayerFails(c) ==
  /\ Goes(c, "connect", "done")
  /\ isOpen' = [isOpen EXCEPT ![c] = FALSE]
  /\ CloseConnection(c) /\ UNCHANGED <<thread, copied>>

(* The inner layer, if there is one, after RELAY if the next hop is a relay;*)
(* then both threads start and the handler returns.                         *)
StartForwarding(c) ==
  /\ Goes(c, "hello", "done")
  /\ thread' = [thread EXCEPT ![c] = [d \in Direction |-> "recv"]]
  /\ \E n \in {0, 1, 2} : RecordOut(c, n)
  /\ UNCHANGED <<isOpen, copied>>

(* The end of the stream, or any exception, at whatever step.               *)
GivesUp(c) ==
  /\ \E from \in {"first", "reply", "layer", "connect"} : Goes(c, from, "close")
  /\ UNCHANGED <<socketVars, countVars>>

(* The next hop is gone, maybe after it has been sent RELAY.                *)
HelloFails(c) ==
  /\ Goes(c, "hello", "close")
  /\ \E n \in {0, 1} : RecordOut(c, n)
  /\ UNCHANGED socketVars

CloseSocket(c) ==
  /\ Goes(c, "close", "count")
  /\ isOpen' = [isOpen EXCEPT ![c] = FALSE]
  /\ UNCHANGED <<thread, copied, countVars>>

Count(c) ==
  /\ Goes(c, "count", "done")
  /\ CloseConnection(c) /\ UNCHANGED socketVars

---------------------------------------------------------------------------------
(* next_node and back_node.                                                 *)

ThreadGoes(c, d, from, to) ==
  thread[c][d] = from /\ thread' = [thread EXCEPT ![c][d] = to]

CopyRecv(c, d) ==
  /\ ThreadGoes(c, d, "recv", "send")
  /\ isOpen[c] /\ copied[c][d] < MaxMessages
  /\ copied' = [copied EXCEPT ![c][d] = @ + 1]
  /\ RecordIn(c)
  /\ UNCHANGED <<at, isOpen>>

CopySend(c, d) ==
  /\ ThreadGoes(c, d, "send", "recv")
  /\ RecordOut(c, 1)
  /\ UNCHANGED <<at, isOpen, copied>>

(* socket.timeout while sending: the message is gone.                       *)
CopyTimesOut(c, d) ==
  /\ ThreadGoes(c, d, "send", "recv")
  /\ UNCHANGED <<at, isOpen, copied, countVars>>

(* The end of one stream closes both sockets, an exception none.            *)
CopyEnds(c, d) ==
  /\ ThreadGoes(c, d, "recv", "done")
  /\ isOpen' = [isOpen EXCEPT ![c] = FALSE]
  /\ UNCHANGED <<at, copied, countVars>>

CopyRaises(c, d) ==
  /\ \E from \in {"recv", "send"} : ThreadGoes(c, d, from, "done")
  /\ UNCHANGED <<at, isOpen, copied, countVars>>

StatsNext ==
  \E c \in Conn :
    \/ Accept(c) \/ First(c) \/ Reply(c) \/ Layer(c) \/ ConnectFromLayer(c)
    \/ ConnectFromLayerFails(c) \/ StartForwarding(c)
    \/ GivesUp(c) \/ HelloFails(c) \/ CloseSocket(c) \/ Count(c)
    \/ \E d \in Direction :
         CopyRecv(c, d) \/ CopySend(c, d) \/ CopyTimesOut(c, d)
         \/ CopyEnds(c, d) \/ CopyRaises(c, d)

StatsSpec == StatsInit /\ [][StatsNext]_statsVars

---------------------------------------------------------------------------------
(* Properties.                                                              *)

(* The type invariant.                                                      *)
StatsTypeOK ==
  /\ at \in [Conn -> {"none", "first", "reply", "layer", "connect", "hello",
                      "close", "count", "done"}]
  /\ isOpen \in [Conn -> BOOLEAN]
  /\ thread \in [Conn -> [Direction -> {"off", "recv", "send", "done"}]]
  /\ copied \in [Conn -> [Direction -> 0 .. MaxMessages]]
  /\ live \subseteq Conn
  /\ row \in [Conn -> [in : Nat, out : Nat, closed : BOOLEAN]]
  /\ total \in Nat /\ active \in Nat /\ bytesIn \in Nat /\ bytesOut \in Nat

(* No way through the handler counts the end of a connection twice (which   *)
(* would take another one off the count) or of one that it goes on serving: *)
(* the counters, the table and the rows shown agree.                        *)
CountIsLive ==
  /\ StatsTypeOK
  /\ active = Cardinality(live)
  /\ total = Cardinality(live) + Cardinality({c \in Conn : row[c].closed})
  /\ \A c \in live : ~row[c].closed

(* Nothing is counted for a connection after its record is gone: the bytes  *)
(* of the rows add up to the totals, whatever the threads do meanwhile.     *)
BytesAddUp ==
  /\ bytesIn = FoldFunction(+, 0, [c \in Conn |-> row[c].in])
  /\ bytesOut = FoldFunction(+, 0, [c \in Conn |-> row[c].out])
================================================================================
