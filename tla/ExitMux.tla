------------------------------- MODULE ExitMux -------------------------------
(***************************************************************************)
(* The exit's end of the tunnel: relay_mux of proxy/exit_stream.py and the *)
(* accept loop (exit.py, exit_server.py) that calls it.                    *)
(*                                                                         *)
(* Three kinds of thread run here: the main loop of the circuit being      *)
(* served, one opener thread per OPEN frame, and one reader thread per     *)
(* connection an opener made.  An opener, its connection and its reader    *)
(* are named by the stream id of the OPEN frame that started the opener    *)
(* (the client sends one OPEN per id); the id the opener *uses* is         *)
(* boundSid, which the closure _open reads only when the thread runs.      *)
(***************************************************************************)
EXTENDS TunnelWire

CONSTANT Plain   \* TRUE: exit.py --plain; FALSE: the accept loop is a thread
                 \* of the dashboard process
ASSUME PlainAssumption == Plain \in BOOLEAN

VARIABLES
  serving,    \* the circuit relay_mux serves, 0 while the exit is in accept
  loop,       \* loop[c]: where the main loop of circuit c is
  cur,        \* cur[c]: the loop's variables stream_id and host (and port),
              \* which the closure _open shares
  hand,       \* hand[c]: the payload of a DATA frame and the connection
              \* looked up for it, while the loop handles it
  ids,        \* ids[c]: the streams the cleanup of relay_mux has still to close
  streams,    \* streams[c][s]: the connection registered for stream s, or 0
  pending,    \* pending[c][s]: payloads parked for stream s
  opener,     \* opener[i]: where the opener thread of OPEN frame i is
  openCirc,   \* openCirc[i]: the circuit that frame came on
  boundSid,   \* boundSid[i]: the stream id the opener read
  boundHost,  \* boundHost[i]: the host the opener read
  queued,     \* queued[i]: parked payloads the opener still has to write
  sock,       \* sock[i]: the connection the opener made
  reader,     \* reader[i]: its remote_reader thread
  answers,    \* answers[i]: payloads read from connection i
  delivered   \* history: delivered[i], the payloads written to connection i

loopVars == <<serving, loop, cur, hand, ids>>
openerVars == <<opener, openCirc, boundSid, boundHost, queued>>
socketVars == <<sock, reader, answers, delivered>>
exitVars == <<loopVars, streams, pending, openerVars, socketVars>>

NoVars == [sid |-> 0, host |-> NoHost]
NoHand == [conn |-> 0, data |-> NoData]

ExitTypeOK ==
  /\ serving \in Circuit \cup {0}
  /\ loop \in [Circuit -> {"idle", "recv", "write", "park", "cleanup", "closing",
                           "done", "raised"}]
  /\ cur \in [Circuit -> [sid : StreamId \cup {0}, host : Host \cup {NoHost}]]
  /\ hand \in [Circuit -> [conn : StreamId \cup {0}, data : UpData \cup {NoData}]]
  /\ ids \in [Circuit -> SUBSET StreamId]
  /\ streams \in [Circuit -> [StreamId -> StreamId \cup {0}]]
  /\ pending \in [Circuit -> [StreamId -> Seq(UpData)]]
  /\ opener \in [StreamId -> {"none", "start", "connect", "flush", "done"}]
  /\ openCirc \in [StreamId -> Circuit \cup {0}]
  /\ boundSid \in [StreamId -> StreamId \cup {0}]
  /\ boundHost \in [StreamId -> Host \cup {NoHost}]
  /\ queued \in [StreamId -> Seq(UpData)]
  /\ sock \in [StreamId -> {"none", "open", "closed"}]
  /\ reader \in [StreamId -> {"none", "run", "done"}]
  /\ answers \in [StreamId -> 0 .. MaxDown]
  /\ delivered \in [StreamId -> Seq(UpData)]

ExitInit ==
  /\ serving = 0
  /\ loop = [c \in Circuit |-> "idle"]
  /\ cur = [c \in Circuit |-> NoVars]
  /\ hand = [c \in Circuit |-> NoHand]
  /\ ids = [c \in Circuit |-> {}]
  /\ streams = [c \in Circuit |-> [s \in StreamId |-> 0]]
  /\ pending = [c \in Circuit |-> [s \in StreamId |-> <<>>]]
  /\ opener = [i \in StreamId |-> "none"]
  /\ openCirc = [i \in StreamId |-> 0]
  /\ boundSid = [i \in StreamId |-> 0]
  /\ boundHost = [i \in StreamId |-> NoHost]
  /\ queued = [i \in StreamId |-> <<>>]
  /\ sock = [i \in StreamId |-> "none"]
  /\ reader = [i \in StreamId |-> "none"]
  /\ answers = [i \in StreamId |-> 0]
  /\ delivered = [i \in StreamId |-> <<>>]

-------------------------------------------------------------------------------
(* Shared pieces.                                                           *)

(* close_stream(s): pop s and close the connection that was under it.       *)
CloseStream(c, s) ==
  /\ streams' = [streams EXCEPT ![c][s] = 0]
  /\ sock' = [i \in StreamId |-> IF i = streams[c][s] THEN "closed" ELSE sock[i]]

(* A write to connection i can succeed: this end has not closed it.         *)
Writable(i) == sock[i] = "open"

Deliver(i, d) == delivered' = [delivered EXCEPT ![i] = Append(@, d)]

(* Mutated form: the reader does not look at stop.                          *)
StopIgnored(c) == FALSE

(* stop.is_set(): only the normal end of relay_mux sets it.                 *)
Stopped(c) == loop[c] \in {"cleanup", "closing", "done"}

(* Mutated form: frames of concurrent senders overtake each other.          *)
SendMuxOvertakes(c, f) ==
  /\ link[c] = "open"
  /\ toClient' = [toClient EXCEPT ![c] = <<f>> \o @]
  /\ UNCHANGED <<link, toExit>>

(* send_mux(f): written, written to a circuit that no longer leads          *)
(* anywhere, or refused with OSError.                                       *)
SendMux(c, f) ==
  /\ link[c] = "open"
  /\ toClient' = [toClient EXCEPT ![c] = Append(@, f)]
  /\ UNCHANGED <<link, toExit>>

SendMuxLost(c) == link[c] = "closed" /\ UNCHANGED wireVars
SendMuxFails(c) == link[c] = "closed" /\ UNCHANGED wireVars

-------------------------------------------------------------------------------
(* The accept loop and the main loop of relay_mux.                          *)

(* serve_connection finds the tunnel destination in the first message and   *)
(* calls relay_mux.                                                         *)
EnterMux(c) ==
  /\ loop[c] = "idle"
  /\ link[c] # "unused"
  /\ loop' = [loop EXCEPT ![c] = "recv"]

(* One connection at a time: accept again only when relay_mux has returned. *)
Accept(c) ==
  /\ serving = 0
  /\ EnterMux(c)
  /\ serving' = c
  /\ UNCHANGED <<wireVars, cur, hand, ids, streams, pending, openerVars, socketVars>>

(* coms.recv and parse_mux_frame: the frame replaces the loop's variables.  *)
Recv(c, cmd) ==
  /\ serving = c
  /\ loop[c] = "recv"
  /\ toExit[c] # <<>>
  /\ Head(toExit[c]).cmd = cmd
  /\ LET f == Head(toExit[c]) IN
       cur' = [cur EXCEPT ![c] = [sid |-> f.sid, host |-> f.host]]
  /\ toExit' = [toExit EXCEPT ![c] = Tail(@)]
  /\ UNCHANGED <<link, toClient, serving, ids>>

RecvOpen(c) ==
  /\ Recv(c, "OPEN")
  /\ LET i == Head(toExit[c]).sid IN
       /\ opener' = [opener EXCEPT ![i] = "start"]
       /\ openCirc' = [openCirc EXCEPT ![i] = c]
  /\ UNCHANGED <<loop, hand, streams, pending, boundSid, boundHost, queued,
                 socketVars>>

(* The lookup under streams_lock; what follows it runs without the lock.    *)
RecvData(c) ==
  /\ Recv(c, "DATA")
  /\ LET f == Head(toExit[c])
         r == streams[c][f.sid] IN
       /\ hand' = [hand EXCEPT ![c] = [conn |-> r, data |-> f.data]]
       /\ loop' = [loop EXCEPT ![c] = IF r = 0 THEN "park" ELSE "write"]
  /\ UNCHANGED <<streams, pending, openerVars, socketVars>>

RecvClose(c) ==
  /\ Recv(c, "CLOSE")
  /\ CloseStream(c, Head(toExit[c]).sid)
  /\ UNCHANGED <<loop, hand, pending, openerVars, reader, answers, delivered>>

WriteRemote(c) ==
  /\ loop[c] = "write"
  /\ Writable(hand[c].conn)
  /\ Deliver(hand[c].conn, hand[c].data)
  /\ loop' = [loop EXCEPT ![c] = "recv"]
  /\ hand' = [hand EXCEPT ![c] = NoHand]
  /\ UNCHANGED <<wireVars, serving, cur, ids, streams, pending, openerVars,
                 sock, reader, answers>>

(* Mutated forms: the payload is given up and the stream is kept; the write *)
(* is repeated until it succeeds.                                           *)
WriteSkips(c) ==
  /\ loop[c] = "write"
  /\ loop' = [loop EXCEPT ![c] = "recv"]
  /\ hand' = [hand EXCEPT ![c] = NoHand]
  /\ UNCHANGED <<wireVars, serving, cur, ids, streams, pending, openerVars, socketVars>>

WriteRepeats(c) == loop[c] = "write" /\ UNCHANGED <<wireVars, exitVars>>

WriteFails(c) ==
  /\ loop[c] = "write"
  /\ CloseStream(c, cur[c].sid)
  /\ loop' = [loop EXCEPT ![c] = "recv"]
  /\ hand' = [hand EXCEPT ![c] = NoHand]
  /\ UNCHANGED <<wireVars, serving, cur, ids, pending, openerVars,
                 reader, answers, delivered>>

Park(c) ==
  /\ loop[c] = "park"
  /\ pending' = [pending EXCEPT ![c][cur[c].sid] = Append(@, hand[c].data)]
  /\ loop' = [loop EXCEPT ![c] = "recv"]
  /\ hand' = [hand EXCEPT ![c] = NoHand]
  /\ UNCHANGED <<wireVars, serving, cur, ids, streams, openerVars, socketVars>>

(* What the cut kept from arriving.                                         *)
LoseRest(c) ==
  /\ toExit' = [toExit EXCEPT ![c] = <<>>]
  /\ UNCHANGED <<link, toClient>>

(* End of stream: stop is set, and the registered streams are listed.       *)
TunnelEOF(c) ==
  /\ serving = c
  /\ loop[c] = "recv"
  /\ link[c] = "closed"
  /\ LoseRest(c)
  /\ loop' = [loop EXCEPT ![c] = "cleanup"]
  /\ ids' = [ids EXCEPT ![c] = {s \in StreamId : streams[c][s] # 0}]
  /\ UNCHANGED <<serving, cur, hand, streams, pending, openerVars, socketVars>>

(* for stream_id in ids: the loop assigns the stream_id the openers share,   *)
(* and leaves the host of the last frame beside it.                         *)
CleanupNext(c) ==
  /\ loop[c] = "cleanup"
  /\ \E s \in ids[c] : /\ ids' = [ids EXCEPT ![c] = @ \ {s}]
                       /\ cur' = [cur EXCEPT ![c].sid = s]
  /\ loop' = [loop EXCEPT ![c] = "closing"]
  /\ UNCHANGED <<wireVars, serving, hand, streams, pending, openerVars, socketVars>>

CleanupClose(c) ==
  /\ loop[c] = "closing"
  /\ CloseStream(c, cur[c].sid)
  /\ loop' = [loop EXCEPT ![c] = "cleanup"]
  /\ UNCHANGED <<wireVars, serving, cur, hand, ids, pending, openerVars,
                 reader, answers, delivered>>

(* relay_mux returns and the accept loop goes on.                           *)
Return(c) ==
  /\ loop[c] = "cleanup"
  /\ ids[c] = {}
  /\ loop' = [loop EXCEPT ![c] = "done"]
  /\ serving' = 0
  /\ UNCHANGED <<wireVars, cur, hand, ids, streams, pending, openerVars, socketVars>>

(* Every thread of the exit process is gone, and its sockets with them.     *)
ProcessDies ==
  /\ opener' = [i \in StreamId |-> IF opener[i] = "none" THEN "none" ELSE "done"]
  /\ reader' = [i \in StreamId |-> IF reader[i] = "none" THEN "none" ELSE "done"]
  /\ sock' = [i \in StreamId |-> IF sock[i] = "none" THEN "none" ELSE "closed"]
  /\ streams' = [c \in Circuit |-> [s \in StreamId |-> 0]]
  /\ UNCHANGED <<openCirc, boundSid, boundHost, queued>>

(* coms.recv raises (connection reset): nothing in relay_mux or in the      *)
(* accept loop catches it, so the cleanup is skipped and no connection is   *)
(* ever accepted again.  With --plain the process ends.                     *)
TunnelReset(c) ==
  /\ serving = c
  /\ loop[c] = "recv"
  /\ link[c] = "closed"
  /\ LoseRest(c)
  /\ loop' = [loop EXCEPT ![c] = "raised"]
  /\ IF Plain THEN ProcessDies ELSE UNCHANGED <<streams, openerVars, sock, reader>>
  /\ UNCHANGED <<serving, cur, hand, ids, pending, answers, delivered>>

-------------------------------------------------------------------------------
(* The opener thread: _open, which calls open_remote.                       *)

(* Mutated form: the id is fixed when the thread is created, the host not.  *)
LoopVarsHalfBound(i) == [sid |-> i, host |-> cur[openCirc[i]].host]

(* The loop variables as the thread finds them when it runs.                *)
LoopVars(i) == cur[openCirc[i]]

Bind(i) ==
  /\ opener[i] = "start"
  /\ LoopVars(i).host # NoHost
  /\ boundSid' = [boundSid EXCEPT ![i] = LoopVars(i).sid]
  /\ boundHost' = [boundHost EXCEPT ![i] = LoopVars(i).host]
  /\ opener' = [opener EXCEPT ![i] = "connect"]
  /\ UNCHANGED <<wireVars, loopVars, streams, pending, openCirc, queued, socketVars>>

(* int(None): the TypeError is not an OSError and ends the thread.          *)
BindDies(i) ==
  /\ opener[i] = "start"
  /\ LoopVars(i).host = NoHost
  /\ opener' = [opener EXCEPT ![i] = "done"]
  /\ UNCHANGED <<wireVars, loopVars, streams, pending, openCirc, boundSid,
                 boundHost, queued, socketVars>>

(* connect succeeds; under streams_lock the connection is registered and    *)
(* the parked payloads are taken.                                           *)
ConnectOk(i) ==
  LET c == openCirc[i]
      s == boundSid[i] IN
  /\ opener[i] = "connect"
  /\ sock' = [sock EXCEPT ![i] = "open"]
  /\ streams' = [streams EXCEPT ![c][s] = i]
  /\ queued' = [queued EXCEPT ![i] = pending[c][s]]
  /\ pending' = [pending EXCEPT ![c][s] = <<>>]
  /\ opener' = [opener EXCEPT ![i] = "flush"]
  /\ UNCHANGED <<wireVars, loopVars, openCirc, boundSid, boundHost,
                 reader, answers, delivered>>

(* The except clause of _open: close_stream of the loop's stream_id.        *)
OpenFails(i) ==
  /\ CloseStream(openCirc[i], LoopVars(i).sid)
  /\ opener' = [opener EXCEPT ![i] = "done"]
  /\ UNCHANGED <<wireVars, loopVars, pending, openCirc, boundSid, boundHost,
                 queued, reader, answers, delivered>>

ConnectFails(i) == opener[i] = "connect" /\ OpenFails(i)

Flush(i) ==
  /\ opener[i] = "flush"
  /\ queued[i] # <<>>
  /\ Writable(i)
  /\ Deliver(i, Head(queued[i]))
  /\ queued' = [queued EXCEPT ![i] = Tail(@)]
  /\ UNCHANGED <<wireVars, loopVars, streams, pending, opener, openCirc,
                 boundSid, boundHost, sock, reader, answers>>

FlushFails(i) == opener[i] = "flush" /\ queued[i] # <<>> /\ OpenFails(i)

(* READY is sent, then the reader thread is started.                        *)
SendReady(i) ==
  /\ opener[i] = "flush"
  /\ queued[i] = <<>>
  /\ SendMux(openCirc[i], ReadyFrame(boundSid[i])) \/ SendMuxLost(openCirc[i])
  /\ opener' = [opener EXCEPT ![i] = "done"]
  /\ reader' = [reader EXCEPT ![i] = "run"]
  /\ UNCHANGED <<loopVars, streams, pending, openCirc, boundSid, boundHost,
                 queued, sock, answers, delivered>>

ReadyFails(i) ==
  /\ opener[i] = "flush"
  /\ queued[i] = <<>>
  /\ SendMuxFails(openCirc[i])
  /\ CloseStream(openCirc[i], boundSid[i])
  /\ opener' = [opener EXCEPT ![i] = "done"]
  /\ UNCHANGED <<loopVars, pending, openCirc, boundSid, boundHost, queued,
                 reader, answers, delivered>>

-------------------------------------------------------------------------------
(* The reader thread: remote_reader.                                        *)

(* recv returns data, which goes to the client under the opener's id.  What  *)
(* is read once the circuit is cut goes nowhere and changes nothing here.   *)
RemoteData(i) ==
  /\ reader[i] = "run"
  /\ sock[i] = "open"
  /\ answers[i] < MaxDown
  /\ answers' = [answers EXCEPT ![i] = @ + 1]
  /\ LET d == [from |-> boundHost[i], n |-> answers[i] + 1] IN
       SendMux(openCirc[i], DataFrame(boundSid[i], d))
  /\ UNCHANGED <<loopVars, streams, pending, openerVars, sock, reader, delivered>>

(* The last line of remote_reader: close whatever is registered under the   *)
(* id the reader was given.                                                 *)
ReaderExits(i) ==
  /\ CloseStream(openCirc[i], boundSid[i])
  /\ reader' = [reader EXCEPT ![i] = "done"]
  /\ UNCHANGED <<wireVars, loopVars, pending, openerVars, answers, delivered>>

(* The destination ends or resets the connection, or what it sent could not *)
(* be sent on to the client.                                                *)
RemoteEnds(i) ==
  /\ reader[i] = "run"
  /\ sock[i] = "open"
  /\ ReaderExits(i)

(* stop is set, or another thread closed the connection.                    *)
ReaderStops(i) ==
  /\ reader[i] = "run"
  /\ Stopped(openCirc[i]) \/ sock[i] = "closed"
  /\ ReaderExits(i)

-------------------------------------------------------------------------------
LoopStep(c) ==
  \/ RecvOpen(c) \/ RecvData(c) \/ RecvClose(c)
  \/ WriteRemote(c) \/ WriteFails(c) \/ Park(c)
  \/ TunnelEOF(c) \/ CleanupNext(c) \/ CleanupClose(c) \/ Return(c)
  \/ TunnelReset(c)

OpenerStep(i) ==
  \/ Bind(i) \/ BindDies(i) \/ ConnectOk(i) \/ ConnectFails(i)
  \/ Flush(i) \/ FlushFails(i) \/ SendReady(i) \/ ReadyFails(i)

ReaderStep(i) == RemoteData(i) \/ RemoteEnds(i) \/ ReaderStops(i)

ExitNext ==
  \/ \E c \in Circuit : Accept(c) \/ LoopStep(c)
  \/ \E i \in StreamId : OpenerStep(i) \/ ReaderStep(i)
================================================================================
