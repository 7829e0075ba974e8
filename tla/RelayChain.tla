------------------------------- MODULE RelayChain -------------------------------
(***************************************************************************)
(* One circuit from its client through relays to the exit                  *)
(* (node/relay.py over core/tcp_enhancer.py).  A relay reads two frames of *)
(* a connection, peels the second one, connects to the address it finds    *)
(* and from then on copies frames with one thread in each direction.  A    *)
(* frame is a head (its length) and a body, which is all TCP lets a        *)
(* receiver see of it: a reader that gives up between the two, or a writer *)
(* that gives up before the second, loses the place of the next head.      *)
(***************************************************************************)
EXTENDS Onion, FiniteSets, SequencesExt

CONSTANTS
  Relay,         \* the relays
  Client, Exit,  \* the two ends
  Chains,        \* the chains the client may choose, the entry first
  Kinds,         \* the first frames the client may send
  MaxData,       \* bound: frames the two ends send after the onion, together
  MaxFaults      \* bound: transfers that time out half-way, relays restarted

ASSUME RelayChainAssumption ==
  /\ Client \notin Relay /\ Exit \notin Relay /\ Client # Exit
  /\ \A c \in Chains : c # <<>> /\ c \in Seq(Relay) /\ IsInjective(c)
  /\ MaxData \in Nat /\ MaxFaults \in Nat

Onions == {"CLIENT_ONION", "CLIENT_STREAM"}
Dialler == {Client} \cup Relay        \* a link is named after who dialled it
Direction == {"next_node", "back_node"}

(* Frames.  The exit's sealed payload is data frame 0; Junk is a frame cut  *)
(* out of the bytes of others.                                              *)
Kind(k) == [tag |-> "kind", kind |-> k]
Blob(layer) == [tag |-> "blob", layer |-> layer]
Data(n) == [tag |-> "data", n |-> n]
Answer(n) == [tag |-> "answer", n |-> n]
PublicKey(r, g) == [tag |-> "key", of |-> r, generation |-> g]
Junk == [tag |-> "junk"]
NoFrame == [tag |-> "none"]

VARIABLES
  key,       \* key[r]: generation of r's key pair, a new one at each start
  chain,     \* the relays the client chose, the entry first
  handler,   \* handler[r]: where the thread that serves r's connection is
  origin,    \* origin[r]: who dialled r
  hop,       \* hop[r]: the hop r has peeled
  thread,    \* thread[r][d]: the forwarding thread of direction d
  link,      \* link[d]: the two pipes and the two ends of the link d dialled
  client,    \* what the client has asked for, sent and received
  exit,      \* the same for the exit
  slow,      \* how many reads and how many writes have timed out half-way
  restarts

(* What the bounds count.                                                   *)
MayStillSend == client.sent + exit.sent < MaxData
Faults == slow.reads + slow.writes + restarts

vars == <<key, chain, handler, origin, hop, thread, link, client, exit, slow,
          restarts>>

---------------------------------------------------------------------------------
(* Pipes and the ends of a link.                                            *)

Piece(f, part) == [of |-> f, part |-> part]
Whole(f) == <<Piece(f, "head"), Piece(f, "body")>>
EndOf(how) == Piece(NoFrame, how)     \* "fin" or "rst"

Peer(e) == IF e = "dialling" THEN "accepted" ELSE "dialling"
Out(e) == IF e = "dialling" THEN "up" ELSE "down"
In(e) == Out(Peer(e))

Write(l, e, pieces) ==
  IF l[Peer(e)] = "closed" THEN l ELSE [l EXCEPT ![Out(e)] = @ \o pieces]

(* coms.recv finds the end of the stream, also after the head of a frame.   *)
Ends(q, how) ==
  \/ Len(q) >= 1 /\ q[1].part = how
  \/ Len(q) >= 2 /\ q[1].part = "head" /\ q[2].part = how

HasFrame(q) == Len(q) >= 2 /\ \A k \in 1 .. 2 : q[k].part \notin {"fin", "rst"}
InStep(q) == q[2] = Piece(q[1].of, "body")
FrameIn(q) == IF InStep(q) THEN q[1].of ELSE Junk
Rest(q) == SubSeq(q, 3, Len(q))

(* close() on a socket: the kernel lets go of it once no other thread is    *)
(* inside a call on it.                                                     *)
Close(l, e) == IF l[e] = "open" THEN [l EXCEPT ![e] = "closing"] ELSE l

(* The ways a socket goes: FIN when everything it received has been read,   *)
(* else RST, which may overtake what was still to be sent.                  *)
Gone(l, e) ==
  LET unread == \E k \in DOMAIN l[In(e)] : l[In(e)][k].part \in {"head", "body"}
      kept == IF unread THEN 0 .. Len(l[Out(e)]) ELSE {Len(l[Out(e)])}
      sent == {SubSeq(l[Out(e)], 1, k) : k \in kept}
      how == IF unread THEN "rst" ELSE "fin"
  IN IF l[e] \notin {"open", "closing"} THEN {l}
     ELSE {[l EXCEPT ![e] = "closed", ![In(e)] = <<>>,
                     ![Out(e)] = IF l[Peer(e)] = "closed" THEN <<>>
                                 ELSE Append(s, EndOf(how))] : s \in sent}

Release(d, e) ==
  /\ link[d][e] = "closing"
  /\ \E l \in Gone(link[d], e) : link' = [link EXCEPT ![d] = l]
  /\ UNCHANGED <<key, chain, handler, origin, hop, thread, client, exit, slow,
                 restarts>>

---------------------------------------------------------------------------------
(* The client and the exit: what they do to the circuit.                    *)

Path(c) == [i \in 1 .. Len(c) |-> [key |-> <<c[i], 0>>, addr |-> c[i]]]

NewLink(frames) == [up |-> FlattenSeq([i \in 1 .. Len(frames) |-> Whole(frames[i])]),
                    down |-> <<>>, dialling |-> "open", accepted |-> "open"]

(* Scattered connects to the entry and sends two frames.  It learned the    *)
(* keys when it started: generation 0.                                      *)
Dial(c, k) ==
  /\ chain = <<>> /\ link[Client].dialling = "none"
  /\ k \in Onions
  /\ chain' = c
  /\ link' = [link EXCEPT ![Client] =
               NewLink(<<Kind(k), Blob(BuildOnion(Path(c), Exit, Data(0)))>>)]
  /\ handler' = [handler EXCEPT ![c[1]] = "first"]
  /\ origin' = [origin EXCEPT ![c[1]] = Client]
  /\ client' = [client EXCEPT !.asked = k]
  /\ UNCHANGED <<key, hop, thread, exit, slow, restarts>>

(* A probe, a key request, or a client that leaves before its onion.        *)
Knock(r, k) ==
  /\ link[Client].dialling = "none"
  /\ link' = [link EXCEPT ![Client] = NewLink(<<Kind(k)>>)]
  /\ handler' = [handler EXCEPT ![r] = "first"]
  /\ origin' = [origin EXCEPT ![r] = Client]
  /\ client' = [client EXCEPT !.asked = k]
  /\ UNCHANGED <<key, chain, hop, thread, exit, slow, restarts>>

(* An end sends a frame, reads one, loses the place, or finds the stream    *)
(* ended; the exit then closes its socket.                                  *)
Sends(p, d, e, f) ==
  /\ link[d][e] = "open" /\ ~p.ended
  /\ link' = [link EXCEPT ![d] = Write(@, e, Whole(f))]
  /\ UNCHANGED <<key, chain, handler, origin, hop, thread, slow, restarts>>

Reads(p, d, e) ==
  /\ link[d][e] = "open" /\ ~p.ended /\ ~p.astray
  /\ HasFrame(link[d][In(e)])
  /\ link' = [link EXCEPT ![d][In(e)] = Rest(@)]
  /\ UNCHANGED <<key, chain, handler, origin, hop, thread, slow, restarts>>

Received(p, q) == [p EXCEPT !.got = Append(@, FrameIn(q)), !.astray = ~InStep(q)]

SeesEnd(p, d, e) ==
  /\ link[d][e] = "open" /\ ~p.ended
  /\ \E how \in {"fin", "rst"} : Ends(link[d][In(e)], how)
  /\ UNCHANGED <<key, chain, handler, origin, hop, thread, slow, restarts>>

(* Out of step, a reader takes what follows for the rest of a huge frame.   *)
IsEnd(q) == q[1].part \in {"fin", "rst"}
Swallows(p, d, e) ==
  /\ link[d][e] = "open" /\ ~p.ended /\ p.astray
  /\ link[d][In(e)] # <<>> /\ ~IsEnd(link[d][In(e)])
  /\ link' = [link EXCEPT ![d][In(e)] = Tail(@)]
  /\ UNCHANGED <<key, chain, handler, origin, hop, thread, client, exit, slow,
                 restarts>>

ClientSend ==
  /\ chain # <<>> /\ MayStillSend
  /\ Sends(client, Client, "dialling", Data(client.sent + 1))
  /\ client' = [client EXCEPT !.sent = @ + 1]
  /\ UNCHANGED exit

ClientRecv ==
  /\ Reads(client, Client, "dialling")
  /\ client' = Received(client, link[Client].down)
  /\ UNCHANGED exit

ClientSwallows == Swallows(client, Client, "dialling")

ClientSeesEnd ==
  /\ SeesEnd(client, Client, "dialling")
  /\ client' = [client EXCEPT !.ended = TRUE]
  /\ UNCHANGED <<exit, link>>

ClientClose ==
  /\ link[Client].dialling = "open"
  /\ link' = [link EXCEPT ![Client] = Close(@, "dialling")]
  /\ UNCHANGED <<key, chain, handler, origin, hop, thread, client, exit, slow,
                 restarts>>

Connected == origin[Exit] # Exit      \* somebody has dialled the exit

ExitSend ==
  /\ Connected /\ MayStillSend
  /\ Sends(exit, origin[Exit], "accepted", Answer(exit.sent + 1))
  /\ exit' = [exit EXCEPT !.sent = @ + 1]
  /\ UNCHANGED client

ExitRecv ==
  /\ Connected
  /\ Reads(exit, origin[Exit], "accepted")
  /\ exit' = Received(exit, link[origin[Exit]].up)
  /\ UNCHANGED client

ExitSwallows == Connected /\ Swallows(exit, origin[Exit], "accepted")

ExitSeesEnd ==
  /\ Connected
  /\ SeesEnd(exit, origin[Exit], "accepted")
  /\ exit' = [exit EXCEPT !.ended = TRUE]
  /\ link' = [link EXCEPT ![origin[Exit]] = Close(@, "accepted")]
  /\ UNCHANGED client

ExitClose ==
  /\ Connected
  /\ link[origin[Exit]].accepted = "open"
  /\ link' = [link EXCEPT ![origin[Exit]] = Close(@, "accepted")]
  /\ UNCHANGED <<key, chain, handler, origin, hop, thread, client, exit, slow,
                 restarts>>

---------------------------------------------------------------------------------
(* The thread that serves a connection of relay r.                          *)

Prev(r) == link[origin[r]]
HandlerFrame == <<chain, origin, client, exit, restarts>>

(* The relay has no (valid) first or second frame: sock.close().            *)
HandlerGivesUp(r) ==
  /\ handler[r] \in {"first", "layer"}
  /\ \E how \in {"fin", "rst"} : Ends(Prev(r).up, how)
  /\ handler' = [handler EXCEPT ![r] = "over"]
  /\ link' = [link EXCEPT ![origin[r]] = Close(@, "accepted")]
  /\ UNCHANGED <<key, hop, thread, slow, HandlerFrame>>

(* handle_connection: what it answers before it closes.                     *)
Answers(r, k) == CASE k = "PROBE" -> <<Kind("RELAY_AT")>>
                   [] k = "PROBE_KEY" -> <<PublicKey(r, key[r])>>
                   [] OTHER -> <<>>

HandleFirst(r) ==
  /\ handler[r] = "first" /\ HasFrame(Prev(r).up)
  /\ LET f == FrameIn(Prev(r).up)
         l == [Prev(r) EXCEPT !.up = Rest(@)]
     IN \/ /\ f.tag = "kind" /\ f.kind \in Onions \cup {"RELAY"}
           /\ handler' = [handler EXCEPT ![r] = "layer"]
           /\ link' = [link EXCEPT ![origin[r]] = l]
        \/ /\ f.tag = "kind" /\ f.kind \notin Onions \cup {"RELAY"}
           /\ handler' = [handler EXCEPT ![r] = "over"]
           /\ link' = [link EXCEPT ![origin[r]] =
                        Close(Write(l, "accepted",
                                    FlattenSeq([i \in DOMAIN Answers(r, f.kind) |->
                                                Whole(Answers(r, f.kind)[i])])),
                              "accepted")]
  /\ UNCHANGED <<key, hop, thread, slow, HandlerFrame>>

HandleLayerKeepsSocket(r) ==          \* mutant: no sock.close() after a failed peel
  /\ handler[r] = "layer" /\ HasFrame(Prev(r).up)
  /\ LET f == FrameIn(Prev(r).up)
     IN \/ /\ CanPeel(<<r, key[r]>>, f.layer)
           /\ hop' = [hop EXCEPT ![r] = PeelLayer(f.layer)]
           /\ handler' = [handler EXCEPT ![r] = "connect"]
        \/ /\ ~CanPeel(<<r, key[r]>>, f.layer)
           /\ handler' = [handler EXCEPT ![r] = "over"]
           /\ UNCHANGED hop
  /\ link' = [link EXCEPT ![origin[r]].up = Rest(@)]
  /\ UNCHANGED <<key, thread, slow, HandlerFrame>>

(* connect_from_layer: peel; a layer for another key raises.                *)
HandleLayer(r) ==
  /\ handler[r] = "layer" /\ HasFrame(Prev(r).up)
  /\ LET f == FrameIn(Prev(r).up)
         l == [Prev(r) EXCEPT !.up = Rest(@)]
         opens == f.tag = "blob" /\ CanPeel(<<r, key[r]>>, f.layer)
     IN \/ /\ opens
           /\ hop' = [hop EXCEPT ![r] = PeelLayer(f.layer)]
           /\ handler' = [handler EXCEPT ![r] = "connect"]
           /\ link' = [link EXCEPT ![origin[r]] = l]
        \/ /\ ~opens
           /\ handler' = [handler EXCEPT ![r] = "over"]
           /\ link' = [link EXCEPT ![origin[r]] = Close(l, "accepted")]
           /\ UNCHANGED hop
  /\ UNCHANGED <<key, thread, slow, HandlerFrame>>

(* NextHop.connect.                                                         *)
Listens(n) == IF n = Exit THEN ~Connected ELSE handler[n] = "listen"

Connect(r) ==
  /\ handler[r] = "connect" /\ Listens(hop[r].addr)
  /\ link' = [link EXCEPT ![r] = NewLink(<<>>)]
  /\ origin' = [origin EXCEPT ![hop[r].addr] = r]
  /\ handler' = [n \in Relay |-> IF n = r THEN "hello"
                                 ELSE IF n = hop[r].addr THEN "first"
                                 ELSE handler[n]]
  /\ UNCHANGED <<key, chain, hop, thread, client, exit, slow, restarts>>

ConnectFails(r) ==
  /\ handler[r] = "connect"
  /\ handler' = [handler EXCEPT ![r] = "over"]
  /\ link' = [link EXCEPT ![origin[r]] = Close(@, "accepted")]
  /\ UNCHANGED <<key, hop, thread, slow, HandlerFrame>>

(* To a relay: RELAY and the inner blob; to the exit: the inner payload.    *)
HelloPieces(h) ==
  IF h.type = HOP_SERVER THEN Whole(h.inner)
  ELSE Whole(Kind("RELAY")) \o Whole(Blob(h.inner))

NewThread == [at |-> "recv", hold |-> NoFrame, astray |-> FALSE]
NoThread == [NewThread EXCEPT !.at = "off"]

StartForwarding(r) ==
  /\ handler[r] = "hello"
  /\ link' = [link EXCEPT ![r] = Write(@, "dialling", HelloPieces(hop[r]))]
  /\ handler' = [handler EXCEPT ![r] = "forward"]
  /\ thread' = [thread EXCEPT ![r] = [d \in Direction |-> NewThread]]
  /\ UNCHANGED <<key, hop, slow, HandlerFrame>>

(* next_hop.send raises (the peer is gone, or does not read for 30 s): the  *)
(* handler closes sock, and next_hop goes with its last reference.          *)
HelloFails(r) ==
  /\ handler[r] = "hello"
  /\ \E k \in 0 .. Len(HelloPieces(hop[r])) - 1 :
       /\ \/ link[r].accepted = "closed" /\ UNCHANGED slow
          \/ Faults < MaxFaults /\ slow' = [slow EXCEPT !.writes = @ + 1]
       /\ link' = [link EXCEPT
            ![r] = Close(Write(@, "dialling", SubSeq(HelloPieces(hop[r]), 1, k)),
                         "dialling"),
            ![origin[r]] = Close(@, "accepted")]
  /\ handler' = [handler EXCEPT ![r] = "over"]
  /\ UNCHANGED <<key, hop, thread, HandlerFrame>>

HandlerStep(r) ==
  \/ HandlerGivesUp(r) \/ HandleFirst(r) \/ HandleLayer(r) \/ Connect(r)
  \/ ConnectFails(r) \/ StartForwarding(r)

---------------------------------------------------------------------------------
(* The forwarding threads of relay r.                                       *)

InLink(r, d) == IF d = "next_node" THEN origin[r] ELSE r
InEnd(d) == IF d = "next_node" THEN "accepted" ELSE "dialling"
OutLink(r, d) == IF d = "next_node" THEN r ELSE origin[r]
OutEnd(d) == Peer(InEnd(d))
InPipe(r, d) == link[InLink(r, d)][In(InEnd(d))]
Opposite(d) == CHOOSE o \in Direction : o # d

ThreadFrame == <<key, chain, handler, origin, hop, client, exit, restarts>>

CloseBoth(r) == [link EXCEPT ![r] = Close(@, "dialling"),
                             ![origin[r]] = Close(@, "accepted")]

DiesAndKeeps(r, d) ==                  \* mutant: the relay keeps a reference
  /\ thread' = [thread EXCEPT ![r][d] = [NewThread EXCEPT !.at = "ended"]]
  /\ UNCHANGED <<link, slow, ThreadFrame>>

(* The thread ends.  The two sockets are referenced from the two threads    *)
(* only, so they are closed with the second one.                            *)
Dies(r, d) ==
  /\ thread' = [thread EXCEPT ![r][d] = [NewThread EXCEPT !.at = "ended"]]
  /\ link' = IF thread[r][Opposite(d)].at = "ended" THEN CloseBoth(r) ELSE link
  /\ UNCHANGED <<slow, ThreadFrame>>

CopyRecv(r, d) ==
  /\ thread[r][d].at = "recv" /\ ~thread[r][d].astray
  /\ link[InLink(r, d)][InEnd(d)] = "open"
  /\ HasFrame(InPipe(r, d))
  /\ thread' = [thread EXCEPT ![r][d] = [at |-> "send", hold |-> FrameIn(InPipe(r, d)),
                                         astray |-> ~InStep(InPipe(r, d))]]
  /\ link' = [link EXCEPT ![InLink(r, d)][In(InEnd(d))] = Rest(@)]
  /\ UNCHANGED <<slow, ThreadFrame>>

(* data is None: close both sockets and leave.                              *)
CopyEnds(r, d) ==
  /\ thread[r][d].at = "recv"
  /\ link[InLink(r, d)][InEnd(d)] = "open"
  /\ Ends(InPipe(r, d), "fin")
  /\ thread' = [thread EXCEPT ![r][d] = [NewThread EXCEPT !.at = "ended"]]
  /\ link' = CloseBoth(r)
  /\ UNCHANGED <<slow, ThreadFrame>>

(* except Exception: break, and nothing is closed.  A reset, a socket the   *)
(* other thread has closed, or no memory for a frame of a senseless length. *)
RecvRaises(r, d) ==
  /\ thread[r][d].at = "recv"
  /\ \/ Ends(InPipe(r, d), "rst")
     \/ link[InLink(r, d)][InEnd(d)] # "open"
     \/ thread[r][d].astray /\ InPipe(r, d) # <<>>
  /\ Dies(r, d)

(* except socket.timeout: continue.  Between two frames nothing is lost.    *)
RecvTimesOut(r, d) ==
  /\ thread[r][d].at = "recv" /\ ~thread[r][d].astray
  /\ link[InLink(r, d)][InEnd(d)] = "open"
  /\ InPipe(r, d) # <<>> /\ ~IsEnd(InPipe(r, d))
  /\ Faults < MaxFaults
  /\ slow' = [slow EXCEPT !.reads = @ + 1]
  /\ thread' = [thread EXCEPT ![r][d].astray = TRUE]
  /\ link' = [link EXCEPT ![InLink(r, d)][In(InEnd(d))] = Tail(@)]
  /\ UNCHANGED ThreadFrame

(* Out of step, what follows is the rest of a huge frame or a small one.    *)
CopyAstray(r, d) ==
  /\ thread[r][d].at = "recv" /\ thread[r][d].astray
  /\ link[InLink(r, d)][InEnd(d)] = "open"
  /\ InPipe(r, d) # <<>> /\ ~IsEnd(InPipe(r, d))
  /\ link' = [link EXCEPT ![InLink(r, d)][In(InEnd(d))] = Tail(@)]
  /\ \/ thread' = [thread EXCEPT ![r][d].at = "send", ![r][d].hold = Junk]
     \/ UNCHANGED thread
  /\ UNCHANGED <<slow, ThreadFrame>>

CopySendTwice(r, d) ==                 \* mutant: data of the last round sent again
  /\ thread[r][d].at = "send"
  /\ link[OutLink(r, d)][OutEnd(d)] = "open"
  /\ link' = [link EXCEPT ![OutLink(r, d)] =
               Write(Write(@, OutEnd(d), Whole(thread[r][d].hold)), OutEnd(d),
                     Whole(thread[r][d].hold))]
  /\ thread' = [thread EXCEPT ![r][d].at = "recv", ![r][d].hold = NoFrame]
  /\ UNCHANGED <<slow, ThreadFrame>>

CopySend(r, d) ==
  /\ thread[r][d].at = "send"
  /\ link[OutLink(r, d)][OutEnd(d)] = "open"
  /\ link' = [link EXCEPT ![OutLink(r, d)] =
               Write(@, OutEnd(d), Whole(thread[r][d].hold))]
  /\ thread' = [thread EXCEPT ![r][d].at = "recv", ![r][d].hold = NoFrame]
  /\ UNCHANGED <<slow, ThreadFrame>>

SendRaises(r, d) ==
  /\ thread[r][d].at = "send"
  /\ \/ link[OutLink(r, d)][OutEnd(d)] # "open"
     \/ link[OutLink(r, d)][Peer(OutEnd(d))] = "closed"
  /\ Dies(r, d)

(* sendall times out with nothing or a part of the frame written; the       *)
(* thread goes on with the next frame.                                      *)
SendTimesOut(r, d) ==
  /\ thread[r][d].at = "send"
  /\ link[OutLink(r, d)][OutEnd(d)] = "open"
  /\ Faults < MaxFaults
  /\ slow' = [slow EXCEPT !.writes = @ + 1]
  /\ \E k \in 0 .. 1 :
       link' = [link EXCEPT ![OutLink(r, d)] =
                 Write(@, OutEnd(d), SubSeq(Whole(thread[r][d].hold), 1, k))]
  /\ thread' = [thread EXCEPT ![r][d].at = "recv", ![r][d].hold = NoFrame]
  /\ UNCHANGED ThreadFrame

ThreadStep(r, d) ==
  \/ CopyRecv(r, d) \/ CopyEnds(r, d) \/ RecvRaises(r, d) \/ CopyAstray(r, d)
  \/ CopySend(r, d) \/ SendRaises(r, d)

(* The relay process is stopped and started again, with a new key pair.     *)
Restart(r) ==
  /\ Faults < MaxFaults
  /\ restarts' = restarts + 1
  /\ key' = [key EXCEPT ![r] = @ + 1]
  /\ thread' = [thread EXCEPT ![r] =
                 [d \in Direction |-> IF @[d].at = "off" THEN @[d]
                                      ELSE [NewThread EXCEPT !.at = "ended"]]]
  /\ \/ handler[r] = "listen" /\ UNCHANGED <<handler, link>>
     \/ /\ handler[r] # "listen"
        /\ handler' = [handler EXCEPT ![r] = "over"]
        /\ \E p \in Gone(Prev(r), "accepted"), n \in Gone(link[r], "dialling") :
             link' = [link EXCEPT ![origin[r]] = p, ![r] = n]
  /\ UNCHANGED <<chain, origin, hop, client, exit, slow>>

---------------------------------------------------------------------------------
NoHop == [type |-> "none"]

Init ==
  /\ key = [r \in Relay |-> 0]
  /\ chain = <<>>
  /\ handler = [r \in Relay |-> "listen"]
  /\ origin = [n \in Relay \cup {Exit} |-> Exit]
  /\ hop = [r \in Relay |-> NoHop]
  /\ thread = [r \in Relay |-> [d \in Direction |-> NoThread]]
  /\ link = [d \in Dialler |-> [NewLink(<<>>) EXCEPT !.dialling = "none",
                                                     !.accepted = "none"]]
  /\ client = [asked |-> "none", sent |-> 0, got |-> <<>>, astray |-> FALSE, ended |-> FALSE]
  /\ exit = client
  /\ slow = [reads |-> 0, writes |-> 0]
  /\ restarts = 0

ClientNext ==
  \/ \E c \in Chains, k \in Kinds : Dial(c, k)
  \/ \E r \in Relay, k \in Kinds : Knock(r, k)
  \/ ClientSend \/ ClientRecv \/ ClientSwallows \/ ClientSeesEnd \/ ClientClose

ExitNext == ExitSend \/ ExitRecv \/ ExitSwallows \/ ExitSeesEnd \/ ExitClose

RelayNext(r) ==
  \/ HandlerStep(r) \/ HelloFails(r) \/ Restart(r)
  \/ \E d \in Direction : ThreadStep(r, d) \/ RecvTimesOut(r, d) \/ SendTimesOut(r, d)

Next ==
  \/ ClientNext \/ ExitNext
  \/ \E r \in Relay : RelayNext(r)
  \/ \E d \in Dialler, e \in {"dialling", "accepted"} : Release(d, e)

Spec == Init /\ [][Next]_vars

(* The threads of a relay run, the exit and the client read, and the kernel *)
(* releases a closed socket.  Nobody has to send, to close or to be slow.   *)
FairSpec ==
  /\ Spec
  /\ \A r \in Relay : WF_vars(HandlerStep(r))
  /\ \A r \in Relay, d \in Direction : WF_vars(ThreadStep(r, d))
  /\ \A d \in Dialler, e \in {"dialling", "accepted"} : WF_vars(Release(d, e))
  /\ WF_vars(ClientRecv \/ ClientSwallows \/ ClientSeesEnd)
  /\ WF_vars(ExitRecv \/ ExitSwallows \/ ExitSeesEnd)

---------------------------------------------------------------------------------
(* Properties.                                                              *)

Frames == {Kind(k) : k \in Kinds \cup {"RELAY", "RELAY_AT"}}
          \cup {Data(n) : n \in 0 .. MaxData} \cup {Answer(n) : n \in 1 .. MaxData}
          \cup {PublicKey(r, g) : r \in Relay, g \in 0 .. MaxFaults}
          \cup {Junk, NoFrame}
IsFrame(f) == IF f.tag = "blob" THEN f.layer.sealedFor[1] \in Relay ELSE f \in Frames
State == {"none", "open", "closing", "closed"}
PipeOK(q) == \A k \in DOMAIN q : /\ q[k].part \in {"head", "body", "fin", "rst"}
                                 /\ IsFrame(q[k].of)
EndOK(p) == /\ p.asked \in Kinds \cup {"none"} /\ p.sent \in Nat /\ p.astray \in BOOLEAN /\ p.ended \in BOOLEAN
            /\ \A i \in DOMAIN p.got : p.got[i] \in Frames

(* The type invariant.                                                      *)
TypeOK ==
  /\ key \in [Relay -> 0 .. MaxFaults]
  /\ chain \in Chains \cup {<<>>}
  /\ handler \in [Relay -> {"listen", "first", "layer", "connect", "hello",
                            "forward", "over"}]
  /\ origin \in [Relay \cup {Exit} -> Dialler \cup {Exit}]
  /\ \A r \in Relay : hop[r] = NoHop \/ hop[r].addr \in Relay \cup {Exit}
  /\ \A r \in Relay, d \in Direction :
       /\ thread[r][d].at \in {"off", "recv", "send", "ended"}
       /\ thread[r][d].hold \in Frames /\ thread[r][d].astray \in BOOLEAN
  /\ \A d \in Dialler : /\ PipeOK(link[d].up) /\ PipeOK(link[d].down)
                        /\ link[d].dialling \in State /\ link[d].accepted \in State
  /\ EndOK(client) /\ EndOK(exit) /\ client.sent + exit.sent <= MaxData
  /\ slow.reads \in Nat /\ slow.writes \in Nat /\ restarts \in Nat /\ Faults <= MaxFaults

(* A circuit follows the chain of its client and no relay learns more than  *)
(* its neighbours: whoever dialled it comes before it in the chain, it      *)
(* peels the address of the node after it, and what it hands on it cannot   *)
(* open.                                                                    *)
Route ==
  LET last == Len(chain)
      node(i) == IF i = 0 THEN Client ELSE IF i = last + 1 THEN Exit ELSE chain[i]
  IN /\ TypeOK
     /\ \A i \in 1 .. last :
          LET r == chain[i]
          IN hop[r] # NoHop =>
               /\ origin[r] = node(i - 1)
               /\ hop[r].addr = node(i + 1)
               /\ i < last => ~CanPeel(<<r, key[r]>>, hop[r].inner)
               /\ origin[node(i + 1)] \in {r, Exit}

(* What arrives was sent: frames arrive in the order they were sent and at  *)
(* most once, and once a frame has been torn by a timeout no later one      *)
(* arrives whole.  As long as no write has timed out nothing is skipped     *)
(* either: the whole frames are the first ones that were sent.  (A write    *)
(* that times out before its first byte skips one and the relay goes on.)   *)
InOrder(got) == \A i, j \in DOMAIN got :
                  i < j => /\ got[i] = Junk => got[j] = Junk
                           /\ got[j] # Junk => got[i].n < got[j].n
FramesInOrder ==
  chain # <<>> =>
    /\ InOrder(exit.got) /\ InOrder(client.got)
    /\ slow.writes = 0 =>
         /\ \A i \in DOMAIN exit.got : exit.got[i] \in {Data(i - 1), Junk}
         /\ \A i \in DOMAIN client.got : client.got[i] \in {Answer(i), Junk}

(* A relay one of whose threads was ended by an exception waits for the     *)
(* other one and keeps both sockets open.                                   *)
HalfDead(r) ==
  /\ handler[r] = "forward"
  /\ Cardinality({d \in Direction : thread[r][d].at = "ended"}) = 1
  /\ link[r].dialling = "open" /\ Prev(r).accepted = "open"

(* Whatever ends a circuit - the client or the exit leaves, a peel or a     *)
(* connect fails, a relay is restarted - reaches both ends.  It does not    *)
(* only if a relay stays half dead, and only after a socket was reset or a  *)
(* thread had lost its place.                                               *)
Broken ==
  \/ \E d \in Dialler, e \in {"dialling", "accepted"} :
       link[d][e] \in {"closing", "closed"}
  \/ \E r \in Relay : handler[r] = "over"
EndReachesAll ==
  chain # <<>> /\ Broken =>
    /\ client.ended \/ link[Client].dialling # "open"
    /\ Connected => exit.ended \/ link[origin[Exit]].accepted # "open"
    /\ \A r \in Relay : handler[r] \in {"listen", "over"} \/
                          \A d \in Direction : thread[r][d].at = "ended"
Disturbed(r) ==
  \/ slow.reads + slow.writes > 0
  \/ \E d \in Direction : EndOf("rst") \in ToSet(InPipe(r, d))
EndPropagates ==
  []<>EndReachesAll \/ <>[](\E r \in Relay : HalfDead(r) /\ Disturbed(r))

(* A relay whose two neighbours have both gone closes both its sockets in   *)
(* the end, out of step or not.  (Neither a neighbour nor a socket comes    *)
(* back, so it is enough to say that no relay stays so for ever.)           *)
NeighboursGone(r) ==
  /\ handler[r] = "forward"
  /\ Prev(r).dialling = "closed" /\ link[r].accepted = "closed"
BothNeighboursGone ==
  []<>(\A r \in Relay : NeighboursGone(r) =>
         link[r].dialling = "closed" /\ Prev(r).accepted = "closed")
================================================================================
