------------------------------- MODULE RelayStream -------------------------------
(***************************************************************************)
(* A stream of its own through a circuit (relay_stream of the exit, opened *)
(* with Scattered.open_stream): two threads copy between the circuit and   *)
(* one destination, and an event tells each that the other has left.  The  *)
(* circuit is a connection of client and exit; RelayChain is about the     *)
(* relays in between.                                                      *)
(***************************************************************************)
EXTENDS Integers, FiniteSets, SequencesExt

CONSTANTS
  MaxUp,     \* bound: frames the client sends
  MaxDown,   \* bound: pieces the destination sends
  Window,    \* pieces or frames a connection takes before its writer waits
  Garbled    \* frames that do not decrypt are possible

ASSUME RelayStreamAssumption ==
  MaxUp \in Nat /\ MaxDown \in Nat /\ Window \in Nat \ {0} /\ Garbled \in BOOLEAN

(* The data of a frame is two pieces: a write may stop between them.        *)
Pieces(n) == <<2 * n - 1, 2 * n>>
Data(n) == [tag |-> "data", pieces |-> Pieces(n)]
Noise == [tag |-> "noise", pieces |-> <<>>]    \* opens to nothing
Tampered == [tag |-> "tampered", pieces |-> <<>>]   \* open_stream_data raises

VARIABLES
  pc,       \* relay_stream: "connect", "relay" or "done"
  t1,       \* client_to_remote: where it is, what it has to write and how long
  t2,       \* remote_to_client: where it is and the chunk it holds
  stop,     \* the event
  up,       \* frames on the way from the client
  down,     \* chunks on the way to the client
  toDest, fromDest,   \* pieces on the way to and from the destination
  client,   \* what it has sent and read; "open", "fin" or "rst"
  dest      \* the same; "open", "finished" (still reads) or "closed"

vars == <<pc, t1, t2, stop, up, down, toDest, fromDest, client, dest>>

Init ==
  /\ pc = "connect"
  /\ t1 = [at |-> "off", todo |-> <<>>, timed |-> FALSE]
  /\ t2 = [at |-> "off", chunk |-> <<>>]
  /\ stop = FALSE
  /\ up = <<>> /\ down = <<>> /\ toDest = <<>> /\ fromDest = <<>>
  /\ client = [sent |-> <<>>, got |-> <<>>, state |-> "open", ended |-> FALSE]
  /\ dest = [sent |-> <<>>, got |-> <<>>, state |-> "open"]

---------------------------------------------------------------------------------
(* The client and the destination.                                          *)

clientIdle == UNCHANGED <<pc, t1, t2, stop, toDest, fromDest, dest>>
destIdle == UNCHANGED <<pc, t1, t2, stop, up, down, client>>

ClientSends(f) ==
  /\ client.state = "open" /\ Len(client.sent) < MaxUp
  /\ client' = [client EXCEPT !.sent = Append(@, f)]
  /\ up' = Append(up, f)
  /\ clientIdle /\ UNCHANGED down

ClientReads ==
  /\ client.state = "open" /\ down # <<>>
  /\ client' = [client EXCEPT !.got = @ \o Head(down)]
  /\ down' = Tail(down)
  /\ clientIdle /\ UNCHANGED up

ClientSeesEnd ==
  /\ client.state = "open" /\ ~client.ended /\ pc = "done" /\ down = <<>>
  /\ client' = [client EXCEPT !.ended = TRUE]
  /\ clientIdle /\ UNCHANGED <<up, down>>

(* Whoever closes with something unread resets the connection.              *)
ClientCloses ==
  /\ client.state = "open"
  /\ client' = [client EXCEPT !.state = IF down = <<>> THEN "fin" ELSE "rst"]
  /\ down' = <<>>
  /\ up' \in IF down = <<>> THEN {up} ELSE {up, <<>>}
  /\ clientIdle

DestSends ==
  /\ dest.state = "open" /\ pc = "relay" /\ Len(dest.sent) < MaxDown
  /\ dest' = [dest EXCEPT !.sent = Append(@, Len(@) + 1)]
  /\ fromDest' = Append(fromDest, Len(dest.sent) + 1)
  /\ destIdle /\ UNCHANGED toDest

DestReads ==
  /\ dest.state # "closed" /\ toDest # <<>>
  /\ dest' = [dest EXCEPT !.got = Append(@, Head(toDest))]
  /\ toDest' = Tail(toDest)
  /\ destIdle /\ UNCHANGED fromDest

DestFinishes ==
  /\ dest.state = "open" /\ pc = "relay"
  /\ dest' = [dest EXCEPT !.state = "finished"]
  /\ destIdle /\ UNCHANGED <<toDest, fromDest>>

DestCloses ==
  /\ dest.state # "closed" /\ pc = "relay"
  /\ dest' = [dest EXCEPT !.state = "closed"]
  /\ toDest' = <<>>
  /\ fromDest' \in {fromDest, <<>>}
  /\ destIdle

---------------------------------------------------------------------------------
(* relay_stream: connects, starts the threads, waits for both of them and   *)
(* closes the destination; the accept loop then closes the circuit.         *)

Connect ==
  /\ pc = "connect"
  /\ pc' = "relay"
  /\ t1' = [t1 EXCEPT !.at = "top"]
  /\ t2' = [t2 EXCEPT !.at = "start"]
  /\ UNCHANGED <<stop, up, down, toDest, fromDest, client, dest>>

ConnectFails ==
  /\ pc = "connect"
  /\ pc' = "done"
  /\ UNCHANGED <<t1, t2, stop, up, down, toDest, fromDest, client, dest>>

Over(t) == t.at \in {"left", "timedOut", "raised"}

Joined ==
  /\ pc = "relay" /\ Over(t1) /\ Over(t2)
  /\ pc' = "done" /\ stop' = TRUE
  /\ fromDest' = <<>>
  /\ toDest' \in IF fromDest = <<>> THEN {toDest} ELSE {toDest, <<>>}
  /\ UNCHANGED <<t1, t2, up, down, client, dest>>

(* A circuit that is closed with frames of the client unread, or gets one   *)
(* afterwards, is reset: the client loses what it has not read by then.     *)
CircuitReset ==
  /\ pc = "done" /\ up # <<>> /\ down # <<>>
  /\ down' = <<>>
  /\ UNCHANGED <<pc, t1, t2, stop, up, toDest, fromDest, client, dest>>

---------------------------------------------------------------------------------
(* client_to_remote.                                                        *)

T1Frame == UNCHANGED <<pc, t2, down, fromDest, client, dest>>

T1Leaves(how) ==
  /\ t1' = [at |-> how, todo |-> <<>>, timed |-> FALSE]
  /\ stop' = TRUE

T1Check ==
  /\ t1.at = "top"
  /\ \/ stop /\ T1Leaves("left")
     \/ ~stop /\ t1' = [t1 EXCEPT !.at = "recv"] /\ UNCHANGED stop
  /\ UNCHANGED <<up, toDest>> /\ T1Frame

(* coms.recv waits as long as the client does nothing.  What the socket's   *)
(* timeout is when sendall starts decides whether sendall may give up.      *)
T1Recv ==
  /\ t1.at = "recv" /\ up # <<>>
  /\ LET f == Head(up)
     IN t1' = CASE f.tag = "data" -> [at |-> "write", todo |-> f.pieces,
                                      timed |-> t2.at # "start"]
                [] f.tag = "noise" -> [t1 EXCEPT !.at = "top"]
                [] f.tag = "tampered" -> [t1 EXCEPT !.at = "raised"]
  /\ up' = Tail(up)
  /\ UNCHANGED <<stop, toDest>> /\ T1Frame

T1EndSilent ==                     \* mutant: returns without stop.set()
  /\ t1.at = "recv" /\ up = <<>> /\ client.state = "fin"
  /\ t1' = [t1 EXCEPT !.at = "left"]
  /\ UNCHANGED <<stop, up, toDest>> /\ T1Frame

T1End ==
  /\ t1.at = "recv" /\ up = <<>> /\ client.state = "fin"
  /\ T1Leaves("left")
  /\ UNCHANGED <<up, toDest>> /\ T1Frame

(* A reset raises outside of the try: nobody sets the event.                *)
T1Reset ==
  /\ t1.at = "recv" /\ client.state = "rst"
  /\ t1' = [t1 EXCEPT !.at = "raised"]
  /\ UNCHANGED <<stop, up, toDest>> /\ T1Frame

T1Write ==
  /\ t1.at = "write" /\ dest.state # "closed" /\ Len(toDest) < Window
  /\ toDest' = Append(toDest, Head(t1.todo))
  /\ t1' = IF Len(t1.todo) > 1 THEN [t1 EXCEPT !.todo = Tail(@)]
           ELSE [at |-> "top", todo |-> <<>>, timed |-> FALSE]
  /\ UNCHANGED <<stop, up>> /\ T1Frame

(* sendall raises: the destination is gone, or the one second that          *)
(* remote_to_client has set for its reads is over.                          *)
T1WriteFails ==
  /\ t1.at = "write"
  /\ \/ dest.state = "closed" /\ T1Leaves("left")
     \/ t1.timed /\ Len(toDest) = Window /\ T1Leaves("timedOut")
  /\ UNCHANGED <<up, toDest>> /\ T1Frame

---------------------------------------------------------------------------------
(* remote_to_client.                                                        *)

T2Frame == UNCHANGED <<pc, t1, up, toDest, dest>>

T2Leaves == t2' = [at |-> "left", chunk |-> <<>>] /\ stop' = TRUE

T2Start ==
  /\ t2.at = "start"
  /\ t2' = [t2 EXCEPT !.at = "top"]
  /\ UNCHANGED <<stop, down, fromDest, client>> /\ T2Frame

T2Check ==
  /\ t2.at = "top"
  /\ \/ stop /\ T2Leaves
     \/ ~stop /\ t2' = [t2 EXCEPT !.at = "recv"] /\ UNCHANGED stop
  /\ UNCHANGED <<down, fromDest, client>> /\ T2Frame

T2Recv ==
  /\ t2.at = "recv" /\ fromDest # <<>>
  /\ \E n \in 1 .. Len(fromDest) :
       /\ t2' = [at |-> "send", chunk |-> SubSeq(fromDest, 1, n)]
       /\ fromDest' = SubSeq(fromDest, n + 1, Len(fromDest))
  /\ UNCHANGED <<stop, down, client>> /\ T2Frame

T2TimesOutLeaves ==                \* mutant: socket.timeout taken for the end
  /\ t2.at = "recv" /\ fromDest = <<>> /\ dest.state = "open"
  /\ T2Leaves
  /\ UNCHANGED <<down, fromDest, client>> /\ T2Frame

(* socket.timeout after one second: look at the event again.                *)
T2TimesOut ==
  /\ t2.at = "recv" /\ fromDest = <<>> /\ dest.state = "open"
  /\ t2' = [t2 EXCEPT !.at = "top"]
  /\ UNCHANGED <<stop, down, fromDest, client>> /\ T2Frame

T2End ==
  /\ t2.at = "recv" /\ fromDest = <<>> /\ dest.state # "open"
  /\ T2Leaves
  /\ UNCHANGED <<down, fromDest, client>> /\ T2Frame

T2SendDrops ==                     \* mutant: a chunk there is no room for is skipped
  /\ t2.at = "send" /\ client.state = "open"
  /\ down' = IF Len(down) < Window THEN Append(down, t2.chunk) ELSE down
  /\ t2' = [at |-> "top", chunk |-> <<>>]
  /\ UNCHANGED <<stop, fromDest, client>> /\ T2Frame

T2Send ==
  /\ t2.at = "send" /\ client.state = "open" /\ Len(down) < Window
  /\ down' = Append(down, t2.chunk)
  /\ t2' = [at |-> "top", chunk |-> <<>>]
  /\ UNCHANGED <<stop, fromDest, client>> /\ T2Frame

(* The first write after the client has closed may still succeed, and is    *)
(* answered with a reset.                                                   *)
T2SendFails ==
  /\ t2.at = "send" /\ client.state # "open"
  /\ \/ /\ T2Leaves
        /\ UNCHANGED client
     \/ /\ client.state = "fin"
        /\ t2' = [at |-> "top", chunk |-> <<>>]
        /\ client' = [client EXCEPT !.state = "rst"]
        /\ UNCHANGED stop
  /\ UNCHANGED <<down, fromDest>> /\ T2Frame

---------------------------------------------------------------------------------
T1Step == T1Check \/ T1Recv \/ T1End \/ T1Reset \/ T1Write \/ T1WriteFails
T2Step == T2Start \/ T2Check \/ T2Recv \/ T2TimesOut \/ T2End \/ T2Send \/ T2SendFails
MainStep == Connect \/ ConnectFails \/ Joined

Sendable == {Data(Cardinality({k \in DOMAIN client.sent : client.sent[k].tag = "data"}) + 1)}
            \cup IF Garbled THEN {Noise, Tampered} ELSE {}

Next ==
  \/ \E f \in Sendable : ClientSends(f)
  \/ ClientReads \/ ClientSeesEnd \/ ClientCloses
  \/ DestSends \/ DestReads \/ DestFinishes \/ DestCloses
  \/ MainStep \/ CircuitReset \/ T1Step \/ T2Step

Spec == Init /\ [][Next]_vars

(* The threads of the exit run; the client's reader thread always reads.    *)
(* Nothing is asked of the destination.                                     *)
FairSpec == Spec /\ WF_vars(MainStep) /\ WF_vars(T1Step) /\ WF_vars(T2Step)
                 /\ WF_vars(ClientReads \/ ClientSeesEnd)

---------------------------------------------------------------------------------
(* Properties.                                                              *)

Frames == {Data(n) : n \in 1 .. MaxUp} \cup {Noise, Tampered}

(* The type invariant.                                                      *)
TypeOK ==
  /\ pc \in {"connect", "relay", "done"}
  /\ t1.at \in {"off", "top", "recv", "write", "left", "timedOut", "raised"}
  /\ t1.at = "write" <=> t1.todo # <<>>
  /\ t2.at \in {"off", "start", "top", "recv", "send", "left"}
  /\ t2.at = "send" <=> t2.chunk # <<>>
  /\ stop \in BOOLEAN
  /\ ToSet(up) \cup ToSet(client.sent) \subseteq Frames
  /\ client.state \in {"open", "fin", "rst"} /\ client.ended \in BOOLEAN
  /\ dest.state \in {"open", "finished", "closed"}
  /\ Len(down) <= Window /\ Len(toDest) <= Window

(* Each side reads what the other one wrote, from the first byte, with      *)
(* nothing skipped, torn and continued, or repeated - a write given up      *)
(* half-way is the last one.                                                *)
Plain(frames) == FlattenSeq([i \in DOMAIN frames |-> frames[i].pieces])
BothPrefixes ==
  /\ TypeOK
  /\ IsPrefix(dest.got \o toDest, Plain(client.sent))
  /\ IsPrefix(client.got \o FlattenSeq(down), dest.sent)

(* A destination that has said all it had to say is heard to the end by a   *)
(* client that stays, unless it read so slowly that a write to it timed out *)
(* - or the client wrote more than client_to_remote read, on its way or     *)
(* after the exit has closed: then the circuit is reset under the answer.   *)
Unread == pc = "done" /\ up # <<>>
WholeAnswer ==
  pc = "done" /\ client.state = "open" /\ dest.state = "finished"
    => \/ client.got \o FlattenSeq(down) = dest.sent
       \/ t1.at = "timedOut" \/ Unread

(* A write that started before remote_to_client had set the timeout waits   *)
(* for the destination, whatever becomes of the client.                     *)
Stuck == t1.at = "write" /\ ~t1.timed /\ Len(toDest) = Window

(* relay_stream returns and frees the exit when the client ends, also while *)
(* the destination is idle - unless an exception (a reset, a frame that     *)
(* does not decrypt) has ended client_to_remote: then nobody sets the event *)
(* and the other thread waits for the destination.  When the destination    *)
(* has closed it returns as soon as the client does anything; until then    *)
(* the exit waits with it.                                                  *)
Deaf == t1.at = "raised"
WaitsForClient == t1.at = "recv" /\ up = <<>> /\ client.state = "open"
StreamReturns ==
  /\ []<>(client.state = "fin" => pc = "done" \/ Stuck \/ Deaf)
  /\ []<>(dest.state = "closed" => pc = "done" \/ WaitsForClient)
================================================================================
