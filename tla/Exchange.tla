-------------------------------- MODULE Exchange --------------------------------
(***************************************************************************)
(* One message and its reply (Scattered.send, serve_connection of the      *)
(* exit, the destination server).  A secure client opens a circuit for     *)
(* every message and waits for one frame; an insecure one keeps its        *)
(* circuit and collects frames in a queue.  The exit serves one connection *)
(* at a time and reads one frame of it.  The circuit is a connection from  *)
(* client to exit: RelayChain is about the way.                            *)
(***************************************************************************)
EXTENDS Envelope, FiniteSets

CONSTANTS
  Clients,      \* the clients are 1 .. Clients
  Modes,        \* how client and exit may have been started
  Sizes,        \* lengths of the messages clients send
  MaxSends,     \* bound: messages of all clients together
  MaxSpoken,    \* bound: what the destination says on a stream
  MaxRestarts   \* bound: exits stopped and started again

ASSUME ExchangeAssumption ==
  /\ Clients \in 1 .. 9 /\ MaxSends \in 1 .. 9
  /\ MaxSpoken \in Nat /\ MaxRestarts \in Nat
  /\ Modes \subseteq [secure : BOOLEAN, exitSecure : BOOLEAN, echo : BOOLEAN]
  /\ Sizes \subseteq 0 .. Block - 1

Client == 1 .. Clients
ConnId == Client \X (0 .. MaxSends + 1)   \* a client's connections, in order

(* Texts: the messages, the exit's own answers and CLIENT_CLOSE.            *)
Text(c, k, n) == [i \in 1 .. n |-> Huge + 100 * c + 10 * k + i]
Unreachable == <<Huge + 1, Huge + 2>>
NoReply == <<Huge + 3, Huge + 4>>
CLIENT_CLOSE == <<Huge + 5>>
PROBE == <<Huge + 6>>
Answer == <<Huge + 7>>                   \* EXIT:port, or the exit's public key
Spoken == <<Huge + 8>>                   \* what a destination says on a stream
Ciphertext == <<Noise, Noise, Noise>>    \* an envelope, read as a string

NoConn == <<0, 0>>
None == [conn |-> NoConn]

VARIABLES
  mode,          \* how they were started
  at,            \* at[c]: "idle", "probing", "waiting", "closing" or "closed"
  sent,          \* sent[c]: the messages c has sent
  replies,       \* replies[c]: what its sends returned, or what its queue got
  current,       \* current[c]: the connection c uses
  conn,          \* conn[i]: the two directions of connection i and its two ends
  backlog,       \* the connections the exit has not accepted yet
  loop,          \* the exit: "accept", "read", "forward", "send", "stream", "ended"
  job,           \* the connection, and the frame, message or stream it works on
  generation,    \* of the exit's key; clients learned generation 0
  arrived,       \* what the destination received, in order: texts, and whether
                 \* each was inside its envelope
  disconnected   \* clients whose CLIENT_CLOSE the exit has seen

clientVars == <<at, sent, replies, current>>
exitVars == <<loop, job, generation, disconnected>>
vars == <<mode, clientVars, conn, backlog, exitVars, arrived>>

Secure == mode.secure            \* the client's
ExitSecure == mode.exitSecure    \* exit.py has it only with --no-proxy
Echo == mode.echo                \* exit.py --echo

Unused == [up |-> <<>>, down |-> <<>>, client |-> "none", exit |-> "none"]

Init ==
  /\ mode \in Modes
  /\ at = [c \in Client |-> "idle"]
  /\ sent = [c \in Client |-> <<>>]
  /\ replies = [c \in Client |-> <<>>]
  /\ current = [c \in Client |-> NoConn]
  /\ conn = [i \in ConnId |-> Unused]
  /\ backlog = <<>>
  /\ loop = "accept"
  /\ job = None
  /\ generation = 0
  /\ arrived = <<>>
  /\ disconnected = {}

---------------------------------------------------------------------------------
(* The client.                                                              *)

Sends == Cardinality(UNION {{c} \X DOMAIN sent[c] : c \in Client})

(* Whose key something is sealed for; Raw is in the clear.                  *)
ExitKey(g) == <<"exit", g>>
ClientKey(c) == <<"client", c>>
StreamKey == <<"stream", 0>>

Sealed(c, m) ==
  IF Secure THEN SealPaddedForServer(ExitKey(0), ClientKey(c), "dest", m)
  ELSE SealForServer(ExitKey(0), ClientKey(c), "dest", m)
Raw(m) == SealForServer(<<"nobody", 0>>, <<"nobody", 0>>, "none", m)

(* A new circuit, whose first frame for the exit is f.                      *)
NewCircuit(c, k, f) ==
  /\ conn' = [conn EXCEPT ![<<c, k>>] = [up |-> <<f>>, down |-> <<>>,
                                         client |-> "open", exit |-> "waiting"]]
  /\ current' = [current EXCEPT ![c] = <<c, k>>]
  /\ backlog' = Append(backlog, <<c, k>>)

(* _send_secure.                                                            *)
SendSecure(c, n) ==
  /\ Secure /\ at[c] = "idle" /\ Sends < MaxSends
  /\ LET m == Text(c, Len(sent[c]) + 1, n)
     IN /\ NewCircuit(c, Len(sent[c]) + 1, Sealed(c, m))
        /\ sent' = [sent EXCEPT ![c] = Append(@, m)]
  /\ at' = [at EXCEPT ![c] = "waiting"]
  /\ UNCHANGED <<replies, exitVars, arrived>>

(* The first message of an insecure client travels with the onion, the next *)
(* ones on the circuit that is there, whatever has become of it.            *)
SendInsecure(c, n) ==
  /\ ~Secure /\ at[c] = "idle" /\ Sends < MaxSends
  /\ LET m == Text(c, Len(sent[c]) + 1, n)
     IN /\ IF sent[c] = <<>> THEN NewCircuit(c, 1, Sealed(c, m))
           ELSE /\ conn' = [conn EXCEPT ![current[c]].up = Append(@, Sealed(c, m))]
                /\ UNCHANGED <<current, backlog>>
        /\ sent' = [sent EXCEPT ![c] = Append(@, m)]
  /\ UNCHANGED <<at, replies, exitVars, arrived>>

(* _decrypt_reply returns what it cannot open as it is; a secure client      *)
(* unpacks the result.                                                      *)
SecureReplies(c, e) ==
  UnpackReplies(IF CanOpen(ClientKey(c), e) THEN OpenedPadded(e) ELSE Ciphertext)
InsecureReply(c, e) == IF CanOpen(ClientKey(c), e) THEN Opened(e) ELSE Ciphertext

(* The reply, or the end of the connection: no replies.  A client that      *)
(* waited for the reply of its CLIENT_CLOSE has nothing more to do.         *)
Returns(c, r) ==
  /\ replies' = IF at[c] = "closing" THEN replies
                ELSE [replies EXCEPT ![c] = Append(@, r)]
  /\ at' = [at EXCEPT ![c] = IF @ = "closing" THEN "closed" ELSE "idle"]
  /\ conn' = [conn EXCEPT ![current[c]].client = "closed", ![current[c]].down = <<>>]
  /\ UNCHANGED <<sent, current, backlog, exitVars, arrived>>

Mine(c) == conn[current[c]]

ReceiveSecure(c) ==
  /\ Secure /\ at[c] \in {"waiting", "closing"}
  /\ \/ /\ Mine(c).down # <<>>
        /\ Returns(c, SecureReplies(c, Head(Mine(c).down)))
     \/ /\ Mine(c).down = <<>> /\ Mine(c).exit = "closed"
        /\ Returns(c, <<>>)

TimesOutNever(c) == FALSE /\ UNCHANGED vars     \* mutant: no settimeout

(* socket.timeout after RECV_TIMEOUT.                                       *)
TimesOut(c) ==
  /\ Secure /\ at[c] \in {"waiting", "closing"}
  /\ Mine(c).down = <<>> /\ Mine(c).exit # "closed"
  /\ Returns(c, <<>>)

(* _recv_loop.                                                              *)
ReceiveInsecure(c) ==
  /\ ~Secure /\ at[c] = "idle" /\ sent[c] # <<>> /\ Mine(c).down # <<>>
  /\ replies' = [replies EXCEPT ![c] = Append(@, <<InsecureReply(c, Head(Mine(c).down))>>)]
  /\ conn' = [conn EXCEPT ![current[c]].down = Tail(@)]
  /\ UNCHANGED <<at, sent, current, backlog, exitVars, arrived>>

(* close(): a secure client sends CLIENT_CLOSE like a message; an insecure  *)
(* one writes it to its circuit and goes.                                   *)
Close(c) ==
  /\ at[c] = "idle"
  /\ \/ /\ Secure
        /\ NewCircuit(c, Len(sent[c]) + 1, Sealed(c, CLIENT_CLOSE))
        /\ at' = [at EXCEPT ![c] = "closing"]
     \/ /\ ~Secure
        /\ conn' = IF sent[c] = <<>> THEN conn
                   ELSE [conn EXCEPT ![current[c]].client = "closed",
                                     ![current[c]].up = Append(@, Raw(CLIENT_CLOSE))]
        /\ at' = [at EXCEPT ![c] = "closed"]
        /\ UNCHANGED <<current, backlog>>
  /\ UNCHANGED <<sent, replies, exitVars, arrived>>

(* Discovery probes the exit, or asks for its key, before the first send.   *)
Probe(c) ==
  /\ at[c] = "idle" /\ current[c] = NoConn
  /\ NewCircuit(c, 0, Raw(PROBE))
  /\ at' = [at EXCEPT ![c] = "probing"]
  /\ UNCHANGED <<sent, replies, exitVars, arrived>>

Probed(c) ==
  /\ at[c] = "probing" /\ Mine(c).exit = "closed"
  /\ at' = [at EXCEPT ![c] = "idle"]
  /\ conn' = [conn EXCEPT ![current[c]].client = "closed"]
  /\ UNCHANGED <<sent, replies, current, backlog, exitVars, arrived>>

---------------------------------------------------------------------------------
(* The exit.                                                                *)

(* The next connection, and its first frame.                                *)
Accept ==
  /\ loop = "accept" /\ backlog # <<>>
  /\ loop' = "read"
  /\ job' = [conn |-> Head(backlog), frame |-> Head(conn[Head(backlog)].up)]
  /\ conn' = [conn EXCEPT ![Head(backlog)].up = Tail(@)]
  /\ backlog' = Tail(backlog)
  /\ UNCHANGED <<clientVars, generation, arrived, disconnected>>

(* close(conn), and what the loop does then.                                *)
Done(next, reply) ==
  /\ conn' = [conn EXCEPT ![job.conn].exit = "closed", ![job.conn].down =
               IF conn[job.conn].client = "open" THEN @ \o reply ELSE @]
  /\ loop' = next
  /\ job' = None
  /\ UNCHANGED <<clientVars, backlog, generation, arrived>>

Sender == job.conn[1]
Frame == job.frame
Readable == CanOpen(ExitKey(generation), Frame)
Message == IF ExitSecure THEN OpenedPadded(Frame) ELSE Opened(Frame)

(* _handle_probe.                                                           *)
AnswerProbe ==
  /\ loop = "read" /\ Frame = Raw(PROBE)
  /\ Done("accept", <<SealForClient(ClientKey(Sender), Answer)>>)
  /\ UNCHANGED disconnected

(* An envelope for another key is taken for a message of nobody; send()     *)
(* raises ConnectionError, which the loop does not catch.                   *)
ReadForeign ==
  /\ loop = "read" /\ Frame # Raw(PROBE) /\ ~Readable
  /\ Done("ended", <<>>)
  /\ UNCHANGED disconnected

(* A message that is empty or as long as two keys asks for a stream.        *)
StreamRequest(m) == m = <<>> \/ AreStreamKeys(m)

(* relay_stream connects to the destination, or returns because that fails. *)
ReadStream ==
  /\ loop = "read" /\ Frame # Raw(PROBE) /\ Readable /\ StreamRequest(Message)
  /\ \/ /\ loop' = "stream"
        /\ job' = [conn |-> job.conn, keys |-> AreStreamKeys(Message),
                   reader |-> "run", stop |-> FALSE, said |-> 0]
        /\ UNCHANGED <<clientVars, conn, backlog, generation, arrived>>
     \/ Done("accept", <<>>)
  /\ UNCHANGED disconnected

(* The stream: job.reader is client_to_remote, job.stop the event, which    *)
(* also stands for remote_to_client.  RelayStream has the two in detail.    *)
NextFrame == Head(conn[job.conn].up)

TakeFrame ==
  /\ loop = "stream" /\ job.reader = "run" /\ conn[job.conn].up # <<>>
  /\ conn' = [conn EXCEPT ![job.conn].up = Tail(@)]
  /\ UNCHANGED <<clientVars, backlog, loop, generation, disconnected>>

Wrapped(f) == [text |-> Opened(f), wrapped |-> TRUE]

(* A frame that opens with the exit's own key is written to the destination *)
(* as it is inside, the envelope around the text; any other is skipped.     *)
StreamFrame ==
  /\ TakeFrame
  /\ job' = [job EXCEPT !.reader = IF job.stop THEN "ended" ELSE "run"]
  /\ arrived' = IF CanOpen(ExitKey(generation), NextFrame)
                THEN Append(arrived, Wrapped(NextFrame)) ELSE arrived

(* sendall raises OSError, before the destination has got it or after.      *)
StreamFrameFails ==
  /\ TakeFrame /\ CanOpen(ExitKey(generation), NextFrame)
  /\ job' = [job EXCEPT !.reader = "ended", !.stop = TRUE]
  /\ arrived' \in {arrived, Append(arrived, Wrapped(NextFrame))}

(* An envelope whose first byte is 1 is taken for a frame of the stream,    *)
(* and open_stream_data raises: the thread is gone, stop is not set.        *)
StreamFrameRaises ==
  /\ TakeFrame /\ CanOpen(ExitKey(generation), NextFrame) /\ job.keys
  /\ job' = [job EXCEPT !.reader = "raised"]
  /\ UNCHANGED arrived

(* The end of the client's side, or a reset, which raises as well.          *)
StreamClientEnds ==
  /\ loop = "stream" /\ job.reader = "run"
  /\ conn[job.conn].up = <<>> /\ conn[job.conn].client = "closed"
  /\ job' \in {[job EXCEPT !.reader = "ended", !.stop = TRUE],
               [job EXCEPT !.reader = "raised"]}
  /\ UNCHANGED <<clientVars, conn, backlog, loop, generation, arrived, disconnected>>

(* remote_to_client: with the keys of the stream, which the client does not *)
(* have, or, when the message was empty, for the client.                    *)
DestinationSpeaks ==
  /\ loop = "stream" /\ ~job.stop /\ job.said < MaxSpoken
  /\ conn[job.conn].client = "open"
  /\ conn' = [conn EXCEPT ![job.conn].down =
                Append(@, SealForClient(IF job.keys THEN StreamKey ELSE ClientKey(Sender), Spoken))]
  /\ job' = [job EXCEPT !.said = @ + 1]
  /\ UNCHANGED <<clientVars, backlog, loop, generation, arrived, disconnected>>

(* The destination ends, or what it says cannot be written any more.        *)
DestinationEnds ==
  /\ loop = "stream" /\ ~job.stop
  /\ job' = [job EXCEPT !.stop = TRUE]
  /\ UNCHANGED <<clientVars, conn, backlog, loop, generation, arrived, disconnected>>

(* Both threads are joined.                                                 *)
StreamEnds ==
  /\ loop = "stream" /\ job.stop /\ job.reader # "run"
  /\ Done("accept", <<>>)
  /\ UNCHANGED disconnected

ReadMessage ==
  /\ loop = "read" /\ Frame # Raw(PROBE) /\ Readable /\ ~StreamRequest(Message)

ReadCloseSilently ==                \* mutant: returns instead of raising
  /\ ReadMessage /\ Message = CLIENT_CLOSE
  /\ Done("accept", <<>>)
  /\ UNCHANGED disconnected

(* ClientDisconnected: the loop logs it and goes on.                        *)
ReadClose ==
  /\ ReadMessage /\ Message = CLIENT_CLOSE
  /\ disconnected' = disconnected \cup {Sender}
  /\ Done("accept", <<>>)

ReadOther ==
  /\ ReadMessage /\ Message # CLIENT_CLOSE
  /\ loop' = IF Echo THEN "send" ELSE "forward"
  /\ job' = [conn |-> job.conn, message |-> Message]
  /\ UNCHANGED <<clientVars, conn, backlog, generation, arrived, disconnected>>

Bare(m) == [text |-> m, wrapped |-> FALSE]

ForwardTwice ==                     \* mutant: a second attempt without a reply
  /\ loop = "forward"
  /\ \/ /\ arrived' = Append(arrived, Bare(job.message))
        /\ job' = job
     \/ /\ arrived' = arrived \o <<Bare(job.message), Bare(job.message)>>
        /\ job' = [job EXCEPT !.message = NoReply]
  /\ loop' = "send"
  /\ UNCHANGED <<clientVars, conn, backlog, generation, disconnected>>

(* forward_to_destination.  The destination answers with the message, with  *)
(* nothing, or cannot be reached in time (before or after it has received). *)
Forward ==
  /\ loop = "forward"
  /\ \/ /\ arrived' = Append(arrived, Bare(job.message))
        /\ \E r \in {job.message, NoReply, Unreachable} :
             job' = [job EXCEPT !.message = r]
     \/ /\ job' = [job EXCEPT !.message = Unreachable]
        /\ UNCHANGED arrived
  /\ loop' = "send"
  /\ UNCHANGED <<clientVars, conn, backlog, generation, disconnected>>

(* ExitServer.send.  A reply that does not fit the block raises ValueError. *)
Body(m) == IF ExitSecure THEN PackReplies(<<m>>) ELSE m
ReplyTo(c, m) == IF ExitSecure THEN SealPaddedForClient(ClientKey(c), Body(m))
                 ELSE SealForClient(ClientKey(c), Body(m))

SendReply ==
  /\ loop = "send"
  /\ IF ExitSecure /\ ~Fits(Body(job.message)) THEN Done("ended", <<>>)
     ELSE Done("accept", <<ReplyTo(Sender, job.message)>>)
  /\ UNCHANGED disconnected

(* The process is stopped and started with a new key; its connections end.  *)
Restart ==
  /\ generation < MaxRestarts
  /\ generation' = generation + 1
  /\ conn' = [i \in ConnId |-> IF conn[i].exit = "waiting"
                               THEN [conn[i] EXCEPT !.exit = "closed"] ELSE conn[i]]
  /\ backlog' = <<>>
  /\ loop' = "accept" /\ job' = None
  /\ UNCHANGED <<clientVars, arrived, disconnected>>

(* An end that is closed answers what nobody read of its connection with a  *)
(* reset, and the client loses what it has not read.                        *)
Reset(i) ==
  /\ conn[i].exit = "closed" /\ conn[i].up # <<>> /\ conn[i].down # <<>>
  /\ conn' = [conn EXCEPT ![i].down = <<>>]
  /\ UNCHANGED <<clientVars, backlog, exitVars, arrived>>

ExitStep ==
  \/ Accept \/ AnswerProbe \/ ReadForeign
  \/ ReadStream \/ StreamFrame \/ StreamFrameFails \/ StreamFrameRaises
  \/ StreamClientEnds \/ StreamEnds
  \/ ReadClose \/ ReadOther \/ Forward \/ SendReply

(* Nobody is owed one of these.                                             *)
OtherStep ==
  \/ DestinationSpeaks \/ DestinationEnds \/ Restart
  \/ \E i \in ConnId : Reset(i)

ClientStep(c) ==
  \/ \E n \in Sizes : SendSecure(c, n) \/ SendInsecure(c, n)
  \/ ReceiveSecure(c) \/ ReceiveInsecure(c) \/ TimesOut(c) \/ Close(c)
  \/ Probe(c) \/ Probed(c)

Next ==
  /\ ExitStep \/ OtherStep \/ \E c \in Client : ClientStep(c)
  /\ UNCHANGED mode

Spec == Init /\ [][Next]_vars

(* The exit runs, and a secure client waits no longer than its timeout.     *)
FairSpec ==
  /\ Spec
  /\ WF_vars(ExitStep /\ UNCHANGED mode)
  /\ \A c \in Client : WF_vars((TimesOut(c) \/ ReceiveSecure(c)) /\ UNCHANGED mode)

---------------------------------------------------------------------------------
(* Properties.                                                              *)

(* The type invariant.                                                      *)
TypeOK ==
  /\ mode \in Modes
  /\ at \in [Client -> {"idle", "probing", "waiting", "closing", "closed"}]
  /\ Sends <= MaxSends
  /\ \A c \in Client : /\ Secure => Len(replies[c]) <= Len(sent[c])
                       /\ current[c] \in ConnId \cup {NoConn}
  /\ \A i \in ConnId : /\ conn[i].client \in {"none", "open", "closed"}
                       /\ conn[i].exit \in {"none", "waiting", "closed"}
  /\ ToSet(backlog) \subseteq ConnId /\ IsInjective(backlog)
  /\ loop \in {"accept", "read", "forward", "send", "stream", "ended"}
  /\ job.conn \in ConnId \cup {NoConn}
  /\ generation \in 0 .. MaxRestarts
  /\ disconnected \subseteq Client

(* Client and exit have been started in the same mode.                      *)
Agreed == Secure = ExitSecure

(* What a send returns: its message echoed, a text of the exit, or nothing. *)
Expected(m) == {<<m>>, <<NoReply>>, <<Unreachable>>, <<>>}

(* Between a client and an exit of the same mode every reply belongs to the *)
(* message it was asked for, whole, however late replies of given up        *)
(* connections are; an insecure client gets one for its first message only. *)
(* A message that is taken for a request for a stream is answered with      *)
(* whatever the destination says, and with it, for an insecure client, all  *)
(* that follows on its circuit; the replies of other messages and clients   *)
(* are not touched.                                                         *)
RepliesMatch ==
  TypeOK /\ (Agreed => \A c \in Client : \A k \in DOMAIN replies[c] :
    IF Secure THEN \/ StreamRequest(sent[c][k])
                   \/ replies[c][k] \in Expected(sent[c][k])
    ELSE \/ StreamRequest(sent[c][1])
         \/ k = 1 /\ replies[c][1] \in Expected(sent[c][1]))

(* Then a message reaches the destination at most once and as it was sent;  *)
(* only what an insecure client sends after a message that was taken for a  *)
(* request for a stream comes inside its envelope.                          *)
DestinationOnce ==
  Agreed =>
    /\ \A i, j \in DOMAIN arrived :
         arrived[i].text = arrived[j].text /\ arrived[i].text # <<>> => i = j
    /\ \A i \in DOMAIN arrived : \E c \in Client : \E k \in DOMAIN sent[c] :
         /\ arrived[i].text = sent[c][k]
         /\ arrived[i].wrapped <=> ~Secure /\ k > 1 /\ StreamRequest(sent[c][1])

(* client.close() notifies an exit of the same mode: once it has served the *)
(* connection that carries CLIENT_CLOSE, it knows that the client is gone.  *)
CloseNotifies ==
  \A c \in Client :
    (/\ Secure /\ Agreed /\ at[c] = "closed" /\ generation = 0
     /\ Mine(c).exit = "closed")
    => c \in disconnected

(* The loop of the exit may end for two reasons: a message sealed for the   *)
(* key of an earlier exit, or a reply too long for the block.               *)
MayEnd ==
  \/ generation > 0
  \/ ExitSecure /\ \E c \in Client : \E m \in ToSet(sent[c]) : Len(m) > Block - 3

(* Each connection, a given up one included, ends: the exit comes back to   *)
(* accept the next one unless it ends for one of these reasons.  On a       *)
(* stream that a message was mistaken to ask for, an insecure client, which *)
(* has no timeout, can keep it waiting, and so can the destination when the *)
(* thread that reads from the client is gone without setting stop.          *)
WaitsForInsecure == loop = "stream" /\ ~Secure /\ conn[job.conn].client = "open"
WaitsForDestination == loop = "stream" /\ job.reader = "raised" /\ ~job.stop
ExitComesBack ==
  []<>(\/ loop = "accept" \/ (loop = "ended" /\ MayEnd)
       \/ WaitsForInsecure \/ WaitsForDestination)
================================================================================
