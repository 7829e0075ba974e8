-------------------------------- MODULE Sessions --------------------------------
(***************************************************************************)
(* The exit as a chat server (ExitServer.accept, receive, send and queue,  *)
(* and the loops that call them).  It keeps a session for each client key: *)
(* a client that comes back on another connection is known, and a reply    *)
(* queued for it in the meantime goes out with the next one.  Whoever      *)
(* queues may do so from a thread of its own.                              *)
(***************************************************************************)
EXTENDS Integers, FiniteSets, SequencesExt

CONSTANTS
  Clients,       \* the clients are 1 .. Clients
  Modes,         \* how the exit may have been started
  Kinds,         \* what clients may send besides their messages
  Capacity,      \* replies that fit one block
  MaxConns,      \* bound: connections of all clients together
  MaxFrames,     \* bound: frames of one connection
  MaxQueued      \* bound: queued replies

ASSUME SessionsAssumption ==
  /\ Clients \in Nat /\ Capacity \in Nat \ {0}
  /\ MaxConns \in Nat /\ MaxFrames \in Nat \ {0} /\ MaxQueued \in Nat
  /\ Modes \subseteq [secure : BOOLEAN, exitNode : BOOLEAN, again : BOOLEAN,
                      ownThread : BOOLEAN]
  /\ Kinds \subseteq {"close", "probe", "key", "foreign"}

Client == 1 .. Clients
ConnId == Client \X (1 .. MaxConns)
SessionId == 1 .. Clients * MaxConns * MaxFrames

NoConn == <<0, 0>>
NoSession == 0
NoPick == [client |-> 0, session |-> NoSession]

(* Texts: the n-th frame of a connection, a queued reply, a fixed answer.   *)
Message(i, n) == [conn |-> i, n |-> n]
Queued(n) == [queued |-> n]
Answer == [answer |-> TRUE]
NoText == [answer |-> FALSE]
IsQueued(t) == "queued" \in DOMAIN t
IsMessage(t) == "conn" \in DOMAIN t

VARIABLES
  mode,      \* how it was started
  conn,      \* conn[i]: kinds of the frames sent, frames still to read, bodies
             \* written, the two ends
  backlog,   \* connections to be accepted
  loop,      \* "accept", "receive", "reply", "drain", "send" or "ended"
  serving,   \* the ClientConnection: its key, session and message
  sessions,  \* sessions[c]: the session of c's key, if there is one
  outbox,    \* outbox[s]: what is queued for session s, one of the past included
  nextSid,
  hand,      \* the outbox the serving thread has copied
  pick,      \* the session looked up to queue for, and its client
  queued     \* queued[n]: the same of the n-th queued reply

serverVars == <<backlog, loop, serving, sessions, outbox, nextSid, hand>>
queueVars == <<pick, queued>>
vars == <<mode, conn, serverVars, queueVars>>

Secure == mode.secure         \* one message and one reply on a connection, padded
ExitNode == mode.exitNode     \* is_exit_node: answers probes, keeps the connection
Again == mode.again           \* a connection is read until it ends (echo mode)
OwnThread == mode.ownThread   \* the serving thread queues, between its calls

Idle == [conn |-> NoConn, key |-> 0, session |-> NoSession, message |-> NoText]

Init ==
  /\ mode \in Modes
  /\ conn = [i \in ConnId |-> [up |-> <<>>, sent |-> <<>>, down |-> <<>>,
                               client |-> "none", server |-> "none"]]
  /\ backlog = <<>>
  /\ loop = "accept"
  /\ serving = Idle
  /\ sessions = [c \in Client |-> NoSession]
  /\ outbox = [s \in SessionId |-> <<>>]
  /\ nextSid = 1
  /\ hand = <<>>
  /\ pick = NoPick
  /\ queued = <<>>

---------------------------------------------------------------------------------
(* A client: connects in order, one connection at a time, and leaves when   *)
(* it has its reply, gives up or has seen the end.                          *)

Gone(i) == conn[i].client = "closed"

ClientConnects(i) ==
  /\ conn[i].client = "none"
  /\ Cardinality({j \in ConnId : conn[j].client # "none"}) < MaxConns
  /\ \A k \in 1 .. i[2] - 1 : Gone(<<i[1], k>>)
  /\ conn' = [conn EXCEPT ![i].client = "open", ![i].server = "waiting"]
  /\ backlog' = Append(backlog, i)
  /\ UNCHANGED <<loop, serving, sessions, outbox, nextSid, hand, queueVars>>

(* kind "message" is the next text; a secure client sends one frame.        *)
ClientSends(i, kind) ==
  /\ conn[i].client = "open" /\ Len(conn[i].sent) < MaxFrames
  /\ Secure => conn[i].sent = <<>>
  /\ conn' = [conn EXCEPT ![i].sent = Append(@, kind), ![i].up =
               Append(@, [kind |-> kind, text |-> Message(i, Len(conn[i].sent) + 1)])]
  /\ UNCHANGED <<serverVars, queueVars>>

ClientLeaves(i) ==
  /\ conn[i].client = "open"
  /\ conn' = [conn EXCEPT ![i].client = "closed"]
  /\ UNCHANGED <<serverVars, queueVars>>

---------------------------------------------------------------------------------
(* The serving thread.                                                      *)

Accept ==
  /\ loop = "accept" /\ backlog # <<>>
  /\ loop' = "receive"
  /\ serving' = [Idle EXCEPT !.conn = Head(backlog)]
  /\ backlog' = Tail(backlog)
  /\ UNCHANGED <<conn, sessions, outbox, nextSid, hand, queueVars>>

Peer == serving.conn[1]
Up == conn[serving.conn].up
Frame == Head(Up)

(* finally: conn.close(); the loop goes on with another accept, or ends     *)
(* with an exception it does not catch.                                     *)
Closed(next) ==
  /\ loop' = next
  /\ serving' = Idle
  /\ conn' = [conn EXCEPT ![serving.conn].server = "closed", ![serving.conn].up = <<>>]

Answers(body) ==
  conn' = [conn EXCEPT ![serving.conn].up = Tail(@), ![serving.conn].down =
             IF Gone(serving.conn) THEN @ ELSE Append(@, body)]

ReceiveEndAgain ==                      \* mutant: reads on after None
  /\ loop = "receive" /\ Up = <<>> /\ Gone(serving.conn)
  /\ UNCHANGED vars

ReceiveEnd ==
  /\ loop = "receive" /\ Up = <<>> /\ Gone(serving.conn)
  /\ Closed("accept")
  /\ UNCHANGED <<backlog, sessions, outbox, nextSid, hand, queueVars>>

(* A client that left before it had read everything resets the connection,  *)
(* and so does what is written after it left: recv() or the next send()     *)
(* raises, and the loop ends.                                               *)
ConnectionReset ==
  /\ loop \in {"receive", "send"}
  /\ Gone(serving.conn) /\ conn[serving.conn].down # <<>>
  /\ Closed("ended")
  /\ hand' = <<>>
  /\ UNCHANGED <<backlog, sessions, outbox, nextSid, queueVars>>

ReceiveProbe ==
  /\ loop = "receive" /\ Up # <<>> /\ Frame.kind \in {"probe", "key"}
  /\ \/ /\ Frame.kind = "probe" /\ ~ExitNode
        /\ Closed("accept")
     \/ /\ Frame.kind = "key" \/ ExitNode
        /\ Answers(<<Answer>>)
        /\ UNCHANGED <<loop, serving>>
  /\ UNCHANGED <<backlog, sessions, outbox, nextSid, hand, queueVars>>

GetOrCreateSession(c) ==
  \/ sessions[c] # NoSession /\ UNCHANGED <<sessions, nextSid>>
  \/ /\ sessions[c] = NoSession
     /\ nextSid' = nextSid + 1
     /\ sessions' = [sessions EXCEPT ![c] = nextSid]

ReceiveMessage ==
  /\ loop = "receive" /\ Up # <<>> /\ Frame.kind = "message"
  /\ GetOrCreateSession(Peer)
  /\ serving' = [serving EXCEPT !.key = Peer, !.session = sessions'[Peer],
                                !.message = Frame.text]
  /\ conn' = [conn EXCEPT ![serving.conn].up = Tail(@)]
  /\ loop' = "reply"
  /\ UNCHANGED <<backlog, outbox, hand, queueVars>>

(* An envelope for another key: a message of nobody in particular.          *)
ReceiveForeign ==
  /\ loop = "receive" /\ Up # <<>> /\ Frame.kind = "foreign"
  /\ serving' = [serving EXCEPT !.message = Frame.text]
  /\ conn' = [conn EXCEPT ![serving.conn].up = Tail(@)]
  /\ loop' = "reply"
  /\ UNCHANGED <<backlog, sessions, outbox, nextSid, hand, queueVars>>

ReceiveCloseKeeps ==                    \* mutant: conn.session is cleared first
  /\ loop = "receive" /\ Up # <<>> /\ Frame.kind = "close"
  /\ Closed("accept")
  /\ UNCHANGED <<backlog, sessions, outbox, nextSid, hand, queueVars>>

(* CLIENT_CLOSE.  Sealed like a message it comes with the client's key and  *)
(* so has a session; an insecure client sends it in the clear, and then it  *)
(* is about the session the connection already has.                         *)
ReceiveClose ==
  /\ loop = "receive" /\ Up # <<>> /\ Frame.kind = "close"
  /\ \/ Secure /\ sessions[Peer] = NoSession /\ nextSid' = nextSid + 1
     \/ (~Secure \/ sessions[Peer] # NoSession) /\ UNCHANGED nextSid
  /\ sessions' = IF Secure \/ serving.session # NoSession
                 THEN [sessions EXCEPT ![Peer] = NoSession] ELSE sessions
  /\ Closed("accept")                   \* ClientDisconnected
  /\ UNCHANGED <<backlog, outbox, hand, queueVars>>

(* send(): nobody to seal for, and the exception ends the loop.             *)
SendRaises ==
  /\ loop = "reply" /\ serving.key = 0
  /\ Closed("ended")
  /\ UNCHANGED <<backlog, sessions, outbox, nextSid, hand, queueVars>>

(* drain_outbox copies ...                                                  *)
DrainCopies ==
  /\ loop = "reply" /\ serving.key # 0
  /\ OwnThread => pick = NoPick
  /\ hand' = outbox[serving.session]
  /\ loop' = "drain"
  /\ UNCHANGED <<conn, backlog, serving, sessions, outbox, nextSid, queueVars>>

DrainKeeps ==                           \* mutant: no clear()
  /\ loop = "drain"
  /\ loop' = "send"
  /\ UNCHANGED <<conn, backlog, serving, sessions, outbox, nextSid, hand, queueVars>>

DrainDropsLast ==                       \* mutant: pops until one is left, copies one less
  /\ loop = "drain"
  /\ outbox' = [outbox EXCEPT ![serving.session] = <<>>]
  /\ hand' = IF Len(hand) > 1 THEN Front(hand) ELSE hand
  /\ loop' = "send"
  /\ UNCHANGED <<conn, backlog, serving, sessions, nextSid, queueVars>>

(* ... and clears.                                                          *)
DrainClears ==
  /\ loop = "drain"
  /\ outbox' = [outbox EXCEPT ![serving.session] = <<>>]
  /\ loop' = "send"
  /\ UNCHANGED <<conn, backlog, serving, sessions, nextSid, hand, queueVars>>

(* The replies of one block, or only the first of them.                     *)
Body(replies) == IF Secure THEN replies ELSE <<replies[1]>>
TooLong(replies) == Secure /\ Len(replies) > Capacity
Replies == Append(hand, serving.message)

SendTooLong ==
  /\ loop = "send" /\ TooLong(Replies)
  /\ Closed("ended")
  /\ hand' = <<>>
  /\ UNCHANGED <<backlog, sessions, outbox, nextSid, queueVars>>

(* What is written to a client that has left is lost, and nobody knows.     *)
Send ==
  /\ loop = "send" /\ ~TooLong(Replies)
  /\ hand' = <<>>
  /\ LET written == [conn EXCEPT ![serving.conn].down = Append(@, Body(Replies))]
     IN \/ /\ Again
           /\ conn' = written
           /\ loop' = "receive"
           /\ UNCHANGED serving
        \/ /\ ~Again
           /\ conn' = [written EXCEPT ![serving.conn].server = "closed",
                                      ![serving.conn].up = <<>>]
           /\ loop' = "accept"
           /\ serving' = Idle
  /\ UNCHANGED <<backlog, sessions, outbox, nextSid, queueVars>>

ServerStep ==
  \/ Accept \/ ReceiveEnd \/ ReceiveProbe \/ ReceiveMessage \/ ReceiveForeign
  \/ ConnectionReset \/ ReceiveClose \/ SendRaises \/ DrainCopies \/ DrainClears \/ SendTooLong \/ Send

---------------------------------------------------------------------------------
(* queue(): finds a session, by sid or because the application holds it,    *)
(* and appends to its outbox.  In the serving thread that is the session of *)
(* the connection, between receive() and send().                            *)

Pick(c) ==
  /\ pick = NoPick /\ Len(queued) < MaxQueued
  /\ sessions[c] # NoSession
  /\ OwnThread => loop = "reply" /\ serving.session = sessions[c]
  /\ pick' = [client |-> c, session |-> sessions[c]]
  /\ UNCHANGED <<conn, serverVars, queued>>

QueueReply ==
  /\ pick # NoPick
  /\ outbox' = [outbox EXCEPT ![pick.session] = Append(@, Queued(Len(queued) + 1))]
  /\ queued' = Append(queued, pick)
  /\ pick' = NoPick
  /\ UNCHANGED <<conn, backlog, loop, serving, sessions, nextSid, hand>>

Step ==
  \/ \E i \in ConnId : \/ ClientConnects(i) \/ ClientLeaves(i)
                       \/ \E k \in Kinds \cup {"message"} : ClientSends(i, k)
  \/ ServerStep
  \/ \E c \in Client : Pick(c)
  \/ QueueReply

Next == Step /\ UNCHANGED mode

Spec == Init /\ [][Next]_vars

(* The serving thread runs, its own queueing included.  A client does not   *)
(* wait for ever: a secure one has a timeout, an insecure one is closed by  *)
(* its user.                                                                *)
FairSpec ==
  /\ Spec
  /\ WF_vars((ServerStep \/ (OwnThread /\ QueueReply)) /\ UNCHANGED mode)
  /\ \A i \in ConnId : WF_vars(ClientLeaves(i) /\ UNCHANGED mode)

---------------------------------------------------------------------------------
(* Properties.                                                              *)

Texts == {Message(i, n) : i \in ConnId, n \in 1 .. MaxFrames}
         \cup {Queued(n) : n \in 1 .. MaxQueued} \cup {Answer, NoText}

(* The type invariant.  No two clients have the same session.               *)
TypeOK ==
  /\ mode \in Modes
  /\ \A i \in ConnId : /\ Len(conn[i].sent) <= MaxFrames
                       /\ conn[i].client \in {"none", "open", "closed"}
                       /\ conn[i].server \in {"none", "waiting", "closed"}
                       /\ ToSet(FlattenSeq(conn[i].down)) \subseteq Texts
  /\ ToSet(backlog) \subseteq ConnId /\ IsInjective(backlog)
  /\ loop \in {"accept", "receive", "reply", "drain", "send", "ended"}
  /\ serving.conn \in ConnId \cup {NoConn} /\ serving.key \in {0, Peer}
  /\ serving.message \in Texts
  /\ sessions \in [Client -> 0 .. nextSid - 1]
  /\ \A c, d \in Client : sessions[c] = sessions[d] => c = d \/ sessions[c] = NoSession
  /\ \A s \in SessionId : ToSet(outbox[s]) \subseteq Texts
  /\ ToSet(hand) \subseteq Texts
  /\ pick.session \in 0 .. nextSid - 1 /\ Len(queued) <= MaxQueued

(* Everything written to a client, in the order it was written.             *)
Written(c) == FlattenSeq([k \in 1 .. MaxConns |-> FlattenSeq(conn[<<c, k>>].down)])

(* A reply answers a message of the connection it is written to; a queued   *)
(* reply goes to the client it was queued for, at most once and in order,   *)
(* whichever connection carries it and whatever is queued meanwhile.        *)
RightReplies ==
  /\ TypeOK
  /\ \A i \in ConnId : \A t \in ToSet(FlattenSeq(conn[i].down)) :
       IsMessage(t) => t.conn = i
  /\ \A c \in Client :
       LET w == Written(c)
           Q == {k \in DOMAIN w : IsQueued(w[k])}
       IN /\ \A k \in Q : queued[w[k].queued].client = c
          /\ \A k, l \in Q : k < l => w[k].queued < w[l].queued

(* README.md:202: a client keeps its session until its CLIENT_CLOSE is      *)
(* read, and then has none; no other client, lookup or drain touches it.    *)
ReadsClose(c) ==
  loop = "receive" /\ Peer = c /\ Up # <<>> /\ Frame.kind = "close" /\ loop' # loop
StableUntilClose ==
  [][\A c \in Client : sessions[c] # NoSession =>
       IF Secure /\ ReadsClose(c) /\ loop' = "accept" THEN sessions'[c] = NoSession
       ELSE sessions'[c] = sessions[c] \/ ReadsClose(c)]_vars

(* README.md:254: a reply queued for a client that keeps its session waits  *)
(* for the client's next message and is written with the answer to it.      *)
(* Said of a secure exit whose serving thread does the queueing: another    *)
(* thread may queue between copy and clear, and without padding only the    *)
(* first of the replies is written.                                         *)
QueuedKept ==
  loop # "ended" /\ Secure /\ OwnThread =>
    \A n \in DOMAIN queued :
      LET q == queued[n]
      IN sessions[q.client] = q.session =>
           Queued(n) \in ToSet(outbox[q.session]) \cup ToSet(hand)
                        \cup ToSet(Written(q.client))

(* The loop may end with a message of nobody, more queued replies than fit, *)
(* or a connection that was written to after its client had left.           *)
MayEnd ==
  \/ \E i \in ConnId : conn[i].server = "closed" /\ "foreign" \in ToSet(conn[i].sent)
  \/ Secure /\ Len(queued) >= Capacity
  \/ \E i \in ConnId : Gone(i) /\ conn[i].server = "closed" /\ conn[i].down # <<>>

(* Every connection is served, one client after the other, each until it    *)
(* has left, unless the loop has ended for one of these reasons: none waits *)
(* for ever.  (A connection waits once, so this says that of each.)         *)
Served ==
  []<>(\A i \in ConnId :
         conn[i].server = "waiting" => loop = "ended" /\ MayEnd)
================================================================================
