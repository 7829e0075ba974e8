----------------------------- MODULE StreamService -----------------------------
(***************************************************************************)
(* What the shared tunnel promises its browsers, with no circuit, frame or *)
(* thread in it.  A browser requests a stream to a destination; it may be  *)
(* told that the stream is open only when the exit holds, or held, a       *)
(* connection to that destination; each payload it sends arrives at most   *)
(* once, and at that destination.  What it reads comes from that           *)
(* destination.  Payloads may be lost and streams may end at any time: the *)
(* service is best effort.  One thing it does not promise: when the tunnel *)
(* under some streams has ended, a payload of one of them that was still   *)
(* waiting at the exit may go to the destination of another.               *)
(***************************************************************************)
EXTENDS Naturals, Sequences, Functions

CONSTANTS Host, NoHost, MaxStreams, MaxUp

Stream == 1 .. MaxStreams

VARIABLES
  phase,      \* phase[s]: "idle", "opening", "open" or "over"
  dest,       \* dest[s]: the destination requested for s
  connected,  \* the streams the exit has connected to their destination
  detached,   \* the streams whose tunnel has ended
  sent,       \* sent[s]: number of payloads given to s
  arrivals,   \* arrivals[c]: what was written to the c-th connection, and where
  received    \* received[s]: the origin of each answer read from s

vars == <<phase, dest, connected, detached, sent, arrivals, received>>

Init ==
  /\ phase = [s \in Stream |-> "idle"]
  /\ dest = [s \in Stream |-> NoHost]
  /\ connected = {}
  /\ detached = {}
  /\ sent = [s \in Stream |-> 0]
  /\ arrivals = [c \in Stream |-> <<>>]
  /\ received = [s \in Stream |-> <<>>]

Request(s, h) ==
  /\ phase[s] = "idle"
  /\ phase' = [phase EXCEPT ![s] = "opening"]
  /\ dest' = [dest EXCEPT ![s] = h]
  /\ UNCHANGED <<connected, detached, sent, arrivals, received>>

Connect(s) ==
  /\ phase[s] # "idle"
  /\ connected' = connected \cup {s}
  /\ UNCHANGED <<phase, dest, detached, sent, arrivals, received>>

Establish(s) ==
  /\ phase[s] = "opening"
  /\ s \in connected
  /\ phase' = [phase EXCEPT ![s] = "open"]
  /\ UNCHANGED <<dest, connected, detached, sent, arrivals, received>>

End(s) ==
  /\ phase[s] \in {"opening", "open"}
  /\ phase' = [phase EXCEPT ![s] = "over"]
  /\ UNCHANGED <<dest, connected, detached, sent, arrivals, received>>

Send(s) ==
  /\ phase[s] = "open"
  /\ sent[s] < MaxUp
  /\ sent' = [sent EXCEPT ![s] = @ + 1]
  /\ UNCHANGED <<phase, dest, connected, detached, arrivals, received>>

(* The tunnel under the streams S ends.                                     *)
Detach(S) ==
  /\ detached' = detached \cup S
  /\ UNCHANGED <<phase, dest, connected, sent, arrivals, received>>

(* The n-th payload of s is written to a connection to h, for the first     *)
(* time.                                                                    *)
ArriveAt(s, n, h) ==
  LET payload == [from |-> s, n |-> n] IN
  /\ n <= sent[s]
  /\ \A c \in Stream : \A a \in Range(arrivals[c]) : a.what # payload
  /\ \E c \in Stream :
       arrivals' = [arrivals EXCEPT ![c] = Append(@, [at |-> h, what |-> payload])]
  /\ UNCHANGED <<phase, dest, connected, detached, sent, received>>

Arrive(s, n) == s \in connected /\ ArriveAt(s, n, dest[s])

Stray(s, n, t) == s \in detached /\ t \in detached /\ ArriveAt(s, n, dest[t])

Receive(s) ==
  /\ phase[s] = "open"
  /\ received' = [received EXCEPT ![s] = Append(@, dest[s])]
  /\ UNCHANGED <<phase, dest, connected, detached, sent, arrivals>>

Next ==
  \/ \E S \in SUBSET Stream : Detach(S)
  \/ \E s \in Stream :
       \/ \E h \in Host : Request(s, h)
       \/ Connect(s) \/ Establish(s) \/ End(s) \/ Send(s)
       \/ \E n \in 1 .. MaxUp : Arrive(s, n) \/ \E t \in Stream : Stray(s, n, t)
       \/ Receive(s)

Spec == Init /\ [][Next]_vars
================================================================================
