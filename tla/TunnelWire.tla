------------------------------ MODULE TunnelWire ------------------------------
(***************************************************************************)
(* What the two ends of the shared onion tunnel have in common: the mux    *)
(* frames (core/tunnel_mux.py) and the circuit that carries them.  A       *)
(* circuit is one TCP path client - relays - exit; while it stands, every  *)
(* frame one end sends reaches the other end once and in order.  It may be *)
(* cut at any moment (a relay stops, its socket is closed): what was on    *)
(* the way is lost from some point on, and neither end is told before it   *)
(* next reads.                                                             *)
(***************************************************************************)
EXTENDS Naturals, Sequences, Functions

CONSTANTS
  Host,        \* destinations (host and port together)
  NoHost,      \* the host of a frame that names none: Python's None
  NoData,      \* the payload of a frame that carries none
  MaxStreams,  \* bound: stream ids the client hands out
  MaxCircuits, \* bound: circuits the client opens one after the other
  MaxUp,       \* bound: payloads the browser sends on one stream
  MaxDown      \* bound: payloads a destination answers on one connection

ASSUME TunnelWireAssumption ==
  /\ NoHost \notin Host
  /\ MaxStreams \in Nat
  /\ MaxCircuits \in Nat
  /\ MaxUp \in Nat
  /\ MaxDown \in Nat

StreamId == 1 .. MaxStreams
Circuit == 1 .. MaxCircuits

UpData == [from : StreamId, n : 1 .. MaxUp]     \* n-th payload of a stream
DownData == [from : Host, n : 1 .. MaxDown]     \* n-th answer of a destination

UpOf(s) == {p \in UpData : p.from = s}

(* What parse_mux_frame returns: only OPEN names a host and only DATA has a *)
(* payload.                                                                 *)
Frame == [cmd : {"OPEN", "DATA", "CLOSE", "READY"},
          sid : StreamId,
          host : Host \cup {NoHost},
          data : UpData \cup DownData \cup {NoData}]

(* The frames the client sends, and those the exit sends.                   *)
UpFrame == {f \in Frame : /\ f.cmd # "READY"
                          /\ f.cmd = "OPEN" <=> f.host \in Host
                          /\ f.cmd = "DATA" => f.data \in UpOf(f.sid)}
DownFrame == {f \in Frame : /\ f.cmd \in {"DATA", "READY"}
                            /\ f.cmd = "DATA" => f.data \in DownData}

OpenFrame(s, h) == [cmd |-> "OPEN", sid |-> s, host |-> h, data |-> NoData]
DataFrame(s, d) == [cmd |-> "DATA", sid |-> s, host |-> NoHost, data |-> d]
CloseFrame(s) == [cmd |-> "CLOSE", sid |-> s, host |-> NoHost, data |-> NoData]
ReadyFrame(s) == [cmd |-> "READY", sid |-> s, host |-> NoHost, data |-> NoData]

VARIABLES
  link,      \* link[c]: "unused", "open" or "closed"
  toExit,    \* toExit[c]: frames on their way to the exit
  toClient   \* toClient[c]: frames on their way to the client's dispatcher

wireVars == <<link, toExit, toClient>>

WireTypeOK ==
  /\ link \in [Circuit -> {"unused", "open", "closed"}]
  /\ toExit \in [Circuit -> Seq(UpFrame)]
  /\ toClient \in [Circuit -> Seq(DownFrame)]

WireInit ==
  /\ link = [c \in Circuit |-> "unused"]
  /\ toExit = [c \in Circuit |-> <<>>]
  /\ toClient = [c \in Circuit |-> <<>>]

(* A relay of circuit c goes away.  How much of what was on the way is lost *)
(* is decided where it would have arrived: each end reads some prefix of it *)
(* and then the end of the stream.                                          *)
Cut(c) ==
  /\ link[c] = "open"
  /\ link' = [link EXCEPT ![c] = "closed"]
  /\ UNCHANGED <<toExit, toClient>>
================================================================================
