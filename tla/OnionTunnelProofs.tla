-------------------------- MODULE OnionTunnelProofs ---------------------------
(***************************************************************************)
(* Proofs about OnionTunnel, for every number of streams, circuits,        *)
(* payloads and destinations.                                              *)
(***************************************************************************)
EXTENDS OnionTunnel, TLAPS

(* TypeOK is not inductive: a thread's program counter says which of its    *)
(* variables are set, and a registered connection has been made.            *)
OpenersSet ==
  \A i \in StreamId :
    /\ opener[i] # "none" => /\ openCirc[i] \in Circuit
                             /\ cur[openCirc[i]].sid \in StreamId
    /\ opener[i] \in {"connect", "flush"} \/ sock[i] # "none" \/ reader[i] # "none"
         => /\ opener[i] # "none"
            /\ boundSid[i] \in StreamId
            /\ boundHost[i] \in Host

StreamsSet ==
  \A c \in Circuit, s \in StreamId :
    streams[c][s] # 0 => sock[streams[c][s]] # "none"

LoopsSet ==
  \A c \in Circuit :
    /\ loop[c] \in {"write", "park"} => /\ cur[c].sid \in StreamId
                                        /\ hand[c].data \in UpOf(cur[c].sid)
    /\ loop[c] = "write" => hand[c].conn \in StreamId
    /\ loop[c] = "closing" => cur[c].sid \in StreamId

HandlersSet == \A s \in StreamId : handler[s] # "none" => dest[s] \in Host

TypeInv ==
  TypeOK /\ OpenersSet /\ StreamsSet /\ LoopsSet /\ HandlersSet

-------------------------------------------------------------------------------
(* Sequences and frames.                                                    *)

LEMMA SeqAppend ==
  ASSUME NEW S, NEW q \in Seq(S), NEW e \in S
  PROVE  Append(q, e) \in Seq(S)
OBVIOUS

LEMMA SeqHeadTail ==
  ASSUME NEW S, NEW q \in Seq(S), q # <<>>
  PROVE  Head(q) \in S /\ Tail(q) \in Seq(S)
OBVIOUS

LEMMA SeqPrefix ==
  ASSUME NEW S, NEW q \in Seq(S), NEW k \in Nat, k <= Len(q)
  PROVE  SubSeq(q, 1, k) \in Seq(S)
OBVIOUS

(* What the client sends is well formed, and what that means.               *)
LEMMA UpFrames ==
  /\ \A s \in StreamId, h \in Host : OpenFrame(s, h) \in UpFrame
  /\ \A s \in StreamId : \A d \in UpOf(s) : DataFrame(s, d) \in UpFrame
  /\ \A s \in StreamId : CloseFrame(s) \in UpFrame
  /\ \A f \in UpFrame : /\ f.sid \in StreamId
                        /\ f.host \in Host \cup {NoHost}
                        /\ f.cmd = "OPEN" <=> f.host \in Host
                        /\ f.cmd = "DATA" => f.data \in UpOf(f.sid)
BY TunnelWireAssumption DEF UpFrame, Frame, OpenFrame, DataFrame, CloseFrame, UpOf

(* The same for the exit.                                                   *)
LEMMA DownFrames ==
  /\ \A s \in StreamId, d \in DownData : DataFrame(s, d) \in DownFrame
  /\ \A s \in StreamId : ReadyFrame(s) \in DownFrame
  /\ \A f \in DownFrame : /\ f.sid \in StreamId
                          /\ f.cmd = "DATA" => f.data \in DownData
BY DEF DownFrame, Frame, DataFrame, ReadyFrame

LEMMA UpOfIsUpData == \A s : UpOf(s) \subseteq UpData
BY DEF UpOf

LEMMA SendMuxType ==
  ASSUME WireTypeOK, NEW c \in Circuit, NEW f \in DownFrame, SendMux(c, f)
  PROVE  WireTypeOK'
BY SeqAppend DEF WireTypeOK, SendMux

LEMMA SendType ==
  ASSUME WireTypeOK, ClientTypeOK, NEW f \in UpFrame, Send(f)
  PROVE  WireTypeOK'
BY SeqAppend DEF WireTypeOK, ClientTypeOK, Send, CircuitUp

LEMMA RecvType ==
  ASSUME WireTypeOK, NEW c \in Circuit, NEW cmd, Recv(c, cmd)
  PROVE  /\ WireTypeOK'
         /\ Head(toExit[c]) \in UpFrame
BY SeqHeadTail DEF WireTypeOK, Recv

LEMMA LoseRestType ==
  ASSUME WireTypeOK, NEW c \in Circuit, LoseRest(c)
  PROVE  WireTypeOK'
BY DEF WireTypeOK, LoseRest

LEMMA WireUntouched ==
  ASSUME WireTypeOK, UNCHANGED wireVars
  PROVE  WireTypeOK'
BY DEF WireTypeOK, wireVars

(* An action of one end leaves the other end's variables alone.             *)
LEMMA ClientUntouched ==
  ASSUME ClientTypeOK, HandlersSet, UNCHANGED clientVars
  PROVE  ClientTypeOK' /\ HandlersSet'
BY DEF ClientTypeOK, HandlersSet, clientVars, runnerVars, tableVars, handlerVars

LEMMA ExitUntouched ==
  ASSUME ExitTypeOK, OpenersSet, StreamsSet, LoopsSet, UNCHANGED exitVars
  PROVE  ExitTypeOK' /\ OpenersSet' /\ StreamsSet' /\ LoopsSet'
BY DEF ExitTypeOK, OpenersSet, StreamsSet, LoopsSet, exitVars, loopVars, openerVars,
       socketVars

LEMMA CloseStreamType ==
  ASSUME ExitTypeOK, StreamsSet, NEW c \in Circuit, NEW s \in StreamId,
         CloseStream(c, s)
  PROVE  /\ streams' \in [Circuit -> [StreamId -> StreamId \cup {0}]]
         /\ sock' \in [StreamId -> {"none", "open", "closed"}]
         /\ \A i \in StreamId : sock'[i] # "none" => sock[i] # "none"
         /\ StreamsSet'
<1>1. streams' \in [Circuit -> [StreamId -> StreamId \cup {0}]]
  BY DEF ExitTypeOK, CloseStream
<1>2. sock' \in [StreamId -> {"none", "open", "closed"}]
  BY DEF ExitTypeOK, CloseStream
<1>3. \A i \in StreamId : sock'[i] # "none" <=> sock[i] # "none"
  <2> SUFFICES ASSUME NEW i \in StreamId, i = streams[c][s]
               PROVE  sock[i] # "none"
    BY DEF ExitTypeOK, CloseStream
  <2> QED
    BY DEF StreamsSet, StreamId
<1>4. \A d \in Circuit, t \in StreamId : streams'[d][t] \in {streams[d][t], 0}
  BY DEF ExitTypeOK, CloseStream
<1>5. \A d \in Circuit, t \in StreamId : streams[d][t] \in StreamId \cup {0}
  BY DEF ExitTypeOK
<1> QED
  BY <1>1, <1>2, <1>3, <1>4, <1>5 DEF StreamsSet

LEMMA StreamsUntouched ==
  ASSUME StreamsSet, UNCHANGED <<streams, sock>>
  PROVE  StreamsSet'
BY DEF StreamsSet

-------------------------------------------------------------------------------
(* The accept loop and the main loop of relay_mux.  Each action keeps TypeInv.*)

LEMMA TypeAccept ==
  ASSUME TypeInv, NEW c \in Circuit, Accept(c), UNCHANGED clientVars
  PROVE  TypeInv'
<1>1. WireTypeOK'
  BY WireUntouched
     DEF Accept, EnterMux, TypeInv, TypeOK
<1>2. ExitTypeOK'
  BY TunnelWireAssumption
     DEF Accept, EnterMux, loopVars, openerVars, socketVars, TypeInv, TypeOK,
         StreamId, Circuit, ExitTypeOK, OpenersSet, StreamsSet, LoopsSet
<1>3. OpenersSet'
  BY TunnelWireAssumption
     DEF Accept, EnterMux, loopVars, openerVars, socketVars, TypeInv, TypeOK,
         StreamId, Circuit, OpenersSet, ExitTypeOK, StreamsSet, LoopsSet
<1>4. StreamsSet'
  BY StreamsUntouched
     DEF Accept, EnterMux, socketVars, TypeInv
<1>5. LoopsSet'
  BY TunnelWireAssumption
     DEF Accept, EnterMux, loopVars, openerVars, socketVars, TypeInv, TypeOK,
         StreamId, Circuit, LoopsSet, ExitTypeOK, OpenersSet, StreamsSet
<1> QED
  BY <1>1, <1>2, <1>3, <1>4, <1>5, ClientUntouched DEF TypeInv, TypeOK

LEMMA TypeRecvOpen ==
  ASSUME TypeInv, NEW c \in Circuit, RecvOpen(c), UNCHANGED clientVars
  PROVE  TypeInv'
<1>1. WireTypeOK'
  BY RecvType, WireUntouched
     DEF RecvOpen, TypeInv, TypeOK
<1>2. ExitTypeOK'
  BY TunnelWireAssumption, RecvType, UpFrames
     DEF RecvOpen, Recv, loopVars, openerVars, socketVars, TypeInv, TypeOK,
         StreamId, Circuit, ExitTypeOK, OpenersSet, StreamsSet, LoopsSet
<1>3. OpenersSet'
  BY ZenonT(30), TunnelWireAssumption, RecvType, UpFrames
     DEF RecvOpen, Recv, loopVars, openerVars, socketVars, TypeInv, TypeOK,
         StreamId, Circuit, OpenersSet, ExitTypeOK, StreamsSet, LoopsSet
<1>4. StreamsSet'
  BY StreamsUntouched
     DEF RecvOpen, Recv, socketVars, TypeInv
<1>5. LoopsSet'
  BY SMTT(60), TunnelWireAssumption, RecvType, UpFrames
     DEF RecvOpen, Recv, loopVars, openerVars, socketVars, TypeInv, TypeOK,
         StreamId, Circuit, LoopsSet, ExitTypeOK, OpenersSet, StreamsSet
<1> QED
  BY <1>1, <1>2, <1>3, <1>4, <1>5, ClientUntouched DEF TypeInv, TypeOK

LEMMA TypeRecvData ==
  ASSUME TypeInv, NEW c \in Circuit, RecvData(c), UNCHANGED clientVars
  PROVE  TypeInv'
<1> DEFINE f == Head(toExit[c])
           r == streams[c][f.sid]
<1>1. WireTypeOK' /\ f \in UpFrame
  BY RecvType DEF RecvData, TypeInv, TypeOK
<1>2. f.cmd = "DATA" /\ f.sid \in StreamId /\ f.data \in UpOf(f.sid) /\ f.data \in UpData
  BY <1>1, UpFrames, UpOfIsUpData DEF RecvData, Recv
<1>3. r \in StreamId \cup {0}
  BY <1>2 DEF TypeInv, TypeOK, ExitTypeOK
<1>4. /\ cur' = [cur EXCEPT ![c] = [sid |-> f.sid, host |-> f.host]]
      /\ hand' = [hand EXCEPT ![c] = [conn |-> r, data |-> f.data]]
      /\ loop' = [loop EXCEPT ![c] = IF r = 0 THEN "park" ELSE "write"]
      /\ f.host \in Host \cup {NoHost}
      /\ UNCHANGED <<serving, ids, streams, pending, openerVars, socketVars>>
  BY <1>1, UpFrames DEF RecvData, Recv
<1> HIDE DEF f, r
<1>5. ExitTypeOK'
  BY <1>2, <1>3, <1>4 DEF TypeInv, TypeOK, ExitTypeOK, openerVars, socketVars
<1>6. OpenersSet'
  BY <1>2, <1>4 DEF TypeInv, TypeOK, ExitTypeOK, OpenersSet, openerVars, socketVars
<1>7. StreamsSet'
  BY <1>4, StreamsUntouched DEF TypeInv, socketVars
<1>8. LoopsSet'
  BY <1>2, <1>3, <1>4 DEF TypeInv, TypeOK, ExitTypeOK, LoopsSet
<1> QED
  BY <1>1, <1>5, <1>6, <1>7, <1>8, ClientUntouched DEF TypeInv, TypeOK

LEMMA TypeRecvClose ==
  ASSUME TypeInv, NEW c \in Circuit, RecvClose(c), UNCHANGED clientVars
  PROVE  TypeInv'
<1>1. WireTypeOK'
  BY RecvType, WireUntouched
     DEF RecvClose, CloseStream, TypeInv, TypeOK
<1>2. ExitTypeOK'
  BY TunnelWireAssumption, RecvType, UpFrames, CloseStreamType
     DEF RecvClose, Recv, loopVars, openerVars, socketVars, TypeInv, TypeOK,
         StreamId, Circuit, ExitTypeOK, OpenersSet, StreamsSet, LoopsSet
<1>3. OpenersSet'
  BY TunnelWireAssumption, RecvType, UpFrames, CloseStreamType
     DEF RecvClose, Recv, loopVars, openerVars, socketVars, TypeInv, TypeOK,
         StreamId, Circuit, OpenersSet, ExitTypeOK, StreamsSet, LoopsSet
<1>4. StreamsSet'
  BY CloseStreamType, RecvType, UpFrames
     DEF RecvClose, Recv, TypeInv, TypeOK, OpenersSet, LoopsSet
<1>5. LoopsSet'
  BY ZenonT(30), TunnelWireAssumption, RecvType, UpFrames, CloseStreamType
     DEF RecvClose, Recv, loopVars, openerVars, socketVars, TypeInv, TypeOK,
         StreamId, Circuit, LoopsSet, ExitTypeOK, OpenersSet, StreamsSet
<1> QED
  BY <1>1, <1>2, <1>3, <1>4, <1>5, ClientUntouched DEF TypeInv, TypeOK

LEMMA TypeWriteRemote ==
  ASSUME TypeInv, NEW c \in Circuit, WriteRemote(c), UNCHANGED clientVars
  PROVE  TypeInv'
<1>1. WireTypeOK'
  BY WireUntouched
     DEF WriteRemote, Deliver, NoHand, Writable, TypeInv, TypeOK
<1>2. ExitTypeOK'
  BY TunnelWireAssumption, SeqAppend, SeqHeadTail, UpOfIsUpData
     DEF WriteRemote, Deliver, NoHand, Writable, loopVars, openerVars,
         socketVars, TypeInv, TypeOK, StreamId, Circuit, ExitTypeOK, OpenersSet,
         StreamsSet, LoopsSet
<1>3. OpenersSet'
  BY TunnelWireAssumption, SeqAppend, SeqHeadTail, UpOfIsUpData
     DEF WriteRemote, Deliver, NoHand, Writable, loopVars, openerVars,
         socketVars, TypeInv, TypeOK, StreamId, Circuit, OpenersSet, ExitTypeOK,
         StreamsSet, LoopsSet
<1>4. StreamsSet'
  BY StreamsUntouched
     DEF WriteRemote, NoHand, Writable, socketVars, TypeInv
<1>5. LoopsSet'
  BY TunnelWireAssumption, SeqAppend, SeqHeadTail, UpOfIsUpData
     DEF WriteRemote, Deliver, NoHand, Writable, loopVars, openerVars,
         socketVars, TypeInv, TypeOK, StreamId, Circuit, LoopsSet, ExitTypeOK,
         OpenersSet, StreamsSet
<1> QED
  BY <1>1, <1>2, <1>3, <1>4, <1>5, ClientUntouched DEF TypeInv, TypeOK

LEMMA TypeWriteFails ==
  ASSUME TypeInv, NEW c \in Circuit, WriteFails(c), UNCHANGED clientVars
  PROVE  TypeInv'
<1>1. WireTypeOK'
  BY WireUntouched
     DEF WriteFails, CloseStream, NoHand, TypeInv, TypeOK
<1>2. ExitTypeOK'
  BY TunnelWireAssumption, CloseStreamType
     DEF WriteFails, NoHand, loopVars, openerVars, socketVars, TypeInv, TypeOK,
         StreamId, Circuit, ExitTypeOK, OpenersSet, StreamsSet, LoopsSet
<1>3. OpenersSet'
  BY TunnelWireAssumption, CloseStreamType
     DEF WriteFails, NoHand, loopVars, openerVars, socketVars, TypeInv, TypeOK,
         StreamId, Circuit, OpenersSet, ExitTypeOK, StreamsSet, LoopsSet
<1>4. StreamsSet'
  BY CloseStreamType
     DEF WriteFails, NoHand, TypeInv, TypeOK, OpenersSet, LoopsSet
<1>5. LoopsSet'
  BY TunnelWireAssumption, CloseStreamType
     DEF WriteFails, NoHand, loopVars, openerVars, socketVars, TypeInv, TypeOK,
         StreamId, Circuit, LoopsSet, ExitTypeOK, OpenersSet, StreamsSet
<1> QED
  BY <1>1, <1>2, <1>3, <1>4, <1>5, ClientUntouched DEF TypeInv, TypeOK

LEMMA TypePark ==
  ASSUME TypeInv, NEW c \in Circuit, Park(c), UNCHANGED clientVars
  PROVE  TypeInv'
<1>1. WireTypeOK'
  BY WireUntouched
     DEF Park, NoHand, TypeInv, TypeOK
<1>2. ExitTypeOK'
  BY ZenonT(30), TunnelWireAssumption, SeqAppend, SeqHeadTail, UpOfIsUpData
     DEF Park, NoHand, loopVars, openerVars, socketVars, TypeInv, TypeOK,
         StreamId, Circuit, ExitTypeOK, OpenersSet, StreamsSet, LoopsSet
<1>3. OpenersSet'
  BY TunnelWireAssumption, SeqAppend, SeqHeadTail, UpOfIsUpData
     DEF Park, NoHand, loopVars, openerVars, socketVars, TypeInv, TypeOK,
         StreamId, Circuit, OpenersSet, ExitTypeOK, StreamsSet, LoopsSet
<1>4. StreamsSet'
  BY StreamsUntouched
     DEF Park, NoHand, socketVars, TypeInv
<1>5. LoopsSet'
  BY TunnelWireAssumption, SeqAppend, SeqHeadTail, UpOfIsUpData
     DEF Park, NoHand, loopVars, openerVars, socketVars, TypeInv, TypeOK,
         StreamId, Circuit, LoopsSet, ExitTypeOK, OpenersSet, StreamsSet
<1> QED
  BY <1>1, <1>2, <1>3, <1>4, <1>5, ClientUntouched DEF TypeInv, TypeOK

LEMMA TypeTunnelEOF ==
  ASSUME TypeInv, NEW c \in Circuit, TunnelEOF(c), UNCHANGED clientVars
  PROVE  TypeInv'
<1>1. WireTypeOK'
  BY LoseRestType DEF TunnelEOF, TypeInv, TypeOK
<1>2. /\ loop' = [loop EXCEPT ![c] = "cleanup"]
      /\ ids' = [ids EXCEPT ![c] = {s \in StreamId : streams[c][s] # 0}]
      /\ UNCHANGED <<serving, cur, hand, streams, pending, openerVars, socketVars>>
  BY DEF TunnelEOF
<1>3. ExitTypeOK'
  BY <1>2 DEF openerVars, socketVars, TypeInv, TypeOK, ExitTypeOK
<1>4. OpenersSet' /\ StreamsSet'
  BY <1>2 DEF openerVars, socketVars, TypeInv, OpenersSet, StreamsSet
<1>5. LoopsSet'
  BY <1>2 DEF TypeInv, TypeOK, ExitTypeOK, LoopsSet
<1> QED
  BY <1>1, <1>3, <1>4, <1>5, ClientUntouched DEF TypeInv, TypeOK

LEMMA TypeCleanupNext ==
  ASSUME TypeInv, NEW c \in Circuit, CleanupNext(c), UNCHANGED clientVars
  PROVE  TypeInv'
<1>1. WireTypeOK'
  BY WireUntouched DEF CleanupNext, TypeInv, TypeOK
<1>2. PICK s \in ids[c] : /\ ids' = [ids EXCEPT ![c] = @ \ {s}]
                          /\ cur' = [cur EXCEPT ![c].sid = s]
  BY DEF CleanupNext
<1>3. s \in StreamId
  BY DEF TypeInv, TypeOK, ExitTypeOK
<1>4. /\ loop' = [loop EXCEPT ![c] = "closing"]
      /\ UNCHANGED <<serving, hand, streams, pending, openerVars, socketVars>>
  BY DEF CleanupNext
<1>5. ids' \in [Circuit -> SUBSET StreamId]
  BY <1>2 DEF TypeInv, TypeOK, ExitTypeOK
<1>6. /\ cur' \in [Circuit -> [sid : StreamId \cup {0}, host : Host \cup {NoHost}]]
      /\ \A d \in Circuit : cur'[d].sid = IF d = c THEN s ELSE cur[d].sid
  <2> DEFINE v == [cur[c] EXCEPT !.sid = s]
  <2>1. cur \in [Circuit -> [sid : StreamId \cup {0}, host : Host \cup {NoHost}]]
    BY DEF TypeInv, TypeOK, ExitTypeOK
  <2>2. v \in [sid : StreamId \cup {0}, host : Host \cup {NoHost}] /\ v.sid = s
    BY <1>3, <2>1
  <2>3. cur' = [cur EXCEPT ![c] = v]
    BY <1>2
  <2> QED
    BY <2>1, <2>2, <2>3
<1>9. ExitTypeOK'
  BY <1>4, <1>5, <1>6 DEF openerVars, socketVars, TypeInv, TypeOK, ExitTypeOK
<1>7. OpenersSet' /\ StreamsSet'
  BY <1>3, <1>4, <1>6 DEF openerVars, socketVars, TypeInv, OpenersSet, StreamsSet
<1>8. LoopsSet'
  BY <1>3, <1>4, <1>6 DEF TypeInv, TypeOK, ExitTypeOK, LoopsSet
<1> QED
  BY <1>1, <1>7, <1>8, <1>9, ClientUntouched DEF TypeInv, TypeOK

LEMMA TypeCleanupClose ==
  ASSUME TypeInv, NEW c \in Circuit, CleanupClose(c), UNCHANGED clientVars
  PROVE  TypeInv'
<1>1. WireTypeOK'
  BY WireUntouched DEF CleanupClose, TypeInv, TypeOK
<1>2. /\ loop' = [loop EXCEPT ![c] = "cleanup"]
      /\ CloseStream(c, cur[c].sid)
      /\ cur[c].sid \in StreamId
      /\ UNCHANGED <<serving, cur, hand, ids, pending, openerVars, reader, answers,
                     delivered>>
  BY DEF CleanupClose, TypeInv, LoopsSet
<1>3. /\ streams' \in [Circuit -> [StreamId -> StreamId \cup {0}]]
      /\ sock' \in [StreamId -> {"none", "open", "closed"}]
      /\ \A i \in StreamId : sock'[i] # "none" => sock[i] # "none"
      /\ StreamsSet'
  BY <1>2, CloseStreamType DEF TypeInv, TypeOK
<1>4. ExitTypeOK'
  BY <1>2, <1>3 DEF openerVars, TypeInv, TypeOK, ExitTypeOK
<1>5. OpenersSet'
  BY <1>2, <1>3 DEF openerVars, TypeInv, OpenersSet
<1>6. LoopsSet'
  BY <1>2 DEF TypeInv, TypeOK, ExitTypeOK, LoopsSet
<1> QED
  BY <1>1, <1>3, <1>4, <1>5, <1>6, ClientUntouched DEF TypeInv, TypeOK

LEMMA TypeReturn ==
  ASSUME TypeInv, NEW c \in Circuit, Return(c), UNCHANGED clientVars
  PROVE  TypeInv'
<1>1. WireTypeOK'
  BY WireUntouched DEF Return, TypeInv, TypeOK
<1>2. /\ loop' = [loop EXCEPT ![c] = "done"]
      /\ serving' = 0
      /\ UNCHANGED <<cur, hand, ids, streams, pending, openerVars, socketVars>>
  BY DEF Return
<1>3. ExitTypeOK'
  BY <1>2 DEF openerVars, socketVars, TypeInv, TypeOK, ExitTypeOK
<1>4. OpenersSet' /\ StreamsSet'
  BY <1>2 DEF openerVars, socketVars, TypeInv, OpenersSet, StreamsSet
<1>5. LoopsSet'
  BY <1>2 DEF TypeInv, TypeOK, ExitTypeOK, LoopsSet
<1> QED
  BY <1>1, <1>3, <1>4, <1>5, ClientUntouched DEF TypeInv, TypeOK

LEMMA TypeTunnelReset ==
  ASSUME TypeInv, NEW c \in Circuit, TunnelReset(c), UNCHANGED clientVars
  PROVE  TypeInv'
<1>1. WireTypeOK'
  BY LoseRestType DEF TunnelReset, TypeInv, TypeOK
<1>2. LoopsSet'
  BY DEF TunnelReset, TypeInv, TypeOK, ExitTypeOK, LoopsSet
<1>3. CASE Plain
  <2>1. ProcessDies
    BY <1>3 DEF TunnelReset
  <2>2. ExitTypeOK'
    BY <2>1 DEF TunnelReset, ProcessDies, TypeInv, TypeOK, ExitTypeOK
  <2>3. OpenersSet'
    BY <2>1 DEF TunnelReset, ProcessDies, TypeInv, TypeOK, ExitTypeOK, OpenersSet
  <2>4. StreamsSet'
    BY <2>1 DEF ProcessDies, StreamsSet
  <2> QED
    BY <1>1, <1>2, <2>2, <2>3, <2>4, ClientUntouched DEF TypeInv, TypeOK
<1>4. CASE ~Plain
  <2>1. UNCHANGED <<streams, openerVars, sock, reader, cur, hand, ids, pending, serving,
                    answers, delivered>>
    BY <1>4 DEF TunnelReset
  <2>2. ExitTypeOK'
    BY <2>1 DEF TunnelReset, TypeInv, TypeOK, ExitTypeOK, openerVars
  <2>3. OpenersSet' /\ StreamsSet'
    BY <2>1 DEF TypeInv, OpenersSet, StreamsSet, openerVars
  <2> QED
    BY <1>1, <1>2, <2>2, <2>3, ClientUntouched DEF TypeInv, TypeOK
<1> QED
  BY <1>3, <1>4

-------------------------------------------------------------------------------
(* The opener and reader threads.  Each action keeps TypeInv.               *)

LEMMA TypeBind ==
  ASSUME TypeInv, NEW i \in StreamId, Bind(i), UNCHANGED clientVars
  PROVE  TypeInv'
<1>1. WireTypeOK'
  BY WireUntouched
     DEF Bind, LoopVars, TypeInv, TypeOK
<1>2. ExitTypeOK'
  BY TunnelWireAssumption
     DEF Bind, LoopVars, loopVars, openerVars, socketVars, TypeInv, TypeOK,
         StreamId, Circuit, ExitTypeOK, OpenersSet, StreamsSet, LoopsSet
<1>3. OpenersSet'
  BY TunnelWireAssumption
     DEF Bind, LoopVars, loopVars, openerVars, socketVars, TypeInv, TypeOK,
         StreamId, Circuit, OpenersSet, ExitTypeOK, StreamsSet, LoopsSet
<1>4. StreamsSet'
  BY StreamsUntouched
     DEF Bind, LoopVars, socketVars, TypeInv
<1>5. LoopsSet'
  BY TunnelWireAssumption
     DEF Bind, LoopVars, loopVars, openerVars, socketVars, TypeInv, TypeOK,
         StreamId, Circuit, LoopsSet, ExitTypeOK, OpenersSet, StreamsSet
<1> QED
  BY <1>1, <1>2, <1>3, <1>4, <1>5, ClientUntouched DEF TypeInv, TypeOK

LEMMA TypeBindDies ==
  ASSUME TypeInv, NEW i \in StreamId, BindDies(i), UNCHANGED clientVars
  PROVE  TypeInv'
<1>1. WireTypeOK'
  BY WireUntouched
     DEF BindDies, LoopVars, TypeInv, TypeOK
<1>2. ExitTypeOK'
  BY TunnelWireAssumption
     DEF BindDies, LoopVars, loopVars, openerVars, socketVars, TypeInv, TypeOK,
         StreamId, Circuit, ExitTypeOK, OpenersSet, StreamsSet, LoopsSet
<1>3. OpenersSet'
  BY TunnelWireAssumption
     DEF BindDies, LoopVars, loopVars, openerVars, socketVars, TypeInv, TypeOK,
         StreamId, Circuit, OpenersSet, ExitTypeOK, StreamsSet, LoopsSet
<1>4. StreamsSet'
  BY StreamsUntouched
     DEF BindDies, LoopVars, socketVars, TypeInv
<1>5. LoopsSet'
  BY TunnelWireAssumption
     DEF BindDies, LoopVars, loopVars, openerVars, socketVars, TypeInv, TypeOK,
         StreamId, Circuit, LoopsSet, ExitTypeOK, OpenersSet, StreamsSet
<1> QED
  BY <1>1, <1>2, <1>3, <1>4, <1>5, ClientUntouched DEF TypeInv, TypeOK

LEMMA TypeConnectOk ==
  ASSUME TypeInv, NEW i \in StreamId, ConnectOk(i), UNCHANGED clientVars
  PROVE  TypeInv'
<1> DEFINE c == openCirc[i]
           s == boundSid[i]
<1>1. /\ opener[i] = "connect"
      /\ c \in Circuit /\ s \in StreamId /\ boundHost[i] \in Host
  BY DEF ConnectOk, TypeInv, OpenersSet
<1>2. /\ sock' = [sock EXCEPT ![i] = "open"]
      /\ streams' = [streams EXCEPT ![c][s] = i]
      /\ queued' = [queued EXCEPT ![i] = pending[c][s]]
      /\ pending' = [pending EXCEPT ![c][s] = <<>>]
      /\ opener' = [opener EXCEPT ![i] = "flush"]
      /\ UNCHANGED <<wireVars, loopVars, openCirc, boundSid, boundHost,
                     reader, answers, delivered>>
  BY DEF ConnectOk
<1> HIDE DEF c, s
<1>3. WireTypeOK'
  BY <1>2, WireUntouched DEF TypeInv, TypeOK
<1>4. pending[c][s] \in Seq(UpData)
  BY <1>1 DEF TypeInv, TypeOK, ExitTypeOK
<1>5. ExitTypeOK'
  BY <1>1, <1>2, <1>4 DEF TypeInv, TypeOK, ExitTypeOK, loopVars
<1>6. OpenersSet'
  <2>1. \A j \in StreamId : /\ opener'[j] # "none" <=> opener[j] # "none"
                            /\ sock'[j] # "none" <=> j = i \/ sock[j] # "none"
                            /\ opener'[j] \in {"connect", "flush"}
                                 <=> opener[j] \in {"connect", "flush"}
    BY <1>1, <1>2 DEF TypeInv, TypeOK, ExitTypeOK
  <2> QED
    BY <1>1, <1>2, <2>1 DEF TypeInv, OpenersSet, loopVars
<1>7. StreamsSet'
  <2> SUFFICES ASSUME NEW d \in Circuit, NEW t \in StreamId, streams'[d][t] # 0
               PROVE  sock'[streams'[d][t]] # "none"
    BY DEF StreamsSet
  <2>1. streams[d][t] \in StreamId \cup {0} /\ streams'[d][t] \in {i, streams[d][t]}
    BY <1>1, <1>2 DEF TypeInv, TypeOK, ExitTypeOK
  <2>2. \A j \in StreamId : sock'[j] # "none" <=> j = i \/ sock[j] # "none"
    BY <1>2 DEF TypeInv, TypeOK, ExitTypeOK
  <2> QED
    BY <2>1, <2>2 DEF TypeInv, StreamsSet
<1>8. LoopsSet'
  BY <1>2 DEF TypeInv, LoopsSet, loopVars
<1> QED
  BY <1>3, <1>5, <1>6, <1>7, <1>8, ClientUntouched DEF TypeInv, TypeOK

LEMMA TypeConnectFails ==
  ASSUME TypeInv, NEW i \in StreamId, ConnectFails(i), UNCHANGED clientVars
  PROVE  TypeInv'
<1>1. WireTypeOK'
  BY WireUntouched
     DEF ConnectFails, OpenFails, CloseStream, LoopVars, TypeInv, TypeOK
<1>2. ExitTypeOK'
  BY TunnelWireAssumption, CloseStreamType
     DEF ConnectFails, OpenFails, LoopVars, loopVars, openerVars, socketVars,
         TypeInv, TypeOK, StreamId, Circuit, ExitTypeOK, OpenersSet, StreamsSet,
         LoopsSet
<1>3. OpenersSet'
  BY TunnelWireAssumption, CloseStreamType
     DEF ConnectFails, OpenFails, LoopVars, loopVars, openerVars, socketVars,
         TypeInv, TypeOK, StreamId, Circuit, OpenersSet, ExitTypeOK, StreamsSet,
         LoopsSet
<1>4. StreamsSet'
  BY CloseStreamType
     DEF ConnectFails, OpenFails, LoopVars, TypeInv, TypeOK, OpenersSet,
         LoopsSet
<1>5. LoopsSet'
  BY TunnelWireAssumption, CloseStreamType
     DEF ConnectFails, OpenFails, LoopVars, loopVars, openerVars, socketVars,
         TypeInv, TypeOK, StreamId, Circuit, LoopsSet, ExitTypeOK, OpenersSet,
         StreamsSet
<1> QED
  BY <1>1, <1>2, <1>3, <1>4, <1>5, ClientUntouched DEF TypeInv, TypeOK

LEMMA TypeFlush ==
  ASSUME TypeInv, NEW i \in StreamId, Flush(i), UNCHANGED clientVars
  PROVE  TypeInv'
<1>1. WireTypeOK'
  BY WireUntouched
     DEF Flush, Deliver, Writable, TypeInv, TypeOK
<1>2. ExitTypeOK'
  BY TunnelWireAssumption, SeqAppend, SeqHeadTail, UpOfIsUpData
     DEF Flush, Deliver, Writable, loopVars, openerVars, socketVars, TypeInv,
         TypeOK, StreamId, Circuit, ExitTypeOK, OpenersSet, StreamsSet, LoopsSet
<1>3. OpenersSet'
  BY TunnelWireAssumption, SeqAppend, SeqHeadTail, UpOfIsUpData
     DEF Flush, Deliver, Writable, loopVars, openerVars, socketVars, TypeInv,
         TypeOK, StreamId, Circuit, OpenersSet, ExitTypeOK, StreamsSet, LoopsSet
<1>4. StreamsSet'
  BY StreamsUntouched
     DEF Flush, Writable, socketVars, TypeInv
<1>5. LoopsSet'
  BY TunnelWireAssumption, SeqAppend, SeqHeadTail, UpOfIsUpData
     DEF Flush, Deliver, Writable, loopVars, openerVars, socketVars, TypeInv,
         TypeOK, StreamId, Circuit, LoopsSet, ExitTypeOK, OpenersSet, StreamsSet
<1> QED
  BY <1>1, <1>2, <1>3, <1>4, <1>5, ClientUntouched DEF TypeInv, TypeOK

LEMMA TypeFlushFails ==
  ASSUME TypeInv, NEW i \in StreamId, FlushFails(i), UNCHANGED clientVars
  PROVE  TypeInv'
<1>1. WireTypeOK'
  BY WireUntouched
     DEF FlushFails, OpenFails, CloseStream, LoopVars, TypeInv, TypeOK
<1>2. ExitTypeOK'
  BY TunnelWireAssumption, CloseStreamType
     DEF FlushFails, OpenFails, LoopVars, loopVars, openerVars, socketVars,
         TypeInv, TypeOK, StreamId, Circuit, ExitTypeOK, OpenersSet, StreamsSet,
         LoopsSet
<1>3. OpenersSet'
  BY TunnelWireAssumption, CloseStreamType
     DEF FlushFails, OpenFails, LoopVars, loopVars, openerVars, socketVars,
         TypeInv, TypeOK, StreamId, Circuit, OpenersSet, ExitTypeOK, StreamsSet,
         LoopsSet
<1>4. StreamsSet'
  BY CloseStreamType
     DEF FlushFails, OpenFails, LoopVars, TypeInv, TypeOK, OpenersSet, LoopsSet
<1>5. LoopsSet'
  BY TunnelWireAssumption, CloseStreamType
     DEF FlushFails, OpenFails, LoopVars, loopVars, openerVars, socketVars,
         TypeInv, TypeOK, StreamId, Circuit, LoopsSet, ExitTypeOK, OpenersSet,
         StreamsSet
<1> QED
  BY <1>1, <1>2, <1>3, <1>4, <1>5, ClientUntouched DEF TypeInv, TypeOK

LEMMA TypeSendReady ==
  ASSUME TypeInv, NEW i \in StreamId, SendReady(i), UNCHANGED clientVars
  PROVE  TypeInv'
<1>1. WireTypeOK'
  BY SendMuxType, WireUntouched, DownFrames
     DEF SendReady, SendMuxLost, TypeInv, TypeOK, OpenersSet, ExitTypeOK
<1>2. ExitTypeOK'
  BY TunnelWireAssumption
     DEF SendReady, SendMux, SendMuxLost, loopVars, openerVars, socketVars,
         TypeInv, TypeOK, StreamId, Circuit, ExitTypeOK, OpenersSet, StreamsSet,
         LoopsSet
<1>3. OpenersSet'
  BY TunnelWireAssumption
     DEF SendReady, SendMux, SendMuxLost, loopVars, openerVars, socketVars,
         TypeInv, TypeOK, StreamId, Circuit, OpenersSet, ExitTypeOK, StreamsSet,
         LoopsSet
<1>4. StreamsSet'
  BY StreamsUntouched
     DEF SendReady, socketVars, TypeInv
<1>5. LoopsSet'
  BY TunnelWireAssumption
     DEF SendReady, SendMux, SendMuxLost, loopVars, openerVars, socketVars,
         TypeInv, TypeOK, StreamId, Circuit, LoopsSet, ExitTypeOK, OpenersSet,
         StreamsSet
<1> QED
  BY <1>1, <1>2, <1>3, <1>4, <1>5, ClientUntouched DEF TypeInv, TypeOK

LEMMA TypeReadyFails ==
  ASSUME TypeInv, NEW i \in StreamId, ReadyFails(i), UNCHANGED clientVars
  PROVE  TypeInv'
<1>1. WireTypeOK'
  BY WireUntouched
     DEF ReadyFails, CloseStream, SendMuxFails, TypeInv, TypeOK
<1>2. ExitTypeOK'
  BY TunnelWireAssumption, CloseStreamType
     DEF ReadyFails, SendMuxFails, loopVars, openerVars, socketVars, TypeInv,
         TypeOK, StreamId, Circuit, ExitTypeOK, OpenersSet, StreamsSet, LoopsSet
<1>3. OpenersSet'
  BY TunnelWireAssumption, CloseStreamType
     DEF ReadyFails, SendMuxFails, loopVars, openerVars, socketVars, TypeInv,
         TypeOK, StreamId, Circuit, OpenersSet, ExitTypeOK, StreamsSet, LoopsSet
<1>4. StreamsSet'
  BY CloseStreamType
     DEF ReadyFails, SendMuxFails, TypeInv, TypeOK, OpenersSet, LoopsSet
<1>5. LoopsSet'
  BY TunnelWireAssumption, CloseStreamType
     DEF ReadyFails, SendMuxFails, loopVars, openerVars, socketVars, TypeInv,
         TypeOK, StreamId, Circuit, LoopsSet, ExitTypeOK, OpenersSet, StreamsSet
<1> QED
  BY <1>1, <1>2, <1>3, <1>4, <1>5, ClientUntouched DEF TypeInv, TypeOK

LEMMA TypeRemoteData ==
  ASSUME TypeInv, NEW i \in StreamId, RemoteData(i), UNCHANGED clientVars
  PROVE  TypeInv'
<1> DEFINE d == [from |-> boundHost[i], n |-> answers[i] + 1]
<1>1. /\ openCirc[i] \in Circuit
      /\ boundSid[i] \in StreamId
      /\ boundHost[i] \in Host
  BY DEF RemoteData, TypeInv, OpenersSet
<1>2. answers[i] + 1 \in 1 .. MaxDown
  BY TunnelWireAssumption DEF RemoteData, TypeInv, TypeOK, ExitTypeOK
<1>3. DataFrame(boundSid[i], d) \in DownFrame
  BY <1>1, <1>2, DownFrames DEF DownData
<1>4. SendMux(openCirc[i], DataFrame(boundSid[i], d))
  BY DEF RemoteData
<1>5. WireTypeOK'
  BY <1>1, <1>3, <1>4, SendMuxType DEF TypeInv, TypeOK
<1>6. ExitTypeOK'
  BY <1>2, TunnelWireAssumption
     DEF RemoteData, loopVars, openerVars, TypeInv, TypeOK, ExitTypeOK
<1>7. OpenersSet' /\ StreamsSet' /\ LoopsSet'
  BY DEF RemoteData, loopVars, openerVars, TypeInv, OpenersSet, StreamsSet, LoopsSet
<1> QED
  BY <1>5, <1>6, <1>7, ClientUntouched DEF TypeInv, TypeOK

LEMMA TypeRemoteEnds ==
  ASSUME TypeInv, NEW i \in StreamId, RemoteEnds(i), UNCHANGED clientVars
  PROVE  TypeInv'
<1>1. WireTypeOK'
  BY WireUntouched
     DEF RemoteEnds, ReaderExits, CloseStream, TypeInv, TypeOK
<1>2. ExitTypeOK'
  BY TunnelWireAssumption, CloseStreamType
     DEF RemoteEnds, ReaderExits, loopVars, openerVars, socketVars, TypeInv,
         TypeOK, StreamId, Circuit, ExitTypeOK, OpenersSet, StreamsSet, LoopsSet
<1>3. OpenersSet'
  BY TunnelWireAssumption, CloseStreamType
     DEF RemoteEnds, ReaderExits, loopVars, openerVars, socketVars, TypeInv,
         TypeOK, StreamId, Circuit, OpenersSet, ExitTypeOK, StreamsSet, LoopsSet
<1>4. StreamsSet'
  BY CloseStreamType
     DEF RemoteEnds, ReaderExits, TypeInv, TypeOK, OpenersSet, LoopsSet
<1>5. LoopsSet'
  BY TunnelWireAssumption, CloseStreamType
     DEF RemoteEnds, ReaderExits, loopVars, openerVars, socketVars, TypeInv,
         TypeOK, StreamId, Circuit, LoopsSet, ExitTypeOK, OpenersSet, StreamsSet
<1> QED
  BY <1>1, <1>2, <1>3, <1>4, <1>5, ClientUntouched DEF TypeInv, TypeOK

LEMMA TypeReaderStops ==
  ASSUME TypeInv, NEW i \in StreamId, ReaderStops(i), UNCHANGED clientVars
  PROVE  TypeInv'
<1>1. WireTypeOK'
  BY WireUntouched
     DEF ReaderStops, ReaderExits, CloseStream, Stopped, TypeInv, TypeOK
<1>2. ExitTypeOK'
  BY TunnelWireAssumption, CloseStreamType
     DEF ReaderStops, ReaderExits, Stopped, loopVars, openerVars, socketVars,
         TypeInv, TypeOK, StreamId, Circuit, ExitTypeOK, OpenersSet, StreamsSet,
         LoopsSet
<1>3. OpenersSet'
  BY TunnelWireAssumption, CloseStreamType
     DEF ReaderStops, ReaderExits, Stopped, loopVars, openerVars, socketVars,
         TypeInv, TypeOK, StreamId, Circuit, OpenersSet, ExitTypeOK, StreamsSet,
         LoopsSet
<1>4. StreamsSet'
  BY CloseStreamType
     DEF ReaderStops, ReaderExits, Stopped, TypeInv, TypeOK, OpenersSet,
         LoopsSet
<1>5. LoopsSet'
  BY TunnelWireAssumption, CloseStreamType
     DEF ReaderStops, ReaderExits, Stopped, loopVars, openerVars, socketVars,
         TypeInv, TypeOK, StreamId, Circuit, LoopsSet, ExitTypeOK, OpenersSet,
         StreamsSet
<1> QED
  BY <1>1, <1>2, <1>3, <1>4, <1>5, ClientUntouched DEF TypeInv, TypeOK

-------------------------------------------------------------------------------
(* The client: handlers.  Each action keeps TypeInv.                        *)

LEMMA TypeRegister ==
  ASSUME TypeInv, NEW h \in Host, Register(h), UNCHANGED exitVars
  PROVE  TypeInv'
<1>1. WireTypeOK'
  BY WireUntouched
     DEF Register, CircuitUp, MoveTo, TypeInv, TypeOK
<1>2. ClientTypeOK'
  BY TunnelWireAssumption
     DEF Register, CircuitUp, MoveTo, runnerVars, tableVars, handlerVars,
         TypeInv, TypeOK, StreamId, Circuit, ClientTypeOK, HandlersSet,
         WireTypeOK
<1>3. HandlersSet'
  BY TunnelWireAssumption
     DEF Register, CircuitUp, MoveTo, runnerVars, tableVars, handlerVars,
         TypeInv, TypeOK, StreamId, Circuit, HandlersSet, ClientTypeOK,
         WireTypeOK
<1> QED
  BY <1>1, <1>2, <1>3, ExitUntouched DEF TypeInv, TypeOK

LEMMA TypeSendOpen ==
  ASSUME TypeInv, NEW s \in StreamId, SendOpen(s), UNCHANGED exitVars
  PROVE  TypeInv'
<1>1. WireTypeOK'
  BY SendType, WireUntouched, UpFrames, UpOfIsUpData
     DEF SendOpen, MoveTo, CircuitUp, SendLost, TypeInv, TypeOK, HandlersSet,
         ClientTypeOK
<1>2. ClientTypeOK'
  BY TunnelWireAssumption
     DEF SendOpen, MoveTo, Send, CircuitUp, SendLost, runnerVars, tableVars,
         handlerVars, TypeInv, TypeOK, StreamId, Circuit, ClientTypeOK,
         HandlersSet, WireTypeOK
<1>3. HandlersSet'
  BY TunnelWireAssumption
     DEF SendOpen, MoveTo, Send, CircuitUp, SendLost, runnerVars, tableVars,
         handlerVars, TypeInv, TypeOK, StreamId, Circuit, HandlersSet,
         ClientTypeOK, WireTypeOK
<1> QED
  BY <1>1, <1>2, <1>3, ExitUntouched DEF TypeInv, TypeOK

LEMMA TypeSendOpenRaises ==
  ASSUME TypeInv, NEW s \in StreamId, SendOpenRaises(s), UNCHANGED exitVars
  PROVE  TypeInv'
<1>1. WireTypeOK'
  BY WireUntouched
     DEF SendOpenRaises, MoveTo, SendRaises, CircuitUp, TypeInv, TypeOK
<1>2. ClientTypeOK'
  BY TunnelWireAssumption
     DEF SendOpenRaises, MoveTo, SendRaises, CircuitUp, runnerVars, tableVars,
         handlerVars, TypeInv, TypeOK, StreamId, Circuit, ClientTypeOK,
         HandlersSet, WireTypeOK
<1>3. HandlersSet'
  BY TunnelWireAssumption
     DEF SendOpenRaises, MoveTo, SendRaises, CircuitUp, runnerVars, tableVars,
         handlerVars, TypeInv, TypeOK, StreamId, Circuit, HandlersSet,
         ClientTypeOK, WireTypeOK
<1> QED
  BY <1>1, <1>2, <1>3, ExitUntouched DEF TypeInv, TypeOK

LEMMA TypeBecomeReady ==
  ASSUME TypeInv, NEW s \in StreamId, BecomeReady(s), UNCHANGED exitVars
  PROVE  TypeInv'
<1>1. WireTypeOK'
  BY WireUntouched
     DEF BecomeReady, MoveTo, TypeInv, TypeOK
<1>2. ClientTypeOK'
  BY TunnelWireAssumption
     DEF BecomeReady, MoveTo, runnerVars, tableVars, handlerVars, TypeInv,
         TypeOK, StreamId, Circuit, ClientTypeOK, HandlersSet, WireTypeOK
<1>3. HandlersSet'
  BY TunnelWireAssumption
     DEF BecomeReady, MoveTo, runnerVars, tableVars, handlerVars, TypeInv,
         TypeOK, StreamId, Circuit, HandlersSet, ClientTypeOK, WireTypeOK
<1> QED
  BY <1>1, <1>2, <1>3, ExitUntouched DEF TypeInv, TypeOK

LEMMA TypeBrowserLeft ==
  ASSUME TypeInv, NEW s \in StreamId, BrowserLeft(s), UNCHANGED exitVars
  PROVE  TypeInv'
<1>1. WireTypeOK'
  BY WireUntouched
     DEF BrowserLeft, MoveTo, TypeInv, TypeOK
<1>2. ClientTypeOK'
  BY TunnelWireAssumption
     DEF BrowserLeft, MoveTo, runnerVars, tableVars, handlerVars, TypeInv,
         TypeOK, StreamId, Circuit, ClientTypeOK, HandlersSet, WireTypeOK
<1>3. HandlersSet'
  BY TunnelWireAssumption
     DEF BrowserLeft, MoveTo, runnerVars, tableVars, handlerVars, TypeInv,
         TypeOK, StreamId, Circuit, HandlersSet, ClientTypeOK, WireTypeOK
<1> QED
  BY <1>1, <1>2, <1>3, ExitUntouched DEF TypeInv, TypeOK

LEMMA TypeOpenTimeout ==
  ASSUME TypeInv, NEW s \in StreamId, OpenTimeout(s), UNCHANGED exitVars
  PROVE  TypeInv'
<1>1. WireTypeOK'
  BY WireUntouched
     DEF OpenTimeout, MoveTo, Unregister, TypeInv, TypeOK
<1>2. ClientTypeOK'
  BY TunnelWireAssumption
     DEF OpenTimeout, MoveTo, Unregister, runnerVars, tableVars, handlerVars,
         TypeInv, TypeOK, StreamId, Circuit, ClientTypeOK, HandlersSet,
         WireTypeOK
<1>3. HandlersSet'
  BY TunnelWireAssumption
     DEF OpenTimeout, MoveTo, Unregister, runnerVars, tableVars, handlerVars,
         TypeInv, TypeOK, StreamId, Circuit, HandlersSet, ClientTypeOK,
         WireTypeOK
<1> QED
  BY <1>1, <1>2, <1>3, ExitUntouched DEF TypeInv, TypeOK

LEMMA TypeBrowserSend ==
  ASSUME TypeInv, NEW s \in StreamId, BrowserSend(s), UNCHANGED exitVars
  PROVE  TypeInv'
<1> DEFINE d == [from |-> s, n |-> sent[s] + 1]
<1>1. sent[s] + 1 \in 1 .. MaxUp
  BY TunnelWireAssumption DEF BrowserSend, TypeInv, TypeOK, ClientTypeOK
<1>2. DataFrame(s, d) \in UpFrame
  BY <1>1, UpFrames DEF UpOf, UpData
<1>3. WireTypeOK'
  BY <1>2, SendType, WireUntouched DEF BrowserSend, SendLost, TypeInv, TypeOK
<1>4. ClientTypeOK'
  BY <1>1, TunnelWireAssumption
     DEF BrowserSend, runnerVars, tableVars, TypeInv, TypeOK, ClientTypeOK
<1>5. HandlersSet'
  BY DEF BrowserSend, TypeInv, HandlersSet
<1> QED
  BY <1>3, <1>4, <1>5, ExitUntouched DEF TypeInv, TypeOK

LEMMA TypeBrowserRecv ==
  ASSUME TypeInv, NEW s \in StreamId, BrowserRecv(s), UNCHANGED exitVars
  PROVE  TypeInv'
<1>1. WireTypeOK'
  BY WireUntouched
     DEF BrowserRecv, TypeInv, TypeOK
<1>2. ClientTypeOK'
  BY TunnelWireAssumption, SeqAppend, SeqHeadTail, UpOfIsUpData
     DEF BrowserRecv, runnerVars, tableVars, handlerVars, TypeInv, TypeOK,
         StreamId, Circuit, ClientTypeOK, HandlersSet, WireTypeOK
<1>3. HandlersSet'
  BY TunnelWireAssumption, SeqAppend, SeqHeadTail, UpOfIsUpData
     DEF BrowserRecv, runnerVars, tableVars, handlerVars, TypeInv, TypeOK,
         StreamId, Circuit, HandlersSet, ClientTypeOK, WireTypeOK
<1> QED
  BY <1>1, <1>2, <1>3, ExitUntouched DEF TypeInv, TypeOK

LEMMA TypeEndStream ==
  ASSUME TypeInv, NEW s \in StreamId, EndStream(s), UNCHANGED exitVars
  PROVE  TypeInv'
<1>1. WireTypeOK'
  BY SendType, WireUntouched, UpFrames, UpOfIsUpData
     DEF EndStream, MoveTo, CircuitUp, SendLost, SendRaises, Unregister,
         TypeInv, TypeOK, HandlersSet, ClientTypeOK
<1>2. ClientTypeOK'
  BY SMTT(30), TunnelWireAssumption
     DEF EndStream, MoveTo, Send, CircuitUp, SendLost, SendRaises, Unregister,
         runnerVars, tableVars, handlerVars, TypeInv, TypeOK, StreamId, Circuit,
         ClientTypeOK, HandlersSet, WireTypeOK
<1>3. HandlersSet'
  BY TunnelWireAssumption
     DEF EndStream, MoveTo, Send, CircuitUp, SendLost, SendRaises, Unregister,
         runnerVars, tableVars, handlerVars, TypeInv, TypeOK, StreamId, Circuit,
         HandlersSet, ClientTypeOK, WireTypeOK
<1> QED
  BY <1>1, <1>2, <1>3, ExitUntouched DEF TypeInv, TypeOK

-------------------------------------------------------------------------------
(* The client: the runner and the circuit.  Each action keeps TypeInv.      *)

LEMMA TypeOpenTunnel ==
  ASSUME TypeInv, NEW c \in Circuit, OpenTunnel(c), UNCHANGED exitVars
  PROVE  TypeInv'
<1>1. WireTypeOK'
  BY WireUntouched, SeqHeadTail, SeqPrefix
     DEF OpenTunnel, TypeInv, TypeOK, WireTypeOK, ClientTypeOK
<1>2. ClientTypeOK'
  BY TunnelWireAssumption
     DEF OpenTunnel, runnerVars, tableVars, handlerVars, TypeInv, TypeOK,
         StreamId, Circuit, ClientTypeOK, HandlersSet, WireTypeOK
<1>3. HandlersSet'
  BY TunnelWireAssumption
     DEF OpenTunnel, runnerVars, tableVars, handlerVars, TypeInv, TypeOK,
         StreamId, Circuit, HandlersSet, ClientTypeOK, WireTypeOK
<1> QED
  BY <1>1, <1>2, <1>3, ExitUntouched DEF TypeInv, TypeOK

LEMMA TypeDispatch ==
  ASSUME TypeInv, NEW c \in Circuit, Dispatch(c), UNCHANGED exitVars
  PROVE  TypeInv'
<1>1. WireTypeOK'
  BY WireUntouched, SeqHeadTail, SeqPrefix
     DEF Dispatch, TypeInv, TypeOK, WireTypeOK, ClientTypeOK
<1>2. ClientTypeOK'
  BY TunnelWireAssumption, SeqAppend, SeqHeadTail, UpOfIsUpData, DownFrames
     DEF Dispatch, runnerVars, tableVars, handlerVars, TypeInv, TypeOK,
         StreamId, Circuit, ClientTypeOK, HandlersSet, WireTypeOK
<1>3. HandlersSet'
  BY TunnelWireAssumption, SeqAppend, SeqHeadTail, UpOfIsUpData, DownFrames
     DEF Dispatch, runnerVars, tableVars, handlerVars, TypeInv, TypeOK,
         StreamId, Circuit, HandlersSet, ClientTypeOK, WireTypeOK
<1> QED
  BY <1>1, <1>2, <1>3, ExitUntouched DEF TypeInv, TypeOK

LEMMA TypeCircuitLost ==
  ASSUME TypeInv, NEW c \in Circuit, CircuitLost(c), UNCHANGED exitVars
  PROVE  TypeInv'
<1>1. WireTypeOK'
  BY WireUntouched, SeqHeadTail, SeqPrefix
     DEF CircuitLost, TypeInv, TypeOK, WireTypeOK, ClientTypeOK
<1>2. ClientTypeOK'
  BY TunnelWireAssumption
     DEF CircuitLost, runnerVars, tableVars, handlerVars, TypeInv, TypeOK,
         StreamId, Circuit, ClientTypeOK, HandlersSet, WireTypeOK
<1>3. HandlersSet'
  BY TunnelWireAssumption
     DEF CircuitLost, runnerVars, tableVars, handlerVars, TypeInv, TypeOK,
         StreamId, Circuit, HandlersSet, ClientTypeOK, WireTypeOK
<1> QED
  BY <1>1, <1>2, <1>3, ExitUntouched DEF TypeInv, TypeOK

LEMMA TypeOpenTunnelRaises ==
  ASSUME TypeInv, OpenTunnelRaises, UNCHANGED exitVars
  PROVE  TypeInv'
<1>1. WireTypeOK'
  BY WireUntouched
     DEF OpenTunnelRaises, TypeInv, TypeOK
<1>2. ClientTypeOK'
  BY TunnelWireAssumption
     DEF OpenTunnelRaises, runnerVars, tableVars, handlerVars, TypeInv, TypeOK,
         StreamId, Circuit, ClientTypeOK, HandlersSet, WireTypeOK
<1>3. HandlersSet'
  BY TunnelWireAssumption
     DEF OpenTunnelRaises, runnerVars, tableVars, handlerVars, TypeInv, TypeOK,
         StreamId, Circuit, HandlersSet, ClientTypeOK, WireTypeOK
<1> QED
  BY <1>1, <1>2, <1>3, ExitUntouched DEF TypeInv, TypeOK

LEMMA TypeRunnerReopens ==
  ASSUME TypeInv, RunnerReopens, UNCHANGED exitVars
  PROVE  TypeInv'
<1>1. WireTypeOK'
  BY WireUntouched, SeqHeadTail, SeqPrefix
     DEF RunnerReopens, TypeInv, TypeOK, WireTypeOK, ClientTypeOK
<1>2. ClientTypeOK'
  BY TunnelWireAssumption
     DEF RunnerReopens, runnerVars, tableVars, handlerVars, TypeInv, TypeOK,
         StreamId, Circuit, ClientTypeOK, HandlersSet, WireTypeOK
<1>3. HandlersSet'
  BY TunnelWireAssumption
     DEF RunnerReopens, runnerVars, tableVars, handlerVars, TypeInv, TypeOK,
         StreamId, Circuit, HandlersSet, ClientTypeOK, WireTypeOK
<1> QED
  BY <1>1, <1>2, <1>3, ExitUntouched DEF TypeInv, TypeOK

LEMMA TypeCut ==
  ASSUME TypeInv, NEW c \in Circuit, Cut(c), UNCHANGED <<clientVars, exitVars>>
  PROVE  TypeInv'
<1>1. WireTypeOK'
  BY DEF Cut, TypeInv, TypeOK, WireTypeOK
<1> QED
  BY <1>1, ClientUntouched, ExitUntouched DEF TypeInv, TypeOK

-------------------------------------------------------------------------------
(* The initial state satisfies TypeInv.                                     *)
LEMMA TypeInit == Init => TypeInv
BY TunnelWireAssumption
   DEF Init, WireInit, ClientInit, ExitInit, TypeInv, TypeOK, WireTypeOK,
       ClientTypeOK, ExitTypeOK, OpenersSet, StreamsSet, LoopsSet, HandlersSet,
       NoVars, NoHand, StreamId, Circuit

(* Every step keeps it.                                                     *)
LEMMA TypeStep ==
  ASSUME TypeInv, [Next]_vars
  PROVE  TypeInv'
<1>1. CASE ClientNext /\ UNCHANGED exitVars
  BY <1>1, TypeRegister, TypeSendOpen, TypeSendOpenRaises, TypeBecomeReady,
     TypeBrowserLeft, TypeOpenTimeout, TypeBrowserSend, TypeBrowserRecv,
     TypeEndStream, TypeOpenTunnel, TypeDispatch, TypeOpenTunnelRaises,
     TypeRunnerReopens, TypeCircuitLost
     DEF ClientNext, HandlerStep, RunnerStep
<1>2. CASE (\E c \in Circuit : Accept(c) \/ LoopStep(c)) /\ UNCHANGED clientVars
  BY <1>2, TypeAccept, TypeRecvOpen, TypeRecvData, TypeRecvClose, TypeWriteRemote,
     TypeWriteFails, TypePark, TypeTunnelEOF, TypeCleanupNext, TypeCleanupClose,
     TypeReturn, TypeTunnelReset
     DEF LoopStep
<1>3. CASE (\E i \in StreamId : OpenerStep(i) \/ ReaderStep(i)) /\ UNCHANGED clientVars
  BY <1>3, TypeBind, TypeBindDies, TypeConnectOk, TypeConnectFails, TypeFlush,
     TypeFlushFails, TypeSendReady, TypeReadyFails, TypeRemoteData, TypeRemoteEnds,
     TypeReaderStops
     DEF OpenerStep, ReaderStep
<1>4. CASE CutStep
  BY <1>4, TypeCut DEF CutStep
<1>5. CASE UNCHANGED vars
  BY <1>5, WireUntouched, ClientUntouched, ExitUntouched DEF vars, TypeInv, TypeOK
<1> QED
  BY <1>1, <1>2, <1>3, <1>4, <1>5 DEF Next, ExitNext

LEMMA TypeInvariant == Spec => []TypeInv
<1>1. Init => TypeInv
  BY TypeInit
<1>2. TypeInv /\ [Next]_vars => TypeInv'
  BY TypeStep
<1> QED
  BY <1>1, <1>2, PTL DEF Spec

(* Every variable of the tunnel always has its type, for any number of      *)
(* streams, circuits and payloads.                                          *)
THEOREM TypeCorrect == Spec => []TypeOK
<1>1. TypeInv => TypeOK
  BY DEF TypeInv
<1> QED
  BY <1>1, TypeInvariant, PTL

--------------------------------------------------------------------------------
(***************************************************************************)
(* What is written to a connection are payloads of the stream its opener   *)
(* read, and before the cleanup that stream asked for the destination it   *)
(* read: RightDestination of OnionTunnel.                                  *)
(***************************************************************************)

IsOpen(f) == f.cmd = "OPEN"

(* An id is in at most one OPEN frame, which is sent once and has started   *)
(* no opener before it is received.                                         *)
OpenOnce ==
  /\ \A c \in Circuit : \A k \in 1 .. Len(toExit[c]) :
       IsOpen(toExit[c][k]) =>
         /\ handler[toExit[c][k].sid] \notin {"none", "sendopen"}
         /\ opener[toExit[c][k].sid] = "none"
  /\ \A c, d \in Circuit : \A k \in 1 .. Len(toExit[c]), l \in 1 .. Len(toExit[d]) :
       /\ IsOpen(toExit[c][k])
       /\ IsOpen(toExit[d][l])
       /\ toExit[c][k].sid = toExit[d][l].sid
       => c = d /\ k = l
  /\ \A s \in StreamId : opener[s] # "none" => handler[s] \notin {"none", "sendopen"}
  /\ \A s \in StreamId : s >= nextId => handler[s] = "none" /\ dest[s] = NoHost

(* A host travels with the id it was requested for: in the OPEN frame, and  *)
(* until the cleanup also in the loop's variables and in what an opener has *)
(* read.                                                                    *)
OpensRight ==
  \A c \in Circuit : \A k \in 1 .. Len(toExit[c]) :
    IsOpen(toExit[c][k]) => toExit[c][k].host = dest[toExit[c][k].sid]

LoopRight ==
  \A c \in Circuit : cur[c].host # NoHost =>
    cur[c].sid \in StreamId /\ (cur[c].host = dest[cur[c].sid] \/ Stopped(c))

OpenersRight ==
  \A i \in StreamId :
    /\ opener[i] \in {"none", "start"} =>
         boundSid[i] = 0 /\ delivered[i] = <<>> /\ queued[i] = <<>>
    /\ boundSid[i] # 0 => /\ boundHost[i] \in Host
                          /\ boundHost[i] = dest[boundSid[i]] \/ Stopped(openCirc[i])

(* A payload stays with the id it was sent under: parked, in the hands of   *)
(* the loop or of an opener, and written.                                   *)
PayloadsRight ==
  /\ \A i \in StreamId : /\ delivered[i] \in Seq(UpOf(boundSid[i]))
                         /\ queued[i] \in Seq(UpOf(boundSid[i]))
  /\ \A c \in Circuit, s \in StreamId : pending[c][s] \in Seq(UpOf(s))
  /\ \A c \in Circuit : loop[c] = "write" => boundSid[hand[c].conn] = cur[c].sid

StreamsRight ==
  \A c \in Circuit, s \in StreamId :
    streams[c][s] # 0 => boundSid[streams[c][s]] = s

BindInv ==
  OpenOnce /\ OpensRight /\ LoopRight /\ OpenersRight /\ PayloadsRight /\ StreamsRight
-------------------------------------------------------------------------------
(* OpenOnce and OpensRight: OPEN frames.                                    *)

(* Every OPEN frame on the way was on the way before, at the same place or  *)
(* one further back.                                                        *)
NoNewOpen ==
  \E off \in [Circuit -> {0, 1}] :
    \A c \in Circuit : \A k \in 1 .. Len(toExit'[c]) :
      IsOpen(toExit'[c][k]) =>
        /\ k + off[c] \in 1 .. Len(toExit[c])
        /\ toExit'[c][k] = toExit[c][k + off[c]]

LEMMA ShiftUnchanged == UNCHANGED toExit => NoNewOpen
<1> SUFFICES ASSUME toExit' = toExit PROVE NoNewOpen
  OBVIOUS
<1> DEFINE off == [c \in Circuit |-> 0]
<1>1. \A c \in Circuit : \A k \in 1 .. Len(toExit'[c]) : k + off[c] = k
  OBVIOUS
<1> QED
  BY <1>1 DEF NoNewOpen

LEMMA ShiftSend ==
  ASSUME TypeInv, NEW f, ~IsOpen(f), Send(f)
  PROVE  NoNewOpen
<1> DEFINE off == [c \in Circuit |-> 0]
<1>1. toExit' = [toExit EXCEPT ![circuit] = Append(@, f)]
  BY DEF Send
<1>2. ASSUME NEW c \in Circuit, NEW k \in 1 .. Len(toExit'[c]), IsOpen(toExit'[c][k])
      PROVE  k + off[c] \in 1 .. Len(toExit[c]) /\ toExit'[c][k] = toExit[c][k + off[c]]
  <2>1. toExit[c] \in Seq(UpFrame)
    BY DEF TypeInv, TypeOK, WireTypeOK
  <2>2. CASE c = circuit
    <3>1. toExit'[c] = Append(toExit[c], f)
      BY <1>1, <2>2 DEF TypeInv, TypeOK, WireTypeOK
    <3> QED
      BY <1>2, <2>1, <3>1
  <2>3. CASE c # circuit
    BY <1>1, <2>1, <2>3 DEF TypeInv, TypeOK, WireTypeOK
  <2> QED
    BY <2>2, <2>3
<1> QED
  BY <1>2 DEF NoNewOpen

LEMMA TailIndex ==
  ASSUME NEW S, NEW q \in Seq(S), q # <<>>, NEW k \in 1 .. Len(Tail(q))
  PROVE  k + 1 \in 1 .. Len(q) /\ Tail(q)[k] = q[k + 1]
OBVIOUS

LEMMA ShiftRecv ==
  ASSUME TypeInv, NEW d \in Circuit, NEW cmd, Recv(d, cmd)
  PROVE  /\ NoNewOpen
         /\ \A c \in Circuit : \A k \in 1 .. Len(toExit'[c]) :
              LET j == IF c = d THEN k + 1 ELSE k IN
                j \in 1 .. Len(toExit[c]) /\ toExit'[c][k] = toExit[c][j]
<1> DEFINE off == [c \in Circuit |-> IF c = d THEN 1 ELSE 0]
<1>1. toExit' = [toExit EXCEPT ![d] = Tail(@)] /\ toExit[d] # <<>>
  BY DEF Recv
<1>2. ASSUME NEW c \in Circuit, NEW k \in 1 .. Len(toExit'[c])
      PROVE  k + off[c] \in 1 .. Len(toExit[c]) /\ toExit'[c][k] = toExit[c][k + off[c]]
  <2>1. toExit[c] \in Seq(UpFrame)
    BY DEF TypeInv, TypeOK, WireTypeOK
  <2>2. CASE c = d
    <3>1. toExit'[c] = Tail(toExit[c])
      BY <1>1, <2>2 DEF TypeInv, TypeOK, WireTypeOK
    <3>2. k + 1 \in 1 .. Len(toExit[d]) /\ Tail(toExit[d])[k] = toExit[d][k + 1]
      BY <1>1, <2>1, <2>2, <3>1, TailIndex
    <3> QED
      BY <2>2, <3>1, <3>2
  <2>3. CASE c # d
    BY <1>1, <2>1, <2>3 DEF TypeInv, TypeOK, WireTypeOK
  <2> QED
    BY <2>2, <2>3
<1>3. off \in [Circuit -> {0, 1}]
  OBVIOUS
<1>4. NoNewOpen
  BY <1>2, <1>3 DEF NoNewOpen
<1> QED
  BY <1>2, <1>4

LEMMA ShiftLoseRest ==
  ASSUME TypeInv, NEW d \in Circuit, LoseRest(d)
  PROVE  NoNewOpen
<1> DEFINE off == [c \in Circuit |-> 0]
<1>1. ASSUME NEW c \in Circuit, NEW k \in 1 .. Len(toExit'[c])
      PROVE  k + off[c] \in 1 .. Len(toExit[c]) /\ toExit'[c][k] = toExit[c][k + off[c]]
  BY DEF LoseRest, TypeInv, TypeOK, WireTypeOK
<1> QED
  BY <1>1 DEF NoNewOpen

(* Handlers that have sent OPEN never return to before it, and requested    *)
(* destinations do not change.                                              *)
Onward ==
  /\ \A s \in StreamId : handler[s] \notin {"none", "sendopen"} =>
                           handler'[s] \notin {"none", "sendopen"}
  /\ \A s \in StreamId : dest[s] \in Host => dest'[s] = dest[s]

(* Steps that send no OPEN, start no opener and allocate no id.             *)
Quiet ==
  /\ NoNewOpen
  /\ Onward
  /\ UNCHANGED <<nextId, dest>>
  /\ \A s \in StreamId : opener'[s] = "none" <=> opener[s] = "none"
  /\ \A s \in StreamId : handler[s] = "none" => handler'[s] = "none"

LEMMA QuietStep ==
  ASSUME TypeInv, TypeInv', OpenOnce, OpensRight, Quiet
  PROVE  OpenOnce' /\ OpensRight'
<1>1. PICK off \in [Circuit -> {0, 1}] :
        \A c \in Circuit : \A k \in 1 .. Len(toExit'[c]) :
          IsOpen(toExit'[c][k]) =>
            /\ k + off[c] \in 1 .. Len(toExit[c])
            /\ toExit'[c][k] = toExit[c][k + off[c]]
  BY DEF Quiet, NoNewOpen
<1>2. \A c \in Circuit : toExit[c] \in Seq(UpFrame) /\ toExit'[c] \in Seq(UpFrame)
  BY DEF TypeInv, TypeOK, WireTypeOK
<1>3. \A c \in Circuit : \A k \in 1 .. Len(toExit[c]) : toExit[c][k].sid \in StreamId
  BY <1>2, UpFrames
<1>4. ASSUME NEW c \in Circuit, NEW k \in 1 .. Len(toExit'[c]), IsOpen(toExit'[c][k])
      PROVE  /\ handler'[toExit'[c][k].sid] \notin {"none", "sendopen"}
             /\ opener'[toExit'[c][k].sid] = "none"
             /\ toExit'[c][k].host = dest'[toExit'[c][k].sid]
  <2> DEFINE k0 == k + off[c]
  <2>1. k0 \in 1 .. Len(toExit[c]) /\ toExit'[c][k] = toExit[c][k0]
    BY <1>1, <1>4
  <2> HIDE DEF k0
  <2> DEFINE s == toExit[c][k0].sid
  <2>2. IsOpen(toExit[c][k0]) /\ s \in StreamId
    BY <1>3, <1>4, <2>1
  <2>3. /\ handler[s] \notin {"none", "sendopen"}
        /\ opener[s] = "none"
        /\ toExit[c][k0].host = dest[s]
    BY <2>1, <2>2 DEF OpenOnce, OpensRight
  <2> HIDE DEF s
  <2>4. /\ handler'[s] \notin {"none", "sendopen"}
        /\ opener'[s] = "none"
        /\ dest'[s] = dest[s]
    BY <2>2, <2>3 DEF Quiet, Onward
  <2> QED
    BY <2>1, <2>3, <2>4 DEF s
<1>5. ASSUME NEW c \in Circuit, NEW d \in Circuit,
             NEW k \in 1 .. Len(toExit'[c]), NEW l \in 1 .. Len(toExit'[d]),
             IsOpen(toExit'[c][k]), IsOpen(toExit'[d][l]),
             toExit'[c][k].sid = toExit'[d][l].sid
      PROVE  c = d /\ k = l
  <2> DEFINE k0 == k + off[c]
             l0 == l + off[d]
  <2>1. /\ k0 \in 1 .. Len(toExit[c]) /\ toExit'[c][k] = toExit[c][k0]
        /\ l0 \in 1 .. Len(toExit[d]) /\ toExit'[d][l] = toExit[d][l0]
    BY <1>1, <1>5
  <2> HIDE DEF k0, l0
  <2>2. c = d /\ k0 = l0
    BY <1>5, <2>1 DEF OpenOnce
  <2>3. k + off[c] = l + off[d]
    BY <2>2 DEF k0, l0
  <2> QED
    BY <2>2, <2>3
<1>6. \A s \in StreamId : opener'[s] # "none" => handler'[s] \notin {"none", "sendopen"}
  BY DEF Quiet, OpenOnce, Onward
<1>7. \A s \in StreamId : s >= nextId' => handler'[s] = "none" /\ dest'[s] = NoHost
  BY DEF Quiet, OpenOnce
<1> QED
  BY <1>4, <1>5, <1>6, <1>7 DEF OpenOnce, OpensRight

LEMMA QuietHandler ==
  ASSUME TypeInv, NEW s \in StreamId, HandlerStep(s), ~SendOpen(s), UNCHANGED exitVars
  PROVE  Quiet
<1> USE DEF Quiet, Onward, MoveTo, tableVars, exitVars, openerVars
<1>1. UNCHANGED opener
  OBVIOUS
<1>2. CASE SendOpenRaises(s)
  BY <1>1, <1>2, ShiftUnchanged
     DEF SendOpenRaises, SendRaises, wireVars, TypeInv, TypeOK, ClientTypeOK
<1>3. CASE BecomeReady(s)
  BY <1>1, <1>3, ShiftUnchanged
     DEF BecomeReady, wireVars, TypeInv, TypeOK, ClientTypeOK
<1>4. CASE BrowserLeft(s)
  BY <1>1, <1>4, ShiftUnchanged
     DEF BrowserLeft, wireVars, TypeInv, TypeOK, ClientTypeOK
<1>5. CASE OpenTimeout(s)
  BY <1>1, <1>5, ShiftUnchanged
     DEF OpenTimeout, wireVars, TypeInv, TypeOK, ClientTypeOK
<1>6. CASE BrowserSend(s)
  <2>1. NoNewOpen
    BY <1>6, ShiftSend, ShiftUnchanged
       DEF BrowserSend, SendLost, wireVars, DataFrame, IsOpen
  <2> QED
    BY <1>1, <1>6, <2>1 DEF BrowserSend
<1>7. CASE BrowserRecv(s)
  BY <1>1, <1>7, ShiftUnchanged DEF BrowserRecv, wireVars
<1>8. CASE EndStream(s)
  <2>1. NoNewOpen
    BY <1>8, ShiftSend, ShiftUnchanged
       DEF EndStream, SendLost, SendRaises, wireVars, CloseFrame, IsOpen
  <2> QED
    BY <1>1, <1>8, <2>1 DEF EndStream, TypeInv, TypeOK, ClientTypeOK
<1> QED
  BY <1>2, <1>3, <1>4, <1>5, <1>6, <1>7, <1>8 DEF HandlerStep

LEMMA QuietRunner ==
  ASSUME RunnerStep \/ \E c \in Circuit : CircuitLost(c), UNCHANGED exitVars
  PROVE  Quiet
<1>1. UNCHANGED <<toExit, nextId, handler, dest, opener>>
  BY DEF RunnerStep, OpenTunnel, Dispatch, OpenTunnelRaises, RunnerReopens, CircuitLost,
         wireVars, tableVars, handlerVars, exitVars, openerVars
<1> QED
  BY <1>1, ShiftUnchanged DEF Quiet, Onward

LEMMA QuietCut ==
  ASSUME CutStep
  PROVE  Quiet
<1>1. UNCHANGED <<toExit, nextId, handler, dest, opener>>
  BY DEF CutStep, Cut, clientVars, tableVars, handlerVars, exitVars, openerVars
<1> QED
  BY <1>1, ShiftUnchanged DEF Quiet, Onward

LEMMA QuietLoop ==
  ASSUME TypeInv, NEW c \in Circuit, Accept(c) \/ LoopStep(c), ~RecvOpen(c),
         UNCHANGED clientVars
  PROVE  Quiet
<1>1. UNCHANGED <<nextId, handler, dest>>
  BY DEF clientVars, tableVars, handlerVars
<1>2. NoNewOpen
  BY ShiftUnchanged, ShiftRecv, ShiftLoseRest
     DEF Accept, LoopStep, RecvData, RecvClose, WriteRemote, WriteFails, Park,
         TunnelEOF, CleanupNext, CleanupClose, Return, TunnelReset, wireVars
<1>3. \A s \in StreamId : opener'[s] = "none" <=> opener[s] = "none"
  BY DEF Accept, LoopStep, RecvData, RecvClose, WriteRemote, WriteFails, Park,
         TunnelEOF, CleanupNext, CleanupClose, Return, TunnelReset, ProcessDies,
         openerVars
<1> QED
  BY <1>1, <1>2, <1>3 DEF Quiet, Onward

LEMMA QuietThreads ==
  ASSUME TypeInv, NEW i \in StreamId, OpenerStep(i) \/ ReaderStep(i),
         UNCHANGED clientVars
  PROVE  Quiet
<1>1. UNCHANGED <<nextId, handler, dest>>
  BY DEF clientVars, tableVars, handlerVars
<1>2. UNCHANGED toExit
  BY DEF OpenerStep, Bind, BindDies, ConnectOk, ConnectFails, OpenFails, Flush,
         FlushFails, SendReady, ReadyFails, ReaderStep, RemoteData, RemoteEnds,
         ReaderStops, ReaderExits, SendMux, SendMuxLost, SendMuxFails, wireVars
<1>3. \A s \in StreamId : opener'[s] = "none" <=> opener[s] = "none"
  BY DEF OpenerStep, Bind, BindDies, ConnectOk, ConnectFails, OpenFails, Flush,
         FlushFails, SendReady, ReadyFails, ReaderStep, RemoteData, RemoteEnds,
         ReaderStops, ReaderExits, openerVars, TypeInv, TypeOK, ExitTypeOK
<1> QED
  BY <1>1, <1>2, <1>3, ShiftUnchanged DEF Quiet, Onward

(* The three steps that are not quiet.                                      *)
LEMMA OpenRegister ==
  ASSUME TypeInv, OpenOnce, OpensRight, NEW h \in Host, Register(h), UNCHANGED exitVars
  PROVE  OpenOnce' /\ OpensRight'
<1>1. /\ nextId \in StreamId /\ nextId' = nextId + 1
      /\ handler' = [handler EXCEPT ![nextId] = "sendopen"]
      /\ dest' = [dest EXCEPT ![nextId] = h]
      /\ UNCHANGED <<toExit, opener>>
  BY DEF Register, MoveTo, wireVars, exitVars, openerVars
<1>2. handler[nextId] = "none"
  BY <1>1 DEF OpenOnce, StreamId
<1>3. \A s \in StreamId : s # nextId => handler'[s] = handler[s] /\ dest'[s] = dest[s]
  BY <1>1 DEF TypeInv, TypeOK, ClientTypeOK
<1>4. \A c \in Circuit : \A k \in 1 .. Len(toExit[c]) :
        toExit[c][k].sid \in StreamId
  BY UpFrames DEF TypeInv, TypeOK, WireTypeOK
<1>5. \A c \in Circuit : \A k \in 1 .. Len(toExit[c]) :
        IsOpen(toExit[c][k]) => toExit[c][k].sid # nextId
  BY <1>2 DEF OpenOnce
<1>6. \A s \in StreamId : s >= nextId' => s # nextId /\ s >= nextId
  BY <1>1 DEF StreamId
<1>7. opener[nextId] = "none"
  BY <1>1, <1>2 DEF OpenOnce
<1>8. OpensRight'
  BY <1>1, <1>3, <1>4, <1>5 DEF OpensRight
<1>9. OpenOnce'
  BY <1>1, <1>3, <1>4, <1>5, <1>6, <1>7 DEF OpenOnce
<1> QED
  BY <1>8, <1>9

LEMMA OpenSendOpen ==
  ASSUME TypeInv, OpenOnce, OpensRight, NEW s \in StreamId, SendOpen(s),
         UNCHANGED exitVars
  PROVE  OpenOnce' /\ OpensRight'
<1> DEFINE f == OpenFrame(s, dest[s])
<1>1. /\ handler[s] = "sendopen"
      /\ handler' = [handler EXCEPT ![s] = "wait"]
      /\ UNCHANGED <<nextId, dest, opener>>
  BY DEF SendOpen, MoveTo, tableVars, exitVars, openerVars
<1>2. \A c \in Circuit : toExit[c] \in Seq(UpFrame)
  BY DEF TypeInv, TypeOK, WireTypeOK
<1>3. \A c \in Circuit : \A k \in 1 .. Len(toExit[c]) :
        /\ toExit[c][k].sid \in StreamId
        /\ IsOpen(toExit[c][k]) => toExit[c][k].sid # s
  BY <1>1, <1>2, UpFrames DEF OpenOnce
<1>4. opener[s] = "none"
  BY <1>1 DEF OpenOnce
<1>5. \A t \in StreamId : handler'[t] = IF t = s THEN "wait" ELSE handler[t]
  BY <1>1 DEF TypeInv, TypeOK, ClientTypeOK
<1>6. \A c \in Circuit : \A k \in 1 .. Len(toExit'[c]) :
        \/ /\ k \in 1 .. Len(toExit[c])
           /\ toExit'[c][k] = toExit[c][k]
        \/ /\ c = circuit /\ k = Len(toExit[c]) + 1
           /\ toExit'[c][k] = f
  <2>1. CASE SendLost
    BY <2>1 DEF SendLost, wireVars
  <2>2. CASE Send(f)
    <3>1. circuit \in Circuit /\ toExit' = [toExit EXCEPT ![circuit] = Append(@, f)]
      BY <2>2 DEF Send, CircuitUp, TypeInv, TypeOK, ClientTypeOK
    <3> HIDE DEF f
    <3>2. toExit'[circuit] = Append(toExit[circuit], f)
      BY <3>1 DEF TypeInv, TypeOK, WireTypeOK
    <3>3. \A c \in Circuit : c # circuit => toExit'[c] = toExit[c]
      BY <3>1 DEF TypeInv, TypeOK, WireTypeOK
    <3>4. \A k \in 1 .. Len(toExit'[circuit]) :
            \/ k \in 1 .. Len(toExit[circuit]) /\ toExit'[circuit][k] = toExit[circuit][k]
            \/ k = Len(toExit[circuit]) + 1 /\ toExit'[circuit][k] = f
      BY <1>2, <3>1, <3>2
    <3> QED
      BY <3>3, <3>4
  <2> QED
    BY <2>1, <2>2 DEF SendOpen
<1>7. f.sid = s /\ f.host = dest[s]
  BY DEF OpenFrame
<1> HIDE DEF f
<1>8. OpensRight'
  BY <1>1, <1>6, <1>7 DEF OpensRight
<1>9. \A c \in Circuit : \A k \in 1 .. Len(toExit'[c]) :
        IsOpen(toExit'[c][k]) => /\ handler'[toExit'[c][k].sid] \notin {"none", "sendopen"}
                                 /\ opener'[toExit'[c][k].sid] = "none"
  BY <1>1, <1>3, <1>4, <1>5, <1>6, <1>7 DEF OpenOnce
<1>10. ASSUME NEW c \in Circuit, NEW d \in Circuit,
              NEW k \in 1 .. Len(toExit'[c]), NEW l \in 1 .. Len(toExit'[d]),
              IsOpen(toExit'[c][k]), IsOpen(toExit'[d][l]),
              toExit'[c][k].sid = toExit'[d][l].sid
       PROVE  c = d /\ k = l
  <2>1. CASE toExit'[c][k].sid = s
    <3>1. c = circuit /\ k = Len(toExit[c]) + 1
      BY <1>3, <1>6, <1>10, <2>1
    <3>2. d = circuit /\ l = Len(toExit[d]) + 1
      BY <1>3, <1>6, <1>10, <2>1
    <3> QED
      BY <3>1, <3>2
  <2>2. CASE toExit'[c][k].sid # s
    <3>1. k \in 1 .. Len(toExit[c]) /\ toExit'[c][k] = toExit[c][k]
      BY <1>6, <1>7, <2>2
    <3>2. l \in 1 .. Len(toExit[d]) /\ toExit'[d][l] = toExit[d][l]
      BY <1>6, <1>7, <1>10, <2>2
    <3> QED
      BY <1>10, <3>1, <3>2 DEF OpenOnce
  <2> QED
    BY <2>1, <2>2
<1>11. /\ \A t \in StreamId : opener'[t] # "none" => handler'[t] \notin {"none", "sendopen"}
       /\ \A t \in StreamId : t >= nextId' => handler'[t] = "none" /\ dest'[t] = NoHost
  BY <1>1, <1>5 DEF OpenOnce
<1> QED
  BY <1>8, <1>9, <1>10, <1>11 DEF OpenOnce

LEMMA OpenRecvOpen ==
  ASSUME TypeInv, OpenOnce, OpensRight, NEW c \in Circuit, RecvOpen(c),
         UNCHANGED clientVars
  PROVE  OpenOnce' /\ OpensRight'
<1> DEFINE i == Head(toExit[c]).sid
<1>1. UNCHANGED <<nextId, handler, dest>>
  BY DEF clientVars, tableVars, handlerVars
<1>2. opener' = [opener EXCEPT ![i] = "start"]
  BY DEF RecvOpen
<1>3. \A d \in Circuit : \A k \in 1 .. Len(toExit'[d]) :
        LET j == IF d = c THEN k + 1 ELSE k IN
          j \in 1 .. Len(toExit[d]) /\ toExit'[d][k] = toExit[d][j]
  BY ShiftRecv DEF RecvOpen
<1>4. toExit[c] \in Seq(UpFrame) /\ 1 \in 1 .. Len(toExit[c])
      /\ Head(toExit[c]) = toExit[c][1] /\ IsOpen(toExit[c][1])
  BY DEF RecvOpen, Recv, IsOpen, TypeInv, TypeOK, WireTypeOK
<1>5. i \in StreamId /\ handler[i] \notin {"none", "sendopen"}
  BY <1>4, UpFrames DEF OpenOnce
<1>6. \A d \in Circuit : \A k \in 1 .. Len(toExit[d]) : toExit[d][k].sid \in StreamId
  BY UpFrames DEF TypeInv, TypeOK, WireTypeOK
<1>7. \A d \in Circuit : \A k \in 1 .. Len(toExit'[d]) :
        IsOpen(toExit'[d][k]) => toExit'[d][k].sid # i
  <2> SUFFICES ASSUME NEW d \in Circuit, NEW k \in 1 .. Len(toExit'[d]),
                      IsOpen(toExit'[d][k]), toExit'[d][k].sid = toExit[c][1].sid
               PROVE  FALSE
    BY <1>4
  <2> DEFINE j == IF d = c THEN k + 1 ELSE k
  <2>1. j \in 1 .. Len(toExit[d]) /\ toExit'[d][k] = toExit[d][j]
    BY <1>3
  <2>2. d = c /\ j = 1
    BY <1>4, <2>1 DEF OpenOnce
  <2> QED
    BY <2>2
<1>8. \A s \in StreamId : opener'[s] = IF s = i THEN "start" ELSE opener[s]
  BY <1>2 DEF TypeInv, TypeOK, ExitTypeOK
<1> HIDE DEF i
<1>9. ASSUME NEW d \in Circuit, NEW k \in 1 .. Len(toExit'[d]), IsOpen(toExit'[d][k])
      PROVE  /\ handler'[toExit'[d][k].sid] \notin {"none", "sendopen"}
             /\ opener'[toExit'[d][k].sid] = "none"
             /\ toExit'[d][k].host = dest'[toExit'[d][k].sid]
  <2> DEFINE j == IF d = c THEN k + 1 ELSE k
  <2>1. j \in 1 .. Len(toExit[d]) /\ toExit'[d][k] = toExit[d][j]
    BY <1>3
  <2> HIDE DEF j
  <2> DEFINE s == toExit[d][j].sid
  <2>2. IsOpen(toExit[d][j]) /\ s \in StreamId /\ s # i
    BY <1>6, <1>7, <1>9, <2>1
  <2>3. /\ handler[s] \notin {"none", "sendopen"}
        /\ opener[s] = "none"
        /\ toExit[d][j].host = dest[s]
    BY <2>1, <2>2 DEF OpenOnce, OpensRight
  <2> HIDE DEF s
  <2>4. opener'[s] = "none"
    BY <1>8, <2>2, <2>3
  <2> QED
    BY <1>1, <2>1, <2>3, <2>4 DEF s
<1>10. ASSUME NEW d \in Circuit, NEW e \in Circuit,
              NEW k \in 1 .. Len(toExit'[d]), NEW l \in 1 .. Len(toExit'[e]),
              IsOpen(toExit'[d][k]), IsOpen(toExit'[e][l]),
              toExit'[d][k].sid = toExit'[e][l].sid
       PROVE  d = e /\ k = l
  <2> DEFINE k0 == IF d = c THEN k + 1 ELSE k
             l0 == IF e = c THEN l + 1 ELSE l
  <2>1. /\ k0 \in 1 .. Len(toExit[d]) /\ toExit'[d][k] = toExit[d][k0]
        /\ l0 \in 1 .. Len(toExit[e]) /\ toExit'[e][l] = toExit[e][l0]
    BY <1>3
  <2> HIDE DEF k0, l0
  <2>2. d = e /\ k0 = l0
    BY SMTT(30), <1>10, <2>1 DEF OpenOnce
  <2> QED
    BY <2>2 DEF k0, l0
<1>11. /\ \A s \in StreamId : opener'[s] # "none" => handler'[s] \notin {"none", "sendopen"}
       /\ \A s \in StreamId : s >= nextId' => handler'[s] = "none" /\ dest'[s] = NoHost
  BY <1>1, <1>5, <1>8 DEF OpenOnce
<1> QED
  BY <1>9, <1>10, <1>11 DEF OpenOnce, OpensRight

-------------------------------------------------------------------------------
(* The rest of BindInv: what the exit has bound and what it holds.          *)

LEMMA ExitKept ==
  ASSUME TypeInv, LoopRight, OpenersRight, PayloadsRight, StreamsRight,
         UNCHANGED exitVars,
         \A s \in StreamId : dest[s] \in Host => dest'[s] = dest[s]
  PROVE  LoopRight' /\ OpenersRight' /\ PayloadsRight' /\ StreamsRight'
<1> USE DEF exitVars, loopVars, openerVars, socketVars
<1>1. LoopRight'
  <2>1. \A c \in Circuit : cur[c].host \in Host \cup {NoHost}
    BY DEF TypeInv, TypeOK, ExitTypeOK
  <2>2. \A c \in Circuit : cur'[c] = cur[c]
    OBVIOUS
  <2>3. UNCHANGED loop
    OBVIOUS
  <2> QED
    BY <2>1, <2>2, <2>3 DEF LoopRight, Stopped
<1>2. OpenersRight'
  <2>1. \A s \in StreamId : boundSid[s] \in StreamId \cup {0}
    BY DEF TypeInv, TypeOK, ExitTypeOK
  <2> QED
    BY <2>1 DEF OpenersRight, Stopped, TypeInv, TypeOK, ExitTypeOK
<1>3. PayloadsRight' /\ StreamsRight'
  BY DEF PayloadsRight, StreamsRight
<1> QED
  BY <1>1, <1>2, <1>3

(* stop stays set, and an opener stays on its circuit.                      *)
StopStays == \A c \in Circuit : Stopped(c) => Stopped(c)'

(* The frame the loop takes next: if it names a host, it is an OPEN frame.  *)
LEMMA LoopReceives ==
  ASSUME TypeInv, LoopRight, OpensRight, NEW c \in Circuit, NEW cmd, Recv(c, cmd),
         UNCHANGED dest, StopStays
  PROVE  LoopRight'
<1> DEFINE f == Head(toExit[c])
<1>1. toExit[c] \in Seq(UpFrame) /\ toExit[c] # <<>>
  BY DEF Recv, TypeInv, TypeOK, WireTypeOK
<1>2. f \in UpFrame /\ f = toExit[c][1] /\ 1 \in 1 .. Len(toExit[c])
  BY <1>1
<1>3. cur' = [cur EXCEPT ![c] = [sid |-> f.sid, host |-> f.host]]
  BY DEF Recv
<1> HIDE DEF f
<1>4. f.sid \in StreamId /\ f.host \in Host \cup {NoHost} /\ (IsOpen(f) <=> f.host \in Host)
  BY <1>2, UpFrames DEF IsOpen
<1>5. f.host # NoHost => f.host = dest[f.sid]
  BY <1>2, <1>4 DEF OpensRight
<1>6. \A d \in Circuit : cur'[d] = IF d = c THEN [sid |-> f.sid, host |-> f.host] ELSE cur[d]
  BY <1>3 DEF TypeInv, TypeOK, ExitTypeOK
<1> QED
  BY <1>4, <1>5, <1>6 DEF LoopRight, StopStays

LEMMA LoopKept == ASSUME LoopRight, UNCHANGED <<cur, dest>>, StopStays PROVE LoopRight'
BY DEF LoopRight, StopStays

(* Steps that bind nothing, move no payload and register no connection.     *)
Forgets ==
  /\ UNCHANGED <<dest, boundSid, boundHost, queued, delivered, pending>>
  /\ \A c \in Circuit : loop'[c] = "write" => /\ loop[c] = "write"
                                              /\ hand'[c] = hand[c]
                                              /\ cur'[c] = cur[c]
  /\ \A c \in Circuit, s \in StreamId : streams'[c][s] \in {0, streams[c][s]}
  /\ \A i \in StreamId : opener'[i] \in {"none", "start"} =>
                           opener[i] \in {"none", "start"}
  /\ StopStays
  /\ \A i \in StreamId : opener[i] # "none" => openCirc'[i] = openCirc[i]

(* What was read of the loop's variables stays right.                       *)
LEMMA BoundStays ==
  ASSUME TypeInv, OpenersRight, StopStays, UNCHANGED dest,
         NEW i \in StreamId, boundSid[i] # 0, boundSid'[i] = boundSid[i],
         boundHost'[i] = boundHost[i], openCirc'[i] = openCirc[i]
  PROVE  /\ boundHost'[i] \in Host
         /\ boundHost'[i] = dest'[boundSid'[i]] \/ loop'[openCirc'[i]] \in
                                                     {"cleanup", "closing", "done"}
<1>1. openCirc[i] \in Circuit
  BY DEF TypeInv, OpenersSet, OpenersRight
<1>2. ASSUME NEW c \in Circuit, c = openCirc[i]
      PROVE  boundHost'[i] = dest'[boundSid'[i]] \/ loop'[c] \in {"cleanup", "closing", "done"}
  BY <1>2 DEF OpenersRight, StopStays, Stopped
<1> QED
  BY <1>1, <1>2 DEF OpenersRight

(* Steps that leave every opener on its circuit and with what it has read.  *)
LEMMA OpenersStay ==
  ASSUME TypeInv, OpenersRight, StopStays,
         UNCHANGED <<dest, openCirc, boundSid, boundHost>>,
         \A i \in StreamId :
           opener'[i] \in {"none", "start"} =>
             boundSid'[i] = 0 /\ delivered'[i] = <<>> /\ queued'[i] = <<>>
  PROVE  OpenersRight'
<1>1. ASSUME NEW i \in StreamId, boundSid[i] # 0
      PROVE  /\ boundHost'[i] \in Host
             /\ boundHost'[i] = dest'[boundSid'[i]] \/ loop'[openCirc'[i]] \in
                                                         {"cleanup", "closing", "done"}
  BY <1>1, BoundStays
<1> QED
  BY <1>1 DEF OpenersRight, Stopped

LEMMA ForgetsStep ==
  ASSUME TypeInv, OpenersRight, PayloadsRight, StreamsRight, Forgets
  PROVE  OpenersRight' /\ PayloadsRight' /\ StreamsRight'
<1>1. OpenersRight'
  <2>1. \A i \in StreamId : boundSid[i] # 0 => opener[i] # "none"
    BY DEF OpenersRight
  <2>2. ASSUME NEW i \in StreamId, boundSid[i] # 0
        PROVE  /\ boundHost'[i] \in Host
               /\ boundHost'[i] = dest'[boundSid'[i]] \/ loop'[openCirc'[i]] \in
                                                           {"cleanup", "closing", "done"}
    BY <2>1, <2>2, BoundStays DEF Forgets
  <2> QED
    BY <2>2 DEF Forgets, OpenersRight, Stopped
<1>2. PayloadsRight'
  BY DEF Forgets, PayloadsRight
<1>3. StreamsRight'
  BY DEF Forgets, StreamsRight
<1> QED
  BY <1>1, <1>2, <1>3

LEMMA CloseForgets ==
  ASSUME TypeInv, NEW d \in Circuit, NEW t, CloseStream(d, t)
  PROVE  \A c \in Circuit, s \in StreamId : streams'[c][s] \in {0, streams[c][s]}
BY DEF CloseStream, TypeInv, TypeOK, ExitTypeOK

LEMMA LoopForgets ==
  ASSUME TypeInv, LoopRight, OpensRight, NEW c \in Circuit,
         \/ Accept(c) \/ RecvClose(c) \/ WriteFails(c) \/ TunnelEOF(c) \/ CleanupNext(c)
         \/ CleanupClose(c) \/ Return(c) \/ TunnelReset(c),
         UNCHANGED clientVars
  PROVE  Forgets /\ LoopRight'
<1> USE DEF clientVars, handlerVars, openerVars, socketVars
<1>1. /\ UNCHANGED <<dest, boundSid, boundHost, openCirc, queued, delivered, pending>>
      /\ \A i \in StreamId : opener'[i] \in {"none", "start"} =>
                               opener[i] \in {"none", "start"}
  BY DEF Accept, RecvClose, WriteFails, TunnelEOF, CleanupNext, CleanupClose, Return,
         TunnelReset, ProcessDies
<1>2. StopStays
  BY DEF Accept, EnterMux, RecvClose, Recv, WriteFails, TunnelEOF, CleanupNext,
         CleanupClose, Return, TunnelReset, StopStays, Stopped, TypeInv, TypeOK, ExitTypeOK
<1>3. \A d \in Circuit, s \in StreamId : streams'[d][s] \in {0, streams[d][s]}
  BY CloseForgets
     DEF Accept, RecvClose, WriteFails, TunnelEOF, CleanupNext, CleanupClose, Return,
         TunnelReset, ProcessDies
<1>4. \A d \in Circuit : loop'[d] = "write" => /\ loop[d] = "write"
                                               /\ hand'[d] = hand[d]
                                               /\ cur'[d] = cur[d]
  BY DEF Accept, EnterMux, RecvClose, Recv, WriteFails, TunnelEOF, CleanupNext,
         CleanupClose, Return, TunnelReset, TypeInv, TypeOK, ExitTypeOK
<1>5. LoopRight'
  <2>1. CASE RecvClose(c)
    BY <1>1, <1>2, <2>1, LoopReceives DEF RecvClose
  <2>2. CASE CleanupNext(c)
    <3>1. PICK s \in ids[c] : cur' = [cur EXCEPT ![c].sid = s]
      BY <2>2 DEF CleanupNext
    <3>2. s \in StreamId /\ Stopped(c)
      BY <2>2 DEF CleanupNext, Stopped, TypeInv, TypeOK, ExitTypeOK
    <3>3. \A d \in Circuit : /\ d # c => cur'[d] = cur[d]
                             /\ d = c => cur'[d].sid = s
      BY <3>1 DEF TypeInv, TypeOK, ExitTypeOK
    <3>4. \A d \in Circuit : Stopped(d) => Stopped(d)'
      BY <1>2 DEF StopStays
    <3> QED
      BY <1>1, <3>2, <3>3, <3>4 DEF LoopRight
  <2>3. CASE \/ Accept(c) \/ WriteFails(c) \/ TunnelEOF(c) \/ CleanupClose(c) \/ Return(c)
             \/ TunnelReset(c)
    BY <1>1, <1>2, <2>3, LoopKept
       DEF Accept, WriteFails, TunnelEOF, CleanupClose, Return, TunnelReset
  <2> QED
    BY <2>1, <2>2, <2>3
<1> QED
  BY <1>1, <1>2, <1>3, <1>4, <1>5 DEF Forgets

LEMMA ThreadForgets ==
  ASSUME TypeInv, NEW i \in StreamId,
         \/ BindDies(i) \/ ConnectFails(i) \/ FlushFails(i) \/ SendReady(i)
         \/ ReadyFails(i) \/ ReaderStep(i),
         UNCHANGED clientVars
  PROVE  Forgets /\ UNCHANGED <<cur, dest>>
<1> USE DEF clientVars, handlerVars, loopVars, openerVars, socketVars
<1>1. UNCHANGED <<cur, dest, loop, hand, openCirc, boundSid, boundHost, queued, delivered,
                  pending>>
  BY DEF BindDies, ConnectFails, FlushFails, OpenFails, SendReady, ReadyFails,
         ReaderStep, RemoteData, RemoteEnds, ReaderStops, ReaderExits
<1>2. \A j \in StreamId : opener'[j] \in {"none", "start"} =>
                            opener[j] \in {"none", "start"}
  BY DEF BindDies, ConnectFails, FlushFails, OpenFails, SendReady, ReadyFails,
         ReaderStep, RemoteData, RemoteEnds, ReaderStops, ReaderExits,
         TypeInv, TypeOK, ExitTypeOK
<1>3. \/ UNCHANGED streams
      \/ /\ openCirc[i] \in Circuit
         /\ \E t : CloseStream(openCirc[i], t)
  <2>1. opener[i] # "none" \/ reader[i] # "none" => openCirc[i] \in Circuit
    BY DEF TypeInv, OpenersSet
  <2> QED
    BY <2>1 DEF BindDies, ConnectFails, FlushFails, OpenFails, SendReady, ReadyFails,
         ReaderStep, RemoteData, RemoteEnds, ReaderStops, ReaderExits
<1> QED
  BY <1>1, <1>2, <1>3, CloseForgets DEF Forgets, StopStays, Stopped

LEMMA KeepRecvOpen ==
  ASSUME TypeInv, BindInv, NEW c \in Circuit, RecvOpen(c), UNCHANGED clientVars
  PROVE  LoopRight' /\ OpenersRight' /\ PayloadsRight' /\ StreamsRight'
<1> DEFINE i == Head(toExit[c]).sid
<1>1. UNCHANGED <<dest, loop, hand, streams, pending, boundSid, boundHost, queued, delivered>>
  BY DEF RecvOpen, clientVars, handlerVars, socketVars
<1>0. StopStays
  BY <1>1 DEF StopStays, Stopped
<1>2. LoopRight'
  BY <1>0, <1>1, LoopReceives DEF RecvOpen, BindInv
<1>3. toExit[c] \in Seq(UpFrame) /\ 1 \in 1 .. Len(toExit[c])
      /\ Head(toExit[c]) = toExit[c][1] /\ IsOpen(toExit[c][1])
  BY DEF RecvOpen, Recv, IsOpen, TypeInv, TypeOK, WireTypeOK
<1>4. i \in StreamId /\ opener[i] = "none"
  BY <1>3, UpFrames DEF BindInv, OpenOnce
<1>5. /\ opener' = [opener EXCEPT ![i] = "start"]
      /\ openCirc' = [openCirc EXCEPT ![i] = c]
  BY DEF RecvOpen
<1>6. cur' = [cur EXCEPT ![c] = [sid |-> Head(toExit[c]).sid, host |-> Head(toExit[c]).host]]
      /\ loop[c] = "recv"
  BY DEF RecvOpen, Recv
<1> HIDE DEF i
<1>7. \A j \in StreamId : opener'[j] \in {"none", "start"} => opener[j] \in {"none", "start"}
  BY <1>4, <1>5 DEF TypeInv, TypeOK, ExitTypeOK
<1>8. \A d \in Circuit : loop'[d] = "write" => loop[d] = "write" /\ cur'[d] = cur[d]
  BY <1>1, <1>6 DEF TypeInv, TypeOK, ExitTypeOK
<1>9. \A j \in StreamId : opener[j] # "none" => openCirc'[j] = openCirc[j]
  BY <1>4, <1>5 DEF TypeInv, TypeOK, ExitTypeOK
<1>10. Forgets
  BY <1>0, <1>1, <1>7, <1>8, <1>9 DEF Forgets
<1> QED
  BY <1>2, <1>10, ForgetsStep DEF BindInv

LEMMA KeepRecvData ==
  ASSUME TypeInv, BindInv, NEW c \in Circuit, RecvData(c), UNCHANGED clientVars
  PROVE  LoopRight' /\ OpenersRight' /\ PayloadsRight' /\ StreamsRight'
<1> DEFINE f == Head(toExit[c])
           r == streams[c][f.sid]
<1>1. UNCHANGED <<dest, opener, openCirc, streams, pending, boundSid, boundHost, queued,
                  delivered>>
  BY DEF RecvData, clientVars, handlerVars, openerVars, socketVars
<1>0. StopStays
  BY DEF RecvData, Recv, StopStays, Stopped, TypeInv, TypeOK, ExitTypeOK
<1>2. LoopRight'
  BY <1>0, <1>1, LoopReceives DEF RecvData, BindInv
<1>3. f \in UpFrame
  BY DEF RecvData, Recv, TypeInv, TypeOK, WireTypeOK
<1>4. f.sid \in StreamId
  BY <1>3, UpFrames
<1>5. /\ cur' = [cur EXCEPT ![c] = [sid |-> f.sid, host |-> f.host]]
      /\ hand' = [hand EXCEPT ![c] = [conn |-> r, data |-> f.data]]
      /\ loop' = [loop EXCEPT ![c] = IF r = 0 THEN "park" ELSE "write"]
  BY DEF RecvData, Recv
<1>6. r # 0 => boundSid[r] = f.sid
  BY <1>4 DEF BindInv, StreamsRight
<1> HIDE DEF f, r
<1>7. ASSUME NEW d \in Circuit, loop'[d] = "write"
      PROVE  boundSid'[hand'[d].conn] = cur'[d].sid
  <2>1. CASE d = c
    <3>1. cur'[c].sid = f.sid /\ hand'[c].conn = r /\ r # 0
      BY <1>5, <1>7, <2>1 DEF TypeInv, TypeOK, ExitTypeOK
    <3> QED
      BY <1>1, <1>6, <2>1, <3>1
  <2>2. CASE d # c
    <3>1. loop[d] = "write" /\ cur'[d] = cur[d] /\ hand'[d] = hand[d]
      BY <1>5, <1>7, <2>2 DEF TypeInv, TypeOK, ExitTypeOK
    <3> QED
      BY <1>1, <3>1 DEF BindInv, PayloadsRight
  <2> QED
    BY <2>1, <2>2
<1>8. PayloadsRight'
  BY <1>1, <1>7 DEF BindInv, PayloadsRight
<1>9. OpenersRight'
  BY <1>0, <1>1, OpenersStay DEF BindInv, OpenersRight
<1>10. StreamsRight'
  BY <1>1 DEF BindInv, StreamsRight
<1> QED
  BY <1>2, <1>8, <1>9, <1>10

(* A payload of stream boundSid[j] is written to connection j.              *)
LEMMA Delivers ==
  ASSUME TypeInv, OpenersRight, NEW j \in StreamId, NEW d \in UpOf(boundSid[j]),
         Deliver(j, d), boundSid[j] # 0,
         \A i \in StreamId : delivered[i] \in Seq(UpOf(boundSid[i]))
  PROVE  /\ \A i \in StreamId : delivered'[i] \in Seq(UpOf(boundSid[i]))
         /\ \A i \in StreamId : opener[i] \in {"none", "start"} => delivered'[i] = <<>>
<1>1. \A i \in StreamId :
        delivered'[i] = IF i = j THEN Append(delivered[j], d) ELSE delivered[i]
  BY DEF Deliver, TypeInv, TypeOK, ExitTypeOK
<1>2. Append(delivered[j], d) \in Seq(UpOf(boundSid[j]))
  BY SeqAppend
<1>3. opener[j] \notin {"none", "start"}
  BY DEF OpenersRight
<1> QED
  BY <1>1, <1>2, <1>3 DEF OpenersRight

LEMMA KeepWriteRemote ==
  ASSUME TypeInv, BindInv, NEW c \in Circuit, WriteRemote(c), UNCHANGED clientVars
  PROVE  LoopRight' /\ OpenersRight' /\ PayloadsRight' /\ StreamsRight'
<1>1. /\ loop[c] = "write"
      /\ loop' = [loop EXCEPT ![c] = "recv"]
      /\ hand' = [hand EXCEPT ![c] = NoHand]
      /\ Deliver(hand[c].conn, hand[c].data)
      /\ UNCHANGED <<dest, cur, opener, openCirc, streams, pending, boundSid, boundHost,
                     queued>>
  BY DEF WriteRemote, clientVars, handlerVars, openerVars
<1>2. /\ hand[c].conn \in StreamId
      /\ cur[c].sid \in StreamId
      /\ hand[c].data \in UpOf(cur[c].sid)
      /\ boundSid[hand[c].conn] = cur[c].sid
  BY <1>1 DEF TypeInv, LoopsSet, BindInv, PayloadsRight
<1>3. boundSid[hand[c].conn] # 0
  BY <1>2 DEF StreamId
<1>4. /\ \A i \in StreamId : delivered'[i] \in Seq(UpOf(boundSid[i]))
      /\ \A i \in StreamId : opener[i] \in {"none", "start"} => delivered'[i] = <<>>
  BY <1>1, <1>2, <1>3, Delivers DEF BindInv, PayloadsRight
<1>5. \A d \in Circuit : loop'[d] = "write" => loop[d] = "write" /\ hand'[d] = hand[d]
  BY <1>1 DEF TypeInv, TypeOK, ExitTypeOK
<1>6. PayloadsRight'
  BY <1>1, <1>4, <1>5 DEF BindInv, PayloadsRight
<1>0. StopStays
  BY <1>1 DEF StopStays, Stopped, TypeInv, TypeOK, ExitTypeOK
<1>7. OpenersRight'
  BY <1>0, <1>1, <1>4, OpenersStay DEF BindInv, OpenersRight
<1>8. LoopRight' /\ StreamsRight'
  BY <1>0, <1>1, LoopKept DEF BindInv, StreamsRight
<1> QED
  BY <1>6, <1>7, <1>8

LEMMA KeepPark ==
  ASSUME TypeInv, BindInv, NEW c \in Circuit, Park(c), UNCHANGED clientVars
  PROVE  LoopRight' /\ OpenersRight' /\ PayloadsRight' /\ StreamsRight'
<1> DEFINE s == cur[c].sid
<1>1. /\ loop[c] = "park"
      /\ loop' = [loop EXCEPT ![c] = "recv"]
      /\ hand' = [hand EXCEPT ![c] = NoHand]
      /\ pending' = [pending EXCEPT ![c][s] = Append(@, hand[c].data)]
      /\ UNCHANGED <<dest, cur, opener, openCirc, streams, boundSid, boundHost, queued,
                     delivered>>
  BY DEF Park, clientVars, handlerVars, openerVars, socketVars
<1>2. s \in StreamId /\ hand[c].data \in UpOf(s)
  BY <1>1 DEF TypeInv, LoopsSet
<1>3. pending[c][s] \in Seq(UpOf(s))
  BY <1>2 DEF BindInv, PayloadsRight
<1> HIDE DEF s
<1>4. \A d \in Circuit, t \in StreamId :
        pending'[d][t] = IF d = c /\ t = s THEN Append(pending[c][s], hand[c].data)
                                           ELSE pending[d][t]
  BY <1>1, <1>2 DEF TypeInv, TypeOK, ExitTypeOK
<1>5. \A d \in Circuit, t \in StreamId : pending'[d][t] \in Seq(UpOf(t))
  <2>1. Append(pending[c][s], hand[c].data) \in Seq(UpOf(s))
    BY <1>2, <1>3, SeqAppend
  <2> QED
    BY <1>4, <2>1 DEF BindInv, PayloadsRight
<1>6. \A d \in Circuit : loop'[d] = "write" => loop[d] = "write" /\ hand'[d] = hand[d]
  BY <1>1 DEF TypeInv, TypeOK, ExitTypeOK
<1>7. PayloadsRight'
  BY <1>1, <1>5, <1>6 DEF BindInv, PayloadsRight
<1>0. StopStays
  BY <1>1 DEF StopStays, Stopped, TypeInv, TypeOK, ExitTypeOK
<1>8. LoopRight' /\ StreamsRight'
  BY <1>0, <1>1, LoopKept DEF BindInv, StreamsRight
<1>9. OpenersRight'
  BY <1>0, <1>1, OpenersStay DEF BindInv, OpenersRight
<1> QED
  BY <1>7, <1>8, <1>9

LEMMA KeepBind ==
  ASSUME TypeInv, BindInv, NEW i \in StreamId, Bind(i), UNCHANGED clientVars
  PROVE  LoopRight' /\ OpenersRight' /\ PayloadsRight' /\ StreamsRight'
<1> DEFINE v == cur[openCirc[i]]
<1>1. /\ opener[i] = "start"
      /\ v.host # NoHost
      /\ boundSid' = [boundSid EXCEPT ![i] = v.sid]
      /\ boundHost' = [boundHost EXCEPT ![i] = v.host]
      /\ opener' = [opener EXCEPT ![i] = "connect"]
      /\ UNCHANGED <<dest, loop, cur, hand, openCirc, streams, pending, queued, delivered>>
  BY DEF Bind, LoopVars, loopVars, clientVars, handlerVars, socketVars
<1>2. openCirc[i] \in Circuit
  BY <1>1 DEF TypeInv, OpenersSet
<1>3. /\ v.host \in Host /\ v.sid \in StreamId
      /\ v.host = dest[v.sid] \/ Stopped(openCirc[i])
  BY <1>1, <1>2 DEF BindInv, LoopRight, TypeInv, TypeOK, ExitTypeOK
<1>4. boundSid[i] = 0 /\ delivered[i] = <<>> /\ queued[i] = <<>>
  BY <1>1 DEF BindInv, OpenersRight
<1> HIDE DEF v
<1>5. \A j \in StreamId :
        /\ boundSid'[j] = IF j = i THEN v.sid ELSE boundSid[j]
        /\ boundHost'[j] = IF j = i THEN v.host ELSE boundHost[j]
        /\ opener'[j] = IF j = i THEN "connect" ELSE opener[j]
  BY <1>1 DEF TypeInv, TypeOK, ExitTypeOK
<1>6. OpenersRight'
  <2>0. StopStays
    BY <1>1 DEF StopStays, Stopped
  <2>1. ASSUME NEW j \in StreamId, boundSid'[j] # 0
        PROVE  /\ boundHost'[j] \in Host
               /\ boundHost'[j] = dest'[boundSid'[j]] \/ loop'[openCirc'[j]] \in
                                                           {"cleanup", "closing", "done"}
    <3>1. CASE j = i
      BY <1>1, <1>3, <1>5, <3>1 DEF Stopped
    <3>2. CASE j # i
      BY <1>1, <1>5, <2>0, <2>1, <3>2, BoundStays DEF BindInv
    <3> QED
      BY <3>1, <3>2
  <2> QED
    BY <1>1, <1>5, <2>1 DEF BindInv, OpenersRight, Stopped
<1>7. ASSUME NEW c \in Circuit, loop[c] = "write"
      PROVE  boundSid'[hand[c].conn] = cur[c].sid
  <2>1. /\ hand[c].conn \in StreamId
        /\ cur[c].sid \in StreamId
        /\ boundSid[hand[c].conn] = cur[c].sid
    BY <1>7 DEF TypeInv, LoopsSet, BindInv, PayloadsRight
  <2> QED
    BY <1>4, <1>5, <2>1 DEF StreamId
<1>8. \A j \in StreamId : /\ delivered[j] \in Seq(UpOf(boundSid'[j]))
                          /\ queued[j] \in Seq(UpOf(boundSid'[j]))
  <2>1. <<>> \in Seq(UpOf(v.sid))
    OBVIOUS
  <2> QED
    BY <1>4, <1>5, <2>1 DEF BindInv, PayloadsRight
<1>9. PayloadsRight'
  BY <1>1, <1>7, <1>8 DEF BindInv, PayloadsRight
<1>10. ASSUME NEW c \in Circuit, NEW s \in StreamId, streams[c][s] # 0
       PROVE  boundSid'[streams[c][s]] = s
  <2>1. streams[c][s] \in StreamId /\ boundSid[streams[c][s]] = s
    BY <1>10 DEF BindInv, StreamsRight, TypeInv, TypeOK, ExitTypeOK
  <2> QED
    BY <1>4, <1>5, <2>1 DEF StreamId
<1>11. StreamsRight' /\ LoopRight'
  BY <1>1, <1>10, LoopKept DEF BindInv, StreamsRight, StopStays, Stopped
<1> QED
  BY <1>6, <1>9, <1>11

LEMMA KeepConnectOk ==
  ASSUME TypeInv, BindInv, NEW i \in StreamId, ConnectOk(i), UNCHANGED clientVars
  PROVE  LoopRight' /\ OpenersRight' /\ PayloadsRight' /\ StreamsRight'
<1> DEFINE c == openCirc[i]
           s == boundSid[i]
<1>1. /\ opener[i] = "connect"
      /\ streams' = [streams EXCEPT ![c][s] = i]
      /\ queued' = [queued EXCEPT ![i] = pending[c][s]]
      /\ pending' = [pending EXCEPT ![c][s] = <<>>]
      /\ opener' = [opener EXCEPT ![i] = "flush"]
      /\ UNCHANGED <<dest, loop, cur, hand, openCirc, boundSid, boundHost, delivered>>
  BY DEF ConnectOk, loopVars, clientVars, handlerVars
<1>2. c \in Circuit /\ s \in StreamId
  BY <1>1 DEF TypeInv, OpenersSet
<1>3. boundSid[i] = s
  OBVIOUS
<1> HIDE DEF c, s
<1>4. \A j \in StreamId :
        /\ opener'[j] = IF j = i THEN "flush" ELSE opener[j]
        /\ queued'[j] = IF j = i THEN pending[c][s] ELSE queued[j]
  BY <1>1 DEF TypeInv, TypeOK, ExitTypeOK
<1>5. \A d \in Circuit, t \in StreamId :
        /\ streams'[d][t] = IF d = c /\ t = s THEN i ELSE streams[d][t]
        /\ pending'[d][t] = IF d = c /\ t = s THEN <<>> ELSE pending[d][t]
  BY <1>1, <1>2 DEF TypeInv, TypeOK, ExitTypeOK
<1>0. StopStays
  BY <1>1 DEF StopStays, Stopped
<1>6. OpenersRight'
  BY <1>0, <1>1, <1>4, OpenersStay DEF BindInv, OpenersRight
<1>7. pending[c][s] \in Seq(UpOf(boundSid[i])) /\ <<>> \in Seq(UpOf(s))
  BY <1>2, <1>3 DEF BindInv, PayloadsRight
<1>8. PayloadsRight'
  BY <1>1, <1>4, <1>5, <1>7 DEF BindInv, PayloadsRight
<1>9. StreamsRight'
  BY <1>1, <1>3, <1>5 DEF BindInv, StreamsRight
<1>10. LoopRight'
  BY <1>0, <1>1, LoopKept DEF BindInv
<1> QED
  BY <1>6, <1>8, <1>9, <1>10

LEMMA KeepFlush ==
  ASSUME TypeInv, BindInv, NEW i \in StreamId, Flush(i), UNCHANGED clientVars
  PROVE  LoopRight' /\ OpenersRight' /\ PayloadsRight' /\ StreamsRight'
<1>1. /\ opener[i] = "flush"
      /\ queued[i] # <<>>
      /\ Deliver(i, Head(queued[i]))
      /\ queued' = [queued EXCEPT ![i] = Tail(@)]
      /\ UNCHANGED <<dest, loop, cur, hand, streams, pending, opener, openCirc, boundSid,
                     boundHost>>
  BY DEF Flush, loopVars, clientVars, handlerVars
<1>2. boundSid[i] # 0
  BY <1>1 DEF TypeInv, OpenersSet, StreamId
<1>3. queued[i] \in Seq(UpOf(boundSid[i]))
  BY DEF BindInv, PayloadsRight
<1>4. Head(queued[i]) \in UpOf(boundSid[i]) /\ Tail(queued[i]) \in Seq(UpOf(boundSid[i]))
  BY <1>1, <1>3, SeqHeadTail
<1>5. /\ \A j \in StreamId : delivered'[j] \in Seq(UpOf(boundSid[j]))
      /\ \A j \in StreamId : opener[j] \in {"none", "start"} => delivered'[j] = <<>>
  BY <1>1, <1>2, <1>4, Delivers DEF BindInv, PayloadsRight
<1>6. \A j \in StreamId : queued'[j] = IF j = i THEN Tail(queued[i]) ELSE queued[j]
  BY <1>1 DEF TypeInv, TypeOK, ExitTypeOK
<1>7. PayloadsRight'
  BY <1>1, <1>4, <1>5, <1>6 DEF BindInv, PayloadsRight
<1>0. StopStays
  BY <1>1 DEF StopStays, Stopped
<1>8. OpenersRight'
  BY <1>0, <1>1, <1>5, <1>6, OpenersStay DEF BindInv, OpenersRight
<1>9. LoopRight' /\ StreamsRight'
  BY <1>0, <1>1, LoopKept DEF BindInv, StreamsRight
<1> QED
  BY <1>7, <1>8, <1>9

-------------------------------------------------------------------------------
(* BindInv is inductive together with TypeInv.                              *)

LEMMA BindInit == Init => BindInv
BY TunnelWireAssumption
   DEF Init, WireInit, ClientInit, ExitInit, BindInv, OpenOnce, OpensRight,
       LoopRight, OpenersRight, PayloadsRight, StreamsRight, NoVars, NoHand,
       StreamId, Circuit, IsOpen

(* Every client step leaves requested destinations as they are.             *)
LEMMA ClientOnward ==
  ASSUME TypeInv, OpenOnce, ClientNext
  PROVE  \A s \in StreamId : dest[s] \in Host => dest'[s] = dest[s]
<1>1. ASSUME NEW h \in Host, Register(h)
      PROVE  \A s \in StreamId : dest[s] \in Host => dest'[s] = dest[s]
  <2>1. nextId \in StreamId /\ dest' = [dest EXCEPT ![nextId] = h]
    BY <1>1 DEF Register
  <2>2. dest[nextId] \notin Host
    BY <2>1, TunnelWireAssumption DEF OpenOnce, StreamId
  <2> QED
    BY <2>1, <2>2 DEF TypeInv, TypeOK, ClientTypeOK
<1>2. ASSUME NEW s \in StreamId, HandlerStep(s)
      PROVE  UNCHANGED dest
  BY <1>2 DEF HandlerStep, SendOpen, SendOpenRaises, BecomeReady, BrowserLeft,
              OpenTimeout, BrowserSend, BrowserRecv, EndStream
<1>3. ASSUME RunnerStep \/ \E c \in Circuit : CircuitLost(c)
      PROVE  UNCHANGED dest
  BY <1>3 DEF RunnerStep, OpenTunnel, Dispatch, OpenTunnelRaises, RunnerReopens,
              CircuitLost, handlerVars
<1> QED
  BY <1>1, <1>2, <1>3 DEF ClientNext

LEMMA BindClient ==
  ASSUME TypeInv, TypeInv', BindInv, ClientNext, UNCHANGED exitVars
  PROVE  BindInv'
<1>1. LoopRight' /\ OpenersRight' /\ PayloadsRight' /\ StreamsRight'
  BY ClientOnward, ExitKept DEF BindInv
<1>2. ASSUME NEW h \in Host, Register(h)
      PROVE  OpenOnce' /\ OpensRight'
  BY <1>2, OpenRegister DEF BindInv
<1>3. ASSUME NEW s \in StreamId, HandlerStep(s)
      PROVE  OpenOnce' /\ OpensRight'
  BY <1>3, OpenSendOpen, QuietHandler, QuietStep DEF BindInv
<1>4. ASSUME RunnerStep \/ \E c \in Circuit : CircuitLost(c)
      PROVE  OpenOnce' /\ OpensRight'
  BY <1>4, QuietRunner, QuietStep DEF BindInv
<1> QED
  BY <1>1, <1>2, <1>3, <1>4 DEF ClientNext, BindInv

LEMMA BindLoop ==
  ASSUME TypeInv, TypeInv', BindInv, NEW c \in Circuit, Accept(c) \/ LoopStep(c),
         UNCHANGED clientVars
  PROVE  BindInv'
<1>1. OpenOnce' /\ OpensRight'
  BY OpenRecvOpen, QuietLoop, QuietStep DEF BindInv
<1>2. LoopRight' /\ OpenersRight' /\ PayloadsRight' /\ StreamsRight'
  <2>1. CASE \/ Accept(c) \/ RecvClose(c) \/ WriteFails(c) \/ TunnelEOF(c)
             \/ CleanupNext(c) \/ CleanupClose(c) \/ Return(c) \/ TunnelReset(c)
    BY <2>1, LoopForgets, ForgetsStep DEF BindInv
  <2>2. CASE RecvOpen(c) \/ RecvData(c) \/ WriteRemote(c) \/ Park(c)
    BY <2>2, KeepRecvOpen, KeepRecvData, KeepWriteRemote, KeepPark
  <2> QED
    BY <2>1, <2>2 DEF LoopStep
<1> QED
  BY <1>1, <1>2 DEF BindInv

LEMMA BindThreads ==
  ASSUME TypeInv, TypeInv', BindInv, NEW i \in StreamId,
         OpenerStep(i) \/ ReaderStep(i), UNCHANGED clientVars
  PROVE  BindInv'
<1>1. OpenOnce' /\ OpensRight'
  BY QuietThreads, QuietStep DEF BindInv
<1>2. LoopRight' /\ OpenersRight' /\ PayloadsRight' /\ StreamsRight'
  <2>1. CASE \/ BindDies(i) \/ ConnectFails(i) \/ FlushFails(i) \/ SendReady(i)
             \/ ReadyFails(i) \/ ReaderStep(i)
    BY <2>1, ThreadForgets, ForgetsStep, LoopKept DEF BindInv, Forgets
  <2>2. CASE Bind(i) \/ ConnectOk(i) \/ Flush(i)
    BY <2>2, KeepBind, KeepConnectOk, KeepFlush
  <2> QED
    BY <2>1, <2>2 DEF OpenerStep
<1> QED
  BY <1>1, <1>2 DEF BindInv

LEMMA BindCut ==
  ASSUME TypeInv, TypeInv', BindInv, CutStep
  PROVE  BindInv'
<1>1. UNCHANGED <<clientVars, exitVars>> /\ \E c \in Circuit : Cut(c)
  BY DEF CutStep
<1>2. UNCHANGED dest
  BY <1>1 DEF clientVars, handlerVars
<1>3. LoopRight' /\ OpenersRight' /\ PayloadsRight' /\ StreamsRight'
  BY <1>1, <1>2, ExitKept DEF BindInv
<1>4. OpenOnce' /\ OpensRight'
  BY QuietCut, QuietStep DEF BindInv
<1> QED
  BY <1>3, <1>4 DEF BindInv

LEMMA BindStep ==
  ASSUME TypeInv, TypeInv', BindInv, [Next]_vars
  PROVE  BindInv'
<1>1. CASE UNCHANGED vars
  <2>1. UNCHANGED <<toExit, nextId, handler, dest, opener, exitVars>>
    BY <1>1 DEF vars, wireVars, clientVars, tableVars, handlerVars, exitVars, openerVars
  <2>2. Quiet
    BY <2>1, ShiftUnchanged DEF Quiet, Onward
  <2> QED
    BY <2>1, <2>2, QuietStep, ExitKept DEF BindInv
<1>2. CASE Next
  BY <1>2, BindClient, BindLoop, BindThreads, BindCut DEF Next, ExitNext
<1> QED
  BY <1>1, <1>2

LEMMA BindInvariant == Spec => []BindInv
<1>1. Init => BindInv
  BY BindInit
<1>2. TypeInv /\ TypeInv' /\ BindInv /\ [Next]_vars => BindInv'
  BY BindStep
<1> QED
  BY <1>1, <1>2, TypeInvariant, PTL DEF Spec

(* A connection gets payloads of the one stream its opener read, and while  *)
(* relay_mux serves the circuit that stream asked for the destination it is *)
(* connected to, whatever the exit's threads interleave and however often   *)
(* the circuit is replaced.                                                 *)
THEOREM RightDestinationHolds == Spec => []RightDestination
<1>1. TypeInv /\ BindInv => RightDestination
  <2> SUFFICES ASSUME TypeInv, BindInv, NEW i \in StreamId
               PROVE  /\ \A p \in Range(delivered[i]) : p.from = boundSid[i]
                      /\ boundSid[i] # 0 => \/ boundHost[i] = dest[boundSid[i]]
                                            \/ Stopped(openCirc[i])
    BY DEF RightDestination
  <2>1. delivered[i] \in Seq(UpOf(boundSid[i]))
    BY DEF BindInv, PayloadsRight
  <2>2. \A p \in Range(delivered[i]) : p \in UpOf(boundSid[i])
    BY <2>1 DEF Range
  <2>3. \A p \in Range(delivered[i]) : p.from = boundSid[i]
    BY <2>2 DEF UpOf
  <2> QED
    BY <2>3 DEF BindInv, OpenersRight
<1> QED
  BY <1>1, TypeInvariant, BindInvariant, PTL

---------------------------------------------------------------------------------
(***************************************************************************)
(* What the tunnel promises its browsers, for every number of streams,     *)
(* circuits, payloads and destinations: what is read from a stream comes   *)
(* from the destination it asked for, a stream is only said to be          *)
(* established once the exit has connected to it, and the tunnel           *)
(* implements StreamService.                                               *)
(***************************************************************************)

(* A frame on its way to the client may say that a stream is ready only if  *)
(* it is connected, and carries an answer of the stream's destination.      *)
Honest(f) ==
  /\ f.cmd = "READY" => f.sid \in ConnectedStreams
  /\ f.cmd = "DATA" => f.data.from = dest[f.sid]

FramesHonest == \A c \in Circuit : \A k \in 1 .. Len(toClient[c]) : Honest(toClient[c][k])

DownOf(h) == {d \in DownData : d.from = h}

(* What the client keeps of those frames.                                   *)
AnswersRight == \A s \in StreamId : /\ queue[s] \in Seq(DownOf(dest[s]))
                                    /\ got[s] \in Seq(DownOf(dest[s]))

ReadyConnected ==
  \A s \in StreamId : ready[s] \/ handler[s] \in {"relay", "ended"} => s \in ConnectedStreams

(* An opener that has connected has a connection, and so has its reader; a  *)
(* stream that was never requested has no destination.                      *)
SocketsMade == \A i \in StreamId : opener[i] = "flush" \/ reader[i] = "run" => sock[i] # "none"

Requested == \A s \in StreamId : handler[s] = "none" => dest[s] = NoHost

(* relay_mux sets stop only when it has read the end of the circuit.        *)
StoppedCut == \A c \in Circuit : Stopped(c) => link[c] = "closed"

DownInv ==
  FramesHonest /\ AnswersRight /\ ReadyConnected /\ SocketsMade /\ Requested /\ StoppedCut
-------------------------------------------------------------------------------
(* Where a payload can be: on the wire to the exit, in the hands of its main *)
(* loop, parked, taken by an opener, or written to a connection.            *)
Place == {"wire", "hand", "parked", "queued", "written"} \X Nat \X Nat \X Nat

OnWire(p, c, k) ==
  /\ c \in Circuit /\ k \in 1 .. Len(toExit[c])
  /\ toExit[c][k].cmd = "DATA" /\ toExit[c][k].data = p

InHand(p, c) == c \in Circuit /\ loop[c] \in {"write", "park"} /\ hand[c].data = p

Parked(p, c, s, k) ==
  /\ c \in Circuit /\ s \in StreamId
  /\ k \in 1 .. Len(pending[c][s]) /\ pending[c][s][k] = p

Queued(p, i, k) == i \in StreamId /\ k \in 1 .. Len(queued[i]) /\ queued[i][k] = p

Written(p, i, k) == i \in StreamId /\ k \in 1 .. Len(delivered[i]) /\ delivered[i][k] = p

At(p, a) ==
  \/ a[1] = "wire" /\ a[3] = 0 /\ OnWire(p, a[2], a[4])
  \/ a[1] = "hand" /\ a[3] = 0 /\ a[4] = 0 /\ InHand(p, a[2])
  \/ a[1] = "parked" /\ Parked(p, a[2], a[3], a[4])
  \/ a[1] = "queued" /\ a[3] = 0 /\ Queued(p, a[2], a[4])
  \/ a[1] = "written" /\ a[3] = 0 /\ Written(p, a[2], a[4])

OnePlace == \A p \in UpData : \A a, b \in Place : At(p, a) /\ At(p, b) => a = b
WasSent == \A p \in UpData : \A a \in Place : At(p, a) => p.n <= sent[p.from]

OnceInv == OnePlace /\ WasSent

-------------------------------------------------------------------------------
(* What has been promised stays true: destinations, bindings, connections.  *)

Stays ==
  /\ \A s \in StreamId : dest[s] \in Host => dest'[s] = dest[s]
  /\ \A i \in StreamId : boundSid[i] # 0 => /\ boundSid'[i] = boundSid[i]
                                            /\ boundHost'[i] = boundHost[i]
  /\ \A i \in StreamId : sock[i] # "none" => sock'[i] # "none"

LEMMA ClosedNotNone ==
  ASSUME NEW c, NEW s, CloseStream(c, s)
  PROVE  \A i \in StreamId : sock[i] # "none" => sock'[i] # "none"
BY DEF CloseStream

LEMMA ExitStays ==
  ASSUME TypeInv, BindInv, ExitNext, UNCHANGED clientVars
  PROVE  Stays
<1>1. UNCHANGED dest
  BY DEF clientVars, handlerVars
<1>2. ASSUME NEW c \in Circuit, Accept(c) \/ LoopStep(c)
      PROVE  Stays
  <2>1. UNCHANGED <<boundSid, boundHost>>
    BY <1>2 DEF Accept, LoopStep, RecvOpen, RecvData, RecvClose, WriteRemote,
         WriteFails, Park, TunnelEOF, CleanupNext, CleanupClose, Return, TunnelReset, ProcessDies, openerVars
  <2>2. \A i \in StreamId : sock[i] # "none" => sock'[i] # "none"
    BY <1>2, ClosedNotNone
       DEF Accept, LoopStep, RecvOpen, RecvData, RecvClose, WriteRemote,
           WriteFails, Park, TunnelEOF, CleanupNext, CleanupClose, Return, TunnelReset, ProcessDies, socketVars
  <2> QED
    BY <1>1, <2>1, <2>2 DEF Stays
<1>3. ASSUME NEW i \in StreamId, OpenerStep(i) \/ ReaderStep(i)
      PROVE  Stays
  <2>1. \A j \in StreamId : boundSid[j] # 0 => /\ boundSid'[j] = boundSid[j]
                                               /\ boundHost'[j] = boundHost[j]
    <3>1. CASE Bind(i)
      BY <3>1 DEF Bind, BindInv, OpenersRight, TypeInv, TypeOK, ExitTypeOK
    <3>2. CASE ~Bind(i)
      BY <1>3, <3>2
         DEF OpenerStep, BindDies, ConnectOk, ConnectFails, OpenFails, Flush,
             FlushFails, SendReady, ReadyFails, ReaderStep, RemoteData, RemoteEnds,
             ReaderStops, ReaderExits, openerVars
    <3> QED
      BY <3>1, <3>2
  <2>2. \A j \in StreamId : sock[j] # "none" => sock'[j] # "none"
    <3>1. CASE ConnectOk(i)
      BY <3>1 DEF ConnectOk, TypeInv, TypeOK, ExitTypeOK
    <3>2. CASE ~ConnectOk(i)
      BY <1>3, <3>2, ClosedNotNone
         DEF OpenerStep, Bind, BindDies, ConnectFails, OpenFails, Flush,
             FlushFails, SendReady, ReadyFails, ReaderStep, RemoteData, RemoteEnds,
             ReaderStops, ReaderExits, socketVars
    <3> QED
      BY <3>1, <3>2
  <2> QED
    BY <1>1, <2>1, <2>2 DEF Stays
<1> QED
  BY <1>2, <1>3 DEF ExitNext

LEMMA ClientStays ==
  ASSUME TypeInv, BindInv, ClientNext \/ CutStep, UNCHANGED exitVars
  PROVE  Stays
<1>1. UNCHANGED <<boundSid, boundHost, sock>>
  BY DEF exitVars, openerVars, socketVars
<1>2. CASE ClientNext
  BY <1>1, <1>2, ClientOnward DEF Stays, BindInv
<1>3. CASE CutStep
  BY <1>1, <1>3 DEF Stays, CutStep, clientVars, handlerVars
<1> QED
  BY <1>2, <1>3

LEMMA StaysConnected ==
  ASSUME TypeInv, BindInv, Stays
  PROVE  \A s \in ConnectedStreams : s \in ConnectedStreams'
<1> SUFFICES ASSUME NEW s \in StreamId, NEW i \in StreamId, boundSid[i] = s,
                    boundHost[i] = dest[s], sock[i] # "none"
             PROVE  s \in ConnectedStreams'
  BY DEF ConnectedStreams
<1>1. boundSid[i] # 0
  BY DEF StreamId
<1>2. boundHost[i] \in Host
  BY <1>1 DEF BindInv, OpenersRight
<1>3. boundSid'[i] = s /\ boundHost'[i] = dest'[s] /\ sock'[i] # "none"
  BY <1>1, <1>2 DEF Stays
<1> QED
  BY <1>3 DEF ConnectedStreams

(* While the circuit stands, a connection is one of the stream its opener   *)
(* read.                                                                    *)
LEMMA SocketConnects ==
  ASSUME TypeInv, BindInv, NEW i \in StreamId, sock[i] # "none", ~Stopped(openCirc[i])
  PROVE  /\ boundSid[i] \in ConnectedStreams
         /\ boundHost[i] = dest[boundSid[i]]
         /\ boundHost[i] \in Host
<1>1. boundSid[i] \in StreamId
  BY DEF TypeInv, OpenersSet
<1>2. boundSid[i] # 0
  BY <1>1 DEF StreamId
<1> QED
  BY <1>1, <1>2 DEF BindInv, OpenersRight, ConnectedStreams

-------------------------------------------------------------------------------
(* DownInv, conjunct by conjunct.                                           *)

LEMMA SeqMonotone ==
  ASSUME NEW S, NEW T, S \subseteq T, NEW q \in Seq(S)
  PROVE  q \in Seq(T)
OBVIOUS

LEMMA HonestStays ==
  ASSUME TypeInv, BindInv, Stays, NEW f \in DownFrame, Honest(f)
  PROVE  Honest(f)'
<1>1. f.sid \in StreamId /\ (f.cmd = "DATA" => f.data.from \in Host)
  BY DownFrames DEF DownData
<1>2. f.sid \in ConnectedStreams => f.sid \in ConnectedStreams'
  BY StaysConnected
<1>3. f.cmd = "DATA" => f.data.from = dest'[f.sid]
  BY <1>1 DEF Honest, Stays
<1> QED
  BY <1>2, <1>3 DEF Honest

(* Every frame on the way to the client was on the way or may be.           *)
NoLie ==
  \A c \in Circuit : \A k \in 1 .. Len(toClient'[c]) :
    \E f \in DownFrame : /\ toClient'[c][k] = f
                         /\ \/ \E l \in 1 .. Len(toClient[c]) : f = toClient[c][l]
                            \/ Honest(f)'

LEMMA FramesStayHonest ==
  ASSUME TypeInv, BindInv, Stays, FramesHonest, NoLie
  PROVE  FramesHonest'
<1> SUFFICES ASSUME NEW c \in Circuit, NEW k \in 1 .. Len(toClient'[c])
             PROVE  Honest(toClient[c][k])'
  BY DEF FramesHonest
<1>1. PICK f \in DownFrame : /\ toClient'[c][k] = f
                             /\ \/ \E l \in 1 .. Len(toClient[c]) : f = toClient[c][l]
                                \/ Honest(f)'
  BY DEF NoLie
<1>2. Honest(f)'
  BY <1>1, HonestStays DEF FramesHonest
<1> QED
  BY <1>1, <1>2 DEF Honest

(* Steps that only take frames away from what is on its way.                *)
OldFrames ==
  \A c \in Circuit : \A k \in 1 .. Len(toClient'[c]) :
    \E l \in 1 .. Len(toClient[c]) : toClient'[c][k] = toClient[c][l]

LEMMA NoLieOld == TypeInv /\ OldFrames => NoLie
<1> SUFFICES ASSUME TypeInv, OldFrames PROVE NoLie
  OBVIOUS
<1>1. \A c \in Circuit : \A k \in 1 .. Len(toClient[c]) : toClient[c][k] \in DownFrame
  BY DEF TypeInv, TypeOK, WireTypeOK
<1> QED
  BY <1>1 DEF NoLie, OldFrames

LEMMA OldKept == UNCHANGED toClient => OldFrames
BY DEF OldFrames

LEMMA OldShorter ==
  ASSUME TypeInv, NEW d \in Circuit,
         \/ toClient' = [toClient EXCEPT ![d] = <<>>]
         \/ toClient[d] # <<>> /\ toClient' = [toClient EXCEPT ![d] = Tail(@)]
         \/ \E m \in {0, 1} : /\ m <= Len(toClient[d])
                              /\ toClient' = [toClient EXCEPT ![d] = SubSeq(@, 1, m)]
  PROVE  OldFrames
<1>1. \A c \in Circuit : toClient[c] \in Seq(DownFrame)
  BY DEF TypeInv, TypeOK, WireTypeOK
<1>2. \A c \in Circuit : c # d => toClient'[c] = toClient[c]
  BY DEF TypeInv, TypeOK, WireTypeOK
<1>3. \A k \in 1 .. Len(toClient'[d]) :
        \E l \in 1 .. Len(toClient[d]) : toClient'[d][k] = toClient[d][l]
  <2>1. CASE toClient' = [toClient EXCEPT ![d] = <<>>]
    BY <2>1 DEF TypeInv, TypeOK, WireTypeOK
  <2>2. CASE toClient[d] # <<>> /\ toClient' = [toClient EXCEPT ![d] = Tail(@)]
    <3>1. toClient'[d] = Tail(toClient[d])
      BY <2>2 DEF TypeInv, TypeOK, WireTypeOK
    <3> QED
      BY <1>1, <2>2, <3>1, TailIndex
  <2>3. ASSUME NEW m \in {0, 1}, m <= Len(toClient[d]),
               toClient' = [toClient EXCEPT ![d] = SubSeq(@, 1, m)]
        PROVE  \A k \in 1 .. Len(toClient'[d]) :
                 \E l \in 1 .. Len(toClient[d]) : toClient'[d][k] = toClient[d][l]
    <3>1. toClient'[d] = SubSeq(toClient[d], 1, m)
      BY <2>3 DEF TypeInv, TypeOK, WireTypeOK
    <3> QED
      BY <1>1, <2>3, <3>1
  <2> QED
    BY <2>1, <2>2, <2>3
<1> QED
  BY <1>2, <1>3 DEF OldFrames

LEMMA NoLieSent ==
  ASSUME TypeInv, NEW d \in Circuit, NEW f \in DownFrame, SendMux(d, f), Honest(f)'
  PROVE  NoLie
<1>1. \A c \in Circuit : toClient[c] \in Seq(DownFrame)
  BY DEF TypeInv, TypeOK, WireTypeOK
<1>2. \A c \in Circuit : c # d => toClient'[c] = toClient[c]
  BY DEF SendMux, TypeInv, TypeOK, WireTypeOK
<1>3. toClient'[d] = Append(toClient[d], f)
  BY DEF SendMux, TypeInv, TypeOK, WireTypeOK
<1>4. \A k \in 1 .. Len(toClient'[d]) :
        \/ k \in 1 .. Len(toClient[d]) /\ toClient'[d][k] = toClient[d][k]
        \/ toClient'[d][k] = f
  BY <1>1, <1>3
<1>5. \A c \in Circuit : \A k \in 1 .. Len(toClient[c]) : toClient[c][k] \in DownFrame
  BY <1>1
<1> QED
  BY <1>2, <1>4, <1>5 DEF NoLie

(* What the client already holds.                                           *)
LEMMA AnswersStayRight ==
  ASSUME TypeInv, Stays, NEW s \in StreamId, NEW q \in Seq(DownOf(dest[s]))
  PROVE  q \in Seq(DownOf(dest'[s]))
<1>1. CASE dest[s] \in Host
  BY <1>1 DEF Stays
<1>2. CASE dest[s] \notin Host
  <2>1. DownOf(dest[s]) = {}
    BY <1>2 DEF DownOf, DownData
  <2> QED
    BY <2>1, SeqMonotone
<1> QED
  BY <1>1, <1>2


LEMMA ClientOldFrames ==
  ASSUME TypeInv, ClientNext \/ CutStep
  PROVE  OldFrames
<1>1. CASE CutStep
  BY <1>1, OldKept DEF CutStep, Cut
<1>2. ASSUME NEW h \in Host, Register(h)
      PROVE  OldFrames
  BY <1>2, OldKept DEF Register, wireVars
<1>3. ASSUME NEW s \in StreamId, HandlerStep(s)
      PROVE  OldFrames
  <2>1. UNCHANGED toClient
    BY <1>3 DEF HandlerStep, SendOpen, SendOpenRaises, BecomeReady, BrowserLeft,
                OpenTimeout, BrowserSend, BrowserRecv, EndStream, Send, SendLost,
                SendRaises, wireVars
  <2> QED
    BY <2>1, OldKept
<1>4. ASSUME RunnerStep \/ \E c \in Circuit : CircuitLost(c)
      PROVE  OldFrames
  <2>1. CASE RunnerReopens
    <3>1. circuit \in Circuit
      BY <2>1 DEF RunnerReopens, TypeInv, TypeOK, ClientTypeOK
    <3> QED
      BY <2>1, <3>1, OldShorter DEF RunnerReopens
  <2>2. ASSUME NEW c \in Circuit, OpenTunnel(c)
        PROVE  OldFrames
    BY <2>2, OldKept DEF OpenTunnel
  <2>3. ASSUME NEW c \in Circuit, Dispatch(c)
        PROVE  OldFrames
    BY <2>3, OldShorter DEF Dispatch
  <2>4. ASSUME NEW c \in Circuit, CircuitLost(c)
        PROVE  OldFrames
    BY <2>4, OldShorter DEF CircuitLost
  <2>5. CASE OpenTunnelRaises
    BY <2>5, OldKept DEF OpenTunnelRaises, wireVars
  <2> QED
    BY <1>4, <2>1, <2>2, <2>3, <2>4, <2>5 DEF RunnerStep
<1> QED
  BY <1>1, <1>2, <1>3, <1>4 DEF ClientNext

LEMMA ExitNoLie ==
  ASSUME TypeInv, BindInv, SocketsMade, StoppedCut, Stays, ExitNext, UNCHANGED clientVars
  PROVE  NoLie
<1>1. ASSUME NEW c \in Circuit, Accept(c) \/ LoopStep(c)
      PROVE  NoLie
  <2>1. UNCHANGED toClient
    BY <1>1 DEF Accept, LoopStep, RecvOpen, RecvData, RecvClose, Recv, WriteRemote,
         WriteFails, Park, TunnelEOF, CleanupNext, CleanupClose, Return, TunnelReset, LoseRest, wireVars
  <2> QED
    BY <2>1, OldKept, NoLieOld
<1>2. ASSUME NEW i \in StreamId, OpenerStep(i) \/ ReaderStep(i)
      PROVE  NoLie
  <2>1. CASE SendReady(i) /\ SendMux(openCirc[i], ReadyFrame(boundSid[i]))
    <3>1. openCirc[i] \in Circuit /\ boundSid[i] \in StreamId /\ sock[i] # "none"
      BY <2>1 DEF SendReady, TypeInv, OpenersSet, SocketsMade
    <3>2. boundSid[i] \in ConnectedStreams'
      <4>1. ~Stopped(openCirc[i])
        BY <2>1, <3>1 DEF SendMux, StoppedCut
      <4> QED
        BY <3>1, <4>1, SocketConnects, StaysConnected
    <3>3. PICK f : f = ReadyFrame(boundSid[i])
      OBVIOUS
    <3>4. f \in DownFrame /\ f.sid = boundSid[i] /\ f.cmd = "READY"
      BY <3>1, <3>3, DownFrames DEF ReadyFrame
    <3>5. Honest(f)'
      <4>1. f.sid \in ConnectedStreams'
        BY <2>1, <3>2, <3>4 DEF SendReady, openerVars
      <4> QED
        BY <3>4, <4>1 DEF Honest
    <3>6. SendMux(openCirc[i], f)
      BY <2>1, <3>3
    <3> QED
      BY <3>1, <3>4, <3>5, <3>6, NoLieSent
  <2>2. CASE RemoteData(i)
    <3> DEFINE d == [from |-> boundHost[i], n |-> answers[i] + 1]
    <3>0. PICK f : f = DataFrame(boundSid[i], d)
      OBVIOUS
    <3>1. sock[i] # "none" /\ answers[i] < MaxDown /\ SendMux(openCirc[i], f)
      BY <2>2, <3>0 DEF RemoteData
    <3>2. openCirc[i] \in Circuit /\ boundSid[i] \in StreamId
      BY <3>1 DEF TypeInv, OpenersSet
    <3>3. boundHost[i] \in Host /\ boundHost[i] = dest[boundSid[i]]
      <4>1. ~Stopped(openCirc[i])
        BY <3>1, <3>2 DEF SendMux, StoppedCut
      <4> QED
        BY <3>1, <4>1, SocketConnects
    <3>4. d \in DownData
      BY <3>1, <3>3, TunnelWireAssumption DEF DownData, TypeInv, TypeOK, ExitTypeOK
    <3>5. f \in DownFrame
      BY <3>0, <3>2, <3>4, DownFrames
    <3>6. f.cmd = "DATA" /\ f.sid = boundSid[i] /\ f.data.from = boundHost[i]
      BY <3>0 DEF DataFrame
    <3> HIDE DEF d
    <3>7. Honest(f)'
      BY <3>2, <3>3, <3>6 DEF Honest, Stays
    <3> QED
      BY <3>1, <3>2, <3>5, <3>7, NoLieSent
  <2>3. CASE /\ ~(SendReady(i) /\ SendMux(openCirc[i], ReadyFrame(boundSid[i])))
             /\ ~RemoteData(i)
    <3>1. UNCHANGED toClient
      BY <1>2, <2>3 DEF OpenerStep, Bind, BindDies, ConnectOk, ConnectFails, OpenFails,
           Flush, FlushFails, SendReady, SendMuxLost, ReadyFails, ReaderStep, RemoteEnds, ReaderStops,
           ReaderExits, SendMuxFails, wireVars
    <3> QED
      BY <3>1, OldKept, NoLieOld
  <2> QED
    BY <2>1, <2>2, <2>3
<1> QED
  BY <1>1, <1>2 DEF ExitNext

LEMMA DownKeptByQueues ==
  ASSUME TypeInv, Stays, AnswersRight,
         \A s \in StreamId : queue'[s] \in {queue[s], <<>>} /\ got'[s] = got[s]
  PROVE  AnswersRight'
<1> SUFFICES ASSUME NEW s \in StreamId
             PROVE  queue'[s] \in Seq(DownOf(dest'[s])) /\ got'[s] \in Seq(DownOf(dest'[s]))
  BY DEF AnswersRight, DownOf
<1>1. queue[s] \in Seq(DownOf(dest'[s])) /\ got[s] \in Seq(DownOf(dest'[s]))
  BY AnswersStayRight DEF AnswersRight
<1>2. <<>> \in Seq(DownOf(dest'[s]))
  OBVIOUS
<1>3. queue'[s] \in {queue[s], <<>>} /\ got'[s] = got[s]
  OBVIOUS
<1> QED
  BY <1>1, <1>2, <1>3

LEMMA DispatchAnswers ==
  ASSUME TypeInv, Stays, FramesHonest, AnswersRight, NEW c \in Circuit, Dispatch(c)
  PROVE  AnswersRight'
<1> DEFINE f == Head(toClient[c])
<1>1. /\ toClient[c] # <<>>
      /\ queue' = IF f.cmd = "DATA" /\ registered[f.sid]
                  THEN [queue EXCEPT ![f.sid] = Append(@, f.data)] ELSE queue
      /\ UNCHANGED <<got, dest>>
  BY DEF Dispatch, handlerVars
<1>2. toClient[c] \in Seq(DownFrame)
  BY DEF TypeInv, TypeOK, WireTypeOK
<1>3. f \in DownFrame /\ f = toClient[c][1] /\ 1 \in 1 .. Len(toClient[c])
  BY <1>1, <1>2
<1>4. Honest(f)
  BY <1>3 DEF FramesHonest
<1> HIDE DEF f
<1>5. f.sid \in StreamId /\ (f.cmd = "DATA" => f.data \in DownOf(dest[f.sid]))
  BY <1>3, <1>4, DownFrames DEF Honest, DownOf
<1>6. \A s \in StreamId : queue'[s] \in Seq(DownOf(dest[s]))
  <2>1. CASE f.cmd = "DATA" /\ registered[f.sid]
    <3>1. \A s \in StreamId :
            queue'[s] = IF s = f.sid THEN Append(queue[s], f.data) ELSE queue[s]
      BY <1>1, <2>1 DEF TypeInv, TypeOK, ClientTypeOK
    <3>2. Append(queue[f.sid], f.data) \in Seq(DownOf(dest[f.sid]))
      BY <1>5, <2>1, SeqAppend DEF AnswersRight
    <3> QED
      BY <3>1, <3>2 DEF AnswersRight
  <2>2. CASE ~(f.cmd = "DATA" /\ registered[f.sid])
    BY <1>1, <2>2 DEF AnswersRight
  <2> QED
    BY <2>1, <2>2
<1> QED
  BY <1>1, <1>6 DEF AnswersRight, DownOf

LEMMA BrowserRecvAnswers ==
  ASSUME TypeInv, AnswersRight, NEW s \in StreamId, BrowserRecv(s)
  PROVE  AnswersRight'
<1>1. /\ queue[s] # <<>>
      /\ got' = [got EXCEPT ![s] = Append(@, Head(queue[s]))]
      /\ queue' = [queue EXCEPT ![s] = Tail(@)]
      /\ UNCHANGED dest
  BY DEF BrowserRecv
<1>2. queue[s] \in Seq(DownOf(dest[s])) /\ got[s] \in Seq(DownOf(dest[s]))
  BY DEF AnswersRight
<1>3. Head(queue[s]) \in DownOf(dest[s]) /\ Tail(queue[s]) \in Seq(DownOf(dest[s]))
  BY <1>1, <1>2, SeqHeadTail
<1>4. Append(got[s], Head(queue[s])) \in Seq(DownOf(dest[s]))
  BY <1>2, <1>3, SeqAppend
<1>5. \A t \in StreamId :
        /\ got'[t] = IF t = s THEN Append(got[s], Head(queue[s])) ELSE got[t]
        /\ queue'[t] = IF t = s THEN Tail(queue[s]) ELSE queue[t]
  BY <1>1 DEF TypeInv, TypeOK, ClientTypeOK
<1> QED
  BY <1>1, <1>3, <1>4, <1>5 DEF AnswersRight, DownOf

LEMMA AnswersStep ==
  ASSUME TypeInv, BindInv, DownInv, Stays, [Next]_vars
  PROVE  AnswersRight'
<1> USE DEF DownInv
<1>0. CASE UNCHANGED vars \/ CutStep \/ (ExitNext /\ UNCHANGED clientVars)
  <2>1. UNCHANGED <<queue, got>>
    BY <1>0 DEF vars, CutStep, clientVars, tableVars, handlerVars
  <2> QED
    BY <2>1, DownKeptByQueues
<1>1. CASE \/ \E h \in Host : Register(h)
           \/ OpenTunnelRaises \/ RunnerReopens
           \/ \E c \in Circuit : OpenTunnel(c) \/ CircuitLost(c)
  <2>1. UNCHANGED <<queue, got>>
    BY <1>1 DEF tableVars, handlerVars, Register, OpenTunnelRaises, RunnerReopens,
                OpenTunnel, CircuitLost
  <2> QED
    BY <2>1, DownKeptByQueues
<1>2. ASSUME NEW s \in StreamId, HandlerStep(s)
      PROVE  AnswersRight'
  <2>1. CASE BrowserRecv(s)
    BY <2>1, BrowserRecvAnswers
  <2>2. CASE ~BrowserRecv(s)
    <3>1. \A t \in StreamId : queue'[t] \in {queue[t], <<>>} /\ got'[t] = got[t]
      BY <1>2, <2>2 DEF HandlerStep, SendOpen, SendOpenRaises, BecomeReady, BrowserLeft,
           OpenTimeout, BrowserSend, EndStream, Unregister, tableVars,
           TypeInv, TypeOK, ClientTypeOK
    <3> QED
      BY <3>1, DownKeptByQueues
  <2> QED
    BY <2>1, <2>2
<1>3. ASSUME NEW c \in Circuit, Dispatch(c)
      PROVE  AnswersRight'
  BY <1>3, DispatchAnswers
<1>4. ASSUME ClientNext
      PROVE  AnswersRight'
  BY <1>1, <1>2, <1>3, <1>4 DEF ClientNext, RunnerStep
<1> QED
  BY <1>0, <1>4 DEF Next


LEMMA ReadyKept ==
  ASSUME TypeInv, BindInv, Stays, ReadyConnected,
         \A s \in StreamId :
           ready'[s] \/ handler'[s] \in {"relay", "ended"} =>
             s \in ConnectedStreams \/ s \in ConnectedStreams'
  PROVE  ReadyConnected'
<1>1. \A s \in ConnectedStreams : s \in ConnectedStreams'
  BY StaysConnected
<1> QED
  BY <1>1 DEF ReadyConnected

LEMMA DispatchReady ==
  ASSUME TypeInv, BindInv, Stays, FramesHonest, ReadyConnected, NEW c \in Circuit,
         Dispatch(c)
  PROVE  ReadyConnected'
<1> DEFINE f == Head(toClient[c])
<1>1. /\ toClient[c] # <<>>
      /\ ready' = IF f.cmd = "READY" /\ registered[f.sid]
                  THEN [ready EXCEPT ![f.sid] = TRUE] ELSE ready
      /\ UNCHANGED handler
  BY DEF Dispatch, handlerVars
<1>2. toClient[c] \in Seq(DownFrame)
  BY DEF TypeInv, TypeOK, WireTypeOK
<1>3. f = toClient[c][1] /\ 1 \in 1 .. Len(toClient[c])
  BY <1>1, <1>2
<1>4. Honest(f)
  BY <1>3 DEF FramesHonest
<1> HIDE DEF f
<1>5. ASSUME NEW s \in StreamId, ready'[s] \/ handler'[s] \in {"relay", "ended"}
      PROVE  s \in ConnectedStreams
  <2>1. CASE f.cmd = "READY" /\ f.sid = s
    BY <1>4, <2>1 DEF Honest
  <2>2. CASE ~(f.cmd = "READY" /\ f.sid = s)
    <3>1. ready'[s] = ready[s]
      BY <1>1, <2>2 DEF TypeInv, TypeOK, ClientTypeOK
    <3> QED
      BY <1>1, <1>5, <3>1 DEF ReadyConnected
  <2> QED
    BY <2>1, <2>2
<1> QED
  BY <1>5, ReadyKept

LEMMA ReadyStep ==
  ASSUME TypeInv, BindInv, DownInv, Stays, [Next]_vars
  PROVE  ReadyConnected'
<1> USE DEF DownInv
<1>0. CASE UNCHANGED vars \/ CutStep \/ (ExitNext /\ UNCHANGED clientVars)
  <2>1. UNCHANGED <<ready, handler>>
    BY <1>0 DEF vars, CutStep, clientVars, tableVars, handlerVars
  <2> QED
    BY <2>1, ReadyKept DEF ReadyConnected
<1>1. CASE \/ OpenTunnelRaises \/ RunnerReopens
           \/ \E c \in Circuit : OpenTunnel(c) \/ CircuitLost(c)
  <2>1. UNCHANGED <<ready, handler>>
    BY <1>1 DEF tableVars, handlerVars, OpenTunnelRaises, RunnerReopens, OpenTunnel,
                CircuitLost
  <2> QED
    BY <2>1, ReadyKept DEF ReadyConnected
<1>2. ASSUME NEW c \in Circuit, Dispatch(c)
      PROVE  ReadyConnected'
  BY <1>2, DispatchReady
<1>3. ASSUME NEW h \in Host, Register(h)
      PROVE  ReadyConnected'
  <2>1. UNCHANGED ready /\ handler' = [handler EXCEPT ![nextId] = "sendopen"]
    BY <1>3 DEF Register, MoveTo
  <2> QED
    BY <2>1, ReadyKept DEF ReadyConnected, TypeInv, TypeOK, ClientTypeOK
<1>4. ASSUME NEW s \in StreamId, HandlerStep(s)
      PROVE  ReadyConnected'
  <2>1. UNCHANGED ready
    BY <1>4 DEF HandlerStep, SendOpen, SendOpenRaises, BecomeReady, BrowserLeft,
         OpenTimeout, BrowserSend, BrowserRecv, EndStream, tableVars
  <2>2. \A t \in StreamId : handler'[t] \in {"relay", "ended"} =>
          handler[t] \in {"relay", "ended"} \/ ready[t]
    BY <1>4 DEF HandlerStep, SendOpen, SendOpenRaises, BecomeReady, BrowserLeft,
         OpenTimeout, BrowserSend, BrowserRecv, EndStream, MoveTo,
         TypeInv, TypeOK, ClientTypeOK
  <2> QED
    BY <2>1, <2>2, ReadyKept DEF ReadyConnected
<1>5. ASSUME ClientNext
      PROVE  ReadyConnected'
  BY <1>1, <1>2, <1>3, <1>4, <1>5 DEF ClientNext, RunnerStep
<1> QED
  BY <1>0, <1>5 DEF Next

LEMMA SocketsStep ==
  ASSUME TypeInv, BindInv, SocketsMade, Stays, [Next]_vars
  PROVE  SocketsMade'
<1>0. CASE UNCHANGED exitVars
  BY <1>0 DEF exitVars, openerVars, socketVars, SocketsMade
<1>1. ASSUME NEW c \in Circuit, Accept(c) \/ LoopStep(c)
      PROVE  SocketsMade'
  <2>1. \A i \in StreamId : /\ opener'[i] = "flush" => opener[i] = "flush"
                            /\ reader'[i] = "run" => reader[i] = "run"
    <3>1. CASE RecvOpen(c)
      BY <3>1 DEF RecvOpen, socketVars, TypeInv, TypeOK, ExitTypeOK
    <3>2. CASE TunnelReset(c)
      BY <3>2 DEF TunnelReset, ProcessDies, openerVars
    <3>3. CASE ~RecvOpen(c) /\ ~TunnelReset(c)
      BY <1>1, <3>3 DEF Accept, LoopStep, RecvData, RecvClose, WriteRemote, WriteFails,
           Park, TunnelEOF, CleanupNext, CleanupClose, Return, openerVars, socketVars
    <3> QED
      BY <3>1, <3>2, <3>3
  <2> QED
    BY <2>1 DEF SocketsMade, Stays
<1>2. ASSUME NEW i \in StreamId, OpenerStep(i) \/ ReaderStep(i)
      PROVE  SocketsMade'
  <2>1. CASE ConnectOk(i)
    BY <2>1 DEF ConnectOk, SocketsMade, TypeInv, TypeOK, ExitTypeOK
  <2>2. CASE ~ConnectOk(i)
    <3>1. \A j \in StreamId : /\ opener'[j] = "flush" => opener[j] = "flush"
                              /\ reader'[j] = "run" => reader[j] = "run" \/ opener[j] = "flush"
      BY <1>2, <2>2
         DEF OpenerStep, Bind, BindDies, ConnectFails, OpenFails, Flush,
             FlushFails, SendReady, ReadyFails, ReaderStep, RemoteData, RemoteEnds,
             ReaderStops, ReaderExits, openerVars, socketVars, TypeInv, TypeOK, ExitTypeOK
    <3> QED
      BY <3>1 DEF SocketsMade, Stays
  <2> QED
    BY <2>1, <2>2
<1>3. CASE ExitNext
  BY <1>1, <1>2, <1>3 DEF ExitNext
<1>4. CASE UNCHANGED vars \/ CutStep
  BY <1>0, <1>4 DEF vars, CutStep
<1> QED
  BY <1>0, <1>3, <1>4 DEF Next

LEMMA StoppedCutStep ==
  ASSUME TypeInv, StoppedCut, [Next]_vars
  PROVE  StoppedCut'
<1>1. \A c \in Circuit : link[c] = "closed" => link'[c] = "closed"
  <2>1. CASE CutStep
    BY <2>1 DEF CutStep, Cut, TypeInv, TypeOK, WireTypeOK
  <2>2. ASSUME NEW d \in Circuit, OpenTunnel(d)
        PROVE  \A c \in Circuit : link[c] = "closed" => link'[c] = "closed"
    BY <2>2 DEF OpenTunnel, TypeInv, TypeOK, WireTypeOK
  <2>3. CASE UNCHANGED link
    BY <2>3
  <2>4. CASE ExitNext
    <3>1. UNCHANGED link
      BY <2>4 DEF ExitNext, Accept, LoopStep, RecvOpen, RecvData, RecvClose, Recv,
           WriteRemote, WriteFails, Park, TunnelEOF, CleanupNext, CleanupClose, Return,
           TunnelReset, LoseRest, OpenerStep, Bind, BindDies, ConnectOk, ConnectFails,
           OpenFails, Flush, FlushFails, SendReady, ReadyFails, ReaderStep, RemoteData,
           RemoteEnds, ReaderStops, ReaderExits, SendMux, SendMuxLost, SendMuxFails, wireVars
    <3> QED
      BY <3>1
  <2>5. CASE ClientNext
    <3>1. ASSUME \A d \in Circuit : ~OpenTunnel(d)
          PROVE  UNCHANGED link
      BY <2>5, <3>1 DEF ClientNext, Register, HandlerStep, SendOpen, SendOpenRaises,
           BecomeReady, BrowserLeft, OpenTimeout, BrowserSend, BrowserRecv, EndStream, Send,
           SendLost, SendRaises, RunnerStep, Dispatch, OpenTunnelRaises, RunnerReopens,
           CircuitLost, wireVars
    <3> QED
      BY <2>2, <3>1
  <2> QED
    BY <2>1, <2>3, <2>4, <2>5 DEF Next, vars, wireVars
<1>2. CASE UNCHANGED exitVars
  BY <1>1, <1>2 DEF StoppedCut, Stopped, exitVars, loopVars
<1>3. ASSUME NEW c \in Circuit, Accept(c) \/ LoopStep(c)
      PROVE  \A d \in Circuit : Stopped(d)' => Stopped(d) \/ link[d] = "closed"
  <2>1. CASE TunnelEOF(c)
    BY <2>1 DEF TunnelEOF, Stopped, TypeInv, TypeOK, ExitTypeOK
  <2>2. CASE ~TunnelEOF(c)
    BY <1>3, <2>2
       DEF Accept, EnterMux, LoopStep, RecvOpen, RecvData, RecvClose, Recv, WriteRemote,
           WriteFails, Park, CleanupNext, CleanupClose, Return, TunnelReset, Stopped,
           TypeInv, TypeOK, ExitTypeOK
  <2> QED
    BY <2>1, <2>2
<1>4. ASSUME NEW i \in StreamId, OpenerStep(i) \/ ReaderStep(i)
      PROVE  UNCHANGED loop
  BY <1>4 DEF OpenerStep, Bind, BindDies, ConnectOk, ConnectFails, OpenFails, Flush,
       FlushFails, SendReady, ReadyFails, ReaderStep, RemoteData, RemoteEnds, ReaderStops,
       ReaderExits, loopVars
<1>5. CASE ExitNext
  BY <1>1, <1>3, <1>4, <1>5 DEF ExitNext, StoppedCut, Stopped
<1> QED
  BY <1>2, <1>5 DEF Next, CutStep, vars

LEMMA RequestedStep ==
  ASSUME TypeInv, BindInv, Requested, [Next]_vars
  PROVE  Requested'
<1>0. CASE UNCHANGED <<handler, dest>>
  BY <1>0 DEF Requested
<1>1. ASSUME NEW h \in Host, Register(h)
      PROVE  Requested'
  BY <1>1 DEF Register, MoveTo, Requested, TypeInv, TypeOK, ClientTypeOK
<1>2. ASSUME NEW s \in StreamId, HandlerStep(s)
      PROVE  Requested'
  BY <1>2 DEF HandlerStep, SendOpen, SendOpenRaises, BecomeReady, BrowserLeft,
       OpenTimeout, BrowserSend, BrowserRecv, EndStream, MoveTo,
       Requested, TypeInv, TypeOK, ClientTypeOK
<1>3. CASE RunnerStep \/ \E c \in Circuit : CircuitLost(c)
  BY <1>0, <1>3 DEF RunnerStep, OpenTunnel, Dispatch, OpenTunnelRaises, RunnerReopens,
                    CircuitLost, handlerVars
<1>4. CASE UNCHANGED vars \/ CutStep \/ (ExitNext /\ UNCHANGED clientVars)
  BY <1>0, <1>4 DEF vars, CutStep, clientVars, handlerVars
<1>5. CASE ClientNext
  BY <1>1, <1>2, <1>3, <1>5 DEF ClientNext
<1> QED
  BY <1>4, <1>5 DEF Next

-------------------------------------------------------------------------------
(* DownInv is inductive together with TypeInv and BindInv.                  *)

LEMMA DownInit == Init => DownInv
BY TunnelWireAssumption
   DEF Init, WireInit, ClientInit, ExitInit, DownInv, FramesHonest, AnswersRight,
       ReadyConnected, SocketsMade, Requested, StoppedCut, Stopped

LEMMA StepStays ==
  ASSUME TypeInv, BindInv, [Next]_vars
  PROVE  Stays
<1>1. CASE UNCHANGED vars
  BY <1>1 DEF vars, clientVars, handlerVars, exitVars, openerVars, socketVars, Stays
<1>2. CASE CutStep
  BY <1>2, ClientStays DEF CutStep
<1> QED
  BY <1>1, <1>2, ClientStays, ExitStays DEF Next

LEMMA DownStep ==
  ASSUME TypeInv, BindInv, DownInv, [Next]_vars
  PROVE  DownInv'
<1>1. Stays
  BY StepStays
<1>2. NoLie
  <2>1. CASE UNCHANGED vars
    BY <2>1, OldKept, NoLieOld DEF vars, wireVars
  <2> QED
    BY <1>1, <2>1, ClientOldFrames, NoLieOld, ExitNoLie DEF Next, DownInv
<1>3. FramesHonest'
  BY <1>1, <1>2, FramesStayHonest DEF DownInv
<1>4. SocketsMade' /\ Requested' /\ StoppedCut'
  BY <1>1, SocketsStep, RequestedStep, StoppedCutStep DEF DownInv
<1> QED
  BY <1>1, <1>3, <1>4, AnswersStep, ReadyStep DEF DownInv

LEMMA DownInvariant == Spec => []DownInv
<1>1. Init => DownInv
  BY DownInit
<1>2. TypeInv /\ BindInv /\ DownInv /\ [Next]_vars => DownInv'
  BY DownStep
<1> QED
  BY <1>1, <1>2, TypeInvariant, BindInvariant, PTL DEF Spec

(* Whatever a browser reads from its stream was sent by the destination it  *)
(* asked for, although openers bind ids late and frames of replaced circuits *)
(* are still on their way.                                                  *)
THEOREM RightOriginHolds == Spec => []RightOrigin
<1>1. DownInv => RightOrigin
  <2> SUFFICES ASSUME DownInv, NEW s \in StreamId, NEW p \in Range(got[s])
               PROVE  p.from = dest[s]
    BY DEF RightOrigin
  <2>1. got[s] \in Seq(DownOf(dest[s]))
    BY DEF DownInv, AnswersRight
  <2>2. p \in DownOf(dest[s])
    BY <2>1 DEF Range
  <2> QED
    BY <2>2 DEF DownOf
<1> QED
  BY <1>1, DownInvariant, PTL

(* 200 Connection Established is only written to a browser when the exit    *)
(* has made a connection to the destination that browser asked for.         *)
THEOREM EstablishedIsConnectedHolds == Spec => []EstablishedIsConnected
<1>1. DownInv => EstablishedIsConnected
  BY DEF DownInv, ReadyConnected, EstablishedIsConnected, ConnectedStreams
<1> QED
  BY <1>1, DownInvariant, PTL

-------------------------------------------------------------------------------
(* OnceInv: payloads move from place to place and are never copied.         *)

LEMMA PlaceEqual ==
  \A a, b \in Place : a[1] = b[1] /\ a[2] = b[2] /\ a[3] = b[3] /\ a[4] = b[4] => a = b
BY DEF Place

LEMMA PlaceParts ==
  \A a \in Place : /\ a[1] \in {"wire", "hand", "parked", "queued", "written"}
                   /\ a[2] \in Nat /\ a[3] \in Nat /\ a[4] \in Nat
BY DEF Place

(* Every place that holds a payload has it from a place of its own.         *)
Moves ==
  \E f \in [Place -> Place] : \A p \in UpData :
    /\ \A a \in Place : At(p, a)' => At(p, f[a])
    /\ \A a, b \in Place : At(p, a)' /\ At(p, b)' /\ f[a] = f[b] => a = b

LEMMA MovesStep ==
  ASSUME OnceInv, Moves, \A s \in StreamId : sent[s] \in Nat /\ sent'[s] \in Nat,
         \A s \in StreamId : sent[s] <= sent'[s]
  PROVE  OnceInv'
<1>1. PICK f \in [Place -> Place] : \A p \in UpData :
        /\ \A a \in Place : At(p, a)' => At(p, f[a])
        /\ \A a, b \in Place : At(p, a)' /\ At(p, b)' /\ f[a] = f[b] => a = b
  BY DEF Moves
<1>2. ASSUME NEW p \in UpData, NEW a \in Place, NEW b \in Place, At(p, a)', At(p, b)'
      PROVE  a = b
  <2>1. f[a] \in Place /\ f[b] \in Place /\ At(p, f[a]) /\ At(p, f[b])
    BY <1>1, <1>2
  <2>2. f[a] = f[b]
    BY <2>1 DEF OnceInv, OnePlace
  <2> QED
    BY <1>1, <1>2, <2>2
<1>3. ASSUME NEW p \in UpData, NEW a \in Place, At(p, a)'
      PROVE  p.n <= sent'[p.from]
  <2>1. f[a] \in Place /\ At(p, f[a])
    BY <1>1, <1>3
  <2>2. p.n <= sent[p.from]
    BY <2>1 DEF OnceInv, WasSent
  <2>3. p.from \in StreamId /\ p.n \in Nat
    BY DEF UpData
  <2> QED
    BY <2>2, <2>3
<1>4. OnePlace'
  BY <1>2 DEF OnePlace
<1>5. WasSent'
  BY <1>3 DEF WasSent
<1> QED
  BY <1>4, <1>5 DEF OnceInv

(* Steps that move no payload; they may drop some.                          *)
Drops ==
  /\ \A c \in Circuit : \A k \in 1 .. Len(toExit'[c]) :
       toExit'[c][k].cmd = "DATA" => /\ k \in 1 .. Len(toExit[c])
                                     /\ toExit'[c][k] = toExit[c][k]
  /\ \A c \in Circuit : loop'[c] \in {"write", "park"} => /\ loop[c] = loop'[c]
                                                          /\ hand'[c] = hand[c]
  /\ UNCHANGED <<pending, queued, delivered>>

LEMMA DropsMove == Drops => Moves
<1> SUFFICES ASSUME Drops PROVE Moves
  OBVIOUS
<1> DEFINE f == [a \in Place |-> a]
<1>1. ASSUME NEW p \in UpData, NEW a \in Place, At(p, a)'
      PROVE  At(p, a)
  BY <1>1 DEF At, OnWire, InHand, Parked, Queued, Written, Drops
<1>2. f \in [Place -> Place] /\ \A a \in Place : f[a] = a
  OBVIOUS
<1> HIDE DEF f
<1> QED
  BY <1>1, <1>2 DEF Moves


LEMMA RecvShifts ==
  ASSUME TypeInv, NEW c \in Circuit, NEW cmd, Recv(c, cmd)
  PROVE  /\ toExit[c] \in Seq(UpFrame) /\ toExit[c] # <<>>
         /\ toExit'[c] = Tail(toExit[c])
         /\ \A k \in 1 .. Len(toExit'[c]) : /\ k + 1 \in 1 .. Len(toExit[c])
                                            /\ toExit'[c][k] = toExit[c][k + 1]
         /\ \A d \in Circuit : d # c => toExit'[d] = toExit[d]
         /\ loop[c] = "recv"
<1>1. toExit[c] \in Seq(UpFrame) /\ toExit[c] # <<>> /\ loop[c] = "recv"
  BY DEF Recv, TypeInv, TypeOK, WireTypeOK
<1>2. /\ toExit'[c] = Tail(toExit[c])
      /\ \A d \in Circuit : d # c => toExit'[d] = toExit[d]
  BY DEF Recv, TypeInv, TypeOK, WireTypeOK
<1> QED
  BY <1>1, <1>2, TailIndex

(* The frame at the head goes to the hands of the loop, if it carries data, *)
(* and those behind it move up.                                             *)
LEMMA RecvMoves ==
  ASSUME TypeInv, NEW c \in Circuit, NEW cmd, Recv(c, cmd),
         \/ /\ cmd = "DATA"
            /\ hand'[c].data = Head(toExit[c]).data
            /\ \A d \in Circuit : d # c => hand'[d] = hand[d] /\ loop'[d] = loop[d]
         \/ UNCHANGED <<loop, hand>>,
         UNCHANGED <<pending, queued, delivered>>
  PROVE  Moves
<1> DEFINE f == [a \in Place |->
                   IF a[1] = "wire" /\ a[2] = c THEN <<"wire", c, 0, a[4] + 1>>
                   ELSE IF a[1] = "hand" /\ a[2] = c THEN <<"wire", c, 0, 1>>
                   ELSE a]
<1>1. f \in [Place -> Place]
  BY PlaceParts DEF Place, Circuit
<1>2. \A a \in Place : f[a] = IF a[1] = "wire" /\ a[2] = c THEN <<"wire", c, 0, a[4] + 1>>
                              ELSE IF a[1] = "hand" /\ a[2] = c THEN <<"wire", c, 0, 1>>
                              ELSE a
  OBVIOUS
<1> HIDE DEF f
<1>3. /\ toExit[c] \in Seq(UpFrame) /\ toExit[c] # <<>>
      /\ \A k \in 1 .. Len(toExit'[c]) : /\ k + 1 \in 1 .. Len(toExit[c])
                                         /\ toExit'[c][k] = toExit[c][k + 1]
      /\ \A d \in Circuit : d # c => toExit'[d] = toExit[d]
      /\ loop[c] = "recv"
  BY RecvShifts
<1>4. /\ 1 \in 1 .. Len(toExit[c]) /\ toExit[c][1] = Head(toExit[c])
      /\ toExit[c][1].cmd = cmd
  BY <1>3 DEF Recv
<1>5. ASSUME NEW p \in UpData, NEW d \in Circuit, NEW k \in Nat, OnWire(p, d, k)'
      PROVE  k # 0 /\ OnWire(p, d, IF d = c THEN k + 1 ELSE k)
  BY <1>3, <1>5 DEF OnWire
<1>6. ASSUME NEW p \in UpData, NEW d \in Circuit, InHand(p, d)'
      PROVE  IF d = c THEN OnWire(p, c, 1) ELSE InHand(p, d)
  BY <1>3, <1>4, <1>6 DEF InHand, OnWire
<1>7. ASSUME NEW p \in UpData, NEW a \in Place, At(p, a)'
      PROVE  /\ At(p, f[a])
             /\ a[1] \in {"wire", "hand"} => a[2] \in Circuit /\ a[3] = 0
             /\ a[1] = "wire" => a[4] # 0
             /\ a[1] = "hand" => a[4] = 0
  <2>1. CASE a[1] = "wire"
    <3>1. a[2] \in Circuit /\ a[3] = 0 /\ OnWire(p, a[2], a[4])'
      BY <1>7, <2>1 DEF At, OnWire
    <3>2. a[4] # 0 /\ OnWire(p, a[2], IF a[2] = c THEN a[4] + 1 ELSE a[4])
      BY <1>5, <3>1, PlaceParts
    <3>3. CASE a[2] = c
      <4>1. f[a] = <<"wire", c, 0, a[4] + 1>> /\ OnWire(p, c, a[4] + 1)
        BY <1>2, <2>1, <3>2, <3>3
      <4>2. At(p, <<"wire", c, 0, a[4] + 1>>)
        BY <4>1 DEF At
      <4> QED
        BY <2>1, <3>1, <3>2, <4>1, <4>2
    <3>4. CASE a[2] # c
      BY <1>2, <2>1, <3>1, <3>2, <3>4 DEF At
    <3> QED
      BY <3>3, <3>4
  <2>2. CASE a[1] = "hand"
    <3>1. a[2] \in Circuit /\ a[3] = 0 /\ a[4] = 0 /\ InHand(p, a[2])'
      BY <1>7, <2>2 DEF At, InHand
    <3> QED
      BY <1>2, <1>6, <2>2, <3>1 DEF At
  <2>3. CASE a[1] \notin {"wire", "hand"}
    BY <1>2, <1>7, <2>3 DEF At, Parked, Queued, Written
  <2> QED
    BY <2>1, <2>2, <2>3
<1>8. ASSUME NEW p \in UpData, NEW a \in Place, NEW b \in Place, At(p, a)', At(p, b)',
             f[a] = f[b]
      PROVE  a = b
  <2> DEFINE Shifts(x) == x[1] \in {"wire", "hand"} /\ x[2] = c
  <2>1. ASSUME NEW x \in {a, b}
        PROVE  IF Shifts(x)
               THEN /\ f[x] = <<"wire", c, 0, IF x[1] = "wire" THEN x[4] + 1 ELSE 1>>
                    /\ x[3] = 0 /\ (x[1] = "hand" => x[4] = 0) /\ (x[1] = "wire" => x[4] # 0)
               ELSE f[x] = x
    BY ZenonT(60), <1>2, <1>7, <1>8
  <2>2. a[4] \in Nat /\ b[4] \in Nat
    BY PlaceParts
  <2>3. CASE Shifts(a) /\ Shifts(b)
    <3>1. (IF a[1] = "wire" THEN a[4] + 1 ELSE 1) = (IF b[1] = "wire" THEN b[4] + 1 ELSE 1)
      BY <1>8, <2>1, <2>3
    <3> QED
      BY <2>1, <2>2, <2>3, <3>1, PlaceEqual
  <2>4. CASE Shifts(a) /\ ~Shifts(b)
    <3>1. b = <<"wire", c, 0, IF a[1] = "wire" THEN a[4] + 1 ELSE 1>>
      BY <1>8, <2>1, <2>4
    <3> QED
      BY <2>4, <3>1
  <2>5. CASE ~Shifts(a) /\ Shifts(b)
    <3>1. a = <<"wire", c, 0, IF b[1] = "wire" THEN b[4] + 1 ELSE 1>>
      BY <1>8, <2>1, <2>5
    <3> QED
      BY <2>5, <3>1
  <2>6. CASE ~Shifts(a) /\ ~Shifts(b)
    BY <1>8, <2>1, <2>6
  <2> QED
    BY <2>3, <2>4, <2>5, <2>6
<1> QED
  BY <1>1, <1>7, <1>8 DEF Moves

(* One payload goes from src to new, where none was.                        *)
LEMMA OneMoves ==
  ASSUME NEW src \in Place, NEW new \in Place,
         \A p \in UpData : \A a \in Place :
           At(p, a)' => a # src /\ IF a = new THEN At(p, src) ELSE At(p, a)
  PROVE  Moves
<1> DEFINE f == [a \in Place |-> IF a = new THEN src ELSE a]
<1>1. f \in [Place -> Place] /\ \A a \in Place : f[a] = IF a = new THEN src ELSE a
  OBVIOUS
<1> HIDE DEF f
<1> QED
  BY <1>1 DEF Moves

LEMMA AppendLast ==
  ASSUME NEW S, NEW q \in Seq(S), NEW e
  PROVE  /\ Len(q) \in Nat
         /\ Len(Append(q, e)) = Len(q) + 1
         /\ \A k \in 1 .. Len(q) + 1 :
              Append(q, e)[k] = IF k = Len(q) + 1 THEN e ELSE q[k]
OBVIOUS

(* The payload in the hands of the loop is written or parked.               *)
LEMMA WriteMoves ==
  ASSUME TypeInv, NEW c \in Circuit, WriteRemote(c)
  PROVE  Moves
<1> DEFINE j == hand[c].conn
           n == Len(delivered[j]) + 1
<1>1. j \in StreamId /\ delivered[j] \in Seq(UpData) /\ loop[c] = "write"
  BY DEF WriteRemote, TypeInv, TypeOK, ExitTypeOK, LoopsSet
<1>2. /\ \A i \in StreamId : delivered'[i] = IF i = j THEN Append(delivered[j], hand[c].data)
                                             ELSE delivered[i]
      /\ \A d \in Circuit : loop'[d] = IF d = c THEN "recv" ELSE loop[d]
      /\ \A d \in Circuit : d # c => hand'[d] = hand[d]
      /\ UNCHANGED <<toExit, pending, queued>>
  BY <1>1 DEF WriteRemote, Deliver, wireVars, openerVars, TypeInv, TypeOK, ExitTypeOK
<1>3. n \in Nat
  BY <1>1
<1>4. ASSUME NEW p \in UpData, NEW i \in StreamId, NEW k \in Nat, Written(p, i, k)'
      PROVE  IF i = j /\ k = n THEN InHand(p, c) ELSE Written(p, i, k)
  <2>1. CASE i = j
    <3>1. delivered'[j] = Append(delivered[j], hand[c].data)
      BY <1>1, <1>2
    <3>2. k \in 1 .. n /\ p = IF k = n THEN hand[c].data ELSE delivered[j][k]
      BY <1>1, <1>4, <2>1, <3>1, AppendLast DEF Written
    <3> QED
      BY <1>1, <1>3, <2>1, <3>2 DEF Written, InHand
  <2>2. CASE i # j
    BY <1>2, <1>4, <2>2 DEF Written
  <2> QED
    BY <2>1, <2>2
<1>5. ASSUME NEW p \in UpData, NEW d \in Circuit, InHand(p, d)'
      PROVE  d # c /\ InHand(p, d)
  BY <1>2, <1>5 DEF InHand
<1>6. PICK i0, n0 : i0 = j /\ n0 = n
  OBVIOUS
<1> DEFINE src == <<"hand", c, 0, 0>>
           new == <<"written", i0, 0, n0>>
<1>7. src \in Place /\ new \in Place
  BY <1>1, <1>3, <1>6 DEF Place, Circuit, StreamId
<1>8. ASSUME NEW p \in UpData, NEW a \in Place, At(p, a)'
      PROVE  a # src /\ IF a = new THEN At(p, src) ELSE At(p, a)
  <2>1. CASE a[1] = "written"
    <3>1. a[2] \in StreamId /\ a[3] = 0 /\ Written(p, a[2], a[4])'
      BY <1>8, <2>1 DEF At, Written
    <3>2. IF a[2] = i0 /\ a[4] = n0 THEN InHand(p, c) ELSE Written(p, a[2], a[4])
      BY <1>4, <1>6, <3>1, PlaceParts
    <3>3. a = new <=> a[2] = i0 /\ a[4] = n0
      BY <1>7, <2>1, <3>1, PlaceEqual
    <3> QED
      BY <2>1, <3>1, <3>2, <3>3 DEF At
  <2>2. CASE a[1] = "hand"
    <3>1. a[2] \in Circuit /\ a[3] = 0 /\ a[4] = 0 /\ InHand(p, a[2])'
      BY <1>8, <2>2 DEF At, InHand
    <3> QED
      BY <1>5, <2>2, <3>1 DEF At
  <2>3. CASE a[1] \notin {"written", "hand"}
    BY <1>2, <1>8, <2>3 DEF At, OnWire, Parked, Queued
  <2> QED
    BY <2>1, <2>2, <2>3
<1> QED
  BY <1>7, <1>8, OneMoves

LEMMA ParkMoves ==
  ASSUME TypeInv, NEW c \in Circuit, Park(c)
  PROVE  Moves
<1> DEFINE s == cur[c].sid
           n == Len(pending[c][s]) + 1
<1>1. s \in StreamId /\ pending[c][s] \in Seq(UpData) /\ loop[c] = "park"
  BY DEF Park, TypeInv, TypeOK, ExitTypeOK, LoopsSet
<1>2. /\ \A d \in Circuit, t \in StreamId :
           pending'[d][t] = IF d = c /\ t = s THEN Append(pending[c][s], hand[c].data)
                            ELSE pending[d][t]
      /\ \A d \in Circuit : loop'[d] = IF d = c THEN "recv" ELSE loop[d]
      /\ \A d \in Circuit : d # c => hand'[d] = hand[d]
      /\ UNCHANGED <<toExit, queued, delivered>>
  BY <1>1 DEF Park, wireVars, openerVars, socketVars, TypeInv, TypeOK, ExitTypeOK
<1>3. n \in Nat
  BY <1>1
<1>4. ASSUME NEW p \in UpData, NEW d \in Circuit, NEW t \in StreamId, NEW k \in Nat,
             Parked(p, d, t, k)'
      PROVE  IF d = c /\ t = s /\ k = n THEN InHand(p, c) ELSE Parked(p, d, t, k)
  <2>1. CASE d = c /\ t = s
    <3>1. pending'[c][s] = Append(pending[c][s], hand[c].data)
      BY <1>1, <1>2
    <3>2. k \in 1 .. n /\ p = IF k = n THEN hand[c].data ELSE pending[c][s][k]
      BY SMTT(60), <1>1, <1>4, <2>1, <3>1, AppendLast DEF Parked
    <3> QED
      BY <1>1, <1>3, <2>1, <3>2 DEF Parked, InHand
  <2>2. CASE ~(d = c /\ t = s)
    BY <1>2, <1>4, <2>2 DEF Parked
  <2> QED
    BY <2>1, <2>2
<1>5. ASSUME NEW p \in UpData, NEW d \in Circuit, InHand(p, d)'
      PROVE  d # c /\ InHand(p, d)
  BY <1>2, <1>5 DEF InHand
<1>6. PICK s0, n0 : s0 = s /\ n0 = n
  OBVIOUS
<1> DEFINE src == <<"hand", c, 0, 0>>
           new == <<"parked", c, s0, n0>>
<1>7. src \in Place /\ new \in Place
  BY SMTT(30), <1>1, <1>3, <1>6 DEF Place, Circuit, StreamId
<1>8. ASSUME NEW p \in UpData, NEW a \in Place, At(p, a)'
      PROVE  a # src /\ IF a = new THEN At(p, src) ELSE At(p, a)
  <2>1. CASE a[1] = "parked"
    <3>1. a[2] \in Circuit /\ a[3] \in StreamId /\ Parked(p, a[2], a[3], a[4])'
      BY <1>8, <2>1 DEF At, Parked
    <3>2. IF a[2] = c /\ a[3] = s0 /\ a[4] = n0 THEN InHand(p, c)
          ELSE Parked(p, a[2], a[3], a[4])
      BY <1>4, <1>6, <3>1, PlaceParts
    <3>3. a = new <=> a[2] = c /\ a[3] = s0 /\ a[4] = n0
      BY <1>7, <2>1, <3>1, PlaceEqual
    <3> QED
      BY <2>1, <3>1, <3>2, <3>3 DEF At
  <2>2. CASE a[1] = "hand"
    <3>1. a[2] \in Circuit /\ a[3] = 0 /\ a[4] = 0 /\ InHand(p, a[2])'
      BY <1>8, <2>2 DEF At, InHand
    <3> QED
      BY <1>5, <2>2, <3>1 DEF At
  <2>3. CASE a[1] \notin {"parked", "hand"}
    BY <1>2, <1>8, <2>3 DEF At, OnWire, Queued, Written
  <2> QED
    BY <2>1, <2>2, <2>3
<1> QED
  BY <1>7, <1>8, OneMoves


(* An opener takes what was parked for its stream.                          *)
LEMMA ConnectMoves ==
  ASSUME TypeInv, NEW i \in StreamId, ConnectOk(i)
  PROVE  Moves
<1>1. PICK c \in Circuit, s \in StreamId : c = openCirc[i] /\ s = boundSid[i]
  BY DEF ConnectOk, TypeInv, OpenersSet
<1> DEFINE f == [a \in Place |-> IF a[1] = "queued" /\ a[2] = i
                                 THEN <<"parked", c, s, a[4]>> ELSE a]
<1>2. f \in [Place -> Place]
  BY PlaceParts DEF Place, Circuit, StreamId
<1>3. \A a \in Place : f[a] = IF a[1] = "queued" /\ a[2] = i
                              THEN <<"parked", c, s, a[4]>> ELSE a
  OBVIOUS
<1> HIDE DEF f
<1>4. /\ \A j \in StreamId : queued'[j] = IF j = i THEN pending[c][s] ELSE queued[j]
      /\ \A d \in Circuit, t \in StreamId :
           pending'[d][t] = IF d = c /\ t = s THEN <<>> ELSE pending[d][t]
      /\ UNCHANGED <<toExit, loop, hand, delivered>>
  BY <1>1 DEF ConnectOk, wireVars, loopVars, TypeInv, TypeOK, ExitTypeOK
<1>5. ASSUME NEW p \in UpData, NEW a \in Place, At(p, a)'
      PROVE  /\ At(p, f[a])
             /\ ~(a[1] = "parked" /\ a[2] = c /\ a[3] = s)
             /\ a[1] = "queued" => a[3] = 0
  <2>1. CASE a[1] = "queued"
    <3>1. a[3] = 0 /\ Queued(p, a[2], a[4])'
      BY <1>5, <2>1 DEF At
    <3>2. CASE a[2] = i
      <4>1. f[a] = <<"parked", c, s, a[4]>> /\ Parked(p, c, s, a[4])
        BY <1>3, <1>4, <2>1, <3>1, <3>2 DEF Queued, Parked
      <4>2. At(p, <<"parked", c, s, a[4]>>)
        BY <4>1 DEF At
      <4> QED
        BY <2>1, <3>1, <4>1, <4>2
    <3>3. CASE a[2] # i
      BY <1>3, <1>4, <2>1, <3>1, <3>3 DEF At, Queued
    <3> QED
      BY <3>2, <3>3
  <2>2. CASE a[1] = "parked"
    <3>1. Parked(p, a[2], a[3], a[4])' /\ f[a] = a
      BY <1>3, <1>5, <2>2 DEF At
    <3>2. ~(a[2] = c /\ a[3] = s)
      BY <1>4, <3>1 DEF Parked
    <3>3. Parked(p, a[2], a[3], a[4])
      BY <1>4, <3>1, <3>2 DEF Parked
    <3> QED
      BY <2>2, <3>1, <3>2, <3>3 DEF At
  <2>3. CASE a[1] \notin {"queued", "parked"}
    BY <1>3, <1>4, <1>5, <2>3 DEF At, OnWire, InHand, Written
  <2> QED
    BY <2>1, <2>2, <2>3
<1>6. ASSUME NEW p \in UpData, NEW a \in Place, NEW b \in Place, At(p, a)', At(p, b)',
             f[a] = f[b]
      PROVE  a = b
  <2> DEFINE Taken(x) == x[1] = "queued" /\ x[2] = i
  <2>1. ASSUME NEW x \in {a, b}
        PROVE  /\ IF Taken(x) THEN f[x] = <<"parked", c, s, x[4]>> /\ x[3] = 0
                              ELSE f[x] = x
               /\ ~(x[1] = "parked" /\ x[2] = c /\ x[3] = s)
    BY <1>3, <1>5, <1>6
  <2>2. CASE Taken(a) /\ Taken(b)
    <3>1. a[4] = b[4]
      BY <1>6, <2>1, <2>2
    <3> QED
      BY <2>1, <2>2, <3>1, PlaceEqual
  <2>3. CASE Taken(a) /\ ~Taken(b)
    <3>1. b = <<"parked", c, s, a[4]>>
      BY <1>6, <2>1, <2>3
    <3> QED
      BY <2>1, <3>1
  <2>4. CASE ~Taken(a) /\ Taken(b)
    <3>1. a = <<"parked", c, s, b[4]>>
      BY <1>6, <2>1, <2>4
    <3> QED
      BY <2>1, <3>1
  <2>5. CASE ~Taken(a) /\ ~Taken(b)
    BY <1>6, <2>1, <2>5
  <2> QED
    BY <2>2, <2>3, <2>4, <2>5
<1> QED
  BY <1>2, <1>5, <1>6 DEF Moves

(* The first payload an opener holds is written and the others move up.     *)
LEMMA FlushMoves ==
  ASSUME TypeInv, NEW i \in StreamId, Flush(i)
  PROVE  Moves
<1> DEFINE q == queued[i]
           r == delivered[i]
<1>1. q \in Seq(UpData) /\ r \in Seq(UpData) /\ q # <<>>
  BY DEF Flush, TypeInv, TypeOK, ExitTypeOK
<1>2. PICK n \in Nat : n = Len(r) + 1
  BY <1>1
<1>3. /\ \A j \in StreamId : /\ delivered'[j] = IF j = i THEN Append(r, Head(q))
                                                ELSE delivered[j]
                             /\ queued'[j] = IF j = i THEN Tail(q) ELSE queued[j]
      /\ UNCHANGED <<toExit, loop, hand, pending>>
  BY DEF Flush, Deliver, wireVars, loopVars, TypeInv, TypeOK, ExitTypeOK
<1>4. /\ \A k \in 1 .. Len(Tail(q)) : k + 1 \in 1 .. Len(q) /\ Tail(q)[k] = q[k + 1]
      /\ 1 \in 1 .. Len(q) /\ q[1] = Head(q)
  BY <1>1, TailIndex
<1>5. ASSUME NEW p \in UpData, NEW j \in StreamId, NEW k \in Nat, Queued(p, j, k)'
      PROVE  k # 0 /\ Queued(p, j, IF j = i THEN k + 1 ELSE k)
  <2>1. CASE j = i
    <3>1. queued'[i] = Tail(q) /\ queued[i] = q
      BY <1>3
    <3> HIDE DEF q
    <3> QED
      BY <1>4, <1>5, <2>1, <3>1 DEF Queued
  <2>2. CASE j # i
    BY <1>3, <1>5, <2>2 DEF Queued
  <2> QED
    BY <2>1, <2>2
<1>6. ASSUME NEW p \in UpData, NEW j \in StreamId, NEW k \in Nat, Written(p, j, k)'
      PROVE  IF j = i /\ k = n THEN Queued(p, i, 1) ELSE Written(p, j, k)
  <2>1. CASE j = i
    <3>1. delivered'[i] = Append(r, Head(q))
      BY <1>3
    <3> HIDE DEF q, r
    <3>2. k \in 1 .. n /\ p = IF k = n THEN Head(q) ELSE r[k]
      BY <1>1, <1>2, <1>6, <2>1, <3>1, AppendLast DEF Written
    <3> QED
      BY <1>1, <1>2, <1>4, <2>1, <3>2 DEF Queued, Written, q, r
  <2>2. CASE j # i
    BY <1>3, <1>6, <2>2 DEF Written
  <2> QED
    BY <2>1, <2>2
<1> HIDE DEF q, r
<1> DEFINE new == <<"written", i, 0, n>>
           f == [a \in Place |-> IF a = new THEN <<"queued", i, 0, 1>>
                                 ELSE IF a[1] = "queued" /\ a[2] = i
                                 THEN <<"queued", i, 0, a[4] + 1>> ELSE a]
<1>7. f \in [Place -> Place] /\ new \in Place
  BY PlaceParts DEF Place, StreamId
<1>8. \A a \in Place : f[a] = IF a = new THEN <<"queued", i, 0, 1>>
                              ELSE IF a[1] = "queued" /\ a[2] = i
                              THEN <<"queued", i, 0, a[4] + 1>> ELSE a
  OBVIOUS
<1>a. new[1] = "written" /\ new[2] = i /\ new[3] = 0 /\ new[4] = n
  OBVIOUS
<1> HIDE DEF f, new
<1>9. ASSUME NEW p \in UpData, NEW a \in Place, At(p, a)'
      PROVE  /\ At(p, f[a])
             /\ a[1] = "queued" => a[3] = 0 /\ a[4] # 0
  <2>1. CASE a[1] = "queued"
    <3>0. a # new
      BY <1>a, <2>1
    <3>1. a[2] \in StreamId /\ a[3] = 0 /\ Queued(p, a[2], a[4])'
      BY <1>9, <2>1 DEF At, Queued
    <3>2. a[4] # 0 /\ Queued(p, a[2], IF a[2] = i THEN a[4] + 1 ELSE a[4])
      BY <1>5, <3>1, PlaceParts
    <3>3. CASE a[2] = i
      <4>1. f[a] = <<"queued", i, 0, a[4] + 1>> /\ Queued(p, i, a[4] + 1)
        BY <1>8, <2>1, <3>0, <3>2, <3>3
      <4>2. At(p, <<"queued", i, 0, a[4] + 1>>)
        BY <4>1 DEF At
      <4> QED
        BY <3>1, <3>2, <4>1, <4>2
    <3>4. CASE a[2] # i
      BY <1>8, <2>1, <3>0, <3>1, <3>2, <3>4 DEF At
    <3> QED
      BY <3>3, <3>4
  <2>2. CASE a[1] = "written"
    <3>1. a[2] \in StreamId /\ a[3] = 0 /\ Written(p, a[2], a[4])'
      BY <1>9, <2>2 DEF At, Written
    <3>2. IF a[2] = i /\ a[4] = n THEN Queued(p, i, 1) ELSE Written(p, a[2], a[4])
      BY <1>6, <3>1, PlaceParts
    <3>3. a = new <=> a[2] = i /\ a[4] = n
      BY <1>7, <1>a, <2>2, <3>1, PlaceEqual
    <3>4. CASE a = new
      <4>1. At(p, <<"queued", i, 0, 1>>)
        BY <3>2, <3>3, <3>4 DEF At
      <4> QED
        BY <1>8, <2>2, <3>4, <4>1
    <3>5. CASE a # new
      BY <1>8, <2>2, <3>1, <3>2, <3>3, <3>5 DEF At
    <3> QED
      BY <3>4, <3>5
  <2>3. CASE a[1] \notin {"queued", "written"}
    <3>1. f[a] = a
      BY <1>8, <1>a, <2>3
    <3>2. At(p, a)
      BY <1>3, <1>9, <2>3 DEF At, OnWire, InHand, Parked
    <3> QED
      BY <2>3, <3>1, <3>2
  <2> QED
    BY <2>1, <2>2, <2>3
<1>10. ASSUME NEW p \in UpData, NEW a \in Place, NEW b \in Place, At(p, a)', At(p, b)',
              f[a] = f[b]
       PROVE  a = b
  <2> DEFINE Shifts(x) == x = new \/ (x[1] = "queued" /\ x[2] = i)
  <2>1. ASSUME NEW x \in {a, b}
        PROVE  IF Shifts(x)
               THEN /\ f[x] = <<"queued", i, 0, IF x = new THEN 1 ELSE x[4] + 1>>
                    /\ x # new => x[3] = 0 /\ x[4] # 0
               ELSE f[x] = x
    BY ZenonT(30), <1>8, <1>9, <1>10
  <2>2. a[4] \in Nat /\ b[4] \in Nat
    BY PlaceParts
  <2>3. CASE Shifts(a) /\ Shifts(b)
    <3>1. (IF a = new THEN 1 ELSE a[4] + 1) = (IF b = new THEN 1 ELSE b[4] + 1)
      BY <1>10, <2>1, <2>3
    <3>2. (a = new /\ b = new) \/ (a # new /\ b # new /\ a[4] = b[4])
      BY <2>1, <2>2, <2>3, <3>1
    <3> QED
      BY <2>1, <2>3, <3>2, PlaceEqual
  <2>4. CASE Shifts(a) /\ ~Shifts(b)
    <3>1. b = <<"queued", i, 0, IF a = new THEN 1 ELSE a[4] + 1>>
      BY <1>10, <2>1, <2>4
    <3> QED
      BY <2>4, <3>1
  <2>5. CASE ~Shifts(a) /\ Shifts(b)
    <3>1. a = <<"queued", i, 0, IF b = new THEN 1 ELSE b[4] + 1>>
      BY <1>10, <2>1, <2>5
    <3> QED
      BY <2>5, <3>1
  <2>6. CASE ~Shifts(a) /\ ~Shifts(b)
    BY <1>10, <2>1, <2>6
  <2> QED
    BY <2>3, <2>4, <2>5, <2>6
<1> QED
  BY <1>7, <1>9, <1>10 DEF Moves


LEMMA SendGrows ==
  ASSUME TypeInv, NEW f, Send(f)
  PROVE  /\ circuit \in Circuit
         /\ \A c \in Circuit : c # circuit => toExit'[c] = toExit[c]
         /\ toExit[circuit] \in Seq(UpFrame)
         /\ toExit'[circuit] = Append(toExit[circuit], f)
BY DEF Send, CircuitUp, TypeInv, TypeOK, WireTypeOK, ClientTypeOK

(* What is on the wire when a frame without data is sent or none is.        *)
LEMMA SendDrops ==
  ASSUME TypeInv, NEW f, f.cmd # "DATA", Send(f) \/ UNCHANGED toExit,
         UNCHANGED exitVars
  PROVE  Drops
<1>1. ASSUME NEW c \in Circuit, NEW k \in 1 .. Len(toExit'[c]), toExit'[c][k].cmd = "DATA"
      PROVE  k \in 1 .. Len(toExit[c]) /\ toExit'[c][k] = toExit[c][k]
  <2>1. CASE Send(f) /\ c = circuit
    <3>1. toExit[c] \in Seq(UpFrame) /\ toExit'[c] = Append(toExit[c], f)
      BY <2>1, SendGrows
    <3>2. k \in 1 .. Len(toExit[c]) + 1
          /\ toExit'[c][k] = IF k = Len(toExit[c]) + 1 THEN f ELSE toExit[c][k]
      BY <1>1, <3>1, AppendLast
    <3> QED
      BY <1>1, <3>1, <3>2
  <2>2. CASE ~(Send(f) /\ c = circuit)
    <3>1. toExit'[c] = toExit[c]
      BY <2>2, SendGrows
    <3> QED
      BY <3>1
  <2> QED
    BY <2>1, <2>2
<1> QED
  BY <1>1 DEF Drops, exitVars, loopVars, openerVars, socketVars

LEMMA KeptDrops ==
  ASSUME UNCHANGED <<toExit, exitVars>>
  PROVE  Drops
BY DEF Drops, exitVars, loopVars, openerVars, socketVars

LEMMA ClientDrops ==
  ASSUME TypeInv, ClientNext \/ CutStep, \A s \in StreamId : ~BrowserSend(s),
         UNCHANGED exitVars
  PROVE  Drops /\ UNCHANGED sent
<1>1. CASE CutStep
  BY <1>1, KeptDrops DEF CutStep, Cut, clientVars, handlerVars
<1>2. ASSUME NEW h \in Host, Register(h)
      PROVE  UNCHANGED <<toExit, sent>>
  BY <1>2 DEF Register, wireVars
<1>3. ASSUME NEW s \in StreamId, HandlerStep(s)
      PROVE  Drops /\ UNCHANGED sent
  <2>1. CASE SendOpen(s)
    <3>1. PICK f : f = OpenFrame(s, dest[s])
      OBVIOUS
    <3> QED
      BY <2>1, <3>1, SendDrops DEF SendOpen, SendLost, wireVars, OpenFrame
  <2>2. CASE EndStream(s)
    <3>1. PICK f : f = CloseFrame(s)
      OBVIOUS
    <3> QED
      BY <2>2, <3>1, SendDrops DEF EndStream, SendLost, SendRaises, wireVars, CloseFrame
  <2>3. CASE ~SendOpen(s) /\ ~EndStream(s)
    <3>1. UNCHANGED <<toExit, sent>>
      BY <1>3, <2>3 DEF HandlerStep, SendOpenRaises, BecomeReady, BrowserLeft,
           OpenTimeout, BrowserRecv, SendRaises, wireVars
    <3> QED
      BY <3>1, KeptDrops
  <2> QED
    BY <2>1, <2>2, <2>3
<1>4. ASSUME RunnerStep \/ \E c \in Circuit : CircuitLost(c)
      PROVE  UNCHANGED <<toExit, sent>>
  BY <1>4 DEF RunnerStep, OpenTunnel, Dispatch, OpenTunnelRaises, RunnerReopens,
              CircuitLost, wireVars, handlerVars
<1>6. CASE ClientNext
  BY <1>2, <1>3, <1>4, <1>6, KeptDrops DEF ClientNext
<1> QED
  BY <1>1, <1>6

LEMMA OnceBrowserSend ==
  ASSUME TypeInv, OnceInv, NEW s \in StreamId, BrowserSend(s), UNCHANGED exitVars
  PROVE  OnceInv'
<1>1. PICK q : q = [from |-> s, n |-> sent[s] + 1]
  OBVIOUS
<1>2. /\ sent[s] \in Nat
      /\ \A t \in StreamId : sent'[t] = IF t = s THEN sent[s] + 1 ELSE sent[t]
      /\ \A t \in StreamId : sent[t] \in Nat
  BY TunnelWireAssumption DEF BrowserSend, TypeInv, TypeOK, ClientTypeOK
<1>3. UNCHANGED <<loop, hand, pending, queued, delivered>>
  BY DEF exitVars, loopVars, openerVars, socketVars
<1>4. CASE SendLost
  <2>1. \A p, a : At(p, a)' => At(p, a)
    BY <1>3, <1>4 DEF SendLost, wireVars, At, OnWire, InHand, Parked, Queued, Written
  <2>2. OnePlace'
    BY <2>1 DEF OnceInv, OnePlace
  <2>3. WasSent'
    <3> SUFFICES ASSUME NEW p \in UpData, NEW a \in Place, At(p, a)'
                 PROVE  p.n <= sent'[p.from]
      BY DEF WasSent
    <3>1. p.n <= sent[p.from] /\ p.n \in Nat /\ p.from \in StreamId
      BY <2>1 DEF OnceInv, WasSent, UpData
    <3> QED
      BY <1>2, <3>1
  <2> QED
    BY <2>2, <2>3 DEF OnceInv
<1>5. CASE Send(DataFrame(s, q))
  <2>1. PICK f : f = DataFrame(s, q)
    OBVIOUS
  <2>2. /\ circuit \in Circuit
        /\ \A c \in Circuit : c # circuit => toExit'[c] = toExit[c]
        /\ toExit[circuit] \in Seq(UpFrame)
        /\ toExit'[circuit] = Append(toExit[circuit], f)
    BY <1>5, <2>1, SendGrows
  <2>3. PICK n \in Nat, c \in Circuit : n = Len(toExit[circuit]) + 1 /\ c = circuit
    BY <2>2
  <2>4. PICK new : new = <<"wire", c, 0, n>>
    OBVIOUS
  <2>5. new \in Place
    BY <2>3, <2>4 DEF Place, Circuit
  <2>6. ASSUME NEW p \in UpData, NEW d \in Circuit, NEW k \in Nat, OnWire(p, d, k)'
        PROVE  IF d = c /\ k = n THEN p = q ELSE OnWire(p, d, k)
    <3>1. CASE d = c
      <4>1. k \in 1 .. n /\ toExit'[c][k] = IF k = n THEN f ELSE toExit[c][k]
        BY <2>2, <2>3, <2>6, <3>1, AppendLast DEF OnWire
      <4> QED
        BY <2>1, <2>2, <2>3, <2>6, <3>1, <4>1 DEF OnWire, DataFrame
    <3>2. CASE d # c
      BY <2>2, <2>3, <2>6, <3>2 DEF OnWire
    <3> QED
      BY <3>1, <3>2
  <2>7. ASSUME NEW p \in UpData, NEW a \in Place, At(p, a)'
        PROVE  IF a = new THEN p = q ELSE At(p, a)
    <3>1. CASE a[1] = "wire"
      <4>1. a[2] \in Circuit /\ a[3] = 0 /\ OnWire(p, a[2], a[4])'
        BY <2>7, <3>1 DEF At, OnWire
      <4>2. IF a[2] = c /\ a[4] = n THEN p = q ELSE OnWire(p, a[2], a[4])
        BY <2>6, <4>1, PlaceParts
      <4>3. a = new <=> a[2] = c /\ a[4] = n
        BY <2>4, <2>5, <3>1, <4>1, PlaceEqual
      <4> QED
        BY <3>1, <4>1, <4>2, <4>3 DEF At
    <3>2. CASE a[1] # "wire"
      <4>1. At(p, a)
        BY <1>3, <2>7, <3>2 DEF At, InHand, Parked, Queued, Written
      <4> QED
        BY <2>4, <3>2, <4>1
    <3> QED
      BY <3>1, <3>2
  <2>8. ASSUME NEW a \in Place, At(q, a), q \in UpData
        PROVE  FALSE
    <3>1. q.n <= sent[q.from]
      BY <2>8 DEF OnceInv, WasSent
    <3> QED
      BY <1>1, <1>2, <3>1
  <2>9. OnePlace'
    <3> SUFFICES ASSUME NEW p \in UpData, NEW a \in Place, NEW b \in Place,
                        At(p, a)', At(p, b)'
                 PROVE  a = b
      BY DEF OnePlace
    <3>1. CASE p = q
      BY <2>7, <2>8, <3>1
    <3>2. CASE p # q
      <4>1. At(p, a) /\ At(p, b)
        BY <2>7, <3>2
      <4> QED
        BY <4>1 DEF OnceInv, OnePlace
    <3> QED
      BY <3>1, <3>2
  <2>10. WasSent'
    <3> SUFFICES ASSUME NEW p \in UpData, NEW a \in Place, At(p, a)'
                 PROVE  p.n <= sent'[p.from]
      BY DEF WasSent
    <3>1. CASE p = q
      BY <1>1, <1>2, <3>1
    <3>2. CASE p # q
      <4>1. At(p, a)
        BY <2>7, <3>2
      <4>2. p.n <= sent[p.from] /\ p.n \in Nat /\ p.from \in StreamId
        BY <4>1 DEF OnceInv, WasSent, UpData
      <4> QED
        BY <1>2, <4>2
    <3> QED
      BY <3>1, <3>2
  <2> QED
    BY <2>9, <2>10 DEF OnceInv
<1> QED
  BY <1>1, <1>4, <1>5 DEF BrowserSend


LEMMA LoopMoves ==
  ASSUME TypeInv, NEW c \in Circuit, Accept(c) \/ LoopStep(c)
  PROVE  Moves
<1>1. CASE RecvOpen(c) \/ RecvClose(c)
  BY <1>1, RecvMoves DEF RecvOpen, RecvClose, openerVars, socketVars
<1>2. CASE RecvData(c)
  <2>1. /\ hand'[c].data = Head(toExit[c]).data
        /\ \A d \in Circuit : d # c => hand'[d] = hand[d] /\ loop'[d] = loop[d]
    BY <1>2 DEF RecvData, TypeInv, TypeOK, ExitTypeOK
  <2> QED
    BY <1>2, <2>1, RecvMoves DEF RecvData, openerVars, socketVars
<1>3. CASE WriteRemote(c)
  BY <1>3, WriteMoves
<1>4. CASE Park(c)
  BY <1>4, ParkMoves
<1>5. CASE Accept(c)
  BY <1>5, DropsMove
     DEF Accept, EnterMux, Drops, wireVars, openerVars, socketVars, TypeInv, TypeOK,
         ExitTypeOK
<1>6. CASE WriteFails(c)
  BY <1>6, DropsMove
     DEF WriteFails, Drops, wireVars, openerVars, TypeInv, TypeOK, ExitTypeOK
<1>8. CASE CleanupNext(c) \/ CleanupClose(c) \/ Return(c)
  BY <1>8, DropsMove
     DEF CleanupNext, CleanupClose, Return, Drops, wireVars, openerVars, socketVars,
         TypeInv, TypeOK, ExitTypeOK
<1>7. CASE TunnelEOF(c) \/ TunnelReset(c)
  <2>1. /\ toExit' = [toExit EXCEPT ![c] = <<>>]
        /\ \A d \in Circuit : loop'[d] \in {"write", "park"} => loop[d] = loop'[d]
        /\ UNCHANGED <<hand, pending, queued, delivered>>
    BY <1>7 DEF TunnelEOF, TunnelReset, LoseRest, ProcessDies, openerVars, socketVars,
         TypeInv, TypeOK, ExitTypeOK
  <2> QED
    BY <2>1, DropsMove DEF Drops, TypeInv, TypeOK, WireTypeOK
<1> QED
  BY <1>1, <1>2, <1>3, <1>4, <1>5, <1>6, <1>7, <1>8 DEF LoopStep

LEMMA ThreadMoves ==
  ASSUME TypeInv, NEW i \in StreamId, OpenerStep(i) \/ ReaderStep(i)
  PROVE  Moves
<1>1. CASE ConnectOk(i)
  BY <1>1, ConnectMoves
<1>2. CASE Flush(i)
  BY <1>2, FlushMoves
<1>3. CASE ~ConnectOk(i) /\ ~Flush(i)
  <2>1. UNCHANGED <<toExit, loop, hand, pending, queued, delivered>>
    BY <1>3 DEF OpenerStep, Bind, BindDies, ConnectFails, OpenFails, FlushFails,
         SendReady, ReadyFails, ReaderStep, RemoteData, RemoteEnds, ReaderStops,
         ReaderExits, SendMux, SendMuxLost, SendMuxFails, wireVars, loopVars, openerVars,
         socketVars
  <2> QED
    BY <2>1, DropsMove DEF Drops
<1> QED
  BY <1>1, <1>2, <1>3

LEMMA OnceInit == Init => OnceInv
<1> SUFFICES ASSUME Init PROVE \A p, a : ~At(p, a)
  BY DEF OnceInv, OnePlace, WasSent
<1> QED
  BY DEF Init, WireInit, ExitInit, At, OnWire, InHand, Parked, Queued, Written

LEMMA OnceStep ==
  ASSUME TypeInv, TypeInv', OnceInv, [Next]_vars
  PROVE  OnceInv'
<1>1. \A s \in StreamId : sent[s] \in Nat /\ sent'[s] \in Nat
  BY TunnelWireAssumption DEF TypeInv, TypeOK, ClientTypeOK
<1>2. ASSUME Moves, UNCHANGED sent
      PROVE  OnceInv'
  BY <1>1, <1>2, MovesStep
<1>3. CASE UNCHANGED vars
  <2>1. UNCHANGED <<toExit, exitVars, sent>>
    BY <1>3 DEF vars, wireVars, clientVars, handlerVars
  <2> QED
    BY <1>2, <2>1, KeptDrops, DropsMove
<1>4. ASSUME ClientNext \/ CutStep, UNCHANGED exitVars
      PROVE  OnceInv'
  <2>1. CASE \A s \in StreamId : ~BrowserSend(s)
    BY <1>2, <1>4, <2>1, ClientDrops, DropsMove
  <2>2. CASE \E s \in StreamId : BrowserSend(s)
    BY <1>4, <2>2, OnceBrowserSend
  <2> QED
    BY <2>1, <2>2
<1>5. ASSUME ExitNext, UNCHANGED clientVars
      PROVE  OnceInv'
  <2>1. UNCHANGED sent
    BY <1>5 DEF clientVars, handlerVars
  <2> QED
    BY <1>2, <1>5, <2>1, LoopMoves, ThreadMoves DEF ExitNext
<1>6. CASE CutStep
  BY <1>4, <1>6 DEF CutStep
<1> QED
  BY <1>3, <1>4, <1>5, <1>6 DEF Next

LEMMA OnceInvariant == Spec => []OnceInv
<1>1. Init => OnceInv
  BY OnceInit
<1>2. TypeInv /\ TypeInv' /\ OnceInv /\ [Next]_vars => OnceInv'
  BY OnceStep
<1> QED
  BY <1>1, <1>2, TypeInvariant, PTL DEF Spec

-------------------------------------------------------------------------------
(* Openers, ids and hosts that come together come from one circuit, also    *)
(* when the cleanup has joined the id of one stream with another's host.    *)

OnCircuit(s, c) == opener[s] # "none" /\ openCirc[s] = c

SameTunnel ==
  /\ \A i \in StreamId : opener[i] = "none" => openCirc[i] = 0
  /\ \A c \in Circuit : cur[c].host # NoHost =>
       /\ OnCircuit(cur[c].sid, c)
       /\ \E t \in StreamId : OnCircuit(t, c) /\ dest[t] = cur[c].host
  /\ \A i \in StreamId : boundSid[i] # 0 =>
       /\ OnCircuit(boundSid[i], openCirc[i])
       /\ \E t \in StreamId : OnCircuit(t, openCirc[i]) /\ dest[t] = boundHost[i]
  /\ \A c \in Circuit, s \in StreamId : streams[c][s] # 0 => OnCircuit(s, c)
  /\ \A c \in Circuit : \A s \in ids[c] : OnCircuit(s, c)

(* An opener that has started stays on its circuit, and its stream's        *)
(* destination stays.                                                       *)
Firm ==
  \A s \in StreamId : opener[s] # "none" => /\ opener'[s] # "none"
                                            /\ openCirc'[s] = openCirc[s]
                                            /\ dest'[s] = dest[s]

(* Where ids and hosts may come from.                                       *)
FromOneCircuit ==
  /\ \A i \in StreamId : opener'[i] = "none" => openCirc'[i] = 0
  /\ \A c \in Circuit : cur'[c].host # NoHost =>
       \/ cur'[c] = cur[c]
       \/ cur'[c].host = cur[c].host /\ cur'[c].sid \in ids[c]
       \/ \E t \in StreamId : /\ t = cur'[c].sid
                              /\ opener'[t] # "none" /\ openCirc'[t] = c
                              /\ dest'[t] = cur'[c].host
  /\ \A i \in StreamId : boundSid'[i] # 0 =>
       \/ boundSid'[i] = boundSid[i] /\ boundHost'[i] = boundHost[i]
       \/ /\ opener[i] # "none"
          /\ \E c \in Circuit : /\ c = openCirc[i]
                                /\ cur[c].host # NoHost
                                /\ boundSid'[i] = cur[c].sid
                                /\ boundHost'[i] = cur[c].host
  /\ \A c \in Circuit, s \in StreamId : streams'[c][s] # 0 =>
       \/ streams[c][s] # 0
       \/ \E i \in StreamId : boundSid[i] = s /\ openCirc[i] = c
  /\ \A c \in Circuit : \A s \in ids'[c] : s \in ids[c] \/ streams[c][s] # 0

LEMMA SameKept ==
  ASSUME TypeInv, TypeInv', OpenersRight, LoopRight, SameTunnel, Firm, FromOneCircuit
  PROVE  SameTunnel'
<1>1. \A s \in StreamId : \A c : OnCircuit(s, c) => opener'[s] # "none" /\ openCirc'[s] = c
  BY DEF OnCircuit, Firm
<1>2. \A s \in StreamId : \A c, h : OnCircuit(s, c) /\ dest[s] = h
        => opener'[s] # "none" /\ openCirc'[s] = c /\ dest'[s] = h
  BY DEF OnCircuit, Firm
<1>3. ASSUME NEW c \in Circuit, cur'[c].host # NoHost
      PROVE  /\ opener'[cur'[c].sid] # "none" /\ openCirc'[cur'[c].sid] = c
             /\ \E t \in StreamId : /\ opener'[t] # "none" /\ openCirc'[t] = c
                                    /\ dest'[t] = cur'[c].host
  <2>1. CASE cur'[c] = cur[c] \/ (cur'[c].host = cur[c].host /\ cur'[c].sid \in ids[c])
    <3>1. cur[c].host # NoHost /\ cur'[c].host = cur[c].host
      BY <1>3, <2>1
    <3>2. PICK t \in StreamId : OnCircuit(t, c) /\ dest[t] = cur[c].host
      BY <3>1 DEF SameTunnel
    <3>3. PICK s \in StreamId : s = cur'[c].sid /\ OnCircuit(s, c)
      BY <2>1, <3>1 DEF SameTunnel, LoopRight, TypeInv, TypeOK, ExitTypeOK
    <3> QED
      BY <1>1, <1>2, <3>1, <3>2, <3>3
  <2>2. CASE \E t \in StreamId : /\ t = cur'[c].sid
                                 /\ opener'[t] # "none" /\ openCirc'[t] = c
                                 /\ dest'[t] = cur'[c].host
    BY <2>2
  <2> QED
    BY <1>3, <2>1, <2>2 DEF FromOneCircuit
<1>4. ASSUME NEW i \in StreamId, boundSid'[i] # 0
      PROVE  /\ opener'[boundSid'[i]] # "none" /\ openCirc'[boundSid'[i]] = openCirc'[i]
             /\ \E t \in StreamId : /\ opener'[t] # "none" /\ openCirc'[t] = openCirc'[i]
                                    /\ dest'[t] = boundHost'[i]
  <2>1. /\ opener[i] # "none"
        /\ \E s, t \in StreamId : /\ s = boundSid'[i] /\ OnCircuit(s, openCirc[i])
                                  /\ OnCircuit(t, openCirc[i]) /\ dest[t] = boundHost'[i]
    <3>1. CASE boundSid'[i] = boundSid[i] /\ boundHost'[i] = boundHost[i]
      <4>1. boundSid[i] \in StreamId /\ opener[i] # "none"
        BY <1>4, <3>1 DEF OpenersRight, TypeInv, TypeOK, ExitTypeOK
      <4> QED
        BY <1>4, <3>1, <4>1 DEF SameTunnel
    <3>2. CASE /\ opener[i] # "none"
               /\ \E c \in Circuit : /\ c = openCirc[i]
                                     /\ cur[c].host # NoHost
                                     /\ boundSid'[i] = cur[c].sid
                                     /\ boundHost'[i] = cur[c].host
      BY <3>2 DEF SameTunnel, LoopRight
    <3> QED
      BY <1>4, <3>1, <3>2 DEF FromOneCircuit
  <2>2. openCirc'[i] = openCirc[i]
    BY <2>1 DEF Firm
  <2> QED
    BY <1>1, <1>2, <2>1, <2>2
<1>5. ASSUME NEW c \in Circuit, NEW s \in StreamId, streams'[c][s] # 0
      PROVE  opener'[s] # "none" /\ openCirc'[s] = c
  <2>1. OnCircuit(s, c)
    <3>1. \A i \in StreamId : boundSid[i] = s => boundSid[i] # 0
      BY DEF StreamId
    <3> QED
      BY <1>5, <3>1 DEF FromOneCircuit, SameTunnel
  <2> QED
    BY <1>1, <2>1
<1>6. ASSUME NEW c \in Circuit, NEW s \in ids'[c]
      PROVE  opener'[s] # "none" /\ openCirc'[s] = c
  <2>1. s \in StreamId
    BY DEF TypeInv, TypeOK, ExitTypeOK
  <2>2. OnCircuit(s, c)
    BY <2>1 DEF FromOneCircuit, SameTunnel
  <2> QED
    BY <1>1, <2>1, <2>2
<1>7. \A i \in StreamId : opener'[i] = "none" => openCirc'[i] = 0
  BY DEF FromOneCircuit
<1> QED
  BY <1>3, <1>4, <1>5, <1>6, <1>7 DEF SameTunnel, OnCircuit

LEMMA FirmStep ==
  ASSUME TypeInv, BindInv, [Next]_vars
  PROVE  Firm
<1>1. \A s \in StreamId : opener[s] # "none" => dest[s] \in Host
  BY DEF BindInv, OpenOnce, TypeInv, HandlersSet
<1>2. \A s \in StreamId : dest[s] \in Host => dest'[s] = dest[s]
  BY StepStays DEF Stays
<1>3. \A s \in StreamId : opener[s] # "none" => opener'[s] # "none" /\ openCirc'[s] = openCirc[s]
  <2>1. CASE UNCHANGED exitVars
    BY <2>1 DEF exitVars, openerVars
  <2>2. ASSUME NEW c \in Circuit, RecvOpen(c)
        PROVE  \A s \in StreamId :
                 opener[s] # "none" => opener'[s] # "none" /\ openCirc'[s] = openCirc[s]
    <3>1. PICK i \in StreamId : /\ i = Head(toExit[c]).sid
                                /\ opener' = [opener EXCEPT ![i] = "start"]
                                /\ openCirc' = [openCirc EXCEPT ![i] = c]
      BY <2>2, RecvType, UpFrames DEF RecvOpen, TypeInv, TypeOK
    <3>2. toExit[c] \in Seq(UpFrame) /\ 1 \in 1 .. Len(toExit[c])
          /\ Head(toExit[c]) = toExit[c][1] /\ IsOpen(toExit[c][1])
      BY <2>2 DEF RecvOpen, Recv, IsOpen, TypeInv, TypeOK, WireTypeOK
    <3>3. opener[i] = "none"
      BY <3>1, <3>2 DEF BindInv, OpenOnce
    <3> QED
      BY <3>1, <3>3 DEF TypeInv, TypeOK, ExitTypeOK
  <2>3. ASSUME NEW c \in Circuit, Accept(c) \/ LoopStep(c), ~RecvOpen(c)
        PROVE  \A s \in StreamId :
                 opener[s] # "none" => opener'[s] # "none" /\ openCirc'[s] = openCirc[s]
    BY <2>3 DEF Accept, LoopStep, RecvData, RecvClose, WriteRemote, WriteFails, Park,
         TunnelEOF, CleanupNext, CleanupClose, Return, TunnelReset, ProcessDies, openerVars
  <2>4. ASSUME NEW i \in StreamId, OpenerStep(i) \/ ReaderStep(i)
        PROVE  \A s \in StreamId :
                 opener[s] # "none" => opener'[s] # "none" /\ openCirc'[s] = openCirc[s]
    BY <2>4 DEF OpenerStep, Bind, BindDies, ConnectOk, ConnectFails, OpenFails, Flush,
         FlushFails, SendReady, ReadyFails, ReaderStep, RemoteData, RemoteEnds, ReaderStops,
         ReaderExits, openerVars, TypeInv, TypeOK, ExitTypeOK
  <2>5. CASE ExitNext
    BY <2>2, <2>3, <2>4, <2>5 DEF ExitNext
  <2> QED
    BY <2>1, <2>5 DEF Next, CutStep, vars
<1> QED
  BY <1>1, <1>2, <1>3 DEF Firm

LEMMA LoopFromOneCircuit ==
  ASSUME TypeInv, TypeInv', BindInv, SameTunnel, Firm, NEW c \in Circuit,
         Accept(c) \/ LoopStep(c), UNCHANGED dest
  PROVE  FromOneCircuit
<1>1. CASE RecvOpen(c)
  <2>1. PICK i \in StreamId : /\ i = Head(toExit[c]).sid
                              /\ opener' = [opener EXCEPT ![i] = "start"]
                              /\ openCirc' = [openCirc EXCEPT ![i] = c]
    BY <1>1, RecvType, UpFrames DEF RecvOpen, TypeInv, TypeOK
  <2>2. toExit[c] \in Seq(UpFrame) /\ 1 \in 1 .. Len(toExit[c])
        /\ Head(toExit[c]) = toExit[c][1] /\ IsOpen(toExit[c][1])
    BY <1>1 DEF RecvOpen, Recv, IsOpen, TypeInv, TypeOK, WireTypeOK
  <2>3. Head(toExit[c]).host = dest[i]
    BY <2>1, <2>2 DEF BindInv, OpensRight
  <2>4. \A d \in Circuit : cur'[d] = IF d = c THEN [sid |-> i, host |-> dest[i]] ELSE cur[d]
    BY <1>1, <2>1, <2>3 DEF RecvOpen, Recv, TypeInv, TypeOK, ExitTypeOK
  <2>5. opener'[i] # "none" /\ openCirc'[i] = c
    BY <2>1 DEF TypeInv, TypeOK, ExitTypeOK
  <2>6. \A j \in StreamId : opener'[j] = "none" => openCirc'[j] = 0
    BY <2>1 DEF SameTunnel, TypeInv, TypeOK, ExitTypeOK
  <2>7. UNCHANGED <<ids, streams, boundSid, boundHost>>
    BY <1>1 DEF RecvOpen, Recv
  <2> QED
    BY <2>4, <2>5, <2>6, <2>7 DEF FromOneCircuit
<1>2. CASE CleanupNext(c)
  <2>1. PICK s \in ids[c] : /\ ids' = [ids EXCEPT ![c] = @ \ {s}]
                            /\ cur' = [cur EXCEPT ![c].sid = s]
    BY <1>2 DEF CleanupNext
  <2>2. \A d \in Circuit : /\ d # c => cur'[d] = cur[d]
                           /\ d = c => cur'[d].sid = s /\ cur'[d].host = cur[d].host
    BY <2>1 DEF TypeInv, TypeOK, ExitTypeOK
  <2>3. \A d \in Circuit : ids'[d] \subseteq ids[d]
    BY <2>1 DEF TypeInv, TypeOK, ExitTypeOK
  <2>4. UNCHANGED <<opener, openCirc, streams, boundSid, boundHost>>
    BY <1>2 DEF CleanupNext, openerVars
  <2> QED
    BY <2>1, <2>2, <2>3, <2>4 DEF FromOneCircuit, SameTunnel
<1>3. CASE ~RecvOpen(c) /\ ~CleanupNext(c)
  <2>1. \A i \in StreamId : opener'[i] = "none" => opener[i] = "none"
    BY <1>3 DEF Accept, LoopStep, RecvData, RecvClose, WriteRemote, WriteFails, Park,
         TunnelEOF, CleanupClose, Return, TunnelReset, ProcessDies, openerVars
  <2>2. UNCHANGED <<openCirc, boundSid, boundHost>>
    BY <1>3 DEF Accept, LoopStep, RecvData, RecvClose, WriteRemote, WriteFails, Park,
         TunnelEOF, CleanupClose, Return, TunnelReset, ProcessDies, openerVars
  <2>3. \A d \in Circuit : cur'[d].host # NoHost => cur'[d] = cur[d]
    <3>1. CASE RecvData(c) \/ RecvClose(c)
      <4>1. PICK f \in UpFrame : /\ f = Head(toExit[c]) /\ f.cmd # "OPEN"
                                 /\ cur' = [cur EXCEPT ![c] = [sid |-> f.sid, host |-> f.host]]
        BY <3>1, RecvType DEF RecvData, RecvClose, Recv, TypeInv, TypeOK
      <4>2. f.host = NoHost
        BY <4>1, UpFrames
      <4> QED
        BY <4>1, <4>2 DEF TypeInv, TypeOK, ExitTypeOK
    <3>2. CASE ~RecvData(c) /\ ~RecvClose(c)
      <4>1. UNCHANGED cur
        BY <1>3, <3>2 DEF Accept, LoopStep, WriteRemote, WriteFails, Park, TunnelEOF,
             CleanupClose, Return, TunnelReset
      <4> QED
        BY <4>1
    <3> QED
      BY <3>1, <3>2
  <2>4. \A d \in Circuit, s \in StreamId : streams'[d][s] # 0 => streams[d][s] # 0
    <3>1. CASE RecvClose(c) \/ WriteFails(c) \/ CleanupClose(c)
      <4>1. \E t : CloseStream(c, t)
        BY <3>1 DEF RecvClose, WriteFails, CleanupClose
      <4> QED
        BY <4>1, CloseForgets
    <3>2. CASE TunnelReset(c)
      BY <3>2 DEF TunnelReset, ProcessDies
    <3>3. CASE ~(RecvClose(c) \/ WriteFails(c) \/ CleanupClose(c) \/ TunnelReset(c))
      <4>1. UNCHANGED streams
        BY <1>3, <3>3 DEF Accept, LoopStep, RecvData, WriteRemote, Park, TunnelEOF, Return
      <4> QED
        BY <4>1
    <3> QED
      BY <3>1, <3>2, <3>3
  <2>5. \A d \in Circuit : \A s \in ids'[d] : s \in ids[d] \/ streams[d][s] # 0
    <3>1. CASE TunnelEOF(c)
      BY <3>1 DEF TunnelEOF, TypeInv, TypeOK, ExitTypeOK
    <3>2. CASE ~TunnelEOF(c)
      <4>1. UNCHANGED ids
        BY <1>3, <3>2 DEF Accept, LoopStep, RecvData, RecvClose, Recv, WriteRemote,
             WriteFails, Park, CleanupClose, Return, TunnelReset
      <4> QED
        BY <4>1
    <3> QED
      BY <3>1, <3>2
  <2> QED
    BY <2>1, <2>2, <2>3, <2>4, <2>5 DEF FromOneCircuit, SameTunnel
<1> QED
  BY <1>1, <1>2, <1>3

LEMMA ThreadFromOneCircuit ==
  ASSUME TypeInv, TypeInv', BindInv, SameTunnel, NEW i \in StreamId,
         OpenerStep(i) \/ ReaderStep(i)
  PROVE  FromOneCircuit
<1>1. UNCHANGED <<cur, ids, openCirc>>
  BY DEF OpenerStep, Bind, BindDies, ConnectOk, ConnectFails, OpenFails, Flush,
       FlushFails, SendReady, ReadyFails, ReaderStep, RemoteData, RemoteEnds, ReaderStops,
       ReaderExits, loopVars, openerVars
<1>2. \A j \in StreamId : opener'[j] = "none" => opener[j] = "none"
  <2>1. CASE ReaderStep(i) \/ Flush(i)
    <3>1. UNCHANGED opener
      BY <2>1 DEF ReaderStep, RemoteData, RemoteEnds, ReaderStops, ReaderExits, openerVars,
           Flush
    <3> QED
      BY <3>1
  <2>2. CASE OpenerStep(i) /\ ~Flush(i)
    <3>1. \E pc \in {"connect", "flush", "done"} : opener' = [opener EXCEPT ![i] = pc]
      BY <2>2 DEF OpenerStep, Bind, BindDies, ConnectOk, ConnectFails, OpenFails,
           FlushFails, SendReady, ReadyFails
    <3> QED
      BY <3>1 DEF TypeInv, TypeOK, ExitTypeOK
  <2> QED
    BY <2>1, <2>2
<1>3. \A j \in StreamId : boundSid'[j] # 0 =>
        \/ boundSid'[j] = boundSid[j] /\ boundHost'[j] = boundHost[j]
        \/ /\ opener[j] # "none"
           /\ \E c \in Circuit : /\ c = openCirc[j]
                                 /\ cur[c].host # NoHost
                                 /\ boundSid'[j] = cur[c].sid
                                 /\ boundHost'[j] = cur[c].host
  <2>1. CASE Bind(i)
    <3>1. openCirc[i] \in Circuit /\ opener[i] # "none"
      BY <2>1 DEF Bind, TypeInv, OpenersSet
    <3> QED
      BY <2>1, <3>1 DEF Bind, LoopVars, TypeInv, TypeOK, ExitTypeOK
  <2>2. CASE ~Bind(i)
    <3>1. UNCHANGED <<boundSid, boundHost>>
      BY <2>2 DEF OpenerStep, BindDies, ConnectOk, ConnectFails, OpenFails, Flush,
           FlushFails, SendReady, ReadyFails, ReaderStep, RemoteData, RemoteEnds,
           ReaderStops, ReaderExits, openerVars
    <3> QED
      BY <3>1
  <2> QED
    BY <2>1, <2>2
<1>4. \A c \in Circuit, s \in StreamId : streams'[c][s] # 0 =>
        \/ streams[c][s] # 0
        \/ \E j \in StreamId : boundSid[j] = s /\ openCirc[j] = c
  <2>1. CASE ConnectOk(i)
    BY <2>1 DEF ConnectOk, TypeInv, TypeOK, ExitTypeOK
  <2>2. CASE ~ConnectOk(i)
    <3>1. \/ UNCHANGED streams
          \/ /\ openCirc[i] \in Circuit
             /\ \E t : CloseStream(openCirc[i], t)
      <4>1. opener[i] # "none" \/ reader[i] # "none" => openCirc[i] \in Circuit
        BY DEF TypeInv, OpenersSet
      <4> QED
        BY <2>2, <4>1 DEF OpenerStep, Bind, BindDies, ConnectFails, OpenFails, Flush,
             FlushFails, SendReady, ReadyFails, ReaderStep, RemoteData, RemoteEnds,
             ReaderStops, ReaderExits
    <3> QED
      BY <3>1, CloseForgets
  <2> QED
    BY <2>1, <2>2
<1> QED
  BY <1>1, <1>2, <1>3, <1>4 DEF FromOneCircuit, SameTunnel

LEMMA SameInit == Init => SameTunnel
BY DEF Init, ExitInit, SameTunnel, NoVars

LEMMA SameStep ==
  ASSUME TypeInv, TypeInv', BindInv, SameTunnel, [Next]_vars
  PROVE  SameTunnel'
<1>1. Firm
  BY FirmStep
<1>2. CASE UNCHANGED exitVars
  <2>1. FromOneCircuit
    BY <1>2 DEF FromOneCircuit, SameTunnel, exitVars, loopVars, openerVars
  <2> QED
    BY <1>1, <2>1, SameKept DEF BindInv
<1>3. CASE ExitNext /\ UNCHANGED clientVars
  <2>1. UNCHANGED dest
    BY <1>3 DEF clientVars, handlerVars
  <2>2. FromOneCircuit
    BY <1>1, <1>3, <2>1, LoopFromOneCircuit, ThreadFromOneCircuit DEF ExitNext
  <2> QED
    BY <1>1, <2>2, SameKept DEF BindInv
<1> QED
  BY <1>2, <1>3 DEF Next, CutStep, vars

LEMMA SameInvariant == Spec => []SameTunnel
<1>1. Init => SameTunnel
  BY SameInit
<1>2. TypeInv /\ TypeInv' /\ BindInv /\ SameTunnel /\ [Next]_vars => SameTunnel'
  BY SameStep
<1> QED
  BY <1>1, <1>2, TypeInvariant, BindInvariant, PTL DEF Spec

-------------------------------------------------------------------------------
(* The tunnel implements StreamService.  What the service sees:             *)

PhaseSeen == [s \in StreamId |-> Phase(handler[s])]
ArrivalsSeen == [i \in StreamId |-> [k \in 1 .. Len(delivered[i]) |->
                                     [at |-> boundHost[i], what |-> delivered[i][k]]]]
ReceivedSeen == [s \in StreamId |-> [k \in 1 .. Len(got[s]) |-> got[s][k].from]]

LEMMA SeenVars ==
  /\ Service!vars = <<PhaseSeen, dest, ConnectedStreams, DetachedStreams, sent,
                      ArrivalsSeen, ReceivedSeen>>
  /\ Service!vars' = <<PhaseSeen', dest', ConnectedStreams', DetachedStreams', sent',
                       ArrivalsSeen', ReceivedSeen'>>
BY DEF Service!vars, PhaseSeen, ArrivalsSeen, ReceivedSeen

(* The actions of the service, in these terms.                              *)
LEMMA SeenRequest ==
  ASSUME NEW s \in StreamId, NEW h \in Host, PhaseSeen[s] = "idle",
         PhaseSeen' = [PhaseSeen EXCEPT ![s] = "opening"],
         dest' = [dest EXCEPT ![s] = h],
         UNCHANGED <<ConnectedStreams, DetachedStreams, sent, ArrivalsSeen, ReceivedSeen>>
  PROVE  Service!Next
BY DEF Service!Next, Service!Request, Service!Stream, StreamId, PhaseSeen, ArrivalsSeen,
       ReceivedSeen

LEMMA SeenConnect ==
  ASSUME NEW s \in StreamId, PhaseSeen[s] # "idle",
         ConnectedStreams' = ConnectedStreams \cup {s},
         UNCHANGED <<PhaseSeen, dest, DetachedStreams, sent, ArrivalsSeen, ReceivedSeen>>
  PROVE  Service!Next
BY DEF Service!Next, Service!Connect, Service!Stream, StreamId, PhaseSeen, ArrivalsSeen,
       ReceivedSeen

LEMMA SeenEstablish ==
  ASSUME NEW s \in StreamId, PhaseSeen[s] = "opening", s \in ConnectedStreams,
         PhaseSeen' = [PhaseSeen EXCEPT ![s] = "open"],
         UNCHANGED <<dest, ConnectedStreams, DetachedStreams, sent, ArrivalsSeen,
                     ReceivedSeen>>
  PROVE  Service!Next
BY DEF Service!Next, Service!Establish, Service!Stream, StreamId, PhaseSeen, ArrivalsSeen,
       ReceivedSeen

LEMMA SeenEnd ==
  ASSUME NEW s \in StreamId, PhaseSeen[s] \in {"opening", "open"},
         PhaseSeen' = [PhaseSeen EXCEPT ![s] = "over"],
         UNCHANGED <<dest, ConnectedStreams, DetachedStreams, sent, ArrivalsSeen,
                     ReceivedSeen>>
  PROVE  Service!Next
BY DEF Service!Next, Service!End, Service!Stream, StreamId, PhaseSeen, ArrivalsSeen,
       ReceivedSeen

LEMMA SeenSend ==
  ASSUME NEW s \in StreamId, PhaseSeen[s] = "open", sent[s] < MaxUp,
         sent' = [sent EXCEPT ![s] = @ + 1],
         UNCHANGED <<PhaseSeen, dest, ConnectedStreams, DetachedStreams, ArrivalsSeen,
                     ReceivedSeen>>
  PROVE  Service!Next
BY DEF Service!Next, Service!Send, Service!Stream, StreamId, PhaseSeen, ArrivalsSeen,
       ReceivedSeen

LEMMA SeenDetach ==
  ASSUME NEW S \in SUBSET StreamId, DetachedStreams' = DetachedStreams \cup S,
         UNCHANGED <<PhaseSeen, dest, ConnectedStreams, sent, ArrivalsSeen, ReceivedSeen>>
  PROVE  Service!Next
BY DEF Service!Next, Service!Detach, Service!Stream, StreamId, PhaseSeen, ArrivalsSeen,
       ReceivedSeen

(* A payload arrives at its own destination, or strays to the destination   *)
(* of a stream whose tunnel has ended like its own.                         *)
LEMMA SeenArrive ==
  ASSUME NEW s \in StreamId, NEW n \in 1 .. MaxUp, NEW c \in StreamId, NEW h,
         \/ s \in ConnectedStreams /\ h = dest[s]
         \/ /\ s \in DetachedStreams
            /\ \E t \in StreamId : t \in DetachedStreams /\ h = dest[t],
         n <= sent[s],
         \A d \in StreamId : \A k \in DOMAIN ArrivalsSeen[d] :
           ArrivalsSeen[d][k].what # [from |-> s, n |-> n],
         ArrivalsSeen' = [ArrivalsSeen EXCEPT ![c] =
                            Append(@, [at |-> h, what |-> [from |-> s, n |-> n]])],
         UNCHANGED <<PhaseSeen, dest, ConnectedStreams, DetachedStreams, sent, ReceivedSeen>>
  PROVE  Service!Next
<1> DEFINE payload == [from |-> s, n |-> n]
<1>1. \A d \in StreamId : \A a \in Service!Range(ArrivalsSeen[d]) : a.what # payload
  BY DEF Service!Range
<1> HIDE DEF payload
<1>2. ArrivalsSeen' = [ArrivalsSeen EXCEPT ![c] = Append(@, [at |-> h, what |-> payload])]
  BY DEF payload
<1>3. ASSUME s \in ConnectedStreams, h = dest[s]
      PROVE  Service!Arrive(s, n)
  BY <1>1, <1>2, <1>3 DEF Service!Arrive, Service!ArriveAt, Service!Stream, StreamId,
       PhaseSeen, ArrivalsSeen, ReceivedSeen, payload
<1>4. ASSUME NEW t \in StreamId, s \in DetachedStreams, t \in DetachedStreams, h = dest[t]
      PROVE  Service!Stray(s, n, t)
  BY <1>1, <1>2, <1>4 DEF Service!Stray, Service!ArriveAt, Service!Stream, StreamId,
       PhaseSeen, ArrivalsSeen, ReceivedSeen, payload
<1> QED
  BY <1>3, <1>4 DEF Service!Next, Service!Stream, StreamId

LEMMA SeenReceive ==
  ASSUME NEW s \in StreamId, PhaseSeen[s] = "open",
         ReceivedSeen' = [ReceivedSeen EXCEPT ![s] = Append(@, dest[s])],
         UNCHANGED <<PhaseSeen, dest, ConnectedStreams, DetachedStreams, sent, ArrivalsSeen>>
  PROVE  Service!Next
BY DEF Service!Next, Service!Receive, Service!Stream, StreamId, PhaseSeen, ArrivalsSeen,
       ReceivedSeen


LEMMA PhaseMoves ==
  ASSUME TypeInv, NEW s \in StreamId, NEW pc, MoveTo(s, pc)
  PROVE  PhaseSeen' = [PhaseSeen EXCEPT ![s] = Phase(pc)]
<1>1. \A t \in StreamId : handler'[t] = IF t = s THEN pc ELSE handler[t]
  BY DEF MoveTo, TypeInv, TypeOK, ClientTypeOK
<1>2. \A t \in StreamId : Phase(handler'[t]) = IF t = s THEN Phase(pc) ELSE Phase(handler[t])
  BY <1>1
<1> QED
  BY <1>2 DEF PhaseSeen

(* Steps that make no connection and bind nothing.                          *)
LEMMA ConnectedKept ==
  ASSUME UNCHANGED <<dest, boundSid, boundHost>>,
         \A i \in StreamId : sock'[i] = "none" <=> sock[i] = "none"
  PROVE  UNCHANGED ConnectedStreams
BY DEF ConnectedStreams

(* Steps that set no stop and start no opener.                              *)
LEMMA DetachedKept ==
  ASSUME UNCHANGED openCirc, \A c \in Circuit : Stopped(c)' <=> Stopped(c)
  PROVE  UNCHANGED DetachedStreams
BY DEF DetachedStreams

LEMMA ExitSeenKept ==
  ASSUME UNCHANGED exitVars
  PROVE  /\ UNCHANGED <<ArrivalsSeen, DetachedStreams>>
         /\ UNCHANGED dest => UNCHANGED ConnectedStreams
<1>1. UNCHANGED <<boundSid, boundHost, sock, delivered, openCirc, loop>>
  BY DEF exitVars, loopVars, openerVars, socketVars
<1>2. UNCHANGED DetachedStreams
  BY <1>1, DetachedKept DEF Stopped
<1> QED
  BY <1>1, <1>2, ConnectedKept DEF ArrivalsSeen

LEMMA ClientSeenKept ==
  ASSUME UNCHANGED clientVars
  PROVE  UNCHANGED <<PhaseSeen, dest, sent, ReceivedSeen>>
BY DEF clientVars, handlerVars, PhaseSeen, ReceivedSeen

LEMMA MapRegister ==
  ASSUME TypeInv, BindInv, SameTunnel, NEW h \in Host, Register(h), UNCHANGED exitVars
  PROVE  Service!Next
<1>1. /\ nextId \in StreamId
      /\ MoveTo(nextId, "sendopen")
      /\ dest' = [dest EXCEPT ![nextId] = h]
      /\ UNCHANGED <<sent, got>>
  BY DEF Register
<1>2. handler[nextId] = "none" /\ dest[nextId] = NoHost
  BY <1>1 DEF BindInv, OpenOnce, StreamId
<1>3. UNCHANGED ConnectedStreams
  <2>1. UNCHANGED <<boundSid, boundHost, sock>>
    BY DEF exitVars, openerVars, socketVars
  <2>2. \A i \in StreamId : boundSid[i] # nextId
    <3> SUFFICES ASSUME NEW i \in StreamId, boundSid[i] = nextId PROVE FALSE
      OBVIOUS
    <3>1. boundSid[i] # 0
      BY <1>1 DEF StreamId
    <3>2. opener[nextId] # "none"
      BY <3>1 DEF SameTunnel, OnCircuit
    <3> QED
      BY <1>1, <1>2, <3>2 DEF BindInv, OpenOnce
  <2>3. \A s \in StreamId : s # nextId => dest'[s] = dest[s]
    BY <1>1 DEF TypeInv, TypeOK, ClientTypeOK
  <2> QED
    BY <2>1, <2>2, <2>3 DEF ConnectedStreams
<1>4. PhaseSeen[nextId] = "idle"
  BY <1>1, <1>2 DEF PhaseSeen, Phase
<1>5. PhaseSeen' = [PhaseSeen EXCEPT ![nextId] = "opening"]
  BY <1>1, PhaseMoves DEF Phase
<1>6. UNCHANGED <<DetachedStreams, ArrivalsSeen, ReceivedSeen>>
  BY <1>1, ExitSeenKept DEF ReceivedSeen
<1> QED
  BY <1>1, <1>3, <1>4, <1>5, <1>6, SeenRequest

LEMMA MapHandler ==
  ASSUME TypeInv, DownInv, NEW s \in StreamId, HandlerStep(s), UNCHANGED exitVars
  PROVE  Service!Next \/ UNCHANGED Service!vars
<1>1. UNCHANGED dest
  BY DEF HandlerStep, SendOpen, SendOpenRaises, BecomeReady, BrowserLeft, OpenTimeout,
         BrowserSend, BrowserRecv, EndStream
<1>2. UNCHANGED <<ConnectedStreams, DetachedStreams, ArrivalsSeen>>
  BY <1>1, ExitSeenKept
<1>3. CASE SendOpen(s)
  <2>1. MoveTo(s, "wait") /\ handler[s] = "sendopen" /\ UNCHANGED <<sent, got>>
    BY <1>3 DEF SendOpen
  <2>2. PhaseSeen' = [PhaseSeen EXCEPT ![s] = "opening"] /\ PhaseSeen[s] = "opening"
    BY <2>1, PhaseMoves DEF Phase, PhaseSeen
  <2>3. UNCHANGED PhaseSeen
    BY <2>2 DEF PhaseSeen
  <2> QED
    BY <1>1, <1>2, <2>1, <2>3, SeenVars DEF ReceivedSeen
<1>4. CASE SendOpenRaises(s) \/ BrowserLeft(s) \/ OpenTimeout(s) \/ EndStream(s)
  <2>1. /\ MoveTo(s, "failed") \/ MoveTo(s, "ended")
        /\ handler[s] \in {"sendopen", "wait", "relay"}
        /\ UNCHANGED <<sent, got>>
    BY <1>4 DEF SendOpenRaises, BrowserLeft, OpenTimeout, EndStream
  <2>2. PhaseSeen' = [PhaseSeen EXCEPT ![s] = "over"] /\ PhaseSeen[s] \in {"opening", "open"}
    BY <2>1, PhaseMoves DEF Phase, PhaseSeen
  <2> QED
    BY <1>1, <1>2, <2>1, <2>2, SeenEnd DEF ReceivedSeen
<1>5. CASE BecomeReady(s)
  <2>1. /\ MoveTo(s, "relay") /\ handler[s] = "wait" /\ ready[s]
        /\ UNCHANGED <<sent, got>>
    BY <1>5 DEF BecomeReady
  <2>2. PhaseSeen' = [PhaseSeen EXCEPT ![s] = "open"] /\ PhaseSeen[s] = "opening"
    BY <2>1, PhaseMoves DEF Phase, PhaseSeen
  <2>3. s \in ConnectedStreams
    BY <2>1 DEF DownInv, ReadyConnected
  <2> QED
    BY <1>1, <1>2, <2>1, <2>2, <2>3, SeenEstablish DEF ReceivedSeen
<1>6. CASE BrowserSend(s)
  <2>1. /\ handler[s] = "relay" /\ sent[s] < MaxUp
        /\ sent' = [sent EXCEPT ![s] = @ + 1]
        /\ UNCHANGED <<handler, got>>
    BY <1>6 DEF BrowserSend
  <2>2. PhaseSeen[s] = "open" /\ UNCHANGED <<PhaseSeen, ReceivedSeen>>
    BY <2>1 DEF Phase, PhaseSeen, ReceivedSeen
  <2> QED
    BY <1>1, <1>2, <2>1, <2>2, SeenSend
<1>7. CASE BrowserRecv(s)
  <2>1. /\ handler[s] = "relay" /\ queue[s] # <<>>
        /\ got' = [got EXCEPT ![s] = Append(@, Head(queue[s]))]
        /\ UNCHANGED <<handler, sent>>
    BY <1>7 DEF BrowserRecv
  <2>2. PhaseSeen[s] = "open" /\ UNCHANGED PhaseSeen
    BY <2>1 DEF Phase, PhaseSeen
  <2>3. queue[s] \in Seq(DownOf(dest[s])) /\ got[s] \in Seq(DownOf(dest[s]))
    BY DEF DownInv, AnswersRight
  <2>4. Head(queue[s]).from = dest[s]
    BY <2>1, <2>3, SeqHeadTail DEF DownOf
  <2> DEFINE old == [k \in 1 .. Len(got[s]) |-> got[s][k].from]
             new == [k \in 1 .. Len(got'[s]) |-> got'[s][k].from]
  <2>5. \A t \in StreamId :
          got'[t] = IF t = s THEN Append(got[s], Head(queue[s])) ELSE got[t]
    BY <2>1 DEF TypeInv, TypeOK, ClientTypeOK
  <2>6. new = Append(old, dest[s])
    <3>1. got'[s] = Append(got[s], Head(queue[s]))
      BY <2>5
    <3>2. /\ Len(got[s]) \in Nat
          /\ Len(got'[s]) = Len(got[s]) + 1
          /\ \A k \in 1 .. Len(got[s]) + 1 :
               got'[s][k] = IF k = Len(got[s]) + 1 THEN Head(queue[s]) ELSE got[s][k]
      BY <2>3, <3>1, AppendLast
    <3>3. \A k \in 1 .. Len(got[s]) + 1 :
            got'[s][k].from = IF k = Len(got[s]) + 1 THEN dest[s] ELSE got[s][k].from
      BY <2>4, <3>2
    <3>4. old \in Seq({got[s][k].from : k \in 1 .. Len(got[s])}) /\ Len(old) = Len(got[s])
      BY <3>2
    <3>5. /\ Append(old, dest[s]) = [k \in 1 .. Len(got[s]) + 1 |->
                                      IF k = Len(got[s]) + 1 THEN dest[s] ELSE old[k]]
      BY <3>2, <3>4
    <3>6. \A k \in 1 .. Len(got[s]) + 1 :
            got'[s][k].from = IF k = Len(got[s]) + 1 THEN dest[s] ELSE old[k]
      BY <3>2, <3>3
    <3> QED
      BY <3>2, <3>5, <3>6
  <2>7. ReceivedSeen' = [ReceivedSeen EXCEPT ![s] = Append(@, dest[s])]
    <3>1. \A t \in StreamId : t # s => got'[t] = got[t]
      BY <2>5
    <3>2. ReceivedSeen[s] = old
      BY DEF ReceivedSeen
    <3> QED
      BY <2>6, <3>1, <3>2 DEF ReceivedSeen
  <2> QED
    BY <1>1, <1>2, <2>1, <2>2, <2>7, SeenReceive
<1> QED
  BY <1>3, <1>4, <1>5, <1>6, <1>7 DEF HandlerStep


LEMMA MapRunner ==
  ASSUME RunnerStep \/ (\E c \in Circuit : CircuitLost(c)) \/ CutStep, UNCHANGED exitVars
  PROVE  UNCHANGED Service!vars
<1>1. UNCHANGED <<handler, dest, sent, got>>
  BY DEF RunnerStep, OpenTunnel, Dispatch, OpenTunnelRaises, RunnerReopens, CircuitLost,
         CutStep, clientVars, handlerVars
<1>2. UNCHANGED <<ConnectedStreams, DetachedStreams, ArrivalsSeen>>
  BY <1>1, ExitSeenKept
<1>3. UNCHANGED <<PhaseSeen, ReceivedSeen>>
  BY <1>1 DEF PhaseSeen, ReceivedSeen
<1> QED
  BY <1>1, <1>2, <1>3, SeenVars

(* A payload that is somewhere at the exit is written to connection j.      *)
LEMMA MapDeliver ==
  ASSUME TypeInv, BindInv, DownInv, OnceInv, SameTunnel, NEW j \in StreamId,
         NEW p \in UpOf(boundSid[j]), NEW a \in Place, At(p, a), a[1] # "written",
         Deliver(j, p), sock[j] # "none",
         UNCHANGED clientVars, UNCHANGED <<boundSid, boundHost, sock, DetachedStreams>>
  PROVE  Service!Next
<1> DEFINE s == boundSid[j]
           arrival == [at |-> boundHost[j], what |-> p]
<1>1. /\ s \in StreamId
      /\ \/ s \in ConnectedStreams /\ boundHost[j] = dest[s]
         \/ /\ s \in DetachedStreams
            /\ \E t \in StreamId : t \in DetachedStreams /\ boundHost[j] = dest[t]
  <2>1. s \in StreamId /\ s # 0
    BY DEF TypeInv, OpenersSet, StreamId
  <2>2. CASE boundHost[j] = dest[s]
    BY <2>1, <2>2 DEF ConnectedStreams
  <2>3. CASE boundHost[j] # dest[s]
    <3>1. PICK c \in Circuit : c = openCirc[j]
      BY DEF TypeInv, OpenersSet
    <3>2. Stopped(c)
      BY <2>1, <2>3, <3>1 DEF BindInv, OpenersRight, Stopped
    <3>3. openCirc[s] = c
      BY <2>1, <3>1 DEF SameTunnel, OnCircuit
    <3>4. PICK t \in StreamId : openCirc[t] = c /\ dest[t] = boundHost[j]
      BY <2>1, <3>1 DEF SameTunnel, OnCircuit
    <3> QED
      BY <2>1, <3>2, <3>3, <3>4 DEF DetachedStreams
  <2> QED
    BY <2>1, <2>2, <2>3
<1>2. p \in UpData /\ p.from = s /\ p.n \in 1 .. MaxUp /\ p = [from |-> s, n |-> p.n]
  BY DEF UpOf, UpData
<1>3. p.n <= sent[s]
  BY <1>2 DEF OnceInv, WasSent
<1>4. \A d \in StreamId : \A k \in DOMAIN ArrivalsSeen[d] : ArrivalsSeen[d][k].what # p
  <2> SUFFICES ASSUME NEW d \in StreamId, NEW k \in 1 .. Len(delivered[d]),
                      delivered[d][k] = p
               PROVE  FALSE
    BY DEF ArrivalsSeen
  <2>1. delivered[d] \in Seq(UpData)
    BY DEF TypeInv, TypeOK, ExitTypeOK
  <2>2. <<"written", d, 0, k>> \in Place
    BY <2>1 DEF Place, StreamId
  <2>3. At(p, <<"written", d, 0, k>>)
    BY DEF At, Written
  <2>4. a = <<"written", d, 0, k>>
    BY <1>2, <2>2, <2>3 DEF OnceInv, OnePlace
  <2> QED
    BY <2>4
<1>5. \A i \in StreamId : delivered'[i] = IF i = j THEN Append(delivered[j], p)
                                          ELSE delivered[i]
  BY DEF Deliver, TypeInv, TypeOK, ExitTypeOK
<1> DEFINE old == [k \in 1 .. Len(delivered[j]) |->
                   [at |-> boundHost[j], what |-> delivered[j][k]]]
           new == [k \in 1 .. Len(delivered'[j]) |->
                   [at |-> boundHost'[j], what |-> delivered'[j][k]]]
<1>6. new = Append(old, arrival)
  <2>1. delivered[j] \in Seq(UpData) /\ delivered'[j] = Append(delivered[j], p)
    BY <1>5 DEF TypeInv, TypeOK, ExitTypeOK
  <2>2. /\ Len(delivered[j]) \in Nat
        /\ Len(delivered'[j]) = Len(delivered[j]) + 1
        /\ \A k \in 1 .. Len(delivered[j]) + 1 :
             delivered'[j][k] = IF k = Len(delivered[j]) + 1 THEN p ELSE delivered[j][k]
    BY <2>1, AppendLast
  <2>3. old \in Seq({[at |-> boundHost[j], what |-> delivered[j][k]] :
                       k \in 1 .. Len(delivered[j])})
        /\ Len(old) = Len(delivered[j])
    BY <2>2
  <2>4. Append(old, arrival) = [k \in 1 .. Len(delivered[j]) + 1 |->
                                IF k = Len(delivered[j]) + 1 THEN arrival ELSE old[k]]
    BY <2>2, <2>3
  <2>5. \A k \in 1 .. Len(delivered[j]) + 1 :
          [at |-> boundHost'[j], what |-> delivered'[j][k]] =
            IF k = Len(delivered[j]) + 1 THEN arrival ELSE old[k]
    BY <2>2
  <2> QED
    BY <2>2, <2>4, <2>5
<1>7. ArrivalsSeen' = [ArrivalsSeen EXCEPT ![j] = Append(@, arrival)]
  <2>1. \A t \in StreamId : t # j => delivered'[t] = delivered[t]
    BY <1>5
  <2>2. ArrivalsSeen[j] = old
    BY DEF ArrivalsSeen
  <2> QED
    BY <1>6, <2>1, <2>2 DEF ArrivalsSeen
<1>8. UNCHANGED <<PhaseSeen, dest, sent, ReceivedSeen>>
  BY ClientSeenKept
<1>9. UNCHANGED ConnectedStreams
  BY <1>8, ConnectedKept
<1>10. PICK n \in 1 .. MaxUp, b \in StreamId, h \in {boundHost[j]} :
          n = p.n /\ b = s /\ h = boundHost[j]
  BY <1>1, <1>2
<1>11. p = [from |-> b, n |-> n] /\ arrival = [at |-> h, what |-> [from |-> b, n |-> n]]
  BY <1>2, <1>10
<1> HIDE DEF arrival
<1>12. /\ n <= sent[b]
       /\ \/ b \in ConnectedStreams /\ h = dest[b]
          \/ /\ b \in DetachedStreams
             /\ \E t \in StreamId : t \in DetachedStreams /\ h = dest[t]
  BY <1>1, <1>3, <1>10
<1>13. /\ \A d \in StreamId : \A k \in DOMAIN ArrivalsSeen[d] :
            ArrivalsSeen[d][k].what # [from |-> b, n |-> n]
       /\ ArrivalsSeen' = [ArrivalsSeen EXCEPT ![j] =
                             Append(@, [at |-> h, what |-> [from |-> b, n |-> n]])]
  BY <1>4, <1>7, <1>11
<1> QED
  BY <1>8, <1>9, <1>12, <1>13, SeenArrive

(* What a step of the exit that writes nothing to a destination leaves.     *)
LEMMA MapSilent ==
  ASSUME UNCHANGED clientVars, UNCHANGED <<boundSid, boundHost, delivered>>,
         UNCHANGED DetachedStreams,
         \A i \in StreamId : sock'[i] = "none" <=> sock[i] = "none"
  PROVE  UNCHANGED Service!vars
<1>1. UNCHANGED <<PhaseSeen, dest, sent, ReceivedSeen>>
  BY ClientSeenKept
<1>2. UNCHANGED <<ConnectedStreams, ArrivalsSeen>>
  BY <1>1, ConnectedKept DEF ArrivalsSeen
<1> QED
  BY <1>1, <1>2, SeenVars

LEMMA CloseKeepsMade ==
  ASSUME TypeInv, NEW c \in Circuit, NEW s \in StreamId, CloseStream(c, s)
  PROVE  \A i \in StreamId : sock'[i] = "none" <=> sock[i] = "none"
<1> SUFFICES ASSUME NEW i \in StreamId PROVE sock'[i] = "none" <=> sock[i] = "none"
  OBVIOUS
<1>1. i = streams[c][s] => sock[i] # "none"
  BY DEF TypeInv, StreamsSet, StreamId
<1> QED
  BY <1>1 DEF CloseStream

(* Of the main loop's steps only the end of the circuit detaches streams.   *)
LEMMA LoopDetaches ==
  ASSUME TypeInv, BindInv, SameTunnel, NEW c \in Circuit, Accept(c) \/ LoopStep(c)
  PROVE  /\ ~TunnelEOF(c) => UNCHANGED DetachedStreams
         /\ TunnelEOF(c) => \E S \in SUBSET StreamId : DetachedStreams' = DetachedStreams \cup S
<1>1. CASE RecvOpen(c)
  <2>1. PICK i \in StreamId : /\ i = Head(toExit[c]).sid
                              /\ openCirc' = [openCirc EXCEPT ![i] = c]
    BY <1>1, RecvType, UpFrames DEF RecvOpen, TypeInv, TypeOK
  <2>2. toExit[c] \in Seq(UpFrame) /\ 1 \in 1 .. Len(toExit[c])
        /\ Head(toExit[c]) = toExit[c][1] /\ IsOpen(toExit[c][1])
    BY <1>1 DEF RecvOpen, Recv, IsOpen, TypeInv, TypeOK, WireTypeOK
  <2>3. openCirc[i] = 0
    BY <2>1, <2>2 DEF BindInv, OpenOnce, SameTunnel
  <2>4. ~Stopped(c) /\ UNCHANGED loop
    BY <1>1 DEF RecvOpen, Recv, Stopped
  <2>5. \A s \in StreamId : openCirc'[s] = IF s = i THEN c ELSE openCirc[s]
    BY <2>1 DEF TypeInv, TypeOK, ExitTypeOK
  <2>6. \A d \in Circuit : Stopped(d)' <=> Stopped(d)
    BY <2>4 DEF Stopped
  <2>7. UNCHANGED DetachedStreams
    BY <2>3, <2>4, <2>5, <2>6 DEF DetachedStreams, Circuit
  <2> QED
    BY <1>1, <2>7 DEF RecvOpen, TunnelEOF, Recv, TypeInv, TypeOK, ExitTypeOK
<1>2. CASE TunnelEOF(c)
  <2>1. UNCHANGED openCirc /\ \A d \in Circuit : Stopped(d)' <=> (Stopped(d) \/ d = c)
    BY <1>2 DEF TunnelEOF, Stopped, openerVars, TypeInv, TypeOK, ExitTypeOK
  <2>2. DetachedStreams' = DetachedStreams \cup {s \in StreamId : openCirc[s] = c}
    BY <2>1 DEF DetachedStreams
  <2> QED
    BY <1>2, <2>2
<1>3. CASE ~RecvOpen(c) /\ ~TunnelEOF(c)
  <2>1. UNCHANGED openCirc
    BY <1>3 DEF Accept, LoopStep, RecvData, RecvClose, WriteRemote, WriteFails, Park,
         CleanupNext, CleanupClose, Return, TunnelReset, ProcessDies, openerVars
  <2>2. CASE Accept(c) \/ RecvData(c) \/ RecvClose(c) \/ WriteRemote(c) \/ WriteFails(c)
             \/ Park(c)
    <3>1. \/ UNCHANGED loop
          \/ \E pc \in {"recv", "park", "write"} :
                ~Stopped(c) /\ loop' = [loop EXCEPT ![c] = pc]
      BY <2>2 DEF Accept, EnterMux, RecvData, RecvClose, Recv, WriteRemote, WriteFails, Park,
           Stopped
    <3>2. \A d \in Circuit : Stopped(d)' <=> Stopped(d)
      BY <3>1 DEF Stopped, TypeInv, TypeOK, ExitTypeOK
    <3> QED
      BY <1>3, <2>1, <3>2, DetachedKept
  <2>3. CASE CleanupNext(c) \/ CleanupClose(c) \/ Return(c) \/ TunnelReset(c)
    <3>1. \A d \in Circuit : Stopped(d)' <=> Stopped(d)
      BY <2>3 DEF CleanupNext, CleanupClose, Return, TunnelReset, Stopped, TypeInv, TypeOK,
           ExitTypeOK
    <3> QED
      BY <1>3, <2>1, <3>1, DetachedKept
  <2> QED
    BY <1>3, <2>2, <2>3 DEF LoopStep
<1> QED
  BY <1>1, <1>2, <1>3

LEMMA MapLoop ==
  ASSUME TypeInv, BindInv, DownInv, OnceInv, SameTunnel, NEW c \in Circuit,
         Accept(c) \/ LoopStep(c), UNCHANGED clientVars
  PROVE  Service!Next \/ UNCHANGED Service!vars
<1>1. CASE WriteRemote(c)
  <2>1. PICK j \in StreamId, p \in UpData : j = hand[c].conn /\ p = hand[c].data
    BY <1>1, UpOfIsUpData DEF WriteRemote, TypeInv, LoopsSet
  <2>2. /\ p \in UpOf(boundSid[j]) /\ Deliver(j, p) /\ sock[j] # "none"
        /\ UNCHANGED <<boundSid, boundHost, sock>>
        /\ ~TunnelEOF(c)
    BY <1>1, <2>1 DEF TunnelEOF, WriteRemote, Writable, TypeInv, LoopsSet, BindInv, PayloadsRight,
                      openerVars
  <2>3. PICK a \in Place : a = <<"hand", c, 0, 0>>
    <3>1. <<"hand", c, 0, 0>> \in Place
      BY DEF Place, Circuit
    <3> QED
      BY <3>1
  <2>4. At(p, a) /\ a[1] # "written"
    BY <1>1, <2>1, <2>3 DEF WriteRemote, At, InHand
  <2> QED
    BY <2>2, <2>4, LoopDetaches, MapDeliver
<1>2. CASE RecvClose(c) \/ WriteFails(c) \/ CleanupClose(c)
  <2>1. \E s \in StreamId : CloseStream(c, s)
    <3>1. CASE RecvClose(c)
      BY <3>1, RecvType, UpFrames DEF RecvClose, TypeInv, TypeOK
    <3>2. CASE WriteFails(c) \/ CleanupClose(c)
      BY <3>2 DEF WriteFails, CleanupClose, TypeInv, LoopsSet
    <3> QED
      BY <1>2, <3>1, <3>2
  <2>2. UNCHANGED <<boundSid, boundHost, delivered>> /\ ~TunnelEOF(c)
    BY <1>2 DEF RecvClose, Recv, WriteFails, CleanupClose, TunnelEOF, openerVars, TypeInv,
         TypeOK, ExitTypeOK
  <2> QED
    BY <2>1, <2>2, CloseKeepsMade, LoopDetaches, MapSilent
<1>3. CASE TunnelEOF(c)
  <2>1. UNCHANGED <<boundSid, boundHost, sock, delivered>>
    BY <1>3 DEF TunnelEOF, openerVars, socketVars
  <2>2. UNCHANGED <<PhaseSeen, dest, sent, ReceivedSeen>>
    BY ClientSeenKept
  <2>3. UNCHANGED <<ConnectedStreams, ArrivalsSeen>>
    BY <2>1, <2>2, ConnectedKept DEF ArrivalsSeen
  <2> QED
    BY <1>3, <2>2, <2>3, LoopDetaches, SeenDetach
<1>4. CASE TunnelReset(c)
  <2>1. /\ \A i \in StreamId : sock'[i] = "none" <=> sock[i] = "none"
        /\ UNCHANGED <<boundSid, boundHost, delivered>>
        /\ ~TunnelEOF(c)
    BY <1>4 DEF TunnelReset, TunnelEOF, ProcessDies, openerVars, TypeInv, TypeOK, ExitTypeOK
  <2> QED
    BY <2>1, LoopDetaches, MapSilent
<1>5. CASE Accept(c) \/ RecvOpen(c) \/ RecvData(c) \/ Park(c) \/ CleanupNext(c) \/ Return(c)
  <2>1. UNCHANGED <<boundSid, boundHost, sock, delivered>>
    BY <1>5 DEF Accept, RecvOpen, RecvData, Park, CleanupNext, Return, openerVars, socketVars
  <2> QED
    BY <1>3, <2>1, LoopDetaches, MapSilent
<1> QED
  BY <1>1, <1>2, <1>3, <1>4, <1>5 DEF LoopStep

LEMMA MapThreads ==
  ASSUME TypeInv, BindInv, DownInv, OnceInv, SameTunnel, NEW i \in StreamId,
         OpenerStep(i) \/ ReaderStep(i), UNCHANGED clientVars
  PROVE  Service!Next \/ UNCHANGED Service!vars
<1>0. UNCHANGED DetachedStreams
  <2>1. UNCHANGED openCirc /\ UNCHANGED loop
    BY DEF OpenerStep, Bind, BindDies, ConnectOk, ConnectFails, OpenFails, Flush,
         FlushFails, SendReady, ReadyFails, ReaderStep, RemoteData, RemoteEnds, ReaderStops,
         ReaderExits, loopVars, openerVars
  <2> QED
    BY <2>1, DetachedKept DEF Stopped
<1>1. CASE Flush(i)
  <2>1. queued[i] \in Seq(UpOf(boundSid[i])) /\ queued[i] # <<>>
    BY <1>1 DEF Flush, BindInv, PayloadsRight
  <2>2. PICK p \in UpOf(boundSid[i]) : p = Head(queued[i])
    BY <2>1, SeqHeadTail
  <2>3. /\ Deliver(i, p) /\ sock[i] # "none"
        /\ UNCHANGED <<boundSid, boundHost, sock>>
    BY <1>1, <2>2 DEF Flush, Writable
  <2>4. PICK a \in Place : a = <<"queued", i, 0, 1>>
    <3>1. <<"queued", i, 0, 1>> \in Place
      BY DEF Place, StreamId
    <3> QED
      BY <3>1
  <2>5. At(p, a) /\ a[1] # "written"
    <3>1. 1 \in 1 .. Len(queued[i]) /\ queued[i][1] = p
      BY <2>1, <2>2
    <3> QED
      BY <2>4, <3>1 DEF At, Queued
  <2> QED
    BY <1>0, <2>3, <2>5, MapDeliver
<1>2. CASE ConnectOk(i)
  <2>1. /\ opener[i] = "connect"
        /\ \A j \in StreamId : sock'[j] = IF j = i THEN "open" ELSE sock[j]
        /\ UNCHANGED <<boundSid, boundHost, delivered>>
    BY <1>2 DEF ConnectOk, TypeInv, TypeOK, ExitTypeOK
  <2>2. PICK s \in StreamId : s = boundSid[i]
    BY <2>1 DEF TypeInv, OpenersSet
  <2>3. s # 0 /\ handler[s] # "none"
    <3>1. s # 0
      BY DEF StreamId
    <3>2. opener[s] # "none"
      BY <2>2, <3>1 DEF SameTunnel, OnCircuit
    <3> QED
      BY <3>1, <3>2 DEF BindInv, OpenOnce
  <2>4. UNCHANGED <<PhaseSeen, dest, sent, ReceivedSeen>>
    BY ClientSeenKept
  <2>5. \/ ConnectedStreams' = ConnectedStreams \cup {s}
        \/ UNCHANGED ConnectedStreams
    <3>1. CASE boundHost[i] = dest[s]
      BY <2>1, <2>2, <2>4, <3>1 DEF ConnectedStreams
    <3>2. CASE boundHost[i] # dest[s]
      BY <2>1, <2>2, <2>4, <3>2 DEF ConnectedStreams
    <3> QED
      BY <3>1, <3>2
  <2>6. PhaseSeen[s] # "idle"
    BY <2>3 DEF PhaseSeen, Phase
  <2>7. UNCHANGED ArrivalsSeen
    BY <2>1 DEF ArrivalsSeen
  <2> QED
    BY <1>0, <2>4, <2>5, <2>6, <2>7, SeenConnect, SeenVars
<1>3. CASE Bind(i)
  <2>1. /\ opener[i] = "start"
        /\ \A j \in StreamId : j # i => /\ boundSid'[j] = boundSid[j]
                                        /\ boundHost'[j] = boundHost[j]
        /\ UNCHANGED <<sock, delivered>>
    BY <1>3 DEF Bind, socketVars, TypeInv, TypeOK, ExitTypeOK
  <2>2. delivered[i] = <<>> /\ boundSid[i] = 0
    BY <2>1 DEF BindInv, OpenersRight
  <2>3. sock[i] = "none"
    BY <2>2 DEF TypeInv, OpenersSet, StreamId
  <2>4. UNCHANGED <<PhaseSeen, dest, sent, ReceivedSeen>>
    BY ClientSeenKept
  <2>5. UNCHANGED ConnectedStreams
    BY <2>1, <2>3, <2>4 DEF ConnectedStreams
  <2>6. UNCHANGED ArrivalsSeen
    BY <2>1, <2>2 DEF ArrivalsSeen
  <2> QED
    BY <1>0, <2>4, <2>5, <2>6, SeenVars
<1>4. CASE \/ ConnectFails(i) \/ FlushFails(i) \/ ReadyFails(i)
           \/ RemoteEnds(i) \/ ReaderStops(i)
  <2>1. \E d \in Circuit, s \in StreamId : CloseStream(d, s)
    <3>1. CASE ConnectFails(i) \/ FlushFails(i)
      BY <3>1 DEF ConnectFails, FlushFails, OpenFails, LoopVars, TypeInv, OpenersSet
    <3>2. CASE ReadyFails(i) \/ RemoteEnds(i) \/ ReaderStops(i)
      BY <3>2 DEF ReadyFails, RemoteEnds, ReaderStops, ReaderExits, TypeInv, OpenersSet
    <3> QED
      BY <1>4, <3>1, <3>2
  <2>2. UNCHANGED <<boundSid, boundHost, delivered>>
    BY <1>4 DEF ConnectFails, FlushFails, OpenFails, ReadyFails, RemoteEnds, ReaderStops,
                ReaderExits, openerVars
  <2> QED
    BY <1>0, <2>1, <2>2, CloseKeepsMade, MapSilent
<1>5. CASE BindDies(i) \/ SendReady(i) \/ RemoteData(i)
  <2>1. UNCHANGED <<boundSid, boundHost, sock, delivered>>
    BY <1>5 DEF BindDies, SendReady, RemoteData, openerVars, socketVars
  <2> QED
    BY <1>0, <2>1, MapSilent
<1> QED
  BY <1>1, <1>2, <1>3, <1>4, <1>5 DEF OpenerStep, ReaderStep

LEMMA MapInit == Init => Service!Init
BY DEF Init, WireInit, ClientInit, ExitInit, Service!Init, Service!Stream, StreamId,
       ConnectedStreams, DetachedStreams, Circuit, Phase

LEMMA MapStep ==
  ASSUME TypeInv, BindInv, DownInv, OnceInv, SameTunnel, [Next]_vars
  PROVE  Service!Next \/ UNCHANGED Service!vars
<1>1. CASE UNCHANGED vars
  <2>1. UNCHANGED clientVars /\ UNCHANGED exitVars
    BY <1>1 DEF vars
  <2>2. UNCHANGED <<boundSid, boundHost, sock, delivered>>
    BY <2>1 DEF exitVars, openerVars, socketVars
  <2> QED
    BY <2>1, <2>2, ExitSeenKept, MapSilent
<1>2. CASE ClientNext /\ UNCHANGED exitVars
  BY <1>2, MapRegister, MapHandler, MapRunner DEF ClientNext
<1>3. CASE ExitNext /\ UNCHANGED clientVars
  BY <1>3, MapLoop, MapThreads DEF ExitNext
<1>4. CASE CutStep
  <2>1. UNCHANGED exitVars
    BY <1>4 DEF CutStep
  <2> QED
    BY <1>4, <2>1, MapRunner
<1> QED
  BY <1>1, <1>2, <1>3, <1>4 DEF Next

(* Every behaviour of the tunnel, with its circuits, frames and threads, is *)
(* one StreamService allows: streams are only established when connected,   *)
(* each payload arrives at most once, while its circuit is served only      *)
(* where it was sent, and what is read comes from there.                    *)
THEOREM TunnelImplementsService == Spec => ImplementsService
<1>1. Init => Service!Init
  BY MapInit
<1>2. TypeInv /\ BindInv /\ DownInv /\ OnceInv /\ SameTunnel /\ [Next]_vars
        => [Service!Next]_(Service!vars)
  BY MapStep
<1> QED
  BY <1>1, <1>2, TypeInvariant, BindInvariant, DownInvariant, OnceInvariant, SameInvariant,
     PTL DEF Spec, ImplementsService, Service!Spec

---------------------------------------------------------------------------------
(***************************************************************************)
(* Order on the tunnel, for every number of streams, circuits, payloads    *)
(* and destinations: while no opener has read a later frame's variables,   *)
(* what is delivered on a connection and what a browser reads have no gap, *)
(* and what was parked stays parked.                                       *)
(***************************************************************************)

(* The k-th frame of q carries a payload of stream s.                       *)
DataAt(q, s, k) == k \in 1 .. Len(q) /\ q[k].cmd = "DATA" /\ q[k].sid = s

(* The payloads of s in q are numbered from e on: each is the e-th or       *)
(* follows the one before it, and they are in order.                        *)
Continues(q, s, e) ==
  /\ \A k \in 1 .. Len(q) : DataAt(q, s, k) =>
       /\ q[k].data.n >= e
       /\ \/ q[k].data.n = e
          \/ \E l \in 1 .. Len(q) : l < k /\ DataAt(q, s, l) /\ q[l].data.n + 1 = q[k].data.n
  /\ \A k, l \in 1 .. Len(q) :
       DataAt(q, s, k) /\ DataAt(q, s, l) /\ l < k => q[l].data.n < q[k].data.n

(* They go on to number n.                                                  *)
Reaches(q, s, e, n) ==
  n + 1 = e \/ \E k \in 1 .. Len(q) : DataAt(q, s, k) /\ q[k].data.n = n

(* A stream is ready, and carries data, only when its opener is done.       *)
ReadyComes(s) ==
  \E c \in Circuit : \E k \in 1 .. Len(toClient[c]) :
    toClient[c][k].cmd = "READY" /\ toClient[c][k].sid = s

Readied(s) == ReadyComes(s) \/ ready[s] \/ handler[s] \in {"relay", "ended"} \/ sent[s] > 0

ReadyDone == \A s \in StreamId : Readied(s) => opener[s] = "done"

(* Threads and connections belong to the circuit their OPEN frame came on,  *)
(* which is one that was opened.                                            *)
Homes ==
  /\ \A s \in StreamId : /\ opener[s] = "none" => openCirc[s] = 0
                         /\ opener[s] # "none" => loop[openCirc[s]] # "idle"
                         /\ answers[s] > 0 => reader[s] # "none"
  /\ \A c \in Circuit, s \in StreamId : streams[c][s] # 0 => openCirc[streams[c][s]] = c
  /\ \A c \in Circuit : /\ loop[c] = "write" => openCirc[hand[c].conn] = c
                        /\ loop[c] # "idle" => link[c] # "unused"
                        /\ circuit = c => link[c] # "unused"

(* The way of the payloads of s to its connection, while that can be        *)
(* written: written, in the hands of the loop, on the wire.                 *)
InWrite(s) == loop[openCirc[s]] = "write" /\ hand[openCirc[s]].conn = s
NextUp(s) == Len(delivered[s]) + IF InWrite(s) THEN 2 ELSE 1

UpOpen(s) ==
  LET c == openCirc[s] IN
    /\ streams[c][s] = s
    /\ InWrite(s) => hand[c].data.n = Len(delivered[s]) + 1
    /\ Continues(toExit[c], s, NextUp(s))
    /\ circuit = c /\ link[c] = "open" => Reaches(toExit[c], s, NextUp(s), sent[s])

UpRight(s) == InSequence(delivered[s]) /\ (sock[s] = "open" => UpOpen(s))

UpOrder == \A s \in StreamId : UpRight(s)

(* The way of the answers of connection s to the browser: read by it,       *)
(* queued at the client, on the wire.                                       *)
NextDown(s) == Len(got[s]) + Len(queue[s]) + 1

Arrived(s) ==
  /\ InSequence(got[s])
  /\ \A k \in 1 .. Len(queue[s]) : queue[s][k].n = Len(got[s]) + k
  /\ NextDown(s) <= answers[s] + 1

Coming(s) ==
  /\ \A d \in Circuit : \A k \in 1 .. Len(toClient[d]) : DataAt(toClient[d], s, k) =>
       d = openCirc[s] /\ toClient[d][k].data.n <= answers[s]
  /\ registered[s] /\ circuit # 0 /\ circuit = openCirc[s] =>
       /\ Continues(toClient[circuit], s, NextDown(s))
       /\ link[circuit] = "open" => Reaches(toClient[circuit], s, NextDown(s), answers[s])

DownRight(s) == Arrived(s) /\ Coming(s)

DownOrder == \A s \in StreamId : DownRight(s)

OrderInv == Homes /\ (NoneLate => ReadyDone /\ UpOrder /\ DownOrder)
-------------------------------------------------------------------------------
(* Numbering in a sequence of frames.                                       *)

LEMMA ContNone ==
  ASSUME NEW q, NEW s, NEW e, \A k \in 1 .. Len(q) : ~DataAt(q, s, k)
  PROVE  Continues(q, s, e)
BY DEF Continues

(* The head goes, and is not a payload of s.                                *)
LEMMA ContTail ==
  ASSUME NEW S, NEW q \in Seq(S), q # <<>>, NEW s, NEW e, ~DataAt(q, s, 1)
  PROVE  /\ Continues(q, s, e) => Continues(Tail(q), s, e)
         /\ \A n : Reaches(q, s, e, n) => Reaches(Tail(q), s, e, n)
<1> DEFINE r == Tail(q)
<1>1. /\ Len(q) \in Nat /\ Len(q) = Len(r) + 1
      /\ \A k \in 1 .. Len(r) : r[k] = q[k + 1]
  OBVIOUS
<1>2. \A k \in 1 .. Len(r) : DataAt(r, s, k) <=> DataAt(q, s, k + 1)
  BY <1>1 DEF DataAt
<1>3. \A k \in 1 .. Len(q) : DataAt(q, s, k) => k - 1 \in 1 .. Len(r) /\ r[k - 1] = q[k]
                                                /\ DataAt(r, s, k - 1)
  BY <1>1, <1>2 DEF DataAt
<1> HIDE DEF r
<1>4. ASSUME Continues(q, s, e)
      PROVE  Continues(r, s, e)
  <2>1. ASSUME NEW k \in 1 .. Len(r), DataAt(r, s, k)
        PROVE  /\ r[k].data.n >= e
               /\ \/ r[k].data.n = e
                  \/ \E l \in 1 .. Len(r) : l < k /\ DataAt(r, s, l)
                                            /\ r[l].data.n + 1 = r[k].data.n
    <3>1. k + 1 \in 1 .. Len(q) /\ DataAt(q, s, k + 1) /\ r[k] = q[k + 1]
      BY <1>1, <1>2, <2>1
    <3>2. r[k].data.n >= e
      BY <1>4, <3>1 DEF Continues
    <3>3. ASSUME NEW l \in 1 .. Len(q), l < k + 1, DataAt(q, s, l),
                 q[l].data.n + 1 = q[k + 1].data.n
          PROVE  \E m \in 1 .. Len(r) : m < k /\ DataAt(r, s, m)
                                        /\ r[m].data.n + 1 = r[k].data.n
      <4>1. l - 1 \in 1 .. Len(r) /\ r[l - 1] = q[l] /\ DataAt(r, s, l - 1) /\ l - 1 < k
        BY <1>1, <1>3, <3>3
      <4> QED
        BY <3>1, <3>3, <4>1
    <3> QED
      BY <1>4, <3>1, <3>2, <3>3 DEF Continues
  <2>2. ASSUME NEW k \in 1 .. Len(r), NEW l \in 1 .. Len(r),
               DataAt(r, s, k), DataAt(r, s, l), l < k
        PROVE  r[l].data.n < r[k].data.n
    <3>1. /\ k + 1 \in 1 .. Len(q) /\ DataAt(q, s, k + 1) /\ r[k] = q[k + 1]
          /\ l + 1 \in 1 .. Len(q) /\ DataAt(q, s, l + 1) /\ r[l] = q[l + 1]
          /\ l + 1 < k + 1
      BY <1>1, <1>2, <2>2
    <3> QED
      BY <1>4, <3>1 DEF Continues
  <2> QED
    BY <2>1, <2>2 DEF Continues
<1>5. ASSUME NEW n, Reaches(q, s, e, n)
      PROVE  Reaches(r, s, e, n)
  BY <1>1, <1>3, <1>5 DEF Reaches
<1> QED
  BY <1>4, <1>5 DEF r

(* The head goes, and is a payload of s: the next one.                      *)
LEMMA ContTake ==
  ASSUME NEW S, NEW q \in Seq(S), q # <<>>, NEW s, NEW e \in Nat, Continues(q, s, e),
         DataAt(q, s, 1), \A k \in 1 .. Len(q) : DataAt(q, s, k) => q[k].data.n \in Nat
  PROVE  /\ q[1].data.n = e
         /\ Continues(Tail(q), s, e + 1)
         /\ \A n \in Nat : Reaches(q, s, e, n) /\ e <= n => Reaches(Tail(q), s, e + 1, n)
<1> DEFINE r == Tail(q)
<1>1. /\ Len(q) \in Nat /\ Len(q) = Len(r) + 1
      /\ \A k \in 1 .. Len(r) : r[k] = q[k + 1]
      /\ 1 \in 1 .. Len(q)
  OBVIOUS
<1>2. \A k \in 1 .. Len(r) : DataAt(r, s, k) <=> DataAt(q, s, k + 1)
  BY <1>1 DEF DataAt
<1>3. \A k \in 1 .. Len(q) : DataAt(q, s, k) /\ k # 1 =>
        k - 1 \in 1 .. Len(r) /\ r[k - 1] = q[k] /\ DataAt(r, s, k - 1)
  BY <1>1, <1>2 DEF DataAt
<1> HIDE DEF r
<1>4. q[1].data.n = e
  <2>1. ~\E l \in 1 .. Len(q) : l < 1
    BY <1>1
  <2> QED
    BY <1>1, <2>1 DEF Continues
<1>5. ASSUME NEW k \in 1 .. Len(r), DataAt(r, s, k)
      PROVE  /\ r[k].data.n >= e + 1
             /\ \/ r[k].data.n = e + 1
                \/ \E l \in 1 .. Len(r) : l < k /\ DataAt(r, s, l)
                                          /\ r[l].data.n + 1 = r[k].data.n
  <2>1. k + 1 \in 1 .. Len(q) /\ DataAt(q, s, k + 1) /\ r[k] = q[k + 1] /\ 1 < k + 1
    BY <1>1, <1>2, <1>5
  <2>2. r[k].data.n \in Nat /\ r[k].data.n > e
    BY <1>1, <1>4, <2>1 DEF Continues
  <2>3. ASSUME NEW l \in 1 .. Len(q), l < k + 1, DataAt(q, s, l),
               q[l].data.n + 1 = q[k + 1].data.n
        PROVE  \/ r[k].data.n = e + 1
               \/ \E m \in 1 .. Len(r) : m < k /\ DataAt(r, s, m)
                                         /\ r[m].data.n + 1 = r[k].data.n
    <3>1. CASE l = 1
      BY <1>4, <2>1, <2>3, <3>1
    <3>2. CASE l # 1
      <4>1. l - 1 \in 1 .. Len(r) /\ r[l - 1] = q[l] /\ DataAt(r, s, l - 1) /\ l - 1 < k
        BY <1>1, <1>3, <2>3, <3>2
      <4> QED
        BY <2>1, <2>3, <4>1
    <3> QED
      BY <3>1, <3>2
  <2> QED
    BY <2>1, <2>2, <2>3 DEF Continues
<1>6. ASSUME NEW k \in 1 .. Len(r), NEW l \in 1 .. Len(r),
             DataAt(r, s, k), DataAt(r, s, l), l < k
      PROVE  r[l].data.n < r[k].data.n
  <2>1. /\ k + 1 \in 1 .. Len(q) /\ DataAt(q, s, k + 1) /\ r[k] = q[k + 1]
        /\ l + 1 \in 1 .. Len(q) /\ DataAt(q, s, l + 1) /\ r[l] = q[l + 1]
        /\ l + 1 < k + 1
    BY <1>1, <1>2, <1>6
  <2> QED
    BY <2>1 DEF Continues
<1>7. Continues(r, s, e + 1)
  BY <1>5, <1>6 DEF Continues
<1>8. ASSUME NEW n \in Nat, Reaches(q, s, e, n), e <= n
      PROVE  Reaches(r, s, e + 1, n)
  <2>1. PICK k \in 1 .. Len(q) : DataAt(q, s, k) /\ q[k].data.n = n
    BY <1>8 DEF Reaches
  <2> QED
    BY <1>1, <1>3, <1>4, <2>1 DEF Reaches
<1> QED
  BY <1>4, <1>7, <1>8 DEF r

(* A frame is added, and is not a payload of s.                             *)
LEMMA ContOther ==
  ASSUME NEW S, NEW q \in Seq(S), NEW f, NEW s, NEW e, ~(f.cmd = "DATA" /\ f.sid = s)
  PROVE  /\ Continues(q, s, e) => Continues(Append(q, f), s, e)
         /\ \A n : Reaches(q, s, e, n) => Reaches(Append(q, f), s, e, n)
<1> DEFINE r == Append(q, f)
<1>1. /\ Len(q) \in Nat /\ Len(r) = Len(q) + 1
      /\ \A k \in 1 .. Len(r) : r[k] = IF k = Len(q) + 1 THEN f ELSE q[k]
  BY AppendLast
<1> HIDE DEF r
<1>2. \A k : DataAt(r, s, k) <=> DataAt(q, s, k)
  BY <1>1 DEF DataAt
<1>3. \A k : DataAt(q, s, k) => k \in 1 .. Len(q) /\ k \in 1 .. Len(r) /\ r[k] = q[k]
  BY <1>1 DEF DataAt
<1>4. Continues(q, s, e) => Continues(r, s, e)
  BY <1>2, <1>3 DEF Continues
<1>5. \A n : Reaches(q, s, e, n) => Reaches(r, s, e, n)
  BY <1>2, <1>3 DEF Reaches
<1> QED
  BY <1>4, <1>5 DEF r

(* The payload of s after the last one is added.                            *)
LEMMA ContNext ==
  ASSUME NEW S, NEW q \in Seq(S), NEW f, NEW s, NEW e \in Nat, NEW n \in Nat,
         f.cmd = "DATA", f.sid = s, f.data.n = n + 1,
         Continues(q, s, e), Reaches(q, s, e, n),
         \A k \in 1 .. Len(q) : DataAt(q, s, k) => q[k].data.n \in Nat /\ q[k].data.n <= n
  PROVE  Continues(Append(q, f), s, e) /\ Reaches(Append(q, f), s, e, n + 1)
<1> DEFINE r == Append(q, f)
<1>1. /\ Len(q) \in Nat /\ Len(r) = Len(q) + 1
      /\ \A k \in 1 .. Len(r) : r[k] = IF k = Len(q) + 1 THEN f ELSE q[k]
  BY AppendLast
<1> HIDE DEF r
<1>2. \A k : DataAt(r, s, k) <=> k = Len(q) + 1 \/ DataAt(q, s, k)
  BY <1>1 DEF DataAt
<1>3. \A k : DataAt(q, s, k) => k \in 1 .. Len(q) /\ k \in 1 .. Len(r) /\ r[k] = q[k]
                                /\ k < Len(q) + 1
  BY <1>1 DEF DataAt
<1>4. Len(q) + 1 \in 1 .. Len(r) /\ r[Len(q) + 1] = f
  BY <1>1
<1>5. n + 1 >= e /\ (n + 1 = e \/ \E k \in 1 .. Len(q) : DataAt(q, s, k) /\ q[k].data.n = n)
  BY DEF Continues, Reaches
<1>6. ASSUME NEW k \in 1 .. Len(r), DataAt(r, s, k)
      PROVE  /\ r[k].data.n >= e
             /\ \/ r[k].data.n = e
                \/ \E l \in 1 .. Len(r) : l < k /\ DataAt(r, s, l)
                                          /\ r[l].data.n + 1 = r[k].data.n
  <2>1. CASE k = Len(q) + 1
    BY <1>2, <1>3, <1>4, <1>5, <2>1
  <2>2. CASE k # Len(q) + 1
    BY <1>2, <1>3, <1>6, <2>2 DEF Continues
  <2> QED
    BY <2>1, <2>2
<1>7. ASSUME NEW k \in 1 .. Len(r), NEW l \in 1 .. Len(r),
             DataAt(r, s, k), DataAt(r, s, l), l < k
      PROVE  r[l].data.n < r[k].data.n
  <2>1. l # Len(q) + 1 /\ DataAt(q, s, l)
    BY <1>1, <1>2, <1>7
  <2>2. CASE k = Len(q) + 1
    BY <1>3, <1>4, <2>1, <2>2
  <2>3. CASE k # Len(q) + 1
    BY <1>2, <1>3, <1>7, <2>1, <2>3 DEF Continues
  <2> QED
    BY <2>2, <2>3
<1>8. Continues(r, s, e)
  BY <1>6, <1>7 DEF Continues
<1>9. Reaches(r, s, e, n + 1)
  BY <1>2, <1>4 DEF Reaches
<1> QED
  BY <1>8, <1>9 DEF r

(* What is behind some place is lost.                                       *)
LEMMA ContPrefix ==
  ASSUME NEW S, NEW q \in Seq(S), NEW s, NEW e, NEW m \in Nat, m <= Len(q),
         Continues(q, s, e)
  PROVE  Continues(SubSeq(q, 1, m), s, e)
<1> DEFINE r == SubSeq(q, 1, m)
<1>1. /\ Len(q) \in Nat /\ Len(r) = m
      /\ \A k \in 1 .. m : k \in 1 .. Len(q) /\ r[k] = q[k]
  OBVIOUS
<1> HIDE DEF r
<1>2. \A k \in 1 .. m : DataAt(r, s, k) <=> DataAt(q, s, k)
  BY <1>1 DEF DataAt
<1>3. ASSUME NEW k \in 1 .. Len(r), DataAt(r, s, k)
      PROVE  /\ r[k].data.n >= e
             /\ \/ r[k].data.n = e
                \/ \E l \in 1 .. Len(r) : l < k /\ DataAt(r, s, l)
                                          /\ r[l].data.n + 1 = r[k].data.n
  <2>1. k \in 1 .. Len(q) /\ DataAt(q, s, k) /\ r[k] = q[k]
    BY <1>1, <1>2, <1>3
  <2>2. ASSUME NEW l \in 1 .. Len(q), l < k, DataAt(q, s, l), q[l].data.n + 1 = q[k].data.n
        PROVE  \E j \in 1 .. Len(r) : j < k /\ DataAt(r, s, j)
                                      /\ r[j].data.n + 1 = r[k].data.n
    BY <1>1, <1>2, <2>1, <2>2
  <2> QED
    BY <2>1, <2>2 DEF Continues
<1>4. \A k, l \in 1 .. Len(r) :
        DataAt(r, s, k) /\ DataAt(r, s, l) /\ l < k => r[l].data.n < r[k].data.n
  BY <1>1, <1>2 DEF Continues
<1>5. Continues(r, s, e)
  BY <1>3, <1>4 DEF Continues
<1> QED
  BY <1>5 DEF r

-------------------------------------------------------------------------------
(* Homes.                                                                   *)

(* Steps that receive no OPEN.                                              *)
LEMMA HomesKept ==
  ASSUME TypeInv, Homes, UNCHANGED <<openCirc, link, circuit>>,
         \A s \in StreamId : /\ opener'[s] = "none" <=> opener[s] = "none"
                             /\ reader[s] # "none" => reader'[s] # "none"
                             /\ answers'[s] # answers[s] => reader[s] # "none",
         \A c \in Circuit : /\ loop'[c] = "idle" => loop[c] = "idle"
                            /\ loop'[c] # "idle" => link[c] # "unused"
                            /\ loop'[c] = "write" => openCirc[hand'[c].conn] = c,
         \A c \in Circuit, s \in StreamId :
           streams'[c][s] # 0 =>
             streams'[c][s] = streams[c][s] \/ openCirc[streams'[c][s]] = c
  PROVE  Homes'
<1>1. \A s \in StreamId : opener[s] # "none" => openCirc[s] \in Circuit
  BY DEF TypeInv, OpenersSet
<1>2. \A s \in StreamId : /\ opener'[s] = "none" => openCirc'[s] = 0
                          /\ opener'[s] # "none" => loop'[openCirc'[s]] # "idle"
                          /\ answers'[s] > 0 => reader'[s] # "none"
  BY <1>1 DEF Homes
<1>3. \A c \in Circuit, s \in StreamId :
        streams'[c][s] # 0 => openCirc'[streams'[c][s]] = c
  BY DEF Homes
<1>4. \A c \in Circuit : /\ loop'[c] = "write" => openCirc'[hand'[c].conn] = c
                         /\ loop'[c] # "idle" => link'[c] # "unused"
                         /\ circuit' = c => link'[c] # "unused"
  BY DEF Homes
<1> QED
  BY <1>2, <1>3, <1>4 DEF Homes

LEMMA ClosesOnly ==
  ASSUME TypeInv, NEW c, NEW s, CloseStream(c, s)
  PROVE  \A d \in Circuit, t \in StreamId :
           streams'[d][t] # 0 => streams'[d][t] = streams[d][t]
BY DEF CloseStream, TypeInv, TypeOK, ExitTypeOK

LEMMA HomesClient ==
  ASSUME TypeInv, Homes, ClientNext \/ CutStep \/ UNCHANGED vars, UNCHANGED exitVars
  PROVE  Homes'
<1>1. /\ \A c \in Circuit : link[c] # "unused" => link'[c] # "unused"
      /\ \A c \in Circuit : circuit' = c => circuit = c \/ link'[c] # "unused"
  <2>1. CASE UNCHANGED vars
    BY <2>1 DEF vars, wireVars, clientVars, runnerVars
  <2>2. CASE CutStep
    BY <2>2 DEF CutStep, Cut, clientVars, runnerVars, TypeInv, TypeOK, WireTypeOK
  <2>3. ASSUME NEW c \in Circuit, OpenTunnel(c)
        PROVE  /\ \A d \in Circuit : link[d] # "unused" => link'[d] # "unused"
               /\ \A d \in Circuit : circuit' = d => circuit = d \/ link'[d] # "unused"
    BY <2>3 DEF OpenTunnel, TypeInv, TypeOK, WireTypeOK
  <2>4. ASSUME NEW c \in Circuit, Dispatch(c) \/ CircuitLost(c)
        PROVE  UNCHANGED <<link, circuit>>
    BY <2>4 DEF Dispatch, CircuitLost, runnerVars
  <2>5. CASE OpenTunnelRaises
    BY <2>5 DEF OpenTunnelRaises, wireVars
  <2>6. CASE RunnerReopens
    BY <2>6 DEF RunnerReopens, Circuit
  <2>7. ASSUME NEW h \in Host, Register(h)
        PROVE  UNCHANGED <<link, circuit>>
    BY <2>7 DEF Register, wireVars, runnerVars
  <2>8. ASSUME NEW s \in StreamId, HandlerStep(s)
        PROVE  UNCHANGED <<link, circuit>>
    BY <2>8 DEF HandlerStep, SendOpen, SendOpenRaises, BecomeReady, BrowserLeft,
         OpenTimeout, BrowserSend, BrowserRecv, EndStream, Send, SendLost, SendRaises,
         wireVars, runnerVars
  <2>9. CASE ClientNext
    BY <2>3, <2>4, <2>5, <2>6, <2>7, <2>8, <2>9 DEF ClientNext, RunnerStep
  <2> QED
    BY <2>1, <2>2, <2>9
<1>2. UNCHANGED <<loop, hand, streams, opener, openCirc, reader, answers>>
  BY DEF exitVars, loopVars, openerVars, socketVars
<1> QED
  BY <1>1, <1>2 DEF Homes

LEMMA HomesRecvOpen ==
  ASSUME TypeInv, BindInv, Homes, NEW c \in Circuit, RecvOpen(c), UNCHANGED circuit
  PROVE  Homes'
<1>1. PICK i \in StreamId : i = Head(toExit[c]).sid /\ opener[i] = "none"
  <2>1. toExit[c] \in Seq(UpFrame) /\ toExit[c] # <<>> /\ Head(toExit[c]).cmd = "OPEN"
    BY DEF RecvOpen, Recv, TypeInv, TypeOK, WireTypeOK
  <2>2. 1 \in 1 .. Len(toExit[c]) /\ toExit[c][1] = Head(toExit[c])
    BY <2>1
  <2>3. Head(toExit[c]) \in UpFrame /\ opener[Head(toExit[c]).sid] = "none"
    BY <2>1, <2>2 DEF BindInv, OpenOnce, IsOpen
  <2> QED
    BY <2>3, UpFrames
<1>2. /\ \A s \in StreamId : /\ opener'[s] = IF s = i THEN "start" ELSE opener[s]
                             /\ openCirc'[s] = IF s = i THEN c ELSE openCirc[s]
      /\ UNCHANGED <<loop, hand, streams, reader, answers, link>>
      /\ loop[c] = "recv"
  BY <1>1 DEF RecvOpen, Recv, socketVars, TypeInv, TypeOK, ExitTypeOK
<1>3. \A s \in StreamId : /\ opener'[s] = "none" => openCirc'[s] = 0
                          /\ opener'[s] # "none" => loop'[openCirc'[s]] # "idle"
                          /\ answers'[s] > 0 => reader'[s] # "none"
  BY <1>2 DEF Homes
<1>4. ASSUME NEW d \in Circuit, NEW s \in StreamId, streams'[d][s] # 0
      PROVE  openCirc'[streams'[d][s]] = d
  <2>1. streams[d][s] \in StreamId
    BY <1>2, <1>4 DEF TypeInv, TypeOK, ExitTypeOK
  <2>2. opener[streams[d][s]] # "none"
    BY <1>2, <1>4, <2>1 DEF TypeInv, StreamsSet, OpenersSet
  <2> QED
    BY <1>1, <1>2, <1>4, <2>1, <2>2 DEF Homes
<1>5. ASSUME NEW d \in Circuit, loop'[d] = "write"
      PROVE  openCirc'[hand'[d].conn] = d
  <2>1. hand[d].conn \in StreamId /\ openCirc[hand[d].conn] = d
    BY <1>2, <1>5 DEF TypeInv, LoopsSet, Homes
  <2>2. hand[d].conn # i
    BY <1>1, <2>1 DEF Homes, Circuit
  <2> QED
    BY <1>2, <2>1, <2>2
<1> QED
  BY <1>2, <1>3, <1>4, <1>5 DEF Homes

LEMMA HomesExit ==
  ASSUME TypeInv, BindInv, Homes, ExitNext, UNCHANGED clientVars
  PROVE  Homes'
<1>0. UNCHANGED circuit
  BY DEF clientVars, runnerVars
<1>1. ASSUME NEW c \in Circuit, Accept(c) \/ LoopStep(c)
      PROVE  Homes'
  <2>1. CASE RecvOpen(c)
    BY <1>0, <2>1, HomesRecvOpen
  <2>2. CASE ~RecvOpen(c)
    <3>1. UNCHANGED <<openCirc, link, answers>>
      BY <1>1, <2>2 DEF Accept, LoopStep, RecvData, RecvClose, Recv, WriteRemote,
           WriteFails, Park, TunnelEOF, CleanupNext, CleanupClose, Return, TunnelReset,
           LoseRest, ProcessDies, wireVars, openerVars, socketVars
    <3>2. \A s \in StreamId : /\ opener'[s] = "none" <=> opener[s] = "none"
                              /\ reader[s] # "none" => reader'[s] # "none"
      <4>1. CASE TunnelReset(c)
        BY <4>1 DEF TunnelReset, ProcessDies, openerVars
      <4> QED
        BY <1>1, <2>2, <4>1 DEF Accept, LoopStep, RecvData, RecvClose, WriteRemote,
           WriteFails, Park, TunnelEOF, CleanupNext, CleanupClose, Return, openerVars,
           socketVars
    <3>3. \A d \in Circuit, s \in StreamId :
            streams'[d][s] # 0 => streams'[d][s] = streams[d][s]
      <4>1. CASE RecvClose(c) \/ WriteFails(c) \/ CleanupClose(c)
        BY <4>1, ClosesOnly DEF RecvClose, WriteFails, CleanupClose
      <4>2. CASE TunnelReset(c)
        BY <4>2 DEF TunnelReset, ProcessDies
      <4> QED
        BY <1>1, <2>2, <4>1, <4>2
           DEF Accept, LoopStep, RecvData, WriteRemote, Park, TunnelEOF, CleanupNext, Return
    <3>4. \A d \in Circuit : /\ loop'[d] = "idle" => loop[d] = "idle"
                             /\ loop'[d] # "idle" => loop[d] # "idle" \/ link[d] # "unused"
                             /\ loop'[d] = "write" => openCirc[hand'[d].conn] = d
      <4>1. CASE RecvData(c)
        <5>1. PICK f \in UpFrame : f = Head(toExit[c])
          BY <4>1, RecvShifts, SeqHeadTail DEF RecvData
        <5>2. f.sid \in StreamId /\ streams[c][f.sid] \in StreamId \cup {0}
          BY <5>1, UpFrames DEF TypeInv, TypeOK, ExitTypeOK
        <5>3. /\ loop[c] = "recv"
              /\ loop' = [loop EXCEPT ![c] = IF streams[c][f.sid] = 0 THEN "park" ELSE "write"]
              /\ hand' = [hand EXCEPT ![c] = [conn |-> streams[c][f.sid], data |-> f.data]]
          BY <4>1, <5>1 DEF RecvData, Recv
        <5>4. loop'[c] = "write" => openCirc[hand'[c].conn] = c
          BY <5>2, <5>3 DEF Homes, TypeInv, TypeOK, ExitTypeOK
        <5> QED
          BY <5>3, <5>4 DEF Homes, TypeInv, TypeOK, ExitTypeOK
      <4>2. CASE Accept(c)
        BY <4>2 DEF Accept, EnterMux, Homes, TypeInv, TypeOK, ExitTypeOK
      <4>3. CASE ~RecvData(c) /\ ~Accept(c)
        <5>1. PICK pc \in {"recv", "cleanup", "closing", "done", "raised"} :
                loop' = [loop EXCEPT ![c] = pc] /\ loop[c] # "idle"
          BY <1>1, <2>2, <4>3 DEF LoopStep, RecvClose, Recv, WriteRemote, WriteFails, Park,
             TunnelEOF, CleanupNext, CleanupClose, Return, TunnelReset, TypeInv, TypeOK,
             ExitTypeOK
        <5>2. UNCHANGED hand \/ hand' = [hand EXCEPT ![c] = NoHand]
          BY <1>1, <2>2, <4>3 DEF LoopStep, RecvClose, WriteRemote, WriteFails, Park,
             TunnelEOF, CleanupNext, CleanupClose, Return, TunnelReset
        <5> QED
          BY <5>1, <5>2 DEF Homes, TypeInv, TypeOK, ExitTypeOK
      <4> QED
        BY <4>1, <4>2, <4>3
    <3>5. \A d \in Circuit : loop[d] # "idle" => link[d] # "unused"
      BY DEF Homes
    <3> QED
      BY <1>0, <3>1, <3>2, <3>3, <3>4, <3>5, HomesKept
  <2> QED
    BY <2>1, <2>2
<1>2. ASSUME NEW i \in StreamId, OpenerStep(i) \/ ReaderStep(i)
      PROVE  Homes'
  <2>1. UNCHANGED <<openCirc, link, loop, hand>>
    BY <1>2 DEF OpenerStep, Bind, BindDies, ConnectOk, ConnectFails, OpenFails, Flush,
         FlushFails, SendReady, ReadyFails, ReaderStep, RemoteData, RemoteEnds,
         ReaderStops, ReaderExits, SendMux, SendMuxLost, SendMuxFails, wireVars,
         loopVars, openerVars
  <2>2. \A s \in StreamId : /\ opener'[s] = "none" <=> opener[s] = "none"
                            /\ reader[s] # "none" => reader'[s] # "none"
                            /\ answers'[s] # answers[s] => reader[s] # "none"
    BY <1>2 DEF OpenerStep, Bind, BindDies, ConnectOk, ConnectFails, OpenFails, Flush,
         FlushFails, SendReady, ReadyFails, ReaderStep, RemoteData, RemoteEnds,
         ReaderStops, ReaderExits, openerVars, socketVars, TypeInv, TypeOK, ExitTypeOK
  <2>3. \A d \in Circuit, s \in StreamId :
          streams'[d][s] # 0 =>
            streams'[d][s] = streams[d][s] \/ openCirc[streams'[d][s]] = d
    <3>1. CASE ConnectOk(i)
      BY <3>1 DEF ConnectOk, TypeInv, TypeOK, ExitTypeOK
    <3>2. CASE ~ConnectOk(i)
      BY <1>2, <3>2, ClosesOnly DEF OpenerStep, Bind, BindDies, ConnectFails, OpenFails,
         Flush, FlushFails, SendReady, ReadyFails, ReaderStep, RemoteData, RemoteEnds,
         ReaderStops, ReaderExits
    <3> QED
      BY <3>1, <3>2
  <2> QED
    BY <1>0, <2>1, <2>2, <2>3, HomesKept DEF Homes
<1> QED
  BY <1>1, <1>2 DEF ExitNext

LEMMA HomesStep ==
  ASSUME TypeInv, BindInv, Homes, [Next]_vars
  PROVE  Homes'
<1>1. CASE UNCHANGED vars
  BY <1>1, HomesClient DEF vars
<1> QED
  BY <1>1, HomesClient, HomesExit DEF Next, CutStep

-------------------------------------------------------------------------------
(* NoneLate and ReadyDone.                                                  *)

LEMMA NoneLateBefore ==
  ASSUME Stays, NoneLate' PROVE NoneLate
BY DEF Stays, NoneLate

(* An opener that is on time uses the id it was started for.                *)
LEMMA OnTime ==
  ASSUME TypeInv, NoneLate, NEW i \in StreamId,
         opener[i] \in {"connect", "flush"} \/ sock[i] # "none" \/ reader[i] # "none"
  PROVE  boundSid[i] = i /\ openCirc[i] \in Circuit
BY DEF TypeInv, OpenersSet, NoneLate, StreamId

LEMMA DoneStays ==
  ASSUME TypeInv, BindInv, [Next]_vars, NEW s \in StreamId, opener[s] = "done"
  PROVE  opener'[s] = "done"
<1>1. ASSUME NEW c \in Circuit, RecvOpen(c)
      PROVE  opener'[s] = "done"
  <2>1. toExit[c] \in Seq(UpFrame) /\ toExit[c] # <<>> /\ Head(toExit[c]).cmd = "OPEN"
    BY <1>1 DEF RecvOpen, Recv, TypeInv, TypeOK, WireTypeOK
  <2>2. 1 \in 1 .. Len(toExit[c]) /\ toExit[c][1] = Head(toExit[c])
    BY <2>1
  <2>3. opener[Head(toExit[c]).sid] = "none"
    BY <2>1, <2>2 DEF BindInv, OpenOnce, IsOpen
  <2> QED
    BY <1>1, <2>3 DEF RecvOpen, TypeInv, TypeOK, ExitTypeOK
<1>2. ASSUME NEW c \in Circuit, TunnelReset(c)
      PROVE  opener'[s] = "done"
  BY <1>2 DEF TunnelReset, ProcessDies, openerVars
<1>3. ASSUME NEW c \in Circuit, Accept(c) \/ LoopStep(c)
      PROVE  opener'[s] = "done"
  BY <1>1, <1>2, <1>3 DEF Accept, LoopStep, RecvData, RecvClose, WriteRemote, WriteFails,
       Park, TunnelEOF, CleanupNext, CleanupClose, Return, openerVars
<1>4. ASSUME NEW i \in StreamId, OpenerStep(i) \/ ReaderStep(i)
      PROVE  opener'[s] = "done"
  BY <1>4 DEF OpenerStep, Bind, BindDies, ConnectOk, ConnectFails, OpenFails, Flush,
       FlushFails, SendReady, ReadyFails, ReaderStep, RemoteData, RemoteEnds,
       ReaderStops, ReaderExits, openerVars, TypeInv, TypeOK, ExitTypeOK
<1>5. CASE ExitNext
  BY <1>3, <1>4, <1>5 DEF ExitNext
<1>6. CASE UNCHANGED vars \/ UNCHANGED exitVars
  BY <1>6 DEF vars, exitVars, openerVars
<1> QED
  BY <1>5, <1>6 DEF Next, CutStep

LEMMA OldReady ==
  ASSUME OldFrames, NEW s, ReadyComes(s)' PROVE ReadyComes(s)
BY DEF OldFrames, ReadyComes

LEMMA ClientReadied ==
  ASSUME TypeInv, ClientNext \/ CutStep, NEW s \in StreamId, Readied(s)'
  PROVE  Readied(s)
<1>1. ReadyComes(s)' => ReadyComes(s)
  BY ClientOldFrames, OldReady
<1>2. CASE CutStep
  BY <1>1, <1>2 DEF CutStep, clientVars, tableVars, handlerVars, Readied
<1>3. CASE \/ OpenTunnelRaises \/ RunnerReopens
           \/ \E c \in Circuit : OpenTunnel(c) \/ CircuitLost(c)
  BY <1>1, <1>3 DEF OpenTunnelRaises, RunnerReopens, OpenTunnel, CircuitLost, tableVars,
                    handlerVars, Readied
<1>4. ASSUME NEW h \in Host, Register(h)
      PROVE  Readied(s)
  BY <1>1, <1>4 DEF Register, MoveTo, Readied, TypeInv, TypeOK, ClientTypeOK
<1>5. ASSUME NEW t \in StreamId, HandlerStep(t)
      PROVE  Readied(s)
  <2>1. ready'[s] = ready[s]
    BY <1>5 DEF HandlerStep, SendOpen, SendOpenRaises, BecomeReady, BrowserLeft,
         OpenTimeout, BrowserSend, BrowserRecv, EndStream, tableVars
  <2>2. handler'[s] \in {"relay", "ended"} => ready[s] \/ handler[s] \in {"relay", "ended"}
    BY <1>5 DEF HandlerStep, SendOpen, SendOpenRaises, BecomeReady, BrowserLeft,
         OpenTimeout, BrowserSend, BrowserRecv, EndStream, MoveTo, TypeInv, TypeOK,
         ClientTypeOK
  <2>3. sent'[s] > 0 => sent[s] > 0 \/ handler[s] = "relay"
    BY <1>5 DEF HandlerStep, SendOpen, SendOpenRaises, BecomeReady, BrowserLeft,
         OpenTimeout, BrowserSend, BrowserRecv, EndStream, TypeInv, TypeOK,
         ClientTypeOK
  <2> QED
    BY <1>1, <2>1, <2>2, <2>3 DEF Readied
<1>6. ASSUME NEW c \in Circuit, Dispatch(c)
      PROVE  Readied(s)
  <2>1. toClient[c] \in Seq(DownFrame) /\ toClient[c] # <<>>
    BY <1>6 DEF Dispatch, TypeInv, TypeOK, WireTypeOK
  <2>2. PICK f : f = Head(toClient[c])
    OBVIOUS
  <2>3. f = toClient[c][1] /\ 1 \in 1 .. Len(toClient[c])
    BY <2>1, <2>2
  <2>4. ready'[s] => ready[s] \/ (f.cmd = "READY" /\ f.sid = s)
    BY <1>6, <2>2 DEF Dispatch, TypeInv, TypeOK, ClientTypeOK
  <2>5. UNCHANGED <<handler, sent>>
    BY <1>6 DEF Dispatch, handlerVars
  <2> QED
    BY <1>1, <2>3, <2>4, <2>5 DEF Readied, ReadyComes
<1>7. CASE ClientNext
  BY <1>3, <1>4, <1>5, <1>6, <1>7 DEF ClientNext, RunnerStep
<1> QED
  BY <1>2, <1>7

LEMMA ExitReadied ==
  ASSUME TypeInv, NoneLate, ExitNext, UNCHANGED clientVars, NEW s \in StreamId, Readied(s)'
  PROVE  Readied(s) \/ opener'[s] = "done"
<1>1. UNCHANGED <<ready, handler, sent>>
  BY DEF clientVars, tableVars, handlerVars
<1>2. ASSUME OldFrames
      PROVE  Readied(s)
  BY <1>1, <1>2, OldReady DEF Readied
<1>3. ASSUME NEW c \in Circuit, Accept(c) \/ LoopStep(c)
      PROVE  UNCHANGED toClient
  BY <1>3 DEF Accept, LoopStep, RecvOpen, RecvData, RecvClose, Recv, WriteRemote,
       WriteFails, Park, TunnelEOF, CleanupNext, CleanupClose, Return, TunnelReset, LoseRest, wireVars
<1>4. ASSUME NEW i \in StreamId, NEW f, SendMux(openCirc[i], f), openCirc[i] \in Circuit,
             f.cmd = "READY" /\ f.sid = s => opener'[s] = "done"
      PROVE  Readied(s) \/ opener'[s] = "done"
  <2>1. PICK d \in Circuit : d = openCirc[i]
    BY <1>4
  <2>2. toClient[d] \in Seq(DownFrame)
    BY DEF TypeInv, TypeOK, WireTypeOK
  <2>3. /\ toClient'[d] = Append(toClient[d], f)
        /\ \A c \in Circuit : c # d => toClient'[c] = toClient[c]
    BY <1>4, <2>1 DEF SendMux, TypeInv, TypeOK, WireTypeOK
  <2>4. \A k \in 1 .. Len(toClient'[d]) :
          \/ toClient'[d][k] = f
          \/ k \in 1 .. Len(toClient[d]) /\ toClient'[d][k] = toClient[d][k]
    BY <2>2, <2>3, AppendLast
  <2>5. ReadyComes(s)' => ReadyComes(s) \/ (f.cmd = "READY" /\ f.sid = s)
    BY <2>3, <2>4 DEF ReadyComes
  <2> QED
    BY <1>1, <1>4, <2>5 DEF Readied
<1>5. ASSUME NEW i \in StreamId, OpenerStep(i) \/ ReaderStep(i)
      PROVE  Readied(s) \/ opener'[s] = "done"
  <2>1. CASE SendReady(i)
    <3>1. PICK f : f = ReadyFrame(boundSid[i])
      OBVIOUS
    <3>2. boundSid[i] = i /\ openCirc[i] \in Circuit /\ opener'[i] = "done"
      BY <2>1, OnTime DEF SendReady, TypeInv, TypeOK, ExitTypeOK
    <3>3. SendMux(openCirc[i], f) \/ UNCHANGED toClient
      BY <2>1, <3>1 DEF SendReady, SendMuxLost, wireVars
    <3>4. f.sid = i
      BY <3>1, <3>2 DEF ReadyFrame
    <3> QED
      BY <1>2, <1>4, <3>2, <3>3, <3>4, OldKept
  <2>2. CASE RemoteData(i)
    <3>1. PICK f : f = DataFrame(boundSid[i], [from |-> boundHost[i], n |-> answers[i] + 1])
      OBVIOUS
    <3>2. openCirc[i] \in Circuit
      BY <2>2, OnTime DEF RemoteData
    <3>3. SendMux(openCirc[i], f) /\ f.cmd # "READY"
      BY <2>2, <3>1 DEF RemoteData, DataFrame
    <3> QED
      BY <1>4, <3>2, <3>3
  <2>3. CASE ~SendReady(i) /\ ~RemoteData(i)
    <3>1. UNCHANGED toClient
      BY <1>5, <2>3 DEF OpenerStep, Bind, BindDies, ConnectOk, ConnectFails, OpenFails,
           Flush, FlushFails, ReadyFails, ReaderStep, RemoteEnds, ReaderStops,
           ReaderExits, SendMuxFails, wireVars
    <3> QED
      BY <1>2, <3>1, OldKept
  <2> QED
    BY <2>1, <2>2, <2>3
<1> QED
  BY <1>2, <1>3, <1>5, OldKept DEF ExitNext

LEMMA ReadyDoneStep ==
  ASSUME TypeInv, BindInv, NoneLate, ReadyDone, [Next]_vars
  PROVE  ReadyDone'
<1> SUFFICES ASSUME NEW s \in StreamId, Readied(s)'
             PROVE  opener'[s] = "done"
  BY DEF ReadyDone
<1>1. CASE UNCHANGED vars
  <2>1. Readied(s)
    BY <1>1 DEF vars, wireVars, clientVars, tableVars, handlerVars, Readied, ReadyComes
  <2> QED
    BY <2>1, DoneStays DEF ReadyDone
<1> QED
  BY <1>1, ClientReadied, ExitReadied, DoneStays DEF Next, ReadyDone

-------------------------------------------------------------------------------
(* Before its opener is done nothing of a stream is anywhere.               *)

LEMMA NothingYet ==
  ASSUME TypeInv, BindInv, OnceInv, NoneLate, ReadyDone,
         NEW s \in StreamId, opener[s] # "done"
  PROVE  /\ sent[s] = 0
         /\ queued[s] = <<>> /\ delivered[s] = <<>>
         /\ \A c \in Circuit : /\ pending[c][s] = <<>>
                               /\ \A k \in 1 .. Len(toExit[c]) : ~DataAt(toExit[c], s, k)
                               /\ loop[c] \in {"write", "park"} => cur[c].sid # s
<1>1. sent[s] = 0
  <2>1. sent[s] \in Nat /\ ~(sent[s] > 0)
    BY TunnelWireAssumption DEF ReadyDone, Readied, TypeInv, TypeOK, ClientTypeOK
  <2> QED
    BY <2>1
<1>2. \A p \in UpOf(s) : \A a \in Place : ~At(p, a)
  <2> SUFFICES ASSUME NEW p \in UpOf(s), NEW a \in Place, At(p, a) PROVE FALSE
    OBVIOUS
  <2>1. p \in UpData /\ p.from = s /\ p.n \in Nat /\ p.n >= 1
    BY TunnelWireAssumption DEF UpOf, UpData
  <2>2. p.n <= sent[s]
    BY <2>1 DEF OnceInv, WasSent
  <2> QED
    BY <1>1, <2>1, <2>2
<1>3. boundSid[s] # s => queued[s] = <<>> /\ delivered[s] = <<>>
  <2> SUFFICES ASSUME boundSid[s] # s PROVE queued[s] = <<>> /\ delivered[s] = <<>>
    OBVIOUS
  <2>1. boundSid[s] = 0
    BY DEF NoneLate
  <2>2. UpOf(0) = {}
    BY DEF UpOf, UpData, StreamId
  <2>3. queued[s] \in Seq({}) /\ delivered[s] \in Seq({})
    BY <2>1, <2>2 DEF BindInv, PayloadsRight
  <2> QED
    BY <2>3
<1>4. ASSUME NEW q \in Seq(UpOf(s)), NEW b, NEW i \in Nat, NEW j \in Nat,
             \A p, k : k \in 1 .. Len(q) /\ q[k] = p => At(p, <<b, i, j, k>>),
             b \in {"parked", "queued", "written"}
      PROVE  q = <<>>
  <2> SUFFICES ASSUME q # <<>> PROVE FALSE
    OBVIOUS
  <2>1. 1 \in 1 .. Len(q) /\ q[1] \in UpOf(s)
    OBVIOUS
  <2>2. At(q[1], <<b, i, j, 1>>)
    BY <1>4, <2>1
  <2>3. <<b, i, j, 1>> \in Place
    BY <1>4 DEF Place
  <2> QED
    BY <1>2, <2>1, <2>2, <2>3
<1>5. queued[s] = <<>> /\ delivered[s] = <<>>
  <2> SUFFICES ASSUME boundSid[s] = s PROVE queued[s] = <<>> /\ delivered[s] = <<>>
    BY <1>3
  <2>1. queued[s] \in Seq(UpOf(s)) /\ delivered[s] \in Seq(UpOf(s)) /\ s \in Nat
    BY DEF BindInv, PayloadsRight, StreamId
  <2>2. \A p, k : k \in 1 .. Len(queued[s]) /\ queued[s][k] = p => At(p, <<"queued", s, 0, k>>)
    BY DEF At, Queued
  <2>3. \A p, k : k \in 1 .. Len(delivered[s]) /\ delivered[s][k] = p
                  => At(p, <<"written", s, 0, k>>)
    BY DEF At, Written
  <2>4. queued[s] = <<>>
    BY <1>4, <2>1, <2>2
  <2>5. delivered[s] = <<>>
    BY <1>4, <2>1, <2>3
  <2> QED
    BY <2>4, <2>5
<1>6. ASSUME NEW c \in Circuit
      PROVE  /\ pending[c][s] = <<>>
             /\ \A k \in 1 .. Len(toExit[c]) : ~DataAt(toExit[c], s, k)
             /\ loop[c] \in {"write", "park"} => cur[c].sid # s
  <2>0. c \in Nat /\ s \in Nat
    BY DEF Circuit, StreamId
  <2>1. pending[c][s] = <<>>
    <3>1. pending[c][s] \in Seq(UpOf(s))
      BY DEF BindInv, PayloadsRight
    <3>2. \A p, k : k \in 1 .. Len(pending[c][s]) /\ pending[c][s][k] = p
                    => At(p, <<"parked", c, s, k>>)
      BY DEF At, Parked
    <3> QED
      BY <1>4, <2>0, <3>1, <3>2
  <2>2. ASSUME NEW k \in 1 .. Len(toExit[c]), DataAt(toExit[c], s, k)
        PROVE  FALSE
    <3>1. toExit[c][k] \in UpFrame
      BY DEF TypeInv, TypeOK, WireTypeOK
    <3>2. toExit[c][k].data \in UpOf(s)
      BY <2>2, <3>1, UpFrames DEF DataAt
    <3>3. At(toExit[c][k].data, <<"wire", c, 0, k>>)
      BY <2>2 DEF At, OnWire, DataAt
    <3>4. <<"wire", c, 0, k>> \in Place
      BY <2>0 DEF Place
    <3> QED
      BY <1>2, <3>2, <3>3, <3>4
  <2>3. ASSUME loop[c] \in {"write", "park"}, cur[c].sid = s
        PROVE  FALSE
    <3>1. hand[c].data \in UpOf(s)
      BY <2>3 DEF TypeInv, LoopsSet
    <3>2. At(hand[c].data, <<"hand", c, 0, 0>>)
      BY <2>3 DEF At, InHand
    <3>3. <<"hand", c, 0, 0>> \in Place
      BY <2>0 DEF Place
    <3> QED
      BY <1>2, <3>1, <3>2, <3>3
  <2> QED
    BY <2>1, <2>2, <2>3
<1> QED
  BY <1>1, <1>5, <1>6

LEMMA LateInvariant == Spec => [](TypeInv /\ BindInv /\ OnceInv /\ (NoneLate => ReadyDone))
<1>1. Init => ReadyDone
  BY DEF Init, WireInit, ClientInit, ReadyDone, Readied, ReadyComes
<1>2. TypeInv /\ BindInv /\ (NoneLate => ReadyDone) /\ [Next]_vars => (NoneLate => ReadyDone)'
  <2> SUFFICES ASSUME TypeInv, BindInv, NoneLate => ReadyDone, [Next]_vars, NoneLate'
               PROVE  ReadyDone'
    BY DEF NoneLate, ReadyDone, Readied, ReadyComes
  <2> QED
    BY StepStays, NoneLateBefore, ReadyDoneStep
<1> QED
  BY <1>1, <1>2, TypeInvariant, BindInvariant, OnceInvariant, PTL DEF Spec

(* A payload that was parked is never taken out again while no opener runs  *)
(* late, in whatever order openers connect, frames arrive and circuits are  *)
(* replaced: what an opener takes from pending is empty.                    *)
THEOREM ParkedForEverHolds == Spec => ParkedForEver
<1> DEFINE Grows == NoneLate' => \A c \in Circuit, s \in StreamId :
                      Len(pending'[c][s]) >= Len(pending[c][s])
<1>1. ASSUME TypeInv, BindInv, OnceInv, NoneLate => ReadyDone, [Next]_vars
      PROVE  [Grows]_vars
  <2> SUFFICES ASSUME NoneLate', NEW c \in Circuit, NEW s \in StreamId
               PROVE  Len(pending'[c][s]) >= Len(pending[c][s])
    OBVIOUS
  <2>1. NoneLate /\ ReadyDone
    BY <1>1, StepStays, NoneLateBefore
  <2>2. pending[c][s] \in Seq(UpData)
    BY <1>1 DEF TypeInv, TypeOK, ExitTypeOK
  <2>3. Len(pending[c][s]) \in Nat
    BY <2>2
  <2>4. ASSUME UNCHANGED pending
        PROVE  Len(pending'[c][s]) >= Len(pending[c][s])
    BY <2>3, <2>4
  <2>5. ASSUME NEW d \in Circuit, Park(d)
        PROVE  Len(pending'[c][s]) >= Len(pending[c][s])
    <3>1. pending'[c][s] = pending[c][s] \/ pending'[c][s] = Append(pending[c][s], hand[d].data)
      BY <1>1, <2>5 DEF Park, TypeInv, TypeOK, ExitTypeOK
    <3> QED
      BY <2>2, <2>3, <3>1, AppendLast
  <2>6. ASSUME NEW i \in StreamId, ConnectOk(i)
        PROVE  Len(pending'[c][s]) >= Len(pending[c][s])
    <3>1. opener[i] = "connect" /\ boundSid[i] = i /\ openCirc[i] \in Circuit
      BY <1>1, <2>1, <2>6, OnTime DEF ConnectOk
    <3>2. pending[openCirc[i]][i] = <<>>
      BY <1>1, <2>1, <3>1, NothingYet
    <3>3. pending'[c][s] = pending[c][s]
      BY <1>1, <2>6, <3>1, <3>2 DEF ConnectOk, TypeInv, TypeOK, ExitTypeOK
    <3> QED
      BY <2>3, <3>3
  <2>7. ASSUME NEW d \in Circuit, Accept(d) \/ LoopStep(d), ~Park(d)
        PROVE  UNCHANGED pending
    BY <2>7 DEF Accept, LoopStep, RecvOpen, RecvData, RecvClose, WriteRemote, WriteFails,
         TunnelEOF, CleanupNext, CleanupClose, Return, TunnelReset
  <2>8. ASSUME NEW i \in StreamId, OpenerStep(i) \/ ReaderStep(i), ~ConnectOk(i)
        PROVE  UNCHANGED pending
    BY <2>8 DEF OpenerStep, Bind, BindDies, ConnectFails, OpenFails, Flush, FlushFails,
         SendReady, ReadyFails, ReaderStep, RemoteData, RemoteEnds, ReaderStops, ReaderExits
  <2>9. CASE ExitNext
    BY <2>4, <2>5, <2>6, <2>7, <2>8, <2>9 DEF ExitNext
  <2>10. CASE UNCHANGED vars \/ UNCHANGED exitVars
    BY <2>4, <2>10 DEF vars, exitVars
  <2> QED
    BY <1>1, <2>9, <2>10 DEF Next, CutStep
<1>2. TypeInv /\ BindInv /\ OnceInv /\ (NoneLate => ReadyDone) /\ [Next]_vars => [Grows]_vars
  BY <1>1
<1> QED
  BY <1>2, LateInvariant, PTL DEF Spec, ParkedForEver

-------------------------------------------------------------------------------
(* UpOrder.                                                                 *)

(* What the order of the payloads rests on.                                 *)
Settled == TypeInv /\ BindInv /\ OnceInv /\ Homes /\ NoneLate /\ ReadyDone

LEMMA UpWhere ==
  ASSUME Settled, NEW s \in StreamId, sock[s] # "none"
  PROVE  openCirc[s] \in Circuit /\ opener[s] # "none" /\ boundSid[s] = s
BY OnTime DEF Settled, TypeInv, OpenersSet

(* The payloads on the wire have been sent.                                 *)
LEMMA UpSent ==
  ASSUME Settled, NEW s \in StreamId, NEW c \in Circuit, NEW k \in 1 .. Len(toExit[c]),
         DataAt(toExit[c], s, k)
  PROVE  toExit[c][k].data.n \in Nat /\ toExit[c][k].data.n <= sent[s]
<1>1. toExit[c][k] \in UpFrame
  BY DEF Settled, TypeInv, TypeOK, WireTypeOK
<1>2. toExit[c][k].data \in UpOf(s)
  BY <1>1, UpFrames DEF DataAt
<1>3. At(toExit[c][k].data, <<"wire", c, 0, k>>)
  BY DEF At, OnWire, DataAt
<1>4. <<"wire", c, 0, k>> \in Place
  BY DEF Place, Circuit
<1> QED
  BY <1>2, <1>3, <1>4, TunnelWireAssumption DEF Settled, OnceInv, WasSent, UpOf, UpData

(* Stream s is not concerned, or only by frames of others.                  *)
LEMMA UpKept ==
  ASSUME NEW s \in StreamId, UpRight(s), delivered'[s] = delivered[s], sent'[s] = sent[s],
         sock'[s] = "open" =>
           LET c == openCirc[s] IN
             /\ sock[s] = "open"
             /\ openCirc'[s] = c
             /\ streams'[c][s] = streams[c][s]
             /\ InWrite(s)' <=> InWrite(s)
             /\ InWrite(s) => hand'[c] = hand[c]
             /\ \A e : Continues(toExit[c], s, e) => Continues(toExit'[c], s, e)
             /\ circuit' = c /\ link'[c] = "open" =>
                  /\ circuit = c /\ link[c] = "open"
                  /\ \A e, n : Reaches(toExit[c], s, e, n) => Reaches(toExit'[c], s, e, n)
  PROVE  UpRight(s)'
<1>1. InSequence(delivered'[s])
  BY DEF UpRight, InSequence
<1>2. ASSUME sock'[s] = "open"
      PROVE  UpOpen(s)'
  <2>1. UpOpen(s)
    BY <1>2 DEF UpRight
  <2>2. NextUp(s)' = NextUp(s)
    BY <1>2 DEF NextUp
  <2> QED
    BY <1>2, <2>1, <2>2 DEF UpOpen
<1> QED
  BY <1>1, <1>2 DEF UpRight

LEMMA UpRecv ==
  ASSUME Settled, UpOrder, NEW c \in Circuit, NEW cmd, Recv(c, cmd), NEW s \in StreamId,
         ~(cmd = "DATA" /\ Head(toExit[c]).sid = s)
  PROVE  \A d \in Circuit :
           /\ \A e : Continues(toExit[d], s, e) => Continues(toExit'[d], s, e)
           /\ \A e, n : Reaches(toExit[d], s, e, n) => Reaches(toExit'[d], s, e, n)
<1>1. /\ toExit[c] \in Seq(UpFrame) /\ toExit[c] # <<>>
      /\ toExit'[c] = Tail(toExit[c])
      /\ \A d \in Circuit : d # c => toExit'[d] = toExit[d]
  BY RecvShifts DEF Settled
<1>2. ~DataAt(toExit[c], s, 1)
  <2>1. toExit[c][1] = Head(toExit[c])
    BY <1>1
  <2> QED
    BY <2>1 DEF Recv, DataAt
<1> QED
  BY <1>1, <1>2, ContTail

(* close_stream: what can still be written is registered where it was.      *)
LEMMA UpClose ==
  ASSUME Settled, UpOrder, NEW c \in Circuit, NEW t \in StreamId, CloseStream(c, t),
         NEW s \in StreamId, sock'[s] = "open"
  PROVE  /\ sock[s] = "open" /\ openCirc[s] \in Circuit
         /\ streams'[openCirc[s]][s] = streams[openCirc[s]][s]
         /\ ~(openCirc[s] = c /\ t = s)
<1>1. sock[s] = "open" /\ streams[c][t] # s
  BY DEF CloseStream
<1>2. openCirc[s] \in Circuit /\ streams[openCirc[s]][s] = s
  BY <1>1, UpWhere DEF UpOrder, UpRight, UpOpen
<1>3. ~(openCirc[s] = c /\ t = s)
  BY <1>1, <1>2
<1> QED
  BY <1>1, <1>2, <1>3 DEF CloseStream, Settled, TypeInv, TypeOK, ExitTypeOK

LEMMA UpRecvOpen ==
  ASSUME Settled, UpOrder, NEW c \in Circuit, RecvOpen(c), UNCHANGED clientVars,
         NEW s \in StreamId
  PROVE  UpRight(s)'
<1>1. PICK i \in StreamId : i = Head(toExit[c]).sid /\ opener[i] = "none"
  <2>1. toExit[c] \in Seq(UpFrame) /\ toExit[c] # <<>> /\ Head(toExit[c]).cmd = "OPEN"
    BY DEF RecvOpen, Recv, Settled, TypeInv, TypeOK, WireTypeOK
  <2>2. 1 \in 1 .. Len(toExit[c]) /\ toExit[c][1] = Head(toExit[c])
    BY <2>1
  <2>3. Head(toExit[c]) \in UpFrame /\ opener[Head(toExit[c]).sid] = "none"
    BY <2>1, <2>2 DEF Settled, BindInv, OpenOnce, IsOpen
  <2> QED
    BY <2>3, UpFrames
<1>2. /\ s # i => openCirc'[s] = openCirc[s]
      /\ UNCHANGED <<loop, hand, streams, sock, delivered, link, circuit, sent>>
  BY <1>1 DEF RecvOpen, Recv, socketVars, clientVars, runnerVars, handlerVars, Settled,
              TypeInv, TypeOK, ExitTypeOK
<1>3. sock[s] = "open" => s # i /\ openCirc[s] \in Circuit
  BY <1>1, UpWhere
<1>4. \A d \in Circuit :
        /\ \A e : Continues(toExit[d], s, e) => Continues(toExit'[d], s, e)
        /\ \A e, n : Reaches(toExit[d], s, e, n) => Reaches(toExit'[d], s, e, n)
  BY UpRecv DEF RecvOpen
<1>5. s # i => (InWrite(s)' <=> InWrite(s))
  BY <1>2 DEF InWrite
<1> QED
  BY <1>2, <1>3, <1>4, <1>5, UpKept DEF UpOrder

LEMMA UpRecvData ==
  ASSUME Settled, UpOrder, NEW c \in Circuit, RecvData(c), UNCHANGED clientVars,
         NEW s \in StreamId
  PROVE  UpRight(s)'
<1>1. /\ toExit[c] \in Seq(UpFrame) /\ toExit[c] # <<>>
      /\ toExit'[c] = Tail(toExit[c]) /\ loop[c] = "recv"
      /\ \A d \in Circuit : d # c => toExit'[d] = toExit[d]
  BY RecvShifts DEF RecvData, Settled
<1>2. PICK f \in UpFrame : f = Head(toExit[c]) /\ f = toExit[c][1] /\ 1 \in 1 .. Len(toExit[c])
  BY <1>1
<1>3. f.cmd = "DATA" /\ f.sid \in StreamId
  BY <1>2, UpFrames DEF RecvData, Recv
<1>4. PICK r : r = streams[c][f.sid]
  OBVIOUS
<1>5. /\ \A d \in Circuit :
           /\ loop'[d] = IF d = c THEN IF r = 0 THEN "park" ELSE "write" ELSE loop[d]
           /\ hand'[d] = IF d = c THEN [conn |-> r, data |-> f.data] ELSE hand[d]
      /\ UNCHANGED <<openCirc, streams, sock, delivered, link, circuit, sent>>
  BY <1>2, <1>4 DEF RecvData, Recv, openerVars, socketVars, clientVars, runnerVars,
     handlerVars, Settled, TypeInv, TypeOK, ExitTypeOK
<1>6. sock[s] = "open" => openCirc[s] \in Circuit /\ boundSid[s] = s
  BY UpWhere
<1>7. CASE f.sid # s
  <2>1. \A d \in Circuit :
        /\ \A e : Continues(toExit[d], s, e) => Continues(toExit'[d], s, e)
        /\ \A e, n : Reaches(toExit[d], s, e, n) => Reaches(toExit'[d], s, e, n)
    BY <1>2, <1>7, UpRecv DEF RecvData
  <2>2. ASSUME sock[s] = "open"
        PROVE  /\ InWrite(s)' <=> InWrite(s)
               /\ InWrite(s) => hand'[openCirc[s]] = hand[openCirc[s]]
    <3>1. CASE openCirc[s] = c
      <4>1. r # s
        BY <1>3, <1>4, <1>6, <1>7, <2>2 DEF Settled, BindInv, StreamsRight, StreamId
      <4> QED
        BY <1>1, <1>5, <3>1, <4>1 DEF InWrite
    <3>2. CASE openCirc[s] # c
      BY <1>5, <1>6, <2>2, <3>2 DEF InWrite
    <3> QED
      BY <3>1, <3>2
  <2> QED
    BY <1>5, <1>6, <2>1, <2>2, UpKept DEF UpOrder
<1>8. CASE f.sid = s /\ sock[s] = "open" /\ openCirc[s] = c
  <2>1. UpOpen(s) /\ InSequence(delivered[s])
    BY <1>8 DEF UpOrder, UpRight
  <2>2. r = s /\ s # 0
    BY <1>4, <1>8, <2>1 DEF UpOpen, StreamId
  <2>3. PICK n \in Nat : n = Len(delivered[s])
    BY DEF Settled, TypeInv, TypeOK, ExitTypeOK
  <2>4. ~InWrite(s) /\ InWrite(s)'
    BY <1>1, <1>5, <1>8, <2>2 DEF InWrite
  <2>5. NextUp(s) = n + 1 /\ NextUp(s)' = n + 2
    BY <1>5, <2>3, <2>4 DEF NextUp
  <2>6. Continues(toExit[c], s, n + 1) /\ DataAt(toExit[c], s, 1)
    BY <1>2, <1>3, <1>8, <2>1, <2>5 DEF UpOpen, DataAt
  <2>7. \A k \in 1 .. Len(toExit[c]) : DataAt(toExit[c], s, k) =>
          toExit[c][k].data.n \in Nat /\ toExit[c][k].data.n <= sent[s]
    BY UpSent
  <2>8. sent[s] \in Nat /\ n + 1 \in Nat
    BY DEF Settled, TypeInv, TypeOK, ClientTypeOK
  <2>9. /\ toExit[c][1].data.n = n + 1
        /\ Continues(Tail(toExit[c]), s, n + 1 + 1)
        /\ \A m \in Nat : Reaches(toExit[c], s, n + 1, m) /\ n + 1 <= m
                          => Reaches(Tail(toExit[c]), s, n + 1 + 1, m)
    BY <1>1, <2>6, <2>7, <2>8, ContTake
  <2>10. n + 1 <= sent[s]
    BY <1>2, <2>6, <2>7, <2>9
  <2>11. /\ Continues(toExit'[c], s, n + 2)
         /\ circuit = c /\ link[c] = "open" => Reaches(toExit'[c], s, n + 2, sent[s])
    <3>1. n + 1 + 1 = n + 2
      OBVIOUS
    <3> QED
      BY <1>1, <1>8, <2>1, <2>5, <2>8, <2>9, <2>10, <3>1 DEF UpOpen
  <2>12. hand'[c].data.n = n + 1
    BY <1>2, <1>5, <2>9
  <2>13. UpOpen(s)'
    BY <1>5, <1>8, <2>1, <2>3, <2>5, <2>11, <2>12 DEF UpOpen
  <2> QED
    BY <1>5, <2>1, <2>13 DEF UpRight, InSequence
<1>9. CASE f.sid = s /\ sock[s] = "open" /\ openCirc[s] # c
  <2>1. /\ InWrite(s)' <=> InWrite(s)
        /\ InWrite(s) => hand'[openCirc[s]] = hand[openCirc[s]]
    BY <1>5, <1>6, <1>9 DEF InWrite
  <2>2. toExit'[openCirc[s]] = toExit[openCirc[s]]
    BY <1>1, <1>6, <1>9
  <2> QED
    BY <1>5, <1>9, <2>1, <2>2, UpKept DEF UpOrder
<1>10. CASE sock[s] # "open"
  BY <1>5, <1>10 DEF UpOrder, UpRight, InSequence
<1> QED
  BY <1>7, <1>8, <1>9, <1>10

LEMMA UpRecvClose ==
  ASSUME Settled, UpOrder, NEW c \in Circuit, RecvClose(c), UNCHANGED clientVars,
         NEW s \in StreamId
  PROVE  UpRight(s)'
<1>1. PICK t \in StreamId : t = Head(toExit[c]).sid
  <2>1. Head(toExit[c]) \in UpFrame
    BY RecvShifts, SeqHeadTail DEF RecvClose, Settled
  <2> QED
    BY <2>1, UpFrames
<1>2. /\ CloseStream(c, t)
      /\ UNCHANGED <<loop, hand, openCirc, delivered, link, circuit, sent>>
  BY <1>1 DEF RecvClose, Recv, openerVars, clientVars, runnerVars, handlerVars
<1>3. \A d \in Circuit :
        /\ \A e : Continues(toExit[d], s, e) => Continues(toExit'[d], s, e)
        /\ \A e, n : Reaches(toExit[d], s, e, n) => Reaches(toExit'[d], s, e, n)
  BY UpRecv DEF RecvClose
<1>4. sock'[s] = "open" => /\ sock[s] = "open" /\ openCirc[s] \in Circuit
                           /\ streams'[openCirc[s]][s] = streams[openCirc[s]][s]
  BY <1>2, UpClose
<1>5. InWrite(s)' <=> InWrite(s)
  BY <1>2 DEF InWrite
<1> QED
  BY <1>2, <1>3, <1>4, <1>5, UpKept DEF UpOrder

LEMMA UpWriteRemote ==
  ASSUME Settled, UpOrder, NEW c \in Circuit, WriteRemote(c), UNCHANGED clientVars,
         NEW s \in StreamId
  PROVE  UpRight(s)'
<1>1. PICK j \in StreamId : j = hand[c].conn /\ openCirc[j] = c /\ sock[j] = "open"
  BY DEF WriteRemote, Writable, Settled, TypeInv, LoopsSet, Homes
<1>2. /\ \A i \in StreamId : delivered'[i] = IF i = j THEN Append(delivered[j], hand[c].data)
                                             ELSE delivered[i]
      /\ \A d \in Circuit : /\ loop'[d] = IF d = c THEN "recv" ELSE loop[d]
                            /\ d # c => hand'[d] = hand[d]
      /\ loop[c] = "write"
      /\ UNCHANGED <<toExit, streams, openCirc, sock, link, circuit, sent>>
  BY <1>1 DEF WriteRemote, Deliver, wireVars, openerVars, clientVars, runnerVars,
     handlerVars, Settled, TypeInv, TypeOK, ExitTypeOK
<1>3. sock[s] = "open" => openCirc[s] \in Circuit
  BY UpWhere
<1>4. CASE s = j
  <2>1. UpOpen(s) /\ InSequence(delivered[s]) /\ InWrite(s) /\ ~InWrite(s)'
    BY <1>1, <1>2, <1>4 DEF UpOrder, UpRight, InWrite
  <2>2. PICK n \in Nat : n = Len(delivered[s])
    BY DEF Settled, TypeInv, TypeOK, ExitTypeOK
  <2>3. hand[c].data.n = n + 1
    BY <1>1, <1>4, <2>1, <2>2 DEF UpOpen
  <2>4. /\ Len(delivered'[s]) = n + 1
        /\ \A k \in 1 .. n + 1 :
             delivered'[s][k] = IF k = n + 1 THEN hand[c].data ELSE delivered[s][k]
    <3>1. delivered[s] \in Seq(UpData)
      BY DEF Settled, TypeInv, TypeOK, ExitTypeOK
    <3>2. delivered'[s] = Append(delivered[s], hand[c].data)
      BY <1>2, <1>4
    <3> QED
      BY <2>2, <3>1, <3>2, AppendLast
  <2>5. InSequence(delivered'[s])
    BY <2>1, <2>2, <2>3, <2>4 DEF InSequence
  <2>6. NextUp(s) = n + 2 /\ NextUp(s)' = n + 2
    BY <2>1, <2>2, <2>4 DEF NextUp
  <2>7. UpOpen(s)'
    BY <1>2, <2>1, <2>6 DEF UpOpen
  <2> QED
    BY <2>5, <2>7 DEF UpRight
<1>5. CASE s # j
  <2>1. sock[s] = "open" => /\ InWrite(s)' <=> InWrite(s)
                            /\ InWrite(s) => hand'[openCirc[s]] = hand[openCirc[s]]
    BY <1>1, <1>2, <1>3, <1>5 DEF InWrite
  <2> QED
    BY <1>2, <1>3, <1>5, <2>1, UpKept DEF UpOrder
<1> QED
  BY <1>4, <1>5

LEMMA UpWriteFails ==
  ASSUME Settled, UpOrder, NEW c \in Circuit, WriteFails(c), UNCHANGED clientVars,
         NEW s \in StreamId
  PROVE  UpRight(s)'
<1>1. PICK j \in StreamId : j = hand[c].conn /\ cur[c].sid = j
  <2>1. hand[c].conn \in StreamId /\ cur[c].sid \in StreamId
        /\ boundSid[hand[c].conn] = cur[c].sid
    BY DEF WriteFails, Settled, TypeInv, LoopsSet, BindInv, PayloadsRight
  <2> QED
    BY <2>1 DEF Settled, NoneLate, StreamId
<1>2. /\ CloseStream(c, j)
      /\ \A d \in Circuit : /\ loop'[d] = IF d = c THEN "recv" ELSE loop[d]
                            /\ d # c => hand'[d] = hand[d]
      /\ UNCHANGED <<toExit, openCirc, delivered, link, circuit, sent>>
  BY <1>1 DEF WriteFails, wireVars, openerVars, clientVars, runnerVars, handlerVars, Settled,
     TypeInv, TypeOK, ExitTypeOK
<1>3. sock'[s] = "open" => /\ sock[s] = "open" /\ openCirc[s] \in Circuit
                           /\ streams'[openCirc[s]][s] = streams[openCirc[s]][s]
                           /\ ~(openCirc[s] = c /\ j = s)
  BY <1>2, UpClose
<1>4. sock'[s] = "open" => /\ InWrite(s)' <=> InWrite(s)
                           /\ InWrite(s) => hand'[openCirc[s]] = hand[openCirc[s]]
  BY <1>1, <1>2, <1>3 DEF InWrite
<1> QED
  BY <1>2, <1>3, <1>4, UpKept DEF UpOrder

LEMMA UpCleanupClose ==
  ASSUME Settled, UpOrder, NEW c \in Circuit, CleanupClose(c), UNCHANGED clientVars,
         NEW s \in StreamId
  PROVE  UpRight(s)'
<1>1. PICK j \in StreamId : j = cur[c].sid
  BY DEF CleanupClose, Settled, TypeInv, LoopsSet
<1>2. /\ CloseStream(c, j)
      /\ loop[c] = "closing"
      /\ \A d \in Circuit : loop'[d] = IF d = c THEN "cleanup" ELSE loop[d]
      /\ UNCHANGED <<hand, toExit, openCirc, delivered, link, circuit, sent>>
  BY <1>1 DEF CleanupClose, wireVars, openerVars, clientVars, runnerVars, handlerVars, Settled,
     TypeInv, TypeOK, ExitTypeOK
<1>3. sock'[s] = "open" => /\ sock[s] = "open" /\ openCirc[s] \in Circuit
                           /\ streams'[openCirc[s]][s] = streams[openCirc[s]][s]
                           /\ ~(openCirc[s] = c /\ j = s)
  BY <1>2, UpClose
<1>4. sock'[s] = "open" => /\ InWrite(s)' <=> InWrite(s)
                           /\ InWrite(s) => hand'[openCirc[s]] = hand[openCirc[s]]
  BY <1>2, <1>3 DEF InWrite
<1> QED
  BY <1>2, <1>3, <1>4, UpKept DEF UpOrder

LEMMA UpLoopElse ==
  ASSUME Settled, UpOrder, NEW c \in Circuit,
         Accept(c) \/ Park(c) \/ TunnelEOF(c) \/ CleanupNext(c) \/ Return(c) \/ TunnelReset(c),
         UNCHANGED clientVars, NEW s \in StreamId
  PROVE  UpRight(s)'
<1>1. UNCHANGED <<delivered, openCirc, link, circuit, sent>>
  BY DEF Accept, Park, TunnelEOF, CleanupNext, Return, TunnelReset, LoseRest, ProcessDies,
     wireVars, openerVars, socketVars, clientVars, runnerVars, handlerVars
<1>2. sock[s] = "open" => openCirc[s] \in Circuit
  BY UpWhere
<1>3. CASE Accept(c) \/ Park(c) \/ CleanupNext(c) \/ Return(c)
  <2>1. /\ UNCHANGED <<sock, streams, toExit>>
        /\ \A d \in Circuit : /\ loop'[d] = "write" <=> loop[d] = "write"
                              /\ loop[d] = "write" => hand'[d] = hand[d]
    BY <1>3 DEF Accept, EnterMux, Park, CleanupNext, Return, wireVars, socketVars, Settled,
       TypeInv, TypeOK, ExitTypeOK
  <2>2. sock[s] = "open" => /\ InWrite(s)' <=> InWrite(s)
                            /\ InWrite(s) => hand'[openCirc[s]] = hand[openCirc[s]]
    BY <1>1, <1>2, <2>1 DEF InWrite
  <2> QED
    BY <1>1, <1>2, <2>1, <2>2, UpKept DEF UpOrder
<1>4. CASE TunnelEOF(c) \/ TunnelReset(c)
  <2>1. /\ \A d \in Circuit : toExit'[d] = IF d = c THEN <<>> ELSE toExit[d]
        /\ \A d \in Circuit : loop'[d] = "write" <=> loop[d] = "write"
        /\ link[c] = "closed"
        /\ UNCHANGED hand
    BY <1>4 DEF TunnelEOF, TunnelReset, LoseRest, Settled, TypeInv, TypeOK, WireTypeOK,
       ExitTypeOK
  <2>2. sock'[s] = "open" => /\ sock[s] = "open"
                             /\ streams'[openCirc[s]][s] = streams[openCirc[s]][s]
    <3>1. CASE TunnelReset(c)
      BY <3>1 DEF TunnelReset, ProcessDies
    <3>2. CASE TunnelEOF(c)
      BY <3>2 DEF TunnelEOF, socketVars
    <3> QED
      BY <1>4, <3>1, <3>2
  <2>3. sock[s] = "open" => /\ InWrite(s)' <=> InWrite(s)
                            /\ InWrite(s) => hand'[openCirc[s]] = hand[openCirc[s]]
    BY <1>1, <1>2, <2>1 DEF InWrite
  <2>4. \A e : Continues(<<>>, s, e)
    BY ContNone
  <2>5. sock[s] = "open" =>
          /\ \A e : Continues(toExit[openCirc[s]], s, e) => Continues(toExit'[openCirc[s]], s, e)
          /\ link'[openCirc[s]] = "open" => toExit'[openCirc[s]] = toExit[openCirc[s]]
    BY <1>1, <1>2, <2>1, <2>4
  <2> QED
    BY <1>1, <2>2, <2>3, <2>5, UpKept DEF UpOrder
<1> QED
  BY <1>3, <1>4

LEMMA UpConnectOk ==
  ASSUME Settled, UpOrder, NEW i \in StreamId, ConnectOk(i), UNCHANGED clientVars,
         NEW s \in StreamId
  PROVE  UpRight(s)'
<1>1. PICK c \in Circuit : c = openCirc[i] /\ boundSid[i] = i /\ opener[i] = "connect"
  BY OnTime DEF ConnectOk, Settled
<1>2. /\ \A j \in StreamId : sock'[j] = IF j = i THEN "open" ELSE sock[j]
      /\ \A d \in Circuit, t \in StreamId :
           streams'[d][t] = IF d = c /\ t = i THEN i ELSE streams[d][t]
      /\ UNCHANGED <<toExit, link, loop, hand, openCirc, delivered, circuit, sent>>
  BY <1>1 DEF ConnectOk, wireVars, loopVars, clientVars, runnerVars, handlerVars, Settled,
     TypeInv, TypeOK, ExitTypeOK
<1>3. CASE s = i
  <2>1. /\ sent[s] = 0 /\ delivered[s] = <<>>
        /\ \A k \in 1 .. Len(toExit[c]) : ~DataAt(toExit[c], s, k)
        /\ loop[c] \in {"write", "park"} => cur[c].sid # s
    BY <1>1, <1>3, NothingYet DEF Settled
  <2>2. ~InWrite(s)'
    <3>1. loop[c] = "write" => boundSid[hand[c].conn] = cur[c].sid
      BY DEF Settled, BindInv, PayloadsRight
    <3> QED
      BY <1>1, <1>2, <1>3, <2>1, <3>1 DEF InWrite
  <2>3. NextUp(s)' = 1
    BY <1>2, <2>1, <2>2 DEF NextUp
  <2>4. Continues(toExit[c], s, 1) /\ Reaches(toExit[c], s, 1, 0)
    BY <2>1, ContNone DEF Reaches
  <2>5. UpOpen(s)'
    BY <1>1, <1>2, <1>3, <2>1, <2>2, <2>3, <2>4 DEF UpOpen
  <2>6. InSequence(delivered'[s])
    BY <1>2, <2>1 DEF InSequence
  <2> QED
    BY <2>5, <2>6 DEF UpRight
<1>4. CASE s # i
  <2>1. sock[s] = "open" => openCirc[s] \in Circuit
    BY UpWhere
  <2>2. InWrite(s)' <=> InWrite(s)
    BY <1>2 DEF InWrite
  <2> QED
    BY <1>2, <1>4, <2>1, <2>2, UpKept DEF UpOrder
<1> QED
  BY <1>3, <1>4

(* An opener or reader gives up a stream.                                   *)
LEMMA UpThreadCloses ==
  ASSUME Settled, UpOrder, NEW c \in Circuit, NEW t \in StreamId, CloseStream(c, t),
         UNCHANGED <<toExit, link, loop, hand, openCirc, delivered, circuit, sent>>,
         NEW s \in StreamId
  PROVE  UpRight(s)'
<1>1. sock'[s] = "open" => /\ sock[s] = "open" /\ openCirc[s] \in Circuit
                           /\ streams'[openCirc[s]][s] = streams[openCirc[s]][s]
  BY UpClose
<1>2. InWrite(s)' <=> InWrite(s)
  BY DEF InWrite
<1> QED
  BY <1>1, <1>2, UpKept DEF UpOrder

LEMMA UpThreads ==
  ASSUME Settled, UpOrder, NEW i \in StreamId, OpenerStep(i) \/ ReaderStep(i),
         UNCHANGED clientVars, NEW s \in StreamId
  PROVE  UpRight(s)'
<1>1. UNCHANGED <<circuit, sent>>
  BY DEF clientVars, runnerVars, handlerVars
<1>2. CASE ConnectOk(i)
  BY <1>2, UpConnectOk
<1>3. CASE ConnectFails(i) \/ FlushFails(i)
  <2>1. openCirc[i] \in Circuit /\ LoopVars(i).sid \in StreamId
    BY <1>3 DEF ConnectFails, FlushFails, LoopVars, Settled, TypeInv, OpenersSet
  <2>2. CloseStream(openCirc[i], LoopVars(i).sid)
    BY <1>3 DEF ConnectFails, FlushFails, OpenFails
  <2>3. UNCHANGED <<toExit, link, loop, hand, openCirc, delivered>>
    BY <1>3 DEF ConnectFails, FlushFails, OpenFails, wireVars, loopVars
  <2> QED
    BY <1>1, <2>1, <2>2, <2>3, UpThreadCloses
<1>4. CASE ReadyFails(i) \/ RemoteEnds(i) \/ ReaderStops(i)
  <2>1. openCirc[i] \in Circuit /\ boundSid[i] \in StreamId
    BY <1>4, OnTime DEF ReadyFails, RemoteEnds, ReaderStops, Settled
  <2>2. CloseStream(openCirc[i], boundSid[i])
    BY <1>4 DEF ReadyFails, RemoteEnds, ReaderStops, ReaderExits
  <2>3. UNCHANGED <<toExit, link, loop, hand, openCirc, delivered>>
    BY <1>4 DEF ReadyFails, SendMuxFails, RemoteEnds, ReaderStops, ReaderExits, wireVars,
       loopVars, openerVars
  <2> QED
    BY <1>1, <2>1, <2>2, <2>3, UpThreadCloses
<1>5. CASE Flush(i)
  <2>1. opener[i] # "done" /\ queued[i] # <<>>
    BY <1>5 DEF Flush
  <2>2. queued[i] = <<>>
    BY <2>1, NothingYet DEF Settled
  <2> QED
    BY <2>1, <2>2
<1>6. CASE Bind(i) \/ BindDies(i) \/ SendReady(i) \/ RemoteData(i)
  <2>1. UNCHANGED <<toExit, link, loop, hand, openCirc, delivered, sock, streams>>
    BY <1>6 DEF Bind, BindDies, SendReady, RemoteData, SendMux, SendMuxLost, wireVars,
       loopVars, openerVars, socketVars
  <2>2. InWrite(s)' <=> InWrite(s)
    BY <2>1 DEF InWrite
  <2> QED
    BY <1>1, <2>1, <2>2, UpKept DEF UpOrder
<1> QED
  BY <1>2, <1>3, <1>4, <1>5, <1>6 DEF OpenerStep, ReaderStep

(* The client sends no payload of s: at most a frame of another kind or     *)
(* stream is added to the current circuit.                                  *)
LEMMA UpOthers ==
  ASSUME Settled, UpOrder, NEW s \in StreamId, NEW f, ~(f.cmd = "DATA" /\ f.sid = s),
         Send(f) \/ UNCHANGED toExit, UNCHANGED exitVars, sent'[s] = sent[s],
         \A c \in Circuit : circuit' = c /\ link'[c] = "open" =>
           (circuit = c /\ link[c] = "open") \/ openCirc[s] # c
  PROVE  UpRight(s)'
<1>1. UNCHANGED <<loop, hand, openCirc, delivered, sock, streams>>
  BY DEF exitVars, loopVars, openerVars, socketVars
<1>2. InWrite(s)' <=> InWrite(s)
  BY <1>1 DEF InWrite
<1>3. \A c \in Circuit :
        /\ \A e : Continues(toExit[c], s, e) => Continues(toExit'[c], s, e)
        /\ \A e, n : Reaches(toExit[c], s, e, n) => Reaches(toExit'[c], s, e, n)
  <2>1. CASE Send(f)
    <3>1. /\ \A c \in Circuit : c # circuit => toExit'[c] = toExit[c]
          /\ toExit[circuit] \in Seq(UpFrame)
          /\ toExit'[circuit] = Append(toExit[circuit], f)
      BY <2>1, SendGrows DEF Settled
    <3> QED
      BY <3>1, ContOther
  <2> QED
    BY <2>1
<1>4. sock[s] = "open" => openCirc[s] \in Circuit
  BY UpWhere
<1> QED
  BY <1>1, <1>2, <1>3, <1>4, UpKept DEF UpOrder

LEMMA UpBrowserSend ==
  ASSUME Settled, UpOrder, NEW s \in StreamId, BrowserSend(s), UNCHANGED exitVars
  PROVE  UpRight(s)'
<1>1. PICK f : f = DataFrame(s, [from |-> s, n |-> sent[s] + 1])
  OBVIOUS
<1>2. f.cmd = "DATA" /\ f.sid = s /\ f.data.n = sent[s] + 1
  BY <1>1 DEF DataFrame
<1>3. /\ Send(f) \/ SendLost
      /\ sent'[s] = sent[s] + 1
      /\ sent[s] \in Nat
      /\ UNCHANGED circuit
  BY <1>1 DEF BrowserSend, runnerVars, Settled, TypeInv, TypeOK, ClientTypeOK
<1>4. UNCHANGED <<loop, hand, openCirc, delivered, sock, streams>>
  BY DEF exitVars, loopVars, openerVars, socketVars
<1>5. InSequence(delivered'[s])
  BY <1>4 DEF UpOrder, UpRight, InSequence
<1>6. ASSUME sock[s] = "open"
      PROVE  UpOpen(s)'
  <2>1. PICK c \in Circuit : c = openCirc[s]
    BY <1>6, UpWhere
  <2>2. UpOpen(s) /\ (InWrite(s)' <=> InWrite(s))
    BY <1>4, <1>6 DEF UpOrder, UpRight, InWrite
  <2>3. PICK e \in Nat : e = NextUp(s) /\ e = NextUp(s)'
    <3>1. Len(delivered[s]) \in Nat
      BY DEF Settled, TypeInv, TypeOK, ExitTypeOK
    <3>2. NextUp(s) \in Nat
      <4>1. CASE InWrite(s)
        BY <3>1, <4>1 DEF NextUp
      <4>2. CASE ~InWrite(s)
        BY <3>1, <4>2 DEF NextUp
      <4> QED
        BY <4>1, <4>2
    <3>3. NextUp(s)' = NextUp(s)
      BY <1>4, <2>2 DEF NextUp
    <3> QED
      BY <3>2, <3>3
  <2>4. Continues(toExit[c], s, e)
    BY <2>1, <2>2, <2>3 DEF UpOpen
  <2>5. CASE Send(f) /\ circuit = c
    <3>1. /\ toExit[c] \in Seq(UpFrame)
          /\ toExit'[c] = Append(toExit[c], f)
          /\ link[c] = "open"
      BY <2>5, SendGrows DEF Settled, Send
    <3>2. Reaches(toExit[c], s, e, sent[s])
      BY <2>1, <2>2, <2>3, <2>5, <3>1 DEF UpOpen
    <3>3. \A k \in 1 .. Len(toExit[c]) : DataAt(toExit[c], s, k) =>
            toExit[c][k].data.n \in Nat /\ toExit[c][k].data.n <= sent[s]
      BY UpSent
    <3>4. /\ Continues(Append(toExit[c], f), s, e)
          /\ Reaches(Append(toExit[c], f), s, e, sent[s] + 1)
      BY <1>2, <1>3, <2>4, <3>1, <3>2, <3>3, ContNext
    <3> QED
      BY <1>3, <1>4, <2>1, <2>2, <2>3, <3>1, <3>4 DEF UpOpen
  <2>6. CASE ~(Send(f) /\ circuit = c)
    <3>1. /\ toExit'[c] = toExit[c]
          /\ circuit = c => link'[c] = "closed"
      BY <1>3, <2>6, SendGrows DEF SendLost, wireVars, Settled
    <3> QED
      BY <1>3, <1>4, <2>1, <2>2, <2>3, <3>1 DEF UpOpen
  <2> QED
    BY <2>5, <2>6
<1> QED
  BY <1>4, <1>5, <1>6 DEF UpRight

LEMMA UpHandlers ==
  ASSUME Settled, UpOrder, NEW t \in StreamId, HandlerStep(t), UNCHANGED exitVars,
         NEW s \in StreamId
  PROVE  UpRight(s)'
<1>1. UNCHANGED <<circuit, link>>
  BY DEF HandlerStep, SendOpen, SendOpenRaises, BecomeReady, BrowserLeft, OpenTimeout,
     BrowserSend, BrowserRecv, EndStream, Send, SendLost, SendRaises, wireVars, runnerVars
<1>2. CASE BrowserSend(t)
  <2>1. CASE s = t
    BY <1>2, <2>1, UpBrowserSend
  <2>2. CASE s # t
    <3>1. PICK f : f = DataFrame(t, [from |-> t, n |-> sent[t] + 1])
      OBVIOUS
    <3>2. f.sid # s /\ (Send(f) \/ UNCHANGED toExit)
      BY <1>2, <2>2, <3>1 DEF BrowserSend, SendLost, wireVars, DataFrame
    <3>3. sent'[s] = sent[s]
      BY <1>2, <2>2 DEF BrowserSend, Settled, TypeInv, TypeOK, ClientTypeOK
    <3> QED
      BY <1>1, <3>2, <3>3, UpOthers
  <2> QED
    BY <2>1, <2>2
<1>3. CASE SendOpen(t)
  <2>1. PICK f : f = OpenFrame(t, dest[t])
    OBVIOUS
  <2>2. f.cmd # "DATA" /\ (Send(f) \/ UNCHANGED toExit) /\ UNCHANGED sent
    BY <1>3, <2>1 DEF SendOpen, SendLost, wireVars, OpenFrame
  <2> QED
    BY <1>1, <2>2, UpOthers
<1>4. CASE ~BrowserSend(t) /\ ~SendOpen(t)
  <2>1. PICK f : f = CloseFrame(t)
    OBVIOUS
  <2>2. f.cmd # "DATA" /\ (Send(f) \/ UNCHANGED toExit) /\ UNCHANGED sent
    BY <1>4, <2>1 DEF HandlerStep, SendOpenRaises, BecomeReady, BrowserLeft, OpenTimeout,
       BrowserRecv, EndStream, SendLost, SendRaises, wireVars, CloseFrame
  <2> QED
    BY <1>1, <2>2, UpOthers
<1> QED
  BY <1>2, <1>3, <1>4

LEMMA UpClient ==
  ASSUME Settled, UpOrder, ClientNext \/ CutStep, UNCHANGED exitVars, NEW s \in StreamId
  PROVE  UpRight(s)'
<1>1. PICK f : f = CloseFrame(s)
  OBVIOUS
<1>2. f.cmd # "DATA"
  BY <1>1 DEF CloseFrame
<1>3. ASSUME NEW c \in Circuit, OpenTunnel(c)
      PROVE  UpRight(s)'
  <2>1. /\ circuit' = c /\ link[c] = "unused"
        /\ UNCHANGED <<toExit, sent>>
    BY <1>3 DEF OpenTunnel, handlerVars
  <2>2. openCirc[s] # c
    <3>1. openCirc[s] = c => opener[s] # "none"
      BY DEF Settled, Homes, Circuit
    <3> QED
      BY <2>1, <3>1 DEF Settled, Homes
  <2>3. \A d \in Circuit : circuit' = d /\ link'[d] = "open" => openCirc[s] # d
    BY <2>1, <2>2
  <2> QED
    BY <1>2, <2>1, <2>3, UpOthers
<1>4. ASSUME UNCHANGED <<toExit, sent>>,
             \A c \in Circuit : circuit' = c /\ link'[c] = "open" =>
               circuit = c /\ link[c] = "open"
      PROVE  UpRight(s)'
  BY <1>2, <1>4, UpOthers
<1>5. CASE CutStep
  BY <1>4, <1>5 DEF CutStep, Cut, clientVars, runnerVars, handlerVars, Settled, TypeInv,
     TypeOK, WireTypeOK
<1>6. CASE OpenTunnelRaises \/ RunnerReopens \/ \E c \in Circuit : Dispatch(c) \/ CircuitLost(c)
  <2>1. UNCHANGED <<toExit, link, sent>> /\ circuit' \in {circuit, 0}
    BY <1>6 DEF OpenTunnelRaises, RunnerReopens, Dispatch, CircuitLost, wireVars,
       runnerVars, handlerVars
  <2> QED
    BY <1>4, <2>1 DEF Circuit
<1>7. ASSUME NEW h \in Host, Register(h)
      PROVE  UpRight(s)'
  <2>1. UNCHANGED <<toExit, link, sent, circuit>>
    BY <1>7 DEF Register, wireVars, runnerVars
  <2> QED
    BY <1>4, <2>1
<1>8. CASE ClientNext
  BY <1>3, <1>6, <1>7, <1>8, UpHandlers DEF ClientNext, RunnerStep
<1> QED
  BY <1>5, <1>8

LEMMA UpStep ==
  ASSUME Settled, UpOrder, [Next]_vars
  PROVE  UpOrder'
<1> SUFFICES ASSUME NEW s \in StreamId PROVE UpRight(s)'
  BY DEF UpOrder
<1>1. CASE UNCHANGED vars
  <2>1. PICK f : f = CloseFrame(s)
    OBVIOUS
  <2>2. f.cmd # "DATA"
    BY <2>1 DEF CloseFrame
  <2>3. UNCHANGED <<exitVars, toExit, sent, circuit, link>>
    BY <1>1 DEF vars, wireVars, clientVars, runnerVars, handlerVars
  <2> QED
    BY <2>2, <2>3, UpOthers
<1>2. ASSUME NEW c \in Circuit, Accept(c) \/ LoopStep(c), UNCHANGED clientVars
      PROVE  UpRight(s)'
  BY <1>2, UpRecvOpen, UpRecvData, UpRecvClose, UpWriteRemote, UpWriteFails, UpCleanupClose,
     UpLoopElse DEF LoopStep
<1>3. CASE ExitNext /\ UNCHANGED clientVars
  BY <1>2, <1>3, UpThreads DEF ExitNext
<1>4. CASE (ClientNext \/ CutStep) /\ UNCHANGED exitVars
  BY <1>4, UpClient
<1> QED
  BY <1>1, <1>3, <1>4 DEF Next, CutStep

-------------------------------------------------------------------------------
(* DownOrder.                                                               *)

LEMMA DownTypes ==
  ASSUME TypeInv, NEW s \in StreamId
  PROVE  /\ queue[s] \in Seq(DownData) /\ got[s] \in Seq(DownData)
         /\ Len(got[s]) \in Nat /\ Len(queue[s]) \in Nat
         /\ answers[s] \in Nat
         /\ NextDown(s) \in Nat /\ NextDown(s) >= 1
         /\ openCirc[s] \in Circuit \cup {0}
         /\ \A d \in Circuit : /\ toClient[d] \in Seq(DownFrame)
                               /\ \A k \in 1 .. Len(toClient[d]) : DataAt(toClient[d], s, k) =>
                                    toClient[d][k].data.n \in Nat /\ toClient[d][k].data.n >= 1
<1>1. /\ queue[s] \in Seq(DownData) /\ got[s] \in Seq(DownData)
      /\ answers[s] \in Nat
      /\ openCirc[s] \in Circuit \cup {0}
  BY TunnelWireAssumption DEF TypeInv, TypeOK, ClientTypeOK, ExitTypeOK
<1>2. Len(got[s]) \in Nat /\ Len(queue[s]) \in Nat
  BY <1>1
<1>3. NextDown(s) \in Nat /\ NextDown(s) >= 1
  <2>1. PICK a \in Nat, b \in Nat : a = Len(got[s]) /\ b = Len(queue[s])
    BY <1>2
  <2>2. NextDown(s) = a + b + 1
    BY <2>1 DEF NextDown
  <2> QED
    BY <2>2
<1>4. ASSUME NEW d \in Circuit
      PROVE  /\ toClient[d] \in Seq(DownFrame)
             /\ \A k \in 1 .. Len(toClient[d]) : DataAt(toClient[d], s, k) =>
                  toClient[d][k].data.n \in Nat /\ toClient[d][k].data.n >= 1
  <2>1. toClient[d] \in Seq(DownFrame)
    BY DEF TypeInv, TypeOK, WireTypeOK
  <2>2. ASSUME NEW k \in 1 .. Len(toClient[d]), DataAt(toClient[d], s, k)
        PROVE  toClient[d][k].data \in DownData
    BY <2>1, <2>2, DownFrames DEF DataAt
  <2> QED
    BY <2>1, <2>2, TunnelWireAssumption DEF DownData
<1> QED
  BY <1>1, <1>2, <1>3, <1>4

(* Stream s is not concerned, or only by frames of others, or it is given   *)
(* up.                                                                      *)
LEMMA DownKept ==
  ASSUME TypeInv, NEW s \in StreamId, DownRight(s),
         got'[s] = got[s], answers'[s] = answers[s], openCirc'[s] = openCirc[s],
         queue'[s] = queue[s] \/ (queue'[s] = <<>> /\ ~registered'[s]),
         \A d \in Circuit : \A k \in 1 .. Len(toClient'[d]) : DataAt(toClient'[d], s, k) =>
           \E l \in 1 .. Len(toClient[d]) : toClient[d][l] = toClient'[d][k],
         registered'[s] /\ circuit' # 0 /\ circuit' = openCirc[s] =>
           /\ registered[s] /\ circuit = circuit'
           /\ \A e : Continues(toClient[circuit], s, e) => Continues(toClient'[circuit], s, e)
           /\ link'[circuit] = "open" =>
                /\ link[circuit] = "open"
                /\ \A e, n : Reaches(toClient[circuit], s, e, n)
                             => Reaches(toClient'[circuit], s, e, n)
  PROVE  DownRight(s)'
<1>1. Arrived(s)'
  <2>1. /\ InSequence(got'[s])
        /\ \A k \in 1 .. Len(queue'[s]) : queue'[s][k].n = Len(got'[s]) + k
    BY DEF DownRight, Arrived, InSequence
  <2>2. NextDown(s)' <= answers[s] + 1
    <3>1. NextDown(s) <= answers[s] + 1
      BY DEF DownRight, Arrived
    <3>2. NextDown(s)' <= NextDown(s) /\ NextDown(s)' \in Nat
      <4>1. Len(queue'[s]) \in Nat /\ Len(queue'[s]) <= Len(queue[s])
        BY DownTypes
      <4>2. PICK a \in Nat, b \in Nat, e \in Nat :
              a = Len(got[s]) /\ b = Len(queue[s]) /\ e = Len(queue'[s])
        BY <4>1, DownTypes
      <4>3. NextDown(s) = a + b + 1 /\ NextDown(s)' = a + e + 1 /\ e <= b
        BY <4>1, <4>2 DEF NextDown
      <4> QED
        BY <4>3
    <3> QED
      BY <3>1, <3>2, DownTypes
  <2> QED
    BY <2>1, <2>2 DEF Arrived
<1>2. ASSUME NEW d \in Circuit, NEW k \in 1 .. Len(toClient'[d]), DataAt(toClient'[d], s, k)
      PROVE  d = openCirc[s] /\ toClient'[d][k].data.n <= answers[s]
  <2>1. PICK l \in 1 .. Len(toClient[d]) : toClient[d][l] = toClient'[d][k]
    BY <1>2
  <2>2. DataAt(toClient[d], s, l)
    BY <1>2, <2>1 DEF DataAt
  <2> QED
    BY <2>1, <2>2 DEF DownRight, Coming
<1>3. ASSUME registered'[s], circuit' # 0, circuit' = openCirc[s]
      PROVE  /\ Continues(toClient'[circuit], s, NextDown(s)')
             /\ link'[circuit] = "open"
                => Reaches(toClient'[circuit], s, NextDown(s)', answers[s])
  <2>1. NextDown(s)' = NextDown(s)
    BY <1>3 DEF NextDown
  <2> QED
    BY <1>3, <2>1 DEF DownRight, Coming
<1>4. Coming(s)'
  BY <1>2, <1>3 DEF Coming
<1> QED
  BY <1>1, <1>4 DEF DownRight

(* The client's end and the exit's end of the same steps.                   *)
LEMMA DownRecvOpen ==
  ASSUME TypeInv, BindInv, Homes, DownOrder, NEW c \in Circuit, RecvOpen(c),
         UNCHANGED clientVars, NEW s \in StreamId
  PROVE  DownRight(s)'
<1>1. PICK i \in StreamId : i = Head(toExit[c]).sid /\ opener[i] = "none"
  <2>1. toExit[c] \in Seq(UpFrame) /\ toExit[c] # <<>> /\ Head(toExit[c]).cmd = "OPEN"
    BY DEF RecvOpen, Recv, TypeInv, TypeOK, WireTypeOK
  <2>2. 1 \in 1 .. Len(toExit[c]) /\ toExit[c][1] = Head(toExit[c])
    BY <2>1
  <2>3. Head(toExit[c]) \in UpFrame /\ opener[Head(toExit[c]).sid] = "none"
    BY <2>1, <2>2 DEF BindInv, OpenOnce, IsOpen
  <2> QED
    BY <2>3, UpFrames
<1>2. /\ s # i => openCirc'[s] = openCirc[s]
      /\ UNCHANGED <<toClient, link, answers, got, queue, registered, circuit>>
  BY <1>1 DEF RecvOpen, Recv, socketVars, clientVars, runnerVars, tableVars, handlerVars,
              TypeInv, TypeOK, ExitTypeOK
<1>3. CASE s # i
  BY <1>2, <1>3, DownKept DEF DownOrder
<1>4. CASE s = i
  <2>1. reader[s] = "none"
    BY <1>1, <1>4 DEF TypeInv, OpenersSet
  <2>2. answers[s] = 0
    BY <2>1, DownTypes DEF Homes
  <2>3. \A d \in Circuit : \A k \in 1 .. Len(toClient[d]) : ~DataAt(toClient[d], s, k)
    BY SMTT(30), <2>2, DownTypes DEF DownOrder, DownRight, Coming
  <2>4. Arrived(s)' /\ NextDown(s)' = NextDown(s)
    BY <1>2 DEF DownOrder, DownRight, Arrived, NextDown, InSequence
  <2>5. NextDown(s) = 1
    <3>1. NextDown(s) <= 0 + 1
      BY <2>2 DEF DownOrder, DownRight, Arrived
    <3> QED
      BY <3>1, DownTypes
  <2>6. \A d \in Circuit : Continues(toClient[d], s, 1) /\ Reaches(toClient[d], s, 1, 0)
    BY <2>3, ContNone DEF Reaches
  <2>7. circuit # 0 => circuit \in Circuit
    BY DEF TypeInv, TypeOK, ClientTypeOK
  <2>8. Coming(s)'
    BY <1>2, <2>2, <2>3, <2>4, <2>5, <2>6, <2>7 DEF Coming
  <2> QED
    BY <2>4, <2>8 DEF DownRight
<1> QED
  BY <1>3, <1>4

(* A frame is sent to the client, and is not an answer of s.                *)
LEMMA DownOthers ==
  ASSUME TypeInv, DownOrder, NEW d \in Circuit, NEW f, SendMux(d, f),
         UNCHANGED <<got, queue, registered, circuit, openCirc>>,
         NEW s \in StreamId, answers'[s] = answers[s], ~(f.cmd = "DATA" /\ f.sid = s)
  PROVE  DownRight(s)'
<1>1. toClient[d] \in Seq(DownFrame)
  BY DownTypes
<1>2. /\ toClient'[d] = Append(toClient[d], f)
      /\ \A c \in Circuit : c # d => toClient'[c] = toClient[c]
      /\ UNCHANGED link
  BY DEF SendMux, TypeInv, TypeOK, WireTypeOK
<1>3. \A c \in Circuit :
        /\ \A e : Continues(toClient[c], s, e) => Continues(toClient'[c], s, e)
        /\ \A e, n : Reaches(toClient[c], s, e, n) => Reaches(toClient'[c], s, e, n)
  BY <1>1, <1>2, ContOther
<1>4. \A c \in Circuit : \A k \in 1 .. Len(toClient'[c]) : DataAt(toClient'[c], s, k) =>
        \E l \in 1 .. Len(toClient[c]) : toClient[c][l] = toClient'[c][k]
  <2>1. \A k \in 1 .. Len(toClient'[d]) :
          toClient'[d][k] = f \/ (k \in 1 .. Len(toClient[d]) /\ toClient'[d][k] = toClient[d][k])
    BY <1>1, <1>2, AppendLast
  <2> QED
    BY <1>2, <2>1 DEF DataAt
<1>5. circuit # 0 => circuit \in Circuit
  BY DEF TypeInv, TypeOK, ClientTypeOK
<1> QED
  BY <1>2, <1>3, <1>4, <1>5, DownKept DEF DownOrder

LEMMA DownRemoteData ==
  ASSUME TypeInv, NoneLate, DownOrder, NEW s \in StreamId, RemoteData(s),
         UNCHANGED clientVars
  PROVE  DownRight(s)'
<1>1. PICK d \in Circuit : d = openCirc[s] /\ boundSid[s] = s
  BY OnTime DEF RemoteData
<1>2. PICK f : f = DataFrame(boundSid[s], [from |-> boundHost[s], n |-> answers[s] + 1])
  OBVIOUS
<1>3. f.cmd = "DATA" /\ f.sid = s /\ f.data.n = answers[s] + 1
  BY <1>1, <1>2 DEF DataFrame
<1>4. toClient[d] \in Seq(DownFrame) /\ answers[s] \in Nat
  BY DownTypes
<1>5. /\ toClient'[d] = Append(toClient[d], f)
      /\ \A c \in Circuit : c # d => toClient'[c] = toClient[c]
      /\ link[d] = "open"
      /\ answers'[s] = answers[s] + 1
      /\ UNCHANGED <<link, got, queue, registered, circuit, openCirc>>
  BY <1>1, <1>2 DEF RemoteData, SendMux, clientVars, runnerVars, tableVars, handlerVars,
     openerVars, TypeInv, TypeOK, WireTypeOK, ExitTypeOK
<1>6. Arrived(s) /\ Coming(s) /\ NextDown(s)' = NextDown(s)
  BY <1>5 DEF DownOrder, DownRight, NextDown
<1>7. Arrived(s)'
  <2>1. NextDown(s) <= answers[s] + 1 + 1
    BY <1>6, DownTypes DEF Arrived
  <2> QED
    BY <1>5, <1>6, <2>1 DEF Arrived, InSequence
<1>8. ASSUME NEW c \in Circuit, NEW k \in 1 .. Len(toClient'[c]), DataAt(toClient'[c], s, k)
      PROVE  c = openCirc[s] /\ toClient'[c][k].data.n <= answers[s] + 1
  <2>1. CASE k \in 1 .. Len(toClient[c]) /\ toClient'[c][k] = toClient[c][k]
    <3>1. DataAt(toClient[c], s, k)
      BY <1>8, <2>1 DEF DataAt
    <3> QED
      BY <1>4, <1>6, <2>1, <3>1, DownTypes DEF Coming
  <2>2. CASE c = d /\ toClient'[c][k] = f
    BY <1>1, <1>3, <1>4, <2>2
  <2> QED
    BY <1>4, <1>5, <1>8, <2>1, <2>2, AppendLast
<1>9. ASSUME registered[s], circuit # 0, circuit = openCirc[s]
      PROVE  /\ Continues(toClient'[circuit], s, NextDown(s))
             /\ Reaches(toClient'[circuit], s, NextDown(s), answers[s] + 1)
  <2>1. /\ Continues(toClient[d], s, NextDown(s))
        /\ Reaches(toClient[d], s, NextDown(s), answers[s])
    BY <1>1, <1>5, <1>6, <1>9 DEF Coming
  <2>2. \A k \in 1 .. Len(toClient[d]) : DataAt(toClient[d], s, k) =>
          toClient[d][k].data.n \in Nat /\ toClient[d][k].data.n <= answers[s]
    BY <1>6, DownTypes DEF Coming
  <2>3. NextDown(s) \in Nat
    BY DownTypes
  <2>4. /\ Continues(Append(toClient[d], f), s, NextDown(s))
        /\ Reaches(Append(toClient[d], f), s, NextDown(s), answers[s] + 1)
    BY <1>3, <1>4, <2>1, <2>2, <2>3, ContNext
  <2> QED
    BY <1>1, <1>5, <1>9, <2>4
<1>10. Coming(s)'
  BY <1>5, <1>6, <1>8, <1>9 DEF Coming
<1> QED
  BY <1>7, <1>10 DEF DownRight

LEMMA DownDispatch ==
  ASSUME TypeInv, DownOrder, NEW c \in Circuit, Dispatch(c), UNCHANGED exitVars,
         NEW s \in StreamId
  PROVE  DownRight(s)'
<1>1. /\ toClient[c] \in Seq(DownFrame) /\ toClient[c] # <<>> /\ circuit = c
      /\ toClient'[c] = Tail(toClient[c])
      /\ \A d \in Circuit : d # c => toClient'[d] = toClient[d]
      /\ UNCHANGED <<link, circuit, registered, got, answers, openCirc>>
  BY DEF Dispatch, runnerVars, handlerVars, exitVars, openerVars, socketVars, TypeInv,
     TypeOK, WireTypeOK
<1>2. PICK f \in DownFrame : f = Head(toClient[c]) /\ f = toClient[c][1]
                             /\ 1 \in 1 .. Len(toClient[c])
  BY <1>1
<1>3. f.sid \in StreamId
  BY <1>2, DownFrames
<1>4. queue'[s] = IF f.cmd = "DATA" /\ registered[s] /\ f.sid = s
                  THEN Append(queue[s], f.data) ELSE queue[s]
  BY <1>2, <1>3 DEF Dispatch, TypeInv, TypeOK, ClientTypeOK
<1>5. \A k \in 1 .. Len(toClient'[c]) :
        k + 1 \in 1 .. Len(toClient[c]) /\ toClient'[c][k] = toClient[c][k + 1]
  BY <1>1, TailIndex
<1>6. \A d \in Circuit : \A k \in 1 .. Len(toClient'[d]) :
        \E l \in 1 .. Len(toClient[d]) : toClient[d][l] = toClient'[d][k]
  BY <1>1, <1>5
<1>7. CASE f.cmd = "DATA" /\ f.sid = s /\ registered[s]
  <2>1. Arrived(s) /\ Coming(s) /\ DataAt(toClient[c], s, 1)
    BY <1>2, <1>7 DEF DownOrder, DownRight, DataAt
  <2>2. c = openCirc[s] /\ c # 0 /\ f.data.n <= answers[s]
    BY <1>2, <2>1 DEF Coming, Circuit
  <2>3. Continues(toClient[c], s, NextDown(s))
    BY <1>1, <1>7, <2>1, <2>2 DEF Coming
  <2>4. PICK e \in Nat, a \in Nat, b \in Nat :
          a = Len(got[s]) /\ b = Len(queue[s]) /\ e = a + b + 1 /\ e = NextDown(s)
    BY DownTypes DEF NextDown
  <2>5. /\ f.data.n = e
        /\ Continues(Tail(toClient[c]), s, e + 1)
        /\ \A n \in Nat : Reaches(toClient[c], s, e, n) /\ e <= n
                          => Reaches(Tail(toClient[c]), s, e + 1, n)
    <3>1. Continues(toClient[c], s, e)
      BY <2>3, <2>4
    <3>2. \A k \in 1 .. Len(toClient[c]) : DataAt(toClient[c], s, k) =>
            toClient[c][k].data.n \in Nat
      BY DownTypes
    <3> QED
      BY <1>1, <1>2, <2>1, <3>1, <3>2, ContTake
  <2>6. /\ Len(queue'[s]) = b + 1
        /\ \A k \in 1 .. b + 1 : queue'[s][k] = IF k = b + 1 THEN f.data ELSE queue[s][k]
    BY <1>4, <1>7, <2>4, AppendLast, DownTypes
  <2>7. NextDown(s)' = e + 1
    <3>1. Len(got'[s]) = a /\ NextDown(s)' = Len(got'[s]) + Len(queue'[s]) + 1
      BY <1>1, <2>4 DEF NextDown
    <3>2. NextDown(s)' = a + (b + 1) + 1
      BY <2>6, <3>1
    <3>3. a + (b + 1) + 1 = (a + b + 1) + 1
      OBVIOUS
    <3> QED
      BY <2>4, <3>2, <3>3
  <2>8. answers[s] \in Nat /\ e <= answers[s]
    BY <2>2, <2>5, DownTypes
  <2>9. Arrived(s)'
    <3>1. \A k \in 1 .. Len(queue'[s]) : queue'[s][k].n = a + k
      <4>1. \A k \in 1 .. b : queue[s][k].n = a + k
        BY <2>1, <2>4 DEF Arrived
      <4>2. f.data.n = a + (b + 1)
        <5>0. a + b + 1 = a + (b + 1)
          OBVIOUS
        <5>1. e = a + (b + 1)
          BY <2>4, <5>0
        <5> QED
          BY <2>5, <5>1
      <4>3. ASSUME NEW k \in 1 .. b + 1
            PROVE  queue'[s][k].n = a + k
        <5>1. CASE k = b + 1
          BY <2>6, <4>2, <5>1
        <5>2. CASE k # b + 1
          <6>1. k \in 1 .. b
            BY <2>4, <5>2
          <6> QED
            BY <2>6, <4>1, <5>2, <6>1
        <5> QED
          BY <5>1, <5>2
      <4> QED
        BY <2>6, <4>3
    <3>2. NextDown(s)' <= answers[s] + 1
      <4>1. e + 1 <= answers[s] + 1
        BY <2>8
      <4> QED
        BY <2>7, <4>1
    <3> QED
      BY <1>1, <2>1, <2>4, <3>1, <3>2 DEF Arrived, InSequence
  <2>10. ASSUME NEW d \in Circuit, NEW k \in 1 .. Len(toClient'[d]), DataAt(toClient'[d], s, k)
         PROVE  d = openCirc[s] /\ toClient'[d][k].data.n <= answers[s]
    <3>1. PICK l \in 1 .. Len(toClient[d]) : toClient[d][l] = toClient'[d][k]
      BY <1>6
    <3>2. DataAt(toClient[d], s, l)
      BY <2>10, <3>1 DEF DataAt
    <3> QED
      BY <2>1, <3>1, <3>2 DEF Coming
  <2>11. link[c] = "open" => Reaches(toClient[c], s, e, answers[s])
    BY <1>1, <1>7, <2>1, <2>2, <2>4 DEF Coming
  <2>12. Coming(s)'
    BY <1>1, <2>2, <2>5, <2>7, <2>8, <2>10, <2>11 DEF Coming
  <2> QED
    BY <2>9, <2>12 DEF DownRight
<1>8. CASE f.cmd = "DATA" /\ f.sid = s /\ ~registered[s]
  BY <1>1, <1>4, <1>6, <1>8, DownKept DEF DownOrder
<1>9. CASE ~(f.cmd = "DATA" /\ f.sid = s)
  <2>1. ~DataAt(toClient[c], s, 1)
    BY <1>2, <1>9 DEF DataAt
  <2>2. /\ \A e : Continues(toClient[c], s, e) => Continues(toClient'[c], s, e)
        /\ \A e, n : Reaches(toClient[c], s, e, n) => Reaches(toClient'[c], s, e, n)
    BY <1>1, <2>1, ContTail
  <2> QED
    BY <1>1, <1>4, <1>6, <1>9, <2>2, DownKept DEF DownOrder
<1> QED
  BY <1>7, <1>8, <1>9

LEMMA DownBrowserRecv ==
  ASSUME TypeInv, DownOrder, NEW s \in StreamId, BrowserRecv(s), UNCHANGED exitVars
  PROVE  DownRight(s)'
<1>1. /\ queue[s] # <<>>
      /\ got'[s] = Append(got[s], Head(queue[s]))
      /\ queue'[s] = Tail(queue[s])
      /\ UNCHANGED <<toClient, link, circuit, registered, answers, openCirc>>
  BY DEF BrowserRecv, wireVars, runnerVars, exitVars, openerVars, socketVars, TypeInv,
     TypeOK, ClientTypeOK
<1>2. queue[s] \in Seq(DownData) /\ got[s] \in Seq(DownData)
  BY DownTypes
<1>3. PICK a \in Nat, b \in Nat : a = Len(got[s]) /\ b = Len(queue[s])
  BY DownTypes
<1>4. /\ 1 \in 1 .. b /\ Head(queue[s]) = queue[s][1]
      /\ Len(queue'[s]) = b - 1
      /\ \A k \in 1 .. b - 1 : k + 1 \in 1 .. b /\ queue'[s][k] = queue[s][k + 1]
  BY <1>1, <1>2, <1>3
<1>5. /\ Len(got'[s]) = a + 1
      /\ \A k \in 1 .. a + 1 : got'[s][k] = IF k = a + 1 THEN queue[s][1] ELSE got[s][k]
  BY <1>1, <1>2, <1>3, <1>4, AppendLast
<1>6. Arrived(s) /\ Coming(s)
  BY DEF DownOrder, DownRight
<1>7. NextDown(s)' = NextDown(s)
  <2>1. /\ NextDown(s) = Len(got[s]) + Len(queue[s]) + 1
        /\ NextDown(s)' = Len(got'[s]) + Len(queue'[s]) + 1
    BY DEF NextDown
  <2>2. NextDown(s) = a + b + 1 /\ NextDown(s)' = (a + 1) + (b - 1) + 1
    BY <1>3, <1>4, <1>5, <2>1
  <2>3. (a + 1) + (b - 1) + 1 = a + b + 1
    OBVIOUS
  <2> QED
    BY <2>2, <2>3
<1>8. queue[s][1].n = a + 1
  BY <1>3, <1>4, <1>6 DEF Arrived
<1>9. InSequence(got'[s])
  BY SMTT(30), <1>3, <1>5, <1>6, <1>8 DEF Arrived, InSequence
<1>10. \A k \in 1 .. b - 1 : queue'[s][k].n = a + 1 + k
  <2>1. \A k \in 1 .. b : queue[s][k].n = a + k
    BY <1>3, <1>6 DEF Arrived
  <2>2. ASSUME NEW k \in 1 .. b - 1
        PROVE  queue'[s][k].n = a + 1 + k
    <3>1. a + (k + 1) = a + 1 + k
      OBVIOUS
    <3>2. queue'[s][k].n = a + (k + 1)
      BY <1>4, <2>1
    <3> QED
      BY <3>1, <3>2
  <2> QED
    BY <2>2
<1>11. Arrived(s)'
  BY <1>1, <1>4, <1>5, <1>6, <1>7, <1>9, <1>10 DEF Arrived
<1>12. Coming(s)'
  BY <1>1, <1>6, <1>7 DEF Coming
<1> QED
  BY <1>11, <1>12 DEF DownRight

LEMMA DownHandlers ==
  ASSUME TypeInv, DownOrder, NEW t \in StreamId, HandlerStep(t), UNCHANGED exitVars,
         NEW s \in StreamId
  PROVE  DownRight(s)'
<1>1. UNCHANGED <<toClient, link, circuit, answers, openCirc>>
  BY DEF HandlerStep, SendOpen, SendOpenRaises, BecomeReady, BrowserLeft, OpenTimeout,
     BrowserSend, BrowserRecv, EndStream, Send, SendLost, SendRaises, wireVars, runnerVars,
     exitVars, openerVars, socketVars
<1>2. CASE BrowserRecv(t) /\ s = t
  BY <1>2, DownBrowserRecv
<1>3. CASE ~(BrowserRecv(t) /\ s = t)
  <2>1. /\ got'[s] = got[s]
        /\ registered'[s] => registered[s]
        /\ queue'[s] = queue[s] \/ (queue'[s] = <<>> /\ ~registered'[s])
    BY <1>3 DEF HandlerStep, SendOpen, SendOpenRaises, BecomeReady, BrowserLeft, OpenTimeout,
       BrowserSend, BrowserRecv, EndStream, Unregister, tableVars, TypeInv, TypeOK,
       ClientTypeOK
  <2> QED
    BY <1>1, <2>1, DownKept DEF DownOrder
<1> QED
  BY <1>2, <1>3

LEMMA DownClient ==
  ASSUME TypeInv, BindInv, Homes, DownOrder, ClientNext \/ CutStep, UNCHANGED exitVars,
         NEW s \in StreamId
  PROVE  DownRight(s)'
<1>1. UNCHANGED <<answers, openCirc>>
  BY DEF exitVars, openerVars, socketVars
<1>2. CASE CutStep
  <2>1. UNCHANGED <<toClient, got, queue, registered, circuit>>
    BY <1>2 DEF CutStep, Cut, clientVars, runnerVars, tableVars, handlerVars
  <2>2. \A c \in Circuit : link'[c] = "open" => link[c] = "open"
    BY <1>2 DEF CutStep, Cut, TypeInv, TypeOK, WireTypeOK
  <2>3. circuit # 0 => circuit \in Circuit
    BY DEF TypeInv, TypeOK, ClientTypeOK
  <2> QED
    BY <1>1, <2>1, <2>2, <2>3, DownKept DEF DownOrder
<1>3. ASSUME NEW h \in Host, Register(h)
      PROVE  DownRight(s)'
  <2>1. /\ UNCHANGED <<toClient, link, got, queue, circuit>>
        /\ s # nextId => registered'[s] = registered[s]
    BY <1>3 DEF Register, wireVars, runnerVars, TypeInv, TypeOK, ClientTypeOK
  <2>2. s = nextId => openCirc[s] = 0
    BY DEF BindInv, OpenOnce, Homes, StreamId
  <2> QED
    BY <1>1, <2>1, <2>2, DownKept DEF DownOrder
<1>4. ASSUME NEW c \in Circuit, OpenTunnel(c)
      PROVE  DownRight(s)'
  <2>1. /\ circuit' = c /\ link[c] = "unused"
        /\ UNCHANGED <<toClient, got, queue, registered>>
    BY <1>4 DEF OpenTunnel, tableVars, handlerVars
  <2>2. openCirc[s] # c
    <3>1. openCirc[s] = c => opener[s] # "none"
      BY DEF Homes, Circuit
    <3> QED
      BY <2>1, <3>1 DEF Homes
  <2> QED
    BY <1>1, <2>1, <2>2, DownKept DEF DownOrder
<1>5. ASSUME NEW c \in Circuit, CircuitLost(c)
      PROVE  DownRight(s)'
  <2>1. /\ UNCHANGED <<link, got, queue, registered, circuit>>
        /\ link[c] = "closed"
        /\ \A d \in Circuit : d # c => toClient'[d] = toClient[d]
    BY <1>5 DEF CircuitLost, tableVars, handlerVars, TypeInv, TypeOK, WireTypeOK
  <2>2. toClient[c] \in Seq(DownFrame)
    BY DownTypes
  <2>3. PICK m \in Nat : m <= Len(toClient[c]) /\ toClient'[c] = SubSeq(toClient[c], 1, m)
    BY <1>5 DEF CircuitLost, TypeInv, TypeOK, WireTypeOK
  <2>4. \A d \in Circuit : \A k \in 1 .. Len(toClient'[d]) :
          \E l \in 1 .. Len(toClient[d]) : toClient[d][l] = toClient'[d][k]
    BY <2>1, <2>2, <2>3
  <2>5. \A e : Continues(toClient[c], s, e) => Continues(toClient'[c], s, e)
    BY <2>2, <2>3, ContPrefix
  <2>6. circuit # 0 => circuit \in Circuit
    BY DEF TypeInv, TypeOK, ClientTypeOK
  <2> QED
    BY <1>1, <2>1, <2>4, <2>5, <2>6, DownKept DEF DownOrder
<1>6. CASE RunnerReopens
  <2>1. circuit \in Circuit /\ circuit' = 0 /\ UNCHANGED <<got, queue, registered>>
    BY <1>6 DEF RunnerReopens, tableVars, handlerVars, TypeInv, TypeOK, ClientTypeOK
  <2>2. OldFrames
    BY <1>6, <2>1, OldShorter DEF RunnerReopens
  <2>3. \A d \in Circuit : \A k \in 1 .. Len(toClient'[d]) :
          \E l \in 1 .. Len(toClient[d]) : toClient[d][l] = toClient'[d][k]
    BY <2>2 DEF OldFrames
  <2> QED
    BY <1>1, <2>1, <2>3, DownKept DEF DownOrder
<1>7. CASE OpenTunnelRaises
  <2>1. UNCHANGED <<toClient, link, got, queue, registered, circuit>>
    BY <1>7 DEF OpenTunnelRaises, wireVars, tableVars, handlerVars
  <2> QED
    BY <1>1, <2>1, DownKept DEF DownOrder
<1>8. CASE ClientNext
  BY <1>3, <1>4, <1>5, <1>6, <1>7, <1>8, DownHandlers, DownDispatch
     DEF ClientNext, RunnerStep
<1> QED
  BY <1>2, <1>8

LEMMA DownExit ==
  ASSUME TypeInv, BindInv, Homes, NoneLate, DownOrder, ExitNext, UNCHANGED clientVars,
         NEW s \in StreamId
  PROVE  DownRight(s)'
<1>1. UNCHANGED <<got, queue, registered, circuit>>
  BY DEF clientVars, runnerVars, tableVars, handlerVars
<1>2. ASSUME UNCHANGED <<toClient, link, answers, openCirc>>
      PROVE  DownRight(s)'
  BY <1>1, <1>2, DownKept DEF DownOrder
<1>3. ASSUME NEW c \in Circuit, Accept(c) \/ LoopStep(c)
      PROVE  DownRight(s)'
  <2>1. CASE RecvOpen(c)
    BY <2>1, DownRecvOpen
  <2>2. CASE ~RecvOpen(c)
    <3>1. UNCHANGED <<toClient, link, answers, openCirc>>
      BY <1>3, <2>2 DEF Accept, LoopStep, RecvData, RecvClose, Recv, WriteRemote,
         WriteFails, Park, TunnelEOF, CleanupNext, CleanupClose, Return, TunnelReset,
         LoseRest, ProcessDies, wireVars, openerVars, socketVars
    <3> QED
      BY <1>2, <3>1
  <2> QED
    BY <2>1, <2>2
<1>4. ASSUME NEW i \in StreamId, OpenerStep(i) \/ ReaderStep(i)
      PROVE  DownRight(s)'
  <2>1. CASE RemoteData(i)
    <3>1. CASE s = i
      BY <2>1, <3>1, DownRemoteData
    <3>2. CASE s # i
      <4>1. PICK f : f = DataFrame(boundSid[i], [from |-> boundHost[i], n |-> answers[i] + 1])
        OBVIOUS
      <4>2. boundSid[i] = i /\ openCirc[i] \in Circuit
        BY <2>1, OnTime DEF RemoteData
      <4>3. f.sid # s
        BY <3>2, <4>1, <4>2 DEF DataFrame
      <4>4. SendMux(openCirc[i], f) /\ answers'[s] = answers[s] /\ UNCHANGED openCirc
        BY <2>1, <3>2, <4>1 DEF RemoteData, openerVars, TypeInv, TypeOK, ExitTypeOK
      <4> QED
        BY <1>1, <4>2, <4>3, <4>4, DownOthers
    <3> QED
      BY <3>1, <3>2
  <2>2. CASE SendReady(i)
    <3>1. PICK f : f = ReadyFrame(boundSid[i])
      OBVIOUS
    <3>2. openCirc[i] \in Circuit /\ f.cmd # "DATA"
      BY <2>2, <3>1, OnTime DEF SendReady, ReadyFrame
    <3>3. /\ SendMux(openCirc[i], f) \/ UNCHANGED <<toClient, link>>
          /\ UNCHANGED <<answers, openCirc>>
      BY <2>2, <3>1 DEF SendReady, SendMuxLost, wireVars
    <3> QED
      BY <1>1, <1>2, <3>2, <3>3, DownOthers
  <2>3. CASE ~RemoteData(i) /\ ~SendReady(i)
    <3>1. UNCHANGED <<toClient, link, answers, openCirc>>
      BY <1>4, <2>3 DEF OpenerStep, Bind, BindDies, ConnectOk, ConnectFails, OpenFails,
         Flush, FlushFails, ReadyFails, ReaderStep, RemoteEnds, ReaderStops,
         ReaderExits, SendMuxFails, wireVars, openerVars, socketVars
    <3> QED
      BY <1>2, <3>1
  <2> QED
    BY <2>1, <2>2, <2>3
<1> QED
  BY <1>3, <1>4 DEF ExitNext

LEMMA DownOrderStep ==
  ASSUME TypeInv, BindInv, Homes, NoneLate, DownOrder, [Next]_vars
  PROVE  DownOrder'
<1> SUFFICES ASSUME NEW s \in StreamId PROVE DownRight(s)'
  BY DEF DownOrder
<1>1. CASE UNCHANGED vars
  <2>1. UNCHANGED <<toClient, link, got, queue, registered, circuit, answers, openCirc>>
    BY <1>1 DEF vars, wireVars, clientVars, runnerVars, tableVars, handlerVars, exitVars,
       openerVars, socketVars
  <2> QED
    BY <2>1, DownKept DEF DownOrder
<1> QED
  BY <1>1, DownClient, DownExit DEF Next, CutStep

-------------------------------------------------------------------------------
(* OrderInv is inductive together with TypeInv, BindInv and OnceInv.        *)

LEMMA OrderInit == Init => OrderInv
<1> SUFFICES ASSUME Init PROVE OrderInv
  OBVIOUS
<1>1. Homes
  BY DEF Init, WireInit, ClientInit, ExitInit, Homes, Circuit
<1>2. ReadyDone
  BY DEF Init, WireInit, ClientInit, ReadyDone, Readied, ReadyComes
<1>3. UpOrder
  BY DEF Init, ExitInit, UpOrder, UpRight, InSequence
<1>4. DownOrder
  <2> SUFFICES ASSUME NEW s \in StreamId PROVE DownRight(s)
    BY DEF DownOrder
  <2>1. got[s] = <<>> /\ queue[s] = <<>> /\ answers[s] = 0 /\ ~registered[s]
        /\ \A d \in Circuit : toClient[d] = <<>>
    BY DEF Init, WireInit, ClientInit, ExitInit
  <2>2. Arrived(s)
    BY <2>1 DEF Arrived, InSequence, NextDown
  <2> QED
    BY <2>1, <2>2 DEF DownRight, Coming
<1> QED
  BY <1>1, <1>2, <1>3, <1>4 DEF OrderInv

LEMMA OrderStep ==
  ASSUME TypeInv, BindInv, OnceInv, OrderInv, [Next]_vars
  PROVE  OrderInv'
<1>1. Homes'
  BY HomesStep DEF OrderInv
<1>2. ASSUME NoneLate'
      PROVE  ReadyDone' /\ UpOrder' /\ DownOrder'
  <2>1. NoneLate
    BY <1>2, StepStays, NoneLateBefore
  <2>2. Settled /\ ReadyDone /\ UpOrder /\ DownOrder
    BY <2>1 DEF OrderInv, Settled
  <2> QED
    BY <2>1, <2>2, ReadyDoneStep, UpStep, DownOrderStep DEF Settled
<1> QED
  BY <1>1, <1>2 DEF OrderInv

LEMMA OrderInvariant == Spec => []OrderInv
<1>1. Init => OrderInv
  BY OrderInit
<1>2. TypeInv /\ BindInv /\ OnceInv /\ OrderInv /\ [Next]_vars => OrderInv'
  BY OrderStep
<1> QED
  BY <1>1, <1>2, TypeInvariant, BindInvariant, OnceInvariant, PTL DEF Spec

(* While no opener ran late, what a connection was given of a stream is its *)
(* first payloads and what a browser has read is the first answers of its   *)
(* connection: close_stream, failing writes and replaced circuits only cut  *)
(* them short.                                                              *)
THEOREM GaplessPrefixesHolds == Spec => []GaplessPrefixes
<1>1. OrderInv => GaplessPrefixes
  BY DEF OrderInv, UpOrder, UpRight, DownOrder, DownRight, Arrived, GaplessPrefixes
<1> QED
  BY <1>1, OrderInvariant, PTL
================================================================================
