---------------------------- MODULE RelayChainProofs ----------------------------
(***************************************************************************)
(* Proofs about RelayChain, for every set of relays, chains of any length  *)
(* and any number of frames and faults.                                    *)
(***************************************************************************)
EXTENDS RelayChain, Inductions

(* The i-th node of a circuit along chain c: the client, the relays of the  *)
(* chain and the exit; the onion of the chain, and its i-th layer.          *)
Node(c, i) == IF i = 0 THEN Client ELSE IF i = Len(c) + 1 THEN Exit ELSE c[i]
LayersOf(c) == OnionLayers(Path(c), Exit, Data(0))
HopOf(c, i) == LayersOf(c)[i].hop

(* The type invariant with the blobs that are on their way spelled out.     *)
Blobs(c) == {Blob(LayersOf(c)[i]) : i \in 1 .. Len(c)}
Part == {"head", "body", "fin", "rst"}
Pieces(frames) == [of : frames, part : Part]
Link(c) == [up : Seq(Pieces(Frames \cup Blobs(c))), down : Seq(Pieces(Frames)),
            dialling : State, accepted : State]
End == [asked : Kinds \cup {"none"}, sent : Nat, got : Seq(Frames),
        astray : BOOLEAN, ended : BOOLEAN]
Thread == [at : {"off", "recv", "send", "ended"}, hold : Frames, astray : BOOLEAN]

Types ==
  /\ key \in [Relay -> Nat] /\ \A r \in Relay : key[r] <= restarts
  /\ chain \in Chains \cup {<<>>}
  /\ handler \in [Relay -> {"listen", "first", "layer", "connect", "hello",
                            "forward", "over"}]
  /\ origin \in [Relay \cup {Exit} -> Dialler \cup {Exit}]
  /\ hop \in [Relay -> {NoHop} \cup {HopOf(chain, i) : i \in 1 .. Len(chain)}]
  /\ thread \in [Relay -> [Direction -> Thread]]
  /\ link \in [Dialler -> Link(chain)]
  /\ client \in End /\ exit \in End /\ client.sent + exit.sent <= MaxData
  /\ slow \in [reads : Nat, writes : Nat] /\ restarts \in Nat /\ Faults <= MaxFaults

(* Who has been dialled at all.                                             *)
Dialled ==
  /\ link[Client].dialling = "none" => chain = <<>> /\ \A r \in Relay : handler[r] = "listen"
  /\ \A r \in Relay : handler[r] = "listen" <=> origin[r] = Exit
  /\ chain = <<>> => origin[Exit] = Exit /\ \A r \in Relay : origin[r] \in {Client, Exit}

(* Along the chain: whoever has been dialled was dialled by the node before *)
(* it, and only what peeled its own layer goes on.                          *)
Along ==
  /\ chain # <<>> => \A n \in Relay \cup {Exit} : origin[n] # Exit =>
       \E i \in 1 .. Len(chain) + 1 : n = Node(chain, i) /\ origin[n] = Node(chain, i - 1)
  /\ \A r \in Relay : hop[r] # NoHop =>
       /\ handler[r] \notin {"listen", "first", "layer"}
       /\ \E i \in 1 .. Len(chain) : r = chain[i] /\ hop[r] = HopOf(chain, i)
  /\ \A r \in Relay : handler[r] \in {"connect", "hello", "forward"} => hop[r] # NoHop
  /\ \A r \in Relay, d \in Direction : thread[r][d].at \in {"recv", "send"} => handler[r] = "forward"

(* The layer of the i-th relay is only on the link that leads to it, and    *)
(* only until its handler has read it or has given up.                      *)
LayerWaits(d, k) ==
  \E i \in 1 .. Len(chain) :
    /\ d = Node(chain, i - 1) /\ link[d].up[k].of = Blob(LayersOf(chain)[i])
    /\ handler[chain[i]] \in {"first", "layer", "over"}
    /\ handler[chain[i]] = "first" => k <= 4
    /\ handler[chain[i]] = "layer" => k <= 2

LayersWaitOn(d) ==
  \A k \in 1 .. Len(link[d].up) : link[d].up[k].of.tag = "blob" => LayerWaits(d, k)

LayersWait == \A d \in Dialler : LayersWaitOn(d)

(* A relay says hello to a node that still listens to it, or to nobody.     *)
HelloFresh ==
  \A r \in Relay : handler[r] = "hello" =>
    /\ link[r].up = <<>> /\ link[r].dialling = "open" /\ link[r].accepted # "none"
    /\ hop[r].addr \in Relay => handler[hop[r].addr] = "first" \/ link[r].accepted = "closed"

RouteInv == Types /\ Dialled /\ Along /\ LayersWait /\ HelloFresh

-------------------------------------------------------------------------------
(* Frames and pipes.                                                        *)

LEMMA FrameTags ==
  ASSUME NEW f \in Frames
  PROVE  f.tag # "blob"
BY DEF Frames, Kind, Data, Answer, PublicKey, Junk, NoFrame

LEMMA SomeFrames ==
  /\ Junk \in Frames /\ NoFrame \in Frames
  /\ Kind("RELAY") \in Frames /\ Kind("RELAY_AT") \in Frames
  /\ \A k \in Kinds : Kind(k) \in Frames
  /\ \A n \in 0 .. MaxData : Data(n) \in Frames
  /\ \A n \in 1 .. MaxData : Answer(n) \in Frames
BY DEF Frames

LEMMA SeqWider ==
  ASSUME NEW S, NEW T, S \subseteq T, NEW q \in Seq(S)
  PROVE  q \in Seq(T)
OBVIOUS

LEMMA FirstOf ==
  ASSUME NEW S, NEW h \in Seq(S), NEW k \in 0 .. Len(h)
  PROVE  /\ SubSeq(h, 1, k) \in Seq(S) /\ Len(SubSeq(h, 1, k)) = k
         /\ \A j \in 1 .. k : j \in 1 .. Len(h) /\ SubSeq(h, 1, k)[j] = h[j]
OBVIOUS

LEMMA TwoAndTwo ==
  ASSUME NEW S, NEW u \in Seq(S), NEW v \in Seq(S), Len(u) = 2, Len(v) = 2
  PROVE  /\ u \o v \in Seq(S) /\ Len(u \o v) = 4
         /\ (u \o v)[1] = u[1] /\ (u \o v)[2] = u[2]
         /\ (u \o v)[3] = v[1] /\ (u \o v)[4] = v[2]
<1>1. /\ u \o v \in Seq(S) /\ Len(u \o v) = Len(u) + Len(v)
      /\ \A k \in 1 .. Len(u) + Len(v) :
           (u \o v)[k] = IF k <= Len(u) THEN u[k] ELSE v[k - Len(u)]
  BY ConcatProperties
<1> DEFINE w == u \o v
<1> HIDE DEF w
<1>2. w \in Seq(S) /\ Len(w) = 2 + 2
      /\ \A k \in 1 .. 2 + 2 : w[k] = IF k <= 2 THEN u[k] ELSE v[k - 2]
  BY <1>1 DEF w
<1>3. w[1] = u[1] /\ w[2] = u[2] /\ w[3] = v[3 - 2] /\ w[4] = v[4 - 2]
  BY ONLY <1>2
<1>4. w \in Seq(S) /\ Len(w) = 4 /\ w[1] = u[1] /\ w[2] = u[2] /\ w[3] = v[1] /\ w[4] = v[2]
  BY <1>2, <1>3
<1> QED
  BY ONLY <1>4 DEF w

LEMMA AppendPrefix ==
  ASSUME NEW S, NEW s \in Seq(S), NEW k \in 0 .. Len(s), NEW x \in S,
         NEW q, q = Append(SubSeq(s, 1, k), x)
  PROVE  /\ q \in Seq(S) /\ Len(q) = k + 1
         /\ \A j \in 1 .. k : j \in 1 .. Len(s) /\ q[j] = s[j]
         /\ q[k + 1] = x
<1> DEFINE h == SubSeq(s, 1, k)
<1>1. h \in Seq(S) /\ Len(h) = k /\ \A j \in 1 .. k : j \in 1 .. Len(s) /\ h[j] = s[j]
  OBVIOUS
<1> HIDE DEF h
<1>2. q = Append(h, x)
  BY DEF h
<1> QED
  BY ONLY <1>1, <1>2, x \in S, k \in 0 .. Len(s), s \in Seq(S), AppendProperties, LenProperties

LEMMA WholePieces ==
  ASSUME NEW F, NEW f \in F
  PROVE  /\ Whole(f) \in Seq(Pieces(F)) /\ Len(Whole(f)) = 2
         /\ Whole(f)[1].of = f /\ Whole(f)[2].of = f
BY DEF Whole, Piece, Pieces, Part

LEMMA EndPiece ==
  ASSUME NEW how \in {"fin", "rst"}
  PROVE  EndOf(how) \in Pieces(Frames) /\ EndOf(how).of = NoFrame
BY SomeFrames DEF EndOf, Piece, Pieces, Part

LEMMA PlainPieces ==
  ASSUME NEW F, NEW p \in Seq(Pieces(Frames))
  PROVE  p \in Seq(Pieces(Frames \cup F))
<1>1. Pieces(Frames) \subseteq Pieces(Frames \cup F)
  BY DEF Pieces
<1> QED
  BY ONLY p \in Seq(Pieces(Frames)), <1>1, SeqWider

LEMMA Ends2 ==
  /\ Out("dialling") = "up" /\ Out("accepted") = "down"
  /\ In("dialling") = "down" /\ In("accepted") = "up"
  /\ Peer("dialling") = "accepted" /\ Peer("accepted") = "dialling"
BY DEF Out, In, Peer

-------------------------------------------------------------------------------
(* What the ends of a link do to it.                                        *)

(* No layer is put on it, and none moves away from its reader.              *)
Shrinks(l, m) ==
  \A k \in 1 .. Len(m.up) : m.up[k].of.tag = "blob" =>
    \E j \in 1 .. Len(l.up) : k <= j /\ m.up[k] = l.up[j]

Moves(c, l, m) ==
  m \in Link(c) /\ Shrinks(l, m) /\ (m.dialling = "none" => l.dialling = "none")

(* What the accepting end may do before anything has been sent.             *)
Untouched(l) == l.up = <<>> /\ l.dialling = "open" /\ l.accepted # "none"
Calm(l, m) ==
  Untouched(l) => Untouched(m) /\ (l.accepted = "closed" => m.accepted = "closed")

LEMMA Still ==
  ASSUME NEW c, NEW l \in Link(c)
  PROVE  Moves(c, l, l) /\ Calm(l, l)
BY DEF Moves, Shrinks, Calm, Link

LEMMA WriteUp ==
  ASSUME NEW c, NEW l \in Link(c), NEW p \in Seq(Pieces(Frames))
  PROVE  Moves(c, l, Write(l, "dialling", p))
<1> DEFINE m == Write(l, "dialling", p)
<1>1. CASE l.accepted = "closed"
  BY <1>1, Still, Ends2 DEF Write
<1>2. CASE l.accepted # "closed"
  <2>1. m = [l EXCEPT !.up = @ \o p]
    BY <1>2, Ends2 DEF Write
  <2>2. l.up \in Seq(Pieces(Frames \cup Blobs(c))) /\ p \in Seq(Pieces(Frames \cup Blobs(c)))
    <3>1. l.up \in Seq(Pieces(Frames \cup Blobs(c)))
      BY DEF Link
    <3>2. p \in Seq(Pieces(Frames \cup Blobs(c)))
      BY PlainPieces
    <3> QED
      BY <3>1, <3>2
  <2> HIDE DEF m
  <2>3. /\ l.up \o p \in Seq(Pieces(Frames \cup Blobs(c)))
        /\ Len(l.up \o p) = Len(l.up) + Len(p)
        /\ \A k \in 1 .. Len(l.up \o p) :
             (l.up \o p)[k] = IF k <= Len(l.up) THEN l.up[k] ELSE p[k - Len(l.up)]
    BY <2>2, ConcatProperties
  <2>4. m \in Link(c) /\ m.up = l.up \o p /\ m.dialling = l.dialling
    BY <2>1, <2>3 DEF Link
  <2>5. Shrinks(l, m)
    <3> SUFFICES ASSUME NEW k \in 1 .. Len(m.up), m.up[k].of.tag = "blob"
                 PROVE  k \in 1 .. Len(l.up) /\ m.up[k] = l.up[k]
      BY DEF Shrinks
    <3>1. CASE k <= Len(l.up)
      BY <3>1, <2>2, <2>3, <2>4
    <3>2. CASE k > Len(l.up)
      <4>1. k - Len(l.up) \in 1 .. Len(p) /\ m.up[k] = p[k - Len(l.up)]
        BY <3>2, <2>2, <2>3, <2>4
      <4>2. p[k - Len(l.up)] \in Pieces(Frames)
        BY <4>1
      <4>3. m.up[k].of \in Frames
        BY <4>1, <4>2 DEF Pieces
      <4> QED
        BY <4>3, FrameTags
    <3> QED
      BY <3>1, <3>2, <2>2
  <2> QED
    BY <2>4, <2>5 DEF Moves, m
<1> QED
  BY <1>1, <1>2

LEMMA WriteDown ==
  ASSUME NEW c, NEW l \in Link(c), NEW p \in Seq(Pieces(Frames))
  PROVE  Moves(c, l, Write(l, "accepted", p)) /\ Calm(l, Write(l, "accepted", p))
<1> DEFINE m == Write(l, "accepted", p)
<1>1. CASE l.dialling = "closed"
  BY <1>1, Still, Ends2 DEF Write
<1>2. CASE l.dialling # "closed"
  <2>1. m = [l EXCEPT !.down = @ \o p]
    BY <1>2, Ends2 DEF Write
  <2>2. l.down \o p \in Seq(Pieces(Frames))
    BY ConcatProperties DEF Link
  <2> HIDE DEF m
  <2>3. m \in Link(c) /\ m.up = l.up /\ m.dialling = l.dialling /\ m.accepted = l.accepted
    BY <2>1, <2>2 DEF Link
  <2>4. m.up \in Seq(Pieces(Frames \cup Blobs(c)))
    BY <2>3 DEF Link
  <2> QED
    BY <2>3, <2>4 DEF Moves, Shrinks, Calm, Untouched, m
<1> QED
  BY <1>1, <1>2

(* The reader takes one or two pieces from the front of its pipe.           *)
LEMMA DropUp ==
  ASSUME NEW c, NEW l \in Link(c), NEW n \in {1, 2}, n <= Len(l.up),
         NEW q, q = SubSeq(l.up, n + 1, Len(l.up))
  PROVE  Moves(c, l, [l EXCEPT !.up = q]) /\ Calm(l, [l EXCEPT !.up = q])
<1> DEFINE m == [l EXCEPT !.up = q]
<1>1. l.up \in Seq(Pieces(Frames \cup Blobs(c)))
  BY DEF Link
<1>2. Len(l.up) \in Nat /\ n + 1 \in 1 .. Len(l.up) + 1 /\ Len(l.up) \in 0 .. Len(l.up)
  BY <1>1
<1>3. /\ q \in Seq(Pieces(Frames \cup Blobs(c)))
      /\ Len(q) = Len(l.up) - n
      /\ \A k \in 1 .. Len(q) : q[k] = l.up[k + n]
  BY <1>1, <1>2
<1>4. m \in Link(c) /\ m.up = q /\ m.dialling = l.dialling
  BY <1>3 DEF Link
<1>5. Shrinks(l, m)
  <2> SUFFICES ASSUME NEW k \in 1 .. Len(q)
               PROVE  k + n \in 1 .. Len(l.up) /\ k <= k + n /\ q[k] = l.up[k + n]
    BY <1>4 DEF Shrinks
  <2> QED
    BY <1>2, <1>3
<1>6. l.up # <<>>
  BY <1>1, <1>2
<1> QED
  BY <1>3, <1>4, <1>5, <1>6 DEF Moves, Calm, Untouched

LEMMA DropDown ==
  ASSUME NEW c, NEW l \in Link(c), NEW n \in {1, 2}, n <= Len(l.down),
         NEW q, q = SubSeq(l.down, n + 1, Len(l.down))
  PROVE  Moves(c, l, [l EXCEPT !.down = q]) /\ Calm(l, [l EXCEPT !.down = q])
<1> DEFINE m == [l EXCEPT !.down = q]
<1>1. l.down \in Seq(Pieces(Frames))
  BY DEF Link
<1>2. q \in Seq(Pieces(Frames))
  BY <1>1
<1>3. m \in Link(c) /\ m.up = l.up /\ m.dialling = l.dialling /\ m.accepted = l.accepted
  BY <1>2 DEF Link
<1>4. m.up \in Seq(Pieces(Frames \cup Blobs(c)))
  BY <1>3 DEF Link
<1> QED
  BY <1>3, <1>4 DEF Moves, Shrinks, Calm, Untouched

LEMMA RestIs ==
  ASSUME NEW S, NEW q \in Seq(S), HasFrame(q)
  PROVE  2 <= Len(q) /\ Rest(q) = SubSeq(q, 2 + 1, Len(q))
BY DEF HasFrame, Rest

LEMMA DropTwo ==
  ASSUME NEW c, NEW l \in Link(c), HasFrame(l.up)
  PROVE  /\ Moves(c, l, [l EXCEPT !.up = Rest(l.up)])
         /\ Calm(l, [l EXCEPT !.up = Rest(l.up)])
         /\ 2 <= Len(l.up) /\ Len(l.up) \in Nat /\ Len(Rest(l.up)) = Len(l.up) - 2
         /\ \A k \in 1 .. Len(Rest(l.up)) : Rest(l.up)[k] = l.up[k + 2]
<1>1. l.up \in Seq(Pieces(Frames \cup Blobs(c)))
  BY DEF Link
<1>2. 2 <= Len(l.up) /\ Rest(l.up) = SubSeq(l.up, 2 + 1, Len(l.up)) /\ Len(l.up) \in Nat
  BY <1>1, RestIs
<1>3. Moves(c, l, [l EXCEPT !.up = Rest(l.up)]) /\ Calm(l, [l EXCEPT !.up = Rest(l.up)])
  BY <1>2, DropUp
<1>4. /\ Len(SubSeq(l.up, 2 + 1, Len(l.up))) = Len(l.up) - 2
      /\ \A k \in 1 .. Len(l.up) - 2 : SubSeq(l.up, 2 + 1, Len(l.up))[k] = l.up[k + 2]
  BY <1>1, <1>2
<1> QED
  BY <1>2, <1>3, <1>4

LEMMA TailIs ==
  ASSUME NEW S, NEW q \in Seq(S), q # <<>>
  PROVE  1 <= Len(q) /\ Tail(q) = SubSeq(q, 1 + 1, Len(q))
BY TailIsSubSeq, EmptySeq

LEMMA ClosesEnd ==
  ASSUME NEW c, NEW l \in Link(c), NEW e \in {"dialling", "accepted"}
  PROVE  /\ Moves(c, l, Close(l, e)) /\ (e = "accepted" => Calm(l, Close(l, e)))
         /\ Close(l, e).up = l.up
<1> DEFINE m == Close(l, e)
<1>1. CASE l[e] # "open"
  BY <1>1, Still DEF Close
<1>2. CASE l[e] = "open"
  <2>1. m = [l EXCEPT ![e] = "closing"]
    BY <1>2 DEF Close
  <2> HIDE DEF m
  <2>2. /\ m \in Link(c) /\ m.up = l.up
        /\ m.dialling \in {l.dialling, "closing"} /\ m.accepted \in {l.accepted, "closing"}
        /\ e = "accepted" => m.dialling = l.dialling
        /\ e = "accepted" => l.accepted = "open"
    <3>1. CASE e = "dialling"
      BY <2>1, <3>1 DEF Link, State
    <3>2. CASE e = "accepted"
      BY <2>1, <1>2, <3>2 DEF Link, State
    <3> QED
      BY <3>1, <3>2
  <2>3. m.up \in Seq(Pieces(Frames \cup Blobs(c)))
    BY <2>2 DEF Link
  <2> QED
    BY <2>2, <2>3 DEF Moves, Shrinks, Calm, Untouched, m
<1> QED
  BY <1>1, <1>2

LEMMA MovesOn ==
  ASSUME NEW c, NEW l \in Link(c), NEW m, NEW n, Moves(c, l, m), Moves(c, m, n)
  PROVE  Moves(c, l, n) /\ (Calm(l, m) /\ Calm(m, n) => Calm(l, n))
<1>1. m \in Link(c) /\ n \in Link(c) /\ (n.dialling = "none" => l.dialling = "none")
  BY DEF Moves
<1>2. Len(l.up) \in Nat /\ Len(m.up) \in Nat /\ Len(n.up) \in Nat
  <2>1. \A x \in Link(c) : x.up \in Seq(Pieces(Frames \cup Blobs(c)))
    BY DEF Link
  <2> QED
    BY <1>1, <2>1
<1>3. Shrinks(l, n)
  <2> SUFFICES ASSUME NEW k \in 1 .. Len(n.up), n.up[k].of.tag = "blob"
               PROVE  \E j \in 1 .. Len(l.up) : k <= j /\ n.up[k] = l.up[j]
    BY DEF Shrinks
  <2>1. PICK i \in 1 .. Len(m.up) : k <= i /\ n.up[k] = m.up[i]
    BY DEF Moves, Shrinks
  <2>2. PICK j \in 1 .. Len(l.up) : i <= j /\ m.up[i] = l.up[j]
    BY <2>1 DEF Moves, Shrinks
  <2> QED
    BY <1>2, <2>1, <2>2
<1> QED
  BY <1>1, <1>3 DEF Moves, Calm

(* What a relay answers at once.                                            *)
LEMMA AnswerPieces ==
  ASSUME NEW a, a = <<>> \/ \E f \in Frames : a = <<f>>
  PROVE  FlattenSeq([i \in DOMAIN a |-> Whole(a[i])]) \in Seq(Pieces(Frames))
<1>1. CASE a = <<>>
  <2>1. DOMAIN a = 1 .. 0
    BY <1>1
  <2>2. \A i \in 1 .. 0 : Whole(a[i]) \in Seq(Pieces(Frames))
    OBVIOUS
  <2>3. [i \in 1 .. 0 |-> Whole(a[i])] \in Seq(Seq(Pieces(Frames)))
    BY ONLY <2>2, IsASeq
  <2> QED
    BY <2>1, <2>3, FlattenType
<1>2. CASE \E f \in Frames : a = <<f>>
  <2>1. PICK f \in Frames : a = <<f>>
    BY <1>2
  <2>2. Whole(f) \in Seq(Pieces(Frames))
    BY WholePieces
  <2>3. [i \in DOMAIN a |-> Whole(a[i])] = <<Whole(f)>>
    BY <2>1
  <2>4. <<Whole(f)>> \in Seq(Seq(Pieces(Frames)))
    BY <2>2
  <2> QED
    BY <2>3, <2>4, FlattenType
<1> QED
  BY <1>1, <1>2

(* A released socket.                                                       *)
LEMMA GoesUp ==
  ASSUME NEW c, NEW l \in Link(c), NEW m \in Gone(l, "dialling")
  PROVE  Moves(c, l, m) /\ (l.dialling # "none" => m.dialling = "closed")
<1>1. CASE l.dialling \notin {"open", "closing"}
  BY <1>1, Still DEF Gone, Link, State
<1>2. CASE l.dialling \in {"open", "closing"}
  <2>1. PICK k \in 0 .. Len(l.up), how \in {"rst", "fin"} :
          m = [l EXCEPT !.dialling = "closed", !.down = <<>>,
                        !.up = IF l.accepted = "closed" THEN <<>>
                               ELSE Append(SubSeq(l.up, 1, k), EndOf(how))]
    <3>1. l.up \in Seq(Pieces(Frames \cup Blobs(c))) /\ Len(l.up) \in 0 .. Len(l.up)
      BY DEF Link
    <3> DEFINE unread == \E k \in DOMAIN l[In("dialling")] :
                           l[In("dialling")][k].part \in {"head", "body"}
               kept == IF unread THEN 0 .. Len(l[Out("dialling")]) ELSE {Len(l[Out("dialling")])}
               sent == {SubSeq(l[Out("dialling")], 1, k) : k \in kept}
               how == IF unread THEN "rst" ELSE "fin"
    <3>2. Gone(l, "dialling") =
            {[l EXCEPT !["dialling"] = "closed", ![In("dialling")] = <<>>,
                       ![Out("dialling")] = IF l[Peer("dialling")] = "closed" THEN <<>>
                                 ELSE Append(s, EndOf(how))] : s \in sent}
      BY <1>2 DEF Gone
    <3>3. PICK s \in sent :
            m = [l EXCEPT !["dialling"] = "closed", ![In("dialling")] = <<>>,
                       ![Out("dialling")] = IF l[Peer("dialling")] = "closed" THEN <<>>
                                 ELSE Append(s, EndOf(how))]
      BY <3>2
    <3>6. m = [l EXCEPT !.dialling = "closed", !.down = <<>>,
                       !.up = IF l.accepted = "closed" THEN <<>> ELSE Append(s, EndOf(how))]
      BY <3>3, Ends2
    <3>4. kept \subseteq 0 .. Len(l.up) /\ how \in {"rst", "fin"}
      BY <3>1, Ends2
    <3>5. PICK k \in 0 .. Len(l.up) : s = SubSeq(l.up, 1, k)
      BY <3>4, Ends2
    <3> HIDE DEF how
    <3> QED
      BY <3>6, <3>4, <3>5
  <2> DEFINE q == IF l.accepted = "closed" THEN <<>>
                  ELSE Append(SubSeq(l.up, 1, k), EndOf(how))
  <2>2. l.up \in Seq(Pieces(Frames \cup Blobs(c)))
    BY DEF Link
  <2> Len(l.up) \in Nat
    BY <2>2
  <2>3. EndOf(how) \in Pieces(Frames \cup Blobs(c)) /\ EndOf(how).of = NoFrame
    BY EndPiece DEF Pieces
  <2>4. /\ q \in Seq(Pieces(Frames \cup Blobs(c)))
        /\ \A j \in 1 .. Len(q) : \/ j \in 1 .. Len(l.up) /\ q[j] = l.up[j]
                                  \/ q[j].of = NoFrame
    <3>1. CASE l.accepted = "closed"
      BY <3>1
    <3>2. CASE l.accepted # "closed"
      <4>2. q = Append(SubSeq(l.up, 1, k), EndOf(how))
        BY <3>2
      <4> HIDE DEF q
      <4>4. /\ q \in Seq(Pieces(Frames \cup Blobs(c))) /\ Len(q) = k + 1
            /\ \A j \in 1 .. k : j \in 1 .. Len(l.up) /\ q[j] = l.up[j]
            /\ q[k + 1] = EndOf(how)
        BY ONLY <4>2, <2>2, <2>3, k \in 0 .. Len(l.up), AppendPrefix
      <4>3. ASSUME NEW j \in 1 .. Len(q), j # k + 1
            PROVE  j \in 1 .. Len(l.up) /\ q[j] = l.up[j]
        BY <4>4, <4>3
      <4> QED
        BY <4>4, <4>3, <2>3
    <3> QED
      BY <3>1, <3>2
  <2> HIDE DEF q
  <2>5. m = [l EXCEPT !.dialling = "closed", !.down = <<>>, !.up = q]
    BY <2>1 DEF q
  <2>6. <<>> \in Seq(Pieces(Frames))
    OBVIOUS
  <2>7. m \in Link(c) /\ m.up = q /\ m.dialling = "closed"
    BY <2>4, <2>5, <2>6 DEF Link, State
  <2>8. NoFrame.tag # "blob"
    BY DEF NoFrame
  <2>9. Len(q) \in Nat /\ Len(l.up) \in Nat
    BY <2>2, <2>4
  <2> QED
    BY <2>4, <2>7, <2>8, <2>9 DEF Moves, Shrinks
<1> QED
  BY <1>1, <1>2

LEMMA GoesDown ==
  ASSUME NEW c, NEW l \in Link(c), NEW m \in Gone(l, "accepted")
  PROVE  Moves(c, l, m) /\ Calm(l, m) /\ (l.accepted # "none" => m.accepted = "closed")
<1>1. CASE l.accepted \notin {"open", "closing"}
  BY <1>1, Still DEF Gone, Link, State
<1>2. CASE l.accepted \in {"open", "closing"}
  <2>1. PICK k \in 0 .. Len(l.down), how \in {"rst", "fin"} :
          m = [l EXCEPT !.accepted = "closed", !.up = <<>>,
                        !.down = IF l.dialling = "closed" THEN <<>>
                                 ELSE Append(SubSeq(l.down, 1, k), EndOf(how))]
    <3>1. l.down \in Seq(Pieces(Frames)) /\ Len(l.down) \in 0 .. Len(l.down)
      BY DEF Link
    <3> DEFINE unread == \E k \in DOMAIN l[In("accepted")] :
                           l[In("accepted")][k].part \in {"head", "body"}
               kept == IF unread THEN 0 .. Len(l[Out("accepted")]) ELSE {Len(l[Out("accepted")])}
               sent == {SubSeq(l[Out("accepted")], 1, k) : k \in kept}
               how == IF unread THEN "rst" ELSE "fin"
    <3>2. Gone(l, "accepted") =
            {[l EXCEPT !["accepted"] = "closed", ![In("accepted")] = <<>>,
                       ![Out("accepted")] = IF l[Peer("accepted")] = "closed" THEN <<>>
                                 ELSE Append(s, EndOf(how))] : s \in sent}
      BY <1>2 DEF Gone
    <3>3. PICK s \in sent :
            m = [l EXCEPT !["accepted"] = "closed", ![In("accepted")] = <<>>,
                       ![Out("accepted")] = IF l[Peer("accepted")] = "closed" THEN <<>>
                                 ELSE Append(s, EndOf(how))]
      BY <3>2
    <3>6. m = [l EXCEPT !.accepted = "closed", !.up = <<>>,
                       !.down = IF l.dialling = "closed" THEN <<>> ELSE Append(s, EndOf(how))]
      BY <3>3, Ends2
    <3>4. kept \subseteq 0 .. Len(l.down) /\ how \in {"rst", "fin"}
      BY <3>1, Ends2
    <3>5. PICK k \in 0 .. Len(l.down) : s = SubSeq(l.down, 1, k)
      BY <3>4, Ends2
    <3> HIDE DEF how
    <3> QED
      BY <3>6, <3>4, <3>5
  <2> DEFINE q == IF l.dialling = "closed" THEN <<>>
                  ELSE Append(SubSeq(l.down, 1, k), EndOf(how))
  <2>2. l.down \in Seq(Pieces(Frames))
    BY DEF Link
  <2>3. q \in Seq(Pieces(Frames))
    BY <2>2, EndPiece
  <2> HIDE DEF q
  <2>4. m = [l EXCEPT !.accepted = "closed", !.up = <<>>, !.down = q]
    BY <2>1 DEF q
  <2>5. <<>> \in Seq(Pieces(Frames \cup Blobs(c)))
    OBVIOUS
  <2>6. /\ m \in Link(c) /\ m.up = <<>> /\ m.dialling = l.dialling
        /\ m.accepted = "closed"
    BY <2>3, <2>4, <2>5 DEF Link, State
  <2> QED
    BY <2>6 DEF Moves, Shrinks, Calm, Untouched
<1> QED
  BY <1>1, <1>2

-------------------------------------------------------------------------------
(* The layers of an onion.                                                  *)

(* The i-th layer around the next one.                                      *)
Around(path, server, payload, i, inner) ==
  WrapLayer(path[i].key, IF i = Len(path) THEN PackHop(HOP_SERVER, server, payload)
                         ELSE PackHop(HOP_NODE, path[i + 1].addr, inner))

AreLayers(f, path, server, payload) ==
  f = [i \in 1 .. Len(path) |-> Around(path, server, payload, i, f[i + 1])]

(* The last k of them, built from the end like build_onion does.            *)
LEMMA LayersExist ==
  ASSUME NEW path, Len(path) \in Nat, NEW server, NEW payload
  PROVE  \E f : AreLayers(f, path, server, payload)
<1> DEFINE n == Len(path)
           A(i, inner) == Around(path, server, payload, i, inner)
           Upper(k, f) == f = [i \in n - k + 1 .. n |-> A(i, f[i + 1])]
           T == {k \in Nat : k <= n => \E f : Upper(k, f)}
<1>0. \A x, y : A(n, x) = A(n, y)
  BY DEF Around
<1> HIDE DEF A
<1>1. 0 \in T
  <2>1. n - 0 + 1 .. n = {}
    OBVIOUS
  <2>2. Upper(0, [i \in n - 0 + 1 .. n |-> 0])
    BY <2>1
  <2> QED
    BY <2>2
<1>2. ASSUME NEW k \in T PROVE k + 1 \in T
  <2>0. k \in Nat /\ k + 1 \in Nat
    OBVIOUS
  <2> HIDE DEF Upper
  <2> SUFFICES ASSUME k + 1 <= n PROVE \E f : Upper(k + 1, f)
    BY <2>0
  <2>1. PICK f : Upper(k, f)
    BY <2>0
  <2> USE DEF Upper
  <2>2. f = [i \in n - k + 1 .. n |-> A(i, f[i + 1])]
    BY <2>1
  <2> DEFINE first == A(n - k, f[n - k + 1])
             g == [i \in n - k .. n |-> IF i = n - k THEN first ELSE f[i]]
  <2>3. ASSUME NEW i \in n - k .. n PROVE g[i] = A(i, g[i + 1])
    <3>1. CASE i = n
      <4>1. CASE k = 0
        BY <3>1, <4>1, <1>0, <2>0
      <4>2. CASE k # 0
        <5>1. i \in n - k + 1 .. n /\ i # n - k
          BY <3>1, <4>2, <2>0
        <5>2. g[i] = f[i] /\ f[i] = A(i, f[i + 1])
          BY <2>2, <5>1
        <5> QED
          BY <3>1, <5>2, <1>0
      <4> QED
        BY <4>1, <4>2
    <3>2. CASE i # n
      <4>1. i + 1 \in n - k + 1 .. n /\ i + 1 # n - k /\ i + 1 \in n - k .. n
        BY <3>2, <2>0
      <4>2. g[i + 1] = f[i + 1]
        BY <4>1
      <4>3. CASE i = n - k
        BY <4>3, <4>2
      <4>4. CASE i # n - k
        <5>1. i \in n - k + 1 .. n
          BY <4>4, <2>0
        <5>2. g[i] = f[i] /\ f[i] = A(i, f[i + 1])
          BY <2>2, <4>4, <5>1
        <5> QED
          BY <5>2, <4>2
      <4> QED
        BY <4>3, <4>4
    <3> QED
      BY <3>1, <3>2
  <2>4. n - k = n - (k + 1) + 1
    BY <2>0
  <2> HIDE DEF first
  <2>5. g = [i \in n - k .. n |-> A(i, g[i + 1])]
    BY <2>3
  <2>6. Upper(k + 1, g)
    BY <2>4, <2>5
  <2> QED
    BY <2>6
<1> HIDE DEF T
<1>3. T = Nat
  BY <1>1, <1>2, NaturalsAll DEF T
<1> HIDE DEF Upper
<1>4. PICK f : Upper(n, f)
  BY <1>3 DEF T
<1>5. n - n + 1 = 1
  OBVIOUS
<1>6. f = [i \in 1 .. n |-> A(i, f[i + 1])]
  BY <1>4, <1>5 DEF Upper
<1> QED
  BY <1>6 DEF AreLayers, A

LEMMA LayersChosen ==
  ASSUME NEW path, Len(path) \in Nat, NEW server, NEW payload
  PROVE  AreLayers(OnionLayers(path, server, payload), path, server, payload)
<1>1. OnionLayers(path, server, payload) = CHOOSE f : AreLayers(f, path, server, payload)
  BY DEF OnionLayers, AreLayers, Around
<1> QED
  BY <1>1, LayersExist

(* The i-th layer of a circuit's onion is for its i-th relay and holds the  *)
(* address of the node after it; inside is the next layer or the payload.   *)
LEMMA LayersRoute ==
  ASSUME NEW c \in Chains, NEW i \in 1 .. Len(c)
  PROVE  /\ LayersOf(c)[i].sealedFor = <<c[i], 0>>
         /\ LayersOf(c)[i].hop = HopOf(c, i)
         /\ HopOf(c, i).addr = Node(c, i + 1)
         /\ i = Len(c) => HopOf(c, i).type = HOP_SERVER /\ HopOf(c, i).inner = Data(0)
         /\ i # Len(c) => HopOf(c, i).type = HOP_NODE /\ HopOf(c, i).inner = LayersOf(c)[i + 1]
         /\ HopOf(c, i) # NoHop
<1> DEFINE f == LayersOf(c)
<1>1. Len(c) \in Nat /\ Len(Path(c)) = Len(c)
  BY RelayChainAssumption DEF Path
<1>2. AreLayers(f, Path(c), Exit, Data(0))
  BY <1>1, LayersChosen DEF LayersOf
<1> HIDE DEF f
<1>3. f[i] = Around(Path(c), Exit, Data(0), i, f[i + 1])
  BY <1>1, <1>2 DEF AreLayers
<1>4. Path(c)[i].key = <<c[i], 0>> /\ (i # Len(c) => Path(c)[i + 1].addr = c[i + 1])
  <2>1. \A j \in 1 .. Len(c) : Path(c)[j] = [key |-> <<c[j], 0>>, addr |-> c[j]]
    BY DEF Path
  <2>2. i # Len(c) => i + 1 \in 1 .. Len(c)
    BY <1>1
  <2>3. Path(c)[i] = [key |-> <<c[i], 0>>, addr |-> c[i]]
    BY <2>1
  <2>4. i # Len(c) => Path(c)[i + 1] = [key |-> <<c[i + 1], 0>>, addr |-> c[i + 1]]
    BY <2>1, <2>2
  <2> QED
    BY ONLY <2>3, <2>4
<1>5. Node(c, i + 1) = IF i = Len(c) THEN Exit ELSE c[i + 1]
  BY <1>1 DEF Node
<1>6. CASE i = Len(c)
  <2>1. f[i] = [sealedFor |-> <<c[i], 0>>,
                hop |-> [type |-> HOP_SERVER, addr |-> Exit, inner |-> Data(0)]]
    BY <1>1, <1>3, <1>4, <1>6 DEF Around, WrapLayer, PackHop
  <2>2. HOP_SERVER # "none"
    BY DEF HOP_SERVER
  <2> QED
    BY <1>5, <1>6, <2>1, <2>2 DEF HopOf, f, NoHop
<1>7. CASE i # Len(c)
  <2>1. f[i] = [sealedFor |-> <<c[i], 0>>,
                hop |-> [type |-> HOP_NODE, addr |-> c[i + 1], inner |-> f[i + 1]]]
    BY <1>1, <1>3, <1>4, <1>7 DEF Around, WrapLayer, PackHop
  <2>2. HOP_NODE # "none"
    BY DEF HOP_NODE
  <2> QED
    BY <1>5, <1>7, <2>1, <2>2 DEF HopOf, f, NoHop
<1> QED
  BY <1>6, <1>7

LEMMA OnionIs ==
  ASSUME NEW c
  PROVE  BuildOnion(Path(c), Exit, Data(0)) = LayersOf(c)[1]
BY DEF BuildOnion, LayersOf

(* The nodes of a circuit are all different.                                *)
LEMMA NodesDiffer ==
  ASSUME NEW c \in Chains
  PROVE  /\ Len(c) \in Nat \ {0}
         /\ Node(c, 0) = Client /\ Node(c, Len(c) + 1) = Exit
         /\ \A i \in 1 .. Len(c) : Node(c, i) = c[i] /\ c[i] \in Relay
         /\ \A i, j \in 0 .. Len(c) + 1 : Node(c, i) = Node(c, j) => i = j
<1>1. c \in Seq(Relay) /\ c # <<>> /\ IsInjective(c)
  BY RelayChainAssumption
<1>2. Len(c) \in Nat \ {0} /\ \A i \in 1 .. Len(c) : c[i] \in Relay
  BY <1>1
<1>3. \A i, j \in 1 .. Len(c) : c[i] = c[j] => i = j
  BY <1>1 DEF IsInjective
<1>4. Client # Exit /\ \A i \in 1 .. Len(c) : c[i] # Client /\ c[i] # Exit
  BY <1>2, RelayChainAssumption
<1> QED
  BY <1>2, <1>3, <1>4 DEF Node

-------------------------------------------------------------------------------
(* Where the nodes of a circuit are.                                        *)

LEMMA ChainIs ==
  ASSUME RouteInv, chain # <<>>
  PROVE  chain \in Chains
BY DEF RouteInv, Types

LEMMA PrevNode ==
  ASSUME RouteInv, NEW n \in Relay \cup {Exit}, origin[n] # Exit
  PROVE  origin[n] \in Dialler /\ origin[n] # n
<1>1. origin[n] \in Dialler
  BY DEF RouteInv, Types
<1>2. CASE chain = <<>>
  <2>1. origin[n] = Client
    BY <1>2 DEF RouteInv, Dialled
  <2> QED
    BY <1>1, <2>1, RelayChainAssumption
<1>3. CASE chain # <<>>
  <2>1. PICK i \in 1 .. Len(chain) + 1 :
          n = Node(chain, i) /\ origin[n] = Node(chain, i - 1)
    BY <1>3 DEF RouteInv, Along
  <2>2. chain \in Chains
    BY <1>3, ChainIs
  <2>3. Len(chain) \in Nat /\ i \in 0 .. Len(chain) + 1 /\ i - 1 \in 0 .. Len(chain) + 1 /\ i # i - 1
    BY <2>2, NodesDiffer
  <2> QED
    BY <1>1, <2>1, <2>2, <2>3, NodesDiffer
<1> QED
  BY <1>2, <1>3

(* The relay that peeled a layer, and the node whose address it found.      *)
LEMMA HopNode ==
  ASSUME RouteInv, NEW r \in Relay, hop[r] # NoHop
  PROVE  \E i \in 1 .. Len(chain) :
           /\ r = Node(chain, i) /\ chain[i] = r /\ hop[r] = HopOf(chain, i)
           /\ hop[r].addr = Node(chain, i + 1) /\ origin[r] = Node(chain, i - 1)
           /\ hop[r].addr \in Relay \cup {Exit} /\ chain \in Chains
<1>1. PICK i \in 1 .. Len(chain) : r = chain[i] /\ hop[r] = HopOf(chain, i)
  BY DEF RouteInv, Along
<1>2. chain # <<>>
  BY <1>1
<1>3. chain \in Chains
  BY <1>2, ChainIs
<1>4. r = Node(chain, i) /\ hop[r].addr = Node(chain, i + 1)
  BY <1>1, <1>3, NodesDiffer, LayersRoute
<1>5. origin[r] # Exit
  BY DEF RouteInv, Along, Dialled
<1>6. PICK j \in 1 .. Len(chain) + 1 : r = Node(chain, j) /\ origin[r] = Node(chain, j - 1)
  BY <1>2, <1>5 DEF RouteInv, Along
<1>7. Len(chain) \in Nat /\ i \in 0 .. Len(chain) + 1 /\ j \in 0 .. Len(chain) + 1
  BY <1>3, NodesDiffer
<1>8. j = i
  <2>1. Node(chain, i) = Node(chain, j)
    BY <1>4, <1>6
  <2> QED
    BY ONLY <1>3, <1>7, <2>1, NodesDiffer
<1>9. Node(chain, i + 1) \in Relay \cup {Exit}
  <2>1. CASE i = Len(chain)
    BY <2>1, <1>3, NodesDiffer
  <2>2. CASE i # Len(chain)
    <3>1. i + 1 \in 1 .. Len(chain)
      BY <2>2, <1>7
    <3> QED
      BY <3>1, <1>3, NodesDiffer
  <2> QED
    BY <2>1, <2>2
<1> QED
  BY <1>1, <1>3, <1>4, <1>6, <1>8, <1>9

LEMMA HelloNext ==
  ASSUME RouteInv, NEW r \in Relay, hop[r] # NoHop, origin[hop[r].addr] # Exit
  PROVE  origin[hop[r].addr] = r
<1>1. PICK i \in 1 .. Len(chain) :
           /\ r = Node(chain, i) /\ hop[r].addr = Node(chain, i + 1)
           /\ hop[r].addr \in Relay \cup {Exit} /\ chain \in Chains
  BY HopNode
<1>2. Len(chain) \in Nat /\ chain # <<>>
  BY <1>1, NodesDiffer
<1>3. PICK j \in 1 .. Len(chain) + 1 :
        hop[r].addr = Node(chain, j) /\ origin[hop[r].addr] = Node(chain, j - 1)
  BY <1>1, <1>2 DEF RouteInv, Along
<1>4. i + 1 \in 0 .. Len(chain) + 1 /\ j \in 0 .. Len(chain) + 1
  BY <1>2
<1>5. j = i + 1
  BY <1>1, <1>3, <1>4, NodesDiffer
<1> QED
  BY <1>1, <1>3, <1>5

(* Past its handler a relay's connection carries no layer, and neither does *)
(* the exit's.                                                              *)
LEMMA NoLayerHere ==
  ASSUME RouteInv, NEW n \in Relay \cup {Exit}, origin[n] # Exit,
         n \in Relay => handler[n] \notin {"first", "layer", "over"},
         NEW k \in 1 .. Len(link[origin[n]].up)
  PROVE  link[origin[n]].up[k].of \in Frames
<1>1. origin[n] \in Dialler
  BY PrevNode
<1>2. link[origin[n]].up \in Seq(Pieces(Frames \cup Blobs(chain)))
  BY <1>1 DEF RouteInv, Types, Link
<1>3. link[origin[n]].up[k] \in Pieces(Frames \cup Blobs(chain))
  BY <1>2
<1>4. link[origin[n]].up[k].of \in Frames \cup Blobs(chain)
  BY <1>3 DEF Pieces
<1> SUFFICES ASSUME link[origin[n]].up[k].of \in Blobs(chain) PROVE FALSE
  BY <1>4
<1>5. link[origin[n]].up[k].of.tag = "blob"
  <2>1. \A b \in Blobs(chain) : b.tag = "blob"
    BY DEF Blobs, Blob
  <2> QED
    BY <2>1
<1>6. PICK i \in 1 .. Len(chain) :
        origin[n] = Node(chain, i - 1) /\ handler[chain[i]] \in {"first", "layer", "over"}
  BY <1>1, <1>5 DEF RouteInv, LayersWait, LayersWaitOn, LayerWaits
<1>7. chain # <<>>
  BY <1>6
<1>8. chain \in Chains
  BY <1>7, ChainIs
<1>9. PICK j \in 1 .. Len(chain) + 1 : n = Node(chain, j) /\ origin[n] = Node(chain, j - 1)
  BY <1>7 DEF RouteInv, Along
<1>10. Len(chain) \in Nat /\ i - 1 \in 0 .. Len(chain) + 1 /\ j - 1 \in 0 .. Len(chain) + 1
  BY <1>8, NodesDiffer
<1>11. i = j
  BY <1>6, <1>8, <1>9, <1>10, NodesDiffer
<1>12. n = chain[i] /\ chain[i] \in Relay
  BY <1>8, <1>9, <1>11, NodesDiffer
<1> QED
  BY <1>6, <1>12

-------------------------------------------------------------------------------
(* Steps that leave the way of a circuit as it is.                          *)

LEMMA OneLink ==
  ASSUME NEW c, link \in [Dialler -> Link(c)], NEW d \in Dialler, NEW m,
         Moves(c, link[d], m), link' = [link EXCEPT ![d] = m]
  PROVE  /\ link' \in [Dialler -> Link(c)]
         /\ \A x \in Dialler : Moves(c, link[x], link'[x])
         /\ link'[d] = m
         /\ \A x \in Dialler : x # d => link'[x] = link[x]
<1>1. m \in Link(c)
  BY DEF Moves
<1>2. link' \in [Dialler -> Link(c)] /\ link'[d] = m
  BY <1>1
<1>3. \A x \in Dialler : x # d => link'[x] = link[x]
  OBVIOUS
<1>4. \A x \in Dialler : Moves(c, link[x], link[x])
  BY Still
<1> QED
  BY <1>2, <1>3, <1>4

LEMMA TwoLinks ==
  ASSUME NEW c, link \in [Dialler -> Link(c)], NEW d \in Dialler, NEW m,
         NEW e \in Dialler, NEW n, d # e,
         Moves(c, link[d], m), Moves(c, link[e], n),
         link' = [link EXCEPT ![d] = m, ![e] = n]
  PROVE  /\ link' \in [Dialler -> Link(c)]
         /\ \A x \in Dialler : Moves(c, link[x], link'[x])
         /\ link'[d] = m /\ link'[e] = n
         /\ \A x \in Dialler : x \notin {d, e} => link'[x] = link[x]
<1>1. m \in Link(c) /\ n \in Link(c)
  BY DEF Moves
<1>2. link' \in [Dialler -> Link(c)] /\ link'[d] = m /\ link'[e] = n
  BY <1>1
<1>3. \A x \in Dialler : x \notin {d, e} => link'[x] = link[x]
  OBVIOUS
<1>4. \A x \in Dialler : Moves(c, link[x], link[x])
  BY Still
<1> QED
  BY <1>2, <1>3, <1>4

(* Layers stay where they are when no handler starts to read them.          *)
LEMMA LayersKeptOn ==
  ASSUME Types, NEW d \in Dialler, LayersWaitOn(d), chain' = chain,
         Moves(chain, link[d], link'[d]),
         \A i \in 1 .. Len(chain) : d = Node(chain, i - 1) =>
           \/ handler'[chain[i]] \in {handler[chain[i]], "over"}
           \/ handler[chain[i]] \notin {"first", "layer", "over"}
  PROVE  LayersWaitOn(d)'
<1> SUFFICES ASSUME NEW k \in 1 .. Len(link'[d].up),
                    link'[d].up[k].of.tag = "blob"
             PROVE  \E i \in 1 .. Len(chain) :
                      /\ d = Node(chain, i - 1)
                      /\ link'[d].up[k].of = Blob(LayersOf(chain)[i])
                      /\ handler'[chain[i]] \in {"first", "layer", "over"}
                      /\ handler'[chain[i]] = "first" => k <= 4
                      /\ handler'[chain[i]] = "layer" => k <= 2
  BY DEF LayersWaitOn, LayerWaits, LayersOf, Node
<1>1. PICK j \in 1 .. Len(link[d].up) : k <= j /\ link'[d].up[k] = link[d].up[j]
  BY DEF Moves, Shrinks
<1>2. PICK i \in 1 .. Len(chain) :
        /\ d = Node(chain, i - 1)
        /\ link[d].up[j].of = Blob(LayersOf(chain)[i])
        /\ handler[chain[i]] \in {"first", "layer", "over"}
        /\ handler[chain[i]] = "first" => j <= 4
        /\ handler[chain[i]] = "layer" => j <= 2
  BY <1>1 DEF LayersWaitOn, LayerWaits
<1>4. handler'[chain[i]] \in {handler[chain[i]], "over"}
  BY <1>2
<1>5. k \in Nat /\ j \in Nat /\ k <= j
  <2>1. link[d].up \in Seq(Pieces(Frames \cup Blobs(chain)))
        /\ link'[d].up \in Seq(Pieces(Frames \cup Blobs(chain)))
    BY DEF Types, Link, Moves
  <2> QED
    BY <1>1, <2>1
<1> QED
  BY <1>1, <1>2, <1>4, <1>5

LEMMA LayersKept ==
  ASSUME Types, LayersWait, chain' = chain,
         \A x \in Dialler : Moves(chain, link[x], link'[x]),
         \A r \in Relay : \/ handler'[r] \in {handler[r], "over"}
                          \/ handler[r] \notin {"first", "layer", "over"}
  PROVE  LayersWait'
<1>1. \A i \in 1 .. Len(chain) : chain[i] \in Relay
  <2> SUFFICES ASSUME NEW i \in 1 .. Len(chain) PROVE chain[i] \in Relay
    OBVIOUS
  <2>1. chain # <<>>
    OBVIOUS
  <2> QED
    BY <2>1, NodesDiffer DEF Types
<1>2. ASSUME NEW d \in Dialler PROVE LayersWaitOn(d)'
  BY <1>1, LayersKeptOn DEF LayersWait
<1> QED
  BY <1>2 DEF LayersWait, Dialler

LEMMA HelloKept ==
  ASSUME RouteInv,
         \A r \in Relay : handler'[r] = "hello" =>
           /\ handler[r] = "hello" /\ hop'[r] = hop[r] /\ Calm(link[r], link'[r]),
         \A r \in Relay : handler[r] = "first" =>
           \/ handler'[r] = "first" \/ link[origin[r]].up # <<>>
           \/ (link[origin[r]].accepted # "none" => link'[origin[r]].accepted = "closed")
  PROVE  HelloFresh'
<1> SUFFICES ASSUME NEW r \in Relay, handler'[r] = "hello"
             PROVE  /\ link'[r].up = <<>> /\ link'[r].dialling = "open"
                    /\ link'[r].accepted # "none"
                    /\ hop'[r].addr \in Relay =>
                         handler'[hop'[r].addr] = "first" \/ link'[r].accepted = "closed"
  BY DEF HelloFresh
<1>1. /\ handler[r] = "hello" /\ hop'[r] = hop[r] /\ Calm(link[r], link'[r])
      /\ link[r].up = <<>> /\ link[r].dialling = "open" /\ link[r].accepted # "none"
      /\ hop[r].addr \in Relay => handler[hop[r].addr] = "first" \/ link[r].accepted = "closed"
  BY DEF RouteInv, HelloFresh
<1>2. /\ link'[r].up = <<>> /\ link'[r].dialling = "open" /\ link'[r].accepted # "none"
      /\ link[r].accepted = "closed" => link'[r].accepted = "closed"
  BY <1>1 DEF Calm, Untouched
<1>3. ASSUME hop[r].addr \in Relay, handler[hop[r].addr] = "first"
      PROVE  handler'[hop[r].addr] = "first" \/ link'[r].accepted = "closed"
  <2>1. hop[r] # NoHop
    BY <1>1 DEF RouteInv, Along
  <2>2. origin[hop[r].addr] # Exit
    BY <1>3 DEF RouteInv, Dialled
  <2>3. origin[hop[r].addr] = r
    BY <2>1, <2>2, HelloNext
  <2> QED
    BY <1>1, <1>3, <2>3
<1> QED
  BY <1>1, <1>2, <1>3

LEMMA RouteKept ==
  ASSUME RouteInv, Types', chain' = chain, origin' = origin, hop' = hop,
         \A x \in Dialler : Moves(chain, link[x], link'[x]),
         \A r \in Relay : \/ handler'[r] = handler[r]
                          \/ /\ handler[r] # "listen" /\ handler'[r] = "over"
                             /\ handler[r] = "first" =>
                                  \/ link[origin[r]].up # <<>>
                                  \/ (link[origin[r]].accepted # "none" =>
                                        link'[origin[r]].accepted = "closed"),
         \A r \in Relay : handler'[r] = "hello" => Calm(link[r], link'[r]),
         \A r \in Relay, d \in Direction :
           thread'[r][d].at \in {"recv", "send"} => handler'[r] = "forward"
  PROVE  RouteInv'
<1>1. Dialled'
  <2>1. link'[Client].dialling = "none" => link[Client].dialling = "none"
    BY DEF Moves, Dialler
  <2> QED
    BY <2>1 DEF RouteInv, Dialled
<1>2. Along'
  <2>1. chain # <<>> => \A n \in Relay \cup {Exit} : origin[n] # Exit =>
          \E i \in 1 .. Len(chain) + 1 : n = Node(chain, i) /\ origin[n] = Node(chain, i - 1)
    BY DEF RouteInv, Along
  <2>2. \A r \in Relay : hop[r] # NoHop =>
          /\ handler'[r] \notin {"listen", "first", "layer"}
          /\ \E i \in 1 .. Len(chain) : r = chain[i] /\ hop[r] = HopOf(chain, i)
    BY DEF RouteInv, Along
  <2>3. \A r \in Relay : handler'[r] \in {"connect", "hello", "forward"} => hop[r] # NoHop
    BY DEF RouteInv, Along
  <2> QED
    BY <2>1, <2>2, <2>3 DEF Along, Node, HopOf, LayersOf
<1>3. LayersWait'
  BY LayersKept DEF RouteInv
<1>4. HelloFresh'
  BY HelloKept
<1> QED
  BY <1>1, <1>2, <1>3, <1>4 DEF RouteInv

(* An end does something to a link of its own, or nothing at all.           *)
LEMMA EndStep ==
  ASSUME RouteInv, NEW d \in Dialler, NEW m, Moves(chain, link[d], m),
         d \in Relay /\ handler[d] = "hello" => Calm(link[d], m),
         link' = [link EXCEPT ![d] = m],
         UNCHANGED <<key, chain, handler, origin, hop, thread, slow, restarts>>,
         client' \in End, exit' \in End, client'.sent + exit'.sent <= MaxData
  PROVE  RouteInv'
<1>1. link \in [Dialler -> Link(chain)]
  BY DEF RouteInv, Types
<1>2. /\ link' \in [Dialler -> Link(chain)]
      /\ \A x \in Dialler : Moves(chain, link[x], link'[x])
      /\ link'[d] = m
      /\ \A x \in Dialler : x # d => link'[x] = link[x]
  BY <1>1, OneLink
<1>3. Types'
  <2>1. (link \in [Dialler -> Link(chain)])'
    BY <1>2
  <2>2. (hop \in [Relay -> {NoHop} \cup {HopOf(chain, i) : i \in 1 .. Len(chain)}])'
    BY DEF RouteInv, Types
  <2>3. (/\ key \in [Relay -> Nat] /\ \A r \in Relay : key[r] <= restarts
         /\ chain \in Chains \cup {<<>>}
         /\ handler \in [Relay -> {"listen", "first", "layer", "connect", "hello",
                                   "forward", "over"}]
         /\ origin \in [Relay \cup {Exit} -> Dialler \cup {Exit}]
         /\ thread \in [Relay -> [Direction -> Thread]]
         /\ slow \in [reads : Nat, writes : Nat] /\ restarts \in Nat /\ Faults <= MaxFaults)'
    BY DEF RouteInv, Types, Faults
  <2> QED
    BY <2>1, <2>2, <2>3 DEF Types
<1>4. \A r \in Relay : handler'[r] = "hello" => Calm(link[r], link'[r])
  BY <1>1, <1>2, Still DEF Dialler
<1>5. \A r \in Relay, x \in Direction :
        thread'[r][x].at \in {"recv", "send"} => handler'[r] = "forward"
  BY DEF RouteInv, Along
<1> QED
  BY <1>2, <1>3, <1>4, <1>5, RouteKept

LEMMA EndTypes ==
  ASSUME RouteInv
  PROVE  /\ client \in End /\ exit \in End /\ client.sent + exit.sent <= MaxData
         /\ \A d \in Dialler : /\ link[d] \in Link(chain)
                               /\ link[d].up \in Seq(Pieces(Frames \cup Blobs(chain)))
                               /\ link[d].down \in Seq(Pieces(Frames))
         /\ Client \in Dialler /\ Client \notin Relay
BY RelayChainAssumption DEF RouteInv, Types, Link, Dialler

LEMMA FrameInType ==
  ASSUME NEW F, Junk \in F, NEW q, HasFrame(q), Len(q) \in Nat,
         \A k \in 1 .. Len(q) : q[k].of \in F
  PROVE  FrameIn(q) \in F
<1>1. 1 \in 1 .. Len(q)
  BY DEF HasFrame
<1> QED
  BY <1>1 DEF FrameIn

LEMMA OfFrames ==
  ASSUME NEW F, NEW q \in Seq(Pieces(F))
  PROVE  Len(q) \in Nat /\ \A k \in 1 .. Len(q) : q[k].of \in F
<1>1. Len(q) \in Nat /\ \A k \in 1 .. Len(q) : q[k] \in Pieces(F)
  OBVIOUS
<1> QED
  BY <1>1 DEF Pieces

LEMMA GetsFrame ==
  ASSUME NEW p \in End, NEW q, FrameIn(q) \in Frames
  PROVE  Received(p, q) \in End /\ Received(p, q).sent = p.sent
<1>1. Append(p.got, FrameIn(q)) \in Seq(Frames)
  BY DEF End
<1> QED
  BY <1>1 DEF Received, End

LEMMA ClientSendStep ==
  ASSUME RouteInv, ClientSend
  PROVE  RouteInv'
<1>1. client.sent + 1 \in 0 .. MaxData /\ client.sent + 1 + exit.sent <= MaxData
  BY EndTypes, RelayChainAssumption DEF ClientSend, MayStillSend, End
<1>2. Data(client.sent + 1) \in Frames
  BY <1>1, SomeFrames
<1>3. Whole(Data(client.sent + 1)) \in Seq(Pieces(Frames))
  BY <1>2, WholePieces
<1>4. Moves(chain, link[Client], Write(link[Client], "dialling", Whole(Data(client.sent + 1))))
  BY <1>3, EndTypes, WriteUp
<1>5. link' = [link EXCEPT ![Client] = Write(link[Client], "dialling",
                                            Whole(Data(client.sent + 1)))]
  BY DEF ClientSend, Sends
<1>6. client' \in End /\ exit' \in End /\ client'.sent + exit'.sent <= MaxData
  BY <1>1, EndTypes, SMTT(30) DEF ClientSend, End
<1> QED
  BY <1>4, <1>5, <1>6, EndTypes, EndStep DEF ClientSend, Sends

LEMMA ClientRecvStep ==
  ASSUME RouteInv, ClientRecv
  PROVE  RouteInv'
<1> DEFINE q == link[Client].down
<1>1. q \in Seq(Pieces(Frames)) /\ HasFrame(q)
  BY EndTypes, Ends2 DEF ClientRecv, Reads
<1>2. link' = [link EXCEPT ![Client] = [link[Client] EXCEPT !.down = Rest(q)]]
  BY EndTypes, Ends2 DEF ClientRecv, Reads
<1>3. Moves(chain, link[Client], [link[Client] EXCEPT !.down = Rest(q)])
  BY <1>1, EndTypes, RestIs, DropDown
<1>4. FrameIn(q) \in Frames
  <2>1. Len(q) \in Nat /\ \A k \in 1 .. Len(q) : q[k].of \in Frames
    BY <1>1, OfFrames
  <2> QED
    BY <1>1, <2>1, SomeFrames, FrameInType
<1>5. client' \in End /\ exit' \in End /\ client'.sent + exit'.sent <= MaxData
  BY <1>4, EndTypes, GetsFrame DEF ClientRecv
<1> QED
  BY <1>2, <1>3, <1>5, EndTypes, EndStep DEF ClientRecv, Reads

LEMMA ClientSwallowsStep ==
  ASSUME RouteInv, ClientSwallows
  PROVE  RouteInv'
<1> DEFINE q == link[Client].down
<1>1. q \in Seq(Pieces(Frames)) /\ q # <<>>
  BY EndTypes, Ends2 DEF ClientSwallows, Swallows
<1>2. link' = [link EXCEPT ![Client] = [link[Client] EXCEPT !.down = Tail(q)]]
  BY EndTypes, Ends2 DEF ClientSwallows, Swallows
<1>3. Moves(chain, link[Client], [link[Client] EXCEPT !.down = Tail(q)])
  BY <1>1, EndTypes, TailIs, DropDown
<1> QED
  BY <1>2, <1>3, EndTypes, EndStep DEF ClientSwallows, Swallows

LEMMA ClientEndsStep ==
  ASSUME RouteInv, ClientSeesEnd \/ ClientClose
  PROVE  RouteInv'
<1>1. Moves(chain, link[Client], link[Client])
      /\ Moves(chain, link[Client], Close(link[Client], "dialling"))
  BY EndTypes, Still, ClosesEnd
<1>2. link' = [link EXCEPT ![Client] = link[Client]]
      \/ link' = [link EXCEPT ![Client] = Close(link[Client], "dialling")]
  BY DEF ClientSeesEnd, ClientClose, RouteInv, Types
<1>3. client' \in End /\ exit' \in End /\ client'.sent + exit'.sent <= MaxData
  BY EndTypes DEF ClientSeesEnd, ClientClose, End
<1>4. UNCHANGED <<key, chain, handler, origin, hop, thread, slow, restarts>>
  BY DEF ClientSeesEnd, ClientClose, SeesEnd
<1> QED
  BY <1>1, <1>2, <1>3, <1>4, EndTypes, EndStep

LEMMA ExitLink ==
  ASSUME RouteInv, Connected
  PROVE  /\ origin[Exit] \in Dialler
         /\ \A k \in 1 .. Len(link[origin[Exit]].up) : link[origin[Exit]].up[k].of \in Frames
BY PrevNode, NoLayerHere, RelayChainAssumption DEF Connected

LEMMA ExitSendStep ==
  ASSUME RouteInv, ExitSend
  PROVE  RouteInv'
<1> DEFINE d == origin[Exit]
           m == Write(link[d], "accepted", Whole(Answer(exit.sent + 1)))
<1>1. d \in Dialler
  BY ExitLink DEF ExitSend
<1>2. exit.sent + 1 \in 1 .. MaxData /\ client.sent + (exit.sent + 1) <= MaxData
  BY EndTypes, RelayChainAssumption DEF ExitSend, MayStillSend, End
<1>3. Whole(Answer(exit.sent + 1)) \in Seq(Pieces(Frames))
  BY <1>2, SomeFrames, WholePieces
<1>4. Moves(chain, link[d], m) /\ Calm(link[d], m)
  BY <1>1, <1>3, EndTypes, WriteDown
<1>5. link' = [link EXCEPT ![d] = m]
  BY DEF ExitSend, Sends
<1>6. client' \in End /\ exit' \in End /\ client'.sent + exit'.sent <= MaxData
  <2>1. client' = client /\ exit' = [exit EXCEPT !.sent = exit.sent + 1]
    BY DEF ExitSend
  <2>0. PICK n \in Nat : n = exit.sent + 1
    BY <1>2
  <2>2. exit' \in End /\ exit'.sent = exit.sent + 1
    BY <2>0, <2>1, EndTypes DEF End
  <2> QED
    BY <1>2, <2>1, <2>2, EndTypes
<1> HIDE DEF d, m
<1> QED
  BY <1>1, <1>4, <1>5, <1>6, EndStep DEF ExitSend, Sends

LEMMA ExitRecvStep ==
  ASSUME RouteInv, ExitRecv
  PROVE  RouteInv'
<1> DEFINE d == origin[Exit]
           q == link[d].up
           m == [link[d] EXCEPT !.up = Rest(q)]
<1>1. d \in Dialler /\ \A k \in 1 .. Len(q) : q[k].of \in Frames
  BY ExitLink DEF ExitRecv
<1>2. q \in Seq(Pieces(Frames \cup Blobs(chain))) /\ HasFrame(q) /\ link[d] \in Link(chain)
  BY <1>1, EndTypes, Ends2 DEF ExitRecv, Reads
<1>3. link' = [link EXCEPT ![d] = m]
  BY <1>1, Ends2 DEF ExitRecv, Reads
<1>4. Moves(chain, link[d], m) /\ Calm(link[d], m)
  BY <1>2, RestIs, DropUp
<1>5. FrameIn(q) \in Frames
  BY <1>1, <1>2, OfFrames, SomeFrames, FrameInType
<1>6. client' \in End /\ exit' \in End /\ client'.sent + exit'.sent <= MaxData
  BY <1>5, EndTypes, GetsFrame DEF ExitRecv
<1> HIDE DEF d, m
<1> QED
  BY <1>1, <1>3, <1>4, <1>6, EndStep DEF ExitRecv, Reads

LEMMA ExitSwallowsStep ==
  ASSUME RouteInv, ExitSwallows
  PROVE  RouteInv'
<1> DEFINE d == origin[Exit]
           q == link[d].up
           m == [link[d] EXCEPT !.up = Tail(q)]
<1>1. d \in Dialler
  BY ExitLink DEF ExitSwallows
<1>2. q \in Seq(Pieces(Frames \cup Blobs(chain))) /\ q # <<>> /\ link[d] \in Link(chain)
  BY <1>1, EndTypes, Ends2 DEF ExitSwallows, Swallows
<1>3. link' = [link EXCEPT ![d] = m]
  BY <1>1, Ends2 DEF ExitSwallows, Swallows
<1>4. Moves(chain, link[d], m) /\ Calm(link[d], m)
  BY <1>2, TailIs, DropUp
<1> HIDE DEF d, m
<1> QED
  BY <1>1, <1>3, <1>4, EndTypes, EndStep DEF ExitSwallows, Swallows

LEMMA ExitEndsStep ==
  ASSUME RouteInv, ExitSeesEnd \/ ExitClose
  PROVE  RouteInv'
<1> DEFINE d == origin[Exit]
           m == Close(link[d], "accepted")
<1>1. d \in Dialler
  BY ExitLink DEF ExitSeesEnd, ExitClose
<1>2. Moves(chain, link[d], m) /\ Calm(link[d], m)
  BY <1>1, EndTypes, ClosesEnd
<1>3. link' = [link EXCEPT ![d] = m]
  BY DEF ExitSeesEnd, ExitClose
<1>4. client' \in End /\ exit' \in End /\ client'.sent + exit'.sent <= MaxData
  BY EndTypes DEF ExitSeesEnd, ExitClose, End
<1>5. UNCHANGED <<key, chain, handler, origin, hop, thread, slow, restarts>>
  BY DEF ExitSeesEnd, ExitClose, SeesEnd
<1> HIDE DEF d, m
<1> QED
  BY <1>1, <1>2, <1>3, <1>4, <1>5, EndStep

LEMMA ReleaseStep ==
  ASSUME RouteInv, NEW d \in Dialler, NEW e \in {"dialling", "accepted"}, Release(d, e)
  PROVE  RouteInv'
<1>1. PICK m \in Gone(link[d], e) : link' = [link EXCEPT ![d] = m]
  BY DEF Release
<1>2. link[d] \in Link(chain) /\ link[d][e] = "closing"
  BY EndTypes DEF Release
<1>3. Moves(chain, link[d], m) /\ Calm(link[d], m)
  <2>1. CASE e = "dialling"
    <3>1. link[d].dialling # "open"
      BY <1>2, <2>1
    <3> QED
      BY <1>1, <1>2, <2>1, <3>1, GoesUp DEF Calm, Untouched
  <2>2. CASE e = "accepted"
    BY <1>1, <1>2, <2>2, GoesDown
  <2> QED
    BY <2>1, <2>2
<1> QED
  BY <1>1, <1>3, EndTypes, EndStep DEF Release

-------------------------------------------------------------------------------
(* The handlers.                                                            *)

LEMMA HandlerLink ==
  ASSUME RouteInv, NEW r \in Relay, handler[r] # "listen"
  PROVE  /\ origin[r] \in Dialler /\ origin[r] # r /\ origin[r] # Exit
         /\ Prev(r) = link[origin[r]] /\ link[origin[r]] \in Link(chain)
         /\ link[origin[r]].up \in Seq(Pieces(Frames \cup Blobs(chain)))
         /\ link[r] \in Link(chain) /\ r \in Dialler
<1>1. origin[r] # Exit
  BY DEF RouteInv, Dialled
<1> QED
  BY <1>1, PrevNode, EndTypes DEF Prev, Dialler

(* A handler that is over.                                                  *)
LEMMA OverStep ==
  ASSUME RouteInv, NEW r \in Relay, handler[r] # "listen",
         handler' = [handler EXCEPT ![r] = "over"],
         UNCHANGED <<chain, origin, hop, client, exit>>,
         key' \in [Relay -> Nat] /\ (\A x \in Relay : key'[x] <= restarts'),
         slow' \in [reads : Nat, writes : Nat] /\ restarts' \in Nat /\ Faults' <= MaxFaults,
         thread' \in [Relay -> [Direction -> Thread]],
         \A x \in Relay, d \in Direction :
           thread'[x][d].at \in {"recv", "send"} => x # r /\ thread[x][d].at \in {"recv", "send"},
         link' \in [Dialler -> Link(chain)],
         \A x \in Dialler : Moves(chain, link[x], link'[x]),
         \A x \in Relay \ {r} : handler[x] = "hello" => Calm(link[x], link'[x]),
         handler[r] = "first" =>
           \/ link[origin[r]].up # <<>>
           \/ (link[origin[r]].accepted # "none" => link'[origin[r]].accepted = "closed")
  PROVE  RouteInv'
<1>1. /\ handler'[r] = "over"
      /\ \A x \in Relay \ {r} : handler'[x] = handler[x]
      /\ handler' \in [Relay -> {"listen", "first", "layer", "connect", "hello",
                                 "forward", "over"}]
  BY DEF RouteInv, Types
<1>2. Types'
  <2>1. (link \in [Dialler -> Link(chain)])'
    OBVIOUS
  <2>2. (hop \in [Relay -> {NoHop} \cup {HopOf(chain, i) : i \in 1 .. Len(chain)}])'
    BY DEF RouteInv, Types
  <2>3. (/\ key \in [Relay -> Nat] /\ \A x \in Relay : key[x] <= restarts
         /\ chain \in Chains \cup {<<>>}
         /\ origin \in [Relay \cup {Exit} -> Dialler \cup {Exit}]
         /\ client \in End /\ exit \in End /\ client.sent + exit.sent <= MaxData
         /\ slow \in [reads : Nat, writes : Nat] /\ restarts \in Nat /\ Faults <= MaxFaults)'
    BY DEF RouteInv, Types
  <2> QED
    BY <1>1, <2>1, <2>2, <2>3 DEF Types
<1>3. \A x \in Relay, d \in Direction :
           thread'[x][d].at \in {"recv", "send"} => handler'[x] = "forward"
  BY <1>1 DEF RouteInv, Along
<1>4. \A x \in Relay : handler'[x] = "hello" => Calm(link[x], link'[x])
  BY <1>1
<1>5. \A x \in Relay :
        \/ handler'[x] = handler[x]
        \/ /\ handler[x] # "listen" /\ handler'[x] = "over"
           /\ handler[x] = "first" =>
                \/ link[origin[x]].up # <<>>
                \/ (link[origin[x]].accepted # "none" => link'[origin[x]].accepted = "closed")
  BY <1>1
<1> QED
  BY <1>2, <1>3, <1>4, <1>5, RouteKept

(* The same when nothing else but a link or two changes.                    *)
LEMMA GivesUp ==
  ASSUME RouteInv, NEW r \in Relay, handler[r] \in {"first", "layer", "connect", "hello"},
         handler' = [handler EXCEPT ![r] = "over"],
         UNCHANGED <<key, chain, origin, hop, client, exit, restarts, thread>>,
         slow' \in [reads : Nat, writes : Nat] /\ Faults' <= MaxFaults,
         link' \in [Dialler -> Link(chain)],
         \A x \in Dialler : Moves(chain, link[x], link'[x]),
         \A x \in Relay \ {r} : handler[x] = "hello" => Calm(link[x], link'[x]),
         handler[r] = "first" => link[origin[r]].up # <<>>
  PROVE  RouteInv'
<1>1. /\ key' \in [Relay -> Nat] /\ (\A x \in Relay : key'[x] <= restarts')
      /\ restarts' \in Nat /\ thread' \in [Relay -> [Direction -> Thread]]
  BY DEF RouteInv, Types
<1>2. \A x \in Relay, d \in Direction :
        thread'[x][d].at \in {"recv", "send"} => x # r /\ thread[x][d].at \in {"recv", "send"}
  BY DEF RouteInv, Along
<1> QED
  BY <1>1, <1>2, OverStep

LEMMA SlowTypes ==
  ASSUME RouteInv
  PROVE  /\ slow \in [reads : Nat, writes : Nat] /\ Faults <= MaxFaults /\ restarts \in Nat
         /\ key \in [Relay -> Nat] /\ \A r \in Relay : key[r] <= restarts
         /\ link \in [Dialler -> Link(chain)] /\ handler = [r \in Relay |-> handler[r]]
BY DEF RouteInv, Types

LEMMA HandlerGivesUpStep ==
  ASSUME RouteInv, NEW r \in Relay, HandlerGivesUp(r) \/ ConnectFails(r)
  PROVE  RouteInv'
<1> DEFINE d == origin[r]
           m == Close(link[d], "accepted")
<1>1. handler[r] \in {"first", "layer", "connect"}
  BY DEF HandlerGivesUp, ConnectFails
<1>2. d \in Dialler /\ link[d] \in Link(chain) /\ Prev(r) = link[d]
      /\ link[d].up \in Seq(Pieces(Frames \cup Blobs(chain)))
  BY <1>1, HandlerLink
<1>3. Moves(chain, link[d], m) /\ Calm(link[d], m)
  BY <1>2, ClosesEnd
<1>4. link' = [link EXCEPT ![d] = m]
  BY DEF HandlerGivesUp, ConnectFails
<1>5. handler[r] = "first" => link[d].up # <<>>
  BY <1>2 DEF HandlerGivesUp, ConnectFails, Ends
<1> HIDE DEF d, m
<1>6. /\ link' \in [Dialler -> Link(chain)]
      /\ \A x \in Dialler : Moves(chain, link[x], link'[x])
      /\ link'[d] = m
      /\ \A x \in Dialler : x # d => link'[x] = link[x]
  BY <1>2, <1>3, <1>4, OneLink, SlowTypes
<1>7. \A x \in Relay \ {r} : Calm(link[x], link'[x])
  BY <1>3, <1>6, Still, EndTypes DEF Dialler
<1>8. UNCHANGED <<key, chain, origin, hop, client, exit, restarts, thread, slow>>
      /\ handler' = [handler EXCEPT ![r] = "over"]
  BY DEF HandlerGivesUp, ConnectFails, HandlerFrame
<1>9. slow' \in [reads : Nat, writes : Nat] /\ Faults' <= MaxFaults
  BY <1>8, SlowTypes DEF Faults
<1> QED
  BY <1>1, <1>5, <1>6, <1>7, <1>8, <1>9, GivesUp DEF d

(* The link of a relay's connection is the one its layer comes on.          *)
LEMMA LayerFor ==
  ASSUME RouteInv, NEW r \in Relay, origin[r] # Exit, NEW i \in 1 .. Len(chain)
  PROVE  chain[i] = r <=> origin[r] = Node(chain, i - 1)
<1>1. chain # <<>>
  OBVIOUS
<1>2. chain \in Chains
  BY <1>1, ChainIs
<1>3. PICK j \in 1 .. Len(chain) + 1 : r = Node(chain, j) /\ origin[r] = Node(chain, j - 1)
  BY <1>1 DEF RouteInv, Along
<1>4. /\ Len(chain) \in Nat /\ i \in 0 .. Len(chain) + 1 /\ j \in 0 .. Len(chain) + 1
      /\ i - 1 \in 0 .. Len(chain) + 1 /\ j - 1 \in 0 .. Len(chain) + 1
  BY <1>2, NodesDiffer
<1>5. Node(chain, i) = chain[i]
  BY <1>2, NodesDiffer
<1>6. Node(chain, i) = Node(chain, j) => i = j
  BY ONLY <1>2, <1>4, NodesDiffer
<1>7. Node(chain, i - 1) = Node(chain, j - 1) => i - 1 = j - 1
  BY ONLY <1>2, <1>4, NodesDiffer
<1> QED
  BY <1>3, <1>4, <1>5, <1>6, <1>7

(* A handler has read a frame and goes on with the next one.                *)
LEMMA HandlerReads ==
  ASSUME RouteInv, NEW r \in Relay, handler[r] # "listen", HasFrame(Prev(r).up)
  PROVE  LET d == origin[r]
             q == link[d].up
             m == [link[d] EXCEPT !.up = Rest(q)]
         IN /\ d \in Dialler /\ d # r /\ Prev(r) = link[d] /\ q # <<>>
            /\ m \in Link(chain) /\ m.up = Rest(q)
            /\ Moves(chain, link[d], m) /\ Calm(link[d], m)
            /\ Len(q) \in Nat /\ 2 <= Len(q) /\ Len(Rest(q)) = Len(q) - 2
            /\ \A k \in 1 .. Len(Rest(q)) : Rest(q)[k] = q[k + 2]
            /\ FrameIn(q) \in Frames \cup {q[1].of}
<1> DEFINE d == origin[r]
           q == link[d].up
           m == [link[d] EXCEPT !.up = Rest(q)]
<1>1. d \in Dialler /\ d # r /\ Prev(r) = link[d] /\ link[d] \in Link(chain)
      /\ q \in Seq(Pieces(Frames \cup Blobs(chain)))
  BY HandlerLink
<1>3. /\ Moves(chain, link[d], m) /\ Calm(link[d], m)
      /\ 2 <= Len(q) /\ Len(q) \in Nat /\ Len(Rest(q)) = Len(q) - 2
      /\ \A k \in 1 .. Len(Rest(q)) : Rest(q)[k] = q[k + 2]
  BY <1>1, DropTwo
<1>4. m.up = Rest(q)
  BY <1>1 DEF Link
<1>5. FrameIn(q) \in Frames \cup {q[1].of}
  BY SomeFrames DEF FrameIn
<1>6. q # <<>>
  BY <1>1, <1>3
<1> QED
  BY <1>1, <1>3, <1>4, <1>5, <1>6 DEF Moves

LEMMA HandleFirstStep ==
  ASSUME RouteInv, NEW r \in Relay, HandleFirst(r)
  PROVE  RouteInv'
<1> DEFINE d == origin[r]
           q == link[d].up
           m == [link[d] EXCEPT !.up = Rest(q)]
<1>1. handler[r] = "first"
  BY DEF HandleFirst
<1>2. /\ d \in Dialler /\ d # r /\ Prev(r) = link[d] /\ q # <<>>
      /\ m \in Link(chain) /\ m.up = Rest(q)
      /\ Moves(chain, link[d], m) /\ Calm(link[d], m)
      /\ Len(q) \in Nat /\ 2 <= Len(q) /\ Len(Rest(q)) = Len(q) - 2
      /\ \A k \in 1 .. Len(Rest(q)) : Rest(q)[k] = q[k + 2]
  BY <1>1, HandlerReads DEF HandleFirst
<1>3. UNCHANGED <<key, hop, thread, slow, chain, origin, client, exit, restarts>>
  BY DEF HandleFirst, HandlerFrame
<1>4. slow' \in [reads : Nat, writes : Nat] /\ Faults' <= MaxFaults
  BY <1>3, SlowTypes DEF Faults
<1>5. CASE handler' = [handler EXCEPT ![r] = "layer"] /\ link' = [link EXCEPT ![d] = m]
  <2>1. /\ link' \in [Dialler -> Link(chain)]
        /\ \A x \in Dialler : Moves(chain, link[x], link'[x])
        /\ link'[d] = m
        /\ \A x \in Dialler : x # d => link'[x] = link[x]
    BY <1>2, <1>5, OneLink, SlowTypes
  <2>2. /\ handler'[r] = "layer" /\ \A x \in Relay \ {r} : handler'[x] = handler[x]
        /\ handler' \in [Relay -> {"listen", "first", "layer", "connect", "hello",
                                   "forward", "over"}]
    BY <1>5 DEF RouteInv, Types
  <2>3. Types'
    <3>1. (link \in [Dialler -> Link(chain)])'
      BY <2>1, <1>3
    <3>2. (hop \in [Relay -> {NoHop} \cup {HopOf(chain, i) : i \in 1 .. Len(chain)}])'
      BY <1>3 DEF RouteInv, Types
    <3>3. (/\ key \in [Relay -> Nat] /\ \A x \in Relay : key[x] <= restarts
           /\ chain \in Chains \cup {<<>>}
           /\ origin \in [Relay \cup {Exit} -> Dialler \cup {Exit}]
           /\ thread \in [Relay -> [Direction -> Thread]]
           /\ client \in End /\ exit \in End /\ client.sent + exit.sent <= MaxData
           /\ slow \in [reads : Nat, writes : Nat] /\ restarts \in Nat /\ Faults <= MaxFaults)'
      BY <1>3, <1>4 DEF RouteInv, Types
    <3> QED
      BY <2>2, <3>1, <3>2, <3>3 DEF Types
  <2>4. Dialled'
    <3>1. link'[Client].dialling = "none" => link[Client].dialling = "none"
      BY <2>1 DEF Moves, Dialler
    <3>2. handler[r] # "listen"
      BY <1>1
    <3> QED
      BY <3>1, <3>2, <2>2, <1>3 DEF RouteInv, Dialled
  <2>5. Along'
    <3>1. hop[r] = NoHop
      BY <1>1 DEF RouteInv, Along
    <3>2. \A x \in Direction : thread[r][x].at \notin {"recv", "send"}
      BY <1>1 DEF RouteInv, Along
    <3> QED
      BY <3>1, <3>2, <2>2, <1>3 DEF RouteInv, Along, Node, HopOf, LayersOf
  <2>6. LayersWait'
    <3>1. ASSUME NEW x \in Dialler, x # d PROVE LayersWaitOn(x)'
      <4>1. ASSUME NEW i \in 1 .. Len(chain), x = Node(chain, i - 1)
            PROVE  handler'[chain[i]] = handler[chain[i]]
        <5>1. chain[i] # r
          BY <4>1, <3>1, <1>1, HandlerLink, LayerFor
        <5>2. chain[i] \in Relay
          <6>1. chain # <<>>
            OBVIOUS
          <6> QED
            BY <6>1, ChainIs, NodesDiffer
        <5> QED
          BY <5>1, <5>2, <2>2
      <4> QED
        BY <4>1, <2>1, <1>3, LayersKeptOn DEF RouteInv, LayersWait
    <3>2. ASSUME NEW x \in Dialler, x = d PROVE LayersWaitOn(x)'
      <4> SUFFICES ASSUME NEW k \in 1 .. Len(link'[d].up), link'[d].up[k].of.tag = "blob"
                   PROVE  \E i \in 1 .. Len(chain) :
                            /\ d = Node(chain, i - 1)
                            /\ link'[d].up[k].of = Blob(LayersOf(chain)[i])
                            /\ handler'[chain[i]] \in {"first", "layer", "over"}
                            /\ handler'[chain[i]] = "first" => k <= 4
                            /\ handler'[chain[i]] = "layer" => k <= 2
        BY <3>2, <1>3 DEF LayersWaitOn, LayerWaits, LayersOf, Node
      <4>1. k \in Nat /\ k + 2 \in 1 .. Len(q) /\ link'[d].up[k] = q[k + 2]
        BY <1>2, <2>1
      <4>2. PICK i \in 1 .. Len(chain) :
              /\ d = Node(chain, i - 1) /\ q[k + 2].of = Blob(LayersOf(chain)[i])
              /\ handler[chain[i]] = "first" => k + 2 <= 4
        BY <4>1, <1>2 DEF RouteInv, LayersWait, LayersWaitOn, LayerWaits
      <4>3. chain[i] = r
        BY <4>2, <1>1, HandlerLink, LayerFor
      <4> QED
        BY <4>1, <4>2, <4>3, <1>1, <2>2
    <3> QED
      BY <3>1, <3>2 DEF LayersWait, Dialler
  <2>7. HelloFresh'
    <3>1. \A x \in Relay : Calm(link[x], link'[x])
      BY <1>2, <2>1, Still, EndTypes DEF Dialler
    <3>2. \A x \in Relay : handler[x] = "first" => handler'[x] = "first" \/ link[origin[x]].up # <<>>
      BY <1>2, <2>2
    <3>3. \A x \in Relay : handler'[x] = "hello" => handler[x] = "hello"
      BY <2>2
    <3> QED
      BY <3>1, <3>2, <3>3, <1>3, HelloKept
  <2> QED
    BY <2>3, <2>4, <2>5, <2>6, <2>7 DEF RouteInv
<1>6. ASSUME NEW p \in Seq(Pieces(Frames)), handler' = [handler EXCEPT ![r] = "over"],
             link' = [link EXCEPT ![d] = Close(Write(m, "accepted", p), "accepted")]
      PROVE  RouteInv'
  <2> DEFINE n == Close(Write(m, "accepted", p), "accepted")
  <2>1. Moves(chain, m, Write(m, "accepted", p)) /\ Calm(m, Write(m, "accepted", p))
    BY <1>2, <1>6, WriteDown
  <2>2. /\ Moves(chain, Write(m, "accepted", p), n) /\ Calm(Write(m, "accepted", p), n)
    BY <2>1, ClosesEnd DEF Moves
  <2>3. Moves(chain, link[d], n) /\ Calm(link[d], n)
    BY <1>1, <1>2, <2>1, <2>2, MovesOn, HandlerLink
  <2> HIDE DEF n, m, d, q
  <2>4. /\ link' \in [Dialler -> Link(chain)]
        /\ \A x \in Dialler : Moves(chain, link[x], link'[x])
        /\ link'[d] = n
        /\ \A x \in Dialler : x # d => link'[x] = link[x]
    BY <1>2, <1>6, <2>3, OneLink, SlowTypes DEF n
  <2>5. \A x \in Relay \ {r} : Calm(link[x], link'[x])
    BY <2>3, <2>4, Still, EndTypes DEF Dialler
  <2> QED
    BY <1>1, <1>2, <1>3, <1>4, <1>6, <2>4, <2>5, GivesUp DEF d, q
<1>7. CASE /\ FrameIn(Prev(r).up).tag = "kind"
           /\ FrameIn(Prev(r).up).kind \notin Onions \cup {"RELAY"}
           /\ handler' = [handler EXCEPT ![r] = "over"]
           /\ link' = [link EXCEPT ![d] =
                Close(Write(m, "accepted",
                            FlattenSeq([i \in DOMAIN Answers(r, FrameIn(Prev(r).up).kind) |->
                              Whole(Answers(r, FrameIn(Prev(r).up).kind)[i])])), "accepted")]
  <2> DEFINE k == FrameIn(Prev(r).up).kind
             p == FlattenSeq([i \in DOMAIN Answers(r, k) |-> Whole(Answers(r, k)[i])])
  <2>1. p \in Seq(Pieces(Frames))
    <3>1. Answers(r, k) = <<>> \/ \E f \in Frames : Answers(r, k) = <<f>>
      <4>1. key[r] \in 0 .. MaxFaults
        BY SlowTypes, RelayChainAssumption DEF Faults
      <4>2. PublicKey(r, key[r]) \in Frames
        BY <4>1 DEF Frames
      <4> QED
        BY <4>2, SomeFrames DEF Answers
    <3> HIDE DEF k
    <3> QED
      BY <3>1, AnswerPieces
  <2> HIDE DEF k, p
  <2>2. link' = [link EXCEPT ![d] = Close(Write(m, "accepted", p), "accepted")]
    BY <1>7 DEF p, k
  <2> QED
    BY <1>6, <1>7, <2>1, <2>2
<1> QED
  BY <1>2, <1>5, <1>7 DEF HandleFirst

(* What a handler peels is its own layer.                                   *)
LEMMA PeelsOwn ==
  ASSUME RouteInv, NEW r \in Relay, HandleLayer(r),
         FrameIn(Prev(r).up).tag = "blob"
  PROVE  \E i \in 1 .. Len(chain) :
           chain[i] = r /\ FrameIn(Prev(r).up).layer.hop = HopOf(chain, i)
<1> DEFINE d == origin[r]
           q == link[d].up
<1>1. /\ d \in Dialler /\ Prev(r) = link[d] /\ Len(q) \in Nat /\ 2 <= Len(q)
      /\ FrameIn(q) \in Frames \cup {q[1].of} /\ d # Exit
  BY HandlerReads, HandlerLink DEF HandleLayer
<1>2. FrameIn(q) = q[1].of
  BY <1>1, FrameTags
<1>3. 1 \in 1 .. Len(q) /\ q[1].of.tag = "blob"
  BY <1>1, <1>2
<1>4. PICK i \in 1 .. Len(chain) :
        d = Node(chain, i - 1) /\ q[1].of = Blob(LayersOf(chain)[i])
  BY <1>1, <1>3 DEF RouteInv, LayersWait, LayersWaitOn, LayerWaits
<1>5. chain[i] = r
  BY <1>1, <1>4, LayerFor
<1>6. FrameIn(q).layer = LayersOf(chain)[i]
  BY <1>2, <1>4 DEF Blob
<1> QED
  BY <1>1, <1>5, <1>6 DEF HopOf

LEMMA HandleLayerStep ==
  ASSUME RouteInv, NEW r \in Relay, HandleLayer(r)
  PROVE  RouteInv'
<1> DEFINE d == origin[r]
           q == link[d].up
           m == [link[d] EXCEPT !.up = Rest(q)]
           f == FrameIn(Prev(r).up)
<1>1. handler[r] = "layer"
  BY DEF HandleLayer
<1>2. /\ d \in Dialler /\ d # r /\ Prev(r) = link[d] /\ q # <<>>
      /\ m \in Link(chain) /\ m.up = Rest(q)
      /\ Moves(chain, link[d], m) /\ Calm(link[d], m)
      /\ Len(q) \in Nat /\ 2 <= Len(q) /\ Len(Rest(q)) = Len(q) - 2
      /\ \A k \in 1 .. Len(Rest(q)) : Rest(q)[k] = q[k + 2]
  BY <1>1, HandlerReads DEF HandleLayer
<1>3. UNCHANGED <<key, thread, slow, chain, origin, client, exit, restarts>>
  BY DEF HandleLayer, HandlerFrame
<1>4. slow' \in [reads : Nat, writes : Nat] /\ Faults' <= MaxFaults
  BY <1>3, SlowTypes DEF Faults
<1>5. CASE f.tag = "blob" /\ handler' = [handler EXCEPT ![r] = "connect"]
           /\ hop' = [hop EXCEPT ![r] = f.layer.hop] /\ link' = [link EXCEPT ![d] = m]
  <2>0. PICK i \in 1 .. Len(chain) : chain[i] = r /\ f.layer.hop = HopOf(chain, i)
    BY <1>5, PeelsOwn
  <2>1. /\ link' \in [Dialler -> Link(chain)]
        /\ \A x \in Dialler : Moves(chain, link[x], link'[x])
        /\ link'[d] = m
        /\ \A x \in Dialler : x # d => link'[x] = link[x]
    BY <1>2, <1>5, OneLink, SlowTypes
  <2>2. /\ handler'[r] = "connect" /\ \A x \in Relay \ {r} : handler'[x] = handler[x]
        /\ handler' \in [Relay -> {"listen", "first", "layer", "connect", "hello",
                                   "forward", "over"}]
    BY <1>5 DEF RouteInv, Types
  <2>3. /\ hop'[r] = HopOf(chain, i) /\ \A x \in Relay \ {r} : hop'[x] = hop[x]
        /\ hop' \in [Relay -> {NoHop} \cup {HopOf(chain, j) : j \in 1 .. Len(chain)}]
    BY <1>5, <2>0 DEF RouteInv, Types
  <2>4. Types'
    <3>1. (link \in [Dialler -> Link(chain)])'
      BY <2>1, <1>3
    <3>2. (hop \in [Relay -> {NoHop} \cup {HopOf(chain, j) : j \in 1 .. Len(chain)}])'
      BY <1>3, <2>3
    <3>3. (/\ key \in [Relay -> Nat] /\ \A x \in Relay : key[x] <= restarts
           /\ chain \in Chains \cup {<<>>}
           /\ origin \in [Relay \cup {Exit} -> Dialler \cup {Exit}]
           /\ thread \in [Relay -> [Direction -> Thread]]
           /\ client \in End /\ exit \in End /\ client.sent + exit.sent <= MaxData
           /\ slow \in [reads : Nat, writes : Nat] /\ restarts \in Nat /\ Faults <= MaxFaults)'
      BY <1>3, <1>4 DEF RouteInv, Types
    <3> QED
      BY <2>2, <3>1, <3>2, <3>3 DEF Types
  <2>5. Dialled'
    <3>1. link'[Client].dialling = "none" => link[Client].dialling = "none"
      BY <2>1 DEF Moves, Dialler
    <3>2. handler[r] # "listen"
      BY <1>1
    <3> QED
      BY <3>1, <3>2, <2>2, <1>3 DEF RouteInv, Dialled
  <2>6. Along'
    <3>1. \A x \in Relay : hop'[x] # NoHop =>
            /\ handler'[x] \notin {"listen", "first", "layer"}
            /\ \E j \in 1 .. Len(chain) : x = chain[j] /\ hop'[x] = HopOf(chain, j)
      BY <2>0, <2>2, <2>3 DEF RouteInv, Along
    <3>2. \A x \in Relay : handler'[x] \in {"connect", "hello", "forward"} => hop'[x] # NoHop
      <4>1. hop'[r] # NoHop
        <5>1. chain # <<>>
          BY <2>0
        <5> QED
          BY <5>1, <2>3, ChainIs, LayersRoute
      <4> QED
        BY <4>1, <2>2, <2>3 DEF RouteInv, Along
    <3>3. \A x \in Direction : thread[r][x].at \notin {"recv", "send"}
      BY <1>1 DEF RouteInv, Along
    <3>4. \A x \in Relay, y \in Direction :
            thread'[x][y].at \in {"recv", "send"} => handler'[x] = "forward"
      BY <3>3, <2>2, <1>3 DEF RouteInv, Along
    <3>5. chain # <<>> => \A n \in Relay \cup {Exit} : origin[n] # Exit =>
            \E j \in 1 .. Len(chain) + 1 : n = Node(chain, j) /\ origin[n] = Node(chain, j - 1)
      BY DEF RouteInv, Along
    <3> QED
      BY <3>1, <3>2, <3>4, <3>5, <1>3 DEF Along, Node, HopOf, LayersOf
  <2>7. LayersWait'
    <3>1. ASSUME NEW x \in Dialler, x # d PROVE LayersWaitOn(x)'
      <4>1. ASSUME NEW j \in 1 .. Len(chain), x = Node(chain, j - 1)
            PROVE  handler'[chain[j]] = handler[chain[j]]
        <5>1. chain[j] # r
          BY <4>1, <3>1, <1>1, HandlerLink, LayerFor
        <5>2. chain[j] \in Relay
          <6>1. chain # <<>>
            OBVIOUS
          <6> QED
            BY <6>1, ChainIs, NodesDiffer
        <5> QED
          BY <5>1, <5>2, <2>2
      <4> QED
        BY <4>1, <2>1, <1>3, LayersKeptOn DEF RouteInv, LayersWait
    <3>2. ASSUME NEW x \in Dialler, x = d PROVE LayersWaitOn(x)'
      <4> SUFFICES ASSUME NEW k \in 1 .. Len(link'[d].up), link'[d].up[k].of.tag = "blob"
                   PROVE  FALSE
        BY <3>2, <1>3 DEF LayersWaitOn
      <4>1. k \in Nat /\ k # 0 /\ k + 2 \in 1 .. Len(q) /\ link'[d].up[k] = q[k + 2]
        BY <1>2, <2>1
      <4>2. PICK j \in 1 .. Len(chain) :
              d = Node(chain, j - 1) /\ (handler[chain[j]] = "layer" => k + 2 <= 2)
        BY SMTT(30), <4>1, <1>2 DEF RouteInv, LayersWait, LayersWaitOn, LayerWaits
      <4>3. chain[j] = r
        BY <4>2, <1>1, HandlerLink, LayerFor
      <4> QED
        BY <4>1, <4>2, <4>3, <1>1
    <3> QED
      BY <3>1, <3>2 DEF LayersWait, Dialler
  <2>8. HelloFresh'
    <3>1. \A x \in Relay : Calm(link[x], link'[x])
      BY <1>2, <2>1, Still, EndTypes DEF Dialler
    <3>2. \A x \in Relay : handler[x] = "first" => handler'[x] = "first"
      BY <1>1, <2>2
    <3>3. \A x \in Relay : handler'[x] = "hello" => handler[x] = "hello" /\ hop'[x] = hop[x]
      BY <2>2, <2>3
    <3> QED
      BY <3>1, <3>2, <3>3, HelloKept
  <2> QED
    BY <2>4, <2>5, <2>6, <2>7, <2>8 DEF RouteInv
<1>6. CASE handler' = [handler EXCEPT ![r] = "over"] /\ hop' = hop
           /\ link' = [link EXCEPT ![d] = Close(m, "accepted")]
  <2>1. Moves(chain, m, Close(m, "accepted")) /\ Calm(m, Close(m, "accepted"))
    BY <1>2, ClosesEnd
  <2>2. Moves(chain, link[d], Close(m, "accepted")) /\ Calm(link[d], Close(m, "accepted"))
    BY <1>1, <1>2, <2>1, MovesOn, HandlerLink
  <2>3. /\ link' \in [Dialler -> Link(chain)]
        /\ \A x \in Dialler : Moves(chain, link[x], link'[x])
        /\ link'[d] = Close(m, "accepted")
        /\ \A x \in Dialler : x # d => link'[x] = link[x]
    BY <1>2, <1>6, <2>2, OneLink, SlowTypes
  <2>4. \A x \in Relay \ {r} : Calm(link[x], link'[x])
    BY <2>2, <2>3, Still, EndTypes DEF Dialler
  <2> QED
    BY <1>1, <1>3, <1>4, <1>6, <2>3, <2>4, GivesUp
<1> QED
  BY <1>2, <1>5, <1>6 DEF HandleLayer, PeelLayer

LEMMA FreshLink ==
  ASSUME NEW c
  PROVE  /\ NewLink(<<>>) \in Link(c)
         /\ NewLink(<<>>) = [up |-> <<>>, down |-> <<>>, dialling |-> "open", accepted |-> "open"]
<1> DEFINE s == [i \in 1 .. Len(<<>>) |-> Whole(<<>>[i])]
<1>1. s = <<>>
  <2>1. \A i \in 1 .. 0 : Whole(<<>>[i]) \in Seq(Pieces(Frames))
    OBVIOUS
  <2>2. [i \in 1 .. 0 |-> Whole(<<>>[i])] \in Seq(Seq(Pieces(Frames)))
        /\ Len([i \in 1 .. 0 |-> Whole(<<>>[i])]) = 0
    BY ONLY <2>1, IsASeq, LenProperties
  <2> QED
    BY <2>2, EmptySeq
<1>2. FlattenSeq(s) = <<>>
  BY <1>1, FlattenEmpty
<1> HIDE DEF s
<1>3. NewLink(<<>>) = [up |-> <<>>, down |-> <<>>, dialling |-> "open", accepted |-> "open"]
  BY <1>2 DEF NewLink, s
<1>4. <<>> \in Seq(Pieces(Frames \cup Blobs(c))) /\ <<>> \in Seq(Pieces(Frames))
  OBVIOUS
<1>5. ASSUME NEW u \in Seq(Pieces(Frames \cup Blobs(c))), NEW d \in Seq(Pieces(Frames))
      PROVE  [up |-> u, down |-> d, dialling |-> "open", accepted |-> "open"] \in Link(c)
  BY DEF Link, State
<1>6. [up |-> <<>>, down |-> <<>>, dialling |-> "open", accepted |-> "open"] \in Link(c)
  BY <1>4, <1>5
<1> QED
  BY <1>3, <1>6

LEMMA ConnectStep ==
  ASSUME RouteInv, NEW r \in Relay, Connect(r)
  PROVE  RouteInv'
<1> DEFINE n == hop[r].addr
<1>1. handler[r] = "connect" /\ hop[r] # NoHop
  BY DEF Connect, RouteInv, Along
<1>2. PICK i \in 1 .. Len(chain) :
        /\ r = Node(chain, i) /\ chain[i] = r /\ hop[r] = HopOf(chain, i)
        /\ n = Node(chain, i + 1) /\ origin[r] = Node(chain, i - 1)
        /\ n \in Relay \cup {Exit} /\ chain \in Chains
  BY <1>1, HopNode
<1>3. n # r /\ n # Client
  <2>1. Len(chain) \in Nat /\ i \in 0 .. Len(chain) + 1 /\ i + 1 \in 0 .. Len(chain) + 1 /\ i # i + 1
    BY <1>2, NodesDiffer
  <2> QED
    BY <1>2, <2>1, NodesDiffer, RelayChainAssumption
<1>4. n \in Relay => handler[n] = "listen"
  BY RelayChainAssumption DEF Connect, Listens
<1> HIDE DEF n
<1>5. /\ handler'[r] = "hello" /\ (n \in Relay => handler'[n] = "first")
      /\ \A x \in Relay : x # r /\ x # n => handler'[x] = handler[x]
      /\ handler' \in [Relay -> {"listen", "first", "layer", "connect", "hello",
                                 "forward", "over"}]
  BY <1>3 DEF Connect, n, RouteInv, Types
<1>6. /\ origin'[n] = r /\ \A x \in Relay \cup {Exit} : x # n => origin'[x] = origin[x]
      /\ origin' \in [Relay \cup {Exit} -> Dialler \cup {Exit}]
  BY <1>2 DEF Connect, n, RouteInv, Types, Dialler
<1>7. UNCHANGED <<key, chain, hop, thread, client, exit, slow, restarts>>
  BY DEF Connect
<1>8. r \in Dialler /\ r # Exit /\ r # Client
  BY RelayChainAssumption DEF Dialler
<1>9. Moves(chain, link[r], NewLink(<<>>))
  <2>1. \A k \in 1 .. Len(<<>>) : FALSE
    OBVIOUS
  <2> QED
    BY <2>1, FreshLink DEF Moves, Shrinks
<1>10. /\ link' \in [Dialler -> Link(chain)]
       /\ \A x \in Dialler : Moves(chain, link[x], link'[x])
       /\ link'[r] = NewLink(<<>>)
       /\ \A x \in Dialler : x # r => link'[x] = link[x]
  <2>1. link' = [link EXCEPT ![r] = NewLink(<<>>)]
    BY DEF Connect
  <2> QED
    BY <1>8, <1>9, <2>1, OneLink, SlowTypes
<1>11. Types'
  <2>1. (link \in [Dialler -> Link(chain)])'
    BY <1>10, <1>7
  <2>2. (hop \in [Relay -> {NoHop} \cup {HopOf(chain, j) : j \in 1 .. Len(chain)}])'
    BY <1>7 DEF RouteInv, Types
  <2>3. (/\ key \in [Relay -> Nat] /\ \A x \in Relay : key[x] <= restarts
         /\ chain \in Chains \cup {<<>>}
         /\ thread \in [Relay -> [Direction -> Thread]]
         /\ client \in End /\ exit \in End /\ client.sent + exit.sent <= MaxData
         /\ slow \in [reads : Nat, writes : Nat] /\ restarts \in Nat /\ Faults <= MaxFaults)'
    BY <1>7 DEF RouteInv, Types, Faults
  <2> QED
    BY <1>5, <1>6, <2>1, <2>2, <2>3 DEF Types
<1>12. Dialled'
  <2>0. Client \in Dialler /\ Client # r
    BY <1>8 DEF Dialler
  <2>1. link'[Client] = link[Client]
    BY <1>10, <2>0
  <2>2. link[Client].dialling # "none" /\ chain # <<>>
    BY <1>1, <1>2 DEF RouteInv, Dialled
  <2>3. \A x \in Relay : handler'[x] = "listen" <=> origin'[x] = Exit
    BY <1>1, <1>3, <1>5, <1>6, <1>8 DEF RouteInv, Dialled
  <2> QED
    BY <1>7, <2>1, <2>2, <2>3 DEF Dialled
<1>13. Along'
  <2>1. \A x \in Relay \cup {Exit} : origin'[x] # Exit =>
          \E j \in 1 .. Len(chain) + 1 : x = Node(chain, j) /\ origin'[x] = Node(chain, j - 1)
    <3>1. ASSUME NEW x \in Relay \cup {Exit}, origin'[x] # Exit
          PROVE  \E j \in 1 .. Len(chain) + 1 : x = Node(chain, j) /\ origin'[x] = Node(chain, j - 1)
      <4>1. CASE x = n
        <5>1. i + 1 \in 1 .. Len(chain) + 1 /\ (i + 1) - 1 = i
          BY <1>2, NodesDiffer
        <5> QED
          BY <4>1, <5>1, <1>2, <1>6 DEF n
      <4>2. CASE x # n
        BY <3>1, <4>2, <1>2, <1>6 DEF RouteInv, Along
      <4> QED
        BY <4>1, <4>2
    <3> QED
      BY <3>1
  <2>2. \A x \in Relay : hop[x] # NoHop =>
          /\ handler'[x] \notin {"listen", "first", "layer"}
          /\ \E j \in 1 .. Len(chain) : x = chain[j] /\ hop[x] = HopOf(chain, j)
    BY <1>4, <1>5 DEF RouteInv, Along
  <2>3. \A x \in Relay : handler'[x] \in {"connect", "hello", "forward"} => hop[x] # NoHop
    BY <1>1, <1>5 DEF RouteInv, Along
  <2>4. \A x \in Relay, y \in Direction :
          thread[x][y].at \in {"recv", "send"} => handler'[x] = "forward"
    BY <1>1, <1>4, <1>5 DEF RouteInv, Along
  <2> QED
    BY <2>1, <2>2, <2>3, <2>4, <1>7 DEF Along, Node, HopOf, LayersOf
<1>14. LayersWait'
  <2>1. \A x \in Relay : \/ handler'[x] \in {handler[x], "over"}
                         \/ handler[x] \notin {"first", "layer", "over"}
    BY <1>1, <1>4, <1>5
  <2> QED
    BY <2>1, <1>7, <1>10, LayersKept DEF RouteInv
<1>15. HelloFresh'
  <2> SUFFICES ASSUME NEW x \in Relay, handler'[x] = "hello"
               PROVE  /\ link'[x].up = <<>> /\ link'[x].dialling = "open"
                      /\ link'[x].accepted # "none"
                      /\ hop[x].addr \in Relay =>
                           handler'[hop[x].addr] = "first" \/ link'[x].accepted = "closed"
    BY <1>7 DEF HelloFresh
  <2>1. CASE x = r
    BY <2>1, <1>5, <1>10, FreshLink DEF n
  <2>2. CASE x # r
    <3>1. handler[x] = "hello" /\ link'[x] = link[x]
      BY <2>2, <1>5, <1>10 DEF Dialler
    <3>2. hop[x].addr \in Relay /\ handler[hop[x].addr] = "first" => handler'[hop[x].addr] = "first"
      BY <1>1, <1>5
    <3> QED
      BY <3>1, <3>2 DEF RouteInv, HelloFresh
  <2> QED
    BY <2>1, <2>2
<1> QED
  BY <1>11, <1>12, <1>13, <1>14, <1>15 DEF RouteInv

(* What a relay says first to the next one, whole or in part: its layer is  *)
(* the second frame.                                                        *)
LEMMA HelloWrite ==
  ASSUME RouteInv, NEW r \in Relay, handler[r] = "hello",
         NEW k \in 0 .. Len(HelloPieces(hop[r]))
  PROVE  LET m == Write(link[r], "dialling", SubSeq(HelloPieces(hop[r]), 1, k))
         IN /\ m \in Link(chain) /\ (m.dialling = "none" => link[r].dialling = "none")
            /\ \A j \in 1 .. Len(m.up) : m.up[j].of.tag = "blob" =>
                 /\ j <= 4
                 /\ \E i \in 1 .. Len(chain) :
                      /\ r = Node(chain, i - 1) /\ chain[i] # r
                      /\ m.up[j].of = Blob(LayersOf(chain)[i])
                      /\ handler[chain[i]] = "first"
<1> DEFINE p == SubSeq(HelloPieces(hop[r]), 1, k)
           m == Write(link[r], "dialling", p)
<1>1. hop[r] # NoHop /\ link[r].up = <<>> /\ link[r].dialling = "open"
      /\ (hop[r].addr \in Relay => handler[hop[r].addr] = "first" \/ link[r].accepted = "closed")
  BY DEF RouteInv, Along, HelloFresh
<1>2. PICK i \in 1 .. Len(chain) :
        /\ r = Node(chain, i) /\ chain[i] = r /\ hop[r] = HopOf(chain, i)
        /\ hop[r].addr = Node(chain, i + 1) /\ chain \in Chains
  BY <1>1, HopNode
<1>3. link[r] \in Link(chain)
  BY HandlerLink
<1>4. CASE link[r].accepted = "closed"
  <2>1. m = link[r]
    BY <1>4, Ends2 DEF Write
  <2>2. \A j \in 1 .. Len(<<>>) : FALSE
    OBVIOUS
  <2> QED
    BY <1>1, <1>3, <2>1, <2>2
<1>5. CASE link[r].accepted # "closed" /\ i = Len(chain)
  <2>1. HelloPieces(hop[r]) = Whole(Data(0))
    BY <1>2, <1>5, LayersRoute DEF HelloPieces
  <2>2. 0 \in 0 .. MaxData
    BY RelayChainAssumption
  <2>3. HelloPieces(hop[r]) \in Seq(Pieces(Frames))
    BY <2>1, <2>2, SomeFrames, WholePieces
  <2>4. p \in Seq(Pieces(Frames))
    BY <2>3
  <2>5. Moves(chain, link[r], m)
    BY <1>3, <2>4, WriteUp
  <2>6. ASSUME NEW j \in 1 .. Len(m.up), m.up[j].of.tag = "blob" PROVE FALSE
    <3>1. PICK l \in 1 .. Len(link[r].up) : TRUE
      BY <2>5, <2>6 DEF Moves, Shrinks
    <3> QED
      BY <1>1, <3>1
  <2> QED
    BY <2>5, <2>6 DEF Moves
<1>6. CASE link[r].accepted # "closed" /\ i # Len(chain)
  <2>0. Len(chain) \in Nat /\ i + 1 \in 1 .. Len(chain) /\ (i + 1) - 1 = i
    BY <1>2, <1>6, NodesDiffer
  <2> DEFINE b == Blob(LayersOf(chain)[i + 1])
             h == Whole(Kind("RELAY")) \o Whole(b)
  <2>1. HelloPieces(hop[r]) = h
    <3>1. HopOf(chain, i).type = HOP_NODE /\ HopOf(chain, i).inner = LayersOf(chain)[i + 1]
      BY <1>2, <1>6, LayersRoute
    <3>2. HOP_NODE # HOP_SERVER
      BY DEF HOP_NODE, HOP_SERVER
    <3> QED
      BY <1>2, <3>1, <3>2 DEF HelloPieces
  <2>2. /\ hop[r].addr = chain[i + 1] /\ chain[i + 1] \in Relay /\ chain[i + 1] # r
        /\ handler[chain[i + 1]] = "first"
    <3>1. Node(chain, i + 1) = chain[i + 1] /\ chain[i + 1] \in Relay
      BY <1>2, <2>0, NodesDiffer
    <3>2. i \in 0 .. Len(chain) + 1 /\ i + 1 \in 0 .. Len(chain) + 1 /\ i # i + 1
      BY <2>0
    <3>3. Node(chain, i) # Node(chain, i + 1)
      BY ONLY <1>2, <3>2, NodesDiffer
    <3> QED
      BY <1>1, <1>2, <1>6, <3>1, <3>3
  <2>3. /\ h \in Seq(Pieces(Frames \cup Blobs(chain))) /\ Len(h) = 4
        /\ \A j \in 1 .. 4 : h[j].of \in {Kind("RELAY"), b}
    <3> DEFINE P == Pieces(Frames \cup Blobs(chain))
    <3>1. b \in Frames \cup Blobs(chain) /\ Kind("RELAY") \in Frames \cup Blobs(chain)
      BY <2>0, SomeFrames DEF Blobs
    <3>2. /\ Whole(Kind("RELAY")) \in Seq(P) /\ Len(Whole(Kind("RELAY"))) = 2
          /\ Whole(Kind("RELAY"))[1].of = Kind("RELAY") /\ Whole(Kind("RELAY"))[2].of = Kind("RELAY")
          /\ Whole(b) \in Seq(P) /\ Len(Whole(b)) = 2
          /\ Whole(b)[1].of = b /\ Whole(b)[2].of = b
      BY <3>1, WholePieces
    <3>3. PICK u \in Seq(P), v \in Seq(P) : u = Whole(Kind("RELAY")) /\ v = Whole(b)
      BY <3>2
    <3> HIDE DEF P
    <3>4. /\ u \o v \in Seq(P) /\ Len(u \o v) = 4
          /\ (u \o v)[1] = u[1] /\ (u \o v)[2] = u[2]
          /\ (u \o v)[3] = v[1] /\ (u \o v)[4] = v[2]
      BY ONLY <3>2, <3>3, TwoAndTwo
    <3>5. \A j \in 1 .. 4 : j = 1 \/ j = 2 \/ j = 3 \/ j = 4
      OBVIOUS
    <3> QED
      BY <3>2, <3>3, <3>4, <3>5 DEF P
  <2> HIDE DEF h, b
  <2>4. /\ p \in Seq(Pieces(Frames \cup Blobs(chain))) /\ Len(p) = k /\ k \in 0 .. 4
        /\ \A j \in 1 .. Len(p) : p[j].of \in {Kind("RELAY"), b}
    <3>1. p = SubSeq(h, 1, k) /\ k \in 0 .. Len(h)
      BY <2>1
    <3> HIDE DEF p
    <3>2. /\ p \in Seq(Pieces(Frames \cup Blobs(chain))) /\ Len(p) = k
          /\ \A j \in 1 .. k : j \in 1 .. Len(h) /\ p[j] = h[j]
      BY ONLY <2>3, <3>1, FirstOf
    <3> QED
      BY <2>3, <3>1, <3>2
  <2>5. m = [link[r] EXCEPT !.up = p]
    <3>1. <<>> \o p = p
      BY <2>4
    <3> QED
      BY <1>1, <1>6, <3>1, Ends2 DEF Write
  <2>6. m \in Link(chain) /\ m.up = p /\ m.dialling = "open"
    BY <1>1, <1>3, <2>4, <2>5 DEF Link
  <2>7. Kind("RELAY").tag # "blob"
    BY SomeFrames, FrameTags
  <2> HIDE DEF m, p
  <2>8. ASSUME NEW j \in 1 .. Len(m.up), m.up[j].of.tag = "blob"
        PROVE  j <= 4 /\ m.up[j].of = b
    BY <2>4, <2>6, <2>7, <2>8
  <2>9. ASSUME NEW j \in 1 .. Len(m.up), m.up[j].of.tag = "blob"
        PROVE  \E l \in 1 .. Len(chain) :
                 /\ r = Node(chain, l - 1) /\ chain[l] # r
                 /\ m.up[j].of = Blob(LayersOf(chain)[l])
                 /\ handler[chain[l]] = "first"
    <3>1. /\ r = Node(chain, (i + 1) - 1) /\ m.up[j].of = Blob(LayersOf(chain)[i + 1])
      BY <1>2, <2>0, <2>8, <2>9 DEF b
    <3> QED
      BY <2>0, <2>2, <3>1
  <2> QED
    BY <2>6, <2>8, <2>9 DEF m, p
<1> QED
  BY <1>4, <1>5, <1>6

LEMMA HelloType ==
  ASSUME RouteInv, NEW r \in Relay, handler[r] = "hello"
  PROVE  HelloPieces(hop[r]) \in Seq(Pieces(Frames \cup Blobs(chain)))
<1> DEFINE F == Frames \cup Blobs(chain)
<1>1. hop[r] # NoHop
  BY DEF RouteInv, Along
<1>2. PICK i \in 1 .. Len(chain) : hop[r] = HopOf(chain, i) /\ chain \in Chains
  BY <1>1, HopNode
<1>3. CASE i = Len(chain)
  <2>1. HelloPieces(hop[r]) = Whole(Data(0))
    BY <1>2, <1>3, LayersRoute DEF HelloPieces
  <2>2. 0 \in 0 .. MaxData
    BY RelayChainAssumption
  <2>3. Data(0) \in F
    BY <2>2, SomeFrames
  <2> QED
    BY <2>1, <2>3, WholePieces
<1>4. CASE i # Len(chain)
  <2>0. i + 1 \in 1 .. Len(chain)
    BY <1>2, <1>4, NodesDiffer
  <2>1. HopOf(chain, i).type = HOP_NODE /\ HopOf(chain, i).inner = LayersOf(chain)[i + 1]
    BY <1>2, <1>4, LayersRoute
  <2>2. HOP_NODE # HOP_SERVER
    BY DEF HOP_NODE, HOP_SERVER
  <2>3. HelloPieces(hop[r]) = Whole(Kind("RELAY")) \o Whole(Blob(LayersOf(chain)[i + 1]))
    BY <1>2, <2>1, <2>2 DEF HelloPieces
  <2>4. Kind("RELAY") \in F /\ Blob(LayersOf(chain)[i + 1]) \in F
    BY <2>0, SomeFrames DEF Blobs
  <2>5. Whole(Kind("RELAY")) \in Seq(Pieces(F)) /\ Whole(Blob(LayersOf(chain)[i + 1])) \in Seq(Pieces(F))
    BY <2>4, WholePieces
  <2> QED
    BY ONLY <2>3, <2>5, ConcatProperties
<1> QED
  BY <1>3, <1>4

LEMMA MoreSlow ==
  ASSUME RouteInv, restarts' = restarts,
         \/ slow' = slow
         \/ Faults < MaxFaults /\ slow' = [slow EXCEPT !.reads = slow.reads + 1]
         \/ Faults < MaxFaults /\ slow' = [slow EXCEPT !.writes = slow.writes + 1]
  PROVE  slow' \in [reads : Nat, writes : Nat] /\ Faults' <= MaxFaults
<1>1. slow \in [reads : Nat, writes : Nat] /\ Faults <= MaxFaults /\ restarts \in Nat /\ MaxFaults \in Nat
  BY SlowTypes, RelayChainAssumption
<1>2. CASE slow' = slow
  BY <1>1, <1>2 DEF Faults
<1>3. CASE Faults < MaxFaults /\ slow' = [slow EXCEPT !.reads = slow.reads + 1]
  <2>1. PICK n \in Nat : n = slow.reads + 1
    BY <1>1
  <2>2. slow' \in [reads : Nat, writes : Nat] /\ slow'.reads = slow.reads + 1 /\ slow'.writes = slow.writes
    BY <1>1, <1>3, <2>1
  <2> QED
    BY <1>1, <1>3, <2>2 DEF Faults
<1>4. CASE Faults < MaxFaults /\ slow' = [slow EXCEPT !.writes = slow.writes + 1]
  <2>1. PICK n \in Nat : n = slow.writes + 1
    BY <1>1
  <2>2. slow' \in [reads : Nat, writes : Nat] /\ slow'.writes = slow.writes + 1 /\ slow'.reads = slow.reads
    BY <1>1, <1>4, <2>1
  <2> QED
    BY <1>1, <1>4, <2>2 DEF Faults
<1> QED
  BY <1>2, <1>3, <1>4

LEMMA SaysHello ==
  ASSUME RouteInv, NEW r \in Relay, handler[r] = "hello",
         NEW k \in 0 .. Len(HelloPieces(hop[r])), NEW h \in {"forward", "over"},
         handler' = [handler EXCEPT ![r] = h],
         UNCHANGED <<key, chain, origin, hop, client, exit, restarts>>,
         slow' \in [reads : Nat, writes : Nat], Faults' <= MaxFaults,
         thread' \in [Relay -> [Direction -> Thread]],
         \A x \in Relay, d \in Direction :
           thread'[x][d].at \in {"recv", "send"} => handler'[x] = "forward",
         link' \in [Dialler -> Link(chain)],
         link'[r].up = Write(link[r], "dialling", SubSeq(HelloPieces(hop[r]), 1, k)).up,
         \A x \in Dialler : x # r => Moves(chain, link[x], link'[x]) /\ Calm(link[x], link'[x])
  PROVE  RouteInv'
<1>1. /\ handler'[r] = h /\ \A x \in Relay \ {r} : handler'[x] = handler[x]
      /\ handler' \in [Relay -> {"listen", "first", "layer", "connect", "hello",
                                 "forward", "over"}]
  BY DEF RouteInv, Types
<1>2. Types'
  <2>1. (link \in [Dialler -> Link(chain)])'
    OBVIOUS
  <2>2. (hop \in [Relay -> {NoHop} \cup {HopOf(chain, i) : i \in 1 .. Len(chain)}])'
    BY DEF RouteInv, Types
  <2>3. (/\ key \in [Relay -> Nat] /\ \A x \in Relay : key[x] <= restarts
         /\ chain \in Chains \cup {<<>>}
         /\ origin \in [Relay \cup {Exit} -> Dialler \cup {Exit}]
         /\ client \in End /\ exit \in End /\ client.sent + exit.sent <= MaxData
         /\ slow \in [reads : Nat, writes : Nat] /\ restarts \in Nat /\ Faults <= MaxFaults)'
    BY DEF RouteInv, Types
  <2> QED
    BY <1>1, <2>1, <2>2, <2>3 DEF Types
<1>3. Dialled'
  <2>1. link'[Client].dialling = "none" => link[Client].dialling = "none"
    BY EndTypes DEF Moves
  <2> QED
    BY <2>1, <1>1 DEF RouteInv, Dialled
<1>4. Along'
  <2>1. chain # <<>> => \A n \in Relay \cup {Exit} : origin[n] # Exit =>
          \E i \in 1 .. Len(chain) + 1 : n = Node(chain, i) /\ origin[n] = Node(chain, i - 1)
    BY DEF RouteInv, Along
  <2>2. \A x \in Relay : hop[x] # NoHop =>
          /\ handler'[x] \notin {"listen", "first", "layer"}
          /\ \E i \in 1 .. Len(chain) : x = chain[i] /\ hop[x] = HopOf(chain, i)
    BY <1>1 DEF RouteInv, Along
  <2>3. \A x \in Relay : handler'[x] \in {"connect", "hello", "forward"} => hop[x] # NoHop
    BY <1>1 DEF RouteInv, Along
  <2> QED
    BY <2>1, <2>2, <2>3 DEF Along, Node, HopOf, LayersOf
<1>5. LayersWait'
  <2>0. \A i \in 1 .. Len(chain) : chain[i] \in Relay
    <3> SUFFICES ASSUME NEW i \in 1 .. Len(chain) PROVE chain[i] \in Relay
      OBVIOUS
    <3>1. chain # <<>>
      OBVIOUS
    <3> QED
      BY <3>1, ChainIs, NodesDiffer
  <2>1. ASSUME NEW x \in Dialler, x # r PROVE LayersWaitOn(x)'
    <3>1. \A i \in 1 .. Len(chain) :
            \/ handler'[chain[i]] \in {handler[chain[i]], "over"}
            \/ handler[chain[i]] \notin {"first", "layer", "over"}
      BY <1>1, <2>0
    <3> QED
      BY <2>1, <3>1, LayersKeptOn DEF RouteInv, LayersWait
  <2>2. ASSUME NEW j \in 1 .. Len(link'[r].up), link'[r].up[j].of.tag = "blob"
        PROVE  LayerWaits(r, j)'
    <3> DEFINE u == Write(link[r], "dialling", SubSeq(HelloPieces(hop[r]), 1, k)).up
    <3>1. \A l \in 1 .. Len(u) : u[l].of.tag = "blob" =>
            /\ l <= 4
            /\ \E i \in 1 .. Len(chain) :
                 /\ r = Node(chain, i - 1) /\ chain[i] # r
                 /\ u[l].of = Blob(LayersOf(chain)[i])
                 /\ handler[chain[i]] = "first"
      BY SMTT(30), HelloWrite
    <3>2. link'[r].up = u
      OBVIOUS
    <3> HIDE DEF u
    <3>3. PICK i \in 1 .. Len(chain) :
            /\ r = Node(chain, i - 1) /\ chain[i] # r
            /\ u[j].of = Blob(LayersOf(chain)[i])
            /\ handler[chain[i]] = "first" /\ j <= 4
      BY <2>2, <3>1, <3>2
    <3>4. handler'[chain[i]] = "first"
      BY <1>1, <2>0, <3>3
    <3>5. Node(chain', i - 1) = Node(chain, i - 1) /\ LayersOf(chain')[i] = LayersOf(chain)[i]
      BY DEF Node, LayersOf
    <3>6. i \in 1 .. Len(chain')
      OBVIOUS
    <3> QED
      BY <3>2, <3>3, <3>4, <3>5, <3>6 DEF LayerWaits
  <2>3. LayersWaitOn(r)'
    BY <2>2 DEF LayersWaitOn
  <2> QED
    BY <2>1, <2>3 DEF LayersWait, Dialler
<1>6. HelloFresh'
  <2>1. \A x \in Relay : handler'[x] = "hello" =>
          /\ handler[x] = "hello" /\ hop'[x] = hop[x] /\ Calm(link[x], link'[x])
    BY <1>1 DEF Dialler
  <2>2. \A x \in Relay : handler[x] = "first" => handler'[x] = "first"
    BY <1>1
  <2> QED
    BY <2>1, <2>2, HelloKept
<1> QED
  BY <1>2, <1>3, <1>4, <1>5, <1>6 DEF RouteInv

LEMMA StartForwardingStep ==
  ASSUME RouteInv, NEW r \in Relay, StartForwarding(r)
  PROVE  RouteInv'
<1> DEFINE h == HelloPieces(hop[r])
           m == Write(link[r], "dialling", SubSeq(h, 1, Len(h)))
<1>1. handler[r] = "hello" /\ r \in Dialler
  BY DEF StartForwarding, Dialler
<1>2. h \in Seq(Pieces(Frames \cup Blobs(chain)))
  BY <1>1, HelloType
<1>3. Len(h) \in 0 .. Len(h) /\ SubSeq(h, 1, Len(h)) = h
  BY <1>2
<1>4. m \in Link(chain)
  BY <1>1, <1>3, HelloWrite
<1>5. link' = [link EXCEPT ![r] = m]
  BY <1>3 DEF StartForwarding
<1> HIDE DEF h, m
<1>6. link' \in [Dialler -> Link(chain)] /\ link'[r] = m
  BY <1>1, <1>4, <1>5, SlowTypes
<1>7. \A x \in Dialler : x # r => Moves(chain, link[x], link'[x]) /\ Calm(link[x], link'[x])
  BY <1>5, EndTypes, Still
<1>8. UNCHANGED <<key, hop, slow, chain, origin, client, exit, restarts>>
      /\ handler' = [handler EXCEPT ![r] = "forward"]
  BY DEF StartForwarding, HandlerFrame
<1>9. slow' \in [reads : Nat, writes : Nat] /\ Faults' <= MaxFaults
  BY <1>8, SlowTypes DEF Faults
<1>10. /\ thread' \in [Relay -> [Direction -> Thread]]
       /\ \A x \in Relay \ {r} : thread'[x] = thread[x]
  <2>1. NewThread \in Thread
    BY SomeFrames DEF NewThread, Thread
  <2>2. thread' = [thread EXCEPT ![r] = [d \in Direction |-> NewThread]]
        /\ thread \in [Relay -> [Direction -> Thread]]
    BY DEF StartForwarding, RouteInv, Types
  <2> QED
    BY <2>1, <2>2
<1>11. \A x \in Relay, d \in Direction :
         thread'[x][d].at \in {"recv", "send"} => handler'[x] = "forward"
  <2>1. handler'[r] = "forward" /\ \A x \in Relay \ {r} : handler'[x] = handler[x]
    BY <1>8, SlowTypes
  <2> QED
    BY <2>1, <1>10 DEF RouteInv, Along
<1> QED
  BY <1>1, <1>3, <1>6, <1>7, <1>8, <1>9, <1>10, <1>11, SaysHello DEF h, m

LEMMA HelloFailsStep ==
  ASSUME RouteInv, NEW r \in Relay, HelloFails(r)
  PROVE  RouteInv'
<1>1. handler[r] = "hello"
  BY DEF HelloFails
<1> DEFINE d == origin[r]
           h == HelloPieces(hop[r])
           o == Close(link[d], "accepted")
<1>2. /\ d \in Dialler /\ d # r /\ r \in Dialler /\ link[d] \in Link(chain)
  BY <1>1, HandlerLink
<1>3. PICK k \in 0 .. Len(h) - 1 :
        /\ \/ slow' = slow
           \/ Faults < MaxFaults /\ slow' = [slow EXCEPT !.writes = slow.writes + 1]
        /\ link' = [link EXCEPT ![r] = Close(Write(link[r], "dialling", SubSeq(h, 1, k)), "dialling"),
                                ![d] = Close(link[d], "accepted")]
  <2>1. PICK k \in 0 .. Len(h) - 1 :
        /\ \/ link[r].accepted = "closed" /\ UNCHANGED slow
           \/ Faults < MaxFaults /\ slow' = [slow EXCEPT !.writes = @ + 1]
        /\ link' = [link EXCEPT
            ![r] = Close(Write(@, "dialling", SubSeq(h, 1, k)), "dialling"),
            ![d] = Close(@, "accepted")]
    BY DEF HelloFails
  <2> QED
    BY <1>2, <2>1
<1>4. h \in Seq(Pieces(Frames \cup Blobs(chain))) /\ k \in 0 .. Len(h)
  <2>1. h \in Seq(Pieces(Frames \cup Blobs(chain)))
    BY <1>1, HelloType
  <2>2. Len(h) \in Nat
    BY <2>1
  <2> QED
    BY <2>1, <2>2
<1> DEFINE m == Write(link[r], "dialling", SubSeq(h, 1, k))
<1>5. m \in Link(chain)
  BY <1>1, <1>4, HelloWrite
<1>6. Close(m, "dialling") \in Link(chain) /\ Close(m, "dialling").up = m.up
  BY <1>5, ClosesEnd DEF Moves
<1>7. Moves(chain, link[d], o) /\ Calm(link[d], o)
  BY <1>2, ClosesEnd
<1>8. link' = [link EXCEPT ![r] = Close(m, "dialling"), ![d] = o]
  BY <1>3
<1>9. UNCHANGED <<key, hop, thread, chain, origin, client, exit, restarts>>
      /\ handler' = [handler EXCEPT ![r] = "over"]
  BY DEF HelloFails, HandlerFrame
<1>10. slow' \in [reads : Nat, writes : Nat] /\ Faults' <= MaxFaults
  BY <1>3, <1>9, SlowTypes, MoreSlow
<1>11. \A x \in Relay, y \in Direction :
         thread'[x][y].at \in {"recv", "send"} => handler'[x] = "forward"
  BY <1>1, <1>9 DEF RouteInv, Along, Types
<1>12. thread' \in [Relay -> [Direction -> Thread]]
  BY <1>9 DEF RouteInv, Types
<1> HIDE DEF m, o, d
<1>13. link' \in [Dialler -> Link(chain)] /\ link'[r] = Close(m, "dialling")
  BY <1>2, <1>6, <1>7, <1>8, SlowTypes DEF Moves
<1>14. \A x \in Dialler : x # r => Moves(chain, link[x], link'[x]) /\ Calm(link[x], link'[x])
  <2>1. \A x \in Dialler : x # r => link'[x] = (IF x = d THEN o ELSE link[x])
    BY <1>2, <1>8, SlowTypes
  <2> QED
    BY <1>7, <2>1, EndTypes, Still
<1>15. link'[r].up = Write(link[r], "dialling", SubSeq(HelloPieces(hop[r]), 1, k)).up
  BY <1>6, <1>13 DEF m
<1> QED
  BY <1>1, <1>4, <1>9, <1>10, <1>11, <1>12, <1>13, <1>14, <1>15, SaysHello

LEMMA RestartStep ==
  ASSUME RouteInv, NEW r \in Relay, Restart(r)
  PROVE  RouteInv'
<1>1. UNCHANGED <<chain, origin, hop, client, exit, slow>> /\ restarts' = restarts + 1
  BY DEF Restart
<1>2. /\ slow' \in [reads : Nat, writes : Nat] /\ restarts' \in Nat /\ Faults' <= MaxFaults
  BY <1>1, SlowTypes, RelayChainAssumption DEF Restart, Faults
<1>3. key' \in [Relay -> Nat] /\ \A x \in Relay : key'[x] <= restarts'
  <2>1. key' = [key EXCEPT ![r] = key[r] + 1] /\ key[r] + 1 \in Nat
    BY SlowTypes DEF Restart
  <2>2. key' \in [Relay -> Nat] /\ key'[r] = key[r] + 1 /\ \A x \in Relay \ {r} : key'[x] = key[x]
    BY <2>1, SlowTypes
  <2>3. \A x \in Relay : key[x] <= restarts /\ key[x] \in Nat
    BY SlowTypes
  <2> QED
    BY <1>1, <1>2, <2>2, <2>3, SlowTypes
<1>4. /\ thread' \in [Relay -> [Direction -> Thread]]
      /\ \A x \in Relay, d \in Direction :
           thread'[x][d].at \in {"recv", "send"} => x # r /\ thread[x][d].at \in {"recv", "send"}
  <2>1. /\ thread \in [Relay -> [Direction -> Thread]]
        /\ thread' = [thread EXCEPT ![r] =
             [d \in Direction |-> IF thread[r][d].at = "off" THEN thread[r][d]
                                  ELSE [NewThread EXCEPT !.at = "ended"]]]
    BY DEF Restart, RouteInv, Types
  <2>2. [NewThread EXCEPT !.at = "ended"] \in Thread /\ [NewThread EXCEPT !.at = "ended"].at = "ended"
    BY SomeFrames DEF NewThread, Thread
  <2> QED
    BY <2>1, <2>2
<1>5. CASE handler[r] = "listen" /\ UNCHANGED <<handler, link>>
  <2>1. Types'
    <3>1. (link \in [Dialler -> Link(chain)])'
      BY <1>1, <1>5, SlowTypes
    <3>2. (hop \in [Relay -> {NoHop} \cup {HopOf(chain, i) : i \in 1 .. Len(chain)}])'
      BY <1>1 DEF RouteInv, Types
    <3>3. (/\ chain \in Chains \cup {<<>>}
           /\ handler \in [Relay -> {"listen", "first", "layer", "connect", "hello",
                                     "forward", "over"}]
           /\ origin \in [Relay \cup {Exit} -> Dialler \cup {Exit}]
           /\ client \in End /\ exit \in End /\ client.sent + exit.sent <= MaxData)'
      BY <1>1, <1>5 DEF RouteInv, Types
    <3> QED
      BY <1>2, <1>3, <1>4, <3>1, <3>2, <3>3 DEF Types
  <2>2. \A x \in Dialler : Moves(chain, link[x], link'[x]) /\ Calm(link[x], link'[x])
    BY <1>5, EndTypes, Still
  <2>3. \A x \in Relay, d \in Direction :
          thread'[x][d].at \in {"recv", "send"} => handler'[x] = "forward"
    BY <1>4, <1>5 DEF RouteInv, Along
  <2> QED
    BY <1>1, <1>5, <2>1, <2>2, <2>3, RouteKept DEF Dialler
<1>6. CASE handler[r] # "listen"
  <2> DEFINE o == origin[r]
  <2>1. PICK p \in Gone(link[o], "accepted"), n \in Gone(link[r], "dialling") :
          link' = [link EXCEPT ![o] = p, ![r] = n] /\ handler' = [handler EXCEPT ![r] = "over"]
    BY <1>6 DEF Restart, Prev
  <2>2. o \in Dialler /\ o # r /\ r \in Dialler /\ link[o] \in Link(chain) /\ link[r] \in Link(chain)
    BY <1>6, HandlerLink
  <2>3. /\ Moves(chain, link[o], p) /\ Calm(link[o], p)
        /\ link[o].accepted # "none" => p.accepted = "closed"
    BY <2>1, <2>2, GoesDown
  <2>4. Moves(chain, link[r], n)
    BY <2>1, <2>2, GoesUp
  <2> HIDE DEF o
  <2>5. /\ link' \in [Dialler -> Link(chain)]
        /\ \A x \in Dialler : Moves(chain, link[x], link'[x])
        /\ link'[o] = p /\ link'[r] = n
        /\ \A x \in Dialler : x \notin {o, r} => link'[x] = link[x]
    BY <2>1, <2>2, <2>3, <2>4, TwoLinks, SlowTypes
  <2>6. \A x \in Relay \ {r} : Calm(link[x], link'[x])
    BY <2>3, <2>5, EndTypes, Still DEF Dialler
  <2>7. link[origin[r]].accepted # "none" => link'[origin[r]].accepted = "closed"
    BY <2>3, <2>5 DEF o
  <2> QED
    BY <1>1, <1>2, <1>3, <1>4, <1>6, <2>1, <2>5, <2>6, <2>7, OverStep
<1> QED
  BY <1>5, <1>6 DEF Restart

-------------------------------------------------------------------------------
(* The forwarding threads.                                                  *)

LEMMA ThreadLinks ==
  ASSUME RouteInv, NEW r \in Relay, NEW d \in Direction, thread[r][d].at \in {"recv", "send"}
  PROVE  /\ handler[r] = "forward"
         /\ origin[r] \in Dialler /\ origin[r] # r /\ r \in Dialler
         /\ InLink(r, d) \in Dialler /\ OutLink(r, d) \in Dialler
         /\ \/ d = "next_node" /\ InLink(r, d) = origin[r] /\ InEnd(d) = "accepted"
               /\ OutLink(r, d) = r /\ OutEnd(d) = "dialling" /\ In(InEnd(d)) = "up"
            \/ d = "back_node" /\ InLink(r, d) = r /\ InEnd(d) = "dialling"
               /\ OutLink(r, d) = origin[r] /\ OutEnd(d) = "accepted" /\ In(InEnd(d)) = "down"
<1>1. handler[r] = "forward"
  BY DEF RouteInv, Along
<1>2. origin[r] \in Dialler /\ origin[r] # r /\ r \in Dialler
  BY <1>1, HandlerLink
<1> QED
  BY <1>1, <1>2, Ends2 DEF Direction, InLink, InEnd, OutLink, OutEnd

LEMMA ThreadPipe ==
  ASSUME RouteInv, NEW r \in Relay, NEW d \in Direction, thread[r][d].at \in {"recv", "send"}
  PROVE  /\ InPipe(r, d) \in Seq(Pieces(Frames \cup Blobs(chain)))
         /\ \A k \in 1 .. Len(InPipe(r, d)) : InPipe(r, d)[k].of \in Frames
<1>1. CASE d = "next_node"
  <2>1. InPipe(r, d) = link[origin[r]].up /\ origin[r] \in Dialler /\ handler[r] = "forward"
    BY <1>1, ThreadLinks DEF InPipe
  <2>2. origin[r] # Exit
    BY <2>1 DEF RouteInv, Dialled
  <2> QED
    BY <2>1, <2>2, NoLayerHere, EndTypes
<1>2. CASE d = "back_node"
  <2>1. InPipe(r, d) = link[r].down /\ r \in Dialler
    BY <1>2, ThreadLinks DEF InPipe
  <2>2. InPipe(r, d) \in Seq(Pieces(Frames))
    BY <2>1, EndTypes
  <2>3. InPipe(r, d) \in Seq(Pieces(Frames \cup Blobs(chain)))
    BY <2>2, PlainPieces
  <2> QED
    BY <2>2, <2>3, OfFrames
<1> QED
  BY <1>1, <1>2 DEF Direction

LEMMA ThreadStill ==
  ASSUME RouteInv
  PROVE  /\ link \in [Dialler -> Link(chain)]
         /\ \A x \in Dialler : Moves(chain, link[x], link[x])
         /\ \A x \in Relay : Calm(link[x], link[x])
BY EndTypes, Still, SlowTypes DEF Dialler

LEMMA ThreadLink ==
  ASSUME RouteInv, NEW r \in Relay, handler[r] = "forward", NEW e \in Dialler, NEW m,
         Moves(chain, link[e], m), e # r => Calm(link[e], m),
         link' = [link EXCEPT ![e] = m]
  PROVE  /\ link' \in [Dialler -> Link(chain)]
         /\ \A x \in Dialler : Moves(chain, link[x], link'[x])
         /\ \A x \in Relay : handler[x] = "hello" => Calm(link[x], link'[x])
<1>1. /\ link' \in [Dialler -> Link(chain)]
      /\ \A x \in Dialler : Moves(chain, link[x], link'[x])
      /\ link'[e] = m
      /\ \A x \in Dialler : x # e => link'[x] = link[x]
  BY OneLink, SlowTypes
<1> QED
  BY <1>1, ThreadStill DEF Dialler

(* A thread takes one or two pieces from its pipe.                          *)
LEMMA ThreadReads ==
  ASSUME RouteInv, NEW r \in Relay, NEW d \in Direction, thread[r][d].at \in {"recv", "send"},
         NEW n \in {1, 2}, n <= Len(InPipe(r, d)),
         link' = [link EXCEPT ![InLink(r, d)][In(InEnd(d))] =
                    SubSeq(InPipe(r, d), n + 1, Len(InPipe(r, d)))]
  PROVE  /\ link' \in [Dialler -> Link(chain)]
         /\ \A x \in Dialler : Moves(chain, link[x], link'[x])
         /\ \A x \in Relay : handler[x] = "hello" => Calm(link[x], link'[x])
<1> DEFINE e == InLink(r, d)
           q == SubSeq(InPipe(r, d), n + 1, Len(InPipe(r, d)))
<1>1. e \in Dialler /\ link[e] \in Link(chain) /\ handler[r] = "forward"
  BY ThreadLinks, EndTypes
<1>2. CASE In(InEnd(d)) = "up"
  <2>1. InPipe(r, d) = link[e].up
    BY <1>2 DEF InPipe
  <2>2. Moves(chain, link[e], [link[e] EXCEPT !.up = q]) /\ Calm(link[e], [link[e] EXCEPT !.up = q])
    BY <1>1, <2>1, DropUp
  <2>3. link' = [link EXCEPT ![e] = [link[e] EXCEPT !.up = q]]
    BY <1>1, <1>2
  <2> HIDE DEF e, q
  <2> QED
    BY ONLY RouteInv, <1>1, <2>2, <2>3, ThreadLink
<1>3. CASE In(InEnd(d)) = "down"
  <2>1. InPipe(r, d) = link[e].down
    BY <1>3 DEF InPipe
  <2>2. Moves(chain, link[e], [link[e] EXCEPT !.down = q]) /\ Calm(link[e], [link[e] EXCEPT !.down = q])
    BY <1>1, <2>1, DropDown
  <2>3. link' = [link EXCEPT ![e] = [link[e] EXCEPT !.down = q]]
    BY <1>1, <1>3
  <2> HIDE DEF e, q
  <2> QED
    BY ONLY RouteInv, <1>1, <2>2, <2>3, ThreadLink
<1> QED
  BY ZenonT(60), <1>2, <1>3, ThreadLinks

LEMMA ThreadWrites ==
  ASSUME RouteInv, NEW r \in Relay, NEW d \in Direction, thread[r][d].at \in {"recv", "send"},
         NEW p \in Seq(Pieces(Frames)),
         link' = [link EXCEPT ![OutLink(r, d)] = Write(link[OutLink(r, d)], OutEnd(d), p)]
  PROVE  /\ link' \in [Dialler -> Link(chain)]
         /\ \A x \in Dialler : Moves(chain, link[x], link'[x])
         /\ \A x \in Relay : handler[x] = "hello" => Calm(link[x], link'[x])
<1> DEFINE e == OutLink(r, d)
           m == Write(link[e], OutEnd(d), p)
<1>1. e \in Dialler /\ link[e] \in Link(chain) /\ handler[r] = "forward"
  BY ThreadLinks, EndTypes
<1>2. Moves(chain, link[e], m) /\ (e # r => Calm(link[e], m))
  BY <1>1, ThreadLinks, WriteUp, WriteDown
<1>3. link' = [link EXCEPT ![e] = m]
  OBVIOUS
<1> HIDE DEF e, m
<1> QED
  BY ONLY RouteInv, <1>1, <1>2, <1>3, ThreadLink

LEMMA ThreadCloses ==
  ASSUME RouteInv, NEW r \in Relay, handler[r] = "forward", link' = CloseBoth(r)
  PROVE  /\ link' \in [Dialler -> Link(chain)]
         /\ \A x \in Dialler : Moves(chain, link[x], link'[x])
         /\ \A x \in Relay : handler[x] = "hello" => Calm(link[x], link'[x])
<1> DEFINE o == origin[r]
           p == Close(link[o], "accepted")
           n == Close(link[r], "dialling")
<1>1. o \in Dialler /\ o # r /\ r \in Dialler /\ link[o] \in Link(chain) /\ link[r] \in Link(chain)
  BY HandlerLink
<1>2. Moves(chain, link[o], p) /\ Calm(link[o], p) /\ Moves(chain, link[r], n)
  BY <1>1, ClosesEnd
<1>3. link' = [link EXCEPT ![r] = n, ![o] = p]
  BY <1>1 DEF CloseBoth
<1> HIDE DEF o, p, n
<1>4. /\ link' \in [Dialler -> Link(chain)]
      /\ \A x \in Dialler : Moves(chain, link[x], link'[x])
      /\ link'[o] = p /\ link'[r] = n
      /\ \A x \in Dialler : x \notin {r, o} => link'[x] = link[x]
  BY <1>1, <1>2, <1>3, TwoLinks, SlowTypes, ZenonT(30)
<1> QED
  BY <1>2, <1>4, ThreadStill DEF Dialler

LEMMA ThreadMoves ==
  ASSUME RouteInv, NEW r \in Relay, NEW d \in Direction, thread[r][d].at \in {"recv", "send"},
         NEW t \in Thread, thread' = [thread EXCEPT ![r][d] = t], UNCHANGED ThreadFrame,
         \/ slow' = slow
         \/ Faults < MaxFaults /\ slow' = [slow EXCEPT !.reads = slow.reads + 1]
         \/ Faults < MaxFaults /\ slow' = [slow EXCEPT !.writes = slow.writes + 1],
         link' \in [Dialler -> Link(chain)],
         \A x \in Dialler : Moves(chain, link[x], link'[x]),
         \A x \in Relay : handler[x] = "hello" => Calm(link[x], link'[x])
  PROVE  RouteInv'
<1>1. UNCHANGED <<key, chain, handler, origin, hop, client, exit, restarts>>
  BY DEF ThreadFrame
<1>2. slow' \in [reads : Nat, writes : Nat] /\ Faults' <= MaxFaults
  BY <1>1, MoreSlow
<1>3. thread \in [Relay -> [Direction -> Thread]] /\ handler[r] = "forward"
  BY ThreadLinks DEF RouteInv, Types
<1>4. /\ thread' \in [Relay -> [Direction -> Thread]]
      /\ \A x \in Relay \ {r} : thread'[x] = thread[x]
  BY <1>3
<1>5. \A x \in Relay, y \in Direction :
        thread'[x][y].at \in {"recv", "send"} => handler'[x] = "forward"
  BY <1>1, <1>3, <1>4 DEF RouteInv, Along
<1>6. Types'
  <2>1. (link \in [Dialler -> Link(chain)])'
    BY <1>1
  <2>2. (hop \in [Relay -> {NoHop} \cup {HopOf(chain, i) : i \in 1 .. Len(chain)}])'
    BY <1>1 DEF RouteInv, Types
  <2>3. (/\ key \in [Relay -> Nat] /\ \A x \in Relay : key[x] <= restarts
         /\ chain \in Chains \cup {<<>>}
         /\ handler \in [Relay -> {"listen", "first", "layer", "connect", "hello",
                                   "forward", "over"}]
         /\ origin \in [Relay \cup {Exit} -> Dialler \cup {Exit}]
         /\ client \in End /\ exit \in End /\ client.sent + exit.sent <= MaxData
         /\ restarts \in Nat)'
    BY <1>1 DEF RouteInv, Types
  <2> QED
    BY <1>2, <1>4, <2>1, <2>2, <2>3 DEF Types
<1> QED
  BY <1>1, <1>5, <1>6, RouteKept

LEMMA ThreadTypes ==
  ASSUME RouteInv, NEW r \in Relay, NEW d \in Direction
  PROVE  /\ thread[r][d] \in Thread /\ thread[r][d].hold \in Frames
         /\ thread \in [Relay -> [Direction -> Thread]]
         /\ [NewThread EXCEPT !.at = "ended"] \in Thread
         /\ [thread[r][d] EXCEPT !.at = "recv", !.hold = NoFrame] \in Thread
         /\ [thread[r][d] EXCEPT !.at = "send", !.hold = Junk] \in Thread
         /\ [thread[r][d] EXCEPT !.astray = TRUE] \in Thread
<1>1. thread \in [Relay -> [Direction -> Thread]]
  BY DEF RouteInv, Types
<1>2. thread[r][d] \in Thread
  BY <1>1
<1> QED
  BY <1>1, <1>2, SomeFrames DEF Thread, NewThread

LEMMA CopyRecvStep ==
  ASSUME RouteInv, NEW r \in Relay, NEW d \in Direction, CopyRecv(r, d)
  PROVE  RouteInv'
<1> DEFINE q == InPipe(r, d)
           t == [at |-> "send", hold |-> FrameIn(q), astray |-> ~InStep(q)]
<1>1. thread[r][d].at \in {"recv", "send"} /\ HasFrame(q)
  BY DEF CopyRecv
<1>2. q \in Seq(Pieces(Frames \cup Blobs(chain))) /\ \A k \in 1 .. Len(q) : q[k].of \in Frames
  BY <1>1, ThreadPipe
<1>3. 2 <= Len(q) /\ Rest(q) = SubSeq(q, 2 + 1, Len(q)) /\ Len(q) \in Nat
  BY <1>1, <1>2, RestIs
<1>4. FrameIn(q) \in Frames
  BY <1>1, <1>2, <1>3, FrameInType, SomeFrames
<1>5. t \in Thread
  BY <1>4 DEF Thread
<1>6. thread' = [thread EXCEPT ![r][d] = t]
  BY DEF CopyRecv
<1>7. link' = [link EXCEPT ![InLink(r, d)][In(InEnd(d))] = SubSeq(InPipe(r, d), 2 + 1, Len(InPipe(r, d)))]
  BY <1>3 DEF CopyRecv, InPipe
<1>8. /\ link' \in [Dialler -> Link(chain)]
      /\ \A x \in Dialler : Moves(chain, link[x], link'[x])
      /\ \A x \in Relay : handler[x] = "hello" => Calm(link[x], link'[x])
  BY <1>1, <1>3, <1>7, ThreadReads
<1>9. slow' = slow /\ UNCHANGED ThreadFrame
  BY DEF CopyRecv
<1> HIDE DEF t, q
<1> QED
  BY <1>1, <1>5, <1>6, <1>8, <1>9, ThreadMoves

(* The two ways a thread takes a piece without its frame.                   *)
LEMMA TakesOneStep ==
  ASSUME RouteInv, NEW r \in Relay, NEW d \in Direction, RecvTimesOut(r, d) \/ CopyAstray(r, d)
  PROVE  RouteInv'
<1> DEFINE q == InPipe(r, d)
<1>1. thread[r][d].at \in {"recv", "send"} /\ q # <<>>
  BY DEF RecvTimesOut, CopyAstray
<1>2. q \in Seq(Pieces(Frames \cup Blobs(chain)))
  BY <1>1, ThreadPipe
<1>3. 1 <= Len(q) /\ Tail(q) = SubSeq(q, 1 + 1, Len(q))
  BY <1>1, <1>2, TailIs
<1>4. link' = [link EXCEPT ![InLink(r, d)][In(InEnd(d))] = SubSeq(InPipe(r, d), 1 + 1, Len(InPipe(r, d)))]
  BY <1>3 DEF RecvTimesOut, CopyAstray, InPipe
<1>5. /\ link' \in [Dialler -> Link(chain)]
      /\ \A x \in Dialler : Moves(chain, link[x], link'[x])
      /\ \A x \in Relay : handler[x] = "hello" => Calm(link[x], link'[x])
  BY <1>1, <1>3, <1>4, ThreadReads
<1>6. PICK t \in Thread : thread' = [thread EXCEPT ![r][d] = t]
  <2>1. CASE thread' = [thread EXCEPT ![r][d].astray = TRUE]
    <3>1. thread' = [thread EXCEPT ![r][d] = [thread[r][d] EXCEPT !.astray = TRUE]]
      BY <2>1
    <3> QED
      BY <3>1, ThreadTypes
  <2>2. CASE thread' = [thread EXCEPT ![r][d].at = "send", ![r][d].hold = Junk]
    <3>1. thread' = [thread EXCEPT ![r][d] = [thread[r][d] EXCEPT !.at = "send", !.hold = Junk]]
      BY <2>2, ThreadTypes
    <3> QED
      BY <3>1, ThreadTypes
  <2>3. CASE thread' = thread
    <3>1. thread' = [thread EXCEPT ![r][d] = thread[r][d]]
      BY <2>3, ThreadTypes
    <3> QED
      BY <3>1, ThreadTypes
  <2> QED
    BY <2>1, <2>2, <2>3 DEF RecvTimesOut, CopyAstray
<1>7. \/ slow' = slow
      \/ Faults < MaxFaults /\ slow' = [slow EXCEPT !.reads = slow.reads + 1]
  BY DEF RecvTimesOut, CopyAstray
<1>8. UNCHANGED ThreadFrame
  BY DEF RecvTimesOut, CopyAstray
<1> QED
  BY <1>1, <1>5, <1>6, <1>7, <1>8, ThreadMoves

(* The four ways a thread leaves its loop.                                  *)
LEMMA LeavesStep ==
  ASSUME RouteInv, NEW r \in Relay, NEW d \in Direction,
         CopyEnds(r, d) \/ RecvRaises(r, d) \/ SendRaises(r, d)
  PROVE  RouteInv'
<1>1. thread[r][d].at \in {"recv", "send"}
  BY DEF CopyEnds, RecvRaises, SendRaises
<1>2. /\ thread' = [thread EXCEPT ![r][d] = [NewThread EXCEPT !.at = "ended"]]
      /\ link' = CloseBoth(r) \/ link' = link
      /\ slow' = slow /\ UNCHANGED ThreadFrame
  BY DEF CopyEnds, RecvRaises, SendRaises, Dies
<1>3. handler[r] = "forward"
  BY <1>1, ThreadLinks
<1>4. /\ link' \in [Dialler -> Link(chain)]
      /\ \A x \in Dialler : Moves(chain, link[x], link'[x])
      /\ \A x \in Relay : handler[x] = "hello" => Calm(link[x], link'[x])
  <2>1. CASE link' = CloseBoth(r)
    BY <1>3, <2>1, ThreadCloses
  <2>2. CASE link' = link
    BY <2>2, ThreadStill
  <2> QED
    BY <1>2, <2>1, <2>2
<1> QED
  BY <1>1, <1>2, <1>4, ThreadMoves, ThreadTypes

LEMMA CopySendStep ==
  ASSUME RouteInv, NEW r \in Relay, NEW d \in Direction, CopySend(r, d) \/ SendTimesOut(r, d)
  PROVE  RouteInv'
<1> DEFINE w == Whole(thread[r][d].hold)
           e == OutLink(r, d)
<1>1. thread[r][d].at \in {"recv", "send"}
  BY DEF CopySend, SendTimesOut
<1>2. w \in Seq(Pieces(Frames)) /\ Len(w) = 2
  BY ThreadTypes, WholePieces
<1>3. PICK p \in Seq(Pieces(Frames)) : link' = [link EXCEPT ![e] = Write(link[e], OutEnd(d), p)]
  <2>1. CASE CopySend(r, d)
    BY <1>2, <2>1 DEF CopySend
  <2>2. CASE SendTimesOut(r, d)
    <3>1. PICK k \in 0 .. 1 : link' = [link EXCEPT ![e] = Write(link[e], OutEnd(d), SubSeq(w, 1, k))]
      BY <2>2 DEF SendTimesOut
    <3>2. SubSeq(w, 1, k) \in Seq(Pieces(Frames))
      <4>1. k \in 0 .. Len(w)
        BY <1>2
      <4> HIDE DEF w
      <4> QED
        BY ONLY <1>2, <4>1, FirstOf
    <3> QED
      BY <3>1, <3>2
  <2> QED
    BY <2>1, <2>2
<1>4. /\ link' \in [Dialler -> Link(chain)]
      /\ \A x \in Dialler : Moves(chain, link[x], link'[x])
      /\ \A x \in Relay : handler[x] = "hello" => Calm(link[x], link'[x])
  BY <1>1, <1>3, ThreadWrites
<1>5. thread' = [thread EXCEPT ![r][d] = [thread[r][d] EXCEPT !.at = "recv", !.hold = NoFrame]]
  <2>1. thread' = [thread EXCEPT ![r][d].at = "recv", ![r][d].hold = NoFrame]
    BY DEF CopySend, SendTimesOut
  <2> QED
    BY <2>1, ThreadTypes
<1>6. \/ slow' = slow
      \/ Faults < MaxFaults /\ slow' = [slow EXCEPT !.writes = slow.writes + 1]
  BY DEF CopySend, SendTimesOut
<1>7. UNCHANGED ThreadFrame
  BY DEF CopySend, SendTimesOut
<1> QED
  BY <1>1, <1>4, <1>5, <1>6, <1>7, ThreadMoves, ThreadTypes

-------------------------------------------------------------------------------
(* The client dials.                                                        *)

LEMMA OneByOne ==
  ASSUME NEW x, NEW y
  PROVE  Append(Append(<<>>, x), y) = <<x, y>>
<1> DEFINE S == {x, y}
           s == Append(<<>>, x)
           q == Append(s, y)
<1>1. <<>> \in Seq(S) /\ Len(<<>>) = 0 /\ x \in S /\ y \in S
  OBVIOUS
<1> HIDE DEF S
<1>2. s \in Seq(S) /\ Len(s) = 1 /\ s[1] = x
  BY <1>1
<1> HIDE DEF s
<1>3. /\ q \in Seq(S) /\ Len(q) = 2 /\ q[2] = y /\ q[1] = s[1]
  BY SMTT(30), <1>1, <1>2
<1> HIDE DEF q
<1>4. <<x, y>> \in Seq(S) /\ Len(<<x, y>>) = 2 /\ <<x, y>>[1] = x /\ <<x, y>>[2] = y
  BY <1>1
<1>5. \A i \in 1 .. 2 : i = 1 \/ i = 2
  OBVIOUS
<1>6. q = <<x, y>>
  BY <1>2, <1>3, <1>4, <1>5, SeqEqual
<1> QED
  BY <1>6 DEF q, s

LEMMA DialledLink ==
  ASSUME NEW F, NEW s \in Seq(F), Len(s) \in {1, 2}
  PROVE  /\ Len(s) = 1 => NewLink(s) = [up |-> Whole(s[1]), down |-> <<>>,
                                        dialling |-> "open", accepted |-> "open"]
         /\ Len(s) = 2 => NewLink(s) = [up |-> Whole(s[1]) \o Whole(s[2]), down |-> <<>>,
                                        dialling |-> "open", accepted |-> "open"]
<1> DEFINE w == [i \in 1 .. Len(s) |-> Whole(s[i])]
           P == Pieces(F)
<1>1. \A i \in 1 .. Len(s) : s[i] \in F /\ Whole(s[i]) \in Seq(P)
  BY WholePieces
<1> HIDE DEF P
<1>2. <<>> \in Seq(Seq(P)) /\ <<>> \in Seq(P) /\ FlattenSeq(<<>>) = <<>>
  BY FlattenEmpty
<1>3. CASE Len(s) = 1
  <2>1. PICK x \in Seq(P) : x = Whole(s[1])
    BY <1>1, <1>3
  <2>2. w = Append(<<>>, x)
    BY <1>3, <2>1
  <2>3. FlattenSeq(Append(<<>>, x)) = FlattenSeq(<<>>) \o x
    BY <1>2, FlattenAppend
  <2>4. <<>> \o x = x
    OBVIOUS
  <2> HIDE DEF w
  <2>5. FlattenSeq(w) = Whole(s[1])
    BY <1>2, <2>1, <2>2, <2>3, <2>4
  <2> QED
    BY <1>3, <2>5 DEF NewLink, w
<1>4. CASE Len(s) = 2
  <2>1. PICK x \in Seq(P), y \in Seq(P) : x = Whole(s[1]) /\ y = Whole(s[2])
    BY <1>1, <1>4
  <2>2. w = Append(Append(<<>>, x), y)
    <3>1. w = <<Whole(s[1]), Whole(s[2])>>
      BY <1>4
    <3> HIDE DEF w
    <3>2. Append(Append(<<>>, x), y) = <<x, y>>
      BY OneByOne
    <3> QED
      BY <2>1, <3>1, <3>2
  <2>3. FlattenSeq(Append(<<>>, x)) = FlattenSeq(<<>>) \o x
    BY <1>2, FlattenAppend
  <2>4. <<>> \o x = x /\ Append(<<>>, x) \in Seq(Seq(P))
    OBVIOUS
  <2>5. FlattenSeq(Append(Append(<<>>, x), y)) = FlattenSeq(Append(<<>>, x)) \o y
    BY <2>4, FlattenAppend
  <2> HIDE DEF w
  <2>6. FlattenSeq(w) = Whole(s[1]) \o Whole(s[2])
    BY <1>2, <2>1, <2>2, <2>3, <2>4, <2>5
  <2>7. NewLink(s) = [up |-> FlattenSeq(w), down |-> <<>>,
                      dialling |-> "open", accepted |-> "open"]
    BY DEF NewLink, w
  <2> QED
    BY ONLY <1>4, <2>6, <2>7
<1> QED
  BY <1>3, <1>4

(* Before the client has dialled nothing has happened.                      *)
LEMMA BeforeDial ==
  ASSUME RouteInv, link[Client].dialling = "none"
  PROVE  /\ chain = <<>> /\ \A r \in Relay : handler[r] = "listen" /\ hop[r] = NoHop
         /\ \A n \in Relay \cup {Exit} : origin[n] = Exit
         /\ \A r \in Relay, d \in Direction : thread[r][d].at \notin {"recv", "send"}
         /\ \A c : \A d \in Dialler :
              /\ link[d] \in Link(c)
              /\ \A k \in 1 .. Len(link[d].up) : link[d].up[k].of.tag # "blob"
<1>1. chain = <<>> /\ \A r \in Relay : handler[r] = "listen"
  BY DEF RouteInv, Dialled
<1>2. \A r \in Relay : hop[r] = NoHop
  BY <1>1 DEF RouteInv, Along
<1>3. \A n \in Relay \cup {Exit} : origin[n] = Exit
  BY <1>1 DEF RouteInv, Dialled
<1>4. \A r \in Relay, d \in Direction : thread[r][d].at \notin {"recv", "send"}
  BY <1>1 DEF RouteInv, Along
<1>5. ASSUME NEW d \in Dialler, NEW c
      PROVE  /\ link[d] \in Link(c)
             /\ \A k \in 1 .. Len(link[d].up) : link[d].up[k].of.tag # "blob"
  <2>1. Blobs(chain) = {}
    <3>1. Blobs(chain) = {Blob(LayersOf(<<>>)[i]) : i \in 1 .. 0}
      BY <1>1 DEF Blobs
    <3> QED
      BY <3>1
  <2>2. link[d] \in Link(chain) /\ link[d].up \in Seq(Pieces(Frames \cup {}))
    BY <2>1, EndTypes
  <2>3. Frames \cup {} = Frames
    OBVIOUS
  <2>4. link[d].up \in Seq(Pieces(Frames))
    BY <2>2, <2>3
  <2>5. link[d].up \in Seq(Pieces(Frames \cup Blobs(c)))
    BY <2>4, PlainPieces
  <2>6. link[d] \in Link(c)
    BY <2>2, <2>5 DEF Link
  <2>7. \A k \in 1 .. Len(link[d].up) : link[d].up[k].of \in Frames
    BY <2>4, OfFrames
  <2> QED
    BY <2>6, <2>7, FrameTags
<1> QED
  BY <1>1, <1>2, <1>3, <1>4, <1>5

LEMMA FirstDial ==
  ASSUME RouteInv, link[Client].dialling = "none",
         NEW c \in Chains \cup {<<>>}, chain' = c, NEW r \in Relay,
         NEW l \in Link(c), l.dialling # "none", link' = [link EXCEPT ![Client] = l],
         handler' = [handler EXCEPT ![r] = "first"],
         origin' = [origin EXCEPT ![r] = Client],
         NEW k \in Kinds, client' = [client EXCEPT !.asked = k],
         UNCHANGED <<key, hop, thread, exit, slow, restarts>>,
         c # <<>> => r = c[1],
         \A j \in 1 .. Len(l.up) : l.up[j].of.tag = "blob" =>
           j <= 4 /\ c # <<>> /\ l.up[j].of = Blob(LayersOf(c)[1])
  PROVE  RouteInv'
<1>1. Client \in Dialler /\ Client \notin Relay /\ r # Exit /\ Client # Exit
  BY RelayChainAssumption DEF Dialler
<1>2. /\ handler'[r] = "first" /\ \A x \in Relay \ {r} : handler'[x] = "listen"
      /\ handler' \in [Relay -> {"listen", "first", "layer", "connect", "hello",
                                 "forward", "over"}]
  BY BeforeDial DEF RouteInv, Types
<1>3. /\ origin'[r] = Client /\ \A x \in (Relay \cup {Exit}) \ {r} : origin'[x] = Exit
      /\ origin' \in [Relay \cup {Exit} -> Dialler \cup {Exit}]
  BY <1>1, BeforeDial DEF RouteInv, Types
<1>4. link'[Client] = l /\ (\A x \in Dialler : x # Client => link'[x] = link[x])
      /\ link' \in [Dialler -> Link(c)]
  <2>1. link \in [Dialler -> Link(c)]
    <3>1. \A x \in Dialler : link[x] \in Link(c)
      BY BeforeDial
    <3> QED
      BY <3>1, SlowTypes
  <2> QED
    BY <1>1, <2>1
<1>5. \A x \in Relay : hop'[x] = NoHop
  BY BeforeDial
<1>6. Types'
  <2>1. (link \in [Dialler -> Link(chain)])'
    BY <1>4
  <2>2. (hop \in [Relay -> {NoHop} \cup {HopOf(chain, i) : i \in 1 .. Len(chain)}])'
    <3>1. hop' = [x \in Relay |-> hop'[x]]
      BY DEF RouteInv, Types
    <3> QED
      BY <1>5, <3>1
  <2>3. client' \in End /\ client'.sent = client.sent
    BY EndTypes DEF End
  <2>4. (/\ key \in [Relay -> Nat] /\ \A x \in Relay : key[x] <= restarts
         /\ chain \in Chains \cup {<<>>}
         /\ thread \in [Relay -> [Direction -> Thread]]
         /\ exit \in End /\ client.sent + exit.sent <= MaxData
         /\ slow \in [reads : Nat, writes : Nat] /\ restarts \in Nat /\ Faults <= MaxFaults)'
    BY <2>3 DEF RouteInv, Types, Faults
  <2> QED
    BY <1>2, <1>3, <2>1, <2>2, <2>3, <2>4 DEF Types
<1>7. Dialled'
  BY <1>1, <1>2, <1>3, <1>4 DEF Dialled
<1>8. Along'
  <2>1. c # <<>> => \A n \in Relay \cup {Exit} : origin'[n] # Exit =>
          \E i \in 1 .. Len(c) + 1 : n = Node(c, i) /\ origin'[n] = Node(c, i - 1)
    <3> SUFFICES ASSUME c # <<>>, NEW n \in Relay \cup {Exit}, origin'[n] # Exit
                 PROVE  \E i \in 1 .. Len(c) + 1 : n = Node(c, i) /\ origin'[n] = Node(c, i - 1)
      OBVIOUS
    <3>1. n = r /\ c \in Chains /\ r = c[1]
      BY <1>3
    <3>2. 1 \in 1 .. Len(c) + 1 /\ Node(c, 1) = c[1] /\ Node(c, 1 - 1) = Client
      BY SMTT(30), <3>1, NodesDiffer
    <3> QED
      BY <1>3, <3>1, <3>2
  <2>2. \A x \in Relay : handler'[x] \notin {"connect", "hello", "forward"}
    BY <1>2
  <2>3. \A x \in Relay, d \in Direction : thread'[x][d].at \notin {"recv", "send"}
    BY BeforeDial
  <2> QED
    BY <2>1, <1>5, <2>2, <2>3 DEF Along, Node, HopOf, LayersOf
<1>9. LayersWait'
  <2>1. ASSUME NEW x \in Dialler, x # Client PROVE LayersWaitOn(x)'
    BY <1>4, <2>1, BeforeDial DEF LayersWaitOn
  <2>2. ASSUME NEW x \in Dialler, x = Client PROVE LayersWaitOn(x)'
    <3> SUFFICES ASSUME NEW j \in 1 .. Len(l.up), l.up[j].of.tag = "blob"
                 PROVE  \E i \in 1 .. Len(c) :
                          /\ Client = Node(c, i - 1)
                          /\ l.up[j].of = Blob(LayersOf(c)[i])
                          /\ handler'[c[i]] \in {"first", "layer", "over"}
                          /\ handler'[c[i]] = "first" => j <= 4
                          /\ handler'[c[i]] = "layer" => j <= 2
      BY <2>2, <1>4 DEF LayersWaitOn, LayerWaits, LayersOf, Node
    <3>1. c \in Chains /\ j <= 4 /\ l.up[j].of = Blob(LayersOf(c)[1]) /\ r = c[1]
      OBVIOUS
    <3>2. 1 \in 1 .. Len(c) /\ Node(c, 1 - 1) = Client
      BY <3>1, NodesDiffer
    <3> QED
      BY <1>2, <3>1, <3>2
  <2> QED
    BY <2>1, <2>2 DEF LayersWait, Dialler
<1>10. HelloFresh'
  <2>1. \A x \in Relay : handler'[x] # "hello"
    BY <1>2
  <2> QED
    BY <2>1 DEF HelloFresh
<1> QED
  BY <1>6, <1>7, <1>8, <1>9, <1>10 DEF RouteInv

LEMMA DialStep ==
  ASSUME RouteInv, NEW c \in Chains, NEW k \in Kinds, Dial(c, k)
  PROVE  RouteInv'
<1> DEFINE F == Frames \cup Blobs(c)
           b == Blob(LayersOf(c)[1])
           s == <<Kind(k), b>>
           l == NewLink(s)
           u == Whole(Kind(k)) \o Whole(b)
<1>1. 1 \in 1 .. Len(c) /\ c[1] \in Relay /\ c # <<>>
  BY NodesDiffer
<1>2. Kind(k) \in Frames /\ Kind(k) \in F /\ b \in F
  BY <1>1, SomeFrames DEF Blobs
<1>3. b.tag = "blob" /\ Kind(k).tag = "kind"
  BY DEF Blob, Kind
<1> HIDE DEF F, b
<1>4. s \in Seq(F) /\ Len(s) = 2 /\ s[1] = Kind(k) /\ s[2] = b
  BY <1>2
<1> HIDE DEF s
<1>5. l = [up |-> u, down |-> <<>>, dialling |-> "open", accepted |-> "open"]
  BY <1>4, DialledLink
<1>6. /\ u \in Seq(Pieces(F)) /\ Len(u) = 4
      /\ u[1].of = Kind(k) /\ u[2].of = Kind(k) /\ u[3].of = b /\ u[4].of = b
  <2>1. /\ Whole(Kind(k)) \in Seq(Pieces(F)) /\ Len(Whole(Kind(k))) = 2
        /\ Whole(Kind(k))[1].of = Kind(k) /\ Whole(Kind(k))[2].of = Kind(k)
        /\ Whole(b) \in Seq(Pieces(F)) /\ Len(Whole(b)) = 2
        /\ Whole(b)[1].of = b /\ Whole(b)[2].of = b
    BY <1>2, WholePieces
  <2>2. PICK x \in Seq(Pieces(F)), y \in Seq(Pieces(F)) : x = Whole(Kind(k)) /\ y = Whole(b)
    BY <2>1
  <2>3. /\ x \o y \in Seq(Pieces(F)) /\ Len(x \o y) = 4
        /\ (x \o y)[1] = x[1] /\ (x \o y)[2] = x[2]
        /\ (x \o y)[3] = y[1] /\ (x \o y)[4] = y[2]
    BY ONLY <2>1, <2>2, TwoAndTwo
  <2> QED
    BY <2>1, <2>2, <2>3
<1> HIDE DEF u, l
<1>7. l \in Link(c) /\ l.up = u /\ l.dialling # "none"
  <2>1. <<>> \in Seq(Pieces(Frames))
    OBVIOUS
  <2> QED
    BY <1>5, <1>6, <2>1 DEF Link, State, F
<1>8. \A j \in 1 .. Len(l.up) : j <= 4 /\ (l.up[j].of.tag = "blob" => l.up[j].of = b)
  <2>1. \A j \in 1 .. 4 : j <= 4 /\ (j = 1 \/ j = 2 \/ j = 3 \/ j = 4)
    OBVIOUS
  <2> QED
    BY <2>1, <1>3, <1>6, <1>7
<1>9. /\ link[Client].dialling = "none" /\ chain' = c
      /\ handler' = [handler EXCEPT ![c[1]] = "first"]
      /\ origin' = [origin EXCEPT ![c[1]] = Client]
      /\ client' = [client EXCEPT !.asked = k]
      /\ UNCHANGED <<key, hop, thread, exit, slow, restarts>>
  BY DEF Dial
<1>10. link' = [link EXCEPT ![Client] = l]
  BY OnionIs DEF Dial, l, s, b
<1> QED
  BY <1>1, <1>7, <1>8, <1>9, <1>10, FirstDial DEF b

LEMMA KnockStep ==
  ASSUME RouteInv, NEW r \in Relay, NEW k \in Kinds, Knock(r, k)
  PROVE  RouteInv'
<1> DEFINE s == <<Kind(k)>>
           l == NewLink(s)
<1>1. Kind(k) \in Frames
  BY SomeFrames
<1>2. s \in Seq(Frames) /\ Len(s) = 1 /\ s[1] = Kind(k)
  BY <1>1
<1> HIDE DEF s
<1>3. l = [up |-> Whole(Kind(k)), down |-> <<>>, dialling |-> "open", accepted |-> "open"]
  BY <1>2, DialledLink
<1>4. Whole(Kind(k)) \in Seq(Pieces(Frames))
  BY <1>1, WholePieces
<1>5. Whole(Kind(k)) \in Seq(Pieces(Frames \cup Blobs(<<>>)))
  BY <1>4, PlainPieces
<1> HIDE DEF l
<1>6. l \in Link(<<>>) /\ l.up = Whole(Kind(k)) /\ l.dialling # "none"
  <2>1. <<>> \in Seq(Pieces(Frames))
    OBVIOUS
  <2> QED
    BY <1>3, <1>5, <2>1 DEF Link, State
<1>7. \A j \in 1 .. Len(l.up) : l.up[j].of.tag # "blob"
  <2>1. \A j \in 1 .. Len(Whole(Kind(k))) : Whole(Kind(k))[j].of \in Frames
    BY <1>4, OfFrames
  <2> QED
    BY <1>6, <2>1, FrameTags
<1>8. /\ link[Client].dialling = "none" /\ link' = [link EXCEPT ![Client] = l]
      /\ handler' = [handler EXCEPT ![r] = "first"]
      /\ origin' = [origin EXCEPT ![r] = Client]
      /\ client' = [client EXCEPT !.asked = k]
      /\ UNCHANGED <<key, hop, thread, exit, slow, restarts>>
  BY DEF Knock, l, s
<1>9. chain' = <<>>
  BY <1>8, BeforeDial DEF Knock
<1> QED
  BY <1>6, <1>7, <1>8, <1>9, FirstDial

-------------------------------------------------------------------------------
(* Every step.                                                              *)

LEMMA RouteInit ==
  ASSUME Init
  PROVE  RouteInv
<1> DEFINE l == [up |-> <<>>, down |-> <<>>, dialling |-> "none", accepted |-> "none"]
<1>1. link = [d \in Dialler |-> l]
  <2>1. [NewLink(<<>>) EXCEPT !.dialling = "none", !.accepted = "none"] = l
    <3> DEFINE Q == Seq(Pieces(Frames))
               R == [up : Q, down : Q, dialling : State, accepted : State]
    <3>1. NewLink(<<>>) = [up |-> <<>>, down |-> <<>>, dialling |-> "open", accepted |-> "open"]
      BY FreshLink
    <3>2. <<>> \in Q /\ "none" \in State /\ "open" \in State
      BY DEF State
    <3> HIDE DEF Q
    <3>3. ASSUME NEW s, s \in State
          PROVE  [up |-> <<>>, down |-> <<>>, dialling |-> s, accepted |-> s] \in R
      BY <3>2, <3>3
    <3>4. NewLink(<<>>) \in R /\ l \in R
      BY <3>1, <3>2, <3>3
    <3>5. NewLink(<<>>).up = <<>> /\ NewLink(<<>>).down = <<>>
      BY <3>1
    <3>6. PICK x \in R : x = NewLink(<<>>)
      BY <3>4
    <3>7. /\ [x EXCEPT !.dialling = "none", !.accepted = "none"] \in R
          /\ [x EXCEPT !.dialling = "none", !.accepted = "none"].up = <<>>
          /\ [x EXCEPT !.dialling = "none", !.accepted = "none"].down = <<>>
          /\ [x EXCEPT !.dialling = "none", !.accepted = "none"].accepted = "none"
          /\ [x EXCEPT !.dialling = "none", !.accepted = "none"].dialling = "none"
      BY <3>2, <3>5, <3>6
    <3>8. PICK y \in R : y = [x EXCEPT !.dialling = "none", !.accepted = "none"]
      BY <3>7
    <3>9. l.up = <<>> /\ l.down = <<>> /\ l.dialling = "none" /\ l.accepted = "none"
      OBVIOUS
    <3> HIDE DEF l
    <3>10. y = l
      BY ONLY <3>4, <3>7, <3>8, <3>9
    <3> QED
      BY <3>6, <3>8, <3>10
  <2> QED
    BY <2>1 DEF Init
<1>2. l \in Link(<<>>)
  <2>1. <<>> \in Seq(Pieces(Frames \cup Blobs(<<>>))) /\ <<>> \in Seq(Pieces(Frames))
    OBVIOUS
  <2>2. ASSUME NEW u \in Seq(Pieces(Frames \cup Blobs(<<>>))), NEW d \in Seq(Pieces(Frames))
        PROVE  [up |-> u, down |-> d, dialling |-> "none", accepted |-> "none"] \in Link(<<>>)
    BY DEF Link, State
  <2> QED
    BY <2>1, <2>2
<1>3. chain = <<>> /\ Client \in Dialler /\ Client \notin Relay /\ Client # Exit
  BY RelayChainAssumption DEF Init, Dialler
<1>4. Types
  <2>1. link \in [Dialler -> Link(chain)]
    BY <1>1, <1>2, <1>3
  <2>2. client \in End /\ exit \in End /\ client.sent + exit.sent <= MaxData
    <3>1. <<>> \in Seq(Frames)
      OBVIOUS
    <3>2. ASSUME NEW g \in Seq(Frames)
          PROVE  [asked |-> "none", sent |-> 0, got |-> g, astray |-> FALSE, ended |-> FALSE] \in End
      BY DEF End
    <3>3. client = [asked |-> "none", sent |-> 0, got |-> <<>>, astray |-> FALSE, ended |-> FALSE]
          /\ exit = client
      BY DEF Init
    <3>4. client.sent = 0 /\ exit.sent = 0
      BY <3>3
    <3>5. client \in End
      BY <3>1, <3>2, <3>3
    <3> QED
      BY <3>3, <3>4, <3>5, RelayChainAssumption
  <2>3. thread \in [Relay -> [Direction -> Thread]]
    BY SomeFrames DEF Init, NoThread, NewThread, Thread
  <2>4. /\ key \in [Relay -> Nat] /\ \A r \in Relay : key[r] <= restarts
        /\ slow \in [reads : Nat, writes : Nat] /\ restarts \in Nat /\ Faults <= MaxFaults
    BY RelayChainAssumption DEF Init, Faults
  <2>5. /\ handler \in [Relay -> {"listen", "first", "layer", "connect", "hello",
                                  "forward", "over"}]
        /\ origin \in [Relay \cup {Exit} -> Dialler \cup {Exit}]
        /\ hop \in [Relay -> {NoHop} \cup {HopOf(chain, i) : i \in 1 .. Len(chain)}]
    BY DEF Init
  <2> QED
    BY <1>3, <2>1, <2>2, <2>3, <2>4, <2>5 DEF Types
<1>5. /\ \A r \in Relay : handler[r] = "listen" /\ hop[r] = NoHop
      /\ \A n \in Relay \cup {Exit} : origin[n] = Exit
      /\ \A r \in Relay, d \in Direction : thread[r][d].at = "off"
  BY DEF Init, NoThread, NewThread
<1>6. Dialled
  BY <1>3, <1>5 DEF Dialled
<1>7. Along
  BY <1>3, <1>5 DEF Along
<1>8. LayersWait
  <2>1. \A d \in Dialler : link[d].up = <<>>
    BY <1>1
  <2>2. \A k \in 1 .. Len(<<>>) : FALSE
    OBVIOUS
  <2> QED
    BY <2>1, <2>2 DEF LayersWait, LayersWaitOn
<1>9. HelloFresh
  BY <1>5 DEF HelloFresh
<1> QED
  BY <1>4, <1>6, <1>7, <1>8, <1>9 DEF RouteInv

LEMMA RouteStutters ==
  ASSUME RouteInv, UNCHANGED vars
  PROVE  RouteInv'
BY DEF vars, RouteInv, Types, Dialled, Along, LayersWait, LayersWaitOn, LayerWaits,
       HelloFresh, Faults, LayersOf, HopOf, Node, Blobs, Link

LEMMA RelayStep ==
  ASSUME RouteInv, NEW r \in Relay, RelayNext(r)
  PROVE  RouteInv'
<1>1. CASE HandlerStep(r)
  BY <1>1, HandlerGivesUpStep, HandleFirstStep, HandleLayerStep, ConnectStep,
     StartForwardingStep DEF HandlerStep
<1>2. CASE HelloFails(r)
  BY <1>2, HelloFailsStep
<1>3. CASE Restart(r)
  BY <1>3, RestartStep
<1>4. CASE \E d \in Direction : ThreadStep(r, d) \/ RecvTimesOut(r, d) \/ SendTimesOut(r, d)
  BY <1>4, CopyRecvStep, TakesOneStep, LeavesStep, CopySendStep DEF ThreadStep
<1> QED
  BY <1>1, <1>2, <1>3, <1>4 DEF RelayNext

LEMMA RouteStep ==
  ASSUME RouteInv, [Next]_vars
  PROVE  RouteInv'
<1>1. CASE ClientNext
  BY <1>1, DialStep, KnockStep, ClientSendStep, ClientRecvStep, ClientSwallowsStep,
     ClientEndsStep DEF ClientNext
<1>2. CASE ExitNext
  BY <1>2, ExitSendStep, ExitRecvStep, ExitSwallowsStep, ExitEndsStep DEF ExitNext
<1>3. CASE \E r \in Relay : RelayNext(r)
  BY <1>3, RelayStep
<1>4. CASE \E d \in Dialler, e \in {"dialling", "accepted"} : Release(d, e)
  BY <1>4, ReleaseStep
<1>5. CASE UNCHANGED vars
  BY <1>5, RouteStutters
<1> QED
  BY <1>1, <1>2, <1>3, <1>4, <1>5 DEF Next

-------------------------------------------------------------------------------
(* What follows from it.                                                    *)

LEMMA PipesTyped ==
  ASSUME RouteInv, NEW d \in Dialler
  PROVE  PipeOK(link[d].up) /\ PipeOK(link[d].down)
<1>1. ASSUME NEW f \in Frames \cup Blobs(chain) PROVE IsFrame(f)
  <2>1. CASE f \in Frames
    BY <2>1, FrameTags DEF IsFrame
  <2>2. CASE f \in Blobs(chain)
    <3>1. PICK i \in 1 .. Len(chain) : f = Blob(LayersOf(chain)[i])
      BY <2>2 DEF Blobs
    <3>2. chain # <<>>
      BY <3>1
    <3>3. chain \in Chains
      BY <3>2, ChainIs
    <3>4. LayersOf(chain)[i].sealedFor = <<chain[i], 0>> /\ chain[i] \in Relay
      BY <3>3, LayersRoute, NodesDiffer
    <3> QED
      BY <3>1, <3>4 DEF IsFrame, Blob
  <2> QED
    BY <2>1, <2>2
<1>2. ASSUME NEW F, NEW q \in Seq(Pieces(F)), F \subseteq Frames \cup Blobs(chain)
      PROVE  PipeOK(q)
  <2>1. \A k \in DOMAIN q : q[k] \in Pieces(F)
    OBVIOUS
  <2>2. \A k \in DOMAIN q : q[k].of \in F /\ q[k].part \in {"head", "body", "fin", "rst"}
    BY <2>1 DEF Pieces, Part
  <2> QED
    BY <1>1, <1>2, <2>2 DEF PipeOK
<1> QED
  BY <1>2, EndTypes

LEMMA RouteTyped ==
  ASSUME RouteInv
  PROVE  TypeOK
<1>1. key \in [Relay -> 0 .. MaxFaults]
  BY SlowTypes, RelayChainAssumption DEF Faults
<1>2. \A r \in Relay : hop[r] = NoHop \/ hop[r].addr \in Relay \cup {Exit}
  BY HopNode
<1>3. \A r \in Relay, d \in Direction :
        /\ thread[r][d].at \in {"off", "recv", "send", "ended"}
        /\ thread[r][d].hold \in Frames /\ thread[r][d].astray \in BOOLEAN
  BY ZenonT(60), ThreadTypes DEF Thread
<1>4. \A d \in Dialler : /\ PipeOK(link[d].up) /\ PipeOK(link[d].down)
                         /\ link[d].dialling \in State /\ link[d].accepted \in State
  BY PipesTyped, EndTypes DEF Link
<1>5. EndOK(client) /\ EndOK(exit) /\ client.sent + exit.sent <= MaxData
  <2>1. ASSUME NEW p \in End PROVE EndOK(p)
    <3>1. \A i \in DOMAIN p.got : p.got[i] \in Frames
      BY DEF End
    <3> QED
      BY <3>1 DEF EndOK, End
  <2> QED
    BY <2>1, EndTypes
<1>6. slow.reads \in Nat /\ slow.writes \in Nat /\ restarts \in Nat /\ Faults <= MaxFaults
  BY SlowTypes
<1>7. /\ chain \in Chains \cup {<<>>}
      /\ handler \in [Relay -> {"listen", "first", "layer", "connect", "hello",
                                "forward", "over"}]
      /\ origin \in [Relay \cup {Exit} -> Dialler \cup {Exit}]
  BY DEF RouteInv, Types
<1> QED
  BY <1>1, <1>2, <1>3, <1>4, <1>5, <1>6, <1>7 DEF TypeOK

LEMMA RouteFollows ==
  ASSUME RouteInv, NEW i \in 1 .. Len(chain), hop[chain[i]] # NoHop
  PROVE  /\ origin[chain[i]] = Node(chain, i - 1)
         /\ hop[chain[i]].addr = Node(chain, i + 1)
         /\ i < Len(chain) => ~CanPeel(<<chain[i], key[chain[i]]>>, hop[chain[i]].inner)
         /\ origin[Node(chain, i + 1)] \in {chain[i], Exit}
<1> DEFINE r == chain[i]
<1>1. chain # <<>>
  OBVIOUS
<1>2. chain \in Chains
  BY <1>1, ChainIs
<1>3. r \in Relay /\ Node(chain, i) = r /\ Len(chain) \in Nat
  BY <1>2, NodesDiffer
<1> HIDE DEF r
<1>4. PICK j \in 1 .. Len(chain) :
        /\ r = Node(chain, j) /\ hop[r] = HopOf(chain, j)
        /\ hop[r].addr = Node(chain, j + 1) /\ origin[r] = Node(chain, j - 1)
  BY <1>3, HopNode DEF r
<1>5. j = i
  <2>1. i \in 0 .. Len(chain) + 1 /\ j \in 0 .. Len(chain) + 1 /\ Node(chain, i) = Node(chain, j)
    BY <1>3, <1>4
  <2> QED
    BY ONLY <1>2, <2>1, NodesDiffer
<1>6. ASSUME i < Len(chain) PROVE ~CanPeel(<<r, key[r]>>, hop[r].inner)
  <2>1. i + 1 \in 1 .. Len(chain) /\ i # Len(chain) /\ i # i + 1
        /\ i \in 0 .. Len(chain) + 1 /\ i + 1 \in 0 .. Len(chain) + 1
    BY <1>3, <1>6
  <2>2. hop[r].inner = LayersOf(chain)[i + 1]
    BY <1>2, <1>4, <1>5, <2>1, LayersRoute
  <2>3. hop[r].inner.sealedFor = <<chain[i + 1], 0>>
    BY <1>2, <2>1, <2>2, LayersRoute
  <2>4. chain[i + 1] = Node(chain, i + 1)
    BY <1>2, <2>1, NodesDiffer
  <2>5. Node(chain, i) # Node(chain, i + 1)
    BY ONLY <1>2, <2>1, NodesDiffer
  <2> QED
    BY <1>3, <2>3, <2>4, <2>5 DEF CanPeel
<1>7. origin[hop[r].addr] \in {r, Exit}
  BY <1>3, HelloNext DEF r
<1> QED
  BY <1>4, <1>5, <1>6, <1>7 DEF r

LEMMA RouteImplied ==
  ASSUME RouteInv
  PROVE  Route
BY RouteTyped, RouteFollows DEF Route, Node

(* A circuit follows the chain of its client and no relay learns more than  *)
(* its neighbours: whoever dialled it comes before it in the chain, it      *)
(* peels the address of the node after it, and what it hands on it cannot   *)
(* open (relay.py's handle_connection and connect_from_layer over           *)
(* onion.py's build_onion), whoever is slow, leaves or is restarted.        *)
THEOREM RouteHolds == Spec => []Route
<1>1. Init => RouteInv
  BY RouteInit
<1>2. RouteInv /\ [Next]_vars => RouteInv'
  BY RouteStep
<1>3. RouteInv => Route
  BY RouteImplied
<1> QED
  BY <1>1, <1>2, <1>3, PTL DEF Spec
-------------------------------------------------------------------------------
(* Frames in order.  Every frame has its place in the stream of its         *)
(* direction; what was cut out of the bytes of others comes after them all, *)
(* for the reader that cut it has lost its place for good.                  *)

Top == MaxData + 3
Number(f) == CASE f.tag = "kind" -> 0 [] f.tag = "blob" -> 1 [] f.tag = "data" -> f.n + 1
               [] f.tag = "answer" -> f.n [] OTHER -> Top
Following(n) == IF n = Top THEN Top ELSE n + 1

(* What a pipe carries: to a relay, to the exit, or back to the client.     *)
Carries(d, i) == IF d = "back_node" THEN "back" ELSE IF i = Len(chain) THEN "exit" ELSE "hops"
Carried(t, f) ==
  \/ f = Junk
  \/ t = "back" /\ \E n \in 1 .. MaxData : f = Answer(n)
  \/ t # "back" /\ \E n \in 0 .. MaxData : f = Data(n)
  \/ t = "hops" /\ (f.tag = "blob" \/ \E k \in Onions \cup {"RELAY"} : f = Kind(k))

(* The frames in a pipe whose reader is in step: in order, from lo on and   *)
(* before hi; with nothing missing between them; with nothing missing at    *)
(* the end.                                                                 *)
IsHead(q, k) == q[k].part = "head"
Line(t, q, lo, hi) ==
  /\ lo <= hi
  /\ \A k \in 1 .. Len(q) : q[k].part = "body" => k > 1 /\ IsHead(q, k - 1) /\ q[k - 1].of = q[k].of
  /\ \A k \in 1 .. Len(q) : IsHead(q, k) =>
       /\ Carried(t, q[k].of) /\ lo <= Number(q[k].of) /\ Following(Number(q[k].of)) <= hi
       /\ \A j \in 1 .. k - 1 : IsHead(q, j) => Following(Number(q[j].of)) <= Number(q[k].of)
Gapless(q, lo) ==
  \A k \in 1 .. Len(q) : IsHead(q, k) /\ lo < Number(q[k].of) /\ Number(q[k].of) < Top =>
    \E j \in 1 .. k - 1 : IsHead(q, j) /\ Number(q[j].of) = Number(q[k].of) - 1
Complete(q, lo, hi) ==
  hi < Top => \A n \in lo .. hi - 1 : \E j \in 1 .. Len(q) : IsHead(q, j) /\ Number(q[j].of) = n

Lane(t) == IF t = "back" THEN "down" ELSE "up"
Whence(l) == l.dialling # "closed" /\ l.accepted # "closed"
PipeFrom(t, l, lo, hi, dense) ==
  /\ Line(t, l[Lane(t)], lo, hi)
  /\ dense => Gapless(l[Lane(t)], lo) /\ (Whence(l) => Complete(l[Lane(t)], lo, hi))

(* The pipes of a circuit, by the link they are on; lo is what its reader   *)
(* still accepts, hi what its writer will write next.                       *)
Dense == slow.writes = 0
InIdx(d, j) == IF d = "next_node" THEN j - 1 ELSE j
OutIdx(d, j) == IF d = "next_node" THEN j ELSE j - 1
LastIdx(d) == IF d = "next_node" THEN Len(chain) ELSE 0
FirstIdx(d) == IF d = "next_node" THEN 0 ELSE Len(chain)
First(d, i) == IF d = "next_node" /\ i < Len(chain) THEN 0 ELSE 1
Reader(d) == IF d = "next_node" THEN exit ELSE client

Attends(r, d) ==
  /\ handler[r] # "over"
  /\ handler[r] = "forward" => thread[r][d].at \in {"recv", "send"} /\ ~thread[r][d].astray
InTouch(d, i) ==
  IF i = LastIdx(d) THEN ~Reader(d).astray
  ELSE Attends(chain[IF d = "next_node" THEN i + 1 ELSE i], d)

PipeCell(d, i, lo, hi) ==
  InTouch(d, i) => PipeFrom(Carries(d, i), link[Node(chain, i)], lo, hi, Dense)

RelayCell(d, j, lo, hi) ==
  LET r == chain[j]
      t == thread[r][d]
  IN /\ handler[r] \in {"listen", "first", "layer", "connect", "hello"} =>
          /\ hi = First(d, OutIdx(d, j))
          /\ lo = IF d = "back_node" THEN 1 ELSE IF handler[r] \in {"listen", "first"} THEN 0
                  ELSE IF handler[r] = "layer" THEN 1 ELSE 2
     /\ handler[r] = "forward" /\ t.at \in {"recv", "send"} /\ d = "next_node" => 2 <= lo
     /\ handler[r] = "forward" /\ t.at = "recv" =>
          /\ hi <= lo /\ (Dense => lo \in {hi, Top}) /\ (t.astray => lo = Top)
     /\ handler[r] = "forward" /\ t.at = "send" =>
          /\ Carried(Carries(d, OutIdx(d, j)), t.hold)
          /\ hi <= Number(t.hold) /\ (Dense => Number(t.hold) \in {hi, Top})
          /\ lo = Following(Number(t.hold)) /\ (t.astray => lo = Top)

SinkCell(d, lo) ==
  LET got == Reader(d).got
  IN /\ \A k \in 1 .. Len(got) :
          /\ Carried(Carries(d, LastIdx(d)), got[k]) /\ Following(Number(got[k])) <= lo
          /\ \A j \in 1 .. k - 1 : Following(Number(got[j])) <= Number(got[k])
          /\ Dense => Number(got[k]) \in {k, Top}
     /\ Dense => lo \in {Len(got) + 1, Top}

SourceCell(d, hi) == hi = IF d = "next_node" THEN client.sent + 2 ELSE exit.sent + 1

FlowBody(d, r, w) ==
  /\ \A i \in 0 .. Len(chain) : PipeCell(d, i, r[i], w[i])
  /\ \A j \in 1 .. Len(chain) : RelayCell(d, j, r[InIdx(d, j)], w[OutIdx(d, j)])
  /\ SinkCell(d, r[LastIdx(d)]) /\ SourceCell(d, w[FirstIdx(d)])
Flow(d) == \E r, w \in [0 .. Len(chain) -> 0 .. Top] : FlowBody(d, r, w)

(* Until somebody is dialled nothing has been sent, and a relay that has    *)
(* not connected yet has a link that nobody has touched.                    *)
Early == {"listen", "first", "layer", "connect"}
Unused(l) == l.up = <<>> /\ l.down = <<>> /\ l.dialling = "none" /\ l.accepted = "none"
Quiet ==
  /\ (\A r \in Relay : handler[r] = "listen") =>
       /\ Unused(link[Client])
       /\ \A p \in {client, exit} : p.sent = 0 /\ p.got = <<>> /\ ~p.astray
  /\ \A r \in Relay : handler[r] \in Early =>
       Unused(link[r]) /\ \A n \in Relay \cup {Exit} : origin[n] # r
OrderInv == RouteInv /\ Quiet /\ (chain # <<>> => \A d \in Direction : Flow(d))

-------------------------------------------------------------------------------
(* Places in the stream.                                                    *)

LEMMA Places ==
  /\ Top \in Nat /\ Top >= 3
  /\ \A n \in 0 .. Top : Following(n) \in 1 .. Top /\ n <= Following(n)
  /\ Following(Top) = Top /\ \A n \in 0 .. Top : n < Top => Following(n) = n + 1
BY RelayChainAssumption DEF Top, Following

LEMMA Numbers ==
  ASSUME NEW t, NEW f, Carried(t, f)
  PROVE  /\ Number(f) \in 0 .. Top /\ Following(Number(f)) \in 1 .. Top
         /\ Number(f) = Top <=> f = Junk
<1>1. MaxData \in Nat
  BY RelayChainAssumption
<1>2. CASE f = Junk
  BY <1>1, <1>2 DEF Number, Junk, Top, Following
<1>3. CASE \E n \in 1 .. MaxData : f = Answer(n)
  BY <1>1, <1>3 DEF Number, Answer, Junk, Top, Following
<1>4. CASE \E n \in 0 .. MaxData : f = Data(n)
  BY <1>1, <1>4 DEF Number, Data, Junk, Top, Following
<1>5. CASE f.tag = "blob"
  BY <1>1, <1>5 DEF Number, Junk, Top, Following
<1>6. CASE \E k \in Onions \cup {"RELAY"} : f = Kind(k)
  BY <1>1, <1>6 DEF Number, Kind, Junk, Top, Following
<1> QED
  BY <1>2, <1>3, <1>4, <1>5, <1>6 DEF Carried

LEMMA SomeNumbers ==
  /\ \A t : Carried(t, Junk) /\ Number(Junk) = Top
  /\ \A k \in Onions \cup {"RELAY"} : Carried("hops", Kind(k)) /\ Number(Kind(k)) = 0
  /\ \A f : f.tag = "blob" => Carried("hops", f) /\ Number(f) = 1
  /\ \A n \in 0 .. MaxData : /\ Carried("hops", Data(n)) /\ Carried("exit", Data(n))
                             /\ Number(Data(n)) = n + 1
  /\ \A n \in 1 .. MaxData : Carried("back", Answer(n)) /\ Number(Answer(n)) = n
  /\ \A f : Carried("hops", f) /\ 2 <= Number(f) => Carried("exit", f)
<1>1. \A t : Carried(t, Junk) /\ Number(Junk) = Top
  BY DEF Carried, Number, Junk
<1>2. \A k \in Onions \cup {"RELAY"} : Carried("hops", Kind(k)) /\ Number(Kind(k)) = 0
  BY DEF Carried, Number, Kind
<1>3. \A f : f.tag = "blob" => Carried("hops", f) /\ Number(f) = 1
  BY DEF Carried, Number
<1>4. \A n \in 0 .. MaxData : /\ Carried("hops", Data(n)) /\ Carried("exit", Data(n))
                             /\ Number(Data(n)) = n + 1
  BY DEF Carried, Number, Data
<1>5. \A n \in 1 .. MaxData : Carried("back", Answer(n)) /\ Number(Answer(n)) = n
  BY DEF Carried, Number, Answer
<1>6. ASSUME NEW f, Carried("hops", f), 2 <= Number(f)
      PROVE  Carried("exit", f)
  BY <1>2, <1>3, <1>6 DEF Carried
<1> QED
  BY <1>1, <1>2, <1>3, <1>4, <1>5, <1>6

LEMMA WholeIs ==
  ASSUME NEW f
  PROVE  /\ Whole(f)[1] = Piece(f, "head") /\ Whole(f)[2] = Piece(f, "body")
         /\ Whole(f)[1].of = f /\ Whole(f)[1].part = "head"
         /\ Whole(f)[2].of = f /\ Whole(f)[2].part = "body"
BY DEF Whole, Piece

(* What a line says of its k-th piece, and of its k-th head, alone.         *)
OnLine(t, q, lo, hi, k) ==
  /\ q[k].part = "body" => k > 1 /\ IsHead(q, k - 1) /\ q[k - 1].of = q[k].of
  /\ IsHead(q, k) => /\ Carried(t, q[k].of) /\ lo <= Number(q[k].of)
                     /\ Following(Number(q[k].of)) <= hi
                     /\ \A j \in 1 .. k - 1 : IsHead(q, j) =>
                          Following(Number(q[j].of)) <= Number(q[k].of)

LEMMA LineIs ==
  ASSUME NEW t, NEW q, NEW lo, NEW hi
  PROVE  Line(t, q, lo, hi) <=> lo <= hi /\ \A k \in 1 .. Len(q) : OnLine(t, q, lo, hi, k)
BY DEF Line, OnLine

(* The reader takes a frame whole.                                          *)
LEMMA LineRead ==
  ASSUME NEW S, NEW q \in Seq(S), NEW t, NEW lo \in 0 .. Top, NEW hi \in 0 .. Top,
         Line(t, q, lo, hi), HasFrame(q), \A k \in 1 .. Len(q) : q[k].part \in Part,
         NEW b \in Seq(S), Len(b) = Len(q) - 2, \A k \in 1 .. Len(b) : b[k] = q[k + 2],
         q[2].part = "body"
  PROVE  LET f == q[1].of
             n == Following(Number(f))
         IN /\ Carried(t, f) /\ lo <= Number(f) /\ n <= hi
            /\ Line(t, b, n, hi)
            /\ Gapless(q, lo) => Number(f) \in {lo, Top} /\ Gapless(b, n)
            /\ Complete(q, lo, hi) => Complete(b, n, hi)
<1> DEFINE f == q[1].of
           n == Following(Number(f))
<1>1. 2 <= Len(q) /\ Len(q) \in Nat /\ q[1].part \notin {"fin", "rst"}
  BY DEF HasFrame
<1>2. IsHead(q, 1)
  BY <1>1 DEF Line, Part, IsHead
<1>3. Carried(t, f) /\ lo <= Number(f) /\ n <= hi
  BY <1>1, <1>2 DEF Line
<1>4. Number(f) \in 0 .. Top /\ n \in 1 .. Top /\ Number(f) <= n
  BY <1>3, Numbers, Places
<1> HIDE DEF n
<1>5. ASSUME NEW k \in 1 .. Len(b) PROVE OnLine(t, b, n, hi, k)
  <2>1. k + 2 \in 1 .. Len(q) /\ b[k] = q[k + 2] /\ OnLine(t, q, lo, hi, k + 2)
    BY <1>1, LineIs
  <2>2. CASE b[k].part = "body"
    <3>1. IsHead(q, k + 1) /\ q[k + 1].of = q[k + 2].of
      BY <2>1, <2>2 DEF OnLine
    <3>2. k # 1
      BY <3>1 DEF IsHead
    <3>3. k - 1 \in 1 .. Len(b) /\ k - 1 + 2 = k + 1
      BY <3>2, <1>1
    <3>4. b[k - 1] = q[k + 1]
      BY <3>3
    <3> QED
      BY <3>1, <3>2, <3>4, <2>1, <2>2 DEF OnLine, IsHead
  <2>3. CASE IsHead(b, k)
    <3>1. IsHead(q, k + 2)
      BY <2>1, <2>3 DEF IsHead
    <3>2. /\ Carried(t, q[k + 2].of) /\ Following(Number(q[k + 2].of)) <= hi
          /\ \A j \in 1 .. k + 1 : IsHead(q, j) =>
                          Following(Number(q[j].of)) <= Number(q[k + 2].of)
      BY <2>1, <3>1 DEF OnLine
    <3>3. n <= Number(q[k + 2].of)
      BY <1>2, <3>2 DEF n
    <3>4. \A j \in 1 .. k - 1 : j + 2 \in 1 .. k + 1 /\ b[j] = q[j + 2]
      BY <1>1
    <3> QED
      BY <2>1, <2>3, <3>2, <3>3, <3>4 DEF OnLine, IsHead
  <2> QED
    BY <2>2, <2>3 DEF OnLine, IsHead
<1>6. Line(t, b, n, hi)
  BY <1>3, <1>5, LineIs DEF n
<1>7. ASSUME Gapless(q, lo) PROVE Number(f) \in {lo, Top} /\ Gapless(b, n)
  <2>1. Number(f) \in {lo, Top}
    <3>1. 1 \in 1 .. Len(q) /\ 1 .. 1 - 1 = {}
      BY <1>1
    <3>2. ~(lo < Number(f) /\ Number(f) < Top)
      BY <1>2, <1>7, <3>1 DEF Gapless
    <3>3. Top \in Nat /\ lo <= Number(f)
      BY <1>3, Places
    <3> QED
      BY ONLY <1>4, <3>2, <3>3, lo \in 0 .. Top
  <2>2. ASSUME NEW k \in 1 .. Len(b), IsHead(b, k), n < Number(b[k].of), Number(b[k].of) < Top
        PROVE  \E j \in 1 .. k - 1 : IsHead(b, j) /\ Number(b[j].of) = Number(b[k].of) - 1
    <3>1. k + 2 \in 1 .. Len(q) /\ b[k] = q[k + 2] /\ IsHead(q, k + 2)
      BY <1>1, <2>2 DEF IsHead
    <3>2. Number(q[k + 2].of) \in 0 .. Top
      BY <3>1, Numbers DEF Line
    <3>3. lo < Number(q[k + 2].of)
      BY <1>3, <1>4, <2>2, <3>1, <3>2
    <3>4. PICK j \in 1 .. k + 1 : IsHead(q, j) /\ Number(q[j].of) = Number(q[k + 2].of) - 1
      BY <2>2, <3>1, <3>3, <1>7 DEF Gapless
    <3>5. j # 1
      <4>1. n = Number(f) + 1 \/ Number(f) = Top
        BY <1>4, Places DEF n
      <4> QED
        BY <1>4, <2>2, <3>1, <3>2, <3>4, <4>1
    <3>6. j # 2
      BY <3>4 DEF IsHead
    <3>7. j - 2 \in 1 .. k - 1 /\ j - 2 \in 1 .. Len(b) /\ j - 2 + 2 = j
      BY <3>5, <3>6, <1>1
    <3>8. b[j - 2] = q[j]
      BY <3>7
    <3> QED
      BY <3>1, <3>4, <3>7, <3>8 DEF IsHead
  <2> QED
    BY <2>1, <2>2 DEF Gapless
<1>8. ASSUME Complete(q, lo, hi) PROVE Complete(b, n, hi)
  <2>1. SUFFICES ASSUME hi < Top, NEW m \in n .. hi - 1
                 PROVE  \E j \in 1 .. Len(b) : IsHead(b, j) /\ Number(b[j].of) = m
    BY DEF Complete
  <2>2. m \in lo .. hi - 1
    BY <1>3, <1>4
  <2>3. PICK j \in 1 .. Len(q) : IsHead(q, j) /\ Number(q[j].of) = m
    BY <1>8, <2>1, <2>2 DEF Complete
  <2>4. j # 1
    <3>1. Number(f) < Top
      BY <1>3, <1>4, <2>1, Places DEF n
    <3>2. n = Number(f) + 1
      BY <3>1, <1>4, Places DEF n
    <3> QED
      BY <2>3, <3>2, <1>4
  <2>5. j # 2
    BY <2>3 DEF IsHead
  <2>6. j - 2 \in 1 .. Len(b) /\ j - 2 + 2 = j
    BY <2>4, <2>5, <1>1
  <2>7. b[j - 2] = q[j]
    BY <2>6
  <2> QED
    BY <2>3, <2>6, <2>7 DEF IsHead
<1> QED
  BY <1>3, <1>6, <1>7, <1>8 DEF n

(* The writer adds a frame, its head only, or nothing.                      *)
Grows(q, b, f, m) ==
  /\ Len(b) = Len(q) + m /\ \A k \in 1 .. Len(q) : b[k] = q[k]
  /\ \A k \in 1 .. m : b[Len(q) + k] = Whole(f)[k]

LEMMA LineGrows ==
  ASSUME NEW S, NEW q \in Seq(S), NEW b \in Seq(S), NEW f, NEW m \in 0 .. 2, Grows(q, b, f, m),
         NEW t, NEW lo \in 0 .. Top, NEW hi \in 0 .. Top,
         Line(t, q, lo, hi), Carried(t, f), hi <= Number(f)
  PROVE  LET n == Following(Number(f))
         IN /\ Line(t, b, lo, n)
            /\ m = 2 /\ Number(f) \in {hi, Top} /\ Gapless(q, lo) /\ Complete(q, lo, hi) =>
                 Gapless(b, lo) /\ Complete(b, lo, n)
<1> DEFINE n == Following(Number(f))
<1>1. /\ Number(f) \in 0 .. Top /\ n \in 1 .. Top /\ Number(f) <= n
      /\ \/ n = Number(f) + 1
         \/ Number(f) = Top /\ n = Top
  BY Numbers, Places, SMTT(30)
<1>2. /\ Len(q) \in Nat /\ Len(b) = Len(q) + m
      /\ \A k \in 1 .. Len(q) : b[k] = q[k]
      /\ m >= 1 => b[Len(q) + 1].of = f /\ b[Len(q) + 1].part = "head"
      /\ m = 2 => b[Len(q) + 2].of = f /\ b[Len(q) + 2].part = "body"
  BY WholeIs DEF Grows
<1>3. \A k \in 1 .. Len(b) : \/ k \in 1 .. Len(q)
                             \/ m >= 1 /\ k = Len(q) + 1
                             \/ m = 2 /\ k = Len(q) + 2
  BY <1>2
<1>4. \A k \in 1 .. Len(q) : IsHead(q, k) =>
        Number(q[k].of) \in 0 .. Top /\ Following(Number(q[k].of)) <= hi
  BY Numbers DEF Line
<1>5. ASSUME NEW k \in 1 .. Len(b) PROVE OnLine(t, b, lo, n, k)
  <2>1. CASE k \in 1 .. Len(q)
    <3>1. OnLine(t, q, lo, hi, k) /\ hi <= n
      BY <1>1, <2>1, LineIs
    <3>2. \A j \in 1 .. k - 1 : j \in 1 .. Len(q)
      BY <1>2, <2>1
    <3>3. k > 1 => k - 1 \in 1 .. Len(q)
      BY <2>1, <1>2
    <3>4. b[k] = q[k] /\ (k > 1 => b[k - 1] = q[k - 1]) /\ \A j \in 1 .. k - 1 : b[j] = q[j]
      BY <1>2, <2>1, <3>2, <3>3
    <3>5. IsHead(q, k) => Following(Number(q[k].of)) <= n
      <4>1. IsHead(q, k) => Following(Number(q[k].of)) \in 1 .. Top /\ Following(Number(q[k].of)) <= hi
        BY <1>4, <2>1, Places
      <4> QED
        BY ONLY <1>1, <3>1, <4>1, hi \in 0 .. Top, Places
    <3> QED
      BY <3>1, <3>4, <3>5 DEF OnLine, IsHead
  <2>2. CASE m >= 1 /\ k = Len(q) + 1
    <3>1. lo <= Number(f)
      BY <1>1 DEF Line
    <3>2. ASSUME NEW j \in 1 .. k - 1, IsHead(b, j)
          PROVE  Following(Number(b[j].of)) <= Number(f)
      <4>1. j \in 1 .. Len(q) /\ b[j] = q[j]
        BY <1>2, <2>2
      <4>2. Following(Number(q[j].of)) \in 1 .. Top /\ Following(Number(q[j].of)) <= hi
        BY <1>4, <3>2, <4>1, Places DEF IsHead
      <4> QED
        BY <1>1, <4>1, <4>2
    <3>3. n <= n
      BY <1>1
    <3> QED
      BY <1>2, <2>2, <3>1, <3>2, <3>3 DEF OnLine, IsHead
  <2>3. CASE m = 2 /\ k = Len(q) + 2
    <3>1. k - 1 = Len(q) + 1 /\ k > 1
      BY <2>3, <1>2
    <3> QED
      BY <1>2, <2>3, <3>1 DEF OnLine, IsHead
  <2> QED
    BY <1>3, <2>1, <2>2, <2>3
<1>6. Line(t, b, lo, n)
  <2>1. lo <= n
    BY <1>1 DEF Line
  <2> QED
    BY <1>5, <2>1, LineIs
<1>7. ASSUME m = 2, Number(f) \in {hi, Top}, Gapless(q, lo), Complete(q, lo, hi)
      PROVE  Gapless(b, lo) /\ Complete(b, lo, n)
  <2>1. \A k \in 1 .. Len(q) : k \in 1 .. Len(b) /\ b[k] = q[k]
    BY <1>2
  <2>2. ASSUME NEW k \in 1 .. Len(b), IsHead(b, k), lo < Number(b[k].of), Number(b[k].of) < Top
        PROVE  \E j \in 1 .. k - 1 : IsHead(b, j) /\ Number(b[j].of) = Number(b[k].of) - 1
    <3>1. CASE k \in 1 .. Len(q)
      <4>1. PICK j \in 1 .. k - 1 : IsHead(q, j) /\ Number(q[j].of) = Number(q[k].of) - 1
        BY <3>1, <2>1, <2>2, <1>7 DEF Gapless, IsHead
      <4>2. j \in 1 .. Len(q)
        BY <3>1, <1>2
      <4> QED
        BY <2>1, <3>1, <4>1, <4>2 DEF IsHead
    <3>2. CASE k = Len(q) + 1
      <4>1. b[k].of = f
        BY <1>2, <1>7, <3>2
      <4>2. Number(f) = hi /\ hi < Top /\ hi - 1 \in lo .. hi - 1
        BY <4>1, <1>1, <1>7, <2>2
      <4>3. PICK j \in 1 .. Len(q) : IsHead(q, j) /\ Number(q[j].of) = hi - 1
        BY <4>2, <1>7 DEF Complete
      <4>4. j \in 1 .. k - 1
        BY <1>2, <3>2
      <4> QED
        BY <2>1, <4>1, <4>2, <4>3, <4>4 DEF IsHead
    <3>3. CASE k = Len(q) + 2
      BY <1>2, <1>7, <2>2, <3>3 DEF IsHead
    <3> QED
      BY <1>3, <3>1, <3>2, <3>3
  <2>3. ASSUME n < Top, NEW i \in lo .. n - 1
        PROVE  \E j \in 1 .. Len(b) : IsHead(b, j) /\ Number(b[j].of) = i
    <3>1. Number(f) = hi /\ n = hi + 1 /\ hi < Top
      <4>1. Top \in Nat
        BY Places
      <4>2. Number(f) # Top
        BY <1>1, <2>3, <4>1
      <4> QED
        BY <1>1, <1>7, <2>3, <4>1, <4>2
    <3>2. CASE i = hi
      <4>1. Len(q) + 1 \in 1 .. Len(b)
        BY <1>2, <1>7
      <4> QED
        BY <4>1, <1>2, <1>7, <3>1, <3>2 DEF IsHead
    <3>3. CASE i # hi
      <4>1. i \in lo .. hi - 1
        BY <3>1, <3>3
      <4>2. PICK j \in 1 .. Len(q) : IsHead(q, j) /\ Number(q[j].of) = i
        BY <1>7, <3>1, <4>1 DEF Complete
      <4> QED
        BY <4>2, <2>1 DEF IsHead
    <3> QED
      BY <3>2, <3>3
  <2> QED
    BY <2>2, <2>3 DEF Gapless, Complete
<1> QED
  BY <1>6, <1>7

LEMMA LineWider ==
  ASSUME NEW S, NEW q \in Seq(S), NEW t, NEW lo \in 0 .. Top, NEW hi \in 0 .. Top, NEW n \in 0 .. Top,
         hi <= n, Line(t, q, lo, hi)
  PROVE  Line(t, q, lo, n)
<1>1. \A k \in 1 .. Len(q) : IsHead(q, k) => Following(Number(q[k].of)) <= n
  BY Numbers DEF Line
<1>2. lo <= n
  BY DEF Line
<1> QED
  BY <1>1, <1>2 DEF Line

(* What is left of it when one end goes: a first part, and a mark.          *)
Cut(q, b) ==
  \A k \in 1 .. Len(b) : \/ b[k].part \in {"fin", "rst"}
                         \/ k \in 1 .. Len(q) /\ \A j \in 1 .. k : b[j] = q[j]

LEMMA LineCut ==
  ASSUME NEW S, NEW q \in Seq(S), NEW b \in Seq(S), NEW t, NEW lo, NEW hi,
         Cut(q, b), Line(t, q, lo, hi)
  PROVE  Line(t, b, lo, hi) /\ (Gapless(q, lo) => Gapless(b, lo))
<1>1. ASSUME NEW k \in 1 .. Len(b), b[k].part \notin {"fin", "rst"}
      PROVE  k \in 1 .. Len(q) /\ \A j \in 1 .. k : b[j] = q[j]
  BY <1>1 DEF Cut
<1>2. ASSUME NEW k \in 1 .. Len(b) PROVE OnLine(t, b, lo, hi, k)
  <2>1. CASE b[k].part \in {"fin", "rst"}
    BY <2>1 DEF OnLine, IsHead
  <2>2. CASE b[k].part \notin {"fin", "rst"}
    <3>1. OnLine(t, q, lo, hi, k)
      BY <1>1, <2>2, LineIs
    <3>2. b[k] = q[k] /\ (k > 1 => b[k - 1] = q[k - 1]) /\ \A j \in 1 .. k - 1 : b[j] = q[j]
      BY <1>1, <2>2
    <3> QED
      BY <3>1, <3>2 DEF OnLine, IsHead
  <2> QED
    BY <2>1, <2>2
<1>3. Line(t, b, lo, hi)
  BY <1>2, LineIs DEF Line
<1>4. ASSUME Gapless(q, lo), NEW k \in 1 .. Len(b), IsHead(b, k),
             lo < Number(b[k].of), Number(b[k].of) < Top
      PROVE  \E j \in 1 .. k - 1 : IsHead(b, j) /\ Number(b[j].of) = Number(b[k].of) - 1
  <2>1. k \in 1 .. Len(q) /\ \A j \in 1 .. k : b[j] = q[j]
    BY <1>1, <1>4 DEF IsHead
  <2>2. \E j \in 1 .. k - 1 : IsHead(q, j) /\ Number(q[j].of) = Number(q[k].of) - 1
    BY <1>4, <2>1 DEF Gapless, IsHead
  <2> QED
    BY <2>1, <2>2 DEF IsHead
<1> QED
  BY <1>3, <1>4 DEF Gapless

(* A link whose pipe of one kind is no worse than before.                   *)
Loads == {"hops", "exit", "back"}
Eases(t, l, m) ==
  \A lo, hi \in 0 .. Top, dense \in BOOLEAN :
    PipeFrom(t, l, lo, hi, dense) => PipeFrom(t, m, lo, hi, dense)

LEMMA LaneIs ==
  /\ Lane("hops") = "up" /\ Lane("exit") = "up" /\ Lane("back") = "down"
  /\ \A d \in Direction : \A i : Carries(d, i) \in Loads
BY DEF Lane, Carries, Loads

LEMMA EasesSame ==
  ASSUME NEW t, NEW l, NEW m, m[Lane(t)] = l[Lane(t)], Whence(m) => Whence(l)
  PROVE  Eases(t, l, m)
BY DEF Eases, PipeFrom

LEMMA LinkLanes ==
  ASSUME NEW c, NEW l \in Link(c)
  PROVE  /\ l.up \in Seq(Pieces(Frames \cup Blobs(c)))
         /\ l.down \in Seq(Pieces(Frames \cup Blobs(c)))
         /\ \A t \in Loads : l[Lane(t)] \in Seq(Pieces(Frames \cup Blobs(c)))
<1>1. l.up \in Seq(Pieces(Frames \cup Blobs(c))) /\ l.down \in Seq(Pieces(Frames))
  BY DEF Link
<1> QED
  BY <1>1, PlainPieces, LaneIs DEF Loads

LEMMA EasesClose ==
  ASSUME NEW c, NEW l \in Link(c), NEW e \in {"dialling", "accepted"}, NEW t \in Loads
  PROVE  Eases(t, l, Close(l, e)) /\ Close(l, e).up = l.up /\ Close(l, e).down = l.down
         /\ (Whence(Close(l, e)) <=> Whence(l))
<1>1. /\ Close(l, e).up = l.up /\ Close(l, e).down = l.down
      /\ (Whence(Close(l, e)) <=> Whence(l))
  BY DEF Close, Link, Whence
<1> QED
  BY <1>1, EasesSame, LaneIs DEF Loads

LEMMA EasesCut ==
  ASSUME NEW t, NEW l, NEW m, NEW S, l[Lane(t)] \in Seq(S), m[Lane(t)] \in Seq(S),
         ~Whence(m), Cut(l[Lane(t)], m[Lane(t)])
  PROVE  Eases(t, l, m)
BY LineCut DEF Eases, PipeFrom

LEMMA CutPrefix ==
  ASSUME NEW S, NEW q \in Seq(S), NEW k \in 0 .. Len(q), NEW x \in S, x.part \in {"fin", "rst"}
  PROVE  Cut(q, Append(SubSeq(q, 1, k), x))
<1> DEFINE b == Append(SubSeq(q, 1, k), x)
<1>1. /\ b \in Seq(S) /\ Len(b) = k + 1 /\ \A j \in 1 .. k : j \in 1 .. Len(q) /\ b[j] = q[j]
      /\ b[k + 1] = x
  BY AppendPrefix
<1> HIDE DEF b
<1>2. Cut(q, b)
  <2>1. ASSUME NEW i \in 1 .. Len(b)
        PROVE  b[i].part \in {"fin", "rst"} \/ (i \in 1 .. Len(q) /\ \A j \in 1 .. i : b[j] = q[j])
    <3>1. CASE i = k + 1
      BY <1>1, <3>1
    <3>2. CASE i # k + 1
      <4>1. i \in 1 .. k /\ \A j \in 1 .. i : j \in 1 .. k
        BY <1>1, <3>2
      <4> QED
        BY <1>1, <4>1
    <3> QED
      BY <3>1, <3>2
  <2> QED
    BY <2>1 DEF Cut
<1> QED
  BY <1>2 DEF b

LEMMA EasesGone ==
  ASSUME NEW c, NEW l \in Link(c), NEW e \in {"dialling", "accepted"}, NEW t \in Loads,
         NEW m \in Gone(l, e)
  PROVE  Eases(t, l, m)
<1> DEFINE S == Pieces(Frames \cup Blobs(c))
           q == l[Out(e)]
<1>1. CASE l[e] \notin {"open", "closing"}
  BY <1>1, EasesSame DEF Gone
<1>2. CASE l[e] \in {"open", "closing"}
  <2>1. q \in Seq(S)
    BY LinkLanes, Ends2
  <2>2. PICK k \in 0 .. Len(q), how \in {"fin", "rst"} :
          m = [l EXCEPT ![e] = "closed", ![In(e)] = <<>>,
                        ![Out(e)] = IF l[Peer(e)] = "closed" THEN <<>>
                                    ELSE Append(SubSeq(q, 1, k), EndOf(how))]
    <3>1. Len(q) \in 0 .. Len(q)
      BY <2>1
    <3> DEFINE unread == \E k \in DOMAIN l[In(e)] : l[In(e)][k].part \in {"head", "body"}
               kept == IF unread THEN 0 .. Len(q) ELSE {Len(q)}
               how == IF unread THEN "rst" ELSE "fin"
               gone(s) == [l EXCEPT ![e] = "closed", ![In(e)] = <<>>,
                                    ![Out(e)] = IF l[Peer(e)] = "closed" THEN <<>>
                                                ELSE Append(s, EndOf(how))]
    <3>2. m \in {gone(s) : s \in {SubSeq(q, 1, k) : k \in kept}}
      BY <1>2 DEF Gone
    <3>3. PICK k \in kept : m = gone(SubSeq(q, 1, k))
      <4> HIDE DEF kept, gone
      <4> QED
        BY <3>2
    <3>4. k \in 0 .. Len(q) /\ how \in {"fin", "rst"}
      BY <3>1, <3>3
    <3> HIDE DEF how
    <3> QED
      BY <3>3, <3>4
  <2> DEFINE x == EndOf(how)
             b == Append(SubSeq(q, 1, k), x)
  <2>3. x \in S /\ x.part \in {"fin", "rst"}
    <3>1. x \in Pieces(Frames) /\ x.part = how
      BY EndPiece DEF EndOf, Piece
    <3> QED
      BY <3>1 DEF Pieces
  <2>4. b \in Seq(S) /\ Cut(q, b) /\ <<>> \in Seq(S)
    BY <2>1, <2>3, AppendPrefix, CutPrefix
  <2> HIDE DEF x, b, S
  <2>5. \A p : Cut(p, <<>>)
    BY DEF Cut
  <2>6. /\ m[e] = "closed" /\ m[In(e)] = <<>>
        /\ m[Out(e)] = IF l[Peer(e)] = "closed" THEN <<>> ELSE b
    BY <2>2, Ends2 DEF Link, b, x
  <2>7. ~Whence(m)
    BY <2>6 DEF Whence
  <2>8. Lane(t) = In(e) \/ Lane(t) = Out(e)
    BY LaneIs, Ends2 DEF Loads
  <2>9. l[Lane(t)] \in Seq(S) /\ m[Lane(t)] \in Seq(S) /\ Cut(l[Lane(t)], m[Lane(t)])
    BY <2>1, <2>4, <2>5, <2>6, <2>8, LinkLanes DEF S
  <2> QED
    BY <2>7, <2>9, EasesCut
<1> QED
  BY <1>1, <1>2

(* The writer of a pipe writes a frame, or the first part of it.            *)
LEMMA PipeWritten ==
  ASSUME NEW c, NEW l \in Link(c), NEW e \in {"dialling", "accepted"}, l[e] # "closed",
         NEW t \in Loads, Lane(t) = Out(e),
         NEW lo \in 0 .. Top, NEW hi \in 0 .. Top, NEW dense \in BOOLEAN, NEW dense2 \in BOOLEAN,
         PipeFrom(t, l, lo, hi, dense),
         NEW f \in Frames, Carried(t, f), hi <= Number(f),
         NEW k \in 0 .. 2, NEW p, p = SubSeq(Whole(f), 1, k),
         dense2 => dense /\ k = 2 /\ Number(f) \in {hi, Top}
  PROVE  PipeFrom(t, Write(l, e, p), lo, Following(Number(f)), dense2)
<1> DEFINE S == Pieces(Frames \cup Blobs(c))
           q == l[Lane(t)]
           m == Write(l, e, p)
           n == Following(Number(f))
<1>1. q \in Seq(S) /\ Line(t, q, lo, hi) /\ (dense => Gapless(q, lo))
  BY LinkLanes DEF PipeFrom
<1>2. n \in 0 .. Top /\ hi <= n
  <2>1. Number(f) \in 0 .. Top /\ n \in 1 .. Top /\ Number(f) <= n
    BY Numbers, Places
  <2> QED
    BY <2>1
<1>3. CASE l[Peer(e)] = "closed"
  <2>1. m = l /\ ~Whence(l)
    BY <1>3, Ends2 DEF Write, Whence
  <2>2. Line(t, q, lo, n)
    BY <1>1, <1>2, LineWider
  <2> QED
    BY <1>1, <2>1, <2>2 DEF PipeFrom
<1>4. CASE l[Peer(e)] # "closed"
  <2>1. p \in Seq(S) /\ Len(p) = k /\ \A j \in 1 .. k : p[j] = Whole(f)[j]
    <3>1. Whole(f) \in Seq(S) /\ Len(Whole(f)) = 2
      <4>1. f \in Frames \cup Blobs(c)
        OBVIOUS
      <4> QED
        BY ONLY <4>1, WholePieces
    <3>2. PICK h \in Seq(S) : h = Whole(f)
      BY <3>1
    <3>3. k \in 0 .. Len(h)
      BY <3>1, <3>2
    <3> HIDE DEF S
    <3>4. /\ SubSeq(h, 1, k) \in Seq(S) /\ Len(SubSeq(h, 1, k)) = k
          /\ \A j \in 1 .. k : SubSeq(h, 1, k)[j] = h[j]
      BY <3>3, FirstOf
    <3> QED
      BY ONLY <3>2, <3>4, p = SubSeq(Whole(f), 1, k)
  <2>2. m[Lane(t)] = q \o p /\ (Whence(m) <=> Whence(l))
    BY <1>4, Ends2 DEF Write, Whence, Link
  <2> DEFINE b == q \o p
  <2>3. b \in Seq(S) /\ Grows(q, b, f, k)
    <3>1. /\ b \in Seq(S) /\ Len(b) = Len(q) + Len(p)
          /\ \A j \in 1 .. Len(q) + Len(p) : b[j] = IF j <= Len(q) THEN q[j] ELSE p[j - Len(q)]
      BY <1>1, <2>1, ConcatProperties, ZenonT(30)
    <3> HIDE DEF b, q
    <3>2. Len(q) \in Nat
      BY <1>1
    <3>3. \A j \in 1 .. Len(q) : j \in 1 .. Len(q) + Len(p) /\ j <= Len(q)
      BY <2>1, <3>2
    <3>4. \A j \in 1 .. k : Len(q) + j \in 1 .. Len(q) + Len(p) /\ ~(Len(q) + j <= Len(q))
                            /\ Len(q) + j - Len(q) = j
      BY <2>1, <3>2
    <3>5. \A j \in 1 .. k : b[Len(q) + j] = p[j]
      BY <3>1, <3>4
    <3> QED
      BY <2>1, <3>1, <3>3, <3>5 DEF Grows
  <2> HIDE DEF b, q, S
  <2>4. Line(t, b, lo, n) /\ (dense2 /\ Complete(q, lo, hi) => Gapless(b, lo) /\ Complete(b, lo, n))
    BY <1>1, <2>3, LineGrows
  <2>5. Whence(l) <=> l[e] # "closed" /\ l[Peer(e)] # "closed"
    BY Ends2 DEF Whence
  <2>6. dense => Complete(q, lo, hi)
    BY <1>4, <2>5 DEF PipeFrom, q
  <2> QED
    BY <2>2, <2>4, <2>6 DEF PipeFrom, b, q
<1> QED
  BY <1>3, <1>4

(* What a node sends to a relay first: a kind and a layer.                  *)
HelloPart(x, g, j) ==
  Piece(IF j <= 2 THEN x ELSE g, IF j \in {1, 3} THEN "head" ELSE "body")
Tells(b, x, g) == \A j \in 1 .. Len(b) : b[j] = HelloPart(x, g, j)

LEMMA HelloLine ==
  ASSUME NEW y \in Onions \cup {"RELAY"}, NEW g, g.tag = "blob",
         NEW S, NEW b \in Seq(S), Len(b) <= 4,
         Tells(b, Kind(y), g)
  PROVE  /\ Line("hops", b, 0, 2) /\ Gapless(b, 0)
         /\ Len(b) = 4 => Complete(b, 0, 2)
<1> DEFINE x == Kind(y)
<1>1. /\ Carried("hops", x) /\ Number(x) = 0 /\ Carried("hops", g) /\ Number(g) = 1
      /\ Following(0) = 1 /\ Following(1) = 2 /\ Top \in Nat /\ Top >= 3
  BY SomeNumbers, Places
<1> HIDE DEF x
<1>2. Len(b) \in 0 .. 4 /\ \A k \in 1 .. Len(b) : k = 1 \/ k = 2 \/ k = 3 \/ k = 4
  <2>1. Len(b) \in Nat
    BY LenProperties
  <2>2. PICK n \in Nat : n = Len(b)
    BY <2>1
  <2>3. n \in 0 .. 4 /\ \A k \in 1 .. n : k = 1 \/ k = 2 \/ k = 3 \/ k = 4
    BY ONLY n \in Nat, <2>2, Len(b) <= 4
  <2> QED
    BY ONLY <2>2, <2>3
<1>3. /\ 1 \in 1 .. Len(b) => b[1].of = x /\ b[1].part = "head"
      /\ 2 \in 1 .. Len(b) => b[2].of = x /\ b[2].part = "body"
      /\ 3 \in 1 .. Len(b) => b[3].of = g /\ b[3].part = "head"
      /\ 4 \in 1 .. Len(b) => b[4].of = g /\ b[4].part = "body"
  <2>1. /\ HelloPart(x, g, 1) = Piece(x, "head") /\ HelloPart(x, g, 2) = Piece(x, "body")
        /\ HelloPart(x, g, 3) = Piece(g, "head") /\ HelloPart(x, g, 4) = Piece(g, "body")
    BY DEF HelloPart
  <2>2. \A j \in 1 .. Len(b) : b[j] = HelloPart(x, g, j)
    BY DEF x, Tells
  <2> QED
    BY <2>1, <2>2 DEF Piece
<1>4. ASSUME NEW k \in 1 .. Len(b) PROVE OnLine("hops", b, 0, 2, k)
  <2>1. k > 1 => k - 1 \in 1 .. Len(b)
    BY <1>2
  <2>2. CASE k = 1
    BY <1>1, <1>3, <2>2 DEF OnLine, IsHead
  <2>3. CASE k = 2
    BY <1>1, <1>3, <2>1, <2>3 DEF OnLine, IsHead
  <2>4. CASE k = 3
    <3>1. 1 \in 1 .. Len(b) /\ 2 \in 1 .. Len(b) /\ \A j \in 1 .. k - 1 : j = 1 \/ j = 2
      BY <2>4
    <3> QED
      BY <1>1, <1>3, <2>4, <3>1 DEF OnLine, IsHead
  <2>5. CASE k = 4
    BY <1>1, <1>3, <2>1, <2>5 DEF OnLine, IsHead
  <2> QED
    BY <1>2, <2>2, <2>3, <2>4, <2>5
<1>5. Line("hops", b, 0, 2)
  BY <1>4, LineIs
<1>6. Gapless(b, 0)
  <2>1. ASSUME NEW k \in 1 .. Len(b), IsHead(b, k), 0 < Number(b[k].of)
        PROVE  \E j \in 1 .. k - 1 : IsHead(b, j) /\ Number(b[j].of) = Number(b[k].of) - 1
    <3>1. k = 3
      BY <1>1, <1>2, <1>3, <2>1 DEF IsHead
    <3>2. 1 \in 1 .. k - 1 /\ 1 \in 1 .. Len(b)
      BY <3>1
    <3> QED
      BY <1>1, <1>3, <2>1, <3>1, <3>2 DEF IsHead
  <2> QED
    BY <2>1 DEF Gapless
<1>7. ASSUME Len(b) = 4 PROVE Complete(b, 0, 2)
  <2>1. 1 \in 1 .. Len(b) /\ 3 \in 1 .. Len(b) /\ \A n \in 0 .. 2 - 1 : n = 0 \/ n = 1
    BY <1>7
  <2> QED
    BY <1>1, <1>3, <2>1 DEF Complete, IsHead
<1> QED
  BY <1>5, <1>6, <1>7

LEMMA HelloLength ==
  ASSUME NEW F, NEW x \in F, NEW g \in F, NEW h, h = Whole(x) \o Whole(g)
  PROVE  Len(h) = 4
<1>1. PICK u \in Seq(Pieces(F)), v \in Seq(Pieces(F)) : u = Whole(x) /\ v = Whole(g)
  BY WholePieces
<1>2. Len(u) = 2 /\ Len(v) = 2 /\ u[1] = Piece(x, "head") /\ u[2] = Piece(x, "body")
      /\ v[1] = Piece(g, "head") /\ v[2] = Piece(g, "body")
  BY <1>1, WholePieces, WholeIs
<1>3. u \o v \in Seq(Pieces(F)) /\ Len(u \o v) = 4
      /\ (u \o v)[1] = u[1] /\ (u \o v)[2] = u[2] /\ (u \o v)[3] = v[1] /\ (u \o v)[4] = v[2]
  BY ONLY <1>1, <1>2, TwoAndTwo
<1>4. h = u \o v
  BY <1>1
<1> QED
  BY <1>3, <1>4

LEMMA HelloParts ==
  ASSUME NEW F, NEW x \in F, NEW g \in F, NEW h, h = Whole(x) \o Whole(g)
  PROVE  h \in Seq(Pieces(F)) /\ Tells(h, x, g)
<1>1. PICK u \in Seq(Pieces(F)), v \in Seq(Pieces(F)) : u = Whole(x) /\ v = Whole(g)
  BY WholePieces
<1>2. Len(u) = 2 /\ Len(v) = 2 /\ u[1] = Piece(x, "head") /\ u[2] = Piece(x, "body")
      /\ v[1] = Piece(g, "head") /\ v[2] = Piece(g, "body")
  BY <1>1, WholePieces, WholeIs
<1>3. u \o v \in Seq(Pieces(F)) /\ Len(u \o v) = 4
      /\ (u \o v)[1] = u[1] /\ (u \o v)[2] = u[2] /\ (u \o v)[3] = v[1] /\ (u \o v)[4] = v[2]
  BY ONLY <1>1, <1>2, TwoAndTwo
<1>4. h = u \o v
  BY <1>1
<1> HIDE DEF Pieces
<1>5. h \in Seq(Pieces(F))
      /\ h[1] = Piece(x, "head") /\ h[2] = Piece(x, "body")
      /\ h[3] = Piece(g, "head") /\ h[4] = Piece(g, "body")
  BY <1>2, <1>3, <1>4
<1>6. Len(h) = 4
  BY HelloLength
<1>7. ASSUME NEW j \in 1 .. Len(h) PROVE h[j] = HelloPart(x, g, j)
  <2>1. j = 1 \/ j = 2 \/ j = 3 \/ j = 4
    BY <1>6, <1>7
  <2> QED
    BY <1>5, <2>1, SMTT(30) DEF HelloPart
<1> QED
  BY <1>5, <1>7 DEF Tells

-------------------------------------------------------------------------------
(* How a step changes the flow of one direction.                            *)

LEMMA Indices ==
  ASSUME NEW c \in Chains, chain = c, NEW d \in Direction
  PROVE  /\ Len(chain) \in Nat \ {0} /\ LastIdx(d) \in 0 .. Len(chain) /\ FirstIdx(d) \in 0 .. Len(chain)
         /\ \A j \in 1 .. Len(chain) : InIdx(d, j) \in 0 .. Len(chain) /\ OutIdx(d, j) \in 0 .. Len(chain)
         /\ \A j \in 1 .. Len(chain) : InIdx(d, j) # LastIdx(d) /\ OutIdx(d, j) # FirstIdx(d)
         /\ \A i, j \in 1 .. Len(chain) : (InIdx(d, i) = InIdx(d, j) \/ OutIdx(d, i) = OutIdx(d, j)) => i = j
         /\ \A i \in 0 .. Len(chain) :
              Node(chain, i) \in Dialler /\ \A j \in 0 .. Len(chain) : Node(chain, i) = Node(chain, j) => i = j
<1>1. Len(chain) \in Nat \ {0}
  BY NodesDiffer
<1>2. \A i \in 0 .. Len(chain) :
        Node(chain, i) \in Dialler /\ \A j \in 0 .. Len(chain) : Node(chain, i) = Node(chain, j) => i = j
  BY NodesDiffer, RelayChainAssumption DEF Dialler
<1> QED
  BY <1>1, <1>2 DEF Direction, InIdx, OutIdx, LastIdx, FirstIdx

(* A relay's thread of a direction goes on as it was, or for good.          *)
Alike(r, d) ==
  \/ handler'[r] = handler[r] /\ (handler[r] = "forward" => thread'[r][d] = thread[r][d])
  \/ handler[r] = "listen" /\ handler'[r] = "first"
  \/ handler[r] = "connect" /\ handler'[r] = "hello"
  \/ /\ d = "back_node"
     /\ handler[r] \in Early \cup {"hello"} /\ handler'[r] \in Early \cup {"hello"}
Lost(r, d) ==
  \/ handler'[r] = "over"
  \/ handler'[r] = "forward" /\ thread'[r][d].at = "ended"
Calms(p, q) == q.got = p.got /\ q.astray = p.astray /\ q.sent = p.sent

LEMMA RelayCalm ==
  ASSUME NEW c \in Chains, chain = c, chain' = chain, NEW d \in Direction,
         NEW j \in 1 .. Len(chain), Alike(chain[j], d) \/ Lost(chain[j], d),
         Dense' => Dense
  PROVE  /\ Attends(chain[j], d)' => Attends(chain[j], d)
         /\ \A lo, hi : RelayCell(d, j, lo, hi) => RelayCell(d, j, lo, hi)'
<1> DEFINE r == chain[j]
<1>1. r' = r
  OBVIOUS
<1>2. CASE Lost(r, d)
  <2>1. ~Attends(r, d)'
    BY <1>1, <1>2 DEF Lost, Attends
  <2>2. ASSUME NEW lo, NEW hi PROVE RelayCell(d, j, lo, hi)'
    <3>1. \/ handler'[chain'[j]] = "over"
          \/ handler'[chain'[j]] = "forward" /\ thread'[chain'[j]][d].at = "ended"
      BY <1>2 DEF Lost
    <3> QED
      BY ONLY <3>1 DEF RelayCell
  <2> QED
    BY <2>1, <2>2
<1>3. CASE Alike(r, d)
  <2>1. Attends(r, d)' => Attends(r, d)
    BY <1>1, <1>3 DEF Alike, Attends, Early
  <2>2. \A i : Carries(d, i)' = Carries(d, i) /\ First(d, i)' = First(d, i) /\ OutIdx(d, i)' = OutIdx(d, i)
    BY DEF Carries, First, OutIdx
  <2>3. ASSUME NEW lo, NEW hi, RelayCell(d, j, lo, hi) PROVE RelayCell(d, j, lo, hi)'
    <3>1. CASE handler[r] = "forward"
      <4>1. handler'[r] = "forward" /\ thread'[r][d] = thread[r][d]
        BY <1>3, <3>1 DEF Alike, Early
      <4> QED
        BY <1>1, <2>2, <2>3, <3>1, <4>1 DEF RelayCell
    <3>2. CASE handler[r] # "forward"
      <4>1. handler'[r] # "forward"
        BY <1>3, <3>2 DEF Alike, Early
      <4> QED
        BY <1>1, <1>3, <2>2, <2>3, <3>2, <4>1 DEF RelayCell, Alike, Early
    <3> QED
      BY <3>1, <3>2
  <2> QED
    BY <2>1, <2>3
<1> QED
  BY <1>2, <1>3

LEMMA InTouchOf ==
  ASSUME NEW c \in Chains, chain = c, NEW d \in Direction
  PROVE  /\ InTouch(d, LastIdx(d)) <=> ~Reader(d).astray
         /\ \A j \in 1 .. Len(chain) : InTouch(d, InIdx(d, j)) <=> Attends(chain[j], d)
         /\ \A i \in 0 .. Len(chain) : i = LastIdx(d) \/ \E j \in 1 .. Len(chain) : i = InIdx(d, j)
<1>1. Len(chain) \in Nat \ {0}
  BY NodesDiffer
<1>2. CASE d = "next_node"
  BY <1>1, <1>2 DEF InTouch, LastIdx, InIdx
<1>3. CASE d = "back_node"
  BY <1>1, <1>3 DEF InTouch, LastIdx, InIdx
<1> QED
  BY <1>2, <1>3 DEF Direction

(* Only the two bounds of one pipe move.                                    *)
LEMMA OneCell ==
  ASSUME NEW c \in Chains, chain = c, chain' = chain, NEW d \in Direction,
         NEW r \in [0 .. Len(chain) -> 0 .. Top], NEW w \in [0 .. Len(chain) -> 0 .. Top],
         NEW k \in 0 .. Len(chain), NEW lo \in 0 .. Top, NEW hi \in 0 .. Top,
         \A i \in 0 .. Len(chain) : i # k => PipeCell(d, i, r[i], w[i])',
         PipeCell(d, k, lo, hi)',
         \A j \in 1 .. Len(chain) :
           RelayCell(d, j, IF InIdx(d, j) = k THEN lo ELSE r[InIdx(d, j)],
                           IF OutIdx(d, j) = k THEN hi ELSE w[OutIdx(d, j)])',
         SinkCell(d, IF LastIdx(d) = k THEN lo ELSE r[LastIdx(d)])',
         SourceCell(d, IF FirstIdx(d) = k THEN hi ELSE w[FirstIdx(d)])'
  PROVE  Flow(d)'
<1> DEFINE r2 == [r EXCEPT ![k] = lo]
           w2 == [w EXCEPT ![k] = hi]
<1>1. /\ LastIdx(d) \in 0 .. Len(chain) /\ FirstIdx(d) \in 0 .. Len(chain)
      /\ \A j \in 1 .. Len(chain) : InIdx(d, j) \in 0 .. Len(chain) /\ OutIdx(d, j) \in 0 .. Len(chain)
  BY Indices
<1>2. /\ r2 \in [0 .. Len(chain) -> 0 .. Top] /\ w2 \in [0 .. Len(chain) -> 0 .. Top]
      /\ \A i \in 0 .. Len(chain) : /\ r2[i] = IF i = k THEN lo ELSE r[i]
                                    /\ w2[i] = IF i = k THEN hi ELSE w[i]
  OBVIOUS
<1> HIDE DEF r2, w2
<1>3. LastIdx(d)' = LastIdx(d) /\ FirstIdx(d)' = FirstIdx(d) /\ Len(chain)' = Len(chain)
  BY DEF LastIdx, FirstIdx
<1>4. \A i \in 0 .. Len(chain) : PipeCell(d, i, r2[i], w2[i])'
  BY <1>2
<1>5. \A j \in 1 .. Len(chain) : RelayCell(d, j, r2[InIdx(d, j)], w2[OutIdx(d, j)])'
  BY <1>1, <1>2
<1>6. SinkCell(d, r2[LastIdx(d)])' /\ SourceCell(d, w2[FirstIdx(d)])'
  BY <1>1, <1>2, <1>3
<1>7. FlowBody(d, r2, w2)'
  BY <1>3, <1>4, <1>5, <1>6 DEF FlowBody
<1> QED
  BY <1>2, <1>3, <1>7 DEF Flow

LEMMA TouchCalm ==
  ASSUME NEW c \in Chains, chain = c, chain' = chain, NEW d \in Direction,
         NEW i \in 0 .. Len(chain),
         i = LastIdx(d) => Reader(d)'.astray = Reader(d).astray,
         \A j \in 1 .. Len(chain) : i = InIdx(d, j) =>
           (Attends(chain[j], d)' => Attends(chain[j], d))
  PROVE  InTouch(d, i)' => InTouch(d, i)
<1>1. Len(chain) \in Nat \ {0} /\ LastIdx(d)' = LastIdx(d)
  BY NodesDiffer DEF LastIdx
<1>2. CASE i = LastIdx(d)
  BY <1>1, <1>2 DEF InTouch
<1>3. CASE i # LastIdx(d)
  <2>1. PICK j \in 1 .. Len(chain) : i = InIdx(d, j) /\ j = IF d = "next_node" THEN i + 1 ELSE i
    <3>1. CASE d = "next_node"
      <4>1. i + 1 \in 1 .. Len(chain) /\ i = i + 1 - 1
        BY <1>1, <1>3, <3>1 DEF LastIdx
      <4> QED
        BY <3>1, <4>1 DEF InIdx
    <3>2. CASE d = "back_node"
      <4>1. i \in 1 .. Len(chain)
        BY <1>1, <1>3, <3>2 DEF LastIdx
      <4> QED
        BY <3>2, <4>1 DEF InIdx
    <3> QED
      BY <3>1, <3>2 DEF Direction
  <2>2. (InTouch(d, i) <=> Attends(chain[j], d)) /\ (InTouch(d, i)' <=> Attends(chain[j], d)')
    BY <1>1, <1>3, <2>1 DEF InTouch
  <2> QED
    BY <2>1, <2>2
<1> QED
  BY <1>2, <1>3

(* What the relays, the pipes and the ends that take no part in a step of   *)
(* direction d do: relay n is the one that may, k the pipe.                 *)
Bystanders(d, n, k) ==
  /\ \A j \in 1 .. Len(chain) : j # n => Alike(chain[j], d) \/ Lost(chain[j], d)
  /\ \A i \in 0 .. Len(chain) : i # k =>
       Eases(Carries(d, i), link[Node(chain, i)], link'[Node(chain, i)])
  /\ Dense' => Dense

PipeSteps(d, i, lo, hi, m) ==
  PipeFrom(Carries(d, i), link[Node(chain, i)], lo, hi, Dense) =>
    PipeFrom(Carries(d, i), link'[Node(chain, i)], lo, m, Dense')

LEMMA CarriesSame ==
  ASSUME chain' = chain
  PROVE  \A d, i : Carries(d, i)' = Carries(d, i) /\ Node(chain, i)' = Node(chain, i)
BY DEF Carries, Node

LEMMA PipeCalm ==
  ASSUME chain' = chain, NEW d, NEW i, InTouch(d, i)' => InTouch(d, i),
         NEW lo, NEW hi, NEW m, PipeSteps(d, i, lo, hi, m), PipeCell(d, i, lo, hi)
  PROVE  PipeCell(d, i, lo, m)'
BY CarriesSame DEF PipeCell, PipeSteps

LEMMA EasesSteps ==
  ASSUME NEW d, NEW i, Eases(Carries(d, i), link[Node(chain, i)], link'[Node(chain, i)]),
         Dense' => Dense, NEW lo \in 0 .. Top, NEW hi \in 0 .. Top
  PROVE  PipeSteps(d, i, lo, hi, hi)
<1>1. Dense \in BOOLEAN /\ Dense' \in BOOLEAN
  BY DEF Dense
<1>2. PipeFrom(Carries(d, i), link[Node(chain, i)], lo, hi, Dense) =>
        PipeFrom(Carries(d, i), link'[Node(chain, i)], lo, hi, Dense)
  BY <1>1 DEF Eases
<1>3. \A t, l : PipeFrom(t, l, lo, hi, Dense) => PipeFrom(t, l, lo, hi, Dense')
  BY DEF PipeFrom
<1> QED
  BY <1>2, <1>3 DEF PipeSteps

LEMMA OthersKept ==
  ASSUME NEW c \in Chains, chain = c, chain' = chain, NEW d \in Direction,
         NEW n \in Int, NEW k \in Int, Bystanders(d, n, k),
         NEW r, NEW w, FlowBody(d, r, w)
  PROVE  \A j \in 1 .. Len(chain) : j # n =>
           /\ Attends(chain[j], d)' => Attends(chain[j], d)
           /\ RelayCell(d, j, r[InIdx(d, j)], w[OutIdx(d, j)])'
<1> SUFFICES ASSUME NEW j \in 1 .. Len(chain), j # n
             PROVE  /\ Attends(chain[j], d)' => Attends(chain[j], d)
                    /\ RelayCell(d, j, r[InIdx(d, j)], w[OutIdx(d, j)])'
  OBVIOUS
<1>1. RelayCell(d, j, r[InIdx(d, j)], w[OutIdx(d, j)])
  BY DEF FlowBody
<1>2. Alike(chain[j], d) \/ Lost(chain[j], d)
  BY DEF Bystanders
<1>3. /\ Attends(chain[j], d)' => Attends(chain[j], d)
      /\ \A lo, hi : RelayCell(d, j, lo, hi) => RelayCell(d, j, lo, hi)'
  BY <1>2, RelayCalm DEF Bystanders
<1>4. InIdx(d, j)' = InIdx(d, j) /\ OutIdx(d, j)' = OutIdx(d, j)
  BY DEF InIdx, OutIdx
<1> QED
  BY <1>1, <1>3, <1>4

LEMMA PipesKept ==
  ASSUME chain' = chain, NEW d, NEW n \in Int, NEW k \in Int, Bystanders(d, n, k),
         NEW r \in [0 .. Len(chain) -> 0 .. Top], NEW w \in [0 .. Len(chain) -> 0 .. Top],
         FlowBody(d, r, w)
  PROVE  \A i \in 0 .. Len(chain) :
           i # k /\ (InTouch(d, i)' => InTouch(d, i)) => PipeCell(d, i, r[i], w[i])'
<1> SUFFICES ASSUME NEW i \in 0 .. Len(chain), i # k, InTouch(d, i)' => InTouch(d, i)
             PROVE  PipeCell(d, i, r[i], w[i])'
  OBVIOUS
<1>1. r[i] \in 0 .. Top /\ w[i] \in 0 .. Top /\ PipeCell(d, i, r[i], w[i])
  BY DEF FlowBody
<1>2. PipeSteps(d, i, r[i], w[i], w[i])
  BY <1>1, EasesSteps DEF Bystanders
<1> QED
  BY <1>1, <1>2, PipeCalm

(* Nobody reads or writes.                                                  *)
LEMMA FlowCalm ==
  ASSUME NEW c \in Chains, chain = c, chain' = chain, NEW d \in Direction, Flow(d),
         Bystanders(d, -1, -1), Calms(client, client'), Calms(exit, exit')
  PROVE  Flow(d)'
<1>1. PICK r, w \in [0 .. Len(chain) -> 0 .. Top] : FlowBody(d, r, w)
  BY DEF Flow
<1>2. /\ 0 \in 0 .. Len(chain) /\ Reader(d)'.astray = Reader(d).astray
      /\ \A j \in 1 .. Len(chain) : j # -1 /\ \A i \in 0 .. Len(chain) : i # -1
  BY NodesDiffer DEF Calms, Reader
<1>3. /\ \A j \in 1 .. Len(chain) : RelayCell(d, j, r[InIdx(d, j)], w[OutIdx(d, j)])'
      /\ \A i \in 0 .. Len(chain) : PipeCell(d, i, r[i], w[i])'
  <2>1. \A j \in 1 .. Len(chain) :
          /\ Attends(chain[j], d)' => Attends(chain[j], d)
          /\ RelayCell(d, j, r[InIdx(d, j)], w[OutIdx(d, j)])'
    <3>1. \A j \in 1 .. Len(chain) : j # -1 =>
            /\ Attends(chain[j], d)' => Attends(chain[j], d)
            /\ RelayCell(d, j, r[InIdx(d, j)], w[OutIdx(d, j)])'
      BY ONLY chain' = chain, chain = c, c \in Chains, d \in Direction, Bystanders(d, -1, -1), <1>1, OthersKept
    <3> QED
      BY <1>2, <3>1
  <2>2. \A i \in 0 .. Len(chain) : InTouch(d, i)' => InTouch(d, i)
    BY <1>2, <2>1, TouchCalm
  <2>3. \A i \in 0 .. Len(chain) : PipeCell(d, i, r[i], w[i])'
    <3>1. \A i \in 0 .. Len(chain) :
            i # -1 /\ (InTouch(d, i)' => InTouch(d, i)) => PipeCell(d, i, r[i], w[i])'
      BY ONLY chain' = chain, Bystanders(d, -1, -1), <1>1, PipesKept
    <3> QED
      BY <1>2, <2>2, <3>1
  <2> QED
    BY <2>1, <2>3
<1>4. SinkCell(d, r[LastIdx(d)])' /\ SourceCell(d, w[FirstIdx(d)])'
  BY <1>1 DEF FlowBody, Bystanders, Calms, SinkCell, SourceCell, Reader, Carries, LastIdx, FirstIdx
<1>5. FlowBody(d, r, w)'
  BY <1>3, <1>4 DEF FlowBody
<1> QED
  BY <1>1, <1>5 DEF Flow

(* Relay n reads, as a handler or as a thread.                              *)
LEMMA FlowReads ==
  ASSUME NEW c \in Chains, chain = c, chain' = chain, NEW d \in Direction, Flow(d),
         NEW n \in 1 .. Len(chain), Bystanders(d, n, InIdx(d, n)),
         Calms(client, client'), Calms(exit, exit'),
         \A lo, hi, b \in 0 .. Top :
           PipeCell(d, InIdx(d, n), lo, hi) /\ RelayCell(d, n, lo, b) =>
             \E m \in 0 .. Top : PipeCell(d, InIdx(d, n), m, hi)' /\ RelayCell(d, n, m, b)'
  PROVE  Flow(d)'
<1>1. PICK r, w \in [0 .. Len(chain) -> 0 .. Top] : FlowBody(d, r, w)
  BY DEF Flow
<1>0. PICK k \in 0 .. Len(chain) : k = InIdx(d, n)
  BY Indices
<1>2. /\ Bystanders(d, n, k) /\ k # LastIdx(d) /\ OutIdx(d, n) # k
      /\ LastIdx(d) \in 0 .. Len(chain) /\ FirstIdx(d) \in 0 .. Len(chain)
      /\ \A j \in 1 .. Len(chain) : /\ InIdx(d, j) = k => j = n
                                    /\ OutIdx(d, j) \in 0 .. Len(chain)
      /\ Reader(d)'.astray = Reader(d).astray
  BY <1>0, Indices DEF InIdx, OutIdx, Calms, Reader
<1>3. PipeCell(d, k, r[k], w[k]) /\ RelayCell(d, n, r[k], w[OutIdx(d, n)])
  BY <1>0, <1>1, <1>2 DEF FlowBody
<1>4. PICK m \in 0 .. Top : PipeCell(d, k, m, w[k])' /\ RelayCell(d, n, m, w[OutIdx(d, n)])'
  <2>1. r[k] \in 0 .. Top /\ w[k] \in 0 .. Top /\ w[OutIdx(d, n)] \in 0 .. Top
    BY <1>2
  <2> QED
    BY <1>0, <1>3, <2>1
<1>5. \A j \in 1 .. Len(chain) : j # n =>
        /\ Attends(chain[j], d)' => Attends(chain[j], d)
        /\ RelayCell(d, j, r[InIdx(d, j)], w[OutIdx(d, j)])'
  <2>1. Bystanders(d, n, k) /\ n \in Int /\ k \in Int
    BY <1>2
  <2> QED
    BY ONLY chain' = chain, chain = c, c \in Chains, d \in Direction, <1>1, <2>1, OthersKept
<1>6. \A i \in 0 .. Len(chain) : i # k => PipeCell(d, i, r[i], w[i])'
  <2>1. ASSUME NEW i \in 0 .. Len(chain), i # k PROVE InTouch(d, i)' => InTouch(d, i)
    <3>1. \A j \in 1 .. Len(chain) : i = InIdx(d, j) => (Attends(chain[j], d)' => Attends(chain[j], d))
      BY <1>0, <1>5, <2>1
    <3> QED
      BY <1>2, <3>1, TouchCalm
  <2>2. ASSUME NEW i \in 0 .. Len(chain), i # k PROVE PipeCell(d, i, r[i], w[i])'
    <3>1. InTouch(d, i)' => InTouch(d, i)
      BY <2>1, <2>2
    <3>2. Bystanders(d, n, k) /\ n \in Int /\ k \in Int
      BY <1>2
    <3>3. \A a \in 0 .. Len(chain) :
            a # k /\ (InTouch(d, a)' => InTouch(d, a)) => PipeCell(d, a, r[a], w[a])'
      BY ONLY chain' = chain, <1>1, <3>2, PipesKept
    <3> QED
      BY <2>2, <3>1, <3>3
  <2> QED
    BY <2>2
<1>7. SinkCell(d, r[LastIdx(d)])' /\ SourceCell(d, w[FirstIdx(d)])'
  BY <1>1 DEF FlowBody, Bystanders, Calms, SinkCell, SourceCell, Reader, Carries, LastIdx, FirstIdx
<1>8. \A j \in 1 .. Len(chain) :
        RelayCell(d, j, IF InIdx(d, j) = k THEN m ELSE r[InIdx(d, j)],
                        IF OutIdx(d, j) = k THEN w[k] ELSE w[OutIdx(d, j)])'
  <2>1. ASSUME NEW j \in 1 .. Len(chain)
        PROVE  RelayCell(d, j, IF InIdx(d, j) = k THEN m ELSE r[InIdx(d, j)], w[OutIdx(d, j)])'
    <3>1. CASE j = n
      BY <1>0, <1>4, <3>1
    <3>2. CASE j # n
      BY <1>2, <1>5, <3>2
    <3> QED
      BY <3>1, <3>2
  <2>2. \A j : (IF OutIdx(d, j) = k THEN w[k] ELSE w[OutIdx(d, j)]) = w[OutIdx(d, j)]
    OBVIOUS
  <2>3. \A j : OutIdx(d, j)' = OutIdx(d, j) /\ InIdx(d, j)' = InIdx(d, j)
    BY DEF OutIdx, InIdx
  <2> QED
    BY <2>1, <2>2, <2>3
<1>9. SinkCell(d, IF LastIdx(d) = k THEN m ELSE r[LastIdx(d)])'
  BY <1>2, <1>7 DEF LastIdx
<1>10. SourceCell(d, IF FirstIdx(d) = k THEN w[k] ELSE w[FirstIdx(d)])'
  BY <1>7
<1>11. w[k] \in 0 .. Top
  BY <1>2
<1> QED
  BY <1>2, <1>4, <1>6, <1>8, <1>9, <1>10, <1>11, OneCell

(* Relay n writes.                                                          *)
LEMMA FlowWrites ==
  ASSUME NEW c \in Chains, chain = c, chain' = chain, NEW d \in Direction, Flow(d),
         NEW n \in 1 .. Len(chain), Bystanders(d, n, OutIdx(d, n)),
         Calms(client, client'), Calms(exit, exit'),
         Attends(chain[n], d)' => Attends(chain[n], d),
         \A a, hi \in 0 .. Top : RelayCell(d, n, a, hi) =>
           \E m \in 0 .. Top : /\ RelayCell(d, n, a, m)'
                               /\ \A lo \in 0 .. Top : PipeSteps(d, OutIdx(d, n), lo, hi, m)
  PROVE  Flow(d)'
<1>1. PICK r, w \in [0 .. Len(chain) -> 0 .. Top] : FlowBody(d, r, w)
  BY DEF Flow
<1>0. PICK k \in 0 .. Len(chain) : k = OutIdx(d, n)
  BY Indices
<1>2. /\ Bystanders(d, n, k) /\ k # FirstIdx(d) /\ InIdx(d, n) # k
      /\ LastIdx(d) \in 0 .. Len(chain) /\ FirstIdx(d) \in 0 .. Len(chain)
      /\ \A j \in 1 .. Len(chain) : /\ OutIdx(d, j) = k => j = n
                                    /\ InIdx(d, j) \in 0 .. Len(chain)
      /\ Reader(d)'.astray = Reader(d).astray
  BY <1>0, Indices DEF InIdx, OutIdx, Calms, Reader
<1>3. PipeCell(d, k, r[k], w[k]) /\ RelayCell(d, n, r[InIdx(d, n)], w[k])
  BY <1>0, <1>1, <1>2 DEF FlowBody
<1>4. PICK m \in 0 .. Top : RelayCell(d, n, r[InIdx(d, n)], m)' /\ PipeSteps(d, k, r[k], w[k], m)
  <2>1. r[k] \in 0 .. Top /\ w[k] \in 0 .. Top /\ r[InIdx(d, n)] \in 0 .. Top
    BY <1>2
  <2> QED
    BY <1>0, <1>3, <2>1
<1>5. \A j \in 1 .. Len(chain) :
        /\ Attends(chain[j], d)' => Attends(chain[j], d)
        /\ j # n => RelayCell(d, j, r[InIdx(d, j)], w[OutIdx(d, j)])'
  <2>1. Bystanders(d, n, k) /\ n \in Int /\ k \in Int
    BY <1>2
  <2>2. \A j \in 1 .. Len(chain) : j # n =>
          /\ Attends(chain[j], d)' => Attends(chain[j], d)
          /\ RelayCell(d, j, r[InIdx(d, j)], w[OutIdx(d, j)])'
    BY ONLY chain' = chain, chain = c, c \in Chains, d \in Direction, <1>1, <2>1, OthersKept
  <2> QED
    BY <2>2
<1>6. \A i \in 0 .. Len(chain) : InTouch(d, i)' => InTouch(d, i)
  BY <1>2, <1>5, TouchCalm
<1>7. \A i \in 0 .. Len(chain) : i # k => PipeCell(d, i, r[i], w[i])'
  <2>1. Bystanders(d, n, k) /\ n \in Int /\ k \in Int
    BY <1>2
  <2>2. \A i \in 0 .. Len(chain) :
          i # k /\ (InTouch(d, i)' => InTouch(d, i)) => PipeCell(d, i, r[i], w[i])'
    BY ONLY chain' = chain, <1>1, <2>1, PipesKept
  <2> QED
    BY <1>6, <2>2
<1>8. PipeCell(d, k, r[k], m)'
  BY <1>3, <1>4, <1>6, PipeCalm
<1>9. SinkCell(d, r[LastIdx(d)])' /\ SourceCell(d, w[FirstIdx(d)])'
  BY <1>1 DEF FlowBody, Bystanders, Calms, SinkCell, SourceCell, Reader, Carries, LastIdx, FirstIdx
<1>10. \A j \in 1 .. Len(chain) :
        RelayCell(d, j, IF InIdx(d, j) = k THEN r[k] ELSE r[InIdx(d, j)],
                        IF OutIdx(d, j) = k THEN m ELSE w[OutIdx(d, j)])'
  <2>1. ASSUME NEW j \in 1 .. Len(chain)
        PROVE  RelayCell(d, j, r[InIdx(d, j)], IF OutIdx(d, j) = k THEN m ELSE w[OutIdx(d, j)])'
    <3>1. CASE j = n
      BY <1>0, <1>4, <3>1 DEF OutIdx, InIdx
    <3>2. CASE j # n
      <4>1. OutIdx(d, j) # k /\ OutIdx(d, j)' = OutIdx(d, j)
        BY <1>2, <3>2 DEF OutIdx
      <4> QED
        BY <1>5, <3>2, <4>1
    <3> QED
      BY <3>1, <3>2
  <2>2. \A j : (IF InIdx(d, j) = k THEN r[k] ELSE r[InIdx(d, j)]) = r[InIdx(d, j)]
    OBVIOUS
  <2>3. \A j : OutIdx(d, j)' = OutIdx(d, j) /\ InIdx(d, j)' = InIdx(d, j)
    BY DEF OutIdx, InIdx
  <2> QED
    BY <2>1, <2>2, <2>3
<1>11. SinkCell(d, IF LastIdx(d) = k THEN r[k] ELSE r[LastIdx(d)])'
  BY <1>9
<1>12. SourceCell(d, IF FirstIdx(d) = k THEN m ELSE w[FirstIdx(d)])'
  BY <1>2, <1>9 DEF FirstIdx
<1>13. r[k] \in 0 .. Top
  OBVIOUS
<1> QED
  BY <1>7, <1>8, <1>10, <1>11, <1>12, <1>13, OneCell

(* The end that direction d leads to reads.                                 *)
LEMMA FlowSinks ==
  ASSUME NEW c \in Chains, chain = c, chain' = chain, NEW d \in Direction, Flow(d),
         Bystanders(d, -1, LastIdx(d)), client'.sent = client.sent, exit'.sent = exit.sent,
         \A lo, hi \in 0 .. Top :
           PipeCell(d, LastIdx(d), lo, hi) /\ SinkCell(d, lo) =>
             \E m \in 0 .. Top : PipeCell(d, LastIdx(d), m, hi)' /\ SinkCell(d, m)'
  PROVE  Flow(d)'
<1>1. PICK r, w \in [0 .. Len(chain) -> 0 .. Top] : FlowBody(d, r, w)
  BY DEF Flow
<1>0. PICK k \in 0 .. Len(chain) : k = LastIdx(d)
  BY Indices
<1>2. /\ Bystanders(d, -1, k) /\ k # FirstIdx(d)
      /\ \A j \in 1 .. Len(chain) : j # -1 /\ InIdx(d, j) # k
      /\ LastIdx(d)' = k /\ Len(chain) \in Nat \ {0}
  <2>1. Len(chain) \in Nat \ {0}
    BY NodesDiffer
  <2> QED
    BY <1>0, <2>1, Indices DEF FirstIdx, LastIdx
<1>3. PICK m \in 0 .. Top : PipeCell(d, k, m, w[k])' /\ SinkCell(d, m)'
  <2>1. r[k] \in 0 .. Top /\ w[k] \in 0 .. Top /\ PipeCell(d, k, r[k], w[k]) /\ SinkCell(d, r[k])
    BY <1>0, <1>1 DEF FlowBody
  <2> QED
    BY <1>0, <2>1, <1>2
<1>5. \A j \in 1 .. Len(chain) :
        /\ Attends(chain[j], d)' => Attends(chain[j], d)
        /\ RelayCell(d, j, r[InIdx(d, j)], w[OutIdx(d, j)])'
  <2>1. Bystanders(d, -1, k) /\ -1 \in Int /\ k \in Int
    BY <1>2
  <2>2. \A j \in 1 .. Len(chain) : j # -1 =>
          /\ Attends(chain[j], d)' => Attends(chain[j], d)
          /\ RelayCell(d, j, r[InIdx(d, j)], w[OutIdx(d, j)])'
    BY ONLY chain' = chain, chain = c, c \in Chains, d \in Direction, <1>1, <2>1, OthersKept
  <2> QED
    BY <1>2, <2>2
<1>6. \A i \in 0 .. Len(chain) : i # k => (InTouch(d, i)' => InTouch(d, i))
  BY <1>0, <1>5, TouchCalm
<1>7. \A i \in 0 .. Len(chain) : i # k => PipeCell(d, i, r[i], w[i])'
  <2>1. Bystanders(d, -1, k) /\ -1 \in Int /\ k \in Int
    BY <1>2
  <2>2. \A i \in 0 .. Len(chain) :
          i # k /\ (InTouch(d, i)' => InTouch(d, i)) => PipeCell(d, i, r[i], w[i])'
    BY ONLY chain' = chain, <1>1, <2>1, PipesKept
  <2> QED
    BY <1>6, <2>2
<1>9. SourceCell(d, w[FirstIdx(d)])'
  BY <1>1 DEF FlowBody, SourceCell, FirstIdx
<1>10. \A j \in 1 .. Len(chain) :
        RelayCell(d, j, IF InIdx(d, j) = k THEN m ELSE r[InIdx(d, j)],
                        IF OutIdx(d, j) = k THEN w[k] ELSE w[OutIdx(d, j)])'
  <2>2. \A j : (IF OutIdx(d, j) = k THEN w[k] ELSE w[OutIdx(d, j)]) = w[OutIdx(d, j)]
    OBVIOUS
  <2>3. \A j : OutIdx(d, j)' = OutIdx(d, j) /\ InIdx(d, j)' = InIdx(d, j)
    BY DEF OutIdx, InIdx
  <2> QED
    BY <1>2, <1>5, <2>2, <2>3
<1>11. SinkCell(d, IF LastIdx(d) = k THEN m ELSE r[LastIdx(d)])'
  BY <1>2, <1>3
<1>12. SourceCell(d, IF FirstIdx(d) = k THEN w[k] ELSE w[FirstIdx(d)])'
  BY <1>9
<1>13. w[k] \in 0 .. Top
  OBVIOUS
<1> QED
  BY <1>3, <1>7, <1>10, <1>11, <1>12, <1>13, OneCell

(* The end that direction d starts from writes.                             *)
LEMMA FlowSources ==
  ASSUME NEW c \in Chains, chain = c, chain' = chain, NEW d \in Direction, Flow(d),
         Bystanders(d, -1, FirstIdx(d)), Reader(d)'.got = Reader(d).got,
         Reader(d)'.astray = Reader(d).astray,
         \A hi \in 0 .. Top : SourceCell(d, hi) =>
           \E m \in 0 .. Top : /\ SourceCell(d, m)'
                               /\ \A lo \in 0 .. Top : PipeSteps(d, FirstIdx(d), lo, hi, m)
  PROVE  Flow(d)'
<1>1. PICK r, w \in [0 .. Len(chain) -> 0 .. Top] : FlowBody(d, r, w)
  BY DEF Flow
<1>0. PICK k \in 0 .. Len(chain) : k = FirstIdx(d)
  BY Indices
<1>2. /\ Bystanders(d, -1, k) /\ k # LastIdx(d)
      /\ \A j \in 1 .. Len(chain) : j # -1 /\ OutIdx(d, j) # k
      /\ FirstIdx(d)' = k /\ LastIdx(d)' = LastIdx(d) /\ Len(chain) \in Nat \ {0}
  <2>1. Len(chain) \in Nat \ {0}
    BY NodesDiffer
  <2> QED
    BY <1>0, <2>1, Indices DEF FirstIdx, LastIdx
<1>3. PICK m \in 0 .. Top : SourceCell(d, m)' /\ PipeSteps(d, k, r[k], w[k], m)
  <2>1. r[k] \in 0 .. Top /\ w[k] \in 0 .. Top /\ SourceCell(d, w[k])
    BY <1>0, <1>1 DEF FlowBody
  <2> QED
    BY <1>0, <2>1
<1>5. \A j \in 1 .. Len(chain) :
        /\ Attends(chain[j], d)' => Attends(chain[j], d)
        /\ RelayCell(d, j, r[InIdx(d, j)], w[OutIdx(d, j)])'
  <2>1. Bystanders(d, -1, k) /\ -1 \in Int /\ k \in Int
    BY <1>2
  <2>2. \A j \in 1 .. Len(chain) : j # -1 =>
          /\ Attends(chain[j], d)' => Attends(chain[j], d)
          /\ RelayCell(d, j, r[InIdx(d, j)], w[OutIdx(d, j)])'
    BY ONLY chain' = chain, chain = c, c \in Chains, d \in Direction, <1>1, <2>1, OthersKept
  <2> QED
    BY <1>2, <2>2
<1>6. \A i \in 0 .. Len(chain) : InTouch(d, i)' => InTouch(d, i)
  BY <1>5, TouchCalm
<1>7. \A i \in 0 .. Len(chain) : i # k => PipeCell(d, i, r[i], w[i])'
  <2>1. Bystanders(d, -1, k) /\ -1 \in Int /\ k \in Int
    BY <1>2
  <2>2. \A i \in 0 .. Len(chain) :
          i # k /\ (InTouch(d, i)' => InTouch(d, i)) => PipeCell(d, i, r[i], w[i])'
    BY ONLY chain' = chain, <1>1, <2>1, PipesKept
  <2> QED
    BY <1>6, <2>2
<1>8. PipeCell(d, k, r[k], m)'
  <2>1. PipeCell(d, k, r[k], w[k])
    BY <1>1 DEF FlowBody
  <2> QED
    BY <1>3, <1>6, <2>1, PipeCalm
<1>9. SinkCell(d, r[LastIdx(d)])'
  BY <1>1 DEF FlowBody, Bystanders, SinkCell, Reader, Carries, LastIdx
<1>10. \A j \in 1 .. Len(chain) :
        RelayCell(d, j, IF InIdx(d, j) = k THEN r[k] ELSE r[InIdx(d, j)],
                        IF OutIdx(d, j) = k THEN m ELSE w[OutIdx(d, j)])'
  <2>2. \A j : (IF InIdx(d, j) = k THEN r[k] ELSE r[InIdx(d, j)]) = r[InIdx(d, j)]
    OBVIOUS
  <2>3. \A j : OutIdx(d, j)' = OutIdx(d, j) /\ InIdx(d, j)' = InIdx(d, j)
    BY DEF OutIdx, InIdx
  <2> QED
    BY <1>2, <1>5, <2>2, <2>3
<1>11. SinkCell(d, IF LastIdx(d) = k THEN r[k] ELSE r[LastIdx(d)])'
  BY <1>9
<1>12. SourceCell(d, IF FirstIdx(d) = k THEN m ELSE w[FirstIdx(d)])'
  BY <1>2, <1>3
<1>13. r[k] \in 0 .. Top
  OBVIOUS
<1> QED
  BY <1>7, <1>8, <1>10, <1>11, <1>12, <1>13, OneCell

-------------------------------------------------------------------------------
(* Where a step takes place.                                                *)

LEMMA OnChain ==
  ASSUME RouteInv, chain # <<>>, NEW r \in Relay, handler[r] # "listen"
  PROVE  /\ chain \in Chains
         /\ \E n \in 1 .. Len(chain) : chain[n] = r /\ Node(chain, n) = r /\ Node(chain, n - 1) = origin[r]
<1>1. chain \in Chains
  BY ChainIs
<1>2. origin[r] # Exit
  BY DEF RouteInv, Dialled
<1>3. PICK i \in 1 .. Len(chain) + 1 : r = Node(chain, i) /\ origin[r] = Node(chain, i - 1)
  BY <1>2 DEF RouteInv, Along
<1>4. i # Len(chain) + 1
  BY <1>1, <1>3, NodesDiffer, RelayChainAssumption
<1>5. Len(chain) \in Nat
  BY <1>1, NodesDiffer
<1>6. i \in 1 .. Len(chain)
  BY <1>4, <1>5
<1>7. chain[i] = r
  BY <1>1, <1>3, <1>6, NodesDiffer
<1> QED
  BY <1>1, <1>3, <1>6, <1>7

LEMMA ExitOn ==
  ASSUME RouteInv, chain # <<>>, Connected
  PROVE  origin[Exit] = Node(chain, Len(chain))
<1>1. chain \in Chains
  BY ChainIs
<1>2. PICK i \in 1 .. Len(chain) + 1 : Exit = Node(chain, i) /\ origin[Exit] = Node(chain, i - 1)
  BY DEF RouteInv, Along, Connected
<1>3. Len(chain) \in Nat /\ Node(chain, Len(chain) + 1) = Exit
  BY <1>1, NodesDiffer
<1>4. i = Len(chain) + 1
  BY <1>1, <1>2, <1>3, NodesDiffer
<1> QED
  BY <1>2, <1>3, <1>4

(* What a step does to the pipes of direction d of a link.                  *)
LaneFor(d) == IF d = "back_node" THEN "down" ELSE "up"
EasesFor(d, l, m) ==
  \A lo, hi \in 0 .. Top, dense \in BOOLEAN, t \in Loads : Lane(t) = LaneFor(d) =>
    (PipeFrom(t, l, lo, hi, dense) => PipeFrom(t, m, lo, hi, dense))

LEMMA EasesForIs ==
  ASSUME NEW d, NEW l, NEW m
  PROVE  EasesFor(d, l, m) <=> \A t \in Loads : Lane(t) = LaneFor(d) => Eases(t, l, m)
BY DEF EasesFor, Eases

LEMMA EasesForSame ==
  ASSUME NEW d, NEW l, NEW m, m[LaneFor(d)] = l[LaneFor(d)], Whence(m) => Whence(l)
  PROVE  EasesFor(d, l, m)
BY EasesForIs, EasesSame

LEMMA EasesForEnds ==
  ASSUME NEW c, NEW l \in Link(c), NEW e \in {"dialling", "accepted"}, NEW d
  PROVE  /\ EasesFor(d, l, Close(l, e)) /\ EasesFor(d, l, l)
         /\ \A m \in Gone(l, e) : EasesFor(d, l, m)
BY EasesForIs, EasesClose, EasesGone, EasesForSame

LEMMA CarriesLane ==
  \A d \in Direction : \A i : Carries(d, i) \in Loads /\ Lane(Carries(d, i)) = LaneFor(d)
BY DEF Carries, Loads, Lane, LaneFor, Direction

LEMMA StandBy ==
  ASSUME NEW c \in Chains, chain = c, NEW d \in Direction, NEW n \in Int, NEW k \in Int,
         \A q \in Relay : (n \in 1 .. Len(chain) /\ q = chain[n]) \/ Alike(q, d) \/ Lost(q, d),
         \A x \in Dialler : (k \in 0 .. Len(chain) /\ x = Node(chain, k))
                            \/ EasesFor(d, link[x], link'[x]),
         Dense' => Dense
  PROVE  Bystanders(d, n, k)
<1>1. ASSUME NEW j \in 1 .. Len(chain), j # n PROVE Alike(chain[j], d) \/ Lost(chain[j], d)
  <2>1. chain[j] \in Relay /\ (n \in 1 .. Len(chain) => chain[j] # chain[n])
    <3>1. chain[j] \in Relay /\ Node(chain, j) = chain[j] /\ j \in 0 .. Len(chain) + 1
      BY NodesDiffer
    <3>2. n \in 1 .. Len(chain) => Node(chain, n) = chain[n] /\ n \in 0 .. Len(chain) + 1
      BY NodesDiffer
    <3> QED
      BY <1>1, <3>1, <3>2, NodesDiffer
  <2> QED
    BY <2>1
<1>2. ASSUME NEW i \in 0 .. Len(chain), i # k
      PROVE  Eases(Carries(d, i), link[Node(chain, i)], link'[Node(chain, i)])
  <2>1. Node(chain, i) \in Dialler /\ (k \in 0 .. Len(chain) => Node(chain, i) # Node(chain, k))
    BY <1>2, Indices
  <2>2. EasesFor(d, link[Node(chain, i)], link'[Node(chain, i)])
    BY <2>1
  <2> QED
    BY <2>2, EasesForIs, CarriesLane
<1> QED
  BY <1>1, <1>2 DEF Bystanders

(* A step in which nobody reads or writes.                                  *)
LEMMA CalmFlow ==
  ASSUME RouteInv, chain # <<>>, chain' = chain, NEW d \in Direction, Flow(d),
         \A q \in Relay : Alike(q, d) \/ Lost(q, d),
         \A x \in Dialler : EasesFor(d, link[x], link'[x]),
         Dense' => Dense, Calms(client, client'), Calms(exit, exit')
  PROVE  Flow(d)'
<1>1. PICK c \in Chains : c = chain
  BY ChainIs
<1>2. Bystanders(d, -1, -1)
  BY <1>1, StandBy
<1> QED
  BY <1>1, <1>2, FlowCalm

LEMMA LinkStill ==
  ASSUME RouteInv
  PROVE  /\ \A x \in Dialler : /\ link[x] \in Link(chain)
                               /\ \A d : EasesFor(d, link[x], link[x])
         /\ link \in [Dialler -> Link(chain)]
<1>1. link \in [Dialler -> Link(chain)]
  BY DEF RouteInv, Types
<1> QED
  BY <1>1, EasesForEnds

LEMMA ReleaseFlow ==
  ASSUME RouteInv, chain # <<>>, NEW x \in Dialler, NEW e \in {"dialling", "accepted"},
         Release(x, e), NEW d \in Direction, Flow(d)
  PROVE  Flow(d)'
<1>1. PICK m \in Gone(link[x], e) : link' = [link EXCEPT ![x] = m]
  BY DEF Release
<1>2. \A y \in Dialler : EasesFor(d, link[y], link'[y])
  BY <1>1, LinkStill, EasesForEnds
<1>3. /\ chain' = chain /\ \A q \in Relay : Alike(q, d) \/ Lost(q, d)
      /\ Dense' => Dense
      /\ Calms(client, client') /\ Calms(exit, exit')
  BY DEF Release, Alike, Dense, Calms
<1> QED
  BY <1>2, <1>3, CalmFlow

LEMMA EndFlow ==
  ASSUME RouteInv, chain # <<>>, NEW d \in Direction, Flow(d),
         ClientClose \/ ClientSeesEnd \/ ExitClose \/ ExitSeesEnd
  PROVE  Flow(d)'
<1>1. \A y \in Dialler : EasesFor(d, link[y], link'[y])
  <2>1. CASE link' = link
    BY <2>1, LinkStill
  <2>2. CASE \E x \in Dialler, e \in {"dialling", "accepted"} : link' = [link EXCEPT ![x] = Close(@, e)]
    BY <2>2, LinkStill, EasesForEnds
  <2>3. Connected => origin[Exit] \in Dialler
    BY ExitLink
  <2> QED
    BY <2>1, <2>2, <2>3, EndTypes DEF ClientClose, ClientSeesEnd, ExitClose, ExitSeesEnd
<1>2. client' \in {client, [client EXCEPT !.ended = TRUE]} /\ exit' \in {exit, [exit EXCEPT !.ended = TRUE]}
      /\ UNCHANGED <<chain, handler, thread, slow>>
  BY DEF ClientClose, ClientSeesEnd, ExitClose, ExitSeesEnd, SeesEnd
<1>3. client \in End /\ exit \in End
  BY EndTypes
<1>4. Calms(client, client') /\ Calms(exit, exit')
  BY <1>2, <1>3 DEF Calms, End
<1>5. /\ chain' = chain /\ \A q \in Relay : Alike(q, d)
      /\ Dense' => Dense
  BY <1>2 DEF Alike, Dense
<1> QED
  BY <1>1, <1>4, <1>5, CalmFlow

-------------------------------------------------------------------------------
(* The handlers.                                                            *)

(* A reader that is in step takes the first frame of a pipe.                *)
LEMMA ReadPipe ==
  ASSUME NEW c, NEW l \in Link(c), NEW t \in Loads, NEW q, q = l[Lane(t)], HasFrame(q), InStep(q),
         NEW lo \in 0 .. Top, NEW hi \in 0 .. Top, NEW dense \in BOOLEAN,
         PipeFrom(t, l, lo, hi, dense),
         NEW m, m[Lane(t)] = Rest(q), Whence(m) => Whence(l)
  PROVE  LET f == FrameIn(q)
         IN /\ Carried(t, f) /\ lo <= Number(f) /\ Number(f) \in 0 .. Top
            /\ Following(Number(f)) \in 0 .. Top /\ Following(Number(f)) <= hi
            /\ dense => Number(f) \in {lo, Top}
            /\ PipeFrom(t, m, Following(Number(f)), hi, dense)
<1> DEFINE S == Pieces(Frames \cup Blobs(c))
           b == Rest(q)
<1>1. q \in Seq(S)
  BY LinkLanes
<1>2. 2 <= Len(q) /\ b = SubSeq(q, 2 + 1, Len(q)) /\ Len(q) \in Nat
  BY <1>1, RestIs
<1>3. b \in Seq(S) /\ Len(b) = Len(q) - 2 /\ \A k \in 1 .. Len(b) : b[k] = q[k + 2]
  BY <1>1, <1>2
<1>4. \A k \in 1 .. Len(q) : q[k].part \in Part
  <2>1. \A p \in S : p.part \in Part
    BY DEF Pieces
  <2> HIDE DEF S
  <2>2. ASSUME NEW k \in 1 .. Len(q) PROVE q[k].part \in Part
    <3>1. q[k] \in S
      BY <1>1
    <3> QED
      BY <2>1, <3>1
  <2> QED
    BY <2>2
<1>5. q[2].part = "body" /\ FrameIn(q) = q[1].of
  BY DEF InStep, FrameIn, Piece
<1> HIDE DEF b, S
<1>6. Line(t, q, lo, hi) /\ (dense => Gapless(q, lo) /\ (Whence(l) => Complete(q, lo, hi)))
  BY DEF PipeFrom
<1>7. LET f == q[1].of
          n == Following(Number(f))
      IN /\ Carried(t, f) /\ lo <= Number(f) /\ n <= hi
         /\ Line(t, b, n, hi)
         /\ Gapless(q, lo) => Number(f) \in {lo, Top} /\ Gapless(b, n)
         /\ Complete(q, lo, hi) => Complete(b, n, hi)
  BY <1>1, <1>3, <1>4, <1>5, <1>6, LineRead
<1>8. Number(q[1].of) \in 0 .. Top /\ Following(Number(q[1].of)) \in 0 .. Top
  <2>1. Number(q[1].of) \in 0 .. Top /\ Following(Number(q[1].of)) \in 1 .. Top
    BY <1>7, Numbers
  <2> QED
    BY <2>1
<1>9. m[Lane(t)] = b
  BY DEF b
<1> QED
  BY <1>5, <1>6, <1>7, <1>8, <1>9 DEF PipeFrom

(* The connection of a handler that still reads.                            *)
LEMMA HandlerPipe ==
  ASSUME RouteInv, chain # <<>>, NEW r \in Relay, handler[r] # "listen",
         NEW n \in 1 .. Len(chain), chain[n] = r, Node(chain, n - 1) = origin[r]
  PROVE  /\ InIdx("next_node", n) = n - 1 /\ Node(chain, InIdx("next_node", n)) = origin[r]
         /\ OutIdx("next_node", n) = n /\ Node(chain, OutIdx("next_node", n)) = r
         /\ InIdx("back_node", n) = n /\ OutIdx("back_node", n) = n - 1
         /\ Carries("next_node", n - 1) = "hops" /\ Lane("hops") = "up"
         /\ Prev(r) = link[origin[r]] /\ n \in Int /\ n - 1 \in Int
         /\ n \in 0 .. Len(chain) /\ n - 1 \in 0 .. Len(chain) /\ chain \in Chains
<1>1. chain \in Chains /\ Len(chain) \in Nat
  BY OnChain, NodesDiffer
<1>2. Node(chain, n) = r
  BY <1>1, NodesDiffer
<1> QED
  BY <1>1, <1>2 DEF InIdx, OutIdx, Carries, Lane, Prev

(* What a handler finds there, given that it reads in step or not at all.   *)
LEMMA HandlerFinds ==
  ASSUME RouteInv, chain # <<>>, NEW r \in Relay, handler[r] \in {"first", "layer"},
         HasFrame(Prev(r).up), FrameIn(Prev(r).up) # Junk,
         NEW n \in 1 .. Len(chain), chain[n] = r, Node(chain, n - 1) = origin[r],
         NEW lo \in 0 .. Top, NEW hi \in 0 .. Top, PipeCell("next_node", n - 1, lo, hi),
         NEW m, m.up = Rest(Prev(r).up), Whence(m) => Whence(Prev(r))
  PROVE  LET f == FrameIn(Prev(r).up)
         IN /\ Carried("hops", f) /\ Following(Number(f)) \in 0 .. Top
            /\ PipeFrom("hops", m, Following(Number(f)), hi, Dense)
<1>1. /\ Prev(r) = link[origin[r]] /\ Node(chain, n - 1) = origin[r]
      /\ Carries("next_node", n - 1) = "hops" /\ Lane("hops") = "up"
  BY HandlerPipe
<1>2. InTouch("next_node", n - 1)
  <2>1. Len(chain) \in Nat /\ n - 1 # Len(chain)
    BY OnChain, NodesDiffer
  <2> QED
    BY <2>1 DEF InTouch, LastIdx, Attends
<1>3. PipeFrom("hops", Prev(r), lo, hi, Dense)
  BY <1>1, <1>2 DEF PipeCell
<1>4. Prev(r) \in Link(chain) /\ InStep(Prev(r).up) /\ Dense \in BOOLEAN /\ "hops" \in Loads
  BY HandlerLink DEF FrameIn, Dense, Loads
<1> QED
  BY <1>1, <1>3, <1>4, ReadPipe

(* The first frame that the relay of a chain reads names a circuit.         *)
LEMMA FirstIsKnown ==
  ASSUME RouteInv, chain # <<>>, Flow("next_node"), NEW r \in Relay, handler[r] = "first",
         HasFrame(Prev(r).up), FrameIn(Prev(r).up).tag = "kind"
  PROVE  FrameIn(Prev(r).up).kind \in Onions \cup {"RELAY"}
<1> DEFINE f == FrameIn(Prev(r).up)
           m == [Prev(r) EXCEPT !.up = Rest(@)]
<1>1. PICK n \in 1 .. Len(chain) : chain[n] = r /\ Node(chain, n - 1) = origin[r]
  BY OnChain
<1>2. n - 1 \in 0 .. Len(chain)
  BY <1>1, HandlerPipe
<1>3. PICK lo, hi \in 0 .. Top : PipeCell("next_node", n - 1, lo, hi)
  <2>1. PICK a, b \in [0 .. Len(chain) -> 0 .. Top] : FlowBody("next_node", a, b)
    BY DEF Flow
  <2>2. PipeCell("next_node", n - 1, a[n - 1], b[n - 1])
    BY <1>2, <2>1 DEF FlowBody
  <2> QED
    BY <1>2, <2>2
<1>4. m.up = Rest(Prev(r).up) /\ (Whence(m) => Whence(Prev(r)))
  BY HandlerLink DEF Link, Whence
<1>5. f # Junk
  BY DEF Junk
<1> HIDE DEF m
<1>6. Carried("hops", f)
  BY <1>1, <1>3, <1>4, <1>5, HandlerFinds
<1>7. f.tag = "kind"
  OBVIOUS
<1> HIDE DEF f
<1>8. \/ f = Junk \/ f.tag = "blob"
      \/ \E k \in 0 .. MaxData : f = Data(k)
      \/ \E k \in Onions \cup {"RELAY"} : f = Kind(k)
  BY ONLY <1>6 DEF Carried
<1>9. \A k : Data(k).tag = "data" /\ Kind(k).kind = k
  BY DEF Data, Kind
<1>10. f.kind \in Onions \cup {"RELAY"}
  BY <1>5, <1>7, <1>8, <1>9
<1> QED
  BY <1>10 DEF f

LEMMA FirstFlow ==
  ASSUME RouteInv, chain # <<>>, NEW r \in Relay, HandleFirst(r),
         NEW d \in Direction, Flow(d), Flow("next_node")
  PROVE  Flow(d)'
<1> DEFINE f == FrameIn(Prev(r).up)
<1>1. handler[r] = "first" /\ HasFrame(Prev(r).up) /\ f.tag = "kind"
  BY DEF HandleFirst
<1>2. f.kind \in Onions \cup {"RELAY"} /\ f # Junk
  BY <1>1, FirstIsKnown DEF Junk
<1>3. PICK m : /\ m = [Prev(r) EXCEPT !.up = Rest(Prev(r).up)]
               /\ link' = [link EXCEPT ![origin[r]] = m]
               /\ handler' = [handler EXCEPT ![r] = "layer"]
  BY <1>2 DEF HandleFirst
<1>4. UNCHANGED <<chain, thread, slow, client, exit>>
  BY DEF HandleFirst, HandlerFrame
<1>5. PICK n \in 1 .. Len(chain) : chain[n] = r /\ Node(chain, n) = r /\ Node(chain, n - 1) = origin[r]
  BY <1>1, OnChain
<1>6. /\ InIdx("next_node", n) = n - 1 /\ Prev(r) = link[origin[r]] /\ n - 1 \in 0 .. Len(chain)
      /\ Carries("next_node", n - 1) = "hops" /\ Lane("hops") = "up"
      /\ chain \in Chains
  BY <1>1, <1>5, HandlerPipe
<1>7. /\ m.up = Rest(Prev(r).up) /\ m.down = Prev(r).down /\ (Whence(m) => Whence(Prev(r)))
      /\ origin[r] \in Dialler
  BY <1>1, <1>3, HandlerLink DEF Link, Whence
<1>8. link'[origin[r]] = m /\ \A x \in Dialler : x # origin[r] => link'[x] = link[x]
  BY <1>3, <1>7, LinkStill
<1>9. handler'[r] = "layer" /\ \A q \in Relay : q # r => handler'[q] = handler[q]
  BY <1>3 DEF RouteInv, Types
<1>10. Calms(client, client') /\ Calms(exit, exit') /\ (Dense' => Dense) /\ chain' = chain
       /\ \A q \in Relay : q = r \/ Alike(q, d)
  BY <1>4, <1>9 DEF Calms, Dense, Alike
<1>11. CASE d = "back_node"
  <2>1. \A q \in Relay : Alike(q, d) \/ Lost(q, d)
    BY <1>1, <1>9, <1>10, <1>11 DEF Alike, Early
  <2>2. \A x \in Dialler : EasesFor(d, link[x], link'[x])
    BY <1>6, <1>7, <1>8, <1>11, EasesForSame, LinkStill DEF LaneFor
  <2> QED
    BY <1>10, <2>1, <2>2, CalmFlow
<1>12. CASE d = "next_node"
  <2>1. Bystanders(d, n, n - 1)
    <3>1. \A q \in Relay : (n \in 1 .. Len(chain) /\ q = chain[n]) \/ Alike(q, d) \/ Lost(q, d)
      BY <1>5, <1>10
    <3>2. \A x \in Dialler : (n - 1 \in 0 .. Len(chain) /\ x = Node(chain, n - 1))
                            \/ EasesFor(d, link[x], link'[x])
      BY <1>5, <1>6, <1>8, LinkStill
    <3> QED
      BY <1>6, <1>10, <3>1, <3>2, StandBy
  <2>2. ASSUME NEW lo \in 0 .. Top, NEW hi \in 0 .. Top, NEW b \in 0 .. Top,
               PipeCell(d, n - 1, lo, hi), RelayCell(d, n, lo, b)
        PROVE  \E k \in 0 .. Top : PipeCell(d, n - 1, k, hi)' /\ RelayCell(d, n, k, b)'
    <3>1. Number(f) = 0 /\ Following(Number(f)) = 1 /\ 1 \in 0 .. Top
      <4>1. Number(f) = 0
        BY <1>1 DEF Number
      <4> QED
        BY <4>1, Places
    <3>2. PipeFrom("hops", m, 1, hi, Dense)
      BY <1>1, <1>2, <1>5, <1>7, <1>12, <2>2, <3>1, HandlerFinds
    <3>3. PipeCell(d, n - 1, 1, hi)'
      BY <1>4, <1>5, <1>6, <1>8, <1>12, <3>2, CarriesSame DEF PipeCell, Dense
    <3>4. RelayCell(d, n, 1, b)'
      BY <1>1, <1>4, <1>5, <1>9, <1>12, <2>2 DEF RelayCell, First, OutIdx
    <3> QED
      BY <3>1, <3>3, <3>4
  <2> QED
    BY <1>6, <1>10, <1>12, <2>1, <2>2, FlowReads
<1> QED
  BY <1>11, <1>12 DEF Direction

LEMMA LayerFlow ==
  ASSUME RouteInv, chain # <<>>, NEW r \in Relay, HandleLayer(r), NEW d \in Direction, Flow(d)
  PROVE  Flow(d)'
<1> DEFINE f == FrameIn(Prev(r).up)
           opens == f.tag = "blob" /\ CanPeel(<<r, key[r]>>, f.layer)
<1>1. handler[r] = "layer" /\ HasFrame(Prev(r).up)
  BY DEF HandleLayer
<1>2. PICK n \in 1 .. Len(chain) : chain[n] = r /\ Node(chain, n) = r /\ Node(chain, n - 1) = origin[r]
  BY <1>1, OnChain
<1>3. /\ InIdx("next_node", n) = n - 1 /\ Prev(r) = link[origin[r]] /\ n - 1 \in 0 .. Len(chain)
      /\ Carries("next_node", n - 1) = "hops" /\ Lane("hops") = "up"
      /\ chain \in Chains
  BY <1>1, <1>2, HandlerPipe
<1>4. PICK m : /\ link' = [link EXCEPT ![origin[r]] = m]
               /\ m.up = Rest(Prev(r).up) /\ m.down = Prev(r).down /\ (Whence(m) => Whence(Prev(r)))
               /\ \/ opens /\ handler' = [handler EXCEPT ![r] = "connect"]
                  \/ handler' = [handler EXCEPT ![r] = "over"]
  <2> DEFINE l == [Prev(r) EXCEPT !.up = Rest(@)]
  <2>1. l.up = Rest(Prev(r).up) /\ l.down = Prev(r).down /\ (Whence(l) => Whence(Prev(r)))
    BY <1>1, HandlerLink DEF Link, Whence
  <2>2. l \in Link(chain)
    BY <1>1, HandlerReads DEF Prev
  <2>3. /\ Close(l, "accepted").up = l.up /\ Close(l, "accepted").down = l.down
        /\ (Whence(Close(l, "accepted")) <=> Whence(l))
    BY <2>2, EasesClose DEF Loads
  <2> HIDE DEF l
  <2>4. \/ opens /\ handler' = [handler EXCEPT ![r] = "connect"] /\ link' = [link EXCEPT ![origin[r]] = l]
        \/ /\ handler' = [handler EXCEPT ![r] = "over"]
           /\ link' = [link EXCEPT ![origin[r]] = Close(l, "accepted")]
    BY DEF HandleLayer, l
  <2> QED
    BY <2>1, <2>3, <2>4
<1>5. UNCHANGED <<chain, thread, slow, client, exit>>
  BY DEF HandleLayer, HandlerFrame
<1>6. origin[r] \in Dialler
  BY <1>1, HandlerLink
<1>7. link'[origin[r]] = m /\ \A x \in Dialler : x # origin[r] => link'[x] = link[x]
  BY <1>4, <1>6, LinkStill
<1>8. /\ \A q \in Relay : q # r => handler'[q] = handler[q]
      /\ (opens /\ handler'[r] = "connect") \/ handler'[r] = "over"
  BY <1>4 DEF RouteInv, Types
<1>9. Calms(client, client') /\ Calms(exit, exit') /\ (Dense' => Dense) /\ chain' = chain
      /\ \A q \in Relay : q = r \/ Alike(q, d)
  BY <1>5, <1>8 DEF Calms, Dense, Alike
<1>10. CASE d = "back_node"
  <2>1. \A q \in Relay : Alike(q, d) \/ Lost(q, d)
    BY <1>1, <1>8, <1>9, <1>10 DEF Alike, Early, Lost
  <2>2. \A x \in Dialler : EasesFor(d, link[x], link'[x])
    BY <1>3, <1>4, <1>7, <1>10, EasesForSame, LinkStill DEF LaneFor
  <2> QED
    BY <1>9, <2>1, <2>2, CalmFlow
<1>11. CASE d = "next_node"
  <2>1. Bystanders(d, n, n - 1)
    <3>1. \A q \in Relay : (n \in 1 .. Len(chain) /\ q = chain[n]) \/ Alike(q, d) \/ Lost(q, d)
      BY <1>2, <1>9
    <3>2. \A x \in Dialler : (n - 1 \in 0 .. Len(chain) /\ x = Node(chain, n - 1))
                            \/ EasesFor(d, link[x], link'[x])
      BY <1>2, <1>3, <1>7, LinkStill
    <3> QED
      BY <1>3, <1>9, <3>1, <3>2, StandBy
  <2>2. ASSUME NEW lo \in 0 .. Top, NEW hi \in 0 .. Top, NEW b \in 0 .. Top,
               PipeCell(d, n - 1, lo, hi), RelayCell(d, n, lo, b)
        PROVE  \E k \in 0 .. Top : PipeCell(d, n - 1, k, hi)' /\ RelayCell(d, n, k, b)'
    <3>1. CASE opens /\ handler'[r] = "connect"
      <4>1. Number(f) = 1 /\ Following(Number(f)) = 2 /\ 2 \in 0 .. Top /\ f # Junk
        <5>1. Number(f) = 1
          BY <3>1 DEF Number
        <5> QED
          BY <3>1, <5>1, Places DEF Junk
      <4>2. PipeFrom("hops", m, 2, hi, Dense)
        BY <1>1, <1>2, <1>4, <1>11, <2>2, <4>1, HandlerFinds
      <4>3. PipeCell(d, n - 1, 2, hi)'
        BY <1>5, <1>2, <1>3, <1>7, <1>11, <4>2, CarriesSame DEF PipeCell, Dense
      <4>4. RelayCell(d, n, 2, b)'
        BY <1>1, <1>2, <1>5, <1>11, <2>2, <3>1 DEF RelayCell, First, OutIdx
      <4> QED
        BY <4>1, <4>3, <4>4
    <3>2. CASE handler'[r] = "over"
      <4>1. ~InTouch(d, n - 1)'
        <5>1. Len(chain) \in Nat /\ n - 1 # Len(chain) /\ chain'[n - 1 + 1] = r
          BY <1>2, <1>3, <1>5, NodesDiffer
        <5> QED
          BY <1>5, <1>11, <3>2, <5>1 DEF InTouch, LastIdx, Attends
      <4>2. RelayCell(d, n, lo, b)'
        BY <1>2, <1>5, <3>2 DEF RelayCell
      <4> QED
        BY <4>1, <4>2 DEF PipeCell
    <3> QED
      BY <1>8, <3>1, <3>2
  <2> QED
    BY <1>3, <1>9, <1>11, <2>1, <2>2, FlowReads
<1> QED
  BY <1>10, <1>11 DEF Direction

(* A handler that is over, and everything of a relay that was restarted.    *)
LEMMA OverFlow ==
  ASSUME RouteInv, chain # <<>>, NEW r \in Relay,
         HandlerGivesUp(r) \/ ConnectFails(r) \/ Restart(r), NEW d \in Direction, Flow(d)
  PROVE  Flow(d)'
<1>1. UNCHANGED <<chain, client, exit, slow>>
  BY DEF HandlerGivesUp, ConnectFails, Restart, HandlerFrame
<1>2. Calms(client, client') /\ Calms(exit, exit') /\ (Dense' => Dense) /\ chain' = chain
  BY <1>1 DEF Calms, Dense
<1>3. handler \in [Relay -> Early \cup {"hello", "forward", "over"}]
  BY DEF RouteInv, Types, Early
<1>4. CASE HandlerGivesUp(r) \/ ConnectFails(r)
  <2>1. /\ handler[r] # "listen" /\ handler' = [handler EXCEPT ![r] = "over"]
        /\ link' = [link EXCEPT ![origin[r]] = Close(@, "accepted")] /\ thread' = thread
    BY <1>4 DEF HandlerGivesUp, ConnectFails
  <2>2. \A q \in Relay : Alike(q, d) \/ Lost(q, d)
    BY <1>3, <2>1 DEF Alike, Lost
  <2>3. \A x \in Dialler : EasesFor(d, link[x], link'[x])
    BY <2>1, LinkStill, EasesForEnds
  <2> QED
    BY <1>2, <2>2, <2>3, CalmFlow
<1>5. CASE Restart(r)
  <2>1. PICK t : thread' = [thread EXCEPT ![r] = t]
    BY <1>5 DEF Restart
  <2>2. thread \in [Relay -> [Direction -> Thread]]
    BY DEF RouteInv, Types
  <2>3. \A q \in Relay : q # r => thread'[q] = thread[q]
    BY <2>1, <2>2
  <2>4. CASE handler[r] = "listen" /\ UNCHANGED <<handler, link>>
    <3>1. \A q \in Relay : Alike(q, d) \/ Lost(q, d)
      BY <2>3, <2>4 DEF Alike
    <3>2. \A x \in Dialler : EasesFor(d, link[x], link'[x])
      BY <2>4, LinkStill
    <3> QED
      BY <1>2, <3>1, <3>2, CalmFlow
  <2>5. CASE handler[r] # "listen" /\ handler' = [handler EXCEPT ![r] = "over"]
             /\ \E p \in Gone(Prev(r), "accepted"), n \in Gone(link[r], "dialling") :
                  link' = [link EXCEPT ![origin[r]] = p, ![r] = n]
    <3>1. \A q \in Relay : Alike(q, d) \/ Lost(q, d)
      BY <1>3, <2>3, <2>5 DEF Alike, Lost
    <3>2. PICK p \in Gone(link[origin[r]], "accepted"), n \in Gone(link[r], "dialling") :
            link' = [link EXCEPT ![origin[r]] = p, ![r] = n]
      BY <2>5 DEF Prev
    <3>3. origin[r] \in Dialler /\ origin[r] # r /\ r \in Dialler
      BY <2>5, HandlerLink
    <3>4. EasesFor(d, link[origin[r]], p) /\ EasesFor(d, link[r], n)
      BY <3>3, LinkStill, EasesForEnds
    <3>5. \A x \in Dialler : EasesFor(d, link[x], link'[x])
      BY <3>2, <3>3, <3>4, LinkStill
    <3> QED
      BY <1>2, <3>1, <3>5, CalmFlow
  <2> QED
    BY <1>5, <2>4, <2>5 DEF Restart
<1> QED
  BY <1>4, <1>5

LEMMA ConnectFlow ==
  ASSUME RouteInv, Quiet, chain # <<>>, NEW r \in Relay, Connect(r), NEW d \in Direction, Flow(d)
  PROVE  Flow(d)'
<1>1. /\ handler[r] = "connect" /\ Listens(hop[r].addr)
      /\ link' = [link EXCEPT ![r] = NewLink(<<>>)]
      /\ handler' = [q \in Relay |-> IF q = r THEN "hello"
                                     ELSE IF q = hop[r].addr THEN "first"
                                     ELSE handler[q]]
      /\ UNCHANGED <<chain, thread, client, exit, slow>>
  BY DEF Connect
<1>2. Unused(link[r]) /\ r \in Dialler
  BY <1>1 DEF Quiet, Early, Dialler
<1>3. EasesFor(d, link[r], NewLink(<<>>))
  <2>1. NewLink(<<>>)[LaneFor(d)] = link[r][LaneFor(d)] /\ Whence(link[r])
    BY <1>2, FreshLink DEF Unused, LaneFor, Whence
  <2> QED
    BY <2>1, EasesForSame
<1>4. \A x \in Dialler : EasesFor(d, link[x], link'[x])
  BY <1>1, <1>2, <1>3, LinkStill
<1>5. \A q \in Relay : Alike(q, d) \/ Lost(q, d)
  <2>1. \A q \in Relay : q = hop[r].addr => handler[q] = "listen"
    BY <1>1, RelayChainAssumption DEF Listens
  <2> QED
    BY <1>1, <2>1 DEF Alike
<1>6. Calms(client, client') /\ Calms(exit, exit') /\ (Dense' => Dense) /\ chain' = chain
  BY <1>1 DEF Calms, Dense
<1> QED
  BY <1>4, <1>5, <1>6, CalmFlow

(* A part of what a relay is told first.                                    *)
LEMMA HelloTold ==
  ASSUME NEW F, NEW x \in F, NEW g \in F, x = Kind("RELAY"), g.tag = "blob",
         NEW h, h = Whole(x) \o Whole(g), NEW k \in 0 .. Len(h), NEW p, p = SubSeq(h, 1, k)
  PROVE  /\ p \in Seq(Pieces(F)) /\ Line("hops", p, 0, 2) /\ Gapless(p, 0)
         /\ k = Len(h) => Complete(p, 0, 2)
<1>1. Len(h) = 4 /\ h \in Seq(Pieces(F)) /\ Tells(h, x, g)
  BY HelloLength, HelloParts
<1>2. p \in Seq(Pieces(F)) /\ Len(p) = k /\ Tells(p, x, g)
  <2>1. p \in Seq(Pieces(F)) /\ Len(p) = k /\ \A j \in 1 .. k : j \in 1 .. Len(h) /\ p[j] = h[j]
    BY ONLY <1>1, k \in 0 .. Len(h), p = SubSeq(h, 1, k), FirstOf
  <2> QED
    BY ONLY <1>1, <2>1 DEF Tells
<1>3. "RELAY" \in Onions \cup {"RELAY"} /\ Len(p) <= 4 /\ Tells(p, Kind("RELAY"), g)
  BY <1>1, <1>2
<1>4. Line("hops", p, 0, 2) /\ Gapless(p, 0) /\ (Len(p) = 4 => Complete(p, 0, 2))
  BY ONLY <1>2, <1>3, g.tag = "blob", HelloLine
<1> QED
  BY <1>1, <1>2, <1>4

(* What the next node gets first, or the first part of it.                  *)
LEMMA HelloPipe ==
  ASSUME RouteInv, NEW r \in Relay, handler[r] = "hello",
         NEW n \in 1 .. Len(chain), chain[n] = r, chain \in Chains,
         NEW k \in 0 .. Len(HelloPieces(hop[r])), NEW dense \in BOOLEAN,
         dense => Dense /\ (k = Len(HelloPieces(hop[r])) \/ link[r].accepted = "closed"),
         NEW lo \in 0 .. Top, NEW t, t = Carries("next_node", n),
         PipeFrom(t, link[r], lo, First("next_node", n), Dense),
         NEW p, p = SubSeq(HelloPieces(hop[r]), 1, k)
  PROVE  PipeFrom(t, Write(link[r], "dialling", p), lo, 2, dense)
<1>1. /\ link[r].up = <<>> /\ link[r].dialling = "open" /\ link[r].accepted # "none"
      /\ hop[r] # NoHop /\ link[r] \in Link(chain) /\ Len(chain) \in Nat
  BY HandlerLink, NodesDiffer DEF RouteInv, HelloFresh, Along
<1>2. hop[r] = HopOf(chain, n)
  <2>1. PICK i \in 1 .. Len(chain) : chain[i] = r /\ hop[r] = HopOf(chain, i)
    BY <1>1, HopNode
  <2>2. i = n
    BY <2>1, <1>1, NodesDiffer
  <2> QED
    BY <2>1, <2>2
<1>3. /\ Following(0) = 1 /\ Following(1) = 2 /\ Top \in Nat /\ 2 \in 0 .. Top /\ 1 \in 0 .. Top
      /\ First("next_node", n) \in 0 .. 1 /\ Dense \in BOOLEAN
  BY Places, <1>1 DEF First, Dense
<1>4. CASE link[r].accepted = "closed"
  <2>1. Write(link[r], "dialling", p) = link[r] /\ ~Whence(link[r])
    BY <1>4, Ends2 DEF Write, Whence
  <2>2. t = "exit" \/ t = "hops"
    BY DEF Carries
  <2>3. link[r][Lane(t)] = <<>>
    BY <1>1, <2>2, LaneIs
  <2>4. lo <= 2
    BY <1>3 DEF PipeFrom, Line
  <2>5. Line(t, <<>>, lo, 2) /\ Gapless(<<>>, lo)
    BY <2>4 DEF Line, Gapless
  <2> QED
    BY <2>1, <2>3, <2>5 DEF PipeFrom
<1>5. CASE n = Len(chain)
  <2>1. HelloPieces(hop[r]) = Whole(Data(0)) /\ t = "exit" /\ First("next_node", n) = 1
    BY <1>2, <1>5, LayersRoute DEF HelloPieces, Carries, First
  <2>2. Data(0) \in Frames /\ Carried("exit", Data(0)) /\ Number(Data(0)) = 1
    <3>1. 0 \in 0 .. MaxData
      BY RelayChainAssumption
    <3> QED
      BY <3>1, SomeFrames, SomeNumbers
  <2>3. Len(Whole(Data(0))) = 2
    BY <2>2, WholePieces
  <2>4. "exit" \in Loads /\ Lane("exit") = Out("dialling") /\ "dialling" \in {"dialling", "accepted"}
    BY LaneIs, Ends2 DEF Loads
  <2>5. CASE link[r].accepted # "closed"
    <3>1. dense => Dense /\ k = 2 /\ Number(Data(0)) \in {1, Top}
      BY <2>1, <2>2, <2>3, <2>5
    <3>2. k \in 0 .. 2 /\ p = SubSeq(Whole(Data(0)), 1, k) /\ 1 <= Number(Data(0))
      BY <2>1, <2>2, <2>3
    <3>3. link[r]["dialling"] # "closed" /\ PipeFrom("exit", link[r], lo, 1, Dense)
      BY <1>1, <2>1
    <3>4. PipeFrom("exit", Write(link[r], "dialling", p), lo, Following(Number(Data(0))), dense)
      BY ONLY <1>1, <1>3, <2>2, <2>4, <3>1, <3>2, <3>3, PipeWritten, lo \in 0 .. Top, dense \in BOOLEAN, ZenonT(30)
    <3> QED
      BY <1>3, <2>1, <2>2, <3>4
  <2> QED
    BY <1>4, <2>5
<1>6. CASE n # Len(chain) /\ link[r].accepted # "closed"
  <2>1. n + 1 \in 1 .. Len(chain)
    BY <1>1, <1>6
  <2>0. PICK x, g : x = Kind("RELAY") /\ g = Blob(LayersOf(chain)[n + 1])
    OBVIOUS
  <2>12. PICK F, h : F = Frames \cup Blobs(chain) /\ h = HelloPieces(hop[r])
    OBVIOUS
  <2>2. h = Whole(x) \o Whole(g)
    <3>1. HOP_NODE # HOP_SERVER
      BY DEF HOP_NODE, HOP_SERVER
    <3> QED
      BY <1>2, <1>6, <2>0, <2>1, <2>12, <3>1, LayersRoute DEF HelloPieces
  <2>3. x \in F /\ g \in F /\ g.tag = "blob" /\ "RELAY" \in Onions \cup {"RELAY"}
    BY <2>0, <2>1, <2>12, SomeFrames DEF Blobs, Blob
  <2>4. t = "hops" /\ First("next_node", n) = 0 /\ lo = 0
    <3>1. t = "hops" /\ First("next_node", n) = 0
      BY <1>1, <1>6 DEF Carries, First
    <3> QED
      BY <3>1 DEF PipeFrom, Line
  <2>6. k \in 0 .. Len(h) /\ p = SubSeq(h, 1, k)
    BY <2>12
  <2>9. /\ p \in Seq(Pieces(F)) /\ Line("hops", p, 0, 2) /\ Gapless(p, 0)
        /\ k = Len(h) => Complete(p, 0, 2)
    BY ONLY <2>0, <2>2, <2>3, <2>6, HelloTold
  <2>10. Write(link[r], "dialling", p).up = p
    <3>1. <<>> \o p = p
      BY <2>9
    <3>2. Write(link[r], "dialling", p) = [link[r] EXCEPT !.up = <<>> \o p]
      BY <1>1, <1>6, Ends2 DEF Write
    <3> QED
      BY <1>1, <3>1, <3>2 DEF Link
  <2>11. dense => k = Len(h)
    BY <1>6, <2>12
  <2> QED
    BY <2>4, <2>9, <2>10, <2>11, LaneIs DEF PipeFrom
<1> QED
  BY <1>4, <1>5, <1>6

LEMMA WriteOther ==
  ASSUME NEW c, NEW l \in Link(c), NEW e \in {"dialling", "accepted"}, NEW p
  PROVE  /\ Write(l, e, p)[In(e)] = l[In(e)]
         /\ Whence(Write(l, e, p)) <=> Whence(l)
BY Ends2 DEF Write, Whence, Link

LEMMA StartForwardingFlow ==
  ASSUME RouteInv, chain # <<>>, NEW r \in Relay, StartForwarding(r), NEW d \in Direction, Flow(d)
  PROVE  Flow(d)'
<1>1. /\ handler[r] = "hello"
      /\ link' = [link EXCEPT ![r] = Write(link[r], "dialling", HelloPieces(hop[r]))]
      /\ handler' = [handler EXCEPT ![r] = "forward"]
      /\ thread' = [thread EXCEPT ![r] = [x \in Direction |-> NewThread]]
      /\ UNCHANGED <<chain, slow, client, exit>>
  BY DEF StartForwarding, HandlerFrame
<1>2. PICK n \in 1 .. Len(chain) : chain[n] = r /\ Node(chain, n) = r /\ Node(chain, n - 1) = origin[r]
  BY <1>1, OnChain
<1>3. /\ OutIdx("next_node", n) = n /\ OutIdx("back_node", n) = n - 1
      /\ n \in 0 .. Len(chain) /\ n - 1 \in 0 .. Len(chain)
      /\ n \in Int /\ n - 1 \in Int /\ chain \in Chains
  BY <1>1, <1>2, HandlerPipe
<1>4. /\ handler'[r] = "forward" /\ \A q \in Relay : q # r => handler'[q] = handler[q]
      /\ \A q \in Relay : q # r => thread'[q] = thread[q]
      /\ thread'[r] = [x \in Direction |-> NewThread]
  BY <1>1 DEF RouteInv, Types
<1>5. thread'[r][d].at = "recv" /\ thread'[r][d].astray = FALSE
  BY <1>4 DEF NewThread
<1> DEFINE p == HelloPieces(hop[r])
           m == Write(link[r], "dialling", p)
<1>6. link'[r] = m /\ (\A x \in Dialler : x # r => link'[x] = link[x]) /\ r \in Dialler
  BY <1>1, HandlerLink, LinkStill
<1>7. /\ Calms(client, client') /\ Calms(exit, exit') /\ (Dense' <=> Dense) /\ chain' = chain
      /\ \A q \in Relay : q = r \/ Alike(q, d)
  BY <1>1, <1>4 DEF Calms, Dense, Alike
<1>8. Attends(chain[n], d)' => Attends(chain[n], d)
  BY <1>1, <1>2 DEF Attends
<1>9. \A q \in Relay : (n \in 1 .. Len(chain) /\ q = chain[n]) \/ Alike(q, d) \/ Lost(q, d)
  BY <1>2, <1>7
<1>10. p \in Seq(Pieces(Frames \cup Blobs(chain)))
  BY <1>1, HelloType
<1> HIDE DEF m, p
<1>11. CASE d = "next_node"
  <2>1. Bystanders(d, n, n)
    <3>1. \A x \in Dialler : (n \in 0 .. Len(chain) /\ x = Node(chain, n))
                            \/ EasesFor(d, link[x], link'[x])
      BY <1>2, <1>3, <1>6, LinkStill
    <3> QED
      BY <1>3, <1>7, <1>9, <3>1, StandBy
  <2>2. ASSUME NEW a \in 0 .. Top, NEW hi \in 0 .. Top, RelayCell(d, n, a, hi)
        PROVE  /\ RelayCell(d, n, a, 2)'
               /\ \A lo \in 0 .. Top : PipeSteps(d, n, lo, hi, 2)
    <3>1. a = 2 /\ hi = First(d, n)
      BY <1>1, <1>2, <1>3, <1>11, <2>2 DEF RelayCell
    <3>2. RelayCell(d, n, a, 2)'
      BY <1>2, <1>4, <1>5, <1>7, <3>1 DEF RelayCell
    <3>3. ASSUME NEW lo \in 0 .. Top PROVE PipeSteps(d, n, lo, hi, 2)
      <4>1. Len(p) \in 0 .. Len(p) /\ SubSeq(p, 1, Len(p)) = p /\ Dense \in BOOLEAN
        BY <1>10 DEF Dense
      <4>2. ASSUME PipeFrom(Carries(d, n), link[r], lo, hi, Dense)
            PROVE  PipeFrom(Carries(d, n), m, lo, 2, Dense)
        BY <1>1, <1>2, <1>3, <1>11, <3>1, <3>3, <4>1, <4>2, HelloPipe DEF m, p
      <4>3. link'[Node(chain, n)] = m /\ link[Node(chain, n)] = link[r]
        BY <1>2, <1>6
      <4>4. Dense' = Dense
        BY <1>1 DEF Dense
      <4> QED
        BY <4>2, <4>3, <4>4 DEF PipeSteps
    <3> QED
      BY <3>2, <3>3
  <2> QED
    BY <1>3, <1>7, <1>8, <1>11, <2>1, <2>2, Places, FlowWrites
<1>12. CASE d = "back_node"
  <2>1. \A x \in Dialler : EasesFor(d, link[x], link'[x])
    <3>1. m.down = link[r].down /\ (Whence(m) => Whence(link[r]))
      BY <1>6, LinkStill, WriteOther, Ends2 DEF m
    <3>2. EasesFor(d, link[r], m)
      BY <1>12, <3>1, EasesForSame DEF LaneFor
    <3> QED
      BY <1>6, <3>2, LinkStill
  <2>2. Bystanders(d, n, n - 1)
    BY <1>3, <1>7, <1>9, <2>1, StandBy
  <2>3. ASSUME NEW a \in 0 .. Top, NEW hi \in 0 .. Top, RelayCell(d, n, a, hi)
        PROVE  /\ RelayCell(d, n, a, hi)'
               /\ \A lo \in 0 .. Top : PipeSteps(d, n - 1, lo, hi, hi)
    <3>1. a = 1 /\ hi = 1
      BY <1>1, <1>2, <1>3, <1>12, <2>3 DEF RelayCell, First
    <3>2. RelayCell(d, n, a, hi)'
      BY <1>2, <1>4, <1>5, <1>7, <1>12, <3>1 DEF RelayCell
    <3>3. Eases(Carries(d, n - 1), link[Node(chain, n - 1)], link'[Node(chain, n - 1)])
      BY <1>3, <2>1, Indices, EasesForIs, CarriesLane
    <3> QED
      BY <1>7, <3>2, <3>3, EasesSteps
  <2> QED
    BY <1>3, <1>7, <1>8, <1>12, <2>2, <2>3, FlowWrites
<1> QED
  BY <1>11, <1>12 DEF Direction

LEMMA HelloFailsFlow ==
  ASSUME RouteInv, chain # <<>>, NEW r \in Relay, HelloFails(r), NEW d \in Direction, Flow(d)
  PROVE  Flow(d)'
<1>1. handler[r] = "hello" /\ handler' = [handler EXCEPT ![r] = "over"]
      /\ UNCHANGED <<chain, thread, client, exit>>
  BY DEF HelloFails, HandlerFrame
<1>2. PICK n \in 1 .. Len(chain) : chain[n] = r /\ Node(chain, n) = r /\ Node(chain, n - 1) = origin[r]
  BY <1>1, OnChain
<1>3. /\ OutIdx("next_node", n) = n /\ n \in 0 .. Len(chain) /\ n \in Int /\ chain \in Chains
  BY <1>1, <1>2, HandlerPipe
<1>4. origin[r] \in Dialler /\ origin[r] # r /\ r \in Dialler /\ link[r] \in Link(chain)
  BY <1>1, HandlerLink
<1> DEFINE h == HelloPieces(hop[r])
           q == Close(link[origin[r]], "accepted")
<1>13. PICK k \in 0 .. Len(h) :
        /\ (link[r].accepted = "closed" /\ slow' = slow) \/ slow' = [slow EXCEPT !.writes = slow.writes + 1]
        /\ link' = [link EXCEPT ![r] = Close(Write(link[r], "dialling", SubSeq(h, 1, k)), "dialling"),
                                ![origin[r]] = q]
  <2>1. Len(h) \in Nat
    BY <1>1, HelloType
  <2>2. PICK k \in 0 .. Len(h) - 1 :
          /\ \/ link[r].accepted = "closed" /\ UNCHANGED slow
             \/ Faults < MaxFaults /\ slow' = [slow EXCEPT !.writes = @ + 1]
          /\ link' = [link EXCEPT
               ![r] = Close(Write(@, "dialling", SubSeq(h, 1, k)), "dialling"),
               ![origin[r]] = Close(@, "accepted")]
    BY DEF HelloFails
  <2>3. link' = [link EXCEPT ![r] = Close(Write(link[r], "dialling", SubSeq(h, 1, k)), "dialling"),
                             ![origin[r]] = q]
    BY <1>4, <2>2
  <2>4. k \in 0 .. Len(h)
    BY <2>1, <2>2
  <2> QED
    BY <2>2, <2>3, <2>4
<1>5. PICK p, m :
        /\ p = SubSeq(h, 1, k) /\ m = Write(link[r], "dialling", p)
        /\ (link[r].accepted = "closed" /\ slow' = slow) \/ slow' = [slow EXCEPT !.writes = slow.writes + 1]
        /\ link' = [link EXCEPT ![r] = Close(m, "dialling"), ![origin[r]] = q]
  BY <1>13
<1>6. m \in Link(chain) /\ m.down = link[r].down /\ (Whence(m) <=> Whence(link[r]))
  <2>1. Write(link[r], "dialling", SubSeq(HelloPieces(hop[r]), 1, k)) \in Link(chain)
    BY <1>1, HelloWrite
  <2> QED
    BY <1>4, <1>5, <2>1, WriteOther, Ends2
<1> HIDE DEF h, q
<1>7. link'[r] = Close(m, "dialling") /\ link'[origin[r]] = q
      /\ \A x \in Dialler : x \notin {r, origin[r]} => link'[x] = link[x]
  BY <1>4, <1>5, LinkStill
<1>8. \A y : EasesFor(y, link[origin[r]], q)
  BY <1>4, EasesForEnds, LinkStill DEF q
<1>9. /\ Dense' => Dense /\ link[r].accepted = "closed"
      /\ Calms(client, client') /\ Calms(exit, exit') /\ chain' = chain
  <2>1. Dense' => Dense /\ link[r].accepted = "closed"
    BY <1>5, SlowTypes DEF Dense
  <2> QED
    BY <1>1, <2>1 DEF Calms
<1>10. /\ handler'[r] = "over" /\ \A x \in Relay : x # r => Alike(x, d)
  BY <1>1 DEF RouteInv, Types, Alike
<1>11. CASE d = "next_node"
  <2>1. Bystanders(d, n, n)
    <3>1. \A x \in Dialler : (n \in 0 .. Len(chain) /\ x = Node(chain, n))
                            \/ EasesFor(d, link[x], link'[x])
      BY <1>2, <1>3, <1>7, <1>8, LinkStill
    <3>2. \A x \in Relay : (n \in 1 .. Len(chain) /\ x = chain[n]) \/ Alike(x, d) \/ Lost(x, d)
      BY <1>2, <1>10
    <3> QED
      BY <1>3, <1>9, <3>1, <3>2, StandBy
  <2>2. ASSUME NEW a \in 0 .. Top, NEW hi \in 0 .. Top, RelayCell(d, n, a, hi)
        PROVE  /\ RelayCell(d, n, a, 2)'
               /\ \A lo \in 0 .. Top : PipeSteps(d, n, lo, hi, 2)
    <3>1. hi = First(d, n)
      BY <1>1, <1>2, <1>3, <1>11, <2>2 DEF RelayCell
    <3>2. RelayCell(d, n, a, 2)'
      BY <1>1, <1>2, <1>10 DEF RelayCell
    <3>3. ASSUME NEW lo \in 0 .. Top PROVE PipeSteps(d, n, lo, hi, 2)
      <4>1. PICK dense \in BOOLEAN, t \in Loads : dense = Dense' /\ t = Carries(d, n)
        BY CarriesLane DEF Dense
      <4>2. ASSUME PipeFrom(t, link[r], lo, hi, Dense)
            PROVE  PipeFrom(t, Close(m, "dialling"), lo, 2, dense)
        <5>1. PipeFrom(t, m, lo, 2, dense)
          <6>1. dense => Dense /\ (k = Len(HelloPieces(hop[r])) \/ link[r].accepted = "closed")
            BY <1>9, <4>1
          <6>2. k \in 0 .. Len(HelloPieces(hop[r])) /\ p = SubSeq(HelloPieces(hop[r]), 1, k)
                /\ m = Write(link[r], "dialling", p)
            BY <1>5 DEF h
          <6>3. PipeFrom(t, link[r], lo, First("next_node", n), Dense) /\ t = Carries("next_node", n)
            BY <1>11, <3>1, <4>1, <4>2
          <6> QED
            BY <1>1, <1>2, <1>3, <6>1, <6>2, <6>3, HelloPipe
        <5>2. Eases(t, m, Close(m, "dialling"))
          BY <1>6, EasesClose
        <5>3. 2 \in 0 .. Top
          BY Places
        <5> QED
          BY <5>1, <5>2, <5>3 DEF Eases
      <4>3. link'[Node(chain, n)] = Close(m, "dialling") /\ link[Node(chain, n)] = link[r]
        BY <1>2, <1>7
      <4> QED
        BY <4>1, <4>2, <4>3 DEF PipeSteps
    <3> QED
      BY <3>2, <3>3
  <2>3. Attends(chain[n], d)' => Attends(chain[n], d)
    BY <1>1, <1>2 DEF Attends
  <2>4. n \in Int /\ n \in 1 .. Len(chain) /\ OutIdx(d, n) = n /\ chain \in Chains /\ 2 \in 0 .. Top
    BY <1>3, <1>11, Places
  <2>5. \A a, hi \in 0 .. Top : RelayCell(d, n, a, hi) =>
          \E z \in 0 .. Top : /\ RelayCell(d, n, a, z)'
                              /\ \A lo \in 0 .. Top : PipeSteps(d, OutIdx(d, n), lo, hi, z)
    BY <2>2, <2>4
  <2>6. Bystanders(d, n, OutIdx(d, n))
    BY <2>1, <2>4
  <2> QED
    BY ONLY Flow(d), d \in Direction, <1>9, <2>3, <2>4, <2>5, <2>6, FlowWrites
<1>12. CASE d = "back_node"
  <2>1. Close(m, "dialling").down = m.down /\ (Whence(Close(m, "dialling")) <=> Whence(m))
    BY <1>6, EasesClose DEF Loads
  <2>2. EasesFor(d, link[r], Close(m, "dialling"))
    BY <1>6, <1>12, <2>1, EasesForSame DEF LaneFor
  <2>3. \A x \in Dialler : EasesFor(d, link[x], link'[x])
    BY <1>7, <1>8, <2>2, LinkStill
  <2>4. \A x \in Relay : Alike(x, d) \/ Lost(x, d)
    BY <1>10 DEF Lost
  <2> QED
    BY <1>9, <2>3, <2>4, CalmFlow
<1> QED
  BY <1>11, <1>12 DEF Direction

-------------------------------------------------------------------------------
(* The forwarding threads.                                                  *)

(* A thread of the relay of a chain, and the pipes it works between.        *)
LEMMA ThreadPlace ==
  ASSUME RouteInv, chain # <<>>, NEW r \in Relay, NEW d \in Direction, thread[r][d].at \in {"recv", "send"}
  PROVE  /\ chain \in Chains
         /\ \E n \in 1 .. Len(chain) :
              /\ chain[n] = r
              /\ InIdx(d, n) \in 0 .. Len(chain) /\ OutIdx(d, n) \in 0 .. Len(chain)
              /\ Node(chain, InIdx(d, n)) = InLink(r, d) /\ Node(chain, OutIdx(d, n)) = OutLink(r, d)
              /\ InIdx(d, n) # LastIdx(d)
              /\ InTouch(d, InIdx(d, n)) <=> ~thread[r][d].astray
         /\ handler[r] = "forward" /\ r \in Dialler
         /\ InLink(r, d) \in Dialler /\ OutLink(r, d) \in Dialler /\ InLink(r, d) # OutLink(r, d)
         /\ In(InEnd(d)) = LaneFor(d) /\ Out(OutEnd(d)) = LaneFor(d)
         /\ InEnd(d) \in {"dialling", "accepted"} /\ OutEnd(d) \in {"dialling", "accepted"}
         /\ InPipe(r, d) = link[InLink(r, d)][LaneFor(d)]
<1>1. /\ handler[r] = "forward" /\ origin[r] # r
  BY ThreadLinks
<1>2. PICK n \in 1 .. Len(chain) : chain[n] = r /\ Node(chain, n) = r /\ Node(chain, n - 1) = origin[r]
  BY <1>1, OnChain
<1>3. /\ InIdx("next_node", n) = n - 1 /\ Node(chain, InIdx("next_node", n)) = origin[r]
      /\ OutIdx("next_node", n) = n /\ Node(chain, OutIdx("next_node", n)) = r
      /\ InIdx("back_node", n) = n /\ OutIdx("back_node", n) = n - 1
      /\ n \in 0 .. Len(chain) /\ n - 1 \in 0 .. Len(chain) /\ chain \in Chains
  BY <1>1, <1>2, HandlerPipe
<1>4. InIdx(d, n) # LastIdx(d)
  BY <1>3, Indices
<1>5. InTouch(d, InIdx(d, n)) <=> Attends(chain[n], d)
  BY <1>3, InTouchOf
<1>6. Attends(chain[n], d) <=> ~thread[r][d].astray
  BY <1>1, <1>2 DEF Attends
<1>7. /\ InIdx(d, n) \in 0 .. Len(chain) /\ OutIdx(d, n) \in 0 .. Len(chain)
      /\ Node(chain, InIdx(d, n)) = InLink(r, d) /\ Node(chain, OutIdx(d, n)) = OutLink(r, d)
  <2>1. CASE d = "next_node"
    BY <1>2, <1>3, <2>1 DEF InLink, OutLink
  <2>2. CASE d = "back_node"
    BY <1>2, <1>3, <2>2 DEF InLink, OutLink
  <2> QED
    BY <2>1, <2>2 DEF Direction
<1>8. /\ In(InEnd(d)) = LaneFor(d) /\ Out(OutEnd(d)) = LaneFor(d)
      /\ InEnd(d) \in {"dialling", "accepted"} /\ OutEnd(d) \in {"dialling", "accepted"}
  BY Ends2 DEF InEnd, OutEnd, LaneFor, Direction
<1>9. InLink(r, d) \in Dialler /\ OutLink(r, d) \in Dialler /\ InLink(r, d) # OutLink(r, d)
      /\ r \in Dialler
  BY ThreadLinks
<1> QED
  BY <1>1, <1>2, <1>3, <1>4, <1>5, <1>6, <1>7, <1>8, <1>9 DEF InPipe

LEMMA ThreadSteps ==
  ASSUME RouteInv, NEW r \in Relay, NEW d \in Direction, NEW t, UNCHANGED ThreadFrame,
         thread' = [thread EXCEPT ![r][d] = t]
  PROVE  /\ chain' = chain /\ Calms(client, client') /\ Calms(exit, exit') /\ handler' = handler
         /\ thread'[r][d] = t
         /\ \A q \in Relay, x \in Direction : q # r \/ x # d => Alike(q, x)
<1>1. thread \in [Relay -> [Direction -> Thread]]
  BY ThreadTypes
<1>2. thread'[r][d] = t /\ \A q \in Relay, x \in Direction : q # r \/ x # d => thread'[q][x] = thread[q][x]
  BY <1>1
<1> QED
  BY <1>2 DEF ThreadFrame, Calms, Alike

(* The other direction of a relay whose thread has read or written.         *)
LEMMA OtherWay ==
  ASSUME RouteInv, chain # <<>>, NEW r \in Relay, NEW d \in Direction, NEW t, UNCHANGED ThreadFrame,
         thread' = [thread EXCEPT ![r][d] = t], Dense' => Dense,
         NEW e \in Dialler, NEW m, link' = [link EXCEPT ![e] = m],
         NEW x \in Direction, x # d, Flow(x),
         m[LaneFor(x)] = link[e][LaneFor(x)], Whence(m) => Whence(link[e])
  PROVE  Flow(x)'
<1>1. EasesFor(x, link[e], m)
  BY EasesForSame
<1>2. \A y \in Dialler : EasesFor(x, link[y], link'[y])
  BY <1>1, LinkStill
<1>3. chain' = chain /\ Calms(client, client') /\ Calms(exit, exit')
  BY ThreadSteps
<1>4. \A q \in Relay, y \in Direction : q # r \/ y # d => Alike(q, y)
  BY ThreadSteps
<1>5. \A q \in Relay : Alike(q, x)
  BY <1>4
<1> QED
  BY <1>2, <1>3, <1>5, CalmFlow

LEMMA LeavesFlow ==
  ASSUME RouteInv, chain # <<>>, NEW r \in Relay, NEW d \in Direction,
         CopyEnds(r, d) \/ RecvRaises(r, d) \/ SendRaises(r, d), NEW x \in Direction, Flow(x)
  PROVE  Flow(x)'
<1>1. /\ thread[r][d].at \in {"recv", "send"} /\ slow' = slow /\ UNCHANGED ThreadFrame
      /\ thread' = [thread EXCEPT ![r][d] = [NewThread EXCEPT !.at = "ended"]]
      /\ link' \in {link, CloseBoth(r)}
  BY DEF CopyEnds, RecvRaises, SendRaises, Dies
<1>2. /\ chain' = chain /\ Calms(client, client') /\ Calms(exit, exit') /\ handler' = handler
      /\ thread'[r][d] = [NewThread EXCEPT !.at = "ended"]
      /\ \A q \in Relay, y \in Direction : q # r \/ y # d => Alike(q, y)
  <2>1. PICK t : t = [NewThread EXCEPT !.at = "ended"]
    OBVIOUS
  <2>2. thread' = [thread EXCEPT ![r][d] = t] /\ UNCHANGED ThreadFrame
    BY <1>1, <2>1
  <2> QED
    BY ONLY RouteInv, r \in Relay, d \in Direction, <2>1, <2>2, ThreadSteps, ZenonT(30)
<1>3. handler[r] = "forward" /\ origin[r] \in Dialler /\ r \in Dialler /\ origin[r] # r
  BY <1>1, ThreadLinks
<1>4. Lost(r, d)
  BY <1>2, <1>3 DEF Lost, NewThread
<1>5. \A q \in Relay : Alike(q, x) \/ Lost(q, x)
  BY <1>2, <1>4
<1>6. \A y \in Dialler : EasesFor(x, link[y], link'[y])
  <2>1. EasesFor(x, link[r], Close(link[r], "dialling"))
        /\ EasesFor(x, link[origin[r]], Close(link[origin[r]], "accepted"))
    BY <1>3, EasesForEnds, LinkStill
  <2>2. CASE link' = CloseBoth(r)
    BY <1>3, <2>1, <2>2, LinkStill DEF CloseBoth
  <2>3. CASE link' = link
    BY <2>3, LinkStill
  <2> QED
    BY <1>1, <2>2, <2>3
<1>7. Dense' => Dense
  BY <1>1 DEF Dense
<1> QED
  BY <1>2, <1>5, <1>6, <1>7, CalmFlow

(* Who stands by when the thread of direction d works on pipe e.            *)
LEMMA ThreadBystanders ==
  ASSUME RouteInv, chain # <<>>, NEW r \in Relay, NEW d \in Direction, NEW t, UNCHANGED ThreadFrame,
         thread' = [thread EXCEPT ![r][d] = t], Dense' => Dense,
         NEW n \in 1 .. Len(chain), chain[n] = r,
         NEW k \in 0 .. Len(chain), NEW m, link' = [link EXCEPT ![Node(chain, k)] = m]
  PROVE  Bystanders(d, n, k)
<1>1. \A q \in Relay : (n \in 1 .. Len(chain) /\ q = chain[n]) \/ Alike(q, d) \/ Lost(q, d)
  BY ThreadSteps
<1>2. \A x \in Dialler : (k \in 0 .. Len(chain) /\ x = Node(chain, k))
                         \/ EasesFor(d, link[x], link'[x])
  BY LinkStill
<1>3. chain \in Chains /\ n \in Int /\ k \in Int
  BY ChainIs
<1> QED
  BY <1>1, <1>2, <1>3, StandBy

(* A thread that has lost its place.                                        *)
LEMMA LosesFlow ==
  ASSUME RouteInv, chain # <<>>, NEW r \in Relay, NEW d \in Direction, thread[r][d].at = "recv",
         NEW t, UNCHANGED ThreadFrame, thread' = [thread EXCEPT ![r][d] = t], Dense' <=> Dense,
         NEW z, link' = [link EXCEPT ![InLink(r, d)][In(InEnd(d))] = z],
         t.astray, t.at = "recv" \/ (t.at = "send" /\ t.hold = Junk),
         Flow(d)
  PROVE  Flow(d)'
<1>1. /\ chain' = chain /\ Calms(client, client') /\ Calms(exit, exit') /\ handler' = handler
      /\ thread'[r][d] = t
  BY ThreadSteps
<1>2. PICK n \in 1 .. Len(chain) :
        /\ chain[n] = r /\ InIdx(d, n) \in 0 .. Len(chain) /\ InIdx(d, n) # LastIdx(d)
        /\ Node(chain, InIdx(d, n)) = InLink(r, d)
  BY ThreadPlace
<1>3. PICK k \in 0 .. Len(chain) : k = InIdx(d, n)
  BY <1>2
<1>4. chain \in Chains /\ handler[r] = "forward"
  BY ThreadPlace
<1>5. PICK m : link' = [link EXCEPT ![Node(chain, k)] = m]
  BY <1>2, <1>3
<1>6. Bystanders(d, n, k)
  BY <1>2, <1>5, ThreadBystanders
<1>7. ~InTouch(d, k)'
  <2>1. ~Attends(chain[n], d)'
    BY <1>1, <1>2, <1>4 DEF Attends
  <2>2. k # LastIdx(d)' /\ (IF d = "next_node" THEN k + 1 ELSE k) = n
    BY <1>1, <1>2, <1>3 DEF LastIdx, InIdx
  <2> QED
    BY <1>1, <2>1, <2>2 DEF InTouch
<1>8. ASSUME NEW lo \in 0 .. Top, NEW b \in 0 .. Top, RelayCell(d, n, lo, b)
      PROVE  RelayCell(d, n, Top, b)'
  <2>1. Top \in Nat /\ Top >= 3 /\ Following(Top) = Top /\ Number(Junk) = Top
        /\ \A x : Carried(x, Junk)
    BY Places, SomeNumbers
  <2> QED
    BY <1>1, <1>2, <1>4, <1>8, <2>1 DEF RelayCell
<1>9. ASSUME NEW lo \in 0 .. Top, NEW hi \in 0 .. Top, NEW b \in 0 .. Top, RelayCell(d, n, lo, b)
      PROVE  \E x \in 0 .. Top : PipeCell(d, InIdx(d, n), x, hi)' /\ RelayCell(d, n, x, b)'
  <2>1. PipeCell(d, InIdx(d, n), Top, hi)'
    BY <1>1, <1>3, <1>7 DEF PipeCell, InIdx
  <2>2. Top \in 0 .. Top
    BY Places
  <2> QED
    BY <1>8, <1>9, <2>1, <2>2
<1> QED
  BY <1>1, <1>3, <1>4, <1>6, <1>9, FlowReads

(* The pipe that a thread reads, for the other direction.                   *)
LEMMA ReadOther ==
  ASSUME RouteInv, chain # <<>>, NEW r \in Relay, NEW d \in Direction, thread[r][d].at \in {"recv", "send"},
         NEW t, UNCHANGED ThreadFrame, thread' = [thread EXCEPT ![r][d] = t], Dense' => Dense,
         NEW z, link' = [link EXCEPT ![InLink(r, d)][In(InEnd(d))] = z],
         NEW x \in Direction, x # d, Flow(x)
  PROVE  Flow(x)'
<1>1. InLink(r, d) \in Dialler /\ In(InEnd(d)) = LaneFor(d)
  BY ThreadPlace
<1>2. PICK e \in Dialler : e = InLink(r, d)
  BY <1>1
<1>3. PICK m : m = [link[e] EXCEPT ![LaneFor(d)] = z]
  OBVIOUS
<1>4. link' = [link EXCEPT ![e] = m]
  BY <1>1, <1>2, <1>3
<1>5. m[LaneFor(x)] = link[e][LaneFor(x)] /\ (Whence(m) => Whence(link[e]))
  <2>1. link[e] \in Link(chain)
    BY LinkStill
  <2>2. LaneFor(x) # LaneFor(d) /\ LaneFor(x) \in {"up", "down"} /\ LaneFor(d) \in {"up", "down"}
    BY DEF LaneFor, Direction
  <2> QED
    BY <1>3, <2>1, <2>2 DEF Link, Whence
<1> QED
  BY <1>4, <1>5, OtherWay

LEMMA RecvTimesOutFlow ==
  ASSUME RouteInv, chain # <<>>, NEW r \in Relay, NEW d \in Direction, RecvTimesOut(r, d),
         NEW x \in Direction, Flow(x)
  PROVE  Flow(x)'
<1>1. PICK t : t = [thread[r][d] EXCEPT !.astray = TRUE]
  OBVIOUS
<1>2. /\ thread[r][d].at = "recv" /\ UNCHANGED ThreadFrame
      /\ thread' = [thread EXCEPT ![r][d] = t]
      /\ link' = [link EXCEPT ![InLink(r, d)][In(InEnd(d))] = Tail(link[InLink(r, d)][In(InEnd(d))])]
      /\ slow' = [slow EXCEPT !.reads = @ + 1]
  BY <1>1 DEF RecvTimesOut
<1>3. t.at = "recv" /\ t.astray
  BY <1>1, <1>2, ThreadTypes, ZenonT(30) DEF Thread
<1>4. Dense' <=> Dense
  BY <1>2, SlowTypes DEF Dense
<1> QED
  BY <1>2, <1>3, <1>4, LosesFlow, ReadOther

LEMMA CopyAstrayFlow ==
  ASSUME RouteInv, chain # <<>>, NEW r \in Relay, NEW d \in Direction, CopyAstray(r, d),
         NEW x \in Direction, Flow(x)
  PROVE  Flow(x)'
<1>1. PICK t : /\ thread' = [thread EXCEPT ![r][d] = t]
               /\ t.astray /\ (t.at = "recv" \/ (t.at = "send" /\ t.hold = Junk))
  <2>1. thread \in [Relay -> [Direction -> Thread]] /\ thread[r][d] \in Thread
    BY ThreadTypes
  <2>2. thread[r][d].at = "recv" /\ thread[r][d].astray
    BY DEF CopyAstray
  <2>3. CASE thread' = [thread EXCEPT ![r][d].at = "send", ![r][d].hold = Junk]
    <3>1. PICK t : t = [thread[r][d] EXCEPT !.at = "send", !.hold = Junk]
      OBVIOUS
    <3>2. thread' = [thread EXCEPT ![r][d] = t]
      BY <2>1, <2>3, <3>1
    <3>3. t.astray /\ t.at = "send" /\ t.hold = Junk
      BY <2>1, <2>2, <3>1 DEF Thread
    <3> QED
      BY <3>2, <3>3
  <2>4. CASE thread' = thread
    <3>1. thread' = [thread EXCEPT ![r][d] = thread[r][d]]
      BY <2>1, <2>4
    <3> QED
      BY <2>2, <3>1
  <2> QED
    BY <2>3, <2>4 DEF CopyAstray
<1>2. /\ thread[r][d].at = "recv" /\ UNCHANGED ThreadFrame
      /\ link' = [link EXCEPT ![InLink(r, d)][In(InEnd(d))] = Tail(link[InLink(r, d)][In(InEnd(d))])]
      /\ (Dense' <=> Dense)
  BY DEF CopyAstray, Dense
<1> QED
  BY <1>1, <1>2, LosesFlow, ReadOther

LEMMA CopyRecvFlow ==
  ASSUME RouteInv, chain # <<>>, NEW r \in Relay, NEW d \in Direction, CopyRecv(r, d),
         NEW x \in Direction, Flow(x)
  PROVE  Flow(x)'
<1> DEFINE q == InPipe(r, d)
<1>7. PICK f : f = FrameIn(q)
  OBVIOUS
<1>1. PICK t : t = [at |-> "send", hold |-> f, astray |-> ~InStep(q)]
  OBVIOUS
<1>2. /\ thread[r][d].at = "recv" /\ UNCHANGED ThreadFrame /\ ~thread[r][d].astray
      /\ thread' = [thread EXCEPT ![r][d] = t] /\ HasFrame(q)
      /\ link' = [link EXCEPT ![InLink(r, d)][In(InEnd(d))] = Rest(link[InLink(r, d)][In(InEnd(d))])]
      /\ slow' = slow
  BY <1>1, <1>7 DEF CopyRecv
<1>3. Dense' <=> Dense
  BY <1>2 DEF Dense
<1>4. CASE x # d
  BY <1>2, <1>3, <1>4, ReadOther
<1>5. CASE x = d /\ ~InStep(q)
  <2>1. t.astray /\ t.at = "send" /\ t.hold = Junk
    BY <1>1, <1>5, <1>7 DEF FrameIn
  <2>2. thread[r][d].at = "recv" /\ Flow(d)
    BY <1>2, <1>5
  <2>3. PICK z : link' = [link EXCEPT ![InLink(r, d)][In(InEnd(d))] = z]
    BY <1>2
  <2> QED
    BY <1>2, <1>3, <1>5, <2>1, <2>2, <2>3, LosesFlow
<1>6. CASE x = d /\ InStep(q)
  <2>1. /\ chain' = chain /\ Calms(client, client') /\ Calms(exit, exit') /\ handler' = handler
        /\ thread'[r][d] = t
    <3>1. chain' = chain /\ handler' = handler /\ Calms(client, client') /\ Calms(exit, exit')
      BY <1>2 DEF ThreadFrame, Calms
    <3>2. thread'[r][d] = t
      BY <1>2, ThreadTypes
    <3> QED
      BY <3>1, <3>2
  <2>2. PICK n \in 1 .. Len(chain) :
          /\ chain[n] = r
          /\ InIdx(d, n) \in 0 .. Len(chain) /\ OutIdx(d, n) \in 0 .. Len(chain)
          /\ Node(chain, InIdx(d, n)) = InLink(r, d)
          /\ InIdx(d, n) # LastIdx(d) /\ (InTouch(d, InIdx(d, n)) <=> ~thread[r][d].astray)
    BY <1>2, ThreadPlace
  <2>3. PICK k \in 0 .. Len(chain) : k = InIdx(d, n)
    BY <2>2
  <2>4. /\ chain \in Chains /\ handler[r] = "forward" /\ InLink(r, d) \in Dialler
        /\ q = link[InLink(r, d)][LaneFor(d)] /\ In(InEnd(d)) = LaneFor(d)
    BY <1>2, ThreadPlace
  <2>5. PICK m : m = [link[InLink(r, d)] EXCEPT ![LaneFor(d)] = Rest(q)]
    OBVIOUS
  <2>6. link' = [link EXCEPT ![Node(chain, k)] = m]
    BY <1>2, <2>2, <2>3, <2>4, <2>5
  <2>7. Bystanders(d, n, k)
    BY <1>2, <1>3, <2>2, <2>6, ThreadBystanders
  <2>8. /\ link[InLink(r, d)] \in Link(chain) /\ m[LaneFor(d)] = Rest(q)
        /\ (Whence(m) => Whence(link[InLink(r, d)]))
        /\ link'[Node(chain, k)] = m
    <3>1. link[InLink(r, d)] \in Link(chain) /\ LaneFor(d) \in {"up", "down"}
      BY <2>4, LinkStill DEF LaneFor
    <3>2. m[LaneFor(d)] = Rest(q) /\ (Whence(m) => Whence(link[InLink(r, d)]))
      BY <2>5, <3>1 DEF Link, Whence
    <3> QED
      BY <2>2, <2>3, <2>4, <2>6, <3>1, <3>2, LinkStill
  <2>9. t.at = "send" /\ t.hold = f /\ ~t.astray
    BY <1>1, <1>6
  <2> HIDE DEF q
  <2>10. ASSUME NEW lo \in 0 .. Top, NEW hi \in 0 .. Top, NEW b \in 0 .. Top,
                PipeCell(d, k, lo, hi), RelayCell(d, n, lo, b)
         PROVE  \E y \in 0 .. Top : PipeCell(d, k, y, hi)' /\ RelayCell(d, n, y, b)'
    <3>1. PipeFrom(Carries(d, k), link[InLink(r, d)], lo, hi, Dense)
      BY <1>2, <2>2, <2>3, <2>10 DEF PipeCell
    <3>10. PICK l : l = link[InLink(r, d)]
      OBVIOUS
    <3>2. PICK s \in Loads : s = Carries(d, k) /\ l = link[InLink(r, d)]
      BY <3>10, CarriesLane
    <3>3. Lane(s) = LaneFor(d) /\ Dense \in BOOLEAN
      BY <3>2, CarriesLane DEF Dense
    <3>4. /\ Carried(s, f) /\ lo <= Number(f) /\ Number(f) \in 0 .. Top
          /\ Following(Number(f)) \in 0 .. Top /\ Following(Number(f)) <= hi
          /\ Dense => Number(f) \in {lo, Top}
          /\ PipeFrom(s, m, Following(Number(f)), hi, Dense)
      <4>1. l \in Link(chain) /\ q = l[Lane(s)] /\ m[Lane(s)] = Rest(q) /\ (Whence(m) => Whence(l))
        BY <2>4, <2>8, <3>2, <3>3
      <4>2. HasFrame(q) /\ InStep(q)
        BY <1>2, <1>6
      <4>3. PipeFrom(s, l, lo, hi, Dense)
        BY <3>1, <3>2
      <4> QED
        BY ONLY <2>10, <3>3, <4>1, <4>2, <4>3, s \in Loads, <1>7, ReadPipe
    <3>5. PipeCell(d, k, Following(Number(f)), hi)'
      BY <1>3, <2>1, <2>8, <3>2, <3>4, CarriesSame DEF PipeCell
    <3>6. Number(f) <= Following(Number(f))
      BY <3>4, Places
    <3>7. /\ b <= lo /\ (Dense => lo \in {b, Top}) /\ (d = "next_node" => 2 <= lo)
      BY <1>2, <2>2, <2>4, <2>10 DEF RelayCell
    <3>8. Carried(Carries(d, OutIdx(d, n)), f)
      <4>1. CASE d = "back_node"
        BY <3>2, <3>4, <4>1 DEF Carries
      <4>2. CASE d = "next_node"
        <5>1. Len(chain) \in Nat /\ k # Len(chain)
          BY <2>2, <2>3, <2>4, <4>2, NodesDiffer DEF LastIdx
        <5>2. Carried("hops", f)
          BY <3>2, <3>4, <4>2, <5>1 DEF Carries
        <5>3. 2 <= Number(f)
          BY <3>4, <3>7, <4>2
        <5>4. Carried("exit", f)
          BY <5>2, <5>3, SomeNumbers
        <5> QED
          BY <4>2, <5>2, <5>4 DEF Carries
      <4> QED
        BY <4>1, <4>2 DEF Direction
    <3>9. RelayCell(d, n, Following(Number(f)), b)'
      <4>1. b <= Number(f) /\ (Dense' => Number(f) \in {b, Top})
            /\ (d = "next_node" => 2 <= Following(Number(f)))
        BY <1>3, <3>4, <3>6, <3>7
      <4>2. Carries(d, OutIdx(d, n))' = Carries(d, OutIdx(d, n))
        BY <2>1 DEF Carries, OutIdx
      <4>3. thread'[r][d].at = "send" /\ thread'[r][d].hold = f /\ ~thread'[r][d].astray
            /\ handler'[r] = "forward" /\ chain'[n] = r
        BY <2>1, <2>2, <2>4, <2>9
      <4> QED
        BY <3>8, <4>1, <4>2, <4>3 DEF RelayCell
    <3> QED
      BY <3>4, <3>5, <3>9
  <2>11. Flow(d)'
    BY <1>6, <2>1, <2>3, <2>4, <2>7, <2>10, FlowReads
  <2> QED
    BY <1>6, <2>11
<1> QED
  BY <1>4, <1>5, <1>6

(* A thread has written what it holds, or a part of it.                     *)
LEMMA WritesFlow ==
  ASSUME RouteInv, chain # <<>>, NEW r \in Relay, NEW d \in Direction, thread[r][d].at = "send",
         link[OutLink(r, d)][OutEnd(d)] = "open",
         NEW t, t.at = "recv", t.astray = thread[r][d].astray,
         UNCHANGED ThreadFrame, thread' = [thread EXCEPT ![r][d] = t],
         NEW k \in 0 .. 2, Dense' => Dense /\ k = 2,
         NEW p, p = SubSeq(Whole(thread[r][d].hold), 1, k),
         link' = [link EXCEPT ![OutLink(r, d)] = Write(link[OutLink(r, d)], OutEnd(d), p)],
         NEW x \in Direction, Flow(x)
  PROVE  Flow(x)'
<1>1. PICK f : f = thread[r][d].hold
  OBVIOUS
<1>2. /\ chain \in Chains /\ handler[r] = "forward" /\ OutLink(r, d) \in Dialler
      /\ Out(OutEnd(d)) = LaneFor(d) /\ OutEnd(d) \in {"dialling", "accepted"}
      /\ In(OutEnd(d)) = LaneFor(Opposite(d)) /\ Opposite(d) \in Direction
      /\ \A y \in Direction : y = d \/ y = Opposite(d)
  <2>1. /\ Opposite("next_node") = "back_node" /\ Opposite("back_node") = "next_node"
    BY DEF Opposite, Direction
  <2>2. In(OutEnd(d)) = LaneFor(Opposite(d))
    BY <2>1, Ends2 DEF OutEnd, InEnd, LaneFor, Direction
  <2> QED
    BY <2>1, <2>2, ThreadPlace DEF Direction
<1>3. PICK e \in Dialler : e = OutLink(r, d)
  BY <1>2
<1>4. link[e] \in Link(chain)
  BY LinkStill
<1>5. PICK m : m = Write(link[e], OutEnd(d), p)
  OBVIOUS
<1>6. link' = [link EXCEPT ![e] = m] /\ link'[e] = m
  BY <1>3, <1>5, LinkStill
<1>7. CASE x # d
  <2>1. m[LaneFor(x)] = link[e][LaneFor(x)] /\ (Whence(m) => Whence(link[e]))
    BY <1>2, <1>4, <1>5, <1>7, WriteOther
  <2> QED
    BY <1>6, <1>7, <2>1, OtherWay
<1>8. CASE x = d
  <2>1. /\ chain' = chain /\ Calms(client, client') /\ Calms(exit, exit') /\ handler' = handler
        /\ thread'[r][d] = t
    <3>1. chain' = chain /\ handler' = handler /\ Calms(client, client') /\ Calms(exit, exit')
      BY DEF ThreadFrame, Calms
    <3>2. thread'[r][d] = t
      BY ThreadTypes
    <3> QED
      BY <3>1, <3>2
  <2>2. PICK n \in 1 .. Len(chain) :
          chain[n] = r /\ OutIdx(d, n) \in 0 .. Len(chain) /\ Node(chain, OutIdx(d, n)) = e
    BY <1>3, ThreadPlace
  <2>3. PICK i \in 0 .. Len(chain) : i = OutIdx(d, n)
    BY <2>2
  <2>4. Bystanders(d, n, i)
    BY <1>6, <2>2, <2>3, ThreadBystanders
  <2>5. Attends(chain[n], d)' => Attends(chain[n], d)
    BY <1>2, <2>1, <2>2 DEF Attends
  <2>6. f \in Frames
    BY <1>1, ThreadTypes
  <2>7. ASSUME NEW a \in 0 .. Top, NEW hi \in 0 .. Top, RelayCell(d, n, a, hi)
        PROVE  RelayCell(d, n, a, a)' /\ \A lo \in 0 .. Top : PipeSteps(d, i, lo, hi, a)
    <3>1. /\ Carried(Carries(d, i), f) /\ hi <= Number(f)
          /\ (Dense => Number(f) \in {hi, Top})
          /\ a = Following(Number(f)) /\ (thread[r][d].astray => a = Top)
          /\ (d = "next_node" => 2 <= a)
      BY <1>1, <1>2, <2>2, <2>3, <2>7 DEF RelayCell
    <3>2. RelayCell(d, n, a, a)'
      BY <1>2, <2>1, <2>2, <3>1 DEF RelayCell
    <3>3. ASSUME NEW lo \in 0 .. Top PROVE PipeSteps(d, i, lo, hi, a)
      <4>1. PICK dense \in BOOLEAN, s \in Loads : dense = Dense' /\ s = Carries(d, i)
        BY CarriesLane DEF Dense
      <4>2. PICK l : l = link[e]
        OBVIOUS
      <4>3. ASSUME PipeFrom(s, l, lo, hi, Dense) PROVE PipeFrom(s, m, lo, a, dense)
        <5>1. l \in Link(chain) /\ l[OutEnd(d)] # "closed" /\ Lane(s) = Out(OutEnd(d))
          BY <1>2, <1>3, <1>4, <4>1, <4>2, CarriesLane
        <5>2. dense => Dense /\ k = 2 /\ Number(f) \in {hi, Top}
          BY <3>1, <4>1
        <5>3. Carried(s, f) /\ hi <= Number(f) /\ p = SubSeq(Whole(f), 1, k) /\ Dense \in BOOLEAN
          BY <1>1, <3>1, <4>1 DEF Dense
        <5>4. m = Write(l, OutEnd(d), p) /\ a = Following(Number(f))
          BY <1>5, <3>1, <4>2
        <5> QED
          <6>1. OutEnd(d) \in {"dialling", "accepted"} /\ lo \in 0 .. Top /\ hi \in 0 .. Top
                /\ PipeFrom(s, l, lo, hi, Dense) /\ s \in Loads /\ dense \in BOOLEAN
            BY <1>2, <2>7, <3>3, <4>1, <4>3
          <6>2. PipeFrom(s, Write(l, OutEnd(d), p), lo, Following(Number(f)), dense)
            BY ONLY <2>6, <5>1, <5>2, <5>3, <6>1, k \in 0 .. 2, PipeWritten, ZenonT(30)
          <6> QED
            BY <5>4, <6>2
      <4> QED
        BY <1>6, <2>2, <2>3, <4>1, <4>2, <4>3 DEF PipeSteps
    <3> QED
      BY <3>2, <3>3
  <2>8. Flow(d)'
    BY <1>2, <1>8, <2>1, <2>3, <2>4, <2>5, <2>7, FlowWrites
  <2> QED
    BY <1>8, <2>8
<1> QED
  BY <1>7, <1>8

LEMMA CopySendFlow ==
  ASSUME RouteInv, chain # <<>>, NEW r \in Relay, NEW d \in Direction,
         CopySend(r, d) \/ SendTimesOut(r, d), NEW x \in Direction, Flow(x)
  PROVE  Flow(x)'
<1> DEFINE w == Whole(thread[r][d].hold)
<1>1. PICK t : t = [thread[r][d] EXCEPT !.at = "recv", !.hold = NoFrame]
  OBVIOUS
<1>2. thread[r][d] \in Thread /\ thread \in [Relay -> [Direction -> Thread]]
  BY ThreadTypes
<1>3. t.at = "recv" /\ t.astray = thread[r][d].astray
  BY <1>1, <1>2 DEF Thread
<1>4. /\ thread[r][d].at = "send" /\ UNCHANGED ThreadFrame
      /\ link[OutLink(r, d)][OutEnd(d)] = "open"
  BY DEF CopySend, SendTimesOut
<1>5. thread' = [thread EXCEPT ![r][d] = t]
  <2>1. thread' = [thread EXCEPT ![r][d].at = "recv", ![r][d].hold = NoFrame]
    BY DEF CopySend, SendTimesOut
  <2> QED
    BY <1>1, <1>2, <2>1
<1>6. PICK k \in 0 .. 2 :
        /\ link' = [link EXCEPT ![OutLink(r, d)] = Write(link[OutLink(r, d)], OutEnd(d), SubSeq(w, 1, k))]
        /\ Dense' => Dense /\ k = 2
  <2>1. CASE CopySend(r, d)
    <3>1. SubSeq(w, 1, 2) = w
      <4>1. w \in Seq(Pieces(Frames)) /\ Len(w) = 2
        BY ThreadTypes, WholePieces
      <4> QED
        BY <4>1
    <3>2. link' = [link EXCEPT ![OutLink(r, d)] = Write(link[OutLink(r, d)], OutEnd(d), SubSeq(w, 1, 2))]
      BY <2>1, <3>1 DEF CopySend
    <3>3. Dense' => Dense
      BY <2>1 DEF CopySend, Dense
    <3> QED
      BY <3>2, <3>3
  <2>2. CASE SendTimesOut(r, d)
    <3>1. PICK k \in 0 .. 1 :
            link' = [link EXCEPT ![OutLink(r, d)] =
                      Write(link[OutLink(r, d)], OutEnd(d), SubSeq(w, 1, k))]
      BY <2>2 DEF SendTimesOut
    <3>2. slow' = [slow EXCEPT !.writes = slow.writes + 1]
      BY <2>2 DEF SendTimesOut
    <3>3. ~Dense'
      BY <3>2, SlowTypes DEF Dense
    <3>4. k \in 0 .. 2
      OBVIOUS
    <3> QED
      BY <3>1, <3>3, <3>4
  <2> QED
    BY <2>1, <2>2
<1>7. PICK p : p = SubSeq(Whole(thread[r][d].hold), 1, k)
  OBVIOUS
<1> QED
  BY <1>3, <1>4, <1>5, <1>6, <1>7, WritesFlow

-------------------------------------------------------------------------------
(* The two ends.                                                            *)

(* The direction in which an end that takes a step does nothing.            *)
LEMMA OtherEnd ==
  ASSUME RouteInv, chain # <<>>, NEW x \in Direction, Flow(x),
         chain' = chain, handler' = handler, thread' = thread, slow' = slow,
         NEW e \in Dialler, NEW m, link' = [link EXCEPT ![e] = m],
         m[LaneFor(x)] = link[e][LaneFor(x)], Whence(m) => Whence(link[e]),
         Reader(x)'.got = Reader(x).got, Reader(x)'.astray = Reader(x).astray,
         \A hi : SourceCell(x, hi) => SourceCell(x, hi)'
  PROVE  Flow(x)'
<1>1. \A y \in Dialler : EasesFor(x, link[y], link'[y])
  <2>1. EasesFor(x, link[e], m)
    BY EasesForSame
  <2> QED
    BY <2>1, LinkStill
<1>2. chain \in Chains /\ -1 \in Int /\ FirstIdx(x) \in Int /\ FirstIdx(x) \in 0 .. Len(chain)
  <2>1. chain \in Chains
    BY ChainIs
  <2>2. FirstIdx(x) \in 0 .. Len(chain)
    BY <2>1, Indices
  <2> QED
    BY <2>1, <2>2
<1>3. \A q \in Relay : Alike(q, x)
  BY DEF Alike
<1>4. Dense' => Dense
  BY DEF Dense
<1>5. Bystanders(x, -1, FirstIdx(x))
  BY <1>1, <1>2, <1>3, <1>4, StandBy
<1>6. \A lo, hi \in 0 .. Top : PipeSteps(x, FirstIdx(x), lo, hi, hi)
  <2>1. EasesFor(x, link[Node(chain, FirstIdx(x))], link'[Node(chain, FirstIdx(x))])
    BY <1>1, <1>2, Indices
  <2>2. Eases(Carries(x, FirstIdx(x)), link[Node(chain, FirstIdx(x))], link'[Node(chain, FirstIdx(x))])
    BY <2>1, EasesForIs, CarriesLane
  <2> QED
    BY <1>4, <2>2, EasesSteps
<1> QED
  BY <1>2, <1>5, <1>6, FlowSources

(* An end sends its next frame.                                             *)
LEMMA SourceFlow ==
  ASSUME RouteInv, chain # <<>>, NEW d \in Direction, Flow(d),
         chain' = chain, handler' = handler, thread' = thread, slow' = slow,
         NEW a, a = Node(chain, FirstIdx(d)),
         NEW e \in {"dialling", "accepted"}, Out(e) = LaneFor(d), link[a][e] = "open",
         NEW f \in Frames, Carried(Carries(d, FirstIdx(d)), f),
         link' = [link EXCEPT ![a] = Write(link[a], e, Whole(f))],
         Reader(d)'.got = Reader(d).got, Reader(d)'.astray = Reader(d).astray,
         \A hi : SourceCell(d, hi) => hi = Number(f) /\ SourceCell(d, Following(hi))'
  PROVE  Flow(d)'
<1>1. chain \in Chains /\ FirstIdx(d) \in 0 .. Len(chain) /\ a \in Dialler
      /\ -1 \in Int /\ FirstIdx(d) \in Int
  <2>1. chain \in Chains
    BY ChainIs
  <2>2. FirstIdx(d) \in 0 .. Len(chain) /\ a \in Dialler
    BY <2>1, Indices
  <2> QED
    BY <2>1, <2>2
<1>2. PICK i \in 0 .. Len(chain) : i = FirstIdx(d)
  BY <1>1
<1>3. PICK l, m : l = link[a] /\ m = Write(link[a], e, Whole(f))
  OBVIOUS
<1>4. link'[a] = m /\ \A y \in Dialler : y # a => link'[y] = link[y]
  BY <1>1, <1>3, LinkStill
<1>5. Bystanders(d, -1, FirstIdx(d))
  <2>1. \A q \in Relay : Alike(q, d)
    BY DEF Alike
  <2>2. \A y \in Dialler : (FirstIdx(d) \in 0 .. Len(chain) /\ y = Node(chain, FirstIdx(d)))
                           \/ EasesFor(d, link[y], link'[y])
    BY <1>1, <1>4, LinkStill
  <2>3. Dense' => Dense
    BY DEF Dense
  <2> QED
    BY <1>1, <2>1, <2>2, <2>3, StandBy
<1>6. ASSUME NEW hi \in 0 .. Top, SourceCell(d, hi)
      PROVE  \E n \in 0 .. Top : /\ SourceCell(d, n)'
                                 /\ \A lo \in 0 .. Top : PipeSteps(d, FirstIdx(d), lo, hi, n)
  <2>1. hi = Number(f) /\ SourceCell(d, Following(hi))' /\ Following(hi) \in 0 .. Top
    <3>1. hi = Number(f) /\ SourceCell(d, Following(hi))'
      BY <1>6
    <3>2. Following(hi) \in 1 .. Top
      BY Places
    <3> QED
      BY <3>1, <3>2
  <2>2. ASSUME NEW lo \in 0 .. Top PROVE PipeSteps(d, i, lo, hi, Following(hi))
    <3>1. PICK dense \in BOOLEAN, t \in Loads : dense = Dense /\ t = Carries(d, i)
      BY CarriesLane DEF Dense
    <3>2. ASSUME PipeFrom(t, l, lo, hi, dense) PROVE PipeFrom(t, m, lo, Following(hi), dense)
      <4>1. l \in Link(chain) /\ l[e] # "closed" /\ Lane(t) = Out(e)
        BY <1>1, <1>3, <3>1, LinkStill, CarriesLane
      <4>2. 2 \in 0 .. 2 /\ SubSeq(Whole(f), 1, 2) = Whole(f)
        <5>1. Whole(f) \in Seq(Pieces(Frames)) /\ Len(Whole(f)) = 2
          BY WholePieces
        <5> QED
          BY <5>1
      <4>3. Carried(t, f) /\ hi <= Number(f) /\ Number(f) \in {hi, Top}
        BY <1>2, <2>1, <3>1
      <4>4. PipeFrom(t, Write(l, e, Whole(f)), lo, Following(Number(f)), dense)
        <5>1. PICK p : p = SubSeq(Whole(f), 1, 2) /\ p = Whole(f)
          BY <4>2
        <5>2. /\ e \in {"dialling", "accepted"} /\ t \in Loads /\ lo \in 0 .. Top /\ hi \in 0 .. Top
              /\ dense \in BOOLEAN /\ (dense => dense /\ 2 = 2 /\ Number(f) \in {hi, Top})
              /\ PipeFrom(t, l, lo, hi, dense) /\ f \in Frames
          BY <1>6, <2>2, <3>1, <3>2, <4>3
        <5>3. PipeFrom(t, Write(l, e, p), lo, Following(Number(f)), dense)
          BY ONLY <4>1, <4>2, <4>3, <5>1, <5>2, PipeWritten
        <5> QED
          BY <5>1, <5>3
      <4> QED
        BY <1>3, <2>1, <4>4
    <3>3. Dense' = Dense
      BY DEF Dense
    <3> QED
      BY <1>2, <1>3, <1>4, <3>1, <3>2, <3>3 DEF PipeSteps
  <2> QED
    BY <1>2, <2>1, <2>2
<1> QED
  BY <1>1, <1>5, <1>6, FlowSources

(* One more frame has reached an end.                                       *)
LEMMA SinkGrows ==
  ASSUME NEW d, NEW lo \in 0 .. Top, SinkCell(d, lo), chain' = chain, Dense' => Dense,
         Reader(d).got \in Seq(Frames), NEW f \in Frames,
         Reader(d)'.got = Append(Reader(d).got, f),
         Carried(Carries(d, LastIdx(d)), f), lo <= Number(f), Dense => Number(f) \in {lo, Top}
  PROVE  SinkCell(d, Following(Number(f)))'
<1>1. PICK g : g = Reader(d).got /\ g \in Seq(Frames)
  OBVIOUS
<1>2. PICK h : h = Reader(d)'.got /\ h = Append(g, f)
  BY <1>1
<1>3. Len(g) \in Nat /\ Len(h) = Len(g) + 1 /\ h[Len(h)] = f /\ \A k \in 1 .. Len(g) : h[k] = g[k]
  BY <1>1, <1>2
<1>4. PICK t : t = Carries(d, LastIdx(d)) /\ t = Carries(d, LastIdx(d))'
  BY DEF Carries, LastIdx
<1>5. PICK b, n : b = Number(f) /\ n = Following(b)
  OBVIOUS
<1>6. b \in 0 .. Top /\ n \in 1 .. Top /\ b <= n /\ (b < Top => n = b + 1) /\ (b = Top => n = Top)
      /\ Top \in Nat
  <2>1. b \in 0 .. Top
    BY <1>5, Numbers
  <2> QED
    BY <1>5, <2>1, Places
<1>7. \A k \in 1 .. Len(g) :
        /\ Carried(t, g[k]) /\ Following(Number(g[k])) <= lo
        /\ \A j \in 1 .. k - 1 : Following(Number(g[j])) <= Number(g[k])
        /\ Dense => Number(g[k]) \in {k, Top}
  BY <1>1, <1>4 DEF SinkCell
<1>8. Dense => lo \in {Len(g) + 1, Top}
  BY <1>1 DEF SinkCell
<1>9. \A k \in 1 .. Len(h) :
        /\ Carried(t, h[k]) /\ Following(Number(h[k])) <= n
        /\ \A j \in 1 .. k - 1 : Following(Number(h[j])) <= Number(h[k])
        /\ Dense' => Number(h[k]) \in {k, Top}
  <2>1. ASSUME NEW k \in 1 .. Len(h), k # Len(h)
        PROVE  /\ Carried(t, h[k]) /\ Following(Number(h[k])) <= n
               /\ \A j \in 1 .. k - 1 : Following(Number(h[j])) <= Number(h[k])
               /\ Dense' => Number(h[k]) \in {k, Top}
    <3>1. k \in 1 .. Len(g) /\ \A j \in 1 .. k - 1 : j \in 1 .. Len(g)
      BY <1>3, <2>1
    <3>2. Carried(t, g[k]) /\ Following(Number(g[k])) <= lo
          /\ (\A j \in 1 .. k - 1 : Following(Number(g[j])) <= Number(g[k]))
          /\ (Dense => Number(g[k]) \in {k, Top})
      BY <1>7, <3>1
    <3>3. Following(Number(g[k])) \in 1 .. Top
      BY <3>2, Numbers
    <3>4. Following(Number(g[k])) <= n
      BY <1>5, <1>6, <3>2, <3>3
    <3>5. h[k] = g[k] /\ \A j \in 1 .. k - 1 : h[j] = g[j]
      BY <1>3, <3>1
    <3> QED
      BY <3>2, <3>4, <3>5
  <2>2. ASSUME NEW j \in 1 .. Len(g) PROVE Following(Number(h[j])) <= b
    <3>1. Following(Number(g[j])) <= lo /\ Following(Number(g[j])) \in 1 .. Top
      BY <1>7, Numbers
    <3>2. Following(Number(g[j])) <= b
      BY <1>5, <1>6, <3>1
    <3> QED
      BY <1>3, <3>2
  <2>3. Dense' => b \in {Len(h), Top}
    BY <1>3, <1>5, <1>8
  <2>4. /\ Carried(t, h[Len(h)]) /\ Following(Number(h[Len(h)])) <= n
        /\ \A j \in 1 .. Len(h) - 1 : Following(Number(h[j])) <= Number(h[Len(h)])
        /\ Dense' => Number(h[Len(h)]) \in {Len(h), Top}
    <3>1. Following(Number(h[Len(h)])) = n /\ Number(h[Len(h)]) = b /\ Carried(t, h[Len(h)])
      BY <1>3, <1>4, <1>5
    <3>2. n <= n /\ \A j \in 1 .. Len(h) - 1 : j \in 1 .. Len(g)
      BY <1>3, <1>6
    <3> QED
      BY <2>2, <2>3, <3>1, <3>2
  <2> QED
    BY <2>1, <2>4
<1>10. Dense' => n \in {Len(h) + 1, Top}
  BY <1>3, <1>5, <1>6, <1>8
<1>11. SinkCell(d, n)'
  BY <1>2, <1>4, <1>9, <1>10 DEF SinkCell
<1> QED
  BY <1>5, <1>11

(* An end takes from its pipe: what was read, or what it swallows.          *)
LEMMA SinkFlow ==
  ASSUME RouteInv, chain # <<>>, NEW d \in Direction, Flow(d),
         chain' = chain, handler' = handler, thread' = thread, slow' = slow,
         client'.sent = client.sent, exit'.sent = exit.sent,
         NEW a, a = Node(chain, LastIdx(d)), NEW q, q = link[a][LaneFor(d)], NEW m,
         link' = [link EXCEPT ![a] = m],
         \/ /\ ~Reader(d).astray /\ HasFrame(q) /\ Reader(d).got \in Seq(Frames)
            /\ FrameIn(q) \in Frames
            /\ m[LaneFor(d)] = Rest(q) /\ (Whence(m) => Whence(link[a]))
            /\ Reader(d)'.got = Append(Reader(d).got, FrameIn(q))
            /\ Reader(d)'.astray = ~InStep(q)
         \/ Reader(d).astray /\ Reader(d)' = Reader(d)
  PROVE  Flow(d)'
<1>1. chain \in Chains /\ LastIdx(d) \in 0 .. Len(chain) /\ a \in Dialler
      /\ -1 \in Int /\ LastIdx(d) \in Int
  <2>1. chain \in Chains
    BY ChainIs
  <2>2. LastIdx(d) \in 0 .. Len(chain) /\ a \in Dialler
    BY <2>1, Indices
  <2> QED
    BY <2>1, <2>2
<1>2. PICK i \in 0 .. Len(chain) : i = LastIdx(d)
  BY <1>1
<1>3. link'[a] = m /\ \A y \in Dialler : y # a => link'[y] = link[y]
  BY <1>1, LinkStill
<1>4. Bystanders(d, -1, LastIdx(d))
  <2>1. \A x \in Relay : Alike(x, d)
    BY DEF Alike
  <2>2. \A y \in Dialler : (LastIdx(d) \in 0 .. Len(chain) /\ y = Node(chain, LastIdx(d)))
                           \/ EasesFor(d, link[y], link'[y])
    BY <1>1, <1>3, LinkStill
  <2>3. Dense' => Dense
    BY DEF Dense
  <2> QED
    BY <1>1, <2>1, <2>2, <2>3, StandBy
<1>5. Dense' = Dense /\ LastIdx(d)' = i
  BY <1>2 DEF Dense, LastIdx
<1>6. (InTouch(d, i) <=> ~Reader(d).astray) /\ (InTouch(d, i)' <=> ~Reader(d)'.astray)
  BY <1>2, <1>5 DEF InTouch
<1>7. ASSUME NEW lo \in 0 .. Top, NEW hi \in 0 .. Top, PipeCell(d, i, lo, hi), SinkCell(d, lo)
      PROVE  \E n \in 0 .. Top : PipeCell(d, i, n, hi)' /\ SinkCell(d, n)'
  <2>1. CASE Reader(d).astray /\ Reader(d)' = Reader(d)
    <3>1. PipeCell(d, i, lo, hi)'
      BY <1>6, <2>1 DEF PipeCell
    <3>2. SinkCell(d, lo)'
      BY <1>5, <1>7, <2>1 DEF SinkCell, Carries, LastIdx
    <3> QED
      BY <3>1, <3>2
  <2>2. CASE /\ ~Reader(d).astray /\ HasFrame(q) /\ Reader(d).got \in Seq(Frames)
             /\ FrameIn(q) \in Frames
             /\ m[LaneFor(d)] = Rest(q) /\ (Whence(m) => Whence(link[a]))
             /\ Reader(d)'.got = Append(Reader(d).got, FrameIn(q))
             /\ Reader(d)'.astray = ~InStep(q)
    <3>1. PICK f, l : f = FrameIn(q) /\ l = link[a]
      OBVIOUS
    <3>2. PICK t \in Loads, dense \in BOOLEAN : t = Carries(d, i) /\ dense = Dense
      BY CarriesLane DEF Dense
    <3>3. PipeFrom(t, l, lo, hi, dense)
      BY <1>2, <1>6, <1>7, <2>2, <3>1, <3>2 DEF PipeCell
    <3>4. CASE InStep(q)
      <4>1. /\ Carried(t, f) /\ lo <= Number(f) /\ Number(f) \in 0 .. Top
            /\ Following(Number(f)) \in 0 .. Top
            /\ dense => Number(f) \in {lo, Top}
            /\ PipeFrom(t, m, Following(Number(f)), hi, dense)
        <5>1. l \in Link(chain) /\ q = l[Lane(t)] /\ m[Lane(t)] = Rest(q) /\ (Whence(m) => Whence(l))
          BY <1>1, <2>2, <3>1, <3>2, CarriesLane, LinkStill
        <5>2. HasFrame(q) /\ InStep(q) /\ lo \in 0 .. Top /\ hi \in 0 .. Top /\ t \in Loads /\ dense \in BOOLEAN
          BY <1>7, <2>2, <3>2, <3>4
        <5> QED
          BY ONLY <3>1, <3>3, <5>1, <5>2, ReadPipe
      <4>2. PipeCell(d, i, Following(Number(f)), hi)'
        BY <1>2, <1>3, <1>5, <3>2, <4>1, CarriesSame DEF PipeCell
      <4>3. SinkCell(d, Following(Number(f)))'
        <5>1. /\ f \in Frames /\ Reader(d)'.got = Append(Reader(d).got, f) /\ Reader(d).got \in Seq(Frames)
              /\ Carried(Carries(d, LastIdx(d)), f) /\ (Dense => Number(f) \in {lo, Top})
              /\ (Dense' => Dense) /\ lo \in 0 .. Top /\ lo <= Number(f) /\ SinkCell(d, lo)
          BY <1>2, <1>5, <1>7, <2>2, <3>1, <3>2, <4>1
        <5> QED
          BY ONLY <5>1, chain' = chain, SinkGrows
      <4> QED
        BY <4>1, <4>2, <4>3
    <3>5. CASE ~InStep(q)
      <4>1. f = Junk /\ Number(f) = Top /\ Following(Top) = Top /\ Top \in 0 .. Top /\ lo <= Top
            /\ \A x : Carried(x, f)
        BY <3>1, <3>5, SomeNumbers, Places, SMTT(30) DEF FrameIn
      <4>2. PipeCell(d, i, Top, hi)'
        BY <1>6, <2>2, <3>5 DEF PipeCell
      <4>3. SinkCell(d, Following(Number(f)))'
        <5>1. /\ f \in Frames /\ Reader(d)'.got = Append(Reader(d).got, f) /\ Reader(d).got \in Seq(Frames)
              /\ Carried(Carries(d, LastIdx(d)), f) /\ (Dense => Number(f) \in {lo, Top})
              /\ (Dense' => Dense) /\ lo \in 0 .. Top /\ lo <= Number(f) /\ SinkCell(d, lo)
          BY <1>5, <1>7, <2>2, <3>1, <4>1
        <5> QED
          BY ONLY <5>1, chain' = chain, SinkGrows
      <4>4. SinkCell(d, Top)'
        <5>1. PICK n : n = Following(Number(f)) /\ n = Top
          BY <4>1
        <5>2. SinkCell(d, n)'
          BY <4>3, <5>1
        <5>3. Top' = Top
          BY DEF Top
        <5> QED
          BY <5>1, <5>2, <5>3
      <4> QED
        BY <4>1, <4>2, <4>4
    <3> QED
      BY <3>4, <3>5
  <2> QED
    BY <2>1, <2>2
<1>8. ASSUME NEW lo \in 0 .. Top, NEW hi \in 0 .. Top, PipeCell(d, LastIdx(d), lo, hi), SinkCell(d, lo)
      PROVE  \E n \in 0 .. Top : PipeCell(d, LastIdx(d), n, hi)' /\ SinkCell(d, n)'
  BY <1>2, <1>5, <1>7, <1>8
<1> QED
  BY <1>1, <1>4, <1>8, FlowSinks

(* Where the two ends are.                                                  *)
LEMMA EndPlaces ==
  ASSUME RouteInv, chain # <<>>
  PROVE  /\ Client = Node(chain, FirstIdx("next_node")) /\ Client = Node(chain, LastIdx("back_node"))
         /\ Connected => /\ origin[Exit] = Node(chain, FirstIdx("back_node"))
                         /\ origin[Exit] = Node(chain, LastIdx("next_node"))
         /\ Carries("next_node", FirstIdx("next_node")) = "hops"
         /\ \A i : Carries("back_node", i) = "back"
         /\ Out("dialling") = LaneFor("next_node") /\ In("dialling") = LaneFor("back_node")
         /\ Out("accepted") = LaneFor("back_node") /\ In("accepted") = LaneFor("next_node")
         /\ Reader("next_node") = exit /\ Reader("back_node") = client
         /\ Client \in Dialler
<1>1. chain \in Chains
  BY ChainIs
<1>2. Len(chain) \in Nat \ {0}
  BY <1>1, NodesDiffer
<1>3. Node(chain, 0) = Client /\ FirstIdx("next_node") = 0 /\ LastIdx("back_node") = 0
      /\ FirstIdx("back_node") = Len(chain) /\ LastIdx("next_node") = Len(chain)
  BY DEF Node, FirstIdx, LastIdx
<1>4. Connected => origin[Exit] = Node(chain, Len(chain))
  BY ExitOn
<1>5. Carries("next_node", FirstIdx("next_node")) = "hops" /\ \A i : Carries("back_node", i) = "back"
  BY <1>2, <1>3 DEF Carries
<1> QED
  BY <1>3, <1>4, <1>5, Ends2 DEF LaneFor, Reader, Dialler

LEMMA EndSends ==
  ASSUME RouteInv, chain # <<>>, ClientSend \/ ExitSend, NEW x \in Direction, Flow(x)
  PROVE  Flow(x)'
<1>1. UNCHANGED <<chain, handler, thread, slow>> /\ client \in End /\ exit \in End
      /\ client.sent + 1 + exit.sent <= MaxData /\ client.sent \in Nat /\ exit.sent \in Nat /\ MaxData \in Nat
  BY EndTypes, RelayChainAssumption DEF ClientSend, ExitSend, Sends, MayStillSend, End
<1>2. CASE ClientSend
  <2>1. PICK f, m : f = Data(client.sent + 1) /\ m = Write(link[Client], "dialling", Whole(f))
    OBVIOUS
  <2>2. /\ link[Client]["dialling"] = "open" /\ link' = [link EXCEPT ![Client] = m]
        /\ exit' = exit /\ client' = [client EXCEPT !.sent = client.sent + 1]
    BY <1>2, <2>1 DEF ClientSend, Sends
  <2>3. client'.sent = client.sent + 1 /\ client'.got = client.got /\ client'.astray = client.astray
    BY <1>1, <2>2 DEF End
  <2>4. f \in Frames /\ Carried("hops", f) /\ Number(f) = client.sent + 2
    <3>1. client.sent + 1 \in 0 .. MaxData
      BY <1>1
    <3>2. f \in Frames /\ Carried("hops", f) /\ Number(f) = (client.sent + 1) + 1
      BY <2>1, <3>1, SomeFrames, SomeNumbers
    <3>3. (client.sent + 1) + 1 = client.sent + 2
      BY <1>1
    <3> QED
      BY <3>2, <3>3
  <2>5. CASE x = "next_node"
    <3>1. \A hi : SourceCell(x, hi) => hi = Number(f) /\ SourceCell(x, Following(hi))'
      <4>1. Following(client.sent + 2) = client.sent + 3
        <5>1. client.sent + 2 \in 0 .. Top /\ client.sent + 2 < Top
          BY <1>1 DEF Top
        <5> QED
          BY <1>1, <5>1, Places
      <4> QED
        BY <1>1, <2>3, <2>4, <2>5, <4>1 DEF SourceCell
    <3>2. Reader(x)'.got = Reader(x).got /\ Reader(x)'.astray = Reader(x).astray
      BY <2>2, <2>5 DEF Reader
    <3>3. /\ Client = Node(chain, FirstIdx(x)) /\ Out("dialling") = LaneFor(x)
          /\ Carried(Carries(x, FirstIdx(x)), f) /\ "dialling" \in {"dialling", "accepted"}
      BY <2>4, <2>5, EndPlaces
    <3>4. link' = [link EXCEPT ![Client] = Write(link[Client], "dialling", Whole(f))]
      BY <2>1, <2>2
    <3> QED
      BY <1>1, <2>2, <2>4, <3>1, <3>2, <3>3, <3>4, SourceFlow
  <2>6. CASE x = "back_node"
    <3>1. m[LaneFor(x)] = link[Client][LaneFor(x)] /\ (Whence(m) => Whence(link[Client]))
          /\ Client \in Dialler
      <4>1. link[Client] \in Link(chain) /\ LaneFor(x) = In("dialling")
        BY <2>6, EndPlaces, LinkStill
      <4> QED
        BY <2>1, <4>1, WriteOther, EndPlaces
    <3>2. /\ Reader(x)'.got = Reader(x).got /\ Reader(x)'.astray = Reader(x).astray
          /\ \A hi : SourceCell(x, hi) => SourceCell(x, hi)'
      BY <2>2, <2>3, <2>6 DEF Reader, SourceCell
    <3> QED
      BY <1>1, <2>2, <3>1, <3>2, OtherEnd
  <2> QED
    BY <2>5, <2>6 DEF Direction
<1>3. CASE ExitSend
  <2>0. Connected /\ origin[Exit] \in Dialler
    BY <1>3, ExitLink DEF ExitSend
  <2>1. PICK f, m, a : /\ f = Answer(exit.sent + 1) /\ m = Write(link[a], "accepted", Whole(f))
                       /\ a = origin[Exit]
    OBVIOUS
  <2>2. /\ link[a]["accepted"] = "open" /\ link' = [link EXCEPT ![a] = m]
        /\ client' = client /\ exit' = [exit EXCEPT !.sent = exit.sent + 1]
    BY <1>3, <2>1 DEF ExitSend, Sends
  <2>3. exit'.sent = exit.sent + 1 /\ exit'.got = exit.got /\ exit'.astray = exit.astray
    BY <1>1, <2>2 DEF End
  <2>4. f \in Frames /\ Carried("back", f) /\ Number(f) = exit.sent + 1
    <3>1. exit.sent + 1 \in 1 .. MaxData
      BY <1>1
    <3> QED
      BY <2>1, <3>1, SomeFrames, SomeNumbers
  <2>5. CASE x = "back_node"
    <3>1. \A hi : SourceCell(x, hi) => hi = Number(f) /\ SourceCell(x, Following(hi))'
      <4>1. Following(exit.sent + 1) = exit.sent + 2
        <5>1. exit.sent + 1 \in 0 .. Top /\ exit.sent + 1 < Top
          BY <1>1 DEF Top
        <5> QED
          BY <1>1, <5>1, Places
      <4> QED
        BY <1>1, <2>3, <2>4, <2>5, <4>1 DEF SourceCell
    <3>2. Reader(x)'.got = Reader(x).got /\ Reader(x)'.astray = Reader(x).astray
      BY <2>2, <2>5 DEF Reader
    <3>3. /\ a = Node(chain, FirstIdx(x)) /\ Out("accepted") = LaneFor(x)
          /\ Carried(Carries(x, FirstIdx(x)), f) /\ "accepted" \in {"dialling", "accepted"}
      BY <2>0, <2>1, <2>4, <2>5, EndPlaces
    <3>4. link' = [link EXCEPT ![a] = Write(link[a], "accepted", Whole(f))]
      BY <2>1, <2>2
    <3> QED
      BY <1>1, <2>2, <2>4, <3>1, <3>2, <3>3, <3>4, SourceFlow
  <2>6. CASE x = "next_node"
    <3>1. m[LaneFor(x)] = link[a][LaneFor(x)] /\ (Whence(m) => Whence(link[a]))
          /\ a \in Dialler
      <4>1. link[a] \in Link(chain) /\ LaneFor(x) = In("accepted") /\ a \in Dialler
        BY <2>0, <2>1, <2>6, EndPlaces, LinkStill
      <4> QED
        BY <2>1, <4>1, WriteOther
    <3>2. /\ Reader(x)'.got = Reader(x).got /\ Reader(x)'.astray = Reader(x).astray
          /\ \A hi : SourceCell(x, hi) => SourceCell(x, hi)'
      BY <2>2, <2>3, <2>6 DEF Reader, SourceCell
    <3> QED
      BY <1>1, <2>2, <3>1, <3>2, OtherEnd
  <2> QED
    BY <2>5, <2>6 DEF Direction
<1> QED
  BY <1>2, <1>3

(* What an end p becomes (n) by taking from the front of its pipe q.        *)
Takes(p, n, q, z) ==
  \/ /\ z = Rest(q) /\ ~p.astray /\ HasFrame(q) /\ FrameIn(q) \in Frames
     /\ n = Received(p, q)
  \/ p.astray /\ n = p

(* An end takes from the pipe that it reads: a frame, or, out of step, what *)
(* it takes for a part of one.                                              *)
LEMMA TakesFlow ==
  ASSUME RouteInv, chain # <<>>, NEW d \in Direction,
         chain' = chain, handler' = handler, thread' = thread, slow' = slow,
         client'.sent = client.sent, exit'.sent = exit.sent,
         NEW a \in Dialler, a = Node(chain, LastIdx(d)),
         NEW e \in {"dialling", "accepted"}, In(e) = LaneFor(d),
         NEW z, NEW m, m = [link[a] EXCEPT ![In(e)] = z], link' = [link EXCEPT ![a] = m],
         NEW q, q = link[a][In(e)], Reader(d) \in End,
         \A y \in Direction : y # d => LaneFor(y) = Out(e) /\ Reader(y)' = Reader(y),
         Takes(Reader(d), Reader(d)', q, z),
         NEW x \in Direction, Flow(x)
  PROVE  Flow(x)'
<1>1. link[a] \in Link(chain)
  BY LinkStill
<1>2. m[In(e)] = z /\ m[Out(e)] = link[a][Out(e)] /\ (Whence(m) => Whence(link[a]))
  <2>1. PICK l \in Link(chain) : l = link[a]
    BY <1>1
  <2>2. m = [l EXCEPT ![In(e)] = z]
    BY <2>1
  <2> QED
    BY <2>1, <2>2, Ends2 DEF Whence, Link
<1>3. CASE x = d
  <2>1. \/ /\ ~Reader(d).astray /\ HasFrame(q) /\ Reader(d).got \in Seq(Frames)
           /\ FrameIn(q) \in Frames
           /\ m[LaneFor(d)] = Rest(q) /\ (Whence(m) => Whence(link[a]))
           /\ Reader(d)'.got = Append(Reader(d).got, FrameIn(q))
           /\ Reader(d)'.astray = ~InStep(q)
        \/ Reader(d).astray /\ Reader(d)' = Reader(d)
    <3>1. CASE Reader(d).astray
      BY <3>1 DEF Takes
    <3>2. CASE ~Reader(d).astray
      <4>1. z = Rest(q) /\ HasFrame(q) /\ FrameIn(q) \in Frames /\ Reader(d)' = Received(Reader(d), q)
        BY <3>2 DEF Takes
      <4>2. Received(Reader(d), q).got = Append(Reader(d).got, FrameIn(q))
            /\ Received(Reader(d), q).astray = ~InStep(q) /\ Reader(d).got \in Seq(Frames)
        BY DEF Received, End
      <4> QED
        BY <1>2, <3>2, <4>1, <4>2
    <3> QED
      BY <3>1, <3>2
  <2>2. q = link[a][LaneFor(d)] /\ Flow(d)
    BY <1>3
  <2>3. Flow(d)'
    BY <2>1, <2>2, SinkFlow
  <2> QED
    BY <1>3, <2>3
<1>4. CASE x # d
  <2>1. m[LaneFor(x)] = link[a][LaneFor(x)]
    BY <1>2, <1>4
  <2>2. Reader(x)'.got = Reader(x).got /\ Reader(x)'.astray = Reader(x).astray
    BY <1>4
  <2>3. \A hi : SourceCell(x, hi) => SourceCell(x, hi)'
    BY DEF SourceCell
  <2> QED
    BY <1>2, <2>1, <2>2, <2>3, OtherEnd
<1> QED
  BY <1>3, <1>4

LEMMA ClientTakes ==
  ASSUME RouteInv, chain # <<>>, ClientRecv \/ ClientSwallows, NEW x \in Direction, Flow(x)
  PROVE  Flow(x)'
<1>1. /\ chain' = chain /\ handler' = handler /\ thread' = thread /\ exit' = exit
      /\ client \in End /\ Client \in Dialler
  BY EndTypes DEF ClientRecv, ClientSwallows, Reads, Swallows
<1>2. /\ "back_node" \in Direction /\ Client = Node(chain, LastIdx("back_node"))
      /\ In("dialling") = LaneFor("back_node") /\ "dialling" \in {"dialling", "accepted"}
      /\ \A y \in Direction : y # "back_node" => LaneFor(y) = Out("dialling") /\ y = "next_node"
      /\ Reader("back_node") = client /\ Reader("back_node")' = client'
      /\ Reader("next_node") = exit /\ Reader("next_node")' = exit'
  BY EndPlaces DEF Direction, Reader
<1>3. PICK q : q = link[Client][In("dialling")] /\ q = link[Client].down
  BY Ends2
<1>4. q \in Seq(Pieces(Frames)) /\ link \in [Dialler -> Link(chain)]
  BY <1>3, EndTypes, LinkStill
<1>5. CASE ClientRecv
  <2>1. /\ slow' = slow /\ ~client.astray /\ HasFrame(q) /\ client' = Received(client, q)
        /\ link' = [link EXCEPT ![Client] = [link[Client] EXCEPT ![In("dialling")] = Rest(q)]]
    BY <1>3, <1>5 DEF ClientRecv, Reads
  <2>2. FrameIn(q) \in Frames
    BY <1>4, <2>1, OfFrames, FrameInType, SomeFrames
  <2>3. client'.sent = client.sent
    BY <1>1, <2>1, <2>2, GetsFrame
  <2>4. PICK m : m = [link[Client] EXCEPT ![In("dialling")] = Rest(q)]
    OBVIOUS
  <2>5. link' = [link EXCEPT ![Client] = m]
    BY <2>1, <2>4
  <2>6. Takes(Reader("back_node"), Reader("back_node")', q, Rest(q))
    BY <1>2, <2>1, <2>2 DEF Takes
  <2>7. /\ slow' = slow /\ client'.sent = client.sent /\ exit'.sent = exit.sent
        /\ Reader("back_node") \in End
        /\ \A y \in Direction : y # "back_node" => LaneFor(y) = Out("dialling") /\ Reader(y)' = Reader(y)
    BY <1>1, <1>2, <2>1, <2>3 DEF Reader
  <2> QED
    BY ONLY RouteInv, chain # <<>>, x \in Direction, Flow(x), <1>1, <1>2, <1>3, <2>4, <2>5, <2>6, <2>7, TakesFlow
<1>6. CASE ClientSwallows
  <2>1. /\ slow' = slow /\ client.astray /\ client' = client
        /\ link' = [link EXCEPT ![Client] = [link[Client] EXCEPT ![In("dialling")] = Tail(q)]]
    BY <1>3, <1>6 DEF ClientSwallows, Swallows
  <2>4. PICK m : m = [link[Client] EXCEPT ![In("dialling")] = Tail(q)]
    OBVIOUS
  <2>5. link' = [link EXCEPT ![Client] = m]
    BY <2>1, <2>4
  <2>6. Takes(Reader("back_node"), Reader("back_node")', q, Tail(q))
    BY <1>2, <2>1 DEF Takes
  <2>7. /\ slow' = slow /\ client'.sent = client.sent /\ exit'.sent = exit.sent
        /\ Reader("back_node") \in End
        /\ \A y \in Direction : y # "back_node" => LaneFor(y) = Out("dialling") /\ Reader(y)' = Reader(y)
    BY <1>1, <1>2, <2>1 DEF Reader
  <2> QED
    BY ONLY RouteInv, chain # <<>>, x \in Direction, Flow(x), <1>1, <1>2, <1>3, <2>4, <2>5, <2>6, <2>7, TakesFlow
<1> QED
  BY <1>5, <1>6

LEMMA ExitTakes ==
  ASSUME RouteInv, chain # <<>>, ExitRecv \/ ExitSwallows, NEW x \in Direction, Flow(x)
  PROVE  Flow(x)'
<1>0. Connected
  BY DEF ExitRecv, ExitSwallows
<1>1. /\ chain' = chain /\ handler' = handler /\ thread' = thread /\ client' = client
      /\ exit \in End
  BY EndTypes DEF ExitRecv, ExitSwallows, Reads, Swallows
<1>2. PICK a \in Dialler : a = origin[Exit]
  BY <1>0, ExitLink
<1>3. /\ "next_node" \in Direction /\ a = Node(chain, LastIdx("next_node"))
      /\ In("accepted") = LaneFor("next_node") /\ "accepted" \in {"dialling", "accepted"}
      /\ \A y \in Direction : y # "next_node" => LaneFor(y) = Out("accepted") /\ y = "back_node"
      /\ Reader("back_node") = client /\ Reader("back_node")' = client'
      /\ Reader("next_node") = exit /\ Reader("next_node")' = exit'
  BY <1>0, <1>2, EndPlaces DEF Direction, Reader
<1>8. /\ "next_node" \in Direction /\ a = Node(chain, LastIdx("next_node"))
      /\ In("accepted") = LaneFor("next_node") /\ "accepted" \in {"dialling", "accepted"}
      /\ chain' = chain /\ handler' = handler /\ thread' = thread
  BY <1>1, <1>3
<1>4. PICK q : q = link[a][In("accepted")] /\ q = link[a].up
  BY Ends2
<1>5. /\ q \in Seq(Pieces(Frames \cup Blobs(chain))) /\ link \in [Dialler -> Link(chain)]
      /\ \A k \in 1 .. Len(q) : q[k].of \in Frames
  BY <1>0, <1>2, <1>4, EndTypes, LinkStill, ExitLink
<1>6. CASE ExitRecv
  <2>1. /\ slow' = slow /\ ~exit.astray /\ HasFrame(q) /\ exit' = Received(exit, q)
        /\ link' = [link EXCEPT ![a] = [link[a] EXCEPT ![In("accepted")] = Rest(q)]]
    BY <1>2, <1>4, <1>6 DEF ExitRecv, Reads
  <2>2. FrameIn(q) \in Frames
    BY <1>5, <2>1, OfFrames, FrameInType, SomeFrames
  <2>3. exit'.sent = exit.sent
    BY <1>1, <2>1, <2>2, GetsFrame
  <2>4. PICK m : m = [link[a] EXCEPT ![In("accepted")] = Rest(q)]
    OBVIOUS
  <2>5. link' = [link EXCEPT ![a] = m]
    BY <2>1, <2>4
  <2>6. Takes(Reader("next_node"), Reader("next_node")', q, Rest(q))
    BY <1>3, <2>1, <2>2 DEF Takes
  <2>7. /\ slow' = slow /\ client'.sent = client.sent /\ exit'.sent = exit.sent
        /\ Reader("next_node") \in End
        /\ \A y \in Direction : y # "next_node" => LaneFor(y) = Out("accepted") /\ Reader(y)' = Reader(y)
    BY <1>1, <1>3, <2>1, <2>3 DEF Reader
  <2> QED
    BY ONLY RouteInv, chain # <<>>, x \in Direction, Flow(x), <1>8, <1>4, a \in Dialler,
       <2>4, <2>5, <2>6, <2>7, TakesFlow
<1>7. CASE ExitSwallows
  <2>1. /\ slow' = slow /\ exit.astray /\ exit' = exit
        /\ link' = [link EXCEPT ![a] = [link[a] EXCEPT ![In("accepted")] = Tail(q)]]
    BY <1>2, <1>4, <1>7 DEF ExitSwallows, Swallows
  <2>4. PICK m : m = [link[a] EXCEPT ![In("accepted")] = Tail(q)]
    OBVIOUS
  <2>5. link' = [link EXCEPT ![a] = m]
    BY <2>1, <2>4
  <2>6. Takes(Reader("next_node"), Reader("next_node")', q, Tail(q))
    BY <1>3, <2>1 DEF Takes
  <2>7. /\ slow' = slow /\ client'.sent = client.sent /\ exit'.sent = exit.sent
        /\ Reader("next_node") \in End
        /\ \A y \in Direction : y # "next_node" => LaneFor(y) = Out("accepted") /\ Reader(y)' = Reader(y)
    BY <1>1, <1>3, <2>1 DEF Reader
  <2> QED
    BY ONLY RouteInv, chain # <<>>, x \in Direction, Flow(x), <1>8, <1>4, a \in Dialler,
       <2>4, <2>5, <2>6, <2>7, TakesFlow
<1> QED
  BY <1>6, <1>7


(* What no step may do to what has not been used yet.                       *)
LEMMA QuietKept ==
  ASSUME Quiet,
         \A q \in Relay : handler'[q] \in Early => handler[q] \in Early,
         \A q \in Relay : handler'[q] = "listen" => handler[q] = "listen",
         \/ \E q \in Relay : handler[q] # "listen"
         \/ link'[Client] = link[Client] /\ client' = client /\ exit' = exit,
         \A q \in Relay : \/ link'[q] = link[q] \/ handler'[q] \notin Early \/ ~Unused(link[q])
                          \/ \E n \in Relay \cup {Exit} : origin[n] = q,
         \A n \in Relay \cup {Exit} :
           origin'[n] = origin[n] \/ \A q \in Relay : origin'[n] = q => handler'[q] \notin Early
  PROVE  Quiet'
<1>1. ASSUME \A q \in Relay : handler'[q] = "listen"
      PROVE  Unused(link'[Client]) /\ \A p \in {client', exit'} : p.sent = 0 /\ p.got = <<>> /\ ~p.astray
  <2>1. \A q \in Relay : handler[q] = "listen"
    BY <1>1
  <2>2. link'[Client] = link[Client] /\ client' = client /\ exit' = exit
    BY <2>1
  <2> QED
    BY <2>1, <2>2 DEF Quiet
<1>2. ASSUME NEW r \in Relay, handler'[r] \in Early
      PROVE  Unused(link'[r]) /\ \A n \in Relay \cup {Exit} : origin'[n] # r
  <2>1. Unused(link[r]) /\ \A n \in Relay \cup {Exit} : origin[n] # r
    BY <1>2 DEF Quiet
  <2>2. link'[r] = link[r]
    BY <1>2, <2>1
  <2> QED
    BY <1>2, <2>1, <2>2
<1> QED
  BY <1>1, <1>2 DEF Quiet, Unused, Early

(* A step of relay r, which somebody has dialled.                           *)
LEMMA QuietRelay ==
  ASSUME RouteInv, Quiet, NEW r \in Relay, handler[r] # "listen",
         \A q \in Relay : handler'[q] \in Early => handler[q] \in Early,
         \A q \in Relay : handler'[q] = "listen" => handler[q] = "listen",
         \A q \in Relay : q \notin {r, origin[r]} => link'[q] = link[q],
         link'[r] = link[r] \/ handler'[r] \notin Early,
         \A n \in Relay \cup {Exit} :
           origin'[n] = origin[n] \/ \A q \in Relay : origin'[n] = q => handler'[q] \notin Early
  PROVE  Quiet'
<1>1. \A q \in Relay : \/ link'[q] = link[q] \/ handler'[q] \notin Early \/ ~Unused(link[q])
                       \/ \E n \in Relay \cup {Exit} : origin[n] = q
  OBVIOUS
<1> QED
  BY <1>1, QuietKept

(* Somebody whose socket has been opened is not waiting to use it.          *)
LEMMA QuietEnds ==
  ASSUME RouteInv, Quiet, NEW d \in Dialler, NEW e \in {"dialling", "accepted"}, link[d][e] # "none",
         \A x \in Dialler : x # d => link'[x] = link[x], handler' = handler, origin' = origin
  PROVE  Quiet'
<1>1. ~Unused(link[d])
  BY DEF Unused
<1>2. \E q \in Relay : handler[q] # "listen"
  <2>1. CASE d = Client
    BY <1>1, <2>1 DEF Quiet
  <2>2. CASE d # Client
    BY <1>1, <2>2 DEF Quiet, Dialler, Early
  <2> QED
    BY <2>1, <2>2
<1>3. \A q \in Relay : link'[q] = link[q] \/ ~Unused(link[q])
  BY <1>1 DEF Dialler
<1> QED
  BY <1>2, <1>3, QuietKept

LEMMA QuietClient ==
  ASSUME RouteInv, Quiet, ClientSend \/ ClientRecv \/ ClientSwallows \/ ClientSeesEnd \/ ClientClose
  PROVE  Quiet'
<1>1. handler' = handler /\ origin' = origin /\ link[Client].dialling = "open" /\ Client \in Dialler
  BY EndTypes DEF ClientSend, ClientRecv, ClientSwallows, ClientSeesEnd, ClientClose, Sends, Reads,
                  Swallows, SeesEnd
<1>2. \A x \in Dialler : x # Client => link'[x] = link[x]
  BY LinkStill DEF ClientSend, ClientRecv, ClientSwallows, ClientSeesEnd, ClientClose, Sends, Reads,
                   Swallows, SeesEnd
<1>3. link[Client]["dialling"] # "none"
  BY <1>1
<1> QED
  BY <1>1, <1>2, <1>3, QuietEnds

LEMMA QuietExit ==
  ASSUME RouteInv, Quiet, ExitNext
  PROVE  Quiet'
<1>0. Connected
  BY DEF ExitNext, ExitSend, ExitRecv, ExitSwallows, ExitSeesEnd, ExitClose
<1>1. handler' = handler /\ origin' = origin /\ link[origin[Exit]].accepted = "open"
  BY DEF ExitNext, ExitSend, ExitRecv, ExitSwallows, ExitSeesEnd, ExitClose, Sends, Reads,
         Swallows, SeesEnd
<1>2. \A x \in Dialler : x # origin[Exit] => link'[x] = link[x]
  BY LinkStill DEF ExitNext, ExitSend, ExitRecv, ExitSwallows, ExitSeesEnd, ExitClose, Sends, Reads,
                   Swallows, SeesEnd
<1>3. link[origin[Exit]]["accepted"] # "none" /\ origin[Exit] \in Dialler
  BY <1>0, <1>1, ExitLink
<1> QED
  BY <1>1, <1>2, <1>3, QuietEnds

LEMMA QuietRelease ==
  ASSUME RouteInv, Quiet, NEW d \in Dialler, NEW e \in {"dialling", "accepted"}, Release(d, e)
  PROVE  Quiet'
<1>1. handler' = handler /\ origin' = origin /\ link[d][e] # "none"
  BY DEF Release
<1>2. \A x \in Dialler : x # d => link'[x] = link[x]
  BY LinkStill DEF Release
<1> QED
  BY <1>1, <1>2, QuietEnds

LEMMA QuietDial ==
  ASSUME RouteInv, Quiet, NEW r \in Relay, link[Client].dialling = "none", NEW l,
         link' = [link EXCEPT ![Client] = l], handler' = [handler EXCEPT ![r] = "first"],
         origin' = [origin EXCEPT ![r] = Client]
  PROVE  Quiet'
<1>1. \A q \in Relay : handler[q] = "listen"
  BY BeforeDial
<1>2. \A q \in Relay : handler'[q] = IF q = r THEN "first" ELSE "listen"
  BY <1>1, SlowTypes
<1>3. \A q \in Relay : link'[q] = link[q] /\ q # Client
  BY LinkStill, RelayChainAssumption DEF Dialler
<1>4. \A n \in Relay \cup {Exit} : origin'[n] \in {origin[n], Client}
  BY DEF RouteInv, Types
<1> QED
  BY <1>1, <1>2, <1>3, <1>4 DEF Quiet, Unused, Early

LEMMA QuietHandler ==
  ASSUME RouteInv, Quiet, NEW r \in Relay, HandlerStep(r) \/ HelloFails(r)
  PROVE  Quiet'
<1>0. handler \in [Relay -> {"listen", "first", "layer", "connect", "hello", "forward", "over"}]
  BY DEF RouteInv, Types
<1>1. CASE Connect(r)
  <2>1. \A q \in Relay : q = hop[r].addr => handler[q] = "listen"
    BY <1>1, RelayChainAssumption DEF Connect, Listens
  <2>2. handler[r] = "connect" /\ handler'[r] = "hello"
    BY <1>1 DEF Connect
  <2>3. \A q \in Relay : q # r => handler'[q] \in {"first", handler[q]}
                                  /\ (handler'[q] = handler[q] \/ handler[q] = "listen")
    BY <1>1, <2>1 DEF Connect
  <2>4. \A q \in Relay : q # r => link'[q] = link[q]
    BY <1>1, LinkStill DEF Connect, Dialler
  <2>5. \A n \in Relay \cup {Exit} : origin'[n] \in {origin[n], r}
    BY <1>1 DEF Connect, RouteInv, Types
  <2> QED
    BY <2>2, <2>3, <2>4, <2>5, QuietRelay DEF Early
<1>2. CASE ~Connect(r)
  <2>1. /\ handler[r] \in {"first", "layer", "connect", "hello"} /\ origin' = origin
        /\ \E h \in {"layer", "connect", "over", "forward"} :
             handler' = [handler EXCEPT ![r] = h] /\ (h = "layer" => handler[r] = "first")
             /\ (h = "connect" => handler[r] = "layer")
    BY <1>2 DEF HandlerStep, HandlerGivesUp, HandleFirst, HandleLayer, ConnectFails, StartForwarding,
                HelloFails, HandlerFrame
  <2>2. /\ \A q \in Relay : handler'[q] \in Early => handler[q] \in Early
        /\ \A q \in Relay : handler'[q] = "listen" => handler[q] = "listen"
    BY <1>0, <2>1 DEF Early
  <2>3. /\ \A q \in Relay : q \notin {r, origin[r]} => link'[q] = link[q]
        /\ link'[r] = link[r] \/ handler'[r] \in {"forward", "over"}
    <3>1. r \in Dialler /\ origin[r] \in Dialler /\ origin[r] # r /\ link = [x \in Dialler |-> link[x]]
      BY <2>1, HandlerLink, LinkStill
    <3>2. CASE StartForwarding(r) \/ HelloFails(r)
      BY <1>0, <3>1, <3>2 DEF StartForwarding, HelloFails, Dialler
    <3>3. CASE HandlerGivesUp(r) \/ HandleFirst(r) \/ HandleLayer(r) \/ ConnectFails(r)
      <4>1. \E m : link' = [link EXCEPT ![origin[r]] = m]
        BY <3>3 DEF HandlerGivesUp, HandleFirst, HandleLayer, ConnectFails
      <4> QED
        BY <3>1, <4>1 DEF Dialler
    <3> QED
      BY <1>2, <3>2, <3>3 DEF HandlerStep
  <2> QED
    BY <2>1, <2>2, <2>3, QuietRelay DEF Early
<1> QED
  BY <1>1, <1>2

LEMMA QuietRestart ==
  ASSUME RouteInv, Quiet, NEW r \in Relay, Restart(r)
  PROVE  Quiet'
<1>0. handler \in [Relay -> {"listen", "first", "layer", "connect", "hello", "forward", "over"}]
  BY DEF RouteInv, Types
<1>1. CASE handler[r] = "listen"
  BY <1>1 DEF Restart, Quiet, Unused, Early
<1>2. CASE handler[r] # "listen"
  <2>1. PICK p, n : /\ handler' = [handler EXCEPT ![r] = "over"] /\ origin' = origin
                    /\ link' = [link EXCEPT ![origin[r]] = p, ![r] = n]
    BY <1>2 DEF Restart
  <2>2. \A q \in Relay : q \notin {r, origin[r]} => link'[q] = link[q]
    BY <2>1, LinkStill DEF Dialler
  <2> QED
    BY <1>0, <1>2, <2>1, <2>2, QuietRelay DEF Early
<1> QED
  BY <1>1, <1>2

LEMMA QuietThread ==
  ASSUME RouteInv, Quiet, NEW r \in Relay, NEW d \in Direction,
         ThreadStep(r, d) \/ RecvTimesOut(r, d) \/ SendTimesOut(r, d)
  PROVE  Quiet'
<1>1. thread[r][d].at \in {"recv", "send"} /\ handler' = handler /\ origin' = origin
  BY DEF ThreadStep, CopyRecv, CopyEnds, RecvRaises, CopyAstray, CopySend, SendRaises, RecvTimesOut,
         SendTimesOut, Dies, ThreadFrame
<1>2. handler[r] = "forward" /\ origin[r] \in Dialler /\ r \in Dialler
      /\ link = [x \in Dialler |-> link[x]] /\ InLink(r, d) \in {r, origin[r]} /\ OutLink(r, d) \in {r, origin[r]}
  BY <1>1, ThreadLinks, LinkStill
<1>3. \/ UNCHANGED link
      \/ \E m : \E x \in {r, origin[r]} : link' = [link EXCEPT ![x] = m]
      \/ \E m, n : link' = [link EXCEPT ![r] = m, ![origin[r]] = n]
  <2>1. CASE CopyRecv(r, d) \/ RecvTimesOut(r, d) \/ CopyAstray(r, d)
    BY <1>2, <2>1 DEF CopyRecv, RecvTimesOut, CopyAstray
  <2>2. CASE CopySend(r, d) \/ SendTimesOut(r, d)
    BY <1>2, <2>2 DEF CopySend, SendTimesOut
  <2>3. CASE CopyEnds(r, d) \/ RecvRaises(r, d) \/ SendRaises(r, d)
    BY <2>3 DEF CopyEnds, RecvRaises, SendRaises, Dies, CloseBoth
  <2> QED
    BY <2>1, <2>2, <2>3 DEF ThreadStep
<1>4. \A q \in Relay : q \notin {r, origin[r]} => link'[q] = link[q]
  BY <1>2, <1>3 DEF Dialler
<1> QED
  BY <1>1, <1>2, <1>4, QuietRelay DEF Early


-------------------------------------------------------------------------------
(* The first step, and all of them.                                         *)

LEMMA EmptyPipe ==
  ASSUME NEW t, NEW l, l[Lane(t)] = <<>>, NEW lo \in 0 .. Top, NEW dense
  PROVE  PipeFrom(t, l, lo, lo, dense)
<1>1. PICK q : q = l[Lane(t)] /\ q = <<>>
  OBVIOUS
<1>2. Len(q) = 0 /\ Top \in Nat
  BY <1>1, Places
<1>3. Line(t, q, lo, lo) /\ Gapless(q, lo) /\ Complete(q, lo, lo)
  BY ONLY <1>2, lo \in 0 .. Top DEF Line, Gapless, Complete
<1> QED
  BY <1>1, <1>3 DEF PipeFrom

(* The link that the client opens.                                          *)
LEMMA DialledPipe ==
  ASSUME NEW k \in Onions, NEW g, g.tag = "blob", NEW m, m = NewLink(<<Kind(k), g>>), NEW dense
  PROVE  m.down = <<>> /\ PipeFrom("hops", m, 0, 2, dense)
<1>1. PICK F, x : F = {x, g} /\ x = Kind(k)
  OBVIOUS
<1>2. PICK s : s = <<x, g>> /\ m = NewLink(s)
  BY <1>1
<1>3. s \in Seq(F) /\ Len(s) = 2 /\ s[1] = x /\ s[2] = g /\ x \in F /\ g \in F
  BY <1>1, <1>2
<1>4. m = [up |-> Whole(x) \o Whole(g), down |-> <<>>, dialling |-> "open", accepted |-> "open"]
  BY <1>2, <1>3, DialledLink
<1>5. PICK b : b = Whole(x) \o Whole(g)
  OBVIOUS
<1>6. Len(b) = 4 /\ b \in Seq(Pieces(F)) /\ Tells(b, x, g)
  BY <1>3, <1>5, HelloLength, HelloParts
<1>7. k \in Onions \cup {"RELAY"} /\ Len(b) <= 4 /\ Tells(b, Kind(k), g)
  BY <1>1, <1>6
<1>8. Line("hops", b, 0, 2) /\ Gapless(b, 0) /\ (Len(b) = 4 => Complete(b, 0, 2))
  <2>1. PICK y \in Onions \cup {"RELAY"} : y = k
    BY <1>7
  <2>2. PICK S : S = Pieces(F)
    OBVIOUS
  <2>3. b \in Seq(S) /\ Len(b) <= 4 /\ Tells(b, Kind(y), g)
    BY <1>6, <1>7, <2>1, <2>2
  <2> QED
    BY ONLY <2>3, y \in Onions \cup {"RELAY"}, g.tag = "blob", HelloLine
<1>9. m.up = b /\ m.down = <<>> /\ Lane("hops") = "up"
  <2>1. m = [up |-> b, down |-> <<>>, dialling |-> "open", accepted |-> "open"]
    BY <1>4, <1>5
  <2>2. m.up = b /\ m.down = <<>>
    BY ONLY <2>1
  <2> QED
    BY <2>2 DEF Lane
<1> QED
  BY <1>6, <1>8, <1>9 DEF PipeFrom

LEMMA DialFlow ==
  ASSUME RouteInv, Quiet, NEW c \in Chains, NEW k \in Kinds, Dial(c, k), NEW d \in Direction
  PROVE  Flow(d)'
<1>1. link[Client].dialling = "none" /\ k \in Onions
  BY DEF Dial
<1>2. /\ \A q \in Relay : handler[q] = "listen"
      /\ \A q \in Relay, x \in Direction : thread[q][x].at \notin {"recv", "send"}
  BY <1>1, BeforeDial
<1>3. PICK m, g : g = Blob(LayersOf(c)[1]) /\ m = NewLink(<<Kind(k), g>>)
  OBVIOUS
<1>4. /\ link' = [link EXCEPT ![Client] = m] /\ chain' = c /\ thread' = thread
      /\ handler' = [handler EXCEPT ![c[1]] = "first"] /\ exit' = exit
      /\ client' = [client EXCEPT !.asked = k]
  BY <1>3, OnionIs DEF Dial
<1>5. m.down = <<>> /\ \A dense : PipeFrom("hops", m, 0, 2, dense)
  BY <1>1, <1>3, DialledPipe DEF Blob
<1>6. /\ \A q \in Relay : handler'[q] \in {"listen", "first"}
      /\ link'[Client] = m /\ \A q \in Relay : link'[q].up = <<>> /\ link'[q].down = <<>>
  <2>1. \A q \in Relay : link'[q] = link[q] /\ q # Client
    BY <1>4, LinkStill, RelayChainAssumption DEF Dialler
  <2> QED
    BY <1>2, <1>4, <2>1, LinkStill, SlowTypes, EndTypes DEF Quiet, Unused, Early
<1>7. client'.sent = 0 /\ client'.got = <<>> /\ ~client'.astray
      /\ exit'.sent = 0 /\ exit'.got = <<>> /\ ~exit'.astray
  BY <1>2, <1>4, EndTypes DEF Quiet, End
<1>8. /\ Len(c) \in Nat \ {0} /\ Node(c, 0) = Client
      /\ \A i \in 1 .. Len(c) : Node(c, i) = c[i] /\ c[i] \in Relay
      /\ Top \in Nat /\ 2 \in 0 .. Top /\ 1 \in 0 .. Top /\ 0 \in 0 .. Top
  <2>1. Top \in Nat /\ Top >= 3
    BY Places
  <2> QED
    BY <2>1, NodesDiffer
<1>9. PICK r \in [0 .. Len(c) -> 0 .. Top] :
        \A i \in 0 .. Len(c) : r[i] = IF d = "next_node" /\ i < Len(c) THEN 0 ELSE 1
  <2>1. \A i \in 0 .. Len(c) : (IF d = "next_node" /\ i < Len(c) THEN 0 ELSE 1) \in 0 .. Top
    BY <1>8
  <2>2. [i \in 0 .. Len(c) |-> IF d = "next_node" /\ i < Len(c) THEN 0 ELSE 1] \in [0 .. Len(c) -> 0 .. Top]
    BY <2>1
  <2> QED
    BY <2>2
<1>10. PICK w \in [0 .. Len(c) -> 0 .. Top] :
         \A i \in 0 .. Len(c) : w[i] = IF d = "next_node" /\ i = 0 THEN 2 ELSE r[i]
  <2>1. \A i \in 0 .. Len(c) : (IF d = "next_node" /\ i = 0 THEN 2 ELSE r[i]) \in 0 .. Top
    BY <1>8
  <2>2. [i \in 0 .. Len(c) |-> IF d = "next_node" /\ i = 0 THEN 2 ELSE r[i]] \in [0 .. Len(c) -> 0 .. Top]
    BY <2>1
  <2> QED
    BY <2>2
<1>11. ASSUME NEW i \in 0 .. Len(c) PROVE PipeCell(d, i, r[i], w[i])'
  <2>1. PICK t : t = Carries(d, i)' /\ t \in Loads /\ Lane(t) = LaneFor(d)
    <3>1. Carries(d, i)' \in {"back", "exit", "hops"}
      BY DEF Carries
    <3>2. Lane(Carries(d, i)') = LaneFor(d)
      BY <1>4 DEF Carries, Lane, LaneFor, Direction
    <3> QED
      BY <3>1, <3>2 DEF Loads
  <2>2. CASE d = "next_node" /\ i = 0
    <3>1. r[i] = 0 /\ w[i] = 2 /\ t = "hops" /\ Node(c, i) = Client
      <4>1. 0 < Len(c) /\ 0 \in 0 .. Len(c) /\ Node(c, 0) = Client
        BY <1>8
      <4>2. r[0] = 0 /\ w[0] = 2
        BY <1>9, <1>10, <2>2, <4>1
      <4>3. t = "hops"
        BY <1>4, <2>1, <2>2, <4>1 DEF Carries
      <4> QED
        BY <2>2, <4>1, <4>2, <4>3
    <3> QED
      BY <1>4, <1>5, <1>6, <2>1, <3>1 DEF PipeCell, Node
  <2>3. CASE ~(d = "next_node" /\ i = 0)
    <3>1. PICK n : n = r[i] /\ n = w[i] /\ n \in 0 .. Top
      BY <1>10, <2>3
    <3>2. PICK l : l = link'[Node(c, i)] /\ l[Lane(t)] = <<>>
      <4>1. CASE i = 0
        <5>1. link'[Node(c, i)] = m /\ Lane(t) = "down"
          BY <1>6, <1>8, <2>1, <2>3, <4>1 DEF LaneFor, Direction
        <5> QED
          BY <1>5, <5>1
      <4>2. CASE i # 0
        <5>1. Node(c, i) \in Relay /\ Lane(t) \in {"up", "down"}
          BY <1>8, <4>2 DEF Lane
        <5> QED
          BY <1>6, <5>1
      <4> QED
        BY <4>1, <4>2
    <3>3. PipeFrom(t, l, n, n, Dense')
      BY <3>1, <3>2, EmptyPipe
    <3> QED
      BY <1>4, <2>1, <3>1, <3>2, <3>3 DEF PipeCell, Node
  <2> QED
    BY <2>2, <2>3
<1>12. ASSUME NEW j \in 1 .. Len(c) PROVE RelayCell(d, j, r[InIdx(d, j)], w[OutIdx(d, j)])'
  <2>1. handler'[c[j]] \in {"listen", "first"}
    BY <1>6, <1>8
  <2>2. InIdx(d, j) \in 0 .. Len(c) /\ OutIdx(d, j) \in 0 .. Len(c)
        /\ (d = "next_node" => OutIdx(d, j) # 0 /\ InIdx(d, j) < Len(c))
    BY <1>8 DEF InIdx, OutIdx
  <2>3. w[OutIdx(d, j)] = First(d, OutIdx(d, j))' /\ r[InIdx(d, j)] = IF d = "back_node" THEN 1 ELSE 0
    BY <1>4, <1>9, <1>10, <2>2 DEF First, Direction
  <2> QED
    BY <1>4, <2>1, <2>3 DEF RelayCell, InIdx, OutIdx
<1>13. SinkCell(d, r[LastIdx(d)])'
  <2>1. Reader(d)'.got = <<>>
    BY <1>7 DEF Reader
  <2>2. PICK h : h = Reader(d)'.got /\ Len(h) = 0
    BY <2>1
  <2>3. LastIdx(d)' \in 0 .. Len(c) /\ r[LastIdx(d)'] = 1
    BY <1>4, <1>8, <1>9 DEF LastIdx, Direction
  <2> QED
    BY <2>2, <2>3 DEF SinkCell
<1>14. SourceCell(d, w[FirstIdx(d)])'
  <2>1. FirstIdx(d)' = IF d = "next_node" THEN 0 ELSE Len(c)
    BY <1>4 DEF FirstIdx
  <2>2. w[FirstIdx(d)'] = IF d = "next_node" THEN 2 ELSE 1
    BY <1>8, <1>9, <1>10, <2>1 DEF Direction
  <2> QED
    BY <1>7, <2>2 DEF SourceCell
<1> QED
  BY <1>4, <1>11, <1>12, <1>13, <1>14 DEF Flow, FlowBody

LEMMA OrderInit ==
  ASSUME Init
  PROVE  OrderInv
<1>1. RouteInv /\ chain = <<>>
  BY RouteInit DEF Init
<1>2. \A x \in Dialler : Unused(link[x])
  <2>1. NewLink(<<>>) = [up |-> <<>>, down |-> <<>>, dialling |-> "open", accepted |-> "open"]
    BY FreshLink
  <2>2. \A x \in Dialler : link[x] = [NewLink(<<>>) EXCEPT !.dialling = "none", !.accepted = "none"]
    BY DEF Init
  <2>3. \A x \in Dialler :
          link[x] = [up |-> <<>>, down |-> <<>>, dialling |-> "none", accepted |-> "none"]
    <3> SUFFICES ASSUME NEW x \in Dialler
                 PROVE  link[x] = [up |-> <<>>, down |-> <<>>, dialling |-> "none", accepted |-> "none"]
      OBVIOUS
    <3>1. PICK l : l = [up |-> <<>>, down |-> <<>>, dialling |-> "open", accepted |-> "open"]
      OBVIOUS
    <3>2. link[x] = [l EXCEPT !.dialling = "none", !.accepted = "none"]
      BY <2>1, <2>2, <3>1
    <3> QED
      BY <3>1, <3>2
  <2> QED
    BY <2>3 DEF Unused
<1>3. Client \in Dialler /\ \A r \in Relay : r \in Dialler /\ \A n \in Relay \cup {Exit} : origin[n] # r
  BY RelayChainAssumption DEF Init, Dialler
<1>4. \A p \in {client, exit} : p.sent = 0 /\ p.got = <<>> /\ ~p.astray
  BY DEF Init
<1> QED
  BY <1>1, <1>2, <1>3, <1>4 DEF OrderInv, Quiet

LEMMA RelayFlow ==
  ASSUME OrderInv, chain # <<>>, NEW r \in Relay, RelayNext(r), NEW d \in Direction
  PROVE  Flow(d)'
<1>1. RouteInv /\ Quiet /\ Flow(d) /\ Flow("next_node")
  BY DEF OrderInv, Direction
<1>2. CASE HandlerStep(r)
  BY <1>1, <1>2, OverFlow, FirstFlow, LayerFlow, ConnectFlow, StartForwardingFlow DEF HandlerStep
<1>3. CASE HelloFails(r)
  BY <1>1, <1>3, HelloFailsFlow
<1>4. CASE Restart(r)
  BY <1>1, <1>4, OverFlow
<1>5. CASE \E x \in Direction : ThreadStep(r, x) \/ RecvTimesOut(r, x) \/ SendTimesOut(r, x)
  BY <1>1, <1>5, CopyRecvFlow, RecvTimesOutFlow, CopyAstrayFlow, CopySendFlow, LeavesFlow DEF ThreadStep
<1> QED
  BY <1>2, <1>3, <1>4, <1>5 DEF RelayNext

LEMMA RelayQuiet ==
  ASSUME RouteInv, Quiet, NEW r \in Relay, RelayNext(r)
  PROVE  Quiet'
BY QuietHandler, QuietRestart, QuietThread DEF RelayNext

LEMMA DialOrder ==
  ASSUME OrderInv, NEW c \in Chains, NEW k \in Kinds, Dial(c, k)
  PROVE  OrderInv'
<1>1. RouteInv /\ Quiet /\ RouteInv'
  BY DialStep DEF OrderInv
<1>2. Quiet'
  <2>1. c[1] \in Relay
    BY NodesDiffer
  <2> QED
    BY <1>1, <2>1, QuietDial DEF Dial
<1> QED
  BY <1>1, <1>2, DialFlow DEF OrderInv

LEMMA KnockOrder ==
  ASSUME OrderInv, NEW r \in Relay, NEW k \in Kinds, Knock(r, k)
  PROVE  OrderInv'
<1>1. RouteInv /\ Quiet /\ RouteInv' /\ link[Client].dialling = "none"
  BY KnockStep DEF OrderInv, Knock
<1>2. chain' = <<>>
  BY <1>1, BeforeDial DEF Knock
<1>3. Quiet'
  BY <1>1, QuietDial DEF Knock
<1> QED
  BY <1>1, <1>2, <1>3 DEF OrderInv

LEMMA OrderStutters ==
  ASSUME OrderInv, UNCHANGED vars
  PROVE  OrderInv'
<1>1. RouteInv /\ Quiet /\ RouteInv'
  BY RouteStutters DEF OrderInv
<1>2. Quiet'
  BY <1>1, QuietKept DEF vars
<1>3. ASSUME NEW d \in Direction, chain # <<>> PROVE Flow(d)'
  <2>1. Flow(d)
    BY <1>3 DEF OrderInv
  <2>2. (\A q \in Relay : Alike(q, d)) /\ (\A x \in Dialler : EasesFor(d, link[x], link'[x]))
        /\ (Dense' => Dense) /\ Calms(client, client') /\ Calms(exit, exit') /\ chain' = chain
    BY <1>1, LinkStill DEF vars, Alike, Dense, Calms
  <2> QED
    BY <1>1, <1>3, <2>1, <2>2, CalmFlow
<1> QED
  BY <1>1, <1>2, <1>3 DEF OrderInv, vars

LEMMA OrderStep ==
  ASSUME OrderInv, [Next]_vars
  PROVE  OrderInv'
<1>0. RouteInv /\ Quiet /\ RouteInv'
  BY RouteStep DEF OrderInv
<1>1. CASE \E c \in Chains, k \in Kinds : Dial(c, k)
  BY <1>1, DialOrder
<1>2. CASE \E r \in Relay, k \in Kinds : Knock(r, k)
  BY <1>2, KnockOrder
<1>3. CASE ClientSend \/ ClientRecv \/ ClientSwallows \/ ClientSeesEnd \/ ClientClose
  <2>1. Quiet' /\ chain' = chain
    BY <1>0, <1>3, QuietClient
    DEF ClientSend, ClientRecv, ClientSwallows, ClientSeesEnd, ClientClose, Sends, Reads, Swallows, SeesEnd
  <2>2. ASSUME NEW d \in Direction, chain # <<>> PROVE Flow(d)'
    <3>1. Flow(d)
      BY <2>2 DEF OrderInv
    <3> QED
      BY <1>0, <1>3, <2>2, <3>1, EndFlow, EndSends, ClientTakes
  <2> QED
    BY <1>0, <2>1, <2>2 DEF OrderInv
<1>4. CASE ExitNext
  <2>1. Quiet' /\ chain' = chain
    BY <1>0, <1>4, QuietExit
    DEF ExitNext, ExitSend, ExitRecv, ExitSwallows, ExitSeesEnd, ExitClose, Sends, Reads, Swallows, SeesEnd
  <2>2. ASSUME NEW d \in Direction, chain # <<>> PROVE Flow(d)'
    <3>1. Flow(d)
      BY <2>2 DEF OrderInv
    <3> QED
      BY <1>0, <1>4, <2>2, <3>1, EndFlow, EndSends, ExitTakes DEF ExitNext
  <2> QED
    BY <1>0, <2>1, <2>2 DEF OrderInv
<1>5. ASSUME NEW r \in Relay, RelayNext(r) PROVE OrderInv'
  <2>1. Quiet' /\ chain' = chain
    BY <1>0, <1>5, RelayQuiet
    DEF RelayNext, HandlerStep, HandlerGivesUp, HandleFirst, HandleLayer, Connect, ConnectFails,
        StartForwarding, HelloFails, Restart, ThreadStep, CopyRecv, CopyEnds, RecvRaises, CopyAstray,
        CopySend, SendRaises, RecvTimesOut, SendTimesOut, Dies, ThreadFrame, HandlerFrame
  <2> QED
    BY <1>0, <1>5, <2>1, RelayFlow DEF OrderInv
<1>6. ASSUME NEW x \in Dialler, NEW e \in {"dialling", "accepted"}, Release(x, e) PROVE OrderInv'
  <2>1. Quiet' /\ chain' = chain
    BY <1>0, <1>6, QuietRelease DEF Release
  <2>2. ASSUME NEW d \in Direction, chain # <<>> PROVE Flow(d)'
    <3>1. Flow(d)
      BY <2>2 DEF OrderInv
    <3> QED
      BY <1>0, <1>6, <2>2, <3>1, ReleaseFlow
  <2> QED
    BY <1>0, <2>1, <2>2 DEF OrderInv
<1>7. CASE UNCHANGED vars
  BY <1>7, OrderStutters
<1> QED
  BY <1>1, <1>2, <1>3, <1>4, <1>5, <1>6, <1>7 DEF Next, ClientNext


-------------------------------------------------------------------------------
(* What follows from it.                                                    *)

LEMMA GotNumbers ==
  ASSUME NEW d \in Direction, Flow(d)
  PROVE  LET got == Reader(d).got
         IN \A k \in 1 .. Len(got) :
              /\ Carried(IF d = "back_node" THEN "back" ELSE "exit", got[k])
              /\ \A j \in 1 .. k - 1 : Following(Number(got[j])) <= Number(got[k])
              /\ Dense => Number(got[k]) \in {k, Top}
<1>1. PICK lo : SinkCell(d, lo)
  BY DEF Flow, FlowBody
<1>2. Carries(d, LastIdx(d)) = IF d = "back_node" THEN "back" ELSE "exit"
  BY DEF Carries, LastIdx, Direction
<1> QED
  BY <1>1, <1>2 DEF SinkCell

LEMMA GotFrames ==
  ASSUME NEW t \in {"back", "exit"}, NEW f, Carried(t, f)
  PROVE  \/ f = Junk /\ Number(f) = Top
         \/ t = "exit" /\ f # Junk /\ Number(f) < Top /\ \E n \in 0 .. MaxData : f = Data(n) /\ f.n = n /\ Number(f) = n + 1
         \/ t = "back" /\ f # Junk /\ Number(f) < Top /\ \E n \in 1 .. MaxData : f = Answer(n) /\ f.n = n /\ Number(f) = n
<1>1. CASE f = Junk
  BY <1>1, SomeNumbers
<1>2. CASE t = "exit" /\ f # Junk
  <2>1. PICK n \in 0 .. MaxData : f = Data(n)
    BY <1>2 DEF Carried
  <2>2. f.n = n /\ Number(f) = n + 1 /\ n + 1 < Top
    BY <2>1, SomeNumbers, RelayChainAssumption DEF Data, Top
  <2> QED
    BY <1>2, <2>1, <2>2
<1>3. CASE t = "back" /\ f # Junk
  <2>1. PICK n \in 1 .. MaxData : f = Answer(n)
    BY <1>3 DEF Carried
  <2>2. f.n = n /\ Number(f) = n /\ n < Top
    BY <2>1, SomeNumbers, RelayChainAssumption DEF Answer, Top
  <2> QED
    BY <1>3, <2>1, <2>2
<1> QED
  BY <1>1, <1>2, <1>3

LEMMA GotInOrder ==
  ASSUME NEW t \in {"back", "exit"}, NEW S, NEW got \in Seq(S),
         \A k \in 1 .. Len(got) :
           /\ Carried(t, got[k])
           /\ \A j \in 1 .. k - 1 : Following(Number(got[j])) <= Number(got[k])
           /\ Dense => Number(got[k]) \in {k, Top}
  PROVE  /\ InOrder(got)
         /\ Dense => \A k \in DOMAIN got : got[k] \in {IF t = "exit" THEN Data(k - 1) ELSE Answer(k), Junk}
<1>1. DOMAIN got = 1 .. Len(got) /\ Len(got) \in Nat /\ Top \in Nat
  BY Places
<1>2. ASSUME NEW i \in DOMAIN got, NEW j \in DOMAIN got, i < j
      PROVE  /\ got[i] = Junk => got[j] = Junk
             /\ got[j] # Junk => got[i].n < got[j].n
  <2>1. i \in 1 .. Len(got) /\ j \in 1 .. Len(got) /\ i \in 1 .. j - 1
    BY <1>1, <1>2
  <2>2. PICK f, g : f = got[i] /\ g = got[j]
    OBVIOUS
  <2>3. Carried(t, f) /\ Carried(t, g) /\ Following(Number(f)) <= Number(g)
    BY <2>1, <2>2
  <2>4. ASSUME f = Junk PROVE g = Junk
    <3>1. Number(f) = Top /\ Following(Top) = Top
      BY <2>4, SomeNumbers, Places
    <3>2. Number(g) \in 0 .. Top /\ (Number(g) = Top => g = Junk)
      BY <2>3, Numbers
    <3> QED
      BY <1>1, <2>3, <3>1, <3>2
  <2>5. ASSUME g # Junk PROVE f.n < g.n
    <3>1. f # Junk
      BY <2>4, <2>5
    <3>2. Number(f) \in 0 .. Top /\ Number(f) < Top
      BY <2>3, <3>1, GotFrames, Numbers
    <3>3. Following(Number(f)) = Number(f) + 1
      BY <3>2, Places
    <3>4. Number(f) < Number(g)
      <4>1. Number(g) \in 0 .. Top
        BY <2>3, Numbers
      <4> QED
        BY <2>3, <3>2, <3>3, <4>1
    <3>5. CASE t = "exit"
      <4>1. PICK n \in 0 .. MaxData : f.n = n /\ Number(f) = n + 1
        BY <2>3, <3>1, <3>5, GotFrames
      <4>2. PICK m \in 0 .. MaxData : g.n = m /\ Number(g) = m + 1
        BY <2>3, <2>5, <3>5, GotFrames
      <4> QED
        BY <3>4, <4>1, <4>2
    <3>6. CASE t = "back"
      <4>1. PICK n \in 1 .. MaxData : f.n = n /\ Number(f) = n
        BY <2>3, <3>1, <3>6, GotFrames
      <4>2. PICK m \in 1 .. MaxData : g.n = m /\ Number(g) = m
        BY <2>3, <2>5, <3>6, GotFrames
      <4> QED
        BY <3>4, <4>1, <4>2
    <3> QED
      BY <3>5, <3>6
  <2> QED
    BY <2>2, <2>4, <2>5
<1>3. ASSUME Dense, NEW k \in DOMAIN got
      PROVE  got[k] \in {IF t = "exit" THEN Data(k - 1) ELSE Answer(k), Junk}
  <2>1. PICK f : f = got[k]
    OBVIOUS
  <2>2. Carried(t, f) /\ Number(f) \in {k, Top} /\ k \in Nat
    BY <1>1, <1>3, <2>1
  <2>3. CASE f # Junk /\ t = "exit"
    <3>1. PICK n \in 0 .. MaxData : f = Data(n) /\ Number(f) = n + 1 /\ Number(f) < Top
      BY <2>2, <2>3, GotFrames
    <3>2. n = k - 1
      BY <1>1, <2>2, <3>1
    <3> QED
      BY <2>1, <2>3, <3>1, <3>2
  <2>4. CASE f # Junk /\ t = "back"
    <3>1. PICK n \in 1 .. MaxData : f = Answer(n) /\ Number(f) = n /\ Number(f) < Top
      BY <2>2, <2>4, GotFrames
    <3>2. n = k
      BY <1>1, <2>2, <3>1
    <3> QED
      BY <2>1, <2>4, <3>1, <3>2
  <2> QED
    BY <2>1, <2>3, <2>4
<1> QED
  BY <1>2, <1>3 DEF InOrder

LEMMA OrderImplied ==
  ASSUME OrderInv
  PROVE  FramesInOrder
<1> SUFFICES ASSUME chain # <<>> PROVE FramesInOrder
  BY DEF FramesInOrder
<1>1. Flow("next_node") /\ Flow("back_node") /\ exit.got \in Seq(Frames) /\ client.got \in Seq(Frames)
  BY EndTypes DEF OrderInv, Direction, End
<1>2. /\ InOrder(exit.got)
      /\ Dense => \A k \in DOMAIN exit.got : exit.got[k] \in {Data(k - 1), Junk}
  <2>1. PICK got : got = exit.got /\ got = Reader("next_node").got
    BY DEF Reader
  <2>2. \A k \in 1 .. Len(got) :
           /\ Carried("exit", got[k])
           /\ \A j \in 1 .. k - 1 : Following(Number(got[j])) <= Number(got[k])
           /\ Dense => Number(got[k]) \in {k, Top}
    BY <1>1, <2>1, GotNumbers DEF Direction
  <2>3. got \in Seq(Frames) /\ "exit" \in {"back", "exit"}
    BY <1>1, <2>1
  <2>4. /\ InOrder(got)
        /\ Dense => \A k \in DOMAIN got : got[k] \in {IF "exit" = "exit" THEN Data(k - 1) ELSE Answer(k), Junk}
    BY ONLY <2>2, <2>3, GotInOrder
  <2> QED
    BY <2>1, <2>4
<1>3. /\ InOrder(client.got)
      /\ Dense => \A k \in DOMAIN client.got : client.got[k] \in {Answer(k), Junk}
  <2>1. PICK got : got = client.got /\ got = Reader("back_node").got
    BY DEF Reader
  <2>2. \A k \in 1 .. Len(got) :
           /\ Carried("back", got[k])
           /\ \A j \in 1 .. k - 1 : Following(Number(got[j])) <= Number(got[k])
           /\ Dense => Number(got[k]) \in {k, Top}
    BY <1>1, <2>1, GotNumbers DEF Direction
  <2>3. got \in Seq(Frames) /\ "back" \in {"back", "exit"}
    BY <1>1, <2>1
  <2>4. /\ InOrder(got)
        /\ Dense => \A k \in DOMAIN got : got[k] \in {IF "back" = "exit" THEN Data(k - 1) ELSE Answer(k), Junk}
    BY ONLY <2>2, <2>3, GotInOrder
  <2> QED
    BY <2>1, <2>4
<1> QED
  BY <1>2, <1>3 DEF FramesInOrder, Dense

(* What arrives at either end of a circuit was sent, in the order in which  *)
(* it was sent and at most once; what is cut out of the bytes of other      *)
(* frames only comes after all of it, and nothing is skipped as long as no  *)
(* write times out.  For chains of any length and whatever is lost, reset,  *)
(* restarted or torn by a timeout on the way.                               *)
THEOREM FramesInOrderHolds == Spec => []FramesInOrder
<1>1. Init => OrderInv
  BY OrderInit
<1>2. OrderInv /\ [Next]_vars => OrderInv'
  BY OrderStep
<1>3. OrderInv => FramesInOrder
  BY OrderImplied
<1> QED
  BY <1>1, <1>2, <1>3, PTL DEF Spec

================================================================================
