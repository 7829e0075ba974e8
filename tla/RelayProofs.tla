------------------------------ MODULE RelayProofs -------------------------------
(***************************************************************************)
(* Proofs about a single stream (RelayStream), for every number of frames  *)
(* and pieces and every window, about what a relay counts (RelayStats),    *)
(* for every set of connections, and about the threads that share a        *)
(* circuit (CircuitWriters), for every number of threads and frames, any   *)
(* size of a frame and any room.                                           *)
(***************************************************************************)
EXTENDS RelayStream, RelayStats, CircuitWriters, Inductions

(***************************************************************************)
(* RelayStream: what each side of a stream of its own reads is what the    *)
(* other one wrote, from its beginning.                                    *)
(***************************************************************************)

(* The shape of the state: what the variables hold, and which threads run.  *)
T1At == {"off", "top", "recv", "write", "left", "timedOut", "raised"}
T2At == {"off", "start", "top", "recv", "send", "left"}

T1Ok == /\ t1 \in [at : T1At, todo : Seq(Nat), timed : BOOLEAN]
        /\ t1.at = "write" <=> t1.todo # <<>>
T2Ok == /\ t2 \in [at : T2At, chunk : Seq(Nat)]
        /\ t2.at = "send" <=> t2.chunk # <<>>
ClientOk == client \in [sent : Seq(Frames), got : Seq(Nat),
                        state : {"open", "fin", "rst"}, ended : BOOLEAN]
DestOk == dest \in [sent : Seq(Nat), got : Seq(Nat), state : {"open", "finished", "closed"}]
UpOk == up \in Seq(Frames)
DownOk == down \in Seq(Seq(Nat)) /\ Len(down) <= Window
ToDestOk == toDest \in Seq(Nat) /\ Len(toDest) <= Window
FromDestOk == fromDest \in Seq(Nat)
Phases ==
  /\ pc \in {"connect", "relay", "done"} /\ stop \in BOOLEAN
  /\ pc = "connect" => t1.at = "off" /\ t2.at = "off"
  /\ pc = "done" => t1.at = "off" \/ Over(t1)
  /\ pc = "done" => t2.at \in {"off", "left"}
  /\ pc # "relay" => fromDest = <<>>

Shape ==
  /\ T1Ok /\ T2Ok /\ ClientOk /\ DestOk
  /\ UpOk /\ DownOk /\ ToDestOk /\ FromDestOk
  /\ Phases

(* What is on the way to the destination follows what it has read.  Until   *)
(* the client resets its connection, a thread leaves or the destination     *)
(* closes, that is all the client has sent.                                 *)
UpWay == ((dest.got \o toDest) \o t1.todo) \o Plain(up)

UpFlow ==
  IF dest.state = "closed"
  THEN toDest = <<>> /\ IsPrefix(dest.got, Plain(client.sent))
  ELSE IF Over(t1) \/ pc = "done"
  THEN IsPrefix(dest.got \o toDest, Plain(client.sent))
  ELSE IF client.state = "open"
  THEN UpWay = Plain(client.sent)
  ELSE IsPrefix(UpWay, Plain(client.sent))

(* The same of what is on the way to the client.                            *)
DownWay == ((client.got \o FlattenSeq(down)) \o t2.chunk) \o fromDest

DownFlow ==
  IF client.state # "open"
  THEN down = <<>> /\ IsPrefix(client.got, dest.sent)
  ELSE IF dest.state = "closed" \/ pc = "done"
  THEN IsPrefix(DownWay, dest.sent)
  ELSE DownWay = dest.sent

StreamInv == Shape /\ UpFlow /\ DownFlow

-------------------------------------------------------------------------------
(* Frames and their plain text.                                             *)

LEMMA FramesType ==
  ASSUME NEW f \in Frames
  PROVE  /\ f.pieces \in Seq(Nat) /\ f.tag \in {"data", "noise", "tampered"}
         /\ f.tag = "data" => f.pieces # <<>> /\ Len(f.pieces) = 2
         /\ f.tag # "data" => f.pieces = <<>>
<1>1. <<>> \in Seq(Nat)
  OBVIOUS
<1>2. \A n \in 1 .. MaxUp : 2 * n - 1 \in Nat /\ 2 * n \in Nat
  BY RelayStreamAssumption
<1>3. \A n \in 1 .. MaxUp : Pieces(n) \in Seq(Nat) /\ Len(Pieces(n)) = 2 /\ Pieces(n) # <<>>
  BY <1>2 DEF Pieces
<1>4. CASE f \in {Data(n) : n \in 1 .. MaxUp}
  <2>1. PICK n \in 1 .. MaxUp : f = [tag |-> "data", pieces |-> Pieces(n)]
    BY <1>4 DEF Data
  <2> QED
    BY <1>3, <2>1
<1>5. CASE f \in {Noise, Tampered}
  <2>1. f.pieces = <<>> /\ f.tag \in {"noise", "tampered"}
    BY <1>5 DEF Noise, Tampered
  <2> QED
    BY <1>1, <2>1
<1> QED
  BY <1>4, <1>5 DEF Frames

PiecesOf(frames) == [i \in DOMAIN frames |-> frames[i].pieces]

LEMMA PlainType ==
  ASSUME NEW fs \in Seq(Frames)
  PROVE  PiecesOf(fs) \in Seq(Seq(Nat)) /\ Len(PiecesOf(fs)) = Len(fs) /\ Plain(fs) \in Seq(Nat)
<1>1. PICK n \in Nat : n = Len(fs) /\ DOMAIN fs = 1 .. n
  OBVIOUS
<1>2. \A i \in 1 .. n : fs[i].pieces \in Seq(Nat)
  BY <1>1, FramesType
<1>3. PiecesOf(fs) \in [1 .. n -> Seq(Nat)]
  BY <1>1, <1>2 DEF PiecesOf
<1>4. PiecesOf(fs) \in Seq(Seq(Nat)) /\ Len(PiecesOf(fs)) = n
  BY <1>3
<1>5. FlattenSeq(PiecesOf(fs)) \in Seq(Nat)
  BY <1>4, FlattenType
<1> QED
  BY <1>1, <1>4, <1>5 DEF Plain, PiecesOf

LEMMA PlainAppend ==
  ASSUME NEW fs \in Seq(Frames), NEW f \in Frames
  PROVE  Plain(Append(fs, f)) = Plain(fs) \o f.pieces
<1>1. PICK n \in Nat : n = Len(fs) /\ DOMAIN fs = 1 .. n
  OBVIOUS
<1>0. Append(fs, f) \in Seq(Frames)
  OBVIOUS
<1>2. PICK g \in Seq(Frames) : /\ g = Append(fs, f) /\ DOMAIN g = 1 .. n + 1 /\ g[n + 1] = f
                               /\ Len(g) = n + 1
                               /\ \A i \in 1 .. n : g[i] = fs[i]
  <2>1. Len(Append(fs, f)) = n + 1 /\ Append(fs, f)[n + 1] = f
    BY <1>1
  <2>2. DOMAIN Append(fs, f) = 1 .. n + 1
    BY <1>0, <2>1
  <2>3. \A i \in 1 .. n : Append(fs, f)[i] = fs[i]
    BY <1>1
  <2> QED
    BY <1>0, <2>1, <2>2, <2>3
<1>3. f.pieces \in Seq(Nat)
  BY FramesType
<1>4. PICK ps \in Seq(Seq(Nat)) : ps = PiecesOf(fs) /\ Len(ps) = n
  BY <1>1, PlainType
<1>5. PICK qs \in Seq(Seq(Nat)) : qs = PiecesOf(g) /\ Len(qs) = n + 1
  BY <1>2, PlainType
<1>6. /\ \A i \in 1 .. n : qs[i] = ps[i]
      /\ qs[n + 1] = f.pieces
  BY <1>1, <1>2, <1>4, <1>5 DEF PiecesOf
<1>7. qs = Append(ps, f.pieces)
  <2>1. \A E : \A p \in Seq(E), q \in Seq(E), x \in E :
          Len(p) = n /\ Len(q) = n + 1 /\ (\A i \in 1 .. n : q[i] = p[i]) /\ q[n + 1] = x
            => q = Append(p, x)
    OBVIOUS
  <2> QED
    BY <1>3, <1>4, <1>5, <1>6, <2>1
<1>8. FlattenSeq(qs) = FlattenSeq(ps) \o f.pieces
  BY <1>3, <1>7, FlattenAppend
<1> QED
  BY <1>2, <1>4, <1>5, <1>8 DEF Plain, PiecesOf

LEMMA PlainHead ==
  ASSUME NEW fs \in Seq(Frames), fs # <<>>
  PROVE  Plain(fs) = Head(fs).pieces \o Plain(Tail(fs))
<1>1. PICK n \in Nat \ {0} : n = Len(fs) /\ DOMAIN fs = 1 .. n
  BY EmptySeq
<1>0. Tail(fs) \in Seq(Frames) /\ Len(Tail(fs)) = n - 1
  BY <1>1, HeadTailProperties
<1>2. PICK g \in Seq(Frames) : /\ g = Tail(fs) /\ Len(g) = n - 1 /\ DOMAIN g = 1 .. n - 1
                               /\ \A i \in 1 .. n - 1 : g[i] = fs[i + 1]
  <2>1. n - 1 \in Nat /\ DOMAIN Tail(fs) = 1 .. n - 1
    BY <1>0
  <2>2. \A i \in 1 .. n - 1 : Tail(fs)[i] = fs[i + 1]
    BY <1>1
  <2> QED
    BY <1>0, <2>1, <2>2
<1>3. PICK ps \in Seq(Seq(Nat)) : ps = PiecesOf(fs) /\ Len(ps) = n
  BY <1>1, PlainType
<1>4. PICK qs \in Seq(Seq(Nat)) : qs = PiecesOf(g) /\ Len(qs) = n - 1
  BY <1>2, PlainType
<1>5. /\ \A i \in 1 .. n - 1 : qs[i] = ps[i + 1]
      /\ ps[1] = Head(fs).pieces
  BY <1>1, <1>2, <1>3, <1>4 DEF PiecesOf
<1>6. ps # <<>> /\ qs = Tail(ps) /\ Head(ps) = ps[1]
  <2>1. \A E : \A p \in Seq(E), q \in Seq(E) :
          Len(p) = n /\ Len(q) = n - 1 /\ (\A i \in 1 .. n - 1 : q[i] = p[i + 1])
            => p # <<>> /\ q = Tail(p) /\ Head(p) = p[1]
    OBVIOUS
  <2> QED
    BY <1>3, <1>4, <1>5, <2>1
<1>7. FlattenSeq(ps) = Head(ps) \o FlattenSeq(Tail(ps))
  BY <1>6, FlattenHeadTail
<1> QED
  BY <1>2, <1>3, <1>4, <1>5, <1>6, <1>7 DEF Plain, PiecesOf

LEMMA PlainEmpty == Plain(<<>>) = <<>>
<1>1. [i \in DOMAIN <<>> |-> <<>>[i].pieces] = <<>>
  OBVIOUS
<1> QED
  BY <1>1, FlattenEmpty DEF Plain

-------------------------------------------------------------------------------
(* Moving the front of one sequence to the end of the one before it.        *)

LEMMA MoveOne ==
  ASSUME NEW X, NEW a \in Seq(X), NEW b \in Seq(X), b # <<>>
  PROVE  /\ Append(a, Head(b)) \in Seq(X) /\ Tail(b) \in Seq(X)
         /\ Append(a, Head(b)) \o Tail(b) = a \o b
<1>1. Head(b) \in X /\ Tail(b) \in Seq(X) /\ Head(b) = b[1] /\ Len(Tail(b)) = Len(b) - 1
      /\ \A i \in 1 .. Len(b) - 1 : Tail(b)[i] = b[i + 1]
  OBVIOUS
<1> DEFINE s == Append(a, Head(b)) \o Tail(b)
           t == a \o b
<1>2. /\ s \in Seq(X) /\ t \in Seq(X) /\ Len(s) = Len(t)
      /\ Append(a, Head(b)) \in Seq(X)
  BY <1>1
<1>3. ASSUME NEW i \in 1 .. Len(t) PROVE s[i] = t[i]
  <2>1. CASE i <= Len(a)
    BY <1>1, <2>1
  <2>2. CASE i = Len(a) + 1
    BY <1>1, <2>2
  <2>3. CASE i > Len(a) + 1
    BY <1>1, <2>3
  <2> QED
    BY <2>1, <2>2, <2>3
<1> HIDE DEF s, t
<1>4. s = t
  BY <1>2, <1>3
<1> QED
  BY <1>1, <1>2, <1>4 DEF s, t

LEMMA SplitAt ==
  ASSUME NEW X, NEW b \in Seq(X), NEW n \in 1 .. Len(b)
  PROVE  /\ SubSeq(b, 1, n) \in Seq(X) /\ SubSeq(b, n + 1, Len(b)) \in Seq(X)
         /\ SubSeq(b, 1, n) # <<>>
         /\ SubSeq(b, 1, n) \o SubSeq(b, n + 1, Len(b)) = b
OBVIOUS

LEMMA NothingToAdd ==
  ASSUME NEW X, NEW s \in Seq(X)
  PROVE  <<>> \in Seq(X) /\ s \o <<>> = s /\ <<>> \o s = s
OBVIOUS

LEMMA Regroup == \A a, b, c \in Seq(Nat) : (a \o b) \o c = a \o (b \o c)
BY ConcatAssociative

-------------------------------------------------------------------------------
(* The way to the destination.                                              *)

LEMMA UpTypes ==
  ASSUME Shape
  PROVE  /\ dest.got \in Seq(Nat) /\ toDest \in Seq(Nat) /\ t1.todo \in Seq(Nat)
         /\ up \in Seq(Frames) /\ Plain(up) \in Seq(Nat)
         /\ client.sent \in Seq(Frames) /\ Plain(client.sent) \in Seq(Nat)
         /\ dest.got \o toDest \in Seq(Nat)
         /\ (dest.got \o toDest) \o t1.todo \in Seq(Nat)
         /\ UpWay \in Seq(Nat)
<1>1. /\ dest.got \in Seq(Nat) /\ toDest \in Seq(Nat) /\ t1.todo \in Seq(Nat)
      /\ up \in Seq(Frames) /\ client.sent \in Seq(Frames)
  BY DEF Shape, T1Ok, ClientOk, DestOk, UpOk, ToDestOk
<1>2. Plain(up) \in Seq(Nat) /\ Plain(client.sent) \in Seq(Nat)
  BY <1>1, PlainType
<1>3. dest.got \o toDest \in Seq(Nat)
  BY <1>1
<1>4. (dest.got \o toDest) \o t1.todo \in Seq(Nat)
  BY <1>1, <1>3
<1>5. UpWay \in Seq(Nat)
  BY <1>2, <1>4 DEF UpWay
<1> QED
  BY <1>1, <1>2, <1>3, <1>4, <1>5

(* Whatever has been written is a prefix, with or without the rest.         *)
LEMMA UpPrefixes ==
  ASSUME Shape, UpFlow
  PROVE  /\ IsPrefix(dest.got \o toDest, Plain(client.sent))
         /\ IsPrefix(dest.got, Plain(client.sent))
         /\ dest.state # "closed" /\ ~ Over(t1) /\ pc # "done" =>
              /\ IsPrefix(UpWay, Plain(client.sent))
              /\ IsPrefix((dest.got \o toDest) \o t1.todo, Plain(client.sent))
<1> USE UpTypes
<1>1. dest.state # "closed" /\ ~ Over(t1) /\ pc # "done" => IsPrefix(UpWay, Plain(client.sent))
  <2>1. UpWay = UpWay \o <<>> /\ <<>> \in Seq(Nat)
    BY NothingToAdd
  <2>2. IsPrefix(UpWay, UpWay)
    BY <2>1, PrefixSelf
  <2> QED
    BY <2>2 DEF UpFlow
<1>2. IsPrefix(UpWay, Plain(client.sent))
        => IsPrefix((dest.got \o toDest) \o t1.todo, Plain(client.sent))
  BY PrefixOf DEF UpWay
<1>3. IsPrefix((dest.got \o toDest) \o t1.todo, Plain(client.sent))
        => IsPrefix(dest.got \o toDest, Plain(client.sent))
  BY PrefixOf
<1>4. IsPrefix(dest.got \o toDest, Plain(client.sent))
  <2>1. CASE dest.state = "closed"
    <3>1. dest.got \o toDest = dest.got
      BY <2>1, NothingToAdd DEF UpFlow
    <3> QED
      BY <2>1, <3>1 DEF UpFlow
  <2>2. CASE dest.state # "closed"
    BY <1>1, <1>2, <1>3, <2>2 DEF UpFlow
  <2> QED
    BY <2>1, <2>2
<1>5. IsPrefix(dest.got, Plain(client.sent))
  BY <1>4, PrefixOf
<1> QED
  BY <1>1, <1>2, <1>4, <1>5

(* Nothing of it moves.                                                     *)
LEMMA UpUnmoved ==
  ASSUME UpFlow, toDest' = toDest, dest.got' = dest.got, t1.todo' = t1.todo, up' = up,
         client.sent' = client.sent,
         dest.state' = "closed" <=> dest.state = "closed",
         Over(t1)' \/ pc' = "done" <=> Over(t1) \/ pc = "done",
         client.state' = "open" <=> client.state = "open"
  PROVE  UpFlow'
<1>1. UpWay' = UpWay
  BY DEF UpWay
<1> QED
  BY <1>1 DEF UpFlow

(* It moves towards the destination.                                        *)
LEMMA UpMoves ==
  ASSUME UpFlow, dest.state' = dest.state, client.sent' = client.sent,
         client.state' = client.state,
         Over(t1)' \/ pc' = "done" <=> Over(t1) \/ pc = "done",
         dest.state = "closed" => toDest' = toDest /\ dest.got' = dest.got,
         Over(t1) \/ pc = "done" => dest.got' \o toDest' = dest.got \o toDest,
         dest.state # "closed" => UpWay' = UpWay
  PROVE  UpFlow'
BY DEF UpFlow

(* client_to_remote leaves, or has never run.                               *)
LEMMA UpLeaves ==
  ASSUME Shape, UpFlow, toDest' \in {toDest, <<>>}, dest' = dest, client' = client,
         Over(t1)' \/ pc' = "done"
  PROVE  UpFlow'
<1>1. IsPrefix(dest.got \o toDest, Plain(client.sent)) /\ IsPrefix(dest.got, Plain(client.sent))
  BY UpPrefixes
<1>2. dest.got \o <<>> = dest.got
  BY UpTypes, NothingToAdd
<1> QED
  BY <1>1, <1>2 DEF UpFlow

LEMMA UpT1Recv ==
  ASSUME Shape, UpFlow, T1Recv
  PROVE  UpFlow'
<1> USE UpTypes
<1>1. /\ t1.at = "recv" /\ up # <<>> /\ up' = Tail(up) /\ pc' = pc /\ pc # "done"
      /\ toDest' = toDest /\ dest' = dest /\ client' = client /\ t1.todo = <<>> /\ ~ Over(t1)
  BY DEF T1Recv, T1Frame, Shape, T1Ok, Phases, Over
<1>2. PICK f \in Frames : f = Head(up)
  BY <1>1
<1>3. /\ f.tag = "data" => t1'.at = "write" /\ t1'.todo = f.pieces
      /\ f.tag = "noise" => t1'.at = "top" /\ t1'.todo = t1.todo
      /\ f.tag = "tampered" => t1'.at = "raised"
  BY <1>2 DEF T1Recv, Shape, T1Ok
<1>4. CASE f.tag = "tampered"
  BY <1>1, <1>3, <1>4, UpLeaves DEF Over
<1>5. CASE f.tag # "tampered"
  <2>1. f.pieces \in Seq(Nat) /\ f.tag \in {"data", "noise"} /\ (f.tag # "data" => f.pieces = <<>>)
    BY <1>5, FramesType
  <2>2. t1'.todo = f.pieces /\ ~ Over(t1)'
    BY <1>1, <1>3, <2>1 DEF Over
  <2>a. Tail(up) \in Seq(Frames)
    BY <1>1
  <2>b. Plain(Tail(up)) \in Seq(Nat)
    BY <2>a, PlainType
  <2>3. PICK had \in Seq(Nat), rest \in Seq(Nat) :
          had = dest.got \o toDest /\ rest = Plain(Tail(up))
    BY <2>b
  <2>4. UpWay = (had \o <<>>) \o (f.pieces \o rest)
    BY <1>1, <1>2, <2>3, PlainHead DEF UpWay
  <2>5. UpWay' = (had \o f.pieces) \o rest
    BY <1>1, <2>2, <2>3 DEF UpWay
  <2>6. (had \o <<>>) \o (f.pieces \o rest) = (had \o f.pieces) \o rest
    <3>1. had \o <<>> = had
      BY NothingToAdd
    <3>2. PICK p \in Seq(Nat) : p = f.pieces
      BY <2>1
    <3>3. had \o (p \o rest) = (had \o p) \o rest
      BY ONLY Regroup
    <3> QED
      BY <3>1, <3>2, <3>3
  <2> QED
    BY <1>1, <2>2, <2>4, <2>5, <2>6, UpMoves
<1> QED
  BY <1>4, <1>5

LEMMA UpT1Write ==
  ASSUME Shape, UpFlow, T1Write
  PROVE  UpFlow'
<1> USE UpTypes
<1>1. /\ t1.at = "write" /\ t1.todo # <<>> /\ dest.state # "closed" /\ ~ Over(t1)
      /\ up' = up /\ pc' = pc /\ pc # "done" /\ dest' = dest /\ client' = client
      /\ toDest' = Append(toDest, Head(t1.todo))
  BY DEF T1Write, T1Frame, Shape, T1Ok, Phases, Over
<1>2. t1'.todo = Tail(t1.todo) /\ ~ Over(t1)'
  <2>1. CASE Len(t1.todo) > 1
    BY <1>1, <2>1 DEF T1Write, Shape, T1Ok, Over
  <2>2. CASE ~(Len(t1.todo) > 1)
    <3>1. Tail(t1.todo) = <<>>
      <4>1. Len(t1.todo) = 1
        <5>1. PICK n \in Nat \ {0} : n = Len(t1.todo)
          BY <1>1, EmptySeq
        <5>2. ~(n > 1) => n = 1
          BY ONLY n \in Nat \ {0}
        <5> QED
          BY <2>2, <5>1, <5>2
      <4> QED
        BY <4>1, OnlyOne
    <3>2. t1' = [at |-> "top", todo |-> <<>>, timed |-> FALSE]
      BY <2>2 DEF T1Write
    <3> QED
      BY <3>1, <3>2 DEF Over
  <2> QED
    BY <2>1, <2>2
<1>3. Head(t1.todo) \in Nat /\ Tail(t1.todo) \in Seq(Nat) /\ Append(toDest, Head(t1.todo)) \in Seq(Nat)
  BY <1>1
<1>a. dest.got \in Seq(Nat) /\ toDest \in Seq(Nat) /\ t1.todo \in Seq(Nat)
  OBVIOUS
<1>4. (dest.got \o Append(toDest, Head(t1.todo))) \o Tail(t1.todo)
        = dest.got \o (Append(toDest, Head(t1.todo)) \o Tail(t1.todo))
  BY ONLY ZenonT(30), <1>a, <1>3, Regroup
<1>5. Append(toDest, Head(t1.todo)) \o Tail(t1.todo) = toDest \o t1.todo
  BY ZenonT(60), <1>1, MoveOne
<1>6. dest.got \o (toDest \o t1.todo) = (dest.got \o toDest) \o t1.todo
  BY ONLY <1>a, Regroup
<1>7. UpWay' = UpWay
  BY <1>1, <1>2, <1>4, <1>5, <1>6 DEF UpWay
<1> QED
  BY <1>1, <1>2, <1>7, UpMoves

LEMMA UpDestReads ==
  ASSUME Shape, UpFlow, DestReads
  PROVE  UpFlow'
<1> USE UpTypes
<1>1. /\ dest.state # "closed" /\ toDest # <<>> /\ toDest' = Tail(toDest)
      /\ up' = up /\ pc' = pc /\ t1' = t1 /\ client' = client
      /\ dest'.state = dest.state /\ dest'.got = Append(dest.got, Head(toDest))
  BY DEF DestReads, destIdle, Shape, DestOk
<1>2. dest'.got \o toDest' = dest.got \o toDest
  BY ZenonT(60), <1>1, MoveOne
<1>3. UpWay' = UpWay
  BY <1>1, <1>2 DEF UpWay
<1> QED
  BY <1>1, <1>2, <1>3, UpMoves DEF Over

LEMMA UpClientSends ==
  ASSUME Shape, UpFlow, NEW f \in Frames, ClientSends(f)
  PROVE  UpFlow'
<1> USE UpTypes
<1>1. /\ client.state = "open" /\ client'.state = "open" /\ client'.sent = Append(client.sent, f)
      /\ up' = Append(up, f)
      /\ pc' = pc /\ t1' = t1 /\ toDest' = toDest /\ dest' = dest
  BY DEF ClientSends, clientIdle, Shape, ClientOk
<1>2. PICK was \in Seq(Nat), more \in Seq(Nat) : was = Plain(client.sent) /\ more = f.pieces
  BY FramesType
<1>3. Plain(client'.sent) = was \o more
  BY <1>1, <1>2, PlainAppend
<1>4. IsPrefix(dest.got \o toDest, was \o more) /\ IsPrefix(dest.got, was \o more)
  BY <1>2, UpPrefixes, PrefixGrows
<1>5. CASE dest.state = "closed" \/ Over(t1) \/ pc = "done"
  BY <1>1, <1>3, <1>4, <1>5 DEF UpFlow, Over
<1>6. CASE ~(dest.state = "closed" \/ Over(t1) \/ pc = "done")
  <2>1. PICK front \in Seq(Nat), back \in Seq(Nat) :
          front = (dest.got \o toDest) \o t1.todo /\ back = Plain(up)
    OBVIOUS
  <2>2. UpWay = front \o back /\ UpWay = was
    BY <1>1, <1>2, <1>6, <2>1 DEF UpFlow, UpWay
  <2>3. Plain(Append(up, f)) = back \o more
    BY <1>2, <2>1, PlainAppend
  <2>4. UpWay' = front \o (back \o more)
    BY <1>1, <1>6, <2>1, <2>3 DEF UpWay
  <2>5. front \o (back \o more) = (front \o back) \o more
    BY ONLY Regroup
  <2>6. UpWay' = Plain(client'.sent)
    BY <1>3, <2>2, <2>4, <2>5
  <2> QED
    BY <1>1, <1>6, <2>6 DEF UpFlow, Over
<1> QED
  BY <1>5, <1>6

LEMMA UpClientCloses ==
  ASSUME Shape, UpFlow, ClientCloses
  PROVE  UpFlow'
<1> USE UpTypes
<1>1. /\ client.state = "open" /\ client'.state # "open" /\ client'.sent = client.sent
      /\ up' \in {up, <<>>} /\ pc' = pc /\ t1' = t1 /\ toDest' = toDest /\ dest' = dest
  BY DEF ClientCloses, clientIdle, Shape, ClientOk
<1>2. CASE dest.state = "closed" \/ Over(t1) \/ pc = "done"
  BY <1>1, <1>2 DEF UpFlow, Over
<1>3. CASE ~(dest.state = "closed" \/ Over(t1) \/ pc = "done")
  <2>1. IsPrefix(UpWay, Plain(client.sent))
        /\ IsPrefix((dest.got \o toDest) \o t1.todo, Plain(client.sent))
    BY <1>3, UpPrefixes
  <2>2. UpWay' = UpWay \/ UpWay' = (dest.got \o toDest) \o t1.todo
    <3>1. CASE up' = up
      BY <1>1, <3>1 DEF UpWay
    <3>2. CASE up' = <<>>
      <4>1. UpWay' = ((dest.got \o toDest) \o t1.todo) \o <<>>
        BY <1>1, <3>2, PlainEmpty DEF UpWay
      <4> QED
        BY <4>1, NothingToAdd
    <3> QED
      BY <1>1, <3>1, <3>2
  <2>3. IsPrefix(UpWay', Plain(client.sent))
    BY <2>1, <2>2
  <2> QED
    BY <1>1, <1>3, <2>3 DEF UpFlow, Over
<1> QED
  BY <1>2, <1>3

LEMMA UpDestCloses ==
  ASSUME Shape, UpFlow, DestCloses
  PROVE  UpFlow'
<1>1. toDest' = <<>> /\ dest'.state = "closed" /\ dest'.got = dest.got /\ client' = client
  BY DEF DestCloses, destIdle, Shape, DestOk
<1>2. IsPrefix(dest.got, Plain(client.sent))
  BY UpPrefixes
<1> QED
  BY <1>1, <1>2 DEF UpFlow

-------------------------------------------------------------------------------
(* The way to the client.                                                   *)

LEMMA DownTypes ==
  ASSUME Shape
  PROVE  /\ client.got \in Seq(Nat) /\ FlattenSeq(down) \in Seq(Nat)
         /\ t2.chunk \in Seq(Nat) /\ fromDest \in Seq(Nat) /\ dest.sent \in Seq(Nat)
         /\ client.got \o FlattenSeq(down) \in Seq(Nat)
         /\ (client.got \o FlattenSeq(down)) \o t2.chunk \in Seq(Nat)
         /\ DownWay \in Seq(Nat)
<1>1. /\ client.got \in Seq(Nat) /\ down \in Seq(Seq(Nat)) /\ t2.chunk \in Seq(Nat)
      /\ fromDest \in Seq(Nat) /\ dest.sent \in Seq(Nat)
  BY DEF Shape, T2Ok, ClientOk, DestOk, DownOk, FromDestOk
<1>2. FlattenSeq(down) \in Seq(Nat)
  BY <1>1, FlattenType
<1>3. client.got \o FlattenSeq(down) \in Seq(Nat)
  BY <1>1, <1>2
<1>4. (client.got \o FlattenSeq(down)) \o t2.chunk \in Seq(Nat)
  BY <1>1, <1>3
<1>5. DownWay \in Seq(Nat)
  BY <1>1, <1>4 DEF DownWay
<1> QED
  BY <1>1, <1>2, <1>3, <1>4, <1>5

LEMMA DownPrefixes ==
  ASSUME Shape, DownFlow
  PROVE  /\ IsPrefix(client.got, dest.sent)
         /\ IsPrefix(client.got \o FlattenSeq(down), dest.sent)
         /\ client.state = "open" =>
              /\ IsPrefix(DownWay, dest.sent)
              /\ IsPrefix((client.got \o FlattenSeq(down)) \o t2.chunk, dest.sent)
<1> USE DownTypes
<1>1. client.state = "open" => IsPrefix(DownWay, dest.sent)
  <2>1. DownWay = DownWay \o <<>> /\ <<>> \in Seq(Nat)
    BY NothingToAdd
  <2>2. IsPrefix(DownWay, DownWay)
    BY <2>1, PrefixSelf
  <2> QED
    BY <2>2 DEF DownFlow
<1>2. IsPrefix(DownWay, dest.sent)
        => IsPrefix((client.got \o FlattenSeq(down)) \o t2.chunk, dest.sent)
  BY PrefixOf DEF DownWay
<1>3. IsPrefix((client.got \o FlattenSeq(down)) \o t2.chunk, dest.sent)
        => IsPrefix(client.got \o FlattenSeq(down), dest.sent)
  BY PrefixOf
<1>4. IsPrefix(client.got \o FlattenSeq(down), dest.sent)
  <2>1. CASE client.state # "open"
    <3>1. client.got \o FlattenSeq(down) = client.got
      BY <2>1, FlattenEmpty, NothingToAdd DEF DownFlow
    <3> QED
      BY <2>1, <3>1 DEF DownFlow
  <2>2. CASE client.state = "open"
    BY <1>1, <1>2, <1>3, <2>2
  <2> QED
    BY <2>1, <2>2
<1>5. IsPrefix(client.got, dest.sent)
  BY <1>4, PrefixOf
<1> QED
  BY <1>1, <1>2, <1>4, <1>5

(* It moves towards the client, or not at all.                              *)
LEMMA DownMoves ==
  ASSUME DownFlow, dest.sent' = dest.sent,
         client.state' = "open" <=> client.state = "open",
         dest.state' = "closed" \/ pc' = "done" <=> dest.state = "closed" \/ pc = "done",
         client.state # "open" => down' = down /\ client.got' = client.got,
         client.state = "open" => DownWay' = DownWay
  PROVE  DownFlow'
BY DEF DownFlow

LEMMA DownUnmoved ==
  ASSUME DownFlow, dest.sent' = dest.sent, down' = down, fromDest' = fromDest,
         t2.chunk' = t2.chunk, client.got' = client.got,
         client.state' = "open" <=> client.state = "open",
         dest.state' = "closed" \/ pc' = "done" <=> dest.state = "closed" \/ pc = "done"
  PROVE  DownFlow'
<1>1. DownWay' = DownWay
  BY DEF DownWay
<1> QED
  BY <1>1, DownMoves

(* The connection to the destination ends.                                  *)
LEMMA DownCut ==
  ASSUME Shape, DownFlow, dest.sent' = dest.sent, down' = down, fromDest' \in {fromDest, <<>>},
         t2.chunk' = t2.chunk, client' = client, dest'.state = "closed" \/ pc' = "done"
  PROVE  DownFlow'
<1> USE DownTypes
<1>1. CASE client.state # "open"
  BY <1>1 DEF DownFlow
<1>2. CASE client.state = "open"
  <2>1. DownWay' = DownWay \/ DownWay' = (client.got \o FlattenSeq(down)) \o t2.chunk
    <3>1. CASE fromDest' = fromDest
      BY <3>1 DEF DownWay
    <3>2. CASE fromDest' = <<>>
      <4>1. DownWay' = ((client.got \o FlattenSeq(down)) \o t2.chunk) \o <<>>
        BY <3>2 DEF DownWay
      <4> QED
        BY <4>1, NothingToAdd
    <3> QED
      BY <3>1, <3>2
  <2>2. IsPrefix(DownWay', dest.sent)
    BY <1>2, <2>1, DownPrefixes
  <2> QED
    BY <1>2, <2>2 DEF DownFlow
<1> QED
  BY <1>1, <1>2

(* The client loses what is on the way once the exit is through.            *)
LEMMA DownReset ==
  ASSUME Shape, DownFlow, CircuitReset
  PROVE  DownFlow'
<1>1. /\ pc = "done" /\ pc' = "done" /\ down' = <<>> /\ client' = client /\ dest' = dest
      /\ t2' = t2 /\ fromDest' = fromDest /\ fromDest = <<>> /\ t2.chunk = <<>>
  BY DEF CircuitReset, Shape, Phases, T2Ok
<1>2. client.got \in Seq(Nat) /\ IsPrefix(client.got, dest.sent)
  BY DownTypes, DownPrefixes
<1>3. DownWay' = ((client.got \o <<>>) \o <<>>) \o <<>>
  BY <1>1, FlattenEmpty DEF DownWay
<1>4. DownWay' = client.got
  BY <1>2, <1>3, NothingToAdd
<1> QED
  BY <1>1, <1>2, <1>4 DEF DownFlow

LEMMA DownClientReads ==
  ASSUME Shape, DownFlow, ClientReads
  PROVE  DownFlow'
<1>1. /\ client.state = "open" /\ client'.state = "open" /\ down # <<>> /\ down' = Tail(down)
      /\ client'.got = client.got \o Head(down) /\ pc' = pc /\ dest' = dest
      /\ t2' = t2 /\ fromDest' = fromDest /\ down \in Seq(Seq(Nat)) /\ client.got \in Seq(Nat)
  BY DEF ClientReads, clientIdle, Shape, ClientOk, DownOk
<1>2. Head(down) \in Seq(Nat) /\ Tail(down) \in Seq(Seq(Nat))
  BY <1>1, HeadTailProperties
<1>3. FlattenSeq(Tail(down)) \in Seq(Nat)
  BY <1>2, FlattenType
<1>4. FlattenSeq(down) = Head(down) \o FlattenSeq(Tail(down))
  BY <1>1, FlattenHeadTail
<1>5. (client.got \o Head(down)) \o FlattenSeq(Tail(down))
        = client.got \o (Head(down) \o FlattenSeq(Tail(down)))
  BY <1>1, <1>2, <1>3, Regroup
<1>6. DownWay' = DownWay
  BY <1>1, <1>4, <1>5 DEF DownWay
<1> QED
  BY <1>1, <1>6, DownMoves

LEMMA DownT2Recv ==
  ASSUME Shape, DownFlow, T2Recv
  PROVE  DownFlow'
<1> USE DownTypes
<1>1. /\ t2.chunk = <<>> /\ down' = down /\ client' = client /\ dest' = dest /\ pc' = pc
  BY DEF T2Recv, T2Frame, Shape, T2Ok
<1>2. PICK n \in 1 .. Len(fromDest) :
        /\ t2' = [at |-> "send", chunk |-> SubSeq(fromDest, 1, n)]
        /\ fromDest' = SubSeq(fromDest, n + 1, Len(fromDest))
  BY DEF T2Recv
<1>3. PICK front \in Seq(Nat), back \in Seq(Nat) :
        front = SubSeq(fromDest, 1, n) /\ back = SubSeq(fromDest, n + 1, Len(fromDest))
        /\ front \o back = fromDest
  <2>1. fromDest \in Seq(Nat)
    OBVIOUS
  <2>2. /\ SubSeq(fromDest, 1, n) \in Seq(Nat)
        /\ SubSeq(fromDest, n + 1, Len(fromDest)) \in Seq(Nat)
        /\ SubSeq(fromDest, 1, n) \o SubSeq(fromDest, n + 1, Len(fromDest)) = fromDest
    BY ONLY <2>1, SplitAt
  <2> QED
    BY ONLY <2>2
<1>4. PICK before \in Seq(Nat) : before = client.got \o FlattenSeq(down)
  OBVIOUS
<1>5. DownWay = before \o fromDest
  <2>1. before \o <<>> = before
    BY NothingToAdd
  <2> QED
    BY <1>1, <1>4, <2>1 DEF DownWay
<1>6. DownWay' = (before \o front) \o back
  BY <1>1, <1>2, <1>3, <1>4 DEF DownWay
<1>7. (before \o front) \o back = before \o (front \o back)
  BY ONLY Regroup
<1> QED
  BY <1>1, <1>3, <1>5, <1>6, <1>7, DownMoves

LEMMA DownT2Send ==
  ASSUME Shape, DownFlow, T2Send
  PROVE  DownFlow'
<1> USE DownTypes
<1>1. /\ client.state = "open" /\ down' = Append(down, t2.chunk) /\ t2'.chunk = <<>>
      /\ client' = client /\ dest' = dest /\ pc' = pc /\ fromDest' = fromDest
      /\ down \in Seq(Seq(Nat))
  BY DEF T2Send, T2Frame, Shape, T2Ok, DownOk
<1>2. FlattenSeq(down') = FlattenSeq(down) \o t2.chunk
  BY <1>1, FlattenAppend
<1>3. PICK a \in Seq(Nat), b \in Seq(Nat), c \in Seq(Nat) :
        a = client.got /\ b = FlattenSeq(down) /\ c = t2.chunk
  OBVIOUS
<1>4. DownWay' = ((a \o (b \o c)) \o <<>>) \o fromDest
  BY <1>1, <1>2, <1>3 DEF DownWay
<1>5. DownWay = ((a \o b) \o c) \o fromDest
  BY <1>3 DEF DownWay
<1>6. (a \o (b \o c)) \o <<>> = (a \o b) \o c
  <2>1. a \o (b \o c) = (a \o b) \o c
    BY ONLY Regroup
  <2>2. (a \o b) \o c \in Seq(Nat)
    OBVIOUS
  <2> QED
    BY <2>1, <2>2, NothingToAdd
<1> QED
  BY <1>1, <1>4, <1>5, <1>6, DownMoves

LEMMA DownDestSends ==
  ASSUME Shape, DownFlow, DestSends
  PROVE  DownFlow'
<1> USE DownTypes
<1>1. PICK n \in Nat : n = Len(dest.sent) + 1
  OBVIOUS
<1>2. /\ dest.state = "open" /\ dest'.state = "open" /\ pc = "relay" /\ pc' = pc
      /\ dest'.sent = Append(dest.sent, n) /\ fromDest' = Append(fromDest, n)
      /\ down' = down /\ t2' = t2 /\ client' = client
  BY <1>1 DEF DestSends, destIdle, Shape, DestOk
<1>3. <<n>> \in Seq(Nat) /\ Append(dest.sent, n) = dest.sent \o <<n>>
      /\ Append(fromDest, n) = fromDest \o <<n>>
  <2>1. \A s \in Seq(Nat) : Append(s, n) = s \o <<n>>
    BY ONLY n \in Nat, AppendIsConcat
  <2>2. <<n>> \in Seq(Nat)
    OBVIOUS
  <2> QED
    BY <2>1, <2>2
<1>4. CASE client.state # "open"
  <2>1. IsPrefix(client.got, dest.sent \o <<n>>)
    BY <1>3, DownPrefixes, PrefixGrows
  <2> QED
    BY <1>2, <1>3, <1>4, <2>1 DEF DownFlow
<1>5. CASE client.state = "open"
  <2>1. PICK before \in Seq(Nat) : before = (client.got \o FlattenSeq(down)) \o t2.chunk
    OBVIOUS
  <2>2. DownWay' = before \o (fromDest \o <<n>>) /\ DownWay = before \o fromDest
    BY <1>2, <1>3, <2>1 DEF DownWay
  <2>3. PICK from \in Seq(Nat), more \in Seq(Nat) : from = fromDest /\ more = <<n>>
    BY <1>3
  <2>4. before \o (from \o more) = (before \o from) \o more
    BY ONLY Regroup
  <2>5. DownWay = dest.sent
    BY <1>2, <1>5 DEF DownFlow
  <2>6. DownWay' = dest'.sent
    BY <1>2, <1>3, <2>2, <2>3, <2>4, <2>5
  <2> QED
    BY <1>2, <1>5, <2>6 DEF DownFlow
<1> QED
  BY <1>4, <1>5

-------------------------------------------------------------------------------
(* The shape and the types are kept.                                        *)

LEMMA SendableFrames ==
  ASSUME Shape, Len(client.sent) < MaxUp
  PROVE  Sendable \subseteq Frames
<1>1. PICK n \in Nat : n = Len(client.sent) /\ DOMAIN client.sent = 1 .. n
  BY DEF Shape, ClientOk
<1> DEFINE D == {k \in DOMAIN client.sent : client.sent[k].tag = "data"}
<1>2. IsFiniteSet(1 .. n) /\ Cardinality(1 .. n) = n
  <2>1. Cardinality(1 .. n) = IF 1 > n THEN 0 ELSE n - 1 + 1
    BY FS_Interval
  <2> QED
    BY <2>1, FS_Interval
<1>3. D \subseteq 1 .. n
  BY <1>1
<1>4. Cardinality(D) \in Nat /\ Cardinality(D) <= n
  <2>1. IsFiniteSet(D) /\ Cardinality(D) <= Cardinality(1 .. n)
    BY <1>2, <1>3, FS_Subset
  <2> QED
    BY <1>2, <2>1, FS_CardinalityType
<1>5. Cardinality(D) + 1 \in 1 .. MaxUp
  BY <1>1, <1>4, RelayStreamAssumption
<1>6. Sendable = {Data(Cardinality(D) + 1)} \cup IF Garbled THEN {Noise, Tampered} ELSE {}
  BY DEF Sendable
<1> HIDE DEF D
<1> QED
  BY <1>5, <1>6 DEF Frames

(* Shape says all that TypeOK does.                                         *)
LEMMA ShapeTypes == Shape => TypeOK
<1> SUFFICES ASSUME Shape PROVE TypeOK
  OBVIOUS
<1>1. ToSet(up) \subseteq Frames /\ ToSet(client.sent) \subseteq Frames
  BY DEF Shape, UpOk, ClientOk, ToSet
<1>2. /\ t1.at \in T1At /\ (t1.at = "write" <=> t1.todo # <<>>)
      /\ t2.at \in T2At /\ (t2.at = "send" <=> t2.chunk # <<>>)
  BY DEF Shape, T1Ok, T2Ok
<1>3. /\ client.state \in {"open", "fin", "rst"} /\ client.ended \in BOOLEAN
      /\ dest.state \in {"open", "finished", "closed"}
      /\ pc \in {"connect", "relay", "done"} /\ stop \in BOOLEAN
  BY DEF Shape, ClientOk, DestOk, Phases
<1>4. Len(down) <= Window /\ Len(toDest) <= Window
  BY DEF Shape, DownOk, ToDestOk
<1> QED
  BY <1>1, <1>2, <1>3, <1>4 DEF TypeOK, T1At, T2At

LEMMA KeptClientSends ==
  ASSUME Shape, NEW f \in Frames, ClientSends(f)
  PROVE  Shape'
<1>1. client' = [client EXCEPT !.sent = Append(@, f)] /\ up' = Append(up, f)
      /\ down' = down
  BY DEF ClientSends
<1>a. Append(client.sent, f) \in Seq(Frames) /\ Append(up, f) \in Seq(Frames)
  BY DEF Shape, ClientOk, UpOk
<1>b. ClientOk'
  BY <1>1, <1>a DEF Shape, ClientOk
<1>2. ClientOk' /\ UpOk' /\ DownOk'
  BY <1>1, <1>a, <1>b DEF Shape, UpOk, DownOk
<1>3. (T1Ok /\ T2Ok /\ DestOk /\ ToDestOk /\ FromDestOk /\ Phases)'
  BY DEF ClientSends, clientIdle, Shape, T1Ok, T2Ok, DestOk, ToDestOk, FromDestOk, Phases, Over
<1> QED
  BY <1>2, <1>3 DEF Shape

LEMMA KeptClient ==
  ASSUME Shape, ClientReads \/ ClientSeesEnd \/ ClientCloses
  PROVE  Shape'
<1>1. (T1Ok /\ T2Ok /\ DestOk /\ ToDestOk /\ FromDestOk /\ Phases)'
  <2>1. clientIdle
    BY DEF ClientReads, ClientSeesEnd, ClientCloses
  <2> QED
    BY <2>1 DEF clientIdle, Shape, T1Ok, T2Ok, DestOk, ToDestOk, FromDestOk, Phases, Over
<1>2. CASE ClientReads
  <2>1. down \in Seq(Seq(Nat)) /\ down # <<>>
    BY <1>2 DEF ClientReads, Shape, DownOk
  <2>2. Head(down) \in Seq(Nat) /\ Tail(down) \in Seq(Seq(Nat)) /\ Len(Tail(down)) = Len(down) - 1
    BY <2>1, HeadTailProperties
  <2>3. PICK n \in Nat : n = Len(down)
    BY <2>1
  <2>a. n <= Window
    BY <2>3 DEF Shape, DownOk
  <2>4. n - 1 <= Window
    BY <2>a, RelayStreamAssumption
  <2>b. down' = Tail(down) /\ Len(Tail(down)) <= Window
    BY <1>2, <2>2, <2>3, <2>4 DEF ClientReads
  <2>c. down' \in Seq(Seq(Nat))
    BY <2>2, <2>b
  <2>d. Len(down') <= Window
    BY <2>b
  <2>5. DownOk'
    BY <2>c, <2>d DEF DownOk
  <2>e. client.got \o Head(down) \in Seq(Nat)
    BY <2>2 DEF Shape, ClientOk
  <2>6. ClientOk' /\ UpOk'
    BY <1>2, <2>e DEF ClientReads, Shape, ClientOk, UpOk
  <2> QED
    BY <1>1, <2>5, <2>6 DEF Shape
<1>3. CASE ClientSeesEnd
  <2>1. ClientOk' /\ UpOk' /\ DownOk'
    BY <1>3 DEF ClientSeesEnd, Shape, ClientOk, UpOk, DownOk
  <2> QED
    BY <1>1, <2>1 DEF Shape
<1>4. CASE ClientCloses
  <2>1. up' \in {up, <<>>} /\ down' = <<>>
        /\ client' = [client EXCEPT !.state = IF down = <<>> THEN "fin" ELSE "rst"]
    BY <1>4 DEF ClientCloses
  <2>2. <<>> \in Seq(Frames) /\ <<>> \in Seq(Seq(Nat)) /\ Len(<<>>) = 0 /\ 0 <= Window
    BY RelayStreamAssumption
  <2>3. UpOk' /\ DownOk'
    BY <2>1, <2>2 DEF Shape, UpOk, DownOk
  <2>4. ClientOk'
    BY <2>1 DEF Shape, ClientOk
  <2> QED
    BY <1>1, <2>3, <2>4 DEF Shape
<1> QED
  BY <1>2, <1>3, <1>4

LEMMA KeptDest ==
  ASSUME Shape, DestSends \/ DestReads \/ DestFinishes \/ DestCloses
  PROVE  Shape'
<1>1. (T1Ok /\ T2Ok /\ ClientOk /\ UpOk /\ DownOk)'
  <2>1. destIdle
    BY DEF DestSends, DestReads, DestFinishes, DestCloses
  <2> QED
    BY <2>1 DEF destIdle, Shape, T1Ok, T2Ok, ClientOk, UpOk, DownOk
<1>6. Phases'
  <2>1. destIdle /\ (fromDest' = fromDest \/ pc = "relay")
    BY DEF DestSends, DestReads, DestFinishes, DestCloses
  <2> QED
    BY <2>1 DEF destIdle, Shape, Phases, Over
<1>2. CASE DestSends
  <2>1. PICK n \in Nat : n = Len(dest.sent) + 1
    BY DEF Shape, DestOk
  <2>2. dest' = [dest EXCEPT !.sent = Append(@, n)] /\ fromDest' = Append(fromDest, n)
        /\ toDest' = toDest
    BY <1>2, <2>1 DEF DestSends, Shape, DestOk
  <2>a. Append(dest.sent, n) \in Seq(Nat) /\ Append(fromDest, n) \in Seq(Nat)
    BY DEF Shape, DestOk, FromDestOk
  <2>b. DestOk'
    BY <2>2, <2>a DEF Shape, DestOk
  <2>3. DestOk' /\ FromDestOk' /\ ToDestOk'
    BY <2>2, <2>a, <2>b DEF Shape, FromDestOk, ToDestOk
  <2> QED
    BY <1>1, <1>6, <2>3 DEF Shape
<1>3. CASE DestReads
  <2>1. Head(toDest) \in Nat /\ Tail(toDest) \in Seq(Nat) /\ Len(Tail(toDest)) = Len(toDest) - 1
    BY <1>3 DEF DestReads, Shape, ToDestOk
  <2>2. PICK n \in Nat : n = Len(toDest)
    BY DEF Shape, ToDestOk
  <2>a. n <= Window
    BY <2>2 DEF Shape, ToDestOk
  <2>3. n - 1 <= Window
    BY <2>a, RelayStreamAssumption
  <2>b. toDest' = Tail(toDest) /\ Len(Tail(toDest)) <= Window
    BY <1>3, <2>1, <2>2, <2>3 DEF DestReads
  <2>c. toDest' \in Seq(Nat)
    BY <2>1, <2>b
  <2>d. Len(toDest') <= Window
    BY <2>b
  <2>4. ToDestOk'
    BY <2>c, <2>d DEF ToDestOk
  <2>e. Append(dest.got, Head(toDest)) \in Seq(Nat)
    BY <2>1 DEF Shape, DestOk
  <2>5. DestOk' /\ FromDestOk'
    BY <1>3, <2>e DEF DestReads, Shape, DestOk, FromDestOk
  <2> QED
    BY <1>1, <1>6, <2>4, <2>5 DEF Shape
<1>4. CASE DestFinishes
  <2>1. DestOk' /\ FromDestOk' /\ ToDestOk'
    BY <1>4 DEF DestFinishes, Shape, DestOk, FromDestOk, ToDestOk
  <2> QED
    BY <1>1, <1>6, <2>1 DEF Shape
<1>5. CASE DestCloses
  <2>1. <<>> \in Seq(Nat) /\ Len(<<>>) = 0 /\ 0 <= Window
    BY RelayStreamAssumption
  <2>2. fromDest' \in {fromDest, <<>>} /\ toDest' = <<>>
    BY <1>5 DEF DestCloses
  <2>3. FromDestOk' /\ ToDestOk'
    BY <2>1, <2>2 DEF Shape, FromDestOk, ToDestOk
  <2>4. DestOk'
    BY <1>5 DEF DestCloses, Shape, DestOk
  <2> QED
    BY <1>1, <1>6, <2>3, <2>4 DEF Shape
<1> QED
  BY <1>2, <1>3, <1>4, <1>5

LEMMA KeptMain ==
  ASSUME Shape, MainStep
  PROVE  Shape'
<1>0. <<>> \in Seq(Nat) /\ <<>> \in Seq(Frames)
  OBVIOUS
<1>a. Len(<<>>) = 0 /\ 0 <= Window
  BY RelayStreamAssumption
<1>1. (ClientOk /\ DestOk /\ DownOk /\ ToDestOk)'
  BY <1>0, <1>a
  DEF MainStep, Connect, ConnectFails, Joined, Shape, ClientOk, DestOk, DownOk, ToDestOk
<1>2. UpOk' /\ FromDestOk'
  BY <1>0 DEF MainStep, Connect, ConnectFails, Joined, Shape, UpOk, FromDestOk
<1>3. CASE Connect
  <2>1. t1' = [t1 EXCEPT !.at = "top"] /\ t1.at = "off" /\ t2' = [t2 EXCEPT !.at = "start"]
        /\ t2.at = "off" /\ pc' = "relay" /\ stop' = stop
    BY <1>3 DEF Connect, Shape, Phases
  <2>2. T1Ok'
    BY <2>1 DEF Shape, T1Ok, T1At
  <2>3. T2Ok'
    BY <2>1 DEF Shape, T2Ok, T2At
  <2>4. Phases'
    BY <2>1 DEF Shape, Phases
  <2> QED
    BY <1>1, <1>2, <2>2, <2>3, <2>4 DEF Shape
<1>4. CASE ConnectFails \/ Joined
  <2>1. T1Ok' /\ T2Ok'
    BY <1>4 DEF ConnectFails, Joined, Shape, T1Ok, T2Ok
  <2>2. t2.at \in T2At
    BY DEF Shape, T2Ok
  <2>3. Phases'
    BY <1>4, <2>2 DEF ConnectFails, Joined, Shape, Phases, Over, T2At
  <2> QED
    BY <1>1, <1>2, <2>1, <2>3 DEF Shape
<1> QED
  BY <1>3, <1>4 DEF MainStep

LEMMA KeptReset ==
  ASSUME Shape, CircuitReset
  PROVE  Shape'
<1>1. <<>> \in Seq(Seq(Nat)) /\ Len(<<>>) = 0 /\ 0 <= Window
  BY RelayStreamAssumption
<1>2. DownOk'
  BY <1>1 DEF CircuitReset, DownOk
<1>3. (T1Ok /\ T2Ok /\ ClientOk /\ DestOk /\ UpOk /\ ToDestOk /\ FromDestOk /\ Phases)'
  BY DEF CircuitReset, Shape, T1Ok, T2Ok, ClientOk, DestOk, UpOk, ToDestOk, FromDestOk,
         Phases, Over
<1> QED
  BY <1>2, <1>3 DEF Shape

LEMMA KeptT1 ==
  ASSUME Shape, T1Step
  PROVE  Shape'
<1>0. <<>> \in Seq(Nat) /\ Len(<<>>) = 0
  OBVIOUS
<1>1. T1Frame
  BY DEF T1Step, T1Check, T1Recv, T1End, T1Reset, T1Write, T1WriteFails
<1>2. (T2Ok /\ ClientOk /\ DestOk /\ DownOk /\ FromDestOk)'
  BY <1>1 DEF T1Frame, Shape, T2Ok, ClientOk, DestOk, DownOk, FromDestOk
<1>3. ASSUME t1'.at # "off", pc # "connect", pc # "done", stop' \in BOOLEAN
      PROVE  Phases'
  BY <1>1, <1>3 DEF T1Frame, Shape, Phases
<1>4. /\ t1 \in [at : T1At, todo : Seq(Nat), timed : BOOLEAN]
      /\ t1.at = "write" <=> t1.todo # <<>>
      /\ pc = "connect" => t1.at = "off"
      /\ pc = "done" => t1.at = "off" \/ Over(t1)
      /\ stop \in BOOLEAN
  BY DEF Shape, T1Ok, Phases
<1>5. ASSUME NEW a \in T1At, a # "write", t1' = [at |-> a, todo |-> <<>>, timed |-> FALSE]
      PROVE  T1Ok' /\ t1'.at = a
  BY <1>0, <1>5 DEF T1Ok
<1>6. ASSUME NEW a \in T1At, a # "write", t1.at # "write", t1' = [t1 EXCEPT !.at = a]
      PROVE  T1Ok' /\ t1'.at = a
  BY <1>4, <1>6 DEF T1Ok
<1>7. CASE T1Check
  <2>1. UpOk' /\ ToDestOk'
    BY <1>7 DEF T1Check, Shape, UpOk, ToDestOk
  <2>2. T1Ok' /\ t1'.at \in {"left", "recv"} /\ stop' \in BOOLEAN
    BY <1>4, <1>5, <1>6, <1>7 DEF T1Check, T1Leaves, T1At
  <2>3. pc # "connect" /\ pc # "done"
    BY <1>4, <1>7 DEF T1Check, Over
  <2> QED
    BY <1>2, <1>3, <2>1, <2>2, <2>3 DEF Shape
<1>8. CASE T1Recv
  <2>1. t1.at = "recv" /\ up # <<>> /\ up' = Tail(up) /\ stop' = stop /\ toDest' = toDest
    BY <1>8 DEF T1Recv
  <2>2. up \in Seq(Frames)
    BY DEF Shape, UpOk
  <2>3. PICK f \in Frames : f = Head(up)
    BY <2>1, <2>2
  <2>4. UpOk' /\ ToDestOk'
    BY <2>1, <2>2 DEF Shape, UpOk, ToDestOk
  <2>5. f.pieces \in Seq(Nat) /\ f.tag \in {"data", "noise", "tampered"}
        /\ (f.tag = "data" => f.pieces # <<>>)
    BY FramesType
  <2>6. T1Ok' /\ t1'.at # "off"
    <3>1. CASE f.tag = "data"
      <4>1. PICK b \in BOOLEAN : b = (t2.at # "start")
        OBVIOUS
      <4>2. t1' = [at |-> "write", todo |-> f.pieces, timed |-> b]
        BY <1>8, <2>3, <3>1, <4>1 DEF T1Recv
      <4> QED
        BY <2>5, <3>1, <4>2 DEF T1Ok, T1At
    <3>2. CASE f.tag = "noise"
      <4>1. t1' = [t1 EXCEPT !.at = "top"]
        BY <1>8, <2>3, <3>2 DEF T1Recv
      <4> QED
        BY <1>6, <2>1, <4>1 DEF T1At
    <3>3. CASE f.tag = "tampered"
      <4>1. t1' = [t1 EXCEPT !.at = "raised"]
        BY <1>8, <2>3, <3>3 DEF T1Recv
      <4> QED
        BY <1>6, <2>1, <4>1 DEF T1At
    <3> QED
      BY <2>5, <3>1, <3>2, <3>3
  <2>7. pc # "connect" /\ pc # "done"
    BY <1>4, <2>1 DEF Over
  <2> QED
    BY <1>2, <1>3, <1>4, <2>1, <2>4, <2>6, <2>7 DEF Shape
<1>9. CASE T1End \/ T1Reset
  <2>1. t1.at = "recv" /\ UpOk' /\ ToDestOk'
    BY <1>9 DEF T1End, T1Reset, Shape, UpOk, ToDestOk
  <2>2. T1Ok' /\ t1'.at \in {"left", "raised"} /\ stop' \in BOOLEAN
    BY <1>4, <1>5, <1>6, <1>9 DEF T1End, T1Reset, T1Leaves, T1At
  <2>3. pc # "connect" /\ pc # "done"
    BY <1>4, <2>1 DEF Over
  <2> QED
    BY <1>2, <1>3, <2>1, <2>2, <2>3 DEF Shape
<1>10. CASE T1Write
  <2>1. t1.at = "write" /\ t1.todo # <<>> /\ Len(toDest) < Window /\ up' = up /\ stop' = stop
        /\ toDest' = Append(toDest, Head(t1.todo))
    BY <1>4, <1>10 DEF T1Write
  <2>2. t1.todo \in Seq(Nat) /\ toDest \in Seq(Nat) /\ Window \in Nat
    BY <1>4, RelayStreamAssumption DEF Shape, ToDestOk
  <2>3. Head(t1.todo) \in Nat /\ Tail(t1.todo) \in Seq(Nat)
        /\ (Len(t1.todo) > 1 => Tail(t1.todo) # <<>>)
    BY SMTT(30), <2>1, <2>2
  <2>4. Append(toDest, Head(t1.todo)) \in Seq(Nat) /\ Len(Append(toDest, Head(t1.todo))) <= Window
    BY <2>1, <2>2, <2>3
  <2>5. UpOk' /\ ToDestOk'
    BY <2>1, <2>4 DEF Shape, UpOk, ToDestOk
  <2>6. T1Ok' /\ t1'.at # "off"
    <3>1. CASE Len(t1.todo) > 1
      <4>1. t1' = [t1 EXCEPT !.todo = Tail(@)]
        BY <1>10, <3>1 DEF T1Write
      <4> QED
        BY <1>4, <2>1, <2>3, <3>1, <4>1 DEF T1Ok
    <3>2. CASE ~(Len(t1.todo) > 1)
      <4>1. t1' = [at |-> "top", todo |-> <<>>, timed |-> FALSE]
        BY <1>10, <3>2 DEF T1Write
      <4> QED
        BY <1>5, <4>1 DEF T1At
    <3> QED
      BY <3>1, <3>2
  <2>7. pc # "connect" /\ pc # "done"
    BY <1>4, <2>1 DEF Over
  <2> QED
    BY <1>2, <1>3, <1>4, <2>1, <2>5, <2>6, <2>7 DEF Shape
<1>11. CASE T1WriteFails
  <2>1. t1.at = "write" /\ UpOk' /\ ToDestOk'
    BY <1>11 DEF T1WriteFails, Shape, UpOk, ToDestOk
  <2>2. T1Ok' /\ t1'.at \in {"left", "timedOut"} /\ stop' \in BOOLEAN
    BY <1>5, <1>11 DEF T1WriteFails, T1Leaves, T1At
  <2>3. pc # "connect" /\ pc # "done"
    BY <1>4, <2>1 DEF Over
  <2> QED
    BY <1>2, <1>3, <2>1, <2>2, <2>3 DEF Shape
<1> QED
  BY <1>7, <1>8, <1>9, <1>10, <1>11 DEF T1Step

LEMMA KeptT2 ==
  ASSUME Shape, T2Step
  PROVE  Shape'
<1>0. <<>> \in Seq(Nat)
  OBVIOUS
<1>1. T2Frame
  BY DEF T2Step, T2Start, T2Check, T2Recv, T2TimesOut, T2End, T2Send, T2SendFails
<1>2. (T1Ok /\ DestOk /\ UpOk /\ ToDestOk)'
  BY <1>1 DEF T2Frame, Shape, T1Ok, DestOk, UpOk, ToDestOk
<1>3. /\ t2 \in [at : T2At, chunk : Seq(Nat)]
      /\ t2.at = "send" <=> t2.chunk # <<>>
      /\ pc = "connect" => t2.at = "off"
      /\ pc = "done" => t2.at \in {"off", "left"}
      /\ stop \in BOOLEAN /\ pc \in {"connect", "relay", "done"}
  BY DEF Shape, T2Ok, Phases
<1>4. ASSUME t2.at \notin {"off", "left"}, stop' \in BOOLEAN
      PROVE  Phases'
  BY <1>1, <1>3, <1>4 DEF T2Frame, Shape, Phases
<1>5. ASSUME NEW a \in T2At, a # "send", t2' = [at |-> a, chunk |-> <<>>]
      PROVE  T2Ok'
  BY <1>0, <1>5 DEF T2Ok
<1>6. ASSUME NEW a \in T2At, a # "send", t2.at # "send", t2' = [t2 EXCEPT !.at = a]
      PROVE  T2Ok'
  BY <1>3, <1>6 DEF T2Ok
<1>7. CASE T2Start \/ T2Check \/ T2TimesOut \/ T2End
  <2>1. /\ t2.at \notin {"off", "left", "send"} /\ down' = down /\ fromDest' = fromDest
        /\ client' = client /\ stop' \in {stop, TRUE}
    BY <1>7 DEF T2Start, T2Check, T2TimesOut, T2End, T2Leaves
  <2>2. T2Ok'
    BY <1>5, <1>6, <1>7, <2>1
    DEF T2Start, T2Check, T2TimesOut, T2End, T2Leaves, T2At
  <2>3. ClientOk' /\ DownOk' /\ FromDestOk' /\ Phases'
    BY <1>3, <1>4, <2>1 DEF Shape, ClientOk, DownOk, FromDestOk
  <2> QED
    BY <1>2, <2>2, <2>3 DEF Shape
<1>8. CASE T2Recv
  <2>1. PICK n \in 1 .. Len(fromDest) :
        /\ t2' = [at |-> "send", chunk |-> SubSeq(fromDest, 1, n)]
        /\ fromDest' = SubSeq(fromDest, n + 1, Len(fromDest))
    BY <1>8 DEF T2Recv
  <2>2. fromDest \in Seq(Nat)
    BY DEF Shape, FromDestOk
  <2>3. /\ SubSeq(fromDest, 1, n) \in Seq(Nat) /\ SubSeq(fromDest, 1, n) # <<>>
        /\ SubSeq(fromDest, n + 1, Len(fromDest)) \in Seq(Nat)
    BY ONLY <2>2, SplitAt
  <2>4. T2Ok' /\ FromDestOk'
    BY <2>1, <2>3 DEF T2Ok, T2At, FromDestOk
  <2>5. ClientOk' /\ DownOk' /\ Phases'
    BY <1>3, <1>4, <1>8 DEF T2Recv, Shape, ClientOk, DownOk
  <2> QED
    BY <1>2, <2>4, <2>5 DEF Shape
<1>9. CASE T2Send
  <2>1. t2.at = "send" /\ Len(down) < Window /\ down' = Append(down, t2.chunk)
        /\ t2' = [at |-> "top", chunk |-> <<>>] /\ stop' = stop /\ client' = client
        /\ fromDest' = fromDest
    BY <1>9 DEF T2Send
  <2>2. t2.chunk \in Seq(Nat) /\ down \in Seq(Seq(Nat)) /\ Window \in Nat
    BY <1>3, RelayStreamAssumption DEF Shape, DownOk
  <2>3. Append(down, t2.chunk) \in Seq(Seq(Nat)) /\ Len(Append(down, t2.chunk)) = Len(down) + 1
    BY <2>2, AppendProperties
  <2>4. PICK n \in Nat : n = Len(down)
    BY <2>2
  <2>5. n < Window => n + 1 <= Window
    BY <2>2
  <2>6. DownOk'
    BY <2>1, <2>3, <2>4, <2>5 DEF DownOk
  <2>7. T2Ok'
    BY <1>5, <2>1 DEF T2At
  <2>8. ClientOk' /\ FromDestOk' /\ Phases'
    BY <1>3, <1>4, <2>1 DEF Shape, ClientOk, FromDestOk
  <2> QED
    BY <1>2, <2>6, <2>7, <2>8 DEF Shape
<1>10. CASE T2SendFails
  <2>1. t2.at = "send" /\ down' = down /\ fromDest' = fromDest /\ stop' \in {stop, TRUE}
        /\ (client' = client \/ client' = [client EXCEPT !.state = "rst"])
    BY <1>10 DEF T2SendFails, T2Leaves
  <2>2. T2Ok'
    BY <1>5, <1>10 DEF T2SendFails, T2Leaves, T2At
  <2>3. ClientOk'
    BY <2>1 DEF Shape, ClientOk
  <2>4. DownOk' /\ FromDestOk' /\ Phases'
    BY <1>3, <1>4, <2>1 DEF Shape, DownOk, FromDestOk
  <2> QED
    BY <1>2, <2>2, <2>3, <2>4 DEF Shape
<1> QED
  BY <1>7, <1>8, <1>9, <1>10 DEF T2Step

-------------------------------------------------------------------------------
(* The invariant.                                                           *)

LEMMA UpFlowStep ==
  ASSUME Shape, UpFlow, Next, MaxUp \in Nat
  PROVE  UpFlow'
<1>0. pc \in {"connect", "relay", "done"} /\ (pc = "connect" => t1.at = "off")
      /\ (pc = "done" => t1.at = "off" \/ Over(t1))
      /\ t1 \in [at : T1At, todo : Seq(Nat), timed : BOOLEAN]
      /\ client.state \in {"open", "fin", "rst"}
  BY DEF Shape, Phases, T1Ok, ClientOk
<1>1. CASE \E f \in Sendable : ClientSends(f)
  <2>1. PICK f \in Sendable : ClientSends(f)
    BY <1>1
  <2>2. f \in Frames
    BY <2>1, SendableFrames DEF ClientSends
  <2> QED
    BY <2>1, <2>2, UpClientSends
<1>2. CASE ClientReads \/ ClientSeesEnd
  <2>1. client'.sent = client.sent /\ client'.state = client.state
    BY <1>2 DEF ClientReads, ClientSeesEnd, Shape, ClientOk
  <2> QED
    BY <1>2, <2>1, UpUnmoved DEF ClientReads, ClientSeesEnd, clientIdle, Over
<1>3. CASE ClientCloses
  BY <1>3, UpClientCloses
<1>4. CASE DestSends \/ DestFinishes
  <2>1. dest'.got = dest.got /\ dest.state # "closed" /\ dest'.state # "closed"
    BY <1>4 DEF DestSends, DestFinishes, Shape, DestOk
  <2> QED
    BY <1>4, <2>1, UpUnmoved DEF DestSends, DestFinishes, destIdle, Over
<1>5. CASE DestReads
  BY <1>5, UpDestReads
<1>6. CASE DestCloses
  BY <1>6, UpDestCloses
<1>7. CASE Connect
  <2>1. t1'.todo = t1.todo /\ ~ Over(t1)' /\ ~ Over(t1) /\ pc # "done" /\ pc' # "done"
        /\ toDest' = toDest /\ dest' = dest /\ client' = client /\ up' = up
    BY <1>0, <1>7 DEF Connect, Over
  <2> QED
    BY <2>1, UpUnmoved
<1>8. CASE ConnectFails \/ Joined
  BY <1>8, UpLeaves DEF ConnectFails, Joined
<1>9. CASE T1Check
  <2>1. CASE stop
    BY <1>9, <2>1, UpLeaves DEF T1Check, T1Leaves, T1Frame, Over
  <2>2. CASE ~stop
    <3>1. t1'.todo = t1.todo /\ ~ Over(t1)' /\ ~ Over(t1)
      BY <1>0, <1>9, <2>2 DEF T1Check, Over
    <3> QED
      BY <1>9, <3>1, UpUnmoved DEF T1Check, T1Frame
  <2> QED
    BY <2>1, <2>2
<1>10. CASE T1Recv
  BY <1>10, UpT1Recv
<1>11. CASE T1End
  BY <1>11, UpLeaves DEF T1End, T1Leaves, T1Frame, Over
<1>12. CASE T1Reset
  <2>1. Over(t1)'
    BY <1>0, <1>12 DEF T1Reset, Over
  <2> QED
    BY <1>12, <2>1, UpLeaves DEF T1Reset, T1Frame
<1>13. CASE T1Write
  BY <1>13, UpT1Write
<1>14. CASE T1WriteFails
  <2>1. Over(t1)'
    BY <1>14 DEF T1WriteFails, T1Leaves, Over
  <2> QED
    BY <1>14, <2>1, UpLeaves DEF T1WriteFails, T1Frame
<1>16. CASE CircuitReset
  BY <1>16, UpUnmoved DEF CircuitReset, Over
<1>15. CASE T2Step
  <2>1. T2Frame /\ client'.sent = client.sent
        /\ (client'.state = "open" <=> client.state = "open")
    BY <1>15 DEF T2Step, T2Start, T2Check, T2Recv, T2TimesOut, T2End, T2Send, T2SendFails,
                 Shape, ClientOk
  <2> QED
    BY <2>1, UpUnmoved DEF T2Frame, Over
<1> QED
  BY <1>1, <1>2, <1>3, <1>4, <1>5, <1>6, <1>7, <1>8, <1>9, <1>10, <1>11, <1>12, <1>13,
     <1>14, <1>15, <1>16 DEF Next, MainStep, T1Step

LEMMA DownFlowStep ==
  ASSUME Shape, DownFlow, Next
  PROVE  DownFlow'
<1>1. CASE (\E f \in Sendable : ClientSends(f)) \/ ClientSeesEnd
  <2>1. client'.got = client.got /\ client'.state = client.state /\ clientIdle /\ down' = down
    BY <1>1 DEF ClientSends, ClientSeesEnd, Shape, ClientOk
  <2> QED
    BY <2>1, DownUnmoved DEF clientIdle
<1>2. CASE ClientReads
  BY <1>2, DownClientReads
<1>3. CASE ClientCloses
  <2>1. client'.got = client.got /\ client'.state # "open" /\ down' = <<>> /\ dest' = dest
    BY <1>3 DEF ClientCloses, clientIdle, Shape, ClientOk
  <2> QED
    BY <2>1, DownPrefixes DEF DownFlow
<1>4. CASE DestSends
  BY <1>4, DownDestSends
<1>5. CASE DestReads \/ DestFinishes
  <2>1. dest'.sent = dest.sent /\ dest.state # "closed" /\ dest'.state # "closed"
        /\ destIdle /\ fromDest' = fromDest
    BY <1>5 DEF DestReads, DestFinishes, Shape, DestOk
  <2> QED
    BY <2>1, DownUnmoved DEF destIdle
<1>6. CASE DestCloses
  <2>1. dest'.sent = dest.sent /\ dest'.state = "closed"
    BY <1>6 DEF DestCloses, Shape, DestOk
  <2> QED
    BY <1>6, <2>1, DownCut DEF DestCloses, destIdle
<1>7. CASE Connect
  <2>1. t2'.chunk = t2.chunk /\ pc # "done" /\ pc' # "done"
        /\ down' = down /\ fromDest' = fromDest /\ dest' = dest /\ client' = client
    BY <1>7 DEF Connect, Shape, T2Ok
  <2> QED
    BY <2>1, DownUnmoved
<1>8. CASE ConnectFails \/ Joined
  BY <1>8, DownCut DEF ConnectFails, Joined
<1>14. CASE CircuitReset
  BY <1>14, DownReset
<1>9. CASE T1Step
  <2>1. T1Frame
    BY <1>9 DEF T1Step, T1Check, T1Recv, T1End, T1Reset, T1Write, T1WriteFails
  <2> QED
    BY <2>1, DownUnmoved DEF T1Frame
<1>10. CASE T2Start \/ T2Check \/ T2TimesOut \/ T2End
  <2>1. t2'.chunk = t2.chunk
    BY <1>10 DEF T2Start, T2Check, T2TimesOut, T2End, T2Leaves, Shape, T2Ok
  <2> QED
    BY <1>10, <2>1, DownUnmoved DEF T2Start, T2Check, T2TimesOut, T2End, T2Frame
<1>11. CASE T2Recv
  BY <1>11, DownT2Recv
<1>12. CASE T2Send
  BY <1>12, DownT2Send
<1>13. CASE T2SendFails
  <2>1. client.state # "open" /\ client'.state # "open" /\ client'.got = client.got
        /\ down' = down /\ T2Frame
    BY <1>13 DEF T2SendFails, Shape, ClientOk
  <2> QED
    BY <2>1, DownMoves DEF T2Frame
<1> QED
  BY <1>1, <1>2, <1>3, <1>4, <1>5, <1>6, <1>7, <1>8, <1>9, <1>10, <1>11, <1>12, <1>13,
     <1>14 DEF Next, MainStep, T2Step

LEMMA ShapeStep ==
  ASSUME Shape, Next
  PROVE  Shape'
<1>1. CASE \E f \in Sendable : ClientSends(f)
  <2>1. PICK f \in Sendable : ClientSends(f)
    BY <1>1
  <2>2. f \in Frames
    BY <2>1, SendableFrames DEF ClientSends
  <2> QED
    BY <2>1, <2>2, KeptClientSends
<1>2. CASE ~(\E f \in Sendable : ClientSends(f))
  BY <1>2, KeptClient, KeptDest, KeptMain, KeptReset, KeptT1, KeptT2 DEF Next
<1> QED
  BY <1>1, <1>2

LEMMA StreamInit == Init => StreamInv
<1> SUFFICES ASSUME Init PROVE StreamInv
  OBVIOUS
<1>1. <<>> \in Seq(Nat) /\ <<>> \in Seq(Frames) /\ <<>> \in Seq(Seq(Nat)) /\ Len(<<>>) = 0
      /\ 0 <= Window
  BY RelayStreamAssumption
<1>2. T1Ok /\ T2Ok
  BY <1>1 DEF Init, T1Ok, T2Ok, T1At, T2At
<1>3. ClientOk
  BY <1>1 DEF Init, ClientOk
<1>4. DestOk
  BY <1>1 DEF Init, DestOk
<1>5. UpOk /\ DownOk /\ ToDestOk /\ FromDestOk
  BY <1>1 DEF Init, UpOk, DownOk, ToDestOk, FromDestOk
<1>6. Phases
  BY DEF Init, Phases
<1>7. \A X : <<>> \o <<>> = <<>>
  OBVIOUS
<1>8. UpFlow
  BY <1>7, PlainEmpty DEF Init, UpFlow, UpWay, Over
<1>9. DownFlow
  BY <1>7, FlattenEmpty DEF Init, DownFlow, DownWay
<1> QED
  BY <1>2, <1>3, <1>4, <1>5, <1>6, <1>8, <1>9 DEF StreamInv, Shape

LEMMA StreamStep ==
  ASSUME StreamInv, [Next]_vars
  PROVE  StreamInv'
<1>1. CASE Next
  BY <1>1, ShapeStep, UpFlowStep, DownFlowStep, RelayStreamAssumption DEF StreamInv
<1>2. CASE UNCHANGED vars
  <2>1. Shape'
    BY <1>2 DEF vars, StreamInv, Shape, T1Ok, T2Ok, ClientOk, DestOk, UpOk, DownOk, ToDestOk,
                FromDestOk, Phases, Over
  <2>2. UpFlow' /\ DownFlow'
    BY <1>2 DEF vars, StreamInv, UpFlow, UpWay, DownFlow, DownWay, Over
  <2> QED
    BY <2>1, <2>2 DEF StreamInv
<1> QED
  BY <1>1, <1>2

LEMMA StreamInvariant == Spec => []StreamInv
<1>1. StreamInv /\ [Next]_vars => StreamInv'
  BY StreamStep
<1> QED
  BY StreamInit, <1>1, PTL DEF Spec

(* Each side of relay_stream reads a beginning of what the other one wrote. *)
THEOREM BothPrefixesHolds == Spec => []BothPrefixes
<1>1. StreamInv => BothPrefixes
  <2> SUFFICES ASSUME StreamInv PROVE BothPrefixes
    OBVIOUS
  <2>1. Shape /\ UpFlow /\ DownFlow
    BY DEF StreamInv
  <2> QED
    BY <2>1, ShapeTypes, UpPrefixes, DownPrefixes DEF BothPrefixes
<1> QED
  BY <1>1, StreamInvariant, PTL

-------------------------------------------------------------------------------
(* The answer is heard to the end.                                          *)

(* Nothing the destination sends is left on the way, and nothing follows.   *)
Heard == dest.state = "finished" /\ fromDest = <<>> /\ t2.chunk = <<>> /\ DownWay = dest.sent

Undisturbed ==
  client.state = "open" /\ dest.state # "closed" /\ t1.at # "timedOut" /\ ~Unread

(* Without a disturbance remote_to_client leaves, or is told to, only when  *)
(* the destination has finished and all of it has been passed on.           *)
HeardInv ==
  /\ Undisturbed /\ (stop \/ t2.at = "left") => Heard
  /\ pc = "done" /\ Undisturbed => t2.at = "left" \/ dest.state = "open"
  /\ pc = "connect" => ~ stop /\ dest.state = "open"

LEMMA ConnectingStays ==
  ASSUME Shape, HeardInv, Next, pc' = "connect"
  PROVE  ~ stop' /\ dest'.state = "open"
<1>1. pc = "connect" /\ t1.at = "off" /\ t2.at = "off" /\ ~ stop /\ dest.state = "open"
  BY DEF Next, ClientSends, ClientReads, ClientSeesEnd, ClientCloses, clientIdle,
         DestSends, DestReads, DestFinishes, DestCloses, destIdle,
         MainStep, Connect, ConnectFails, Joined, CircuitReset,
         T1Step, T1Check, T1Recv, T1End, T1Reset, T1Write, T1WriteFails, T1Frame,
         T2Step, T2Start, T2Check, T2Recv, T2TimesOut, T2End, T2Send, T2SendFails, T2Frame,
         Shape, Phases, HeardInv
<1>2. ~ T1Step
  BY <1>1 DEF T1Step, T1Check, T1Recv, T1End, T1Reset, T1Write, T1WriteFails
<1>3. ~ T2Step
  BY <1>1 DEF T2Step, T2Start, T2Check, T2Recv, T2TimesOut, T2End, T2Send, T2SendFails
<1>4. ~ MainStep
  BY <1>1 DEF MainStep, Connect, ConnectFails, Joined
<1>5. dest.state = "open" /\ (dest' = dest \/ dest' = [dest EXCEPT !.got = Append(@, Head(toDest))])
      /\ stop' = stop
  BY <1>1, <1>2, <1>3, <1>4
  DEF Next, ClientSends, ClientReads, ClientSeesEnd, ClientCloses, clientIdle,
      DestSends, DestReads, DestFinishes, DestCloses, destIdle, CircuitReset
<1> QED
  BY <1>1, <1>5 DEF Shape, DestOk

LEMMA DisturbedStays ==
  ASSUME Shape, Next, Undisturbed'
  PROVE  Undisturbed
<1>1. t1 \in [at : T1At, todo : Seq(Nat), timed : BOOLEAN]
  BY DEF Shape, T1Ok
<1>2. client'.state = "open" => client.state = "open"
  BY DEF Next, ClientSends, ClientReads, ClientSeesEnd, ClientCloses, clientIdle,
         DestSends, DestReads, DestFinishes, DestCloses, destIdle,
         MainStep, Connect, ConnectFails, Joined, CircuitReset,
         T1Step, T1Check, T1Recv, T1End, T1Reset, T1Write, T1WriteFails, T1Frame,
         T2Step, T2Start, T2Check, T2Recv, T2TimesOut, T2End, T2Send, T2SendFails, T2Frame,
         Shape, ClientOk
<1>3. dest'.state # "closed" => dest.state # "closed"
  BY DEF Next, ClientSends, ClientReads, ClientSeesEnd, ClientCloses, clientIdle,
         DestSends, DestReads, DestFinishes, DestCloses, destIdle,
         MainStep, Connect, ConnectFails, Joined, CircuitReset,
         T1Step, T1Check, T1Recv, T1End, T1Reset, T1Write, T1WriteFails, T1Frame,
         T2Step, T2Start, T2Check, T2Recv, T2TimesOut, T2End, T2Send, T2SendFails, T2Frame,
         Shape, DestOk
<1>4. t1.at = "timedOut" => t1'.at = "timedOut"
  BY <1>1 DEF Next, ClientSends, ClientReads, ClientSeesEnd, ClientCloses, clientIdle,
         DestSends, DestReads, DestFinishes, DestCloses, destIdle,
         MainStep, Connect, ConnectFails, Joined, CircuitReset, Shape, Phases,
         T1Step, T1Check, T1Recv, T1End, T1Reset, T1Write, T1WriteFails,
         T2Step, T2Start, T2Check, T2Recv, T2TimesOut, T2End, T2Send, T2SendFails, T2Frame
<1>5. Unread => Unread'
  <2> SUFFICES ASSUME Unread, client'.state = "open" PROVE Unread'
    BY DEF Undisturbed
  <2>1. pc = "done" /\ up # <<>> /\ ~MainStep /\ ~T1Recv /\ ~ClientCloses
    <3>1. pc = "done" /\ (t1.at = "off" \/ Over(t1))
      BY DEF Unread, Shape, Phases
    <3>2. ~T1Recv /\ ~MainStep
      BY <3>1 DEF Over, T1Recv, MainStep, Connect, ConnectFails, Joined
    <3>3. ~ClientCloses
      BY DEF ClientCloses, Shape, ClientOk
    <3> QED
      BY <3>1, <3>2, <3>3 DEF Unread
  <2>2. pc' = "done" /\ (up' = up \/ \E f \in Frames : up' = Append(up, f))
    BY <2>1, SendableFrames
    DEF Next, ClientSends, ClientReads, ClientSeesEnd, clientIdle,
        DestSends, DestReads, DestFinishes, DestCloses, destIdle, CircuitReset,
        T1Step, T1Check, T1End, T1Reset, T1Write, T1WriteFails, T1Frame,
        T2Step, T2Start, T2Check, T2Recv, T2TimesOut, T2End, T2Send, T2SendFails, T2Frame
  <2>3. \A s \in Seq(Frames), f \in Frames : Append(s, f) # <<>>
    BY AppendProperties
  <2> QED
    BY <2>1, <2>2, <2>3 DEF Unread, Shape, UpOk
<1> QED
  BY <1>2, <1>3, <1>4, <1>5 DEF Undisturbed

(* Once heard, it is only read.                                             *)
LEMMA HeardStays ==
  ASSUME Shape, DownFlow, Next, Undisturbed', Heard
  PROVE  Heard'
<1>0. Undisturbed
  BY DisturbedStays
<1>1. CASE (\E f \in Sendable : ClientSends(f)) \/ ClientSeesEnd
  <2>1. client'.got = client.got /\ clientIdle /\ down' = down
    BY <1>1 DEF ClientSends, ClientSeesEnd, Shape, ClientOk
  <2> QED
    BY <2>1 DEF clientIdle, Heard, DownWay
<1>2. CASE ClientReads
  <2>1. /\ client.state = "open" /\ down # <<>> /\ down' = Tail(down)
        /\ client'.got = client.got \o Head(down) /\ clientIdle
        /\ down \in Seq(Seq(Nat)) /\ client.got \in Seq(Nat)
    BY <1>2 DEF ClientReads, Shape, ClientOk, DownOk
  <2>2. Head(down) \in Seq(Nat) /\ FlattenSeq(Tail(down)) \in Seq(Nat)
    BY <2>1, HeadTailProperties, FlattenType
  <2>3. FlattenSeq(down) = Head(down) \o FlattenSeq(Tail(down))
    BY <2>1, FlattenHeadTail
  <2>4. (client.got \o Head(down)) \o FlattenSeq(Tail(down))
          = client.got \o (Head(down) \o FlattenSeq(Tail(down)))
    BY <2>1, <2>2, Regroup
  <2>5. DownWay' = DownWay
    BY <2>1, <2>3, <2>4 DEF DownWay, clientIdle, Heard
  <2> QED
    BY <2>1, <2>5 DEF clientIdle, Heard
<1>3. CASE DestReads
  <2>1. dest'.sent = dest.sent /\ dest'.state = dest.state /\ destIdle /\ fromDest' = fromDest
    BY <1>3 DEF DestReads, Shape, DestOk
  <2> QED
    BY <2>1 DEF destIdle, Heard, DownWay
<1>4. CASE ConnectFails \/ Joined \/ Connect
  <2>1. client' = client /\ dest' = dest /\ t2'.chunk = t2.chunk /\ down' = down
        /\ fromDest' = fromDest
    BY <1>4 DEF ConnectFails, Joined, Connect, Heard, Shape, T2Ok
  <2> QED
    BY <2>1 DEF Heard, DownWay
<1>8. ~ CircuitReset
  BY <1>0 DEF CircuitReset, Undisturbed, Unread
<1>5. CASE T1Step
  <2>1. T1Frame
    BY <1>5 DEF T1Step, T1Check, T1Recv, T1End, T1Reset, T1Write, T1WriteFails
  <2> QED
    BY <2>1 DEF T1Frame, Heard, DownWay
<1>6. CASE T2Start \/ T2Check \/ T2TimesOut \/ T2End
  <2>1. t2'.chunk = t2.chunk /\ T2Frame /\ down' = down /\ fromDest' = fromDest
        /\ client' = client
    BY <1>6 DEF T2Start, T2Check, T2TimesOut, T2End, T2Leaves, Shape, T2Ok
  <2> QED
    BY <2>1 DEF T2Frame, Heard, DownWay
<1>7. ~ T2Recv /\ ~ T2Send /\ ~ T2SendFails /\ ~ ClientCloses /\ ~ DestSends
      /\ ~ DestFinishes /\ ~ DestCloses
  <2>1. t2.at # "send"
    BY DEF Heard, Shape, T2Ok
  <2>2. ~ ClientCloses /\ ~ DestCloses
    BY DEF Undisturbed, ClientCloses, DestCloses, Shape, ClientOk, DestOk
  <2> QED
    BY <2>1, <2>2 DEF Heard, T2Recv, T2Send, T2SendFails, DestSends, DestFinishes
<1> QED
  BY <1>1, <1>2, <1>3, <1>4, <1>5, <1>6, <1>7, <1>8 DEF Next, MainStep, T2Step

LEMMA HeardStep ==
  ASSUME Shape, DownFlow, HeardInv, Next
  PROVE  HeardInv'
<1> SUFFICES ASSUME Undisturbed' PROVE HeardInv'
  BY ConnectingStays DEF HeardInv
<1>0. pc' = "connect" => ~ stop' /\ dest'.state = "open"
  BY ConnectingStays
<1>1. Undisturbed
  BY DisturbedStays
<1>2. t1 \in [at : T1At, todo : Seq(Nat), timed : BOOLEAN] /\ t2 \in [at : T2At, chunk : Seq(Nat)]
      /\ (pc = "connect" => t1.at = "off" /\ t2.at = "off")
      /\ (pc = "done" => t2.at \in {"off", "left"})
  BY DEF Shape, T1Ok, T2Ok, Phases
<1>3. CASE stop \/ t2.at = "left"
  <2>1. Heard'
    BY <1>1, <1>3, HeardStays DEF HeardInv
  <2>2. pc' = "done" => t2'.at = "left"
    <3>1. CASE pc = "done"
      <4>1. t2.at = "left" \/ dest.state = "open"
        BY <1>1, <3>1 DEF HeardInv
      <4>2. t2.at = "left"
        BY <1>1, <1>3, <4>1 DEF HeardInv, Heard
      <4> QED
        BY <4>2 DEF Next, ClientSends, ClientReads, ClientSeesEnd, ClientCloses, clientIdle,
           DestSends, DestReads, DestFinishes, DestCloses, destIdle,
           MainStep, Connect, ConnectFails, Joined, CircuitReset,
           T1Step, T1Check, T1Recv, T1End, T1Reset, T1Write, T1WriteFails, T1Frame,
           T2Step, T2Start, T2Check, T2Recv, T2TimesOut, T2End, T2Send, T2SendFails,
           Shape, Phases
    <3>2. CASE pc # "done" /\ pc' = "done"
      <4>1. ConnectFails \/ Joined
        BY <3>2 DEF Next, ClientSends, ClientReads, ClientSeesEnd, ClientCloses, clientIdle,
           DestSends, DestReads, DestFinishes, DestCloses, destIdle, MainStep, Connect, CircuitReset,
           T1Step, T1Check, T1Recv, T1End, T1Reset, T1Write, T1WriteFails, T1Frame,
           T2Step, T2Start, T2Check, T2Recv, T2TimesOut, T2End, T2Send, T2SendFails, T2Frame
      <4>2. CASE Joined
        BY <1>2, <4>2 DEF Joined, Over, T2At
      <4>3. CASE ConnectFails
        BY <1>2, <1>3, <4>3 DEF HeardInv, ConnectFails
      <4> QED
        BY <4>1, <4>2, <4>3
    <3> QED
      BY <3>1, <3>2
  <2> QED
    BY <1>0, <2>1, <2>2 DEF HeardInv
<1>4. CASE ~ stop /\ t2.at # "left"
  <2>1. CASE T1Step
    <3>1. stop' = stop
      <4>1. ~ T1End
        BY <1>1 DEF T1End, Undisturbed
      <4>2. ~ T1WriteFails
        BY <1>1 DEF T1WriteFails, T1Leaves, Undisturbed
      <4> QED
        BY <1>4, <2>1, <4>1, <4>2 DEF T1Step, T1Check, T1Recv, T1Reset, T1Write
    <3>2. t2' = t2 /\ pc' = pc /\ dest' = dest
      BY <2>1 DEF T1Step, T1Check, T1Recv, T1End, T1Reset, T1Write, T1WriteFails, T1Frame
    <3> QED
      BY <1>0, <1>1, <1>4, <3>1, <3>2 DEF HeardInv
  <2>2. CASE T2End
    <3>1. dest.state = "finished" /\ fromDest = <<>> /\ t2.chunk = <<>> /\ pc = "relay"
      BY <1>1, <1>2, <2>2 DEF T2End, Undisturbed, Shape, DestOk, T2Ok, Phases
    <3>2. DownWay = dest.sent
      BY <1>1, <3>1 DEF DownFlow, Undisturbed
    <3>3. Heard
      BY <3>1, <3>2 DEF Heard
    <3>4. Heard' /\ t2'.at = "left"
      BY <2>2, <3>3, HeardStays DEF T2End, T2Leaves
    <3> QED
      BY <1>0, <3>4 DEF HeardInv
  <2>3. CASE T2Step /\ ~ T2End
    <3>1. ~ T2SendFails
      BY <1>1 DEF T2SendFails, Undisturbed
    <3>2. stop' = stop /\ t2'.at # "left" /\ T2Frame
      BY <1>2, <1>4, <2>3, <3>1 DEF T2Step, T2Start, T2Check, T2Recv, T2TimesOut, T2Send
    <3>3. pc' # "done"
      BY <1>2, <1>4, <2>3, <3>2
      DEF T2Step, T2Start, T2Check, T2Recv, T2TimesOut, T2End, T2Send, T2SendFails, T2Frame
    <3> QED
      BY <1>0, <1>4, <3>2, <3>3 DEF HeardInv
  <2>4. CASE MainStep
    <3>1. ~ Joined
      BY <1>2, <1>4 DEF Joined, Over, T2At
    <3>2. CASE Connect
      BY <1>0, <1>2, <1>4, <3>2 DEF Connect, HeardInv
    <3>3. CASE ConnectFails
      BY <1>0, <1>4, <3>3 DEF ConnectFails, HeardInv
    <3> QED
      BY <2>4, <3>1, <3>2, <3>3 DEF MainStep
  <2>5. CASE ~ T1Step /\ ~ T2Step /\ ~ MainStep
    <3>1. stop' = stop /\ t2' = t2 /\ pc' = pc
      BY <2>5 DEF Next, ClientSends, ClientReads, ClientSeesEnd, ClientCloses, clientIdle,
           DestSends, DestReads, DestFinishes, DestCloses, destIdle, CircuitReset
    <3>2. pc = "done" => dest.state = "open"
      BY <1>1, <1>4 DEF HeardInv
    <3>3. pc = "done" => dest'.state = "open"
      BY <2>5, <3>2 DEF Next, ClientSends, ClientReads, ClientSeesEnd, ClientCloses, clientIdle,
           DestSends, DestReads, DestFinishes, DestCloses, destIdle, CircuitReset,
           Shape, DestOk
    <3> QED
      BY <1>0, <1>4, <3>1, <3>3 DEF HeardInv
  <2> QED
    BY <2>1, <2>2, <2>3, <2>4, <2>5
<1> QED
  BY <1>3, <1>4

LEMMA HeardInvariant == Spec => []HeardInv
<1>1. Init => HeardInv
  BY DEF Init, HeardInv
<1>2. ASSUME StreamInv, HeardInv, [Next]_vars PROVE HeardInv'
  <2>1. CASE Next
    BY <1>2, <2>1, HeardStep DEF StreamInv
  <2>2. CASE UNCHANGED vars
    BY <1>2, <2>2 DEF vars, HeardInv, Undisturbed, Unread, Heard, DownWay
  <2> QED
    BY <1>2, <2>1, <2>2
<1>3. StreamInv /\ HeardInv /\ [Next]_vars => HeardInv'
  BY <1>2
<1> QED
  BY <1>1, <1>3, StreamInvariant, PTL DEF Spec

(* relay_stream ends only when it has passed on the whole answer of a       *)
(* destination that has finished, to a client that is still there, unless a *)
(* write to the destination has timed out; and the client gets it unless it *)
(* has written more than was read of it.                                    *)
THEOREM WholeAnswerHolds == Spec => []WholeAnswer
<1>1. ASSUME StreamInv, HeardInv PROVE WholeAnswer
  <2> SUFFICES ASSUME pc = "done", client.state = "open", dest.state = "finished",
                      t1.at # "timedOut", ~Unread
               PROVE  client.got \o FlattenSeq(down) = dest.sent
    BY DEF WholeAnswer
  <2>1. Undisturbed
    BY DEF Undisturbed
  <2>2. Heard
    BY <1>1, <2>1 DEF HeardInv
  <2>3. client.got \o FlattenSeq(down) \in Seq(Nat)
    BY <1>1, DownTypes DEF StreamInv
  <2>4. (client.got \o FlattenSeq(down)) \o <<>> = client.got \o FlattenSeq(down)
    BY <2>3, NothingToAdd
  <2> QED
    BY <2>2, <2>4 DEF Heard, DownWay
<1>2. StreamInv /\ HeardInv => WholeAnswer
  BY <1>1
<1> QED
  BY <1>2, StreamInvariant, HeardInvariant, PTL

-------------------------------------------------------------------------------
(* RelayStats.                                                              *)

(* Where the handler stands tells whether its connection is counted: from   *)
(* the accept on, until the handler has counted its end.  A connection that *)
(* is forwarded has no end to count: its handler has returned, and its      *)
(* threads count none.                                                      *)
Forwarded(c) == \E d \in Direction : thread[c][d] # "off"
Served(c) == at[c] \notin {"none", "done"} \/ Forwarded(c)
Ended(c) == at[c] = "done" /\ ~Forwarded(c)

OncePerConnection ==
  /\ \A c \in Conn : Forwarded(c) => at[c] = "done"
  /\ live = {c \in Conn : Served(c)}
  /\ \A c \in Conn : row[c].closed <=> Ended(c)

ClosedRows == {c \in Conn : row[c].closed}

Counted ==
  /\ IsFiniteSet(live) /\ IsFiniteSet(ClosedRows)
  /\ active = Cardinality(live)
  /\ total = Cardinality(live) + Cardinality(ClosedRows)

StatsInv == StatsTypeOK /\ OncePerConnection /\ Counted

-------------------------------------------------------------------------------
(* StatsTypeOK.                                                                  *)

LEMMA StatsTypeInit == StatsInit => StatsTypeOK
BY StatsAssumption DEF StatsInit, StatsTypeOK

LEMMA TypeCounts ==
  ASSUME StatsTypeOK, NEW c \in Conn
  PROVE  /\ OpenConnection(c) \/ CloseConnection(c) \/ RecordIn(c)
              => /\ live' \subseteq Conn
                 /\ row' \in [Conn -> [in : Nat, out : Nat, closed : BOOLEAN]]
                 /\ total' \in Nat /\ active' \in Nat
                 /\ bytesIn' \in Nat /\ bytesOut' \in Nat
         /\ \A n \in Nat : RecordOut(c, n)
              => /\ live' \subseteq Conn
                 /\ row' \in [Conn -> [in : Nat, out : Nat, closed : BOOLEAN]]
                 /\ total' \in Nat /\ active' \in Nat
                 /\ bytesIn' \in Nat /\ bytesOut' \in Nat
<1>1. row[c] \in [in : Nat, out : Nat, closed : BOOLEAN]
  BY DEF StatsTypeOK
<1>2. ASSUME OpenConnection(c)
      PROVE  /\ live' \subseteq Conn
             /\ row' \in [Conn -> [in : Nat, out : Nat, closed : BOOLEAN]]
             /\ total' \in Nat /\ active' \in Nat /\ bytesIn' \in Nat /\ bytesOut' \in Nat
  BY <1>2 DEF OpenConnection, StatsTypeOK
<1>3. ASSUME CloseConnection(c)
      PROVE  /\ live' \subseteq Conn
             /\ row' \in [Conn -> [in : Nat, out : Nat, closed : BOOLEAN]]
             /\ total' \in Nat /\ active' \in Nat /\ bytesIn' \in Nat /\ bytesOut' \in Nat
  <2>1. (row[c].closed \/ c \in live) \in BOOLEAN
    OBVIOUS
  <2>2. row' \in [Conn -> [in : Nat, out : Nat, closed : BOOLEAN]]
    BY <1>1, <1>3, <2>1 DEF CloseConnection, StatsTypeOK
  <2> QED
    BY <1>3, <2>2 DEF CloseConnection, StatsTypeOK
<1>4. ASSUME RecordIn(c)
      PROVE  /\ live' \subseteq Conn
             /\ row' \in [Conn -> [in : Nat, out : Nat, closed : BOOLEAN]]
             /\ total' \in Nat /\ active' \in Nat /\ bytesIn' \in Nat /\ bytesOut' \in Nat
  <2>1. (IF c \in live THEN row[c].in + 1 ELSE row[c].in) \in Nat
    BY <1>1
  <2>2. row' \in [Conn -> [in : Nat, out : Nat, closed : BOOLEAN]]
    BY <1>1, <1>4, <2>1 DEF RecordIn, StatsTypeOK
  <2> QED
    BY <1>4, <2>2 DEF RecordIn, StatsTypeOK
<1>5. ASSUME NEW n \in Nat, RecordOut(c, n)
      PROVE  /\ live' \subseteq Conn
             /\ row' \in [Conn -> [in : Nat, out : Nat, closed : BOOLEAN]]
             /\ total' \in Nat /\ active' \in Nat /\ bytesIn' \in Nat /\ bytesOut' \in Nat
  <2>1. (IF c \in live THEN row[c].out + n ELSE row[c].out) \in Nat
    BY <1>1
  <2>2. row' \in [Conn -> [in : Nat, out : Nat, closed : BOOLEAN]]
    BY <1>1, <1>5, <2>1 DEF RecordOut, StatsTypeOK
  <2> QED
    BY <1>5, <2>2 DEF RecordOut, StatsTypeOK
<1> QED
  BY <1>2, <1>3, <1>4, <1>5

LEMMA TypeHandler ==
  ASSUME StatsTypeOK, NEW c \in Conn,
         \/ Accept(c) \/ First(c) \/ Reply(c) \/ Layer(c) \/ ConnectFromLayer(c)
         \/ ConnectFromLayerFails(c) \/ StartForwarding(c)
         \/ GivesUp(c) \/ HelloFails(c) \/ CloseSocket(c) \/ Count(c)
  PROVE  StatsTypeOK'
<1> USE DEF StatsTypeOK, Goes, socketVars
<1>1. CASE Accept(c)
  BY <1>1, TypeCounts DEF Accept
<1>2. CASE First(c)
  BY <1>2, TypeCounts DEF First
<1>3. CASE Reply(c)
  BY <1>3, TypeCounts DEF Reply
<1>4. CASE Layer(c)
  BY <1>4, TypeCounts DEF Layer
<1>5. CASE ConnectFromLayer(c)
  BY <1>5 DEF ConnectFromLayer, countVars
<1>6. CASE ConnectFromLayerFails(c)
  BY <1>6, TypeCounts DEF ConnectFromLayerFails
<1>7. CASE StartForwarding(c)
  <2>1. PICK n \in Nat : RecordOut(c, n)
    BY <1>7 DEF StartForwarding
  <2>2. /\ live' \subseteq Conn
        /\ row' \in [Conn -> [in : Nat, out : Nat, closed : BOOLEAN]]
        /\ total' \in Nat /\ active' \in Nat /\ bytesIn' \in Nat /\ bytesOut' \in Nat
    BY <2>1, TypeCounts
  <2> QED
    BY <1>7, <2>2 DEF StartForwarding
<1>8. CASE GivesUp(c)
  BY <1>8 DEF GivesUp, countVars
<1>9. CASE HelloFails(c)
  <2>1. PICK n \in Nat : RecordOut(c, n)
    BY <1>9 DEF HelloFails
  <2>2. /\ live' \subseteq Conn
        /\ row' \in [Conn -> [in : Nat, out : Nat, closed : BOOLEAN]]
        /\ total' \in Nat /\ active' \in Nat /\ bytesIn' \in Nat /\ bytesOut' \in Nat
    BY <2>1, TypeCounts
  <2> QED
    BY <1>9, <2>2 DEF HelloFails
<1>10. CASE CloseSocket(c)
  BY <1>10 DEF CloseSocket, countVars
<1>11. CASE Count(c)
  BY <1>11, TypeCounts DEF Count
<1> QED
  BY <1>1, <1>2, <1>3, <1>4, <1>5, <1>6, <1>7, <1>8, <1>9, <1>10, <1>11

LEMMA TypeThread ==
  ASSUME StatsTypeOK, NEW c \in Conn, NEW d \in Direction,
         \/ CopyRecv(c, d) \/ CopySend(c, d) \/ CopyTimesOut(c, d)
         \/ CopyEnds(c, d) \/ CopyRaises(c, d)
  PROVE  StatsTypeOK'
<1> USE DEF StatsTypeOK, ThreadGoes
<1>1. CASE CopyRecv(c, d)
  BY <1>1, TypeCounts, StatsAssumption DEF CopyRecv
<1>2. CASE CopySend(c, d)
  BY <1>2, TypeCounts DEF CopySend
<1>3. CASE CopyTimesOut(c, d)
  BY <1>3 DEF CopyTimesOut, countVars
<1>4. CASE CopyEnds(c, d)
  BY <1>4 DEF CopyEnds, countVars
<1>5. CASE CopyRaises(c, d)
  BY <1>5 DEF CopyRaises, countVars
<1> QED
  BY <1>1, <1>2, <1>3, <1>4, <1>5

LEMMA StatsTypeStep ==
  ASSUME StatsTypeOK, [StatsNext]_statsVars
  PROVE  StatsTypeOK'
<1>1. CASE UNCHANGED statsVars
  BY <1>1 DEF statsVars, socketVars, countVars, StatsTypeOK
<1>2. CASE StatsNext
  BY <1>2, TypeHandler, TypeThread DEF StatsNext
<1> QED
  BY <1>1, <1>2

-------------------------------------------------------------------------------
(* CountIsLive.                                                             *)

(* No step but these moves the handler, the threads, the table or the rows. *)
LEMMA Quiet ==
  ASSUME OncePerConnection, Counted, StatsTypeOK,
         live' = live, active' = active, total' = total,
         \A c \in Conn : row'[c].closed = row[c].closed,
         \A c \in Conn : /\ at'[c] \in {"none", "done"} <=> at[c] \in {"none", "done"}
                         /\ at[c] \in {"none", "done"} => at'[c] = at[c],
         \A c \in Conn, d \in Direction : thread'[c][d] # "off" <=> thread[c][d] # "off"
  PROVE  OncePerConnection' /\ Counted'
<1>1. \A c \in Conn : Forwarded(c)' <=> Forwarded(c)
  BY DEF Forwarded
<1>2. \A c \in Conn : /\ at'[c] = "done" <=> at[c] = "done"
                      /\ at'[c] \notin {"none", "done"} <=> at[c] \notin {"none", "done"}
  OBVIOUS
<1>3. \A c \in Conn : (Served(c)' <=> Served(c)) /\ (Ended(c)' <=> Ended(c))
  BY <1>1, <1>2 DEF Served, Ended
<1>4. OncePerConnection'
  BY <1>1, <1>2, <1>3 DEF OncePerConnection
<1>5. ClosedRows' = ClosedRows
  BY DEF ClosedRows
<1> QED
  BY <1>4, <1>5 DEF Counted

LEMMA OpensOnce ==
  ASSUME StatsTypeOK, OncePerConnection, Counted, NEW c \in Conn, Accept(c)
  PROVE  OncePerConnection' /\ Counted'
<1>1. /\ at[c] = "none" /\ at' = [at EXCEPT ![c] = "first"] /\ thread' = thread
      /\ live' = live \cup {c} /\ row' = row
      /\ total' = total + 1 /\ active' = active + 1
  BY DEF Accept, Goes, OpenConnection
<1>2. ~Forwarded(c) /\ c \notin live
  BY <1>1 DEF OncePerConnection, Served
<1>3. \A d \in Conn : /\ Forwarded(d)' <=> Forwarded(d)
                      /\ at'[d] = IF d = c THEN "first" ELSE at[d]
  BY <1>1 DEF Forwarded, StatsTypeOK
<1>4. \A d \in Conn : /\ Served(d)' <=> (Served(d) \/ d = c)
                      /\ Ended(d)' <=> Ended(d)
  BY <1>1, <1>3 DEF Served, Ended
<1>5. OncePerConnection'
  BY <1>1, <1>2, <1>3, <1>4 DEF OncePerConnection
<1>6. IsFiniteSet(live') /\ Cardinality(live') = Cardinality(live) + 1
  BY <1>1, <1>2, FS_AddElement DEF Counted
<1>7. ClosedRows' = ClosedRows
  BY <1>1 DEF ClosedRows
<1>8. Cardinality(live) \in Nat /\ Cardinality(ClosedRows) \in Nat
  BY FS_CardinalityType DEF Counted
<1>9. Counted'
  BY <1>1, <1>6, <1>7, <1>8 DEF Counted
<1> QED
  BY <1>5, <1>9

(* Whoever counts the end of a connection is its handler, which stands      *)
(* where it is served, and ends with it.                                    *)
LEMMA ClosesOnce ==
  ASSUME StatsTypeOK, OncePerConnection, Counted, NEW c \in Conn,
         at[c] \notin {"none", "done"}, at' = [at EXCEPT ![c] = "done"],
         thread' = thread, CloseConnection(c)
  PROVE  OncePerConnection' /\ Counted'
<1>1. /\ live' = live \ {c} /\ row' = [row EXCEPT ![c].closed = @ \/ c \in live]
      /\ active' = IF active > 0 THEN active - 1 ELSE 0
      /\ total' = total
  BY DEF CloseConnection
<1>2. ~Forwarded(c) /\ c \in live /\ ~row[c].closed
  BY DEF OncePerConnection, Served, Ended
<1>3. \A d \in Conn : /\ Forwarded(d)' <=> Forwarded(d)
                      /\ at'[d] = IF d = c THEN "done" ELSE at[d]
                      /\ row'[d].closed <=> (row[d].closed \/ d = c)
  <2>1. \A d \in Conn : row[d] \in [in : Nat, out : Nat, closed : BOOLEAN]
    BY DEF StatsTypeOK
  <2>2. \A d \in Conn : d # c => row'[d] = row[d]
    BY <1>1 DEF StatsTypeOK
  <2>3. row'[c].closed
    BY <1>1, <1>2, <2>1 DEF StatsTypeOK
  <2> QED
    BY <2>2, <2>3 DEF Forwarded, StatsTypeOK
<1>4. \A d \in Conn : /\ Served(d)' <=> (Served(d) /\ d # c)
                      /\ Ended(d)' <=> (Ended(d) \/ d = c)
  BY <1>2, <1>3 DEF Served, Ended
<1>5. OncePerConnection'
  BY <1>1, <1>2, <1>3, <1>4 DEF OncePerConnection
<1>6. ClosedRows' = ClosedRows \cup {c} /\ c \notin ClosedRows
  BY <1>2, <1>3 DEF ClosedRows
<1>7. /\ IsFiniteSet(live') /\ Cardinality(live') = Cardinality(live) - 1
      /\ IsFiniteSet(ClosedRows') /\ Cardinality(ClosedRows') = Cardinality(ClosedRows) + 1
  BY <1>1, <1>2, <1>6, FS_RemoveElement, FS_AddElement DEF Counted
<1>8. /\ Cardinality(live) \in Nat /\ Cardinality(ClosedRows) \in Nat
      /\ Cardinality(live') \in Nat
  BY <1>7, FS_CardinalityType DEF Counted
<1>9. Counted'
  BY <1>1, <1>7, <1>8 DEF Counted
<1> QED
  BY <1>5, <1>9

(* Bytes are counted for a row without ending it.                           *)
LEMMA BytesKeepRows ==
  ASSUME StatsTypeOK, NEW c \in Conn, RecordIn(c) \/ \E n \in Nat : RecordOut(c, n)
  PROVE  /\ live' = live /\ active' = active /\ total' = total
         /\ \A d \in Conn : row'[d].closed = row[d].closed
<1>1. \A d \in Conn : row[d] \in [in : Nat, out : Nat, closed : BOOLEAN]
  BY DEF StatsTypeOK
<1>2. CASE RecordIn(c)
  <2>1. row' = [row EXCEPT ![c].in = IF c \in live THEN @ + 1 ELSE @]
    BY <1>2 DEF RecordIn
  <2>2. \A d \in Conn : row'[d].closed = row[d].closed
    BY <1>1, <2>1 DEF StatsTypeOK
  <2> QED
    BY <1>2, <2>2 DEF RecordIn
<1>3. CASE \E n \in Nat : RecordOut(c, n)
  <2> PICK n \in Nat : RecordOut(c, n)
    BY <1>3
  <2>1. row' = [row EXCEPT ![c].out = IF c \in live THEN @ + n ELSE @]
    BY DEF RecordOut
  <2>2. \A d \in Conn : row'[d].closed = row[d].closed
    BY <1>1, <2>1 DEF StatsTypeOK
  <2> QED
    BY <2>2 DEF RecordOut
<1> QED
  BY <1>2, <1>3

LEMMA HandlerCounts ==
  ASSUME StatsTypeOK, OncePerConnection, Counted, NEW c \in Conn,
         \/ Accept(c) \/ First(c) \/ Reply(c) \/ Layer(c) \/ ConnectFromLayer(c)
         \/ ConnectFromLayerFails(c) \/ StartForwarding(c)
         \/ GivesUp(c) \/ HelloFails(c) \/ CloseSocket(c) \/ Count(c)
  PROVE  OncePerConnection' /\ Counted'
<1>1. CASE Accept(c)
  BY <1>1, OpensOnce
<1>2. CASE ConnectFromLayerFails(c) \/ Count(c)
  BY <1>2, ClosesOnce DEF ConnectFromLayerFails, Count, Goes, socketVars, StatsTypeOK
<1>3. CASE First(c) \/ Reply(c) \/ Layer(c) \/ HelloFails(c)
  <2>1. RecordIn(c) \/ \E n \in Nat : RecordOut(c, n)
    BY <1>3 DEF First, Reply, Layer, HelloFails
  <2>2. thread' = thread
    BY <1>3 DEF First, Reply, Layer, HelloFails, socketVars
  <2>3. /\ at[c] \notin {"none", "done"} /\ at'[c] \notin {"none", "done"}
        /\ \A d \in Conn \ {c} : at'[d] = at[d]
    BY <1>3 DEF First, Reply, Layer, HelloFails, Goes, StatsTypeOK
  <2>4. \A d \in Conn : /\ at'[d] \in {"none", "done"} <=> at[d] \in {"none", "done"}
                        /\ at[d] \in {"none", "done"} => at'[d] = at[d]
    BY <2>3
  <2> QED
    BY <2>1, <2>2, <2>4, BytesKeepRows, Quiet
<1>4. CASE ConnectFromLayer(c) \/ GivesUp(c) \/ CloseSocket(c)
  <2>1. /\ live' = live /\ active' = active /\ total' = total /\ row' = row
        /\ thread' = thread
    BY <1>4 DEF ConnectFromLayer, GivesUp, CloseSocket, countVars, socketVars
  <2>2. /\ at[c] \notin {"none", "done"} /\ at'[c] \notin {"none", "done"}
        /\ \A d \in Conn \ {c} : at'[d] = at[d]
    BY <1>4 DEF ConnectFromLayer, GivesUp, CloseSocket, Goes, StatsTypeOK
  <2>3. \A d \in Conn : /\ at'[d] \in {"none", "done"} <=> at[d] \in {"none", "done"}
                        /\ at[d] \in {"none", "done"} => at'[d] = at[d]
    BY <2>2
  <2> QED
    BY <2>1, <2>3, Quiet
<1>5. CASE StartForwarding(c)
  <2>1. \E n \in Nat : RecordOut(c, n)
    BY <1>5 DEF StartForwarding
  <2>2. /\ live' = live /\ active' = active /\ total' = total
        /\ \A d \in Conn : row'[d].closed = row[d].closed
    BY <2>1, BytesKeepRows
  <2>3. /\ at[c] = "hello" /\ at' = [at EXCEPT ![c] = "done"]
        /\ thread' = [thread EXCEPT ![c] = [d \in Direction |-> "recv"]]
    BY <1>5 DEF StartForwarding, Goes
  <2>4. Forwarded(c)' /\ ~row[c].closed /\ Served(c)
    BY <2>3 DEF Forwarded, Direction, StatsTypeOK, OncePerConnection, Ended, Served
  <2>5. \A d \in Conn : d # c => /\ Forwarded(d)' <=> Forwarded(d)
                                 /\ at'[d] = at[d]
    BY <2>3 DEF Forwarded, StatsTypeOK
  <2>6. at'[c] = "done"
    BY <2>3 DEF StatsTypeOK
  <2>7. \A d \in Conn : /\ Served(d)' <=> Served(d)
                        /\ Ended(d)' <=> Ended(d)
    BY <2>3, <2>4, <2>5, <2>6 DEF Served, Ended
  <2>8. OncePerConnection'
    BY <2>2, <2>4, <2>5, <2>6, <2>7 DEF OncePerConnection
  <2>9. ClosedRows' = ClosedRows
    BY <2>2 DEF ClosedRows
  <2> QED
    BY <2>2, <2>8, <2>9 DEF Counted
<1> QED
  BY <1>1, <1>2, <1>3, <1>4, <1>5

LEMMA ThreadCounts ==
  ASSUME StatsTypeOK, OncePerConnection, Counted, NEW c \in Conn, NEW d \in Direction,
         \/ CopyRecv(c, d) \/ CopySend(c, d) \/ CopyTimesOut(c, d)
         \/ CopyEnds(c, d) \/ CopyRaises(c, d)
  PROVE  OncePerConnection' /\ Counted'
<1>1. /\ live' = live /\ active' = active /\ total' = total
      /\ \A b \in Conn : row'[b].closed = row[b].closed
  <2>1. CASE CopyRecv(c, d) \/ CopySend(c, d)
    <3>1. RecordIn(c) \/ \E n \in Nat : RecordOut(c, n)
      BY <2>1 DEF CopyRecv, CopySend
    <3> QED
      BY <3>1, BytesKeepRows
  <2>2. CASE CopyTimesOut(c, d) \/ CopyEnds(c, d) \/ CopyRaises(c, d)
    BY <2>2 DEF CopyTimesOut, CopyEnds, CopyRaises, countVars
  <2> QED
    BY <2>1, <2>2
<1>2. at' = at
  BY DEF CopyRecv, CopySend, CopyTimesOut, CopyEnds, CopyRaises
<1>3. /\ thread[c][d] # "off"
      /\ \E to \in {"recv", "send", "done"} : thread' = [thread EXCEPT ![c][d] = to]
  BY DEF CopyRecv, CopySend, CopyTimesOut, CopyEnds, CopyRaises, ThreadGoes
<1>4. \A b \in Conn, e \in Direction : thread'[b][e] # "off" <=> thread[b][e] # "off"
  BY <1>3 DEF StatsTypeOK
<1> QED
  BY <1>1, <1>2, <1>4, Quiet

LEMMA StatsStart == StatsInit => StatsInv
<1> SUFFICES ASSUME StatsInit PROVE StatsInv
  OBVIOUS
<1>1. \A c \in Conn : ~Forwarded(c) /\ ~Served(c) /\ ~Ended(c) /\ ~row[c].closed
  BY DEF StatsInit, Forwarded, Served, Ended
<1>2. OncePerConnection
  BY <1>1 DEF StatsInit, OncePerConnection
<1>3. ClosedRows = {}
  BY <1>1 DEF ClosedRows
<1>4. Counted
  BY <1>3, FS_EmptySet DEF StatsInit, Counted
<1> QED
  BY <1>2, <1>4, StatsTypeInit DEF StatsInv

LEMMA StatsStep ==
  ASSUME StatsInv, [StatsNext]_statsVars
  PROVE  StatsInv'
<1>1. CASE UNCHANGED statsVars
  BY <1>1, StatsTypeStep, Quiet DEF statsVars, socketVars, countVars, StatsInv
<1>2. CASE StatsNext
  BY <1>2, StatsTypeStep, HandlerCounts, ThreadCounts DEF StatsNext, StatsInv
<1> QED
  BY <1>1, <1>2

(* However the handlers and threads of the connections interleave and       *)
(* whatever ends them, the counters, the table of connections and the rows  *)
(* that the dashboard shows agree, for any number of connections.           *)
THEOREM CountIsLiveHolds == StatsSpec => []CountIsLive
<1>1. StatsInit => StatsInv
  BY StatsStart
<1>2. StatsInv /\ [StatsNext]_statsVars => StatsInv'
  BY StatsStep
<1>3. StatsInv => CountIsLive
  <2> SUFFICES ASSUME StatsInv PROVE CountIsLive
    OBVIOUS
  <2>1. \A c \in live : ~row[c].closed
    BY DEF StatsInv, OncePerConnection, Served, Ended
  <2> QED
    BY <2>1 DEF CountIsLive, StatsInv, Counted, ClosedRows
<1> QED
  BY <1>1, <1>2, <1>3, PTL DEF StatsSpec

-------------------------------------------------------------------------------
(* BytesAddUp.                                                              *)

In == [c \in Conn |-> row[c].in]
Out == [c \in Conn |-> row[c].out]
Added == bytesIn = Total(In) /\ bytesOut = Total(Out)
BytesInv == StatsInv /\ Added

(* Whoever counts bytes serves the connection, so that its row is there.    *)
LEMMA InAdds ==
  ASSUME StatsTypeOK, StatsTypeOK', Added, NEW c \in Conn, c \in live, RecordIn(c)
  PROVE  Added'
<1>1. \A d \in Conn : row[d] \in [in : Nat, out : Nat, closed : BOOLEAN]
  BY DEF StatsTypeOK
<1>2. bytesIn' = bytesIn + 1 /\ bytesOut' = bytesOut /\ row' = [row EXCEPT ![c].in = @ + 1]
  BY DEF RecordIn
<1>3. /\ row'[c].in = row[c].in + 1 /\ \A d \in Conn \ {c} : row'[d].in = row[d].in
      /\ \A d \in Conn : row'[d].out = row[d].out
  BY <1>1, <1>2 DEF StatsTypeOK
<1>4. /\ In'[c] = In[c] + 1 /\ \A d \in Conn \ {c} : In'[d] = In[d]
      /\ Out' = Out
  BY <1>3 DEF In, Out
<1>5. In \in [Conn -> Int] /\ In' \in [Conn -> Int] /\ 1 \in Int
  BY DEF StatsTypeOK, In
<1>6. Total(In') = Total(In) + 1
  BY <1>4, <1>5, TotalGrows, FiniteAssumption
<1> QED
  BY <1>2, <1>4, <1>6 DEF Added

LEMMA OutAdds ==
  ASSUME StatsTypeOK, StatsTypeOK', Added, NEW c \in Conn, c \in live, NEW n \in Nat, RecordOut(c, n)
  PROVE  Added'
<1>1. \A d \in Conn : row[d] \in [in : Nat, out : Nat, closed : BOOLEAN]
  BY DEF StatsTypeOK
<1>2. bytesOut' = bytesOut + n /\ bytesIn' = bytesIn /\ row' = [row EXCEPT ![c].out = @ + n]
  BY DEF RecordOut
<1>3. /\ row'[c].out = row[c].out + n /\ \A d \in Conn \ {c} : row'[d].out = row[d].out
      /\ \A d \in Conn : row'[d].in = row[d].in
  BY <1>1, <1>2 DEF StatsTypeOK
<1>4. /\ Out'[c] = Out[c] + n /\ \A d \in Conn \ {c} : Out'[d] = Out[d]
      /\ In' = In
  BY <1>3 DEF In, Out
<1>5. Out \in [Conn -> Int] /\ Out' \in [Conn -> Int] /\ n \in Int
  BY DEF StatsTypeOK, Out
<1>6. Total(Out') = Total(Out) + n
  BY <1>4, <1>5, TotalGrows, FiniteAssumption
<1> QED
  BY <1>2, <1>4, <1>6 DEF Added

LEMMA NothingAdded ==
  ASSUME StatsTypeOK, Added, bytesIn' = bytesIn, bytesOut' = bytesOut,
         \/ row' = row
         \/ \E c \in Conn : row' = [row EXCEPT ![c].closed = @ \/ c \in live]
  PROVE  Added'
<1>1. \A d \in Conn : row[d] \in [in : Nat, out : Nat, closed : BOOLEAN]
  BY DEF StatsTypeOK
<1>2. \A d \in Conn : row'[d].in = row[d].in /\ row'[d].out = row[d].out
  <2>1. CASE row' = row
    BY <2>1
  <2>2. CASE \E c \in Conn : row' = [row EXCEPT ![c].closed = @ \/ c \in live]
    BY <1>1, <2>2 DEF StatsTypeOK
  <2> QED
    BY <2>1, <2>2
<1>3. In' = In /\ Out' = Out
  BY <1>2 DEF In, Out
<1> QED
  BY <1>3 DEF Added

LEMMA HandlerAdds ==
  ASSUME StatsInv, StatsTypeOK', Added, NEW c \in Conn,
         \/ Accept(c) \/ First(c) \/ Reply(c) \/ Layer(c) \/ ConnectFromLayer(c)
         \/ ConnectFromLayerFails(c) \/ StartForwarding(c)
         \/ GivesUp(c) \/ HelloFails(c) \/ CloseSocket(c) \/ Count(c)
  PROVE  Added'
<1>1. StatsTypeOK /\ OncePerConnection
  BY DEF StatsInv
<1>2. CASE First(c) \/ Reply(c) \/ Layer(c) \/ HelloFails(c) \/ StartForwarding(c)
  <2>1. at[c] \in {"first", "reply", "layer", "hello"}
    BY <1>2 DEF First, Reply, Layer, HelloFails, StartForwarding, Goes
  <2>2. c \in live
    BY <1>1, <2>1 DEF OncePerConnection, Served
  <2>3. RecordIn(c) \/ \E n \in Nat : RecordOut(c, n)
    BY <1>2 DEF First, Reply, Layer, HelloFails, StartForwarding
  <2> QED
    BY <1>1, <2>2, <2>3, InAdds, OutAdds
<1>3. CASE Accept(c) \/ ConnectFromLayer(c) \/ GivesUp(c) \/ CloseSocket(c)
  <2>1. bytesIn' = bytesIn /\ bytesOut' = bytesOut /\ row' = row
    BY <1>3 DEF Accept, OpenConnection, ConnectFromLayer, GivesUp, CloseSocket, countVars
  <2> QED
    BY <1>1, <2>1, NothingAdded
<1>4. CASE ConnectFromLayerFails(c) \/ Count(c)
  <2>1. CloseConnection(c)
    BY <1>4 DEF ConnectFromLayerFails, Count
  <2> QED
    BY <1>1, <2>1, NothingAdded DEF CloseConnection
<1> QED
  BY <1>2, <1>3, <1>4

LEMMA ThreadAdds ==
  ASSUME StatsInv, StatsTypeOK', Added, NEW c \in Conn, NEW d \in Direction,
         \/ CopyRecv(c, d) \/ CopySend(c, d) \/ CopyTimesOut(c, d)
         \/ CopyEnds(c, d) \/ CopyRaises(c, d)
  PROVE  Added'
<1>1. StatsTypeOK /\ OncePerConnection
  BY DEF StatsInv
<1>2. CASE CopyRecv(c, d) \/ CopySend(c, d)
  <2>1. thread[c][d] # "off"
    BY <1>2 DEF CopyRecv, CopySend, ThreadGoes
  <2>2. c \in live
    BY <1>1, <2>1 DEF OncePerConnection, Served, Forwarded
  <2>3. RecordIn(c) \/ \E n \in Nat : RecordOut(c, n)
    BY <1>2 DEF CopyRecv, CopySend
  <2> QED
    BY <1>1, <2>2, <2>3, InAdds, OutAdds
<1>3. CASE CopyTimesOut(c, d) \/ CopyEnds(c, d) \/ CopyRaises(c, d)
  <2>1. bytesIn' = bytesIn /\ bytesOut' = bytesOut /\ row' = row
    BY <1>3 DEF CopyTimesOut, CopyEnds, CopyRaises, countVars
  <2> QED
    BY <1>1, <2>1, NothingAdded
<1> QED
  BY <1>2, <1>3

(* However the threads of a connection and its handler end, nothing is      *)
(* counted for it once its row is closed: the bytes of the rows add up to   *)
(* the totals, for any finite set of connections.                           *)
THEOREM BytesAddUpHolds == StatsSpec => []BytesAddUp
<1>1. StatsInit => BytesInv
  <2> SUFFICES ASSUME StatsInit PROVE BytesInv
    OBVIOUS
  <2>1. In = [c \in Conn |-> 0] /\ Out = [c \in Conn |-> 0]
    BY DEF StatsInit, In, Out
  <2>2. Total([c \in Conn |-> 0]) = 0
    BY TotalOfZeros, FiniteAssumption
  <2>3. Added
    BY <2>1, <2>2 DEF StatsInit, Added
  <2> QED
    BY <2>3, StatsStart DEF BytesInv
<1>2. BytesInv /\ [StatsNext]_statsVars => BytesInv'
  <2> SUFFICES ASSUME BytesInv, [StatsNext]_statsVars PROVE BytesInv'
    OBVIOUS
  <2>1. StatsInv' /\ StatsTypeOK /\ StatsTypeOK' /\ StatsInv /\ Added
    BY StatsStep DEF BytesInv, StatsInv
  <2>2. CASE UNCHANGED statsVars
    BY <2>1, <2>2, NothingAdded DEF statsVars, countVars, BytesInv
  <2>3. CASE StatsNext
    BY <2>1, <2>3, HandlerAdds, ThreadAdds DEF StatsNext, BytesInv
  <2> QED
    BY <2>2, <2>3
<1>3. BytesInv => BytesAddUp
  BY DEF BytesInv, Added, BytesAddUp, Total, In, Out
<1> QED
  BY <1>1, <1>2, <1>3, PTL DEF StatsSpec

(***************************************************************************)
(* CircuitWriters: frames stay whole, and those of a thread in order.      *)
(***************************************************************************)

PieceT == [by : Writer, frame : 1 .. Calls, at : 1 .. Size]

Kinds ==
  /\ todo \in [Writer -> Seq(PieceT)] /\ sent \in [Writer -> 0 .. Calls]
  /\ lock \in Writer \cup {Nobody}
  /\ pipe \in Seq(PieceT) /\ part \in Seq(PieceT) /\ got \in Seq(Seq(PieceT))
  /\ locked \in BOOLEAN /\ waited \in BOOLEAN
  /\ need \in Lengths \cup {Size} /\ Len(pipe) <= Room /\ Len(part) < need
  /\ \A k \in DOMAIN got : Len(got[k]) \in Lengths \cup {Size}

(* A thread has the end of its frame left to write, all of it if nobody     *)
(* waited.  With the lock only the thread that holds it has any.            *)
Holding ==
  /\ \A w \in Writer : todo[w] # <<>> =>
       /\ sent[w] > 0 /\ Len(todo[w]) <= Size
       /\ \A i \in 1 .. Len(todo[w]) :
            todo[w][i] = Piece(w, sent[w], Size - Len(todo[w]) + i)
       /\ ~locked /\ ~waited => Len(todo[w]) = Size
  /\ locked => \A w \in Writer : todo[w] # <<>> <=> lock = w

(* p and then q are whole frames, one after the other; p is shorter than    *)
(* one.                                                                     *)
Flows(p, q) ==
  /\ q = <<>> => p = <<>>
  /\ q # <<>> =>
       /\ q[Len(q)].at = Size
       /\ \E w \in Writer, n \in 1 .. Calls :
            /\ \A i \in 1 .. Len(p) : p[i] = Piece(w, n, i)
            /\ q[1] = Piece(w, n, Len(p) + 1)
  /\ \A i \in 1 .. Len(q) - 1 :
       IF q[i].at < Size THEN q[i + 1] = Piece(q[i].by, q[i].frame, q[i].at + 1)
       ELSE q[i + 1].at = 1

(* What the thread that holds the lock has still to write comes next.       *)
Rest == IF locked /\ lock # Nobody THEN todo[lock] ELSE <<>>

Received == \A k \in DOMAIN got : \E w \in Writer, n \in 1 .. Calls : got[k] = FrameOf(w, n)

WholeInv ==
  /\ Kinds /\ Holding
  /\ locked \/ ~waited => Flows(part, pipe \o Rest) /\ Received /\ need = Size

-------------------------------------------------------------------------------
(* Calls and pieces.                                                       *)

LEMMA FrameIs ==
  ASSUME NEW w \in Writer, NEW n \in 1 .. Calls
  PROVE  /\ FrameOf(w, n) \in Seq(PieceT) /\ Len(FrameOf(w, n)) = Size
         /\ FrameOf(w, n) # <<>>
         /\ \A i \in 1 .. Size : FrameOf(w, n)[i] = Piece(w, n, i)
<1>1. \A i \in 1 .. Size : Piece(w, n, i) \in PieceT
  BY DEF Piece, PieceT
<1>2. Size \in Nat /\ Size > 0
  BY WritersAssumption
<1>3. FrameOf(w, n) \in Seq(PieceT) /\ Len(FrameOf(w, n)) = Size
  BY <1>1, <1>2 DEF FrameOf
<1> QED
  BY <1>2, <1>3 DEF FrameOf

LEMMA FrameFlows ==
  ASSUME NEW p \in Seq(PieceT), NEW q \in Seq(PieceT), Flows(p, q),
         NEW w \in Writer, NEW n \in 1 .. Calls
  PROVE  Flows(p, q \o FrameOf(w, n))
<1>1. PICK f \in Seq(PieceT) : f = FrameOf(w, n)
  BY FrameIs
<1>2. /\ Len(f) = Size /\ Size \in Nat /\ Size > 0
      /\ \A i \in 1 .. Size : f[i] = Piece(w, n, i)
  BY <1>1, FrameIs, WritersAssumption
<1>3. PICK m \in Nat : m = Len(q)
  OBVIOUS
<1>a. /\ q \o f \in Seq(PieceT) /\ Len(q \o f) = Len(q) + Len(f)
      /\ \A i \in 1 .. Len(q) + Len(f) :
           (q \o f)[i] = IF i <= Len(q) THEN q[i] ELSE f[i - Len(q)]
  BY ONLY q \in Seq(PieceT), f \in Seq(PieceT), ConcatProperties
<1>4. PICK r \in Seq(PieceT) : r = q \o f
  BY <1>a
<1>5. /\ Len(r) = m + Size
      /\ \A i \in 1 .. m : r[i] = q[i]
      /\ \A i \in 1 .. Size : r[m + i] = Piece(w, n, i)
  <2>1. Len(r) = m + Size
    BY <1>2, <1>3, <1>4, <1>a
  <2>2. ASSUME NEW i \in 1 .. m PROVE r[i] = q[i]
    BY <1>2, <1>3, <1>4, <1>a
  <2>3. ASSUME NEW i \in 1 .. Size PROVE r[m + i] = f[i]
    <3>1. m + i \in 1 .. m + Size /\ ~(m + i <= m) /\ (m + i) - m = i
      BY <1>2
    <3> QED
      BY <1>2, <1>3, <1>4, <1>a, <3>1
  <2> QED
    BY <1>2, <2>1, <2>2, <2>3
<1>6. r # <<>> /\ r[m + Size].at = Size
  <2>1. Size \in 1 .. Size /\ Len(r) # 0
    BY <1>2, <1>5
  <2>2. r[m + Size] = Piece(w, n, Size)
    BY <1>5, <2>1
  <2> QED
    BY <2>1, <2>2 DEF Piece
<1>7. \E v \in Writer, k \in 1 .. Calls :
         /\ \A i \in 1 .. Len(p) : p[i] = Piece(v, k, i)
         /\ r[1] = Piece(v, k, Len(p) + 1)
  <2>1. CASE q = <<>>
    <3>1. m = 0 /\ p = <<>> /\ Len(p) = 0 /\ r[0 + 1] = Piece(w, n, 1)
      BY <1>2, <1>3, <1>5, <2>1 DEF Flows
    <3>2. \A i \in 1 .. Len(p) : p[i] = Piece(w, n, i)
      BY <3>1
    <3> QED
      BY <3>1, <3>2
  <2>2. CASE q # <<>>
    <3>1. m > 0 /\ r[1] = q[1]
      BY <1>3, <1>5, <2>2
    <3> QED
      BY <2>2, <3>1 DEF Flows
  <2> QED
    BY <2>1, <2>2
<1>8. ASSUME NEW i \in 1 .. m + Size - 1
      PROVE  IF r[i].at < Size THEN r[i + 1] = Piece(r[i].by, r[i].frame, r[i].at + 1)
             ELSE r[i + 1].at = 1
  <2>1. CASE i < m
    <3>1. i \in 1 .. Len(q) - 1 /\ r[i] = q[i] /\ r[i + 1] = q[i + 1]
      BY <1>2, <1>3, <1>5, <2>1
    <3> QED
      BY <3>1 DEF Flows
  <2>2. CASE i = m
    <3>1. r[m] = q[m] /\ r[m + 1] = Piece(w, n, 1) /\ q # <<>>
      <4>1. m \in 1 .. m /\ 1 \in 1 .. Size /\ Len(q) # 0
        BY <1>2, <1>3, <2>2
      <4>2. q # <<>>
        BY <4>1
      <4> QED
        BY <1>5, <4>1, <4>2
    <3>2. r[m].at = Size
      BY <1>3, <3>1 DEF Flows
    <3> QED
      BY <1>2, <2>2, <3>1, <3>2 DEF Piece
  <2>3. CASE i > m
    <3>1. PICK j \in 1 .. Size - 1 : i = m + j
      <4>1. i - m \in 1 .. Size - 1 /\ i = m + (i - m)
        BY <1>2, <2>3
      <4> QED
        BY <4>1
    <3>2. r[i] = Piece(w, n, j) /\ r[i + 1] = Piece(w, n, j + 1) /\ j < Size
      <4>1. j \in 1 .. Size /\ j + 1 \in 1 .. Size /\ i + 1 = m + (j + 1)
        BY <1>2, <3>1
      <4> QED
        BY <1>2, <1>5, <3>1, <4>1
    <3> QED
      BY <3>2 DEF Piece
  <2> QED
    BY <2>1, <2>2, <2>3
<1>9. Flows(p, r)
  <2>1. r[Len(r)].at = Size /\ Len(r) - 1 = m + Size - 1
    BY <1>2, <1>5, <1>6
  <2>2. ASSUME NEW i \in 1 .. Len(r) - 1
        PROVE  IF r[i].at < Size THEN r[i + 1] = Piece(r[i].by, r[i].frame, r[i].at + 1)
               ELSE r[i + 1].at = 1
    BY <1>8, <2>1
  <2> HIDE DEF Piece
  <2> QED
    BY ONLY <1>6, <1>7, <2>1, <2>2 DEF Flows
<1> QED
  BY <1>1, <1>4, <1>9

(* Reading a piece: it goes on the part, or completes a frame.              *)
LEMMA ReadFlows ==
  ASSUME NEW p \in Seq(PieceT), NEW q \in Seq(PieceT), Flows(p, q), q # <<>>,
         Len(p) < Size
  PROVE  /\ Len(p) + 1 = Size =>
              /\ Flows(<<>>, Tail(q))
              /\ \E w \in Writer, n \in 1 .. Calls : Append(p, Head(q)) = FrameOf(w, n)
         /\ Len(p) + 1 # Size => Flows(Append(p, Head(q)), Tail(q))
<1>1. PICK w \in Writer, n \in 1 .. Calls :
         /\ \A i \in 1 .. Len(p) : p[i] = Piece(w, n, i)
         /\ q[1] = Piece(w, n, Len(p) + 1)
  BY DEF Flows
<1>2. PICK k \in Nat : k = Len(p)
  OBVIOUS
<1>3. PICK m \in Nat : Len(q) = m + 1
  <2>1. Len(q) \in Nat /\ Len(q) # 0
    BY EmptySeq
  <2>2. Len(q) - 1 \in Nat /\ Len(q) = (Len(q) - 1) + 1
    BY <2>1
  <2> QED
    BY <2>2
<1>a. /\ Head(q) = q[1] /\ Head(q) \in PieceT /\ Tail(q) \in Seq(PieceT)
      /\ Len(Tail(q)) = Len(q) - 1 /\ \A i \in 1 .. Len(q) - 1 : Tail(q)[i] = q[i + 1]
  BY ONLY q \in Seq(PieceT), q # <<>>, HeadTailProperties
<1>4. PICK t \in Seq(PieceT) : t = Tail(q)
  BY <1>a
<1>5. Len(t) = m /\ \A i \in 1 .. m : t[i] = q[i + 1]
  BY <1>3, <1>4, <1>a
<1>6. Head(q) = q[1] /\ q[1] \in PieceT /\ q[1].at = k + 1
  BY <1>1, <1>2, <1>a DEF Piece
<1>b. /\ Append(p, Head(q)) \in Seq(PieceT) /\ Len(Append(p, Head(q))) = Len(p) + 1
      /\ \A i \in 1 .. Len(p) : Append(p, Head(q))[i] = p[i]
      /\ Append(p, Head(q))[Len(p) + 1] = Head(q)
  BY ONLY p \in Seq(PieceT), <1>a, AppendProperties
<1>7. PICK now \in Seq(PieceT) : now = Append(p, Head(q))
  BY <1>b
<1>8. Len(now) = k + 1 /\ \A i \in 1 .. k + 1 : now[i] = Piece(w, n, i)
  BY <1>1, <1>2, <1>6, <1>7, <1>b
<1>9. Size \in Nat /\ k + 1 <= Size /\ k < Size
  BY <1>2, WritersAssumption
<1>10. q[m + 1].at = Size
  BY <1>3 DEF Flows
<1>11. t # <<>> => m > 0 /\ t[Len(t)].at = Size
  BY <1>5, <1>10
<1>12. ASSUME NEW i \in 1 .. Len(t) - 1
       PROVE  IF t[i].at < Size THEN t[i + 1] = Piece(t[i].by, t[i].frame, t[i].at + 1)
              ELSE t[i + 1].at = 1
  <2>1. /\ i \in 1 .. m /\ i + 1 \in 1 .. m /\ i + 1 \in 1 .. Len(q) - 1
        /\ t[i] = q[i + 1] /\ t[i + 1] = q[(i + 1) + 1]
    BY <1>3, <1>5
  <2> QED
    BY <2>1 DEF Flows
<1>13. m > 0 => /\ t[1] = q[2] /\ t[1] \in PieceT
                /\ IF k + 1 < Size THEN t[1] = Piece(w, n, k + 2) ELSE t[1].at = 1
  <2> SUFFICES ASSUME m > 0
               PROVE  /\ t[1] = q[2] /\ t[1] \in PieceT
                      /\ IF k + 1 < Size THEN t[1] = Piece(w, n, k + 2) ELSE t[1].at = 1
    OBVIOUS
  <2>1. 1 \in 1 .. Len(q) - 1 /\ t[1] = q[1 + 1] /\ t[1] \in PieceT
    BY <1>3, <1>5
  <2>2. q[1].by = w /\ q[1].frame = n /\ q[1].at + 1 = k + 2
    BY <1>1, <1>2 DEF Piece
  <2>3. IF q[1].at < Size THEN q[1 + 1] = Piece(q[1].by, q[1].frame, q[1].at + 1)
        ELSE q[1 + 1].at = 1
    BY <2>1 DEF Flows
  <2> QED
    BY <1>6, <2>1, <2>2, <2>3
<1>14. CASE k + 1 = Size
  <2>1. now = FrameOf(w, n)
    <3>1. /\ FrameOf(w, n) \in Seq(PieceT) /\ Len(FrameOf(w, n)) = Size
          /\ \A i \in 1 .. Size : FrameOf(w, n)[i] = Piece(w, n, i)
      BY FrameIs
    <3> HIDE DEF FrameOf
    <3>2. \A i \in 1 .. k + 1 : now[i] = FrameOf(w, n)[i]
      BY <1>8, <1>14, <3>1
    <3> QED
      BY ONLY <1>8, <1>14, <3>1, <3>2, now \in Seq(PieceT), SeqEqual
  <2>2. t # <<>> => \E v \in Writer, j \in 1 .. Calls :
                      /\ \A i \in 1 .. Len(<<>>) : <<>>[i] = Piece(v, j, i)
                      /\ t[1] = Piece(v, j, Len(<<>>) + 1)
    <3> SUFFICES ASSUME t # <<>>
                 PROVE  \E v \in Writer, j \in 1 .. Calls :
                          /\ \A i \in 1 .. Len(<<>>) : <<>>[i] = Piece(v, j, i)
                          /\ t[1] = Piece(v, j, Len(<<>>) + 1)
      OBVIOUS
    <3>1. t[1] \in PieceT /\ t[1].at = 1
      BY <1>11, <1>13, <1>14
    <3>2. t[1] = Piece(t[1].by, t[1].frame, 1) /\ t[1].by \in Writer /\ t[1].frame \in 1 .. Calls
      BY <3>1 DEF Piece, PieceT
    <3>3. Len(<<>>) = 0 /\ \A i \in 1 .. Len(<<>>) : FALSE
      OBVIOUS
    <3> QED
      BY <3>2, <3>3
  <2>3. Flows(<<>>, t)
    BY <1>11, <1>12, <2>2 DEF Flows
  <2> QED
    BY <1>2, <1>4, <1>7, <1>14, <2>1, <2>3
<1>15. CASE k + 1 # Size
  <2>1. k + 1 < Size
    BY <1>9, <1>15
  <2>2. m > 0
    BY <1>3, <1>6, <1>9, <1>10, <2>1
  <2>3. t # <<>> /\ t[1] = Piece(w, n, k + 2)
    BY <1>5, <1>13, <2>1, <2>2
  <2>4. (k + 1) + 1 = k + 2
    OBVIOUS
  <2>5. Flows(now, t)
    BY <1>8, <1>11, <1>12, <2>3, <2>4 DEF Flows
  <2> QED
    BY <1>2, <1>4, <1>7, <1>15, <2>5
<1> QED
  BY <1>14, <1>15

-------------------------------------------------------------------------------
(* Types.                                                                   *)

LEMMA KindsInit == WritersInit => Kinds /\ Holding
<1> SUFFICES ASSUME WritersInit PROVE Kinds /\ Holding
  OBVIOUS
<1>1. \A w \in Writer : todo[w] = <<>>
  BY DEF WritersInit
<1>2. \A w \in Writer : lock # w
  BY NobodyAssumption DEF WritersInit
<1>3. <<>> \in Seq(PieceT) /\ <<>> \in Seq(Seq(PieceT)) /\ Len(<<>>) = 0
      /\ DOMAIN got = {}
  BY DEF WritersInit
<1>4. Kinds
  <2>1. \A k \in DOMAIN got : Len(got[k]) \in Lengths \cup {Size}
    BY <1>3
  <2>2. /\ need \in Lengths \cup {Size} /\ Len(pipe) <= Room /\ Len(part) < need
        /\ 0 \in 0 .. Calls
    BY <1>3, WritersAssumption DEF WritersInit
  <2>3. todo \in [Writer -> Seq(PieceT)] /\ sent \in [Writer -> 0 .. Calls]
    BY <1>3, <2>2 DEF WritersInit
  <2> QED
    BY <1>3, <2>1, <2>2, <2>3 DEF WritersInit, Kinds
<1>5. Holding
  BY <1>1, <1>2 DEF Holding
<1> QED
  BY <1>4, <1>5

LEMMA KindsStart ==
  ASSUME Kinds, Holding, NEW w \in Writer, Start(w)
  PROVE  Kinds' /\ Holding'
<1>1. /\ todo[w] = <<>> /\ sent[w] < Calls /\ (locked => lock = Nobody)
      /\ lock' = IF locked THEN w ELSE lock
      /\ todo' = [todo EXCEPT ![w] = FrameOf(w, sent[w] + 1)]
      /\ sent' = [sent EXCEPT ![w] = sent[w] + 1]
      /\ locked' = locked /\ pipe' = pipe /\ part' = part /\ need' = need
      /\ got' = got /\ waited' = waited
  BY DEF Start
<1>2. sent[w] + 1 \in 1 .. Calls /\ sent[w] + 1 \in 0 .. Calls
  BY <1>1, WritersAssumption DEF Kinds
<1>3. PICK f \in Seq(PieceT) : f = FrameOf(w, sent[w] + 1)
  BY <1>2, FrameIs
<1>4. /\ Len(f) = Size /\ f # <<>>
      /\ \A i \in 1 .. Size : f[i] = Piece(w, sent[w] + 1, i)
  BY <1>2, <1>3, FrameIs
<1>5. todo' \in [Writer -> Seq(PieceT)] /\ sent' \in [Writer -> 0 .. Calls]
  BY <1>1, <1>2, <1>3 DEF Kinds
<1>6. Kinds'
  BY <1>1, <1>5 DEF Kinds
<1>7. \A v \in Writer : /\ todo'[v] = IF v = w THEN f ELSE todo[v]
                        /\ sent'[v] = IF v = w THEN sent[w] + 1 ELSE sent[v]
  BY <1>1, <1>3 DEF Kinds
<1>8. Size \in Nat /\ \A i \in 1 .. Size : Size - Size + i = i
  BY WritersAssumption
<1>9. ASSUME NEW v \in Writer, todo'[v] # <<>>
      PROVE  /\ sent'[v] > 0 /\ Len(todo'[v]) <= Size
             /\ \A i \in 1 .. Len(todo'[v]) :
                  todo'[v][i] = Piece(v, sent'[v], Size - Len(todo'[v]) + i)
             /\ ~locked' /\ ~waited' => Len(todo'[v]) = Size
  <2>1. CASE v = w
    <3>1. todo'[v] = f /\ sent'[v] = sent[w] + 1 /\ sent'[v] > 0
      BY <1>2, <1>7, <2>1
    <3>2. \A i \in 1 .. Len(f) : f[i] = Piece(v, sent[w] + 1, Size - Len(f) + i)
      BY <1>4, <1>8, <2>1
    <3> QED
      BY <1>4, <1>8, <3>1, <3>2
  <2>2. CASE v # w
    <3>1. todo'[v] = todo[v] /\ sent'[v] = sent[v] /\ todo[v] # <<>>
      BY <1>7, <1>9, <2>2
    <3> QED
      BY <1>1, <3>1 DEF Holding
  <2> QED
    BY <2>1, <2>2
<1>10. ASSUME locked', NEW v \in Writer PROVE todo'[v] # <<>> <=> lock' = v
  <2>1. locked /\ lock = Nobody /\ lock' = w
    BY <1>1, <1>10
  <2>2. v # w => todo[v] = <<>>
    BY <2>1, NobodyAssumption DEF Holding
  <2> QED
    BY <1>4, <1>7, <2>1, <2>2
<1>11. Holding'
  BY <1>9, <1>10 DEF Holding
<1> QED
  BY <1>6, <1>11

(* What a write takes and what it leaves.                                   *)
LEMMA WriteIs ==
  ASSUME Kinds, Holding, NEW w \in Writer, Write(w)
  PROVE  \E k \in Nat, a \in Seq(PieceT), b \in Seq(PieceT) :
           /\ k > 0 /\ k <= Len(todo[w]) /\ k <= Room - Len(pipe)
           /\ Len(a) = k /\ Len(b) = Len(todo[w]) - k /\ todo[w] = a \o b
           /\ \A i \in 1 .. Len(b) : b[i] = todo[w][k + i]
           /\ \A i \in 1 .. k : a[i] = todo[w][i]
           /\ pipe' = pipe \o a /\ todo' = [todo EXCEPT ![w] = b]
           /\ todo'[w] = b
           /\ (b = <<>> <=> k = Len(todo[w]))
           /\ waited' = (waited \/ b # <<>>)
           /\ lock' = IF locked /\ b = <<>> THEN Nobody ELSE lock
<1>1. PICK t \in Seq(PieceT) : t = todo[w]
  BY DEF Kinds
<1>2. PICK m \in Nat, l \in Nat : m = Len(t) /\ l = Len(pipe)
  BY DEF Kinds
<1>3. t # <<>> /\ m > 0 /\ l < Room /\ Room \in Nat
  BY <1>1, <1>2, EmptySeq, WritersAssumption DEF Write
<1>4. PICK k \in Nat : k = Least(m, Room - l)
  <2>1. Least(m, Room - l) \in Nat
    BY <1>3 DEF Least
  <2> QED
    BY <2>1
<1>5. /\ k > 0 /\ k <= m /\ k <= Room - l /\ (k = m \/ k = Room - l)
      /\ m > Room - l <=> k # m
  BY <1>3, <1>4 DEF Least
<1>6. Takes(w) = k
  BY <1>1, <1>2, <1>4 DEF Takes
<1>a. /\ SubSeq(t, 1, k) \in Seq(PieceT) /\ SubSeq(t, k + 1, Len(t)) \in Seq(PieceT)
      /\ Len(SubSeq(t, 1, k)) = k /\ Len(SubSeq(t, k + 1, Len(t))) = Len(t) - k
      /\ \A i \in 1 .. k : SubSeq(t, 1, k)[i] = t[i]
      /\ \A i \in 1 .. Len(t) - k : SubSeq(t, k + 1, Len(t))[i] = t[k + i]
      /\ SubSeq(t, 1, k) \o SubSeq(t, k + 1, Len(t)) = t
  BY <1>2, <1>5, Splits
<1>b. PICK a \in Seq(PieceT) : a = SubSeq(t, 1, k)
  BY <1>a
<1>c. PICK b \in Seq(PieceT) : b = SubSeq(t, k + 1, Len(t))
  BY <1>a
<1>7. /\ Len(a) = k /\ Len(b) = m - k /\ a \o b = t
      /\ \A i \in 1 .. k : a[i] = t[i]
      /\ \A i \in 1 .. m - k : b[i] = t[k + i]
  BY ONLY <1>2, <1>a, <1>b, <1>c
<1>8. /\ pipe' = pipe \o a /\ todo' = [todo EXCEPT ![w] = b]
      /\ waited' = (waited \/ m > Room - l)
      /\ lock' = IF locked /\ todo'[w] = <<>> THEN Nobody ELSE lock
  BY <1>1, <1>2, <1>6, <1>b, <1>c DEF Write
<1>9. todo'[w] = b
  BY <1>8 DEF Kinds
<1>10. b = <<>> <=> k = m
  <2>1. b = <<>> <=> Len(b) = 0
    BY EmptySeq
  <2> QED
    BY <1>5, <1>7, <2>1
<1>11. /\ k > 0 /\ k <= Len(todo[w]) /\ k <= Room - Len(pipe)
       /\ Len(a) = k /\ Len(b) = Len(todo[w]) - k /\ todo[w] = a \o b
       /\ \A i \in 1 .. Len(b) : b[i] = todo[w][k + i]
       /\ \A i \in 1 .. k : a[i] = todo[w][i]
  BY <1>1, <1>2, <1>5, <1>7
<1>12. /\ pipe' = pipe \o a /\ todo' = [todo EXCEPT ![w] = b]
       /\ todo'[w] = b
       /\ (b = <<>> <=> k = Len(todo[w]))
       /\ waited' = (waited \/ b # <<>>)
       /\ lock' = IF locked /\ b = <<>> THEN Nobody ELSE lock
  BY <1>1, <1>2, <1>5, <1>8, <1>9, <1>10 DEF Kinds
<1> QED
  BY <1>11, <1>12

LEMMA KindsWrite ==
  ASSUME Kinds, Holding, NEW w \in Writer, Write(w)
  PROVE  Kinds' /\ Holding'
<1>1. PICK k \in Nat, a \in Seq(PieceT), b \in Seq(PieceT) :
         /\ k > 0 /\ k <= Len(todo[w]) /\ k <= Room - Len(pipe)
         /\ Len(a) = k /\ Len(b) = Len(todo[w]) - k /\ todo[w] = a \o b
         /\ \A i \in 1 .. Len(b) : b[i] = todo[w][k + i]
         /\ \A i \in 1 .. k : a[i] = todo[w][i]
         /\ pipe' = pipe \o a /\ todo' = [todo EXCEPT ![w] = b]
         /\ todo'[w] = b
         /\ (b = <<>> <=> k = Len(todo[w]))
         /\ waited' = (waited \/ b # <<>>)
         /\ lock' = IF locked /\ b = <<>> THEN Nobody ELSE lock
  BY WriteIs
<1>2. /\ locked' = locked /\ sent' = sent /\ part' = part /\ need' = need /\ got' = got
      /\ todo[w] # <<>> /\ todo[w] \in Seq(PieceT) /\ pipe \in Seq(PieceT)
  BY DEF Write, Kinds
<1>3. pipe' \in Seq(PieceT) /\ Len(pipe') <= Room
  <2>1. pipe \o a \in Seq(PieceT) /\ Len(pipe \o a) = Len(pipe) + Len(a)
    BY ONLY <1>2, a \in Seq(PieceT), ConcatProperties
  <2>2. Len(pipe) \in Nat /\ Len(a) = k /\ k <= Room - Len(pipe) /\ Room \in Nat
    BY <1>1, <1>2, WritersAssumption
  <2> QED
    BY ONLY <1>1, <2>1, <2>2, k \in Nat
<1>4. /\ todo' \in [Writer -> Seq(PieceT)] /\ lock' \in Writer \cup {Nobody}
      /\ waited' \in BOOLEAN
  BY <1>1 DEF Kinds
<1>5. Kinds'
  BY <1>2, <1>3, <1>4 DEF Kinds
<1>6. \A v \in Writer : v # w => todo'[v] = todo[v]
  BY <1>1 DEF Kinds
<1>7. PICK m \in Nat, l \in Nat : Len(todo[w]) = m /\ Len(b) = l /\ l = m - k
  BY <1>1, <1>2
<1>8. ASSUME NEW v \in Writer, todo'[v] # <<>>
      PROVE  /\ sent'[v] > 0 /\ Len(todo'[v]) <= Size
             /\ \A i \in 1 .. Len(todo'[v]) :
                  todo'[v][i] = Piece(v, sent'[v], Size - Len(todo'[v]) + i)
             /\ ~locked' /\ ~waited' => Len(todo'[v]) = Size
  <2>1. CASE v = w
    <3>1. b # <<>> /\ waited' /\ sent'[v] = sent[w] /\ todo'[v] = b
      BY <1>1, <1>2, <1>8, <2>1
    <3>2. /\ sent[w] > 0 /\ m <= Size
          /\ \A i \in 1 .. m : todo[w][i] = Piece(w, sent[w], Size - m + i)
      BY <1>2, <1>7 DEF Holding
    <3>3. Size \in Nat
      BY WritersAssumption
    <3>4. ASSUME NEW i \in 1 .. l PROVE b[i] = Piece(w, sent[w], Size - l + i)
      <4>1. k + i \in 1 .. m /\ Size - m + (k + i) = Size - l + i
        BY <1>7, <3>3
      <4> QED
        BY <1>1, <1>7, <3>2, <4>1
    <3>5. Len(b) <= Size /\ \A i \in 1 .. Len(b) : b[i] = Piece(w, sent[w], Size - Len(b) + i)
      BY <1>1, <1>7, <3>2, <3>3, <3>4
    <3> HIDE DEF Piece
    <3> QED
      BY ONLY <2>1, <3>1, <3>2, <3>5
  <2>2. CASE v # w
    <3>1. todo'[v] = todo[v] /\ sent'[v] = sent[v] /\ todo[v] # <<>>
      BY <1>2, <1>6, <1>8, <2>2
    <3>2. ~waited' => ~waited
      BY <1>1
    <3> QED
      BY <1>2, <3>1, <3>2 DEF Holding
  <2> QED
    BY <2>1, <2>2
<1>9. ASSUME locked', NEW v \in Writer PROVE todo'[v] # <<>> <=> lock' = v
  <2>1. locked /\ lock = w /\ \A u \in Writer : u # w => todo[u] = <<>>
    BY <1>2, <1>9 DEF Holding
  <2>2. lock' = IF b = <<>> THEN Nobody ELSE w
    BY <1>1, <2>1
  <2> QED
    BY <1>1, <1>6, <2>1, <2>2, NobodyAssumption
<1>10. Holding'
  BY <1>8, <1>9 DEF Holding
<1> QED
  BY <1>5, <1>10

LEMMA KindsRead ==
  ASSUME Kinds, Holding, Read
  PROVE  Kinds' /\ Holding'
<1>1. /\ pipe # <<>> /\ pipe' = Tail(pipe) /\ locked' = locked /\ todo' = todo
      /\ sent' = sent /\ lock' = lock /\ waited' = waited
  BY DEF Read
<1>0. PICK n \in IF part = <<>> THEN Says(Head(pipe)) ELSE {need} :
        IF Len(Append(part, Head(pipe))) = n
        THEN got' = Append(got, Append(part, Head(pipe))) /\ part' = <<>> /\ need' = Size
        ELSE part' = Append(part, Head(pipe)) /\ need' = n /\ got' = got
  BY DEF Read
<1>2. pipe \in Seq(PieceT) /\ part \in Seq(PieceT) /\ got \in Seq(Seq(PieceT))
  BY DEF Kinds
<1>3. Head(pipe) \in PieceT /\ Tail(pipe) \in Seq(PieceT) /\ Len(Tail(pipe)) = Len(pipe) - 1
  BY ONLY <1>1, <1>2, HeadTailProperties
<1>4. PICK now \in Seq(PieceT) : now = Append(part, Head(pipe)) /\ Len(now) = Len(part) + 1
  BY ONLY <1>2, <1>3, AppendProperties
<1>5. pipe' \in Seq(PieceT) /\ Len(pipe') <= Room
  <2>1. Len(pipe) \in Nat /\ Len(pipe) <= Room /\ Room \in Nat
    BY <1>2, WritersAssumption DEF Kinds
  <2> QED
    BY <1>1, <1>3, <2>1
<1>9. n \in Lengths \cup {Size} /\ n \in Nat /\ n > 0 /\ (part # <<>> => n = need)
  BY <1>0, WritersAssumption DEF Kinds, Says
<1>6. /\ part' \in Seq(PieceT) /\ need' \in Lengths \cup {Size} /\ Len(part') < need'
      /\ got' \in Seq(Seq(PieceT))
      /\ \A k \in DOMAIN got' : Len(got'[k]) \in Lengths \cup {Size}
  <2>1. Len(part) \in Nat /\ Len(part) < n /\ Size \in Nat /\ Size > 0
    <3>1. CASE part = <<>>
      BY <1>9, <3>1, WritersAssumption
    <3>2. CASE part # <<>>
      BY <1>2, <1>9, <3>2, WritersAssumption DEF Kinds
    <3> QED
      BY <3>1, <3>2
  <2>2. CASE Len(now) = n
    <3>1. got' = Append(got, now) /\ part' = <<>> /\ need' = Size
      BY <1>0, <1>4, <2>2
    <3>2. part' \in Seq(PieceT) /\ Len(part') = 0
      BY <3>1
    <3>3. PICK g \in Seq(Seq(PieceT)) : g = got
      BY <1>2
    <3>4. /\ Append(g, now) \in Seq(Seq(PieceT)) /\ Len(Append(g, now)) = Len(g) + 1
          /\ \A i \in 1 .. Len(g) : Append(g, now)[i] = g[i]
          /\ Append(g, now)[Len(g) + 1] = now
      BY ONLY g \in Seq(Seq(PieceT)), now \in Seq(PieceT), AppendProperties
    <3>5. \A k \in 1 .. Len(g) : Len(g[k]) \in Lengths \cup {Size}
      BY <3>3 DEF Kinds
    <3>6. Len(g) \in Nat /\ DOMAIN got' = 1 .. Len(g) + 1
      BY ONLY <3>1, <3>3, <3>4, LenProperties
    <3>7. ASSUME NEW k \in DOMAIN got' PROVE Len(got'[k]) \in Lengths \cup {Size}
      <4>1. k \in 1 .. Len(g) \/ k = Len(g) + 1
        BY <3>6
      <4> QED
        BY <1>9, <2>2, <3>1, <3>3, <3>4, <3>5, <4>1
    <3> QED
      BY <2>1, <3>1, <3>2, <3>3, <3>4, <3>7
  <2>3. CASE Len(now) # n
    <3>1. part' = now /\ need' = n /\ got' = got
      BY <1>0, <1>4, <2>3
    <3>2. Len(now) < n
      BY <1>4, <1>9, <2>1, <2>3
    <3> QED
      BY <1>9, <3>1, <3>2 DEF Kinds
  <2> QED
    BY <2>2, <2>3
<1>7. Kinds'
  BY <1>1, <1>5, <1>6 DEF Kinds
<1>8. Holding'
  BY <1>1 DEF Holding
<1> QED
  BY <1>7, <1>8

LEMMA KindsStep ==
  ASSUME Kinds, Holding, [WritersNext]_writerVars
  PROVE  Kinds' /\ Holding'
<1>1. CASE UNCHANGED writerVars
  BY <1>1 DEF writerVars, Kinds, Holding
<1>2. CASE Done
  BY <1>2 DEF Done, writerVars, Kinds, Holding
<1> QED
  BY <1>1, <1>2, KindsStart, KindsWrite, KindsRead DEF WritersNext

-------------------------------------------------------------------------------
(* FramesWhole.                                                             *)

Ahead == pipe \o Rest

LEMMA RestTyped ==
  ASSUME Kinds
  PROVE  Rest \in Seq(PieceT) /\ Ahead \in Seq(PieceT)
<1>1. Rest \in Seq(PieceT)
  BY DEF Kinds, Rest
<1> QED
  BY <1>1 DEF Kinds, Ahead

(* With the lock a frame joins what is ahead when its thread takes the      *)
(* lock, without it when it is written.                                     *)
LEMMA WholeStart ==
  ASSUME WholeInv, NEW w \in Writer, Start(w), locked' \/ ~waited'
  PROVE  Flows(part, Ahead)'
<1>1. Kinds /\ Holding
  BY DEF WholeInv
<1>2. /\ todo[w] = <<>> /\ sent[w] < Calls /\ (locked => lock = Nobody)
      /\ lock' = IF locked THEN w ELSE lock
      /\ todo' = [todo EXCEPT ![w] = FrameOf(w, sent[w] + 1)]
      /\ locked' = locked /\ pipe' = pipe /\ part' = part /\ waited' = waited
  BY DEF Start
<1>3. Flows(part, Ahead)
  BY <1>2 DEF WholeInv, Ahead
<1>4. CASE ~locked
  BY <1>2, <1>3, <1>4 DEF Ahead, Rest
<1>5. CASE locked
  <2>1. Rest = <<>> /\ Rest' = todo'[w]
    BY <1>2, <1>5, NobodyAssumption DEF Rest
  <2>2. Ahead = pipe \o <<>> /\ pipe \o <<>> = pipe /\ pipe \in Seq(PieceT)
    BY <1>1, <2>1, ConcatEmptySeq DEF Ahead, Kinds
  <2>3. Rest' = FrameOf(w, sent[w] + 1) /\ sent[w] + 1 \in 1 .. Calls
    BY <1>1, <1>2, <2>1, WritersAssumption DEF Kinds
  <2>4. Ahead' = pipe \o FrameOf(w, sent[w] + 1)
    BY <1>2, <2>3 DEF Ahead
  <2>5. Flows(part, pipe) /\ part \in Seq(PieceT)
    BY <1>1, <1>3, <2>2 DEF Kinds
  <2>6. Flows(part, pipe \o FrameOf(w, sent[w] + 1))
    BY <2>2, <2>3, <2>5, FrameFlows
  <2> QED
    BY <1>2, <2>4, <2>6
<1> QED
  BY <1>4, <1>5

LEMMA WholeWrite ==
  ASSUME WholeInv, NEW w \in Writer, Write(w), locked' \/ ~waited'
  PROVE  Flows(part, Ahead)'
<1>1. Kinds /\ Holding
  BY DEF WholeInv
<1>2. PICK k \in Nat, a \in Seq(PieceT), b \in Seq(PieceT) :
         /\ k > 0 /\ k <= Len(todo[w]) /\ k <= Room - Len(pipe)
         /\ Len(a) = k /\ Len(b) = Len(todo[w]) - k /\ todo[w] = a \o b
         /\ \A i \in 1 .. Len(b) : b[i] = todo[w][k + i]
         /\ \A i \in 1 .. k : a[i] = todo[w][i]
         /\ pipe' = pipe \o a /\ todo' = [todo EXCEPT ![w] = b]
         /\ todo'[w] = b
         /\ (b = <<>> <=> k = Len(todo[w]))
         /\ waited' = (waited \/ b # <<>>)
         /\ lock' = IF locked /\ b = <<>> THEN Nobody ELSE lock
  BY <1>1, WriteIs
<1>3. /\ locked' = locked /\ part' = part /\ todo[w] # <<>>
      /\ todo[w] \in Seq(PieceT) /\ pipe \in Seq(PieceT) /\ part \in Seq(PieceT)
  BY <1>1 DEF Write, Kinds
<1>4. Flows(part, Ahead)
  BY <1>2, <1>3 DEF WholeInv, Ahead
<1>5. CASE locked
  <2>1. lock = w /\ Rest = todo[w]
    BY <1>1, <1>3, <1>5, NobodyAssumption DEF Holding, Rest
  <2>2. Rest' = b
    BY <1>2, <1>3, <1>5, <2>1, NobodyAssumption DEF Rest
  <2>3. (pipe \o a) \o b = pipe \o (a \o b)
    BY ONLY SMTT(30), <1>3, a \in Seq(PieceT), b \in Seq(PieceT), ConcatAssociative
  <2>4. Ahead' = Ahead
    BY <1>2, <2>1, <2>2, <2>3 DEF Ahead
  <2> QED
    BY <1>3, <1>4, <2>4
<1>6. CASE ~locked
  <2>1. ~waited /\ b = <<>>
    BY <1>2, <1>3, <1>6
  <2>2. a = todo[w]
    BY <1>2, <2>1, ConcatEmptySeq
  <2>3. /\ sent[w] > 0 /\ Len(todo[w]) = Size
        /\ \A i \in 1 .. Size : todo[w][i] = Piece(w, sent[w], Size - Size + i)
    BY <1>1, <1>3, <1>6, <2>1 DEF Holding
  <2>4. sent[w] \in 1 .. Calls
    BY <1>1, <2>3, WritersAssumption DEF Kinds
  <2>5. /\ FrameOf(w, sent[w]) \in Seq(PieceT) /\ Len(FrameOf(w, sent[w])) = Size
        /\ \A i \in 1 .. Size : FrameOf(w, sent[w])[i] = Piece(w, sent[w], i)
    BY <2>4, FrameIs
  <2>6. \A i \in 1 .. Size : Size - Size + i = i
    BY WritersAssumption
  <2>7. \A i \in 1 .. Len(todo[w]) : todo[w][i] = FrameOf(w, sent[w])[i]
    BY <2>3, <2>5, <2>6
  <2>8. todo[w] = FrameOf(w, sent[w])
    BY ONLY <1>3, <2>3, <2>5, <2>7, SeqEqual
  <2>9. Rest = <<>> /\ Rest' = <<>>
    BY <1>3, <1>6 DEF Rest
  <2>10. Ahead = pipe /\ Ahead' = pipe \o a
    <3>1. pipe \o <<>> = pipe /\ (pipe \o a) \o <<>> = pipe \o a
      BY <1>3, ConcatEmptySeq, ConcatProperties
    <3> QED
      BY <1>2, <2>9, <3>1 DEF Ahead
  <2>11. Flows(part, pipe \o FrameOf(w, sent[w]))
    BY <1>3, <1>4, <2>4, <2>10, FrameFlows
  <2> QED
    BY <1>3, <2>2, <2>8, <2>10, <2>11
<1> QED
  BY <1>5, <1>6

LEMMA WholeRead ==
  ASSUME WholeInv, Read, locked' \/ ~waited'
  PROVE  Flows(part, Ahead)' /\ Received' /\ need' = Size
<1>1. /\ pipe # <<>> /\ pipe' = Tail(pipe) /\ locked' = locked /\ todo' = todo
      /\ lock' = lock /\ waited' = waited
  BY DEF Read
<1>0. PICK l \in IF part = <<>> THEN Says(Head(pipe)) ELSE {need} :
        IF Len(Append(part, Head(pipe))) = l
        THEN got' = Append(got, Append(part, Head(pipe))) /\ part' = <<>> /\ need' = Size
        ELSE part' = Append(part, Head(pipe)) /\ need' = l /\ got' = got
  BY DEF Read
<1>2. /\ Flows(part, Ahead) /\ Received /\ need = Size /\ Kinds
      /\ pipe \in Seq(PieceT) /\ part \in Seq(PieceT) /\ got \in Seq(Seq(PieceT))
      /\ Len(part) < Size
  BY <1>1 DEF WholeInv, Ahead, Kinds
<1>3. PICK r \in Seq(PieceT) : r = Rest
  BY <1>2, RestTyped
<1>4. PICK q \in Seq(PieceT) : q = Ahead
  BY <1>2, RestTyped
<1>5. q # <<>> /\ Head(q) = Head(pipe) /\ Tail(q) = Tail(pipe) \o r
  <2>1. /\ pipe \o r \in Seq(PieceT) /\ Len(pipe \o r) = Len(pipe) + Len(r)
        /\ \A i \in 1 .. Len(pipe) + Len(r) :
             (pipe \o r)[i] = IF i <= Len(pipe) THEN pipe[i] ELSE r[i - Len(pipe)]
    BY ONLY <1>2, r \in Seq(PieceT), ConcatProperties
  <2> QED
    BY <1>1, <1>2, <1>3, <1>4, <2>1, HeadTailOfConcat DEF Ahead
<1>6. Ahead' = Tail(q)
  BY <1>1, <1>3, <1>5 DEF Ahead, Rest
<1>7. Head(pipe) \in PieceT /\ Len(Append(part, Head(pipe))) = Len(part) + 1
  BY <1>1, <1>2
(* The reader is in step: at the first piece of a frame it reads its length. *)
<1>11. l = Size
  <2>1. CASE part = <<>>
    <3>1. PICK w \in Writer, n \in 1 .. Calls : q[1] = Piece(w, n, Len(part) + 1)
      BY <1>2, <1>4, <1>5 DEF Flows
    <3>2. Head(pipe) = q[1] /\ Len(part) + 1 = 1
      BY <1>5, <2>1
    <3>3. Head(pipe).at = 1
      BY <3>1, <3>2 DEF Piece
    <3> QED
      BY <1>0, <2>1, <3>3 DEF Says
  <2>2. CASE part # <<>>
    BY <1>0, <1>2, <2>2
  <2> QED
    BY <2>1, <2>2
<1>12. /\ need' = Size
       /\ IF Len(part) + 1 = Size
          THEN got' = Append(got, Append(part, Head(pipe))) /\ part' = <<>>
          ELSE part' = Append(part, Head(pipe)) /\ got' = got
  BY <1>0, <1>7, <1>11
<1>8. /\ Len(part) + 1 = Size =>
            /\ Flows(<<>>, Tail(q))
            /\ \E w \in Writer, n \in 1 .. Calls : Append(part, Head(q)) = FrameOf(w, n)
      /\ Len(part) + 1 # Size => Flows(Append(part, Head(q)), Tail(q))
  BY <1>2, <1>4, <1>5, ReadFlows
<1>9. CASE Len(part) + 1 = Size
  <2>1. Flows(part, Ahead)'
    BY <1>6, <1>8, <1>9, <1>12
  <2>2. PICK w \in Writer, n \in 1 .. Calls : Append(part, Head(pipe)) = FrameOf(w, n)
    BY <1>5, <1>8, <1>9
  <2>3. PICK f \in Seq(PieceT) : f = FrameOf(w, n)
    BY FrameIs
  <2>4. PICK g \in Seq(Seq(PieceT)) : g = got
    BY <1>2
  <2>5. /\ Append(g, f) \in Seq(Seq(PieceT)) /\ Len(Append(g, f)) = Len(g) + 1
        /\ \A i \in 1 .. Len(g) : Append(g, f)[i] = g[i]
        /\ Append(g, f)[Len(g) + 1] = f
    BY ONLY g \in Seq(Seq(PieceT)), f \in Seq(PieceT), AppendProperties
  <2>6. got' = Append(g, f)
    BY <1>9, <1>12, <2>2, <2>3, <2>4
  <2>7. Len(g) \in Nat /\ DOMAIN got' = 1 .. Len(g) + 1 /\ DOMAIN got = 1 .. Len(g)
    BY ONLY <2>4, <2>5, <2>6, LenProperties
  <2>8. ASSUME NEW k \in DOMAIN got'
        PROVE  \E v \in Writer, j \in 1 .. Calls : got'[k] = FrameOf(v, j)
    <3>1. CASE k = Len(g) + 1
      BY <2>3, <2>5, <2>6, <3>1
    <3>2. CASE k # Len(g) + 1
      <4>1. k \in 1 .. Len(g)
        BY <2>7, <3>2
      <4>2. got'[k] = got[k] /\ k \in DOMAIN got
        BY <2>4, <2>5, <2>6, <2>7, <4>1
      <4> QED
        BY <1>2, <4>2 DEF Received
    <3> QED
      BY <3>1, <3>2
  <2>9. Received'
    BY <2>8 DEF Received
  <2> QED
    BY <1>12, <2>1, <2>9
<1>10. CASE Len(part) + 1 # Size
  <2>1. part' = Append(part, Head(q)) /\ got' = got
    BY <1>5, <1>10, <1>12
  <2>2. Received'
    BY <1>2, <2>1 DEF Received
  <2> QED
    BY <1>6, <1>8, <1>10, <1>12, <2>1, <2>2
<1> QED
  BY <1>9, <1>10

(* Threads that share a circuit never mix their frames while each holds the *)
(* lock around a call, and without it not before the room runs out in the   *)
(* middle of one, for any number of threads and frames and any sizes.       *)
THEOREM FramesWholeHolds == WritersSpec => []FramesWhole
<1>1. WritersInit => WholeInv
  <2> SUFFICES ASSUME WritersInit PROVE WholeInv
    OBVIOUS
  <2>1. Rest = <<>> /\ pipe \o Rest = <<>> /\ part = <<>>
    <3>1. Rest = <<>>
      BY DEF WritersInit, Rest
    <3>2. <<>> \o <<>> = <<>>
      OBVIOUS
    <3> QED
      BY <3>1, <3>2 DEF WritersInit
  <2>2. Flows(<<>>, <<>>)
    <3>1. \A i \in 1 .. Len(<<>>) - 1 : FALSE
      OBVIOUS
    <3> QED
      BY <3>1 DEF Flows
  <2>3. Received /\ need = Size
    BY DEF WritersInit, Received
  <2> QED
    BY <2>1, <2>2, <2>3, KindsInit DEF WholeInv
<1>2. WholeInv /\ [WritersNext]_writerVars => WholeInv'
  <2> SUFFICES ASSUME WholeInv, [WritersNext]_writerVars PROVE WholeInv'
    OBVIOUS
  <2>1. Kinds' /\ Holding'
    BY KindsStep DEF WholeInv
  <2>2. CASE UNCHANGED writerVars \/ Done
    <3>1. UNCHANGED writerVars
      BY <2>2 DEF Done
    <3> QED
      BY <3>1, <2>1 DEF writerVars, WholeInv, Rest, Received
  <2>3. CASE Read
    BY <2>1, <2>3, WholeRead DEF WholeInv, Ahead
  <2>4. CASE \E w \in Writer : Start(w) \/ Write(w)
    <3>1. got' = got /\ need' = need /\ locked' = locked /\ (~waited' => ~waited)
      <4>1. ASSUME NEW w \in Writer, Start(w)
            PROVE  got' = got /\ need' = need /\ locked' = locked /\ (~waited' => ~waited)
        BY <4>1 DEF Start
      <4>2. ASSUME NEW w \in Writer, Write(w)
            PROVE  got' = got /\ need' = need /\ locked' = locked /\ (~waited' => ~waited)
        BY <4>2 DEF Write
      <4> QED
        BY <2>4, <4>1, <4>2
    <3>2. ASSUME locked' \/ ~waited' PROVE Flows(part, Ahead)' /\ Received' /\ need' = Size
      <4>1. Received' /\ need' = Size
        BY <3>1, <3>2 DEF WholeInv, Received
      <4> QED
        BY <2>4, <3>2, <4>1, WholeStart, WholeWrite
    <3> QED
      BY <2>1, <3>2 DEF WholeInv, Ahead
  <2> QED
    BY <2>2, <2>3, <2>4 DEF WritersNext
<1>3. WholeInv => FramesWhole
  BY DEF WholeInv, FramesWhole, Received
<1> QED
  BY <1>1, <1>2, <1>3, PTL DEF WritersSpec

-------------------------------------------------------------------------------
(* EachInOrder.                                                             *)

Singles(w, s) == [i \in DOMAIN s |-> IF s[i].by = w THEN <<s[i]>> ELSE <<>>]
Written(w, n) == [k \in 1 .. n |-> FrameOf(w, k)]

OrderInv ==
  /\ Kinds /\ Holding
  /\ \A w \in Writer :
       OfWriter(w, Arrived) \o todo[w] = FlattenSeq(Written(w, sent[w]))

LEMMA OfWriterIs ==
  ASSUME NEW w, NEW s \in Seq(PieceT)
  PROVE  /\ Singles(w, s) \in Seq(Seq(PieceT)) /\ Len(Singles(w, s)) = Len(s)
         /\ \A i \in 1 .. Len(s) : Singles(w, s)[i] = IF s[i].by = w THEN <<s[i]>> ELSE <<>>
         /\ OfWriter(w, s) = FlattenSeq(Singles(w, s))
         /\ OfWriter(w, s) \in Seq(PieceT)
<1>1. PICK n \in Nat : n = Len(s)
  OBVIOUS
<1>2. DOMAIN s = 1 .. n /\ \A i \in 1 .. n : s[i] \in PieceT
  BY <1>1
<1>3. \A i \in 1 .. n : (IF s[i].by = w THEN <<s[i]>> ELSE <<>>) \in Seq(PieceT)
  BY <1>2
<1> DEFINE u == [i \in 1 .. n |-> IF s[i].by = w THEN <<s[i]>> ELSE <<>>]
<1>4. u \in [1 .. n -> Seq(PieceT)]
  BY <1>3
<1>5. Singles(w, s) = u
  BY <1>2 DEF Singles
<1>6. \A i \in 1 .. n : u[i] = IF s[i].by = w THEN <<s[i]>> ELSE <<>>
  OBVIOUS
<1> HIDE DEF u
<1>7. u \in Seq(Seq(PieceT)) /\ Len(u) = n
  BY ONLY <1>4, n \in Nat, IsASeq, LenProperties
<1>8. OfWriter(w, s) = FlattenSeq(Singles(w, s))
  BY DEF OfWriter, Singles
<1> QED
  BY <1>1, <1>5, <1>6, <1>7, <1>8, FlattenType

LEMMA OfWriterAppend ==
  ASSUME NEW w, NEW s \in Seq(PieceT), NEW x \in PieceT
  PROVE  OfWriter(w, Append(s, x))
           = IF x.by = w THEN Append(OfWriter(w, s), x) ELSE OfWriter(w, s)
<1>1. PICK y \in Seq(PieceT) : y = IF x.by = w THEN <<x>> ELSE <<>>
  <2>1. (IF x.by = w THEN <<x>> ELSE <<>>) \in Seq(PieceT)
    OBVIOUS
  <2> QED
    BY <2>1
<1>2. PICK n \in Nat : n = Len(s)
  OBVIOUS
<1>3. /\ Append(s, x) \in Seq(PieceT) /\ Len(Append(s, x)) = n + 1
      /\ \A i \in 1 .. n : Append(s, x)[i] = s[i]
      /\ Append(s, x)[n + 1] = x
  BY ONLY <1>2, s \in Seq(PieceT), x \in PieceT, AppendProperties
<1>4. PICK r \in Seq(PieceT) : r = Append(s, x)
  BY <1>3
<1>5. PICK u \in Seq(Seq(PieceT)) :
         /\ u = Singles(w, s) /\ Len(u) = n
         /\ \A i \in 1 .. n : u[i] = IF s[i].by = w THEN <<s[i]>> ELSE <<>>
  BY <1>2, OfWriterIs
<1> DEFINE v == Singles(w, r)
<1>6. /\ v \in Seq(Seq(PieceT)) /\ Len(v) = n + 1
      /\ \A i \in 1 .. n + 1 : v[i] = IF r[i].by = w THEN <<r[i]>> ELSE <<>>
  <2>1. Len(r) = n + 1
    BY <1>3, <1>4
  <2>2. /\ Singles(w, r) \in Seq(Seq(PieceT)) /\ Len(Singles(w, r)) = n + 1
        /\ \A i \in 1 .. n + 1 : Singles(w, r)[i] = IF r[i].by = w THEN <<r[i]>> ELSE <<>>
    <3>1. /\ Singles(w, r) \in Seq(Seq(PieceT)) /\ Len(Singles(w, r)) = Len(r)
          /\ \A i \in 1 .. Len(r) : Singles(w, r)[i] = IF r[i].by = w THEN <<r[i]>> ELSE <<>>
      BY OfWriterIs
    <3> HIDE DEF v
    <3> QED
      BY ONLY <2>1, <3>1
  <2> QED
    BY <2>2
<1>7. /\ Append(u, y) \in Seq(Seq(PieceT)) /\ Len(Append(u, y)) = n + 1
      /\ \A i \in 1 .. n : Append(u, y)[i] = u[i]
      /\ Append(u, y)[n + 1] = y
  BY ONLY <1>5, u \in Seq(Seq(PieceT)), y \in Seq(PieceT), AppendProperties
<1>8. ASSUME NEW i \in 1 .. n + 1 PROVE v[i] = Append(u, y)[i]
  <2>1. CASE i = n + 1
    BY <1>1, <1>3, <1>4, <1>6, <1>7, <2>1
  <2>2. CASE i # n + 1
    <3>1. i \in 1 .. n
      BY <2>2
    <3>2. r[i] = s[i]
      BY <1>3, <1>4, <3>1
    <3> QED
      BY <1>5, <1>6, <1>7, <3>1, <3>2
  <2> QED
    BY <2>1, <2>2
<1>9. v = Append(u, y)
  BY ONLY <1>6, <1>7, <1>8, SeqEqual
<1>10. FlattenSeq(v) = FlattenSeq(u) \o y /\ FlattenSeq(u) \in Seq(PieceT)
  BY <1>9, FlattenAppend
<1>11. OfWriter(w, r) = FlattenSeq(v) /\ OfWriter(w, s) = FlattenSeq(u)
  BY <1>5, OfWriterIs
<1>12. PICK z \in Seq(PieceT) : z = FlattenSeq(u)
  BY <1>10
<1>13. z \o <<x>> = Append(z, x) /\ z \o <<>> = z
  BY ONLY z \in Seq(PieceT), x \in PieceT, AppendIsConcat, ConcatEmptySeq
<1> QED
  BY <1>1, <1>4, <1>10, <1>11, <1>12, <1>13

AllBy(v, t) == \A i \in 1 .. Len(t) : t[i].by = v

(* Pieces of one thread: its own come after the others, and the other       *)
(* threads' are as they were.                                               *)
LEMMA OfWriterConcat ==
  ASSUME NEW w, NEW v, NEW s \in Seq(PieceT), NEW t \in Seq(PieceT),
         AllBy(v, t)
  PROVE  OfWriter(w, s \o t) = IF v = w THEN OfWriter(w, s) \o t ELSE OfWriter(w, s)
<1> DEFINE Joins(u) == OfWriter(w, s \o u)
                         = IF v = w THEN OfWriter(w, s) \o u ELSE OfWriter(w, s)
           T == {n \in Nat : \A u \in Seq(PieceT) :
                               Len(u) = n /\ AllBy(v, u) => Joins(u)}
<1>1. OfWriter(w, s) \in Seq(PieceT)
  BY OfWriterIs
<1>2. 0 \in T
  <2>1. ASSUME NEW u \in Seq(PieceT), Len(u) = 0 PROVE Joins(u)
    <3>1. u = <<>>
      BY <2>1, EmptySeq
    <3>2. s \o <<>> = s /\ OfWriter(w, s) \o <<>> = OfWriter(w, s)
      BY <1>1, ConcatEmptySeq
    <3> QED
      BY <3>1, <3>2
  <2> QED
    BY <2>1
<1> HIDE DEF Joins
<1>3. ASSUME NEW n \in T PROVE n + 1 \in T
  <2>0. n \in Nat /\ n + 1 \in Nat
    OBVIOUS
  <2>1. ASSUME NEW u \in Seq(PieceT), Len(u) = n + 1, AllBy(v, u)
        PROVE  Joins(u)
    <3>1. PICK front \in Seq(PieceT), x \in PieceT : u = Append(front, x)
      <4>1. u # <<>>
        BY <2>0, <2>1, EmptySeq
      <4> QED
        BY <4>1, SequenceEmptyOrAppend
    <3>2. /\ Len(u) = Len(front) + 1 /\ \A i \in 1 .. Len(front) : u[i] = front[i]
          /\ u[Len(front) + 1] = x
      BY ONLY <3>1, AppendProperties
    <3>3. Len(front) = n
      <4>1. Len(front) \in Nat
        OBVIOUS
      <4> QED
        BY <2>0, <2>1, <3>2, <4>1
    <3>4. x.by = v /\ AllBy(v, front)
      BY <2>0, <2>1, <3>2, <3>3 DEF AllBy
    <3>5. Joins(front)
      BY <3>3, <3>4
    <3> HIDE DEF T
    <3>6. s \o u = Append(s \o front, x) /\ s \o front \in Seq(PieceT)
      BY ONLY <3>1, s \in Seq(PieceT), front \in Seq(PieceT), x \in PieceT, ConcatOfAppend
    <3>7. OfWriter(w, s) \o u = Append(OfWriter(w, s) \o front, x)
      BY ONLY <1>1, <3>1, front \in Seq(PieceT), x \in PieceT, ConcatOfAppend
    <3>8. OfWriter(w, s \o u) = IF v = w THEN Append(OfWriter(w, s \o front), x)
                                ELSE OfWriter(w, s \o front)
      <4>1. PICK c \in Seq(PieceT) : c = s \o front
        BY <3>6
      <4>2. OfWriter(w, Append(c, x))
              = IF x.by = w THEN Append(OfWriter(w, c), x) ELSE OfWriter(w, c)
        BY ONLY c \in Seq(PieceT), x \in PieceT, OfWriterAppend
      <4> QED
        BY ONLY <3>4, <3>6, <4>1, <4>2
    <3> QED
      BY <3>5, <3>7, <3>8 DEF Joins
  <2> QED
    BY <2>0, <2>1
<1> HIDE DEF T
<1>4. T = Nat
  BY <1>2, <1>3, NaturalsAll DEF T
<1>5. PICK m \in Nat : m = Len(t)
  OBVIOUS
<1>6. Joins(t)
  BY <1>4, <1>5 DEF T
<1> QED
  BY <1>6 DEF Joins

LEMMA WrittenGrows ==
  ASSUME NEW w \in Writer, NEW n \in Nat, n < Calls
  PROVE  /\ FlattenSeq(Written(w, n)) \in Seq(PieceT)
         /\ FlattenSeq(Written(w, n + 1)) = FlattenSeq(Written(w, n)) \o FrameOf(w, n + 1)
<1>1. \A k \in 1 .. n + 1 : FrameOf(w, k) \in Seq(PieceT)
  <2>1. \A k \in 1 .. n + 1 : k \in 1 .. Calls
    BY WritersAssumption
  <2> QED
    BY <2>1, FrameIs
<1>2. PICK f \in Seq(PieceT) : f = FrameOf(w, n + 1)
  BY <1>1
<1> DEFINE u == Written(w, n)
           v == Written(w, n + 1)
<1>3. u \in [1 .. n -> Seq(PieceT)] /\ v \in [1 .. n + 1 -> Seq(PieceT)]
  BY <1>1 DEF Written
<1>4. (\A k \in 1 .. n : v[k] = u[k]) /\ v[n + 1] = f
  BY <1>2 DEF Written
<1> HIDE DEF u, v
<1>5. u \in Seq(Seq(PieceT)) /\ Len(u) = n
  BY ONLY <1>3, n \in Nat, IsASeq, LenProperties
<1>6. v \in Seq(Seq(PieceT)) /\ Len(v) = n + 1
  BY ONLY <1>3, n \in Nat, n + 1 \in Nat, IsASeq, LenProperties
<1>7. /\ Append(u, f) \in Seq(Seq(PieceT)) /\ Len(Append(u, f)) = n + 1
      /\ \A i \in 1 .. n : Append(u, f)[i] = u[i]
      /\ Append(u, f)[n + 1] = f
  BY ONLY <1>5, f \in Seq(PieceT), AppendProperties
<1>8. \A i \in 1 .. n + 1 : v[i] = Append(u, f)[i]
  BY <1>4, <1>7
<1>9. v = Append(u, f)
  BY ONLY <1>6, <1>7, <1>8, SeqEqual
<1>10. FlattenSeq(u) \in Seq(PieceT) /\ FlattenSeq(v) = FlattenSeq(u) \o f
  BY ONLY <1>5, <1>9, f \in Seq(PieceT), FlattenAppend
<1> QED
  BY <1>2, <1>10 DEF u, v

LEMMA ArrivedTyped ==
  ASSUME Kinds
  PROVE  /\ FlattenSeq(got) \in Seq(PieceT) /\ FlattenSeq(got) \o part \in Seq(PieceT)
         /\ Arrived \in Seq(PieceT)
<1>1. got \in Seq(Seq(PieceT)) /\ part \in Seq(PieceT) /\ pipe \in Seq(PieceT)
  BY DEF Kinds
<1>2. FlattenSeq(got) \in Seq(PieceT)
  BY <1>1, FlattenType
<1>3. FlattenSeq(got) \o part \in Seq(PieceT)
  BY ONLY <1>1, <1>2, ConcatProperties
<1>4. (FlattenSeq(got) \o part) \o pipe \in Seq(PieceT)
  BY ONLY <1>1, <1>3, ConcatProperties
<1> QED
  BY <1>2, <1>3, <1>4 DEF Arrived

LEMMA OrderInit ==
  ASSUME WritersInit
  PROVE  OrderInv
<1>1. <<>> \in Seq(PieceT) /\ <<>> \o <<>> = <<>>
  OBVIOUS
<1>2. Arrived = <<>>
  BY <1>1, FlattenEmpty DEF WritersInit, Arrived
<1>3. ASSUME NEW w \in Writer
      PROVE  OfWriter(w, Arrived) \o todo[w] = FlattenSeq(Written(w, sent[w]))
  <2>1. Singles(w, <<>>) = <<>>
    BY DEF Singles
  <2>2. OfWriter(w, <<>>) = <<>>
    BY <2>1, FlattenEmpty DEF OfWriter, Singles
  <2>3. Written(w, 0) = <<>>
    BY DEF Written
  <2> QED
    BY <1>1, <1>2, <2>2, <2>3, FlattenEmpty DEF WritersInit
<1> QED
  BY <1>3, KindsInit DEF OrderInv

LEMMA OrderStart ==
  ASSUME OrderInv, NEW w \in Writer, Start(w), NEW v \in Writer
  PROVE  OfWriter(v, Arrived)' \o todo'[v] = FlattenSeq(Written(v, sent'[v]))
<1>1. Kinds /\ OfWriter(v, Arrived) \o todo[v] = FlattenSeq(Written(v, sent[v]))
  BY DEF OrderInv
<1>2. /\ todo[w] = <<>> /\ sent[w] < Calls
      /\ todo' = [todo EXCEPT ![w] = FrameOf(w, sent[w] + 1)]
      /\ sent' = [sent EXCEPT ![w] = sent[w] + 1]
      /\ Arrived' = Arrived
  BY DEF Start, Arrived
<1>3. OfWriter(v, Arrived)' = OfWriter(v, Arrived)
  BY <1>2 DEF OfWriter
<1>4. CASE v # w
  <2>1. todo'[v] = todo[v] /\ sent'[v] = sent[v]
    BY <1>1, <1>2, <1>4 DEF Kinds
  <2> QED
    BY <1>1, <1>3, <2>1
<1>5. CASE v = w
  <2>1. todo'[w] = FrameOf(w, sent[w] + 1) /\ sent'[w] = sent[w] + 1 /\ sent[w] \in Nat
    BY <1>1, <1>2 DEF Kinds
  <2>2. OfWriter(w, Arrived) \in Seq(PieceT)
    BY <1>1, ArrivedTyped, OfWriterIs
  <2>3. OfWriter(w, Arrived) = FlattenSeq(Written(w, sent[w]))
    BY <1>1, <1>2, <1>5, <2>2, ConcatEmptySeq
  <2>4. FlattenSeq(Written(w, sent[w] + 1))
          = FlattenSeq(Written(w, sent[w])) \o FrameOf(w, sent[w] + 1)
    BY <1>2, <2>1, WrittenGrows
  <2> QED
    BY <1>3, <1>5, <2>1, <2>3, <2>4
<1> QED
  BY <1>4, <1>5

LEMMA OrderWrite ==
  ASSUME OrderInv, NEW w \in Writer, Write(w), NEW v \in Writer
  PROVE  OfWriter(v, Arrived)' \o todo'[v] = FlattenSeq(Written(v, sent'[v]))
<1>1. Kinds /\ Holding /\ OfWriter(v, Arrived) \o todo[v] = FlattenSeq(Written(v, sent[v]))
  BY DEF OrderInv
<1>2. PICK k \in Nat, a \in Seq(PieceT), b \in Seq(PieceT) :
         /\ k > 0 /\ k <= Len(todo[w]) /\ k <= Room - Len(pipe)
         /\ Len(a) = k /\ Len(b) = Len(todo[w]) - k /\ todo[w] = a \o b
         /\ \A i \in 1 .. Len(b) : b[i] = todo[w][k + i]
         /\ \A i \in 1 .. k : a[i] = todo[w][i]
         /\ pipe' = pipe \o a /\ todo' = [todo EXCEPT ![w] = b]
         /\ todo'[w] = b
         /\ (b = <<>> <=> k = Len(todo[w]))
         /\ waited' = (waited \/ b # <<>>)
         /\ lock' = IF locked /\ b = <<>> THEN Nobody ELSE lock
  BY <1>1, WriteIs
<1>3. /\ sent' = sent /\ part' = part /\ got' = got /\ todo[w] # <<>>
      /\ todo[w] \in Seq(PieceT) /\ pipe \in Seq(PieceT) /\ part \in Seq(PieceT)
  BY <1>1 DEF Write, Kinds
<1>4. PICK u \in Seq(PieceT) : u = FlattenSeq(got) \o part
  BY <1>1, ArrivedTyped
<1>5. PICK s \in Seq(PieceT) : s = Arrived
  BY <1>1, ArrivedTyped
<1>6. Arrived' = s \o a
  <2>0. pipe \in Seq(PieceT)
    BY <1>3
  <2>1. (u \o pipe) \o a = u \o (pipe \o a)
    BY ONLY SMTT(30), <2>0, u \in Seq(PieceT), a \in Seq(PieceT), ConcatAssociative
  <2> QED
    BY <1>2, <1>3, <1>4, <1>5, <2>1 DEF Arrived
<1>7. AllBy(w, a)
  <2>1. \A i \in 1 .. Len(todo[w]) :
          todo[w][i] = Piece(w, sent[w], Size - Len(todo[w]) + i)
    BY <1>1, <1>3 DEF Holding
  <2>a. \A n, i : Piece(w, n, i).by = w
    BY DEF Piece
  <2>2. \A i \in 1 .. Len(todo[w]) : todo[w][i].by = w
    BY ONLY <2>1, <2>a
  <2>3. PICK m \in Nat : Len(todo[w]) = m
    BY <1>3
  <2>4. k <= m /\ k = Len(a) /\ \A i \in 1 .. k : a[i] = todo[w][i]
    BY <1>2, <2>3
  <2> QED
    BY ONLY SMTT(30), <2>2, <2>3, <2>4, k \in Nat, m \in Nat DEF AllBy
<1>8. OfWriter(v, s \o a) = IF w = v THEN OfWriter(v, s) \o a ELSE OfWriter(v, s)
  BY ONLY ZenonT(30), <1>7, s \in Seq(PieceT), a \in Seq(PieceT), OfWriterConcat
<1>9. OfWriter(v, Arrived)' = OfWriter(v, s \o a) /\ OfWriter(v, Arrived) = OfWriter(v, s)
  BY <1>5, <1>6 DEF OfWriter
<1>10. CASE v # w
  <2>1. todo'[v] = todo[v]
    BY <1>1, <1>2, <1>10 DEF Kinds
  <2> QED
    BY <1>1, <1>3, <1>8, <1>9, <1>10, <2>1
<1>11. CASE v = w
  <2>1. OfWriter(v, s) \in Seq(PieceT)
    BY OfWriterIs
  <2>2. (OfWriter(v, s) \o a) \o b = OfWriter(v, s) \o (a \o b)
    BY ONLY SMTT(30), <2>1, a \in Seq(PieceT), b \in Seq(PieceT), ConcatAssociative
  <2> QED
    BY <1>1, <1>2, <1>3, <1>8, <1>9, <1>11, <2>2
<1> QED
  BY <1>10, <1>11

LEMMA ReadKeeps ==
  ASSUME Kinds, Read
  PROVE  Arrived' = Arrived
<1>1. pipe # <<>> /\ pipe' = Tail(pipe)
  BY DEF Read
<1>0. \/ got' = Append(got, Append(part, Head(pipe))) /\ part' = <<>>
      \/ part' = Append(part, Head(pipe)) /\ got' = got
  BY DEF Read
<1>2. pipe \in Seq(PieceT) /\ part \in Seq(PieceT) /\ got \in Seq(Seq(PieceT))
  BY DEF Kinds
<1>3. PICK x \in PieceT : x = Head(pipe)
  BY <1>1, <1>2, HeadTailProperties
<1>4. PICK t \in Seq(PieceT) : t = Tail(pipe)
  BY ONLY <1>1, <1>2, HeadTailProperties
<1>5. PICK one \in Seq(PieceT) : one = <<x>>
  <2>1. <<x>> \in Seq(PieceT)
    OBVIOUS
  <2> QED
    BY <2>1
<1>6. pipe = one \o t
  BY <1>1, <1>2, <1>3, <1>4, <1>5
<1>7. PICK now \in Seq(PieceT) : now = Append(part, x) /\ now = part \o one
  BY ONLY <1>2, <1>5, x \in PieceT, AppendProperties, AppendIsConcat
<1>8. PICK g \in Seq(PieceT) : g = FlattenSeq(got)
  BY <1>2, FlattenType
<1>9. (g \o now) \o t = (g \o part) \o pipe
  <2>0. part \in Seq(PieceT)
    BY <1>2
  <2>1. g \o part \in Seq(PieceT)
    BY ONLY <2>0, g \in Seq(PieceT), ConcatProperties
  <2>2. (g \o part) \o one = g \o (part \o one)
    BY ONLY SMTT(30), <2>0, g \in Seq(PieceT), one \in Seq(PieceT), ConcatAssociative
  <2>3. ((g \o part) \o one) \o t = (g \o part) \o (one \o t)
    BY ONLY SMTT(30), <2>1, one \in Seq(PieceT), t \in Seq(PieceT), ConcatAssociative
  <2> QED
    BY ONLY <1>6, <1>7, <2>2, <2>3
<1>10. CASE got' = Append(got, now) /\ part' = <<>>
  <2>2. FlattenSeq(Append(got, now)) = g \o now
    BY ONLY <1>2, <1>8, now \in Seq(PieceT), FlattenAppend
  <2>3. g \o now \in Seq(PieceT) /\ (g \o now) \o <<>> = g \o now
    BY ONLY g \in Seq(PieceT), now \in Seq(PieceT), ConcatProperties, ConcatEmptySeq
  <2> QED
    BY <1>1, <1>4, <1>8, <1>9, <1>10, <2>2, <2>3 DEF Arrived
<1>11. CASE part' = now /\ got' = got
  BY <1>1, <1>4, <1>8, <1>9, <1>11 DEF Arrived
<1> QED
  BY <1>0, <1>3, <1>7, <1>10, <1>11

LEMMA OrderStep ==
  ASSUME OrderInv, [WritersNext]_writerVars
  PROVE  OrderInv'
<1>1. Kinds' /\ Holding'
  BY KindsStep DEF OrderInv
<1>2. ASSUME NEW v \in Writer
      PROVE  OfWriter(v, Arrived)' \o todo'[v] = FlattenSeq(Written(v, sent'[v]))
  <2>1. CASE UNCHANGED writerVars \/ Done \/ Read
    <3>1. Arrived' = Arrived /\ todo' = todo /\ sent' = sent
      BY <2>1, ReadKeeps DEF OrderInv, writerVars, Done, Read, Arrived
    <3>2. OfWriter(v, Arrived)' = OfWriter(v, Arrived)
      BY <3>1 DEF OfWriter
    <3> QED
      BY <3>1, <3>2 DEF OrderInv
  <2>2. CASE \E w \in Writer : Start(w) \/ Write(w)
    BY <2>2, OrderStart, OrderWrite
  <2> QED
    BY <2>1, <2>2 DEF WritersNext
<1>3. \A v \in Writer :
        OfWriter(v, Arrived)' \o todo'[v] = FlattenSeq(Written(v, sent[v])')
  BY <1>2 DEF Written
<1> QED
  BY <1>1, <1>3 DEF OrderInv

(* Locked or not, what has left a thread is a beginning of its frames, one  *)
(* after the other: nothing of a thread is lost, repeated or reordered, for *)
(* any number of threads and frames and any sizes.                          *)
THEOREM EachInOrderHolds == WritersSpec => []EachInOrder
<1>1. WritersInit => OrderInv
  BY OrderInit
<1>2. OrderInv /\ [WritersNext]_writerVars => OrderInv'
  BY OrderStep
<1>3. OrderInv => EachInOrder
  <2> SUFFICES ASSUME OrderInv PROVE EachInOrder
    OBVIOUS
  <2>1. \A w \in Writer : Len(todo[w]) <= Size
    <3> SUFFICES ASSUME NEW w \in Writer PROVE Len(todo[w]) <= Size
      OBVIOUS
    <3>1. CASE todo[w] = <<>>
      BY <3>1, WritersAssumption
    <3>2. CASE todo[w] # <<>>
      BY <3>2 DEF OrderInv, Holding
    <3> QED
      BY <3>1, <3>2
  <2>2. WritersTypeOK
    BY <2>1 DEF OrderInv, Kinds, WritersTypeOK
  <2>3. \A w \in Writer : Written(w, sent[w]) = [k \in 1 .. sent[w] |-> FrameOf(w, k)]
    BY DEF Written
  <2> QED
    BY <2>2, <2>3 DEF OrderInv, EachInOrder
<1> QED
  BY <1>1, <1>2, <1>3, PTL DEF WritersSpec
================================================================================
