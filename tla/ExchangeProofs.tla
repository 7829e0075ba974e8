----------------------------- MODULE ExchangeProofs -----------------------------
(***************************************************************************)
(* Proofs about Exchange, for any number of clients, messages and restarts *)
(* that its constants allow, and any block: between clients and exits of   *)
(* the same mode.                                                          *)
(***************************************************************************)
EXTENDS Exchange, Inductions

Matching == \A m \in Modes : m.secure = m.exitSecure

Words == Seq(Nat)
Nobody == <<"nobody", 0>>
ClientKeys == {ClientKey(c) : c \in Client}
UpFrame == [sealedFor : {Nobody, ExitKey(0)}, pem : ClientKeys \cup {Nobody},
            dest : {"none", "dest"}, message : Words]
DownFrame == [sealedFor : ClientKeys \cup {StreamKey}, message : Words]
Connection == [up : Seq(UpFrame), down : Seq(DownFrame),
               client : {"none", "open", "closed"}, exit : {"none", "waiting", "closed"}]
Arrival == [text : Words, wrapped : BOOLEAN]
Stream == [conn : ConnId, keys : BOOLEAN, reader : {"run", "ended", "raised"},
           stop : BOOLEAN, said : Nat]

(* What replies are when they are no answers is nobody's concern.           *)
Types ==
  /\ mode \in Modes
  /\ at \in [Client -> {"idle", "probing", "waiting", "closing", "closed"}]
  /\ sent \in [Client -> Seq(Words)]
  /\ \E S : replies \in [Client -> Seq(S)]
  /\ current \in [Client -> ConnId \cup {NoConn}]
  /\ conn \in [ConnId -> Connection]
  /\ backlog \in Seq(ConnId)
  /\ loop \in {"accept", "read", "forward", "send", "stream", "ended"}
  /\ generation \in 0 .. MaxRestarts
  /\ arrived \in Seq(Arrival)
  /\ disconnected \subseteq Client

(* What the clients have sent; a client's k-th message is its k-th text.    *)
Pairs == UNION {{c} \X DOMAIN sent[c] : c \in Client}
Sent ==
  /\ IsFiniteSet(Pairs) /\ Sends <= MaxSends
  /\ \A c \in Client : Len(sent[c]) <= Sends
  /\ \A c \in Client : \A k \in 1 .. Len(sent[c]) : \E n \in Sizes : sent[c][k] = Text(c, k, n)

(* The first frame of a connection, and what the exit may answer to it: its *)
(* number tells the probe, the messages and the end apart.                  *)
Carries(i) == IF i[2] = 0 THEN Raw(PROBE)
              ELSE IF i[2] <= Len(sent[i[1]]) THEN Sealed(i[1], sent[i[1]][i[2]])
              ELSE Sealed(i[1], CLIENT_CLOSE)
Outcomes(m) == {m, NoReply, Unreachable}
Answers(f, i) ==
  /\ i[2] <= Len(sent[i[1]])
  /\ i[2] # 0 => \E x \in Outcomes(sent[i[1]][i[2]]) :
                   f = ReplyTo(i[1], x) /\ (ExitSecure => Fits(Body(x)))
Streamed(i) == i[2] \in 1 .. Len(sent[i[1]]) /\ StreamRequest(sent[i[1]][i[2]])

(* The frames of a connection, by the number of the message; the last one   *)
(* written and the last one taken.                                          *)
Written(i, k) ==
  IF k = i[2] THEN Carries(i)
  ELSE IF k <= Len(sent[i[1]]) THEN Sealed(i[1], sent[i[1]][k]) ELSE Raw(CLIENT_CLOSE)
LastOf(i) == IF Secure \/ i[2] = 0 THEN i[2]
           ELSE Len(sent[i[1]]) + (IF at[i[1]] = "closed" THEN 1 ELSE 0)
Taken(i) == LastOf(i) - Len(conn[i].up)
Queued(i) ==
  /\ Taken(i) >= i[2] - 1
  /\ \A j \in 1 .. Len(conn[i].up) : conn[i].up[j] = Written(i, Taken(i) + j)

Made(i) ==
  /\ conn[i].client # "none"
  /\ i[2] <= Len(sent[i[1]]) + 1
  /\ i[2] = Len(sent[i[1]]) + 1 => Secure /\ at[i[1]] \in {"closing", "closed"}
  /\ ~Secure => i[2] <= 1
  /\ current[i[1]] # NoConn
Answered(i) ==
  conn[i].down # <<>> =>
    \/ Streamed(i)
    \/ conn[i].exit = "closed" /\ Len(conn[i].down) = 1 /\ Answers(conn[i].down[1], i)
Conns ==
  \A i \in ConnId :
    /\ IF conn[i].exit = "none" THEN conn[i].client = "none" ELSE Made(i) /\ Queued(i)
    /\ Answered(i)

(* Where a client stands tells what it has asked for on which connection.   *)
(* A client without padding asks once: its later messages lie unread, or go *)
(* through the stream.                                                      *)
Matches(c, k) == StreamRequest(sent[c][k]) \/ replies[c][k] \in Expected(sent[c][k])
OnlyFirst(c) ==
  /\ Len(replies[c]) = 1 /\ replies[c][1] \in Expected(sent[c][1])
  /\ conn[<<c, 1>>].exit = "closed" /\ conn[<<c, 1>>].down = <<>>
Asked(c) ==
  /\ current[c] # NoConn => conn[current[c]].exit # "none"
  /\ sent[c] # <<>> => current[c] # NoConn
  /\ at[c] = "probing" => current[c] = <<c, 0>> /\ sent[c] = <<>>
  /\ at[c] \in {"waiting", "closing"} => Secure
  /\ Secure =>
       /\ Len(sent[c]) = Len(replies[c]) + (IF at[c] = "waiting" THEN 1 ELSE 0)
       /\ at[c] = "waiting" => current[c] = <<c, Len(sent[c])>>
       /\ at[c] \in {"closing", "closed"} => current[c] = <<c, Len(sent[c]) + 1>>
       /\ \A k \in 1 .. Len(replies[c]) : k <= Len(sent[c]) /\ Matches(c, k)
  /\ ~Secure =>
       /\ sent[c] # <<>> => current[c] = <<c, 1>>
       /\ replies[c] # <<>> => sent[c] # <<>> /\ (StreamRequest(sent[c][1]) \/ OnlyFirst(c))

(* Nobody has read what waits.                                              *)
Waiting ==
  /\ \A j \in 1 .. Len(backlog) : /\ conn[backlog[j]].exit = "waiting" /\ backlog[j] # job.conn
                                  /\ Taken(backlog[j]) = backlog[j][2] - 1
  /\ \A j, l \in 1 .. Len(backlog) : backlog[j] = backlog[l] => j = l

(* What the exit works on is what the connection it serves carries.         *)
Working ==
  /\ loop \in {"accept", "ended"} => job = None
  /\ loop \notin {"accept", "ended"} =>
       /\ job.conn \in ConnId /\ conn[job.conn].exit = "waiting"
       /\ Taken(job.conn) >= job.conn[2]
  /\ loop = "read" => job = [conn |-> job.conn, frame |-> Carries(job.conn)]
  /\ loop = "stream" => job \in Stream /\ Streamed(job.conn)
  /\ loop \in {"forward", "send"} => /\ job.conn[2] \in 1 .. Len(sent[job.conn[1]])
                                     /\ ~Streamed(job.conn)
  /\ loop = "forward" => job = [conn |-> job.conn, message |-> sent[job.conn[1]][job.conn[2]]]
  /\ loop = "send" =>
       \E x \in Outcomes(sent[job.conn[1]][job.conn[2]]) :
         job = [conn |-> job.conn, message |-> x]

(* A message that has arrived has been taken from a connection: the first   *)
(* of it, when the exit is through with it or about to answer, or a later   *)
(* one, through the stream.                                                 *)
Delivered(a, i) ==
  /\ i[2] # 0
  /\ \E k \in 1 .. Len(sent[i[1]]) :
       /\ a.text = sent[i[1]][k] /\ k <= Taken(i)
       /\ IF a.wrapped THEN ~Secure /\ k > 1 /\ i[2] = 1 /\ Streamed(i) ELSE k = i[2]
Through(i) == conn[i].exit = "closed" \/ (loop = "send" /\ job.conn = i)
Once ==
  /\ \A j \in 1 .. Len(arrived) : \E i \in ConnId :
       /\ conn[i].exit # "none" /\ Delivered(arrived[j], i)
       /\ ~arrived[j].wrapped => Through(i)
  /\ \A j, l \in 1 .. Len(arrived) :
       arrived[j].text = arrived[l].text /\ arrived[j].text # <<>> => j = l

Notified ==
  \A c \in Client :
    Secure /\ generation = 0 /\ at[c] \in {"closing", "closed"} /\ Mine(c).exit = "closed"
    => c \in disconnected

ExchangeInv ==
  /\ Types /\ Sent /\ Conns /\ (\A c \in Client : Asked(c)) /\ Waiting /\ Working
  /\ Once /\ Notified


---------------------------------------------------------------------------------
(* Padding, packing and envelopes.                                          *)

LEMMA Sizing == Block \in Nat /\ Block >= 3 /\ Block < Huge /\ KeyWords >= 2 /\ Huge = 1000
BY EnvelopeAssumption DEF Huge

LEMMA Joined ==
  ASSUME NEW s \in Words, NEW t \in Words
  PROVE  /\ s \o t \in Words /\ Len(s \o t) = Len(s) + Len(t)
         /\ \A i \in 1 .. Len(s) : (s \o t)[i] = s[i]
BY DEF Words

(* What fits the block comes out of its padding as it was.                  *)
LEMMA Padded ==
  ASSUME NEW m \in Words, Fits(m)
  PROVE  Pad(m) \in Words /\ Unpad(Pad(m)) = m
<1>1. Len(m) \in Nat /\ Len(m) <= Block - 1 /\ Block \in Nat
  BY Sizing DEF Fits, Words
<1> DEFINE n == Len(m)
           front == <<n>> \o m
           tail == [i \in 1 .. Block - 1 - n |-> Noise]
<1>2. tail \in Words /\ Len(tail) = Block - 1 - n
  BY <1>1 DEF Words, Noise, Huge
<1>3. front \in Words /\ Len(front) = n + 1 /\ front[1] = n
      /\ \A i \in 1 .. n : front[i + 1] = m[i]
  BY <1>1 DEF Words
<1>4. Pad(m) = front \o tail
  BY DEF Pad
<1> HIDE DEF front, tail
<1>5. Pad(m) \in Words /\ Len(Pad(m)) = Block /\ Pad(m)[1] = n
      /\ \A i \in 1 .. n : Pad(m)[i + 1] = m[i]
  <2>1. PICK k \in Nat : k = n
    BY <1>1
  <2>2. /\ front \o tail \in Words /\ Len(front \o tail) = k + 1 + (Block - 1 - k)
        /\ \A i \in 1 .. k + 1 : (front \o tail)[i] = front[i]
    BY <1>2, <1>3, <2>1, Joined
  <2> HIDE DEF n
  <2>3. k + 1 + (Block - 1 - k) = Block /\ 1 \in 1 .. k + 1
        /\ \A i \in 1 .. k : i + 1 \in 1 .. k + 1
    BY <1>1
  <2> QED
    BY <1>3, <1>4, <2>1, <2>2, <2>3
<1>6. Unpad(Pad(m)) = SubSeq(Pad(m), 2, 1 + n)
  BY <1>1, <1>5, Sizing DEF Unpad
<1> HIDE DEF n
<1>7. \A p \in Words : \A k \in Nat :
        Len(p) > k /\ (\A i \in 1 .. k : p[i + 1] = m[i]) /\ Len(m) = k => SubSeq(p, 2, 1 + k) = m
  BY DEF Words
<1> QED
  BY <1>1, <1>5, <1>6, <1>7, Sizing DEF n

(* One string, packed.                                                      *)
LEMMA Packed ==
  ASSUME NEW m \in Words
  PROVE  LET d == <<1, Len(m)>> \o m
         IN PackReplies(<<m>>) = d /\ d \in Words /\ Len(d) = 2 + Len(m)
            /\ d[1] = 1 /\ d[2] = Len(m) /\ SubSeq(d, 3, 2 + Len(m)) = m
<1>1. PICK n \in Nat : n = Len(m)
  BY DEF Words
<1>2. PICK x \in Words : x = <<n>> \o m
  <2>1. <<n>> \in Words
    BY <1>1 DEF Words
  <2> QED
    BY <2>1, Joined
<1>3. FlattenSeq(<<x>>) = x
  <2>1. <<>> \in Seq(Seq(Nat)) /\ Append(<<>>, x) = <<x>> /\ <<>> \o x = x
    BY <1>2 DEF Words
  <2> QED
    BY <2>1, FlattenAppend, FlattenEmpty DEF Words
<1>4. [i \in 1 .. Len(<<m>>) |-> <<Len(<<m>>[i])>> \o <<m>>[i]] = <<x>>
  BY <1>1, <1>2
<1>5. PackReplies(<<m>>) = <<1>> \o x
  <2>1. <<m>> # <<>> /\ Len(<<m>>) = 1
    OBVIOUS
  <2> QED
    BY <1>3, <1>4, <2>1 DEF PackReplies
<1>6. <<1>> \o x = <<1, n>> \o m
  BY <1>1, <1>2 DEF Words
<1>7. LET d == <<1, n>> \o m
      IN d \in Words /\ Len(d) = 2 + n /\ d[1] = 1 /\ d[2] = n /\ SubSeq(d, 3, 2 + n) = m
  BY <1>1 DEF Words
<1> QED
  BY <1>1, <1>5, <1>6, <1>7

(* Unpacked it is the only string there is.                                 *)
LEMMA Unpacked ==
  ASSUME NEW m \in Words
  PROVE  UnpackReplies(PackReplies(<<m>>)) = <<m>>
<1>1. PICK n \in Nat : n = Len(m)
  BY DEF Words
<1>2. PICK d \in Words : /\ d = PackReplies(<<m>>) /\ Len(d) = 2 + n
                         /\ d[1] = 1 /\ d[2] = n /\ SubSeq(d, 3, 2 + n) = m
  BY <1>1, Packed
<1> DEFINE Step(r) == IF r.offset + 1 > Len(d) THEN r
                      ELSE [offset |-> r.offset + 1 + d[r.offset + 1],
                            out |-> Append(r.out, Slice(d, r.offset + 2,
                                                  r.offset + 1 + d[r.offset + 1]))]
           none == [offset |-> 1, out |-> <<>>]
           read == CHOOSE g : g = [i \in 0 .. 1 |-> IF i = 0 THEN none ELSE Step(g[i - 1])]
<1>3. UnpackReplies(d) = read[1].out
  <2>1. (IF Len(d) < 1 THEN 0 ELSE IF d[1] > Len(d) THEN Len(d) ELSE d[1]) = 1
    BY <1>2
  <2> QED
    BY <2>1 DEF UnpackReplies
<1>4. Step(none) = [offset |-> 2 + n, out |-> <<m>>]
  <2>1. none.offset = 1 /\ none.out = <<>>
    OBVIOUS
  <2>2. Slice(d, 3, 2 + n) = m
    BY <1>2 DEF Slice
  <2>3. ~(none.offset + 1 > Len(d)) /\ none.offset + 1 = 2 /\ none.offset + 2 = 3
    BY <2>1, <1>2
  <2> QED
    BY <2>1, <2>2, <2>3, <1>2
<1> HIDE DEF Step, none
<1>5. \E g : g = [i \in 0 .. 1 |-> IF i = 0 THEN none ELSE Step(g[i - 1])]
  <2> DEFINE h == [i \in 0 .. 1 |-> IF i = 0 THEN none ELSE Step(none)]
  <2>1. h = [i \in 0 .. 1 |-> IF i = 0 THEN none ELSE Step(h[i - 1])]
    <3>1. \A i \in 0 .. 1 : i = 0 \/ h[i - 1] = none
      OBVIOUS
    <3> QED
      BY <3>1
  <2> QED
    BY <2>1
<1>6. read = [i \in 0 .. 1 |-> IF i = 0 THEN none ELSE Step(read[i - 1])]
  BY <1>5
<1> HIDE DEF read
<1>7. read[0] = none
  BY <1>6
<1>8. read[1] = Step(read[0])
  BY <1>6
<1> QED
  BY <1>2, <1>3, <1>4, <1>7, <1>8


(* Texts.                                                                   *)
LEMMA Clientele == /\ \A c \in Client : c \in 1 .. 9
                   /\ MaxSends \in 1 .. 9 /\ MaxRestarts \in Nat
BY ExchangeAssumption DEF Client

Number(c, k) == Huge + 100 * c + 10 * k + 1

LEMMA TextOf ==
  ASSUME NEW c \in Client, NEW k \in 1 .. 9, NEW n \in Sizes
  PROVE  /\ Text(c, k, n) \in Words /\ Fits(Text(c, k, n))
         /\ Text(c, k, n) # <<>> => Text(c, k, n)[1] = Number(c, k)
<1>1. n \in 0 .. Block - 1 /\ c \in 1 .. 9 /\ Block \in Nat
  BY ExchangeAssumption, Clientele, Sizing
<1>2. Text(c, k, n) \in Words /\ Len(Text(c, k, n)) = n
  BY <1>1 DEF Text, Words, Huge
<1>3. Text(c, k, n) # <<>> => n >= 1
  BY <1>1, <1>2 DEF Words
<1> QED
  BY <1>1, <1>2, <1>3 DEF Text, Fits, Huge, Number

LEMMA TextsDiffer ==
  ASSUME NEW c \in Client, NEW k \in 1 .. 9, NEW n \in Sizes,
         NEW d \in Client, NEW l \in 1 .. 9, NEW p \in Sizes,
         Text(c, k, n) = Text(d, l, p), Text(c, k, n) # <<>>
  PROVE  c = d /\ k = l
<1>1. Text(c, k, n)[1] = Number(c, k) /\ Text(d, l, p)[1] = Number(d, l)
  BY TextOf
<1>2. c \in 1 .. 9 /\ d \in 1 .. 9
  BY Clientele
<1> QED
  BY <1>1, <1>2 DEF Number, Huge

LEMMA Controls ==
  /\ NoReply \in Words /\ Unreachable \in Words /\ Answer \in Words /\ PROBE \in Words
  /\ Spoken \in Words
  /\ CLIENT_CLOSE \in Words /\ Fits(CLIENT_CLOSE) /\ CLIENT_CLOSE # <<>>
  /\ ~AreStreamKeys(CLIENT_CLOSE)
<1>1. \A i \in Nat : <<i>> \in Words /\ Len(<<i>>) = 1 /\ <<i>> # <<>>
  BY DEF Words
<1>2. \A i, j \in Nat : <<i, j>> \in Words
  BY DEF Words
<1>3. Huge + 1 \in Nat /\ Huge + 2 \in Nat /\ Huge + 3 \in Nat /\ Huge + 4 \in Nat
      /\ Huge + 5 \in Nat /\ Huge + 6 \in Nat /\ Huge + 7 \in Nat
      /\ Huge + 8 \in Nat
  BY DEF Huge
<1>4. KeyWords >= 2 /\ KeyWords \in Nat /\ Block >= 3 /\ Block \in Nat
  BY EnvelopeAssumption DEF Huge
<1>5. NoReply \in Words /\ Unreachable \in Words
  BY <1>2, <1>3 DEF NoReply, Unreachable
<1>6. Answer \in Words /\ PROBE \in Words /\ Spoken \in Words
  BY <1>1, <1>3 DEF Answer, PROBE, Spoken
<1>7. CLIENT_CLOSE \in Words /\ Len(CLIENT_CLOSE) = 1 /\ CLIENT_CLOSE # <<>>
  BY <1>1, <1>3 DEF CLIENT_CLOSE
<1> QED
  BY <1>4, <1>5, <1>6, <1>7 DEF Fits, AreStreamKeys
(* What is sealed for the exit is no probe, and the exit whose key it is    *)
(* reads what the client wrote; so does a client of a reply.                *)
LEMMA Modal ==
  ASSUME mode \in Modes
  PROVE  Secure \in BOOLEAN /\ ExitSecure \in BOOLEAN /\ (Matching => Secure = ExitSecure)
BY ExchangeAssumption DEF Secure, ExitSecure, Matching

LEMMA InTheClear ==
  ASSUME NEW m \in Words
  PROVE  Raw(m) \in UpFrame /\ Raw(m).sealedFor = Nobody
<1>1. Raw(m) = [sealedFor |-> Nobody, pem |-> Nobody, dest |-> "none", message |-> m]
  BY DEF Raw, SealForServer, Nobody
<1> HIDE DEF Nobody
<1> QED
  BY <1>1 DEF UpFrame

LEMMA NoExit == \A g : ~CanOpen(ExitKey(g), Raw(CLIENT_CLOSE))
<1>1. Raw(CLIENT_CLOSE).sealedFor = Nobody
  BY Controls, InTheClear
<1>2. \A g : ExitKey(g)[1] = "exit"
  BY DEF ExitKey
<1>3. Nobody[1] = "nobody"
  BY DEF Nobody
<1> QED
  BY <1>1, <1>2, <1>3 DEF CanOpen

LEMMA Sealing ==
  ASSUME mode \in Modes, Matching, NEW c \in Client, NEW m \in Words, Fits(m)
  PROVE  /\ Sealed(c, m) \in UpFrame /\ Sealed(c, m) # Raw(PROBE)
         /\ CanOpen(ExitKey(generation), Sealed(c, m)) <=> generation = 0
         /\ (IF ExitSecure THEN OpenedPadded(Sealed(c, m)) ELSE Opened(Sealed(c, m))) = m
         /\ ~Secure => Opened(Sealed(c, m)) = m
<1> DEFINE p == IF Secure THEN Pad(m) ELSE m
<1>1. p \in Words /\ (ExitSecure => Unpad(p) = m) /\ (~ExitSecure => p = m)
      /\ (~Secure => p = m)
  BY Padded, Modal
<1>2. Sealed(c, m) = [sealedFor |-> ExitKey(0), pem |-> ClientKey(c), dest |-> "dest",
                      message |-> p]
  BY DEF Sealed, SealPaddedForServer, SealForServer
<1> HIDE DEF p
<1>3. Sealed(c, m).message = p /\ Sealed(c, m).sealedFor = ExitKey(0)
  BY <1>2
<1>4. ClientKey(c) \in ClientKeys
  BY DEF ClientKeys
<1>5. Sealed(c, m) \in UpFrame
  BY <1>1, <1>2, <1>4 DEF UpFrame
<1>6. ExitKey(0) # Nobody /\ (ExitKey(0) = ExitKey(generation) <=> generation = 0)
  <2>1. ExitKey(0)[1] = "exit" /\ Nobody[1] = "nobody"
    BY DEF ExitKey, Nobody
  <2>2. ExitKey(0)[2] = 0 /\ ExitKey(generation)[2] = generation
    BY DEF ExitKey
  <2> QED
    BY <2>1, <2>2
<1>7. Sealed(c, m) # Raw(PROBE)
  BY <1>3, <1>6, Controls, InTheClear
<1> QED
  BY <1>1, <1>3, <1>5, <1>6, <1>7 DEF CanOpen, OpenedPadded, Opened

LEMMA Replying ==
  ASSUME mode \in Modes, NEW c \in Client, NEW x \in Words, ExitSecure => Fits(Body(x))
  PROVE  /\ ReplyTo(c, x) \in DownFrame
         /\ ExitSecure => SecureReplies(c, ReplyTo(c, x)) = <<x>>
         /\ ~ExitSecure => InsecureReply(c, ReplyTo(c, x)) = x
<1>1. ClientKey(c) \in ClientKeys
  BY DEF ClientKeys
<1>2. CASE ExitSecure
  <2>1. Body(x) = PackReplies(<<x>>) /\ Body(x) \in Words
    BY <1>2, Packed DEF Body
  <2>2. Pad(Body(x)) \in Words /\ Unpad(Pad(Body(x))) = Body(x)
    BY <1>2, <2>1, Padded
  <2>3. ReplyTo(c, x) = [sealedFor |-> ClientKey(c), message |-> Pad(Body(x))]
    BY <1>2 DEF ReplyTo, SealPaddedForClient, SealForClient
  <2>4. ReplyTo(c, x) \in DownFrame
    BY <1>1, <2>2, <2>3 DEF DownFrame
  <2>5. SecureReplies(c, ReplyTo(c, x)) = UnpackReplies(Body(x))
    BY <2>2, <2>3 DEF SecureReplies, OpenedPadded, CanOpen
  <2> QED
    BY <1>2, <2>1, <2>4, <2>5, Unpacked
<1>3. CASE ~ExitSecure
  <2>1. ReplyTo(c, x) = [sealedFor |-> ClientKey(c), message |-> x]
    BY <1>3 DEF ReplyTo, SealForClient, Body
  <2>2. ReplyTo(c, x) \in DownFrame
    BY <1>1, <2>1 DEF DownFrame
  <2>3. InsecureReply(c, ReplyTo(c, x)) = x
    BY <2>1 DEF InsecureReply, CanOpen, Opened
  <2> QED
    BY <1>3, <2>2, <2>3
<1> QED
  BY <1>2, <1>3

---------------------------------------------------------------------------------
(* What the invariant says of the connections.                              *)

LEMMA Numbered ==
  /\ \A i \in ConnId : /\ i = <<i[1], i[2]>> /\ i[1] \in Client
                       /\ i[2] \in 0 .. MaxSends + 1 /\ i[2] \in Nat
  /\ \A c \in Client, k \in 0 .. MaxSends + 1 : <<c, k>> \in ConnId
  /\ NoConn \notin ConnId
<1>1. 0 \notin Client
  BY Clientele
<1> QED
  BY <1>1, Clientele DEF ConnId, NoConn

LEMMA SentTexts ==
  ASSUME Types, Sent, NEW c \in Client
  PROVE  /\ Len(sent[c]) \in Nat /\ Len(sent[c]) <= MaxSends /\ sent[c] \in Seq(Words)
         /\ Sends \in Nat /\ Len(sent[c]) <= Sends
         /\ \A k \in 1 .. Len(sent[c]) : /\ sent[c][k] \in Words /\ Fits(sent[c][k])
                                         /\ k \in 1 .. 9
<1>1. sent[c] \in Seq(Words) /\ Len(sent[c]) \in Nat
  BY DEF Types
<1>2. Sends \in Nat
  BY FS_CardinalityType DEF Sends, Sent, Pairs
<1>3. Len(sent[c]) <= Sends /\ Sends <= MaxSends
  BY DEF Sent
<1>4. \A k \in 1 .. Len(sent[c]) : sent[c][k] \in Words /\ k \in 1 .. 9
  BY <1>1, <1>2, <1>3, Clientele
<1>5. \A k \in 1 .. Len(sent[c]) : Fits(sent[c][k])
  <2> TAKE k \in 1 .. Len(sent[c])
  <2>1. PICK n \in Sizes : sent[c][k] = Text(c, k, n)
    BY DEF Sent
  <2>2. k \in 1 .. 9
    BY <1>4
  <2> QED
    BY <2>1, <2>2, TextOf
<1> QED
  BY <1>1, <1>2, <1>3, <1>4, <1>5, Clientele

LEMMA Circuits ==
  ASSUME Types, Sent, NEW c \in Client
  PROVE  /\ <<c, 0>> \in ConnId /\ <<c, 1>> \in ConnId
         /\ <<c, Len(sent[c]) + 1>> \in ConnId /\ <<c, Len(sent[c])>> \in ConnId
<1>1. Len(sent[c]) \in Nat /\ Len(sent[c]) <= MaxSends /\ MaxSends \in 1 .. 9
  BY SentTexts, Clientele
<1>2. /\ 0 \in 0 .. MaxSends + 1 /\ 1 \in 0 .. MaxSends + 1
      /\ Len(sent[c]) + 1 \in 0 .. MaxSends + 1 /\ Len(sent[c]) \in 0 .. MaxSends + 1
  BY <1>1
<1> QED
  BY <1>2, Numbered

LEMMA SentOnce ==
  ASSUME Types, Sent, NEW c \in Client, NEW k \in 1 .. Len(sent[c]),
         NEW d \in Client, NEW l \in 1 .. Len(sent[d]),
         sent[c][k] = sent[d][l], sent[c][k] # <<>>
  PROVE  c = d /\ k = l
<1>1. k \in 1 .. 9 /\ l \in 1 .. 9
  BY SentTexts
<1>2. PICK n \in Sizes : sent[c][k] = Text(c, k, n)
  BY DEF Sent
<1>3. PICK p \in Sizes : sent[d][l] = Text(d, l, p)
  BY DEF Sent
<1>4. Text(c, k, n) = Text(d, l, p) /\ Text(c, k, n) # <<>>
  BY <1>2, <1>3
<1> QED
  BY ONLY <1>1, <1>4, c \in Client, d \in Client, n \in Sizes, p \in Sizes, TextsDiffer

(* What a connection after the probe's carries, and how the exit reads it.  *)
Meant(i) == IF i[2] <= Len(sent[i[1]]) THEN sent[i[1]][i[2]] ELSE CLIENT_CLOSE

LEMMA Carried ==
  ASSUME Types, Sent, Matching, NEW i \in ConnId
  PROVE  /\ Carries(i) \in UpFrame
         /\ i[2] = 0 => Carries(i) = Raw(PROBE)
         /\ i[2] # 0 =>
              /\ Carries(i) # Raw(PROBE) /\ Carries(i) = Sealed(i[1], Meant(i))
              /\ CanOpen(ExitKey(generation), Carries(i)) <=> generation = 0
              /\ (IF ExitSecure THEN OpenedPadded(Carries(i)) ELSE Opened(Carries(i)))
                 = Meant(i)
<1>1. i[1] \in Client /\ i[2] \in Nat
  BY Numbered
<1>2. CASE i[2] = 0
  BY <1>2, Controls, InTheClear DEF Carries
<1>3. CASE i[2] # 0
  <2>1. Meant(i) \in Words /\ Fits(Meant(i))
    BY <1>1, <1>3, SentTexts, Controls DEF Meant
  <2>2. Carries(i) = Sealed(i[1], Meant(i))
    BY <1>3 DEF Carries, Meant
  <2>3. mode \in Modes
    BY DEF Types
  <2> QED
    BY <1>1, <1>3, <2>1, <2>2, <2>3, Sealing
<1> QED
  BY <1>2, <1>3

(* The frames of a connection that is there.                                *)
LEMMA Frames ==
  ASSUME Types, Sent, NEW i \in ConnId, Made(i), Queued(i)
  PROVE  /\ conn[i] \in Connection /\ conn[i].up \in Seq(UpFrame) /\ Len(conn[i].up) \in Nat
         /\ LastOf(i) \in Nat /\ Taken(i) \in Int /\ i[2] <= LastOf(i) /\ i[2] \in Nat
         /\ i[2] - 1 <= Taken(i) /\ Taken(i) <= LastOf(i)
         /\ Len(conn[i].up) = LastOf(i) - Taken(i)
         /\ ~Secure => i[2] \in {0, 1}
         /\ i[2] = Len(sent[i[1]]) + 1 => Secure
         /\ Secure \/ i[2] = 0 => LastOf(i) = i[2]
<1>1. conn[i] \in Connection
  BY DEF Types
<1>2. conn[i].up \in Seq(UpFrame) /\ Len(conn[i].up) \in Nat
  BY <1>1 DEF Connection
<1>3. i[1] \in Client /\ i[2] \in Nat /\ Len(sent[i[1]]) \in Nat
  BY Numbered, SentTexts
<1>4. LastOf(i) \in Nat /\ (Secure \/ i[2] = 0 => LastOf(i) = i[2])
  <2>1. PICK n \in Nat : n = Len(sent[i[1]])
    BY <1>3
  <2>2. n + 0 \in Nat /\ n + 1 \in Nat
    BY <2>1
  <2> QED
    BY <1>3, <2>1, <2>2 DEF LastOf
<1>5. /\ i[2] = Len(sent[i[1]]) + 1 => Secure
      /\ ~Secure => i[2] <= 1
      /\ i[2] <= Len(sent[i[1]]) + 1
  BY DEF Made
<1>6. i[2] <= LastOf(i)
  <2>1. CASE Secure \/ i[2] = 0
    BY <1>3, <1>4, <2>1
  <2>2. CASE ~(Secure \/ i[2] = 0)
    <3>1. LastOf(i) = Len(sent[i[1]]) + 1 \/ LastOf(i) = Len(sent[i[1]]) + 0
      BY <2>2 DEF LastOf
    <3>2. i[2] # Len(sent[i[1]]) + 1
      BY <1>5, <2>2
    <3>3. i[2] <= Len(sent[i[1]])
      BY <1>3, <1>5, <3>2
    <3> QED
      BY <1>3, <3>1, <3>3
  <2> QED
    BY <2>1, <2>2
<1>7. Taken(i) = LastOf(i) - Len(conn[i].up) /\ Taken(i) >= i[2] - 1
  BY DEF Queued, Taken
<1> QED
  BY <1>1, <1>2, <1>3, <1>4, <1>5, <1>6, <1>7

(* The first frame not taken is the next one.                               *)
LEMMA NextWritten ==
  ASSUME Types, Sent, NEW i \in ConnId, Made(i), Queued(i), conn[i].up # <<>>
  PROVE  /\ Head(conn[i].up) = Written(i, Taken(i) + 1)
         /\ Taken(i) + 1 <= LastOf(i)
         /\ Tail(conn[i].up) \in Seq(UpFrame)
         /\ Len(Tail(conn[i].up)) = Len(conn[i].up) - 1
         /\ \A j \in 1 .. Len(Tail(conn[i].up)) :
              Tail(conn[i].up)[j] = conn[i].up[j + 1] /\ j + 1 \in 1 .. Len(conn[i].up)
<1>1. conn[i].up \in Seq(UpFrame) /\ Len(conn[i].up) = LastOf(i) - Taken(i)
      /\ LastOf(i) \in Nat /\ Taken(i) \in Int
  BY Frames
<1>2. Head(conn[i].up) = conn[i].up[1] /\ 1 \in 1 .. Len(conn[i].up)
  BY <1>1
<1>3. conn[i].up[1] = Written(i, Taken(i) + 1)
  BY <1>2 DEF Queued
<1>4. /\ Tail(conn[i].up) \in Seq(UpFrame)
      /\ Len(Tail(conn[i].up)) = Len(conn[i].up) - 1
      /\ \A j \in 1 .. Len(Tail(conn[i].up)) :
           Tail(conn[i].up)[j] = conn[i].up[j + 1] /\ j + 1 \in 1 .. Len(conn[i].up)
  BY <1>1
<1> QED
  BY <1>1, <1>2, <1>3, <1>4

(* The connection the exit serves.                                          *)
LEMMA Served ==
  ASSUME ExchangeInv, loop \notin {"accept", "ended"}
  PROVE  /\ job.conn \in ConnId /\ conn[job.conn].exit = "waiting"
         /\ Made(job.conn) /\ Queued(job.conn) /\ Taken(job.conn) >= job.conn[2]
         /\ conn[job.conn] \in Connection
         /\ conn[job.conn].down # <<>> => Streamed(job.conn)
         /\ Sender = job.conn[1] /\ Sender \in Client /\ Len(sent[job.conn[1]]) \in Nat
         /\ loop = "read" => Frame = Carries(job.conn)
<1>1. job.conn \in ConnId /\ conn[job.conn].exit = "waiting" /\ Taken(job.conn) >= job.conn[2]
  BY DEF ExchangeInv, Working
<1>2. Made(job.conn) /\ Queued(job.conn) /\ (conn[job.conn].down # <<>> => Streamed(job.conn))
  BY <1>1 DEF ExchangeInv, Conns, Answered
<1>3. conn[job.conn] \in Connection
  BY <1>1 DEF ExchangeInv, Types
<1>4. loop = "read" => job.frame = Carries(job.conn)
  <2>1. loop = "read" => job = [conn |-> job.conn, frame |-> Carries(job.conn)]
    BY DEF ExchangeInv, Working
  <2> QED
    BY <2>1
<1>5. job.conn[1] \in Client
  BY <1>1, Numbered
<1> QED
  BY <1>1, <1>2, <1>3, <1>4, <1>5, SentTexts DEF ExchangeInv, Sender, Frame


(* Without a message more, connections mean what they meant.                *)
LEMMA Unsent ==
  ASSUME sent' = sent, mode' = mode
  PROVE  /\ Secure' = Secure /\ ExitSecure' = ExitSecure
         /\ \A i : Carries(i)' = Carries(i) /\ Streamed(i)' = Streamed(i)
         /\ \A i, k : Written(i, k)' = Written(i, k)
         /\ \A c, x : ReplyTo(c, x)' = ReplyTo(c, x) /\ Body(x)' = Body(x)
         /\ Sent => Sent'
<1>1. Secure' = Secure /\ ExitSecure' = ExitSecure
  BY DEF Secure, ExitSecure
<1>2. \A c, m : Sealed(c, m)' = Sealed(c, m)
  BY <1>1 DEF Sealed
<1>3. \A i : Carries(i)' = Carries(i)
  BY <1>2 DEF Carries
<1>4. \A i, k : Written(i, k)' = Written(i, k)
  BY <1>2, <1>3 DEF Written
<1>5. \A i : Streamed(i)' = Streamed(i)
  BY DEF Streamed
<1>6. \A x : Body(x)' = Body(x)
  BY <1>1 DEF Body
<1>7. \A c, x : ReplyTo(c, x)' = ReplyTo(c, x)
  BY <1>1, <1>6 DEF ReplyTo
<1>8. Sent => Sent'
  BY DEF Sent, Sends, Pairs
<1> QED
  BY <1>1, <1>3, <1>4, <1>5, <1>6, <1>7, <1>8

(* A client that does nothing has asked for what it had.                    *)
LEMMA AskedStill ==
  ASSUME NEW c \in Client, Asked(c), Secure' = Secure,
         at'[c] = at[c], sent'[c] = sent[c], replies'[c] = replies[c],
         current'[c] = current[c],
         current[c] # NoConn /\ conn[current[c]].exit # "none"
           => conn'[current[c]].exit # "none",
         conn[<<c, 1>>].exit = "closed" /\ conn[<<c, 1>>].down = <<>>
           => conn'[<<c, 1>>].exit = "closed" /\ conn'[<<c, 1>>].down = <<>>
  PROVE  Asked(c)'
<1>1. current[c] # NoConn => conn'[current[c]].exit # "none"
  BY DEF Asked
<1>2. OnlyFirst(c) => OnlyFirst(c)'
  BY DEF OnlyFirst
<1>3. \A k : Matches(c, k)' = Matches(c, k)
  BY DEF Matches
<1> QED
  BY <1>1, <1>2, <1>3 DEF Asked

---------------------------------------------------------------------------------
(* The steps.                                                               *)

LEMMA ExchangeInit == ASSUME Init PROVE ExchangeInv
<1>1. Types
  <2>1. Unused \in Connection
    BY DEF Unused, Connection
  <2>2. conn \in [ConnId -> Connection]
    BY <2>1 DEF Init
  <2>3. sent \in [Client -> Seq(Words)] /\ replies \in [Client -> Seq(Words)]
    BY DEF Init
  <2>4. backlog \in Seq(ConnId) /\ arrived \in Seq(Arrival) /\ 0 \in 0 .. MaxRestarts
    BY Clientele DEF Init
  <2> QED
    BY <2>2, <2>3, <2>4 DEF Init, Types
<1>2. Sent
  <2>1. Pairs = {}
    BY DEF Init, Pairs
  <2>2. Sends = 0 /\ IsFiniteSet(Pairs)
    BY <2>1, FS_EmptySet DEF Sends, Pairs
  <2> QED
    BY <2>2, Clientele DEF Sent, Init
<1>3. Conns
  BY DEF Conns, Answered, Init, Unused
<1>4. ASSUME NEW c \in Client PROVE Asked(c)
  BY DEF Asked, Init
<1>5. Waiting /\ Working /\ Once /\ Notified
  BY DEF Init, Waiting, Working, Once, Notified
<1> QED
  BY <1>1, <1>2, <1>3, <1>4, <1>5 DEF ExchangeInv

(* What a step of the exit, of a destination or of the network may do to a  *)
(* connection: take frames, close, and answer as the invariant says.        *)
Fewer(i) ==
  /\ conn'[i].client = conn[i].client
  /\ conn'[i].exit = "none" <=> conn[i].exit = "none"
  /\ conn[i].exit = "closed" => conn'[i].exit = "closed"
  /\ Len(conn'[i].up) <= Len(conn[i].up)
  /\ \A j \in 1 .. Len(conn'[i].up) :
       conn'[i].up[j] = conn[i].up[j + (Len(conn[i].up) - Len(conn'[i].up))]
  /\ \/ conn'[i].down = <<>> \/ conn'[i].down = conn[i].down
     \/ conn[i].exit # "closed" /\ Answered(i)'

LEMMA ServedStep ==
  ASSUME ExchangeInv, mode' = mode, UNCHANGED clientVars, conn' \in [ConnId -> Connection],
         loop' \in {"accept", "read", "forward", "send", "stream", "ended"},
         generation' \in 0 .. MaxRestarts, backlog' \in Seq(ConnId), arrived' \in Seq(Arrival),
         disconnected' \subseteq Client, \A i \in ConnId : Fewer(i)
  PROVE  /\ Types' /\ Sent' /\ Conns' /\ \A c \in Client : Asked(c)'
         /\ \A i \in ConnId :
              /\ LastOf(i)' = LastOf(i)
              /\ conn[i].exit # "none" => Taken(i) <= Taken(i)'
              /\ conn'[i].up = conn[i].up => Taken(i)' = Taken(i)
<1> USE DEF ExchangeInv
<1>1. at' = at /\ sent' = sent /\ replies' = replies /\ current' = current
  BY DEF clientVars
<1>2. Types'
  BY <1>1 DEF Types
<1>3. Sent' /\ Secure' = Secure
  BY <1>1, Unsent
<1>4. ASSUME NEW i \in ConnId PROVE LastOf(i)' = LastOf(i)
  BY <1>1, <1>3 DEF LastOf
<1>5. ASSUME NEW i \in ConnId, conn'[i].up = conn[i].up PROVE Taken(i)' = Taken(i)
  BY <1>4, <1>5 DEF Taken
<1>6. ASSUME NEW i \in ConnId, conn[i].exit # "none"
      PROVE  Taken(i) <= Taken(i)' /\ Made(i)' /\ Queued(i)'
  <2>1. Made(i) /\ Queued(i)
    BY <1>6 DEF Conns
  <2>2. conn'[i].up \in Seq(UpFrame)
    BY DEF Connection
  <2>3. PICK n \in Nat : n = Len(conn[i].up)
    BY <2>1, Frames
  <2>4. PICK m \in Nat : m = Len(conn'[i].up)
    BY <2>2
  <2>5. m <= n /\ \A j \in 1 .. m : conn'[i].up[j] = conn[i].up[j + (n - m)]
    BY <2>3, <2>4 DEF Fewer
  <2>6. PICK l \in Nat : l = LastOf(i) /\ l = LastOf(i)'
    BY <1>4, <2>1, Frames
  <2>7. Taken(i) = l - n /\ Taken(i)' = l - m
    BY <2>3, <2>6, <2>4 DEF Taken
  <2>8. Taken(i) >= i[2] - 1 /\ i[2] \in Nat
    BY <2>1, Numbered DEF Queued
  <2>9. Made(i)'
    BY <1>1, <1>3, <2>1, Unsent DEF Made, Fewer
  <2>10. ASSUME NEW j \in 1 .. m PROVE conn'[i].up[j] = Written(i, l - m + j)
    <3>1. conn'[i].up[j] = conn[i].up[j + (n - m)] /\ j + (n - m) \in 1 .. n
      <4>1. j + (n - m) \in 1 .. n
        BY ONLY n \in Nat, m \in Nat, <2>5, j \in 1 .. m
      <4> QED
        BY <2>5, <4>1
    <3>2. conn[i].up[j + (n - m)] = Written(i, l - n + (j + (n - m)))
      BY <2>1, <2>3, <2>7, <3>1 DEF Queued
    <3>3. l - n + (j + (n - m)) = l - m + j
      BY ONLY n \in Nat, m \in Nat, l \in Nat, j \in 1 .. m
    <3> QED
      BY <3>1, <3>2, <3>3
  <2>11. Queued(i)'
    <3>1. \A j \in 1 .. m : Written(i, l - m + j)' = Written(i, l - m + j)
      BY <1>1, Unsent
    <3>2. l - m >= i[2] - 1
      <4>1. PICK k \in Nat : k = i[2]
        BY <2>8
      <4>2. l - n >= k - 1
        BY <2>7, <2>8, <4>1
      <4>3. l - m >= k - 1
        BY ONLY n \in Nat, m \in Nat, l \in Nat, k \in Nat, <2>5, <4>2
      <4> QED
        BY <4>1, <4>3
    <3>3. \A j \in 1 .. m : conn'[i].up[j] = Written(i, Taken(i) + j)'
      BY <2>7, <2>10, <3>1
    <3> QED
      BY <2>7, <2>4, <3>2, <3>3 DEF Queued
  <2>12. l - n <= l - m
    BY ONLY n \in Nat, m \in Nat, l \in Nat, <2>5
  <2> QED
    BY <2>7, <2>9, <2>11, <2>12
<1>7. Conns'
  <2> SUFFICES ASSUME NEW i \in ConnId
               PROVE  /\ IF conn'[i].exit = "none" THEN conn'[i].client = "none"
                         ELSE Made(i)' /\ Queued(i)'
                      /\ Answered(i)'
    BY DEF Conns
  <2>1. conn'[i].exit = "none" => conn'[i].client = "none"
    BY DEF Conns, Fewer
  <2>2. conn'[i].exit # "none" => Made(i)' /\ Queued(i)'
    BY <1>6 DEF Fewer
  <2>3. CASE conn'[i].down = conn[i].down
    <3>1. Answered(i)
      BY DEF Conns
    <3>2. Answers(conn[i].down[1], i) => Answers(conn[i].down[1], i)'
      BY <1>1, <2>3, Unsent DEF Answers
    <3>3. Streamed(i) => Streamed(i)'
      BY <1>1, Unsent
    <3> QED
      BY <2>1, <2>2, <2>3, <3>1, <3>2, <3>3 DEF Answered, Fewer
  <2>4. CASE conn'[i].down = <<>>
    BY <2>1, <2>2, <2>4 DEF Answered
  <2> QED
    BY <2>1, <2>2, <2>3, <2>4 DEF Fewer
<1>8. ASSUME NEW c \in Client PROVE Asked(c)'
  <2>1. Asked(c)
    OBVIOUS
  <2>2. current[c] # NoConn => current[c] \in ConnId
    BY DEF Types
  <2>3. <<c, 1>> \in ConnId
    BY Circuits
  <2>4. conn[<<c, 1>>].exit = "closed" /\ conn[<<c, 1>>].down = <<>>
          => conn'[<<c, 1>>].exit = "closed" /\ conn'[<<c, 1>>].down = <<>>
    BY <2>3 DEF Fewer
  <2>5. current[c] # NoConn /\ conn[current[c]].exit # "none" => conn'[current[c]].exit # "none"
    BY <2>2 DEF Fewer
  <2> QED
    BY <1>1, <1>3, <2>1, <2>4, <2>5, AskedStill
<1> QED
  BY <1>2, <1>3, <1>4, <1>5, <1>6, <1>7, <1>8

(* What is delivered stays so.                                              *)
LEMMA DeliveredStill ==
  ASSUME ExchangeInv, mode' = mode, sent' = sent, NEW a, NEW i \in ConnId,
         conn[i].exit # "none", Delivered(a, i), Taken(i) <= Taken(i)',
         conn'[i].up \in Seq(UpFrame), LastOf(i)' = LastOf(i)
  PROVE  Delivered(a, i)'
<1>1. PICK k \in 1 .. Len(sent[i[1]]) :
        /\ a.text = sent[i[1]][k] /\ k <= Taken(i)
        /\ IF a.wrapped THEN ~Secure /\ k > 1 /\ i[2] = 1 /\ Streamed(i) ELSE k = i[2]
  BY DEF Delivered
<1>2. Made(i) /\ Queued(i)
  BY DEF ExchangeInv, Conns
<1>3. Taken(i) \in Int /\ LastOf(i) \in Nat
  BY <1>2, Frames DEF ExchangeInv
<1>4. Taken(i)' \in Int
  <2>1. Len(conn'[i].up) \in Nat
    OBVIOUS
  <2>2. Taken(i)' = LastOf(i) - Len(conn'[i].up)
    BY DEF Taken
  <2>3. \A l \in Nat, n \in Nat : l - n \in Int
    OBVIOUS
  <2> QED
    BY <1>3, <2>1, <2>2, <2>3
<1>5. Len(sent[i[1]]) \in Nat
  BY Numbered, SentTexts DEF ExchangeInv
<1>6. PICK t \in Int, u \in Int : t = Taken(i) /\ u = Taken(i)' /\ t <= u
  BY <1>3, <1>4
<1>7. k <= Taken(i)'
  BY <1>1, <1>5, <1>6
<1>8. Secure' = Secure /\ Streamed(i)' = Streamed(i) /\ i[2] # 0
  BY Unsent DEF Delivered
<1> QED
  BY <1>1, <1>7, <1>8 DEF Delivered

LEMMA OnceKept ==
  ASSUME ExchangeInv, mode' = mode, sent' = sent, arrived' = arrived,
         conn' \in [ConnId -> Connection],
         \A i \in ConnId : conn[i].exit # "none" =>
           /\ conn'[i].exit # "none" /\ LastOf(i)' = LastOf(i) /\ Taken(i) <= Taken(i)'
           /\ Through(i) => Through(i)'
  PROVE  Once'
<1>1. ASSUME NEW j \in 1 .. Len(arrived)
      PROVE  \E i \in ConnId : /\ conn'[i].exit # "none" /\ Delivered(arrived[j], i)'
                               /\ ~arrived[j].wrapped => Through(i)'
  <2>1. PICK i \in ConnId : /\ conn[i].exit # "none" /\ Delivered(arrived[j], i)
                            /\ ~arrived[j].wrapped => Through(i)
    BY DEF ExchangeInv, Once
  <2>2. conn'[i].up \in Seq(UpFrame)
    BY DEF Connection
  <2>3. Delivered(arrived[j], i)'
    <3>1. \A a : Delivered(a, i) => Delivered(a, i)'
      BY <2>1, <2>2, DeliveredStill
    <3> QED
      BY <2>1, <3>1 DEF Delivered
  <2> QED
    BY <2>1, <2>3
<1> QED
  BY <1>1 DEF ExchangeInv, Once

LEMMA NotifiedKept ==
  ASSUME ExchangeInv, mode' = mode, UNCHANGED clientVars, generation' = generation,
         disconnected \subseteq disconnected',
         \A i \in ConnId : conn'[i].exit = conn[i].exit
  PROVE  Notified'
<1> SUFFICES ASSUME NEW c \in Client, Secure', generation' = 0,
                    at'[c] \in {"closing", "closed"}, Mine(c)'.exit = "closed"
             PROVE  c \in disconnected'
  BY DEF Notified
<1>1. at' = at /\ sent' = sent /\ current' = current /\ Secure
  BY DEF clientVars, Secure
<1>2. current[c] = <<c, Len(sent[c]) + 1>>
  <2>1. Asked(c) /\ at[c] \in {"closing", "closed"}
    BY <1>1 DEF ExchangeInv
  <2> QED
    BY <1>1, <2>1 DEF Asked
<1>3. current[c] \in ConnId
  BY <1>2, Circuits DEF ExchangeInv
<1>4. Mine(c).exit = "closed"
  BY <1>1, <1>3 DEF Mine
<1> QED
  BY <1>1, <1>4 DEF ExchangeInv, Notified

LEMMA WaitingKept ==
  ASSUME ExchangeInv, backlog' = backlog, job'.conn \in {job.conn, NoConn},
         \A i \in ConnId : i # job.conn /\ conn[i].exit = "waiting" =>
           conn'[i].exit = "waiting" /\ Taken(i)' = Taken(i)
  PROVE  Waiting'
<1>1. ASSUME NEW j \in 1 .. Len(backlog)
      PROVE  /\ conn'[backlog[j]].exit = "waiting" /\ backlog[j] # job'.conn
             /\ Taken(backlog[j])' = backlog[j][2] - 1
  <2>1. PICK i \in ConnId : i = backlog[j]
    BY DEF ExchangeInv, Types
  <2>2. conn[i].exit = "waiting" /\ i # job.conn /\ Taken(i) = i[2] - 1
    BY <2>1 DEF ExchangeInv, Waiting
  <2>3. conn'[i].exit = "waiting" /\ Taken(i)' = i[2] - 1 /\ i # NoConn
    BY <2>2, Numbered
  <2>4. Taken(i)' = Taken(backlog[j])'
    BY <2>1 DEF Taken, LastOf
  <2> QED
    BY <2>1, <2>2, <2>3, <2>4
<1> QED
  BY <1>1 DEF ExchangeInv, Waiting

LEMMA FewerUnread ==
  ASSUME Types, NEW i \in ConnId, conn'[i].up = conn[i].up, conn'[i].client = conn[i].client,
         conn'[i].exit = "none" <=> conn[i].exit = "none",
         conn[i].exit = "closed" => conn'[i].exit = "closed",
         \/ conn'[i].down = <<>> \/ conn'[i].down = conn[i].down
         \/ conn[i].exit # "closed" /\ Answered(i)'
  PROVE  Fewer(i)
<1>1. conn[i] \in Connection
  BY DEF Types
<1>2. PICK n \in Nat : n = Len(conn[i].up)
  BY <1>1 DEF Connection
<1>3. n <= n /\ \A j \in 1 .. n : j + (n - n) = j
  OBVIOUS
<1> QED
  BY <1>2, <1>3 DEF Fewer

(* The end of a connection at the exit.                                     *)
LEMMA DoneStep ==
  ASSUME ExchangeInv, mode' = mode, loop \notin {"accept", "ended"},
         NEW next \in {"accept", "ended"}, NEW reply \in Seq(DownFrame),
         reply # <<>> =>
           Len(reply) = 1 /\ Answers(reply[1], job.conn) /\ ~Streamed(job.conn),
         Done(next, reply),
         disconnected \subseteq disconnected', disconnected' \subseteq Client,
         Secure /\ generation = 0 /\ job.conn[2] = Len(sent[job.conn[1]]) + 1
           => job.conn[1] \in disconnected'
  PROVE  ExchangeInv'
<1> USE DEF ExchangeInv
<1>1. PICK w \in ConnId : w = job.conn
  BY Served
<1>2. conn[w].exit = "waiting" /\ conn[w] \in Connection
      /\ (conn[w].down # <<>> => Streamed(w))
  BY <1>1, Served
<1> DEFINE down == IF conn[w].client = "open" THEN conn[w].down \o reply ELSE conn[w].down
<1>3. /\ down = conn[w].down \/ (down = reply /\ reply # <<>>)
      /\ conn[w].down \in Seq(DownFrame)
  <2>1. conn[w].down \in Seq(DownFrame)
    BY <1>2 DEF Connection
  <2>2. \A s \in Seq(DownFrame) : s \o <<>> = s /\ <<>> \o s = s
    OBVIOUS
  <2>3. CASE reply = <<>>
    BY <2>1, <2>2, <2>3
  <2>4. CASE reply # <<>>
    <3>1. conn[w].down = <<>>
      BY <1>1, <1>2, <2>4
    <3> QED
      BY <2>1, <2>2, <2>4, <3>1
  <2> QED
    BY <2>3, <2>4
<1>4. down \in Seq(DownFrame)
  BY <1>3
<1>5. conn' = [conn EXCEPT ![w] = [conn[w] EXCEPT !.exit = "closed", !.down = down]]
  BY <1>1 DEF Done
<1> HIDE DEF down
<1>6. /\ at' = at /\ sent' = sent /\ replies' = replies /\ current' = current
      /\ UNCHANGED clientVars /\ backlog' = backlog /\ generation' = generation
      /\ arrived' = arrived /\ loop' = next /\ job' = None
  BY DEF Done, clientVars
<1>7. conn \in [ConnId -> Connection] /\ backlog \in Seq(ConnId) /\ arrived \in Seq(Arrival)
      /\ generation \in 0 .. MaxRestarts
  BY DEF Types
<1>8. [conn[w] EXCEPT !.exit = "closed", !.down = down] \in Connection
  BY <1>2, <1>4 DEF Connection
<1>9. /\ conn' \in [ConnId -> Connection]
      /\ conn'[w].exit = "closed" /\ conn'[w].down = down
      /\ conn'[w].client = conn[w].client /\ conn'[w].up = conn[w].up
      /\ \A i \in ConnId : i # w => conn'[i] = conn[i]
  BY <1>2, <1>5, <1>7, <1>8 DEF Connection
<1>10. ASSUME NEW i \in ConnId PROVE Fewer(i)
  <2>1. CASE i # w
    BY <1>9, <2>1, FewerUnread
  <2>2. CASE i = w
    <3>1. CASE down = conn[w].down
      BY <1>2, <1>9, <2>2, <3>1, FewerUnread
    <3>2. CASE down # conn[w].down
      <4>1. down = reply /\ reply # <<>>
        BY <1>3, <3>2
      <4>2. Len(down) = 1 /\ Answers(down[1], w)
        BY <1>1, <4>1
      <4>3. Answers(down[1], w) => Answers(conn[w].down[1], w)'
        BY <1>6, <1>9, Unsent DEF Answers
      <4>4. Answered(w)'
        BY <1>9, <4>2, <4>3 DEF Answered
      <4> QED
        BY <1>2, <1>9, <2>2, <4>4, FewerUnread
    <3> QED
      BY <3>1, <3>2
  <2> QED
    BY <2>1, <2>2
<1>11. /\ Types' /\ Sent' /\ Conns' /\ \A c \in Client : Asked(c)'
       /\ \A i \in ConnId : /\ LastOf(i)' = LastOf(i)
                            /\ conn[i].exit # "none" => Taken(i) <= Taken(i)'
                            /\ conn'[i].up = conn[i].up => Taken(i)' = Taken(i)
  BY <1>6, <1>7, <1>9, <1>10, ServedStep
<1>12. Waiting'
  <2>1. job'.conn = NoConn
    BY <1>6 DEF None
  <2> QED
    BY <1>1, <1>6, <1>9, <1>11, <2>1, WaitingKept
<1>13. Working'
  BY <1>6 DEF Working
<1>14. Once'
  <2>1. ASSUME NEW i \in ConnId, conn[i].exit # "none"
        PROVE  conn'[i].exit # "none" /\ (Through(i) => Through(i)')
    BY <1>1, <1>9, <2>1 DEF Through
  <2> QED
    BY <1>6, <1>9, <1>11, <2>1, OnceKept
<1>15. Notified'
  <2> SUFFICES ASSUME NEW c \in Client, Secure', generation' = 0,
                      at'[c] \in {"closing", "closed"}, Mine(c)'.exit = "closed"
               PROVE  c \in disconnected'
    BY DEF Notified
  <2>1. Secure /\ current[c] = <<c, Len(sent[c]) + 1>>
    <3>1. Asked(c) /\ Secure /\ at[c] \in {"closing", "closed"}
      BY <1>6, Unsent
    <3> QED
      BY <3>1 DEF Asked
  <2>2. current[c] \in ConnId
    BY <2>1, Circuits
  <2>3. CASE current[c] = w
    BY <1>1, <1>6, <2>1, <2>3
  <2>4. CASE current[c] # w
    BY <1>6, <1>9, <2>1, <2>2, <2>4 DEF Notified, Mine
  <2> QED
    BY <2>3, <2>4
<1> QED
  BY <1>11, <1>12, <1>13, <1>14, <1>15

LEMMA AnswerProbeStep ==
  ASSUME ExchangeInv, Matching, mode' = mode, AnswerProbe
  PROVE  ExchangeInv'
<1>1. /\ loop = "read" /\ Frame = Raw(PROBE) /\ disconnected' = disconnected
      /\ Done("accept", <<SealForClient(ClientKey(Sender), Answer)>>)
  BY DEF AnswerProbe
<1>2. job.conn \in ConnId /\ Frame = Carries(job.conn) /\ Sender \in Client
  BY <1>1, Served
<1>3. job.conn[2] = 0
  BY <1>1, <1>2, Carried DEF ExchangeInv
<1>4. PICK f \in DownFrame : f = SealForClient(ClientKey(Sender), Answer)
  <2>1. ClientKey(Sender) \in ClientKeys
    BY <1>2 DEF ClientKeys
  <2> QED
    BY <2>1, Controls DEF SealForClient, DownFrame
<1>5. <<f>> \in Seq(DownFrame) /\ Len(<<f>>) = 1 /\ <<f>>[1] = f
  OBVIOUS
<1>6. job.conn[1] \in Client /\ Len(sent[job.conn[1]]) \in Nat
  BY <1>2, Numbered, SentTexts DEF ExchangeInv
<1>7. Answers(f, job.conn) /\ ~Streamed(job.conn)
  BY <1>3, <1>6 DEF Answers, Streamed
<1>8. disconnected' \subseteq Client
  BY <1>1 DEF ExchangeInv, Types
<1>9. job.conn[2] # Len(sent[job.conn[1]]) + 1
  BY <1>3, <1>6
<1> QED
  BY <1>1, <1>4, <1>5, <1>7, <1>8, <1>9, DoneStep

LEMMA NothingSaid == <<>> \in Seq(DownFrame)
OBVIOUS

LEMMA ReadForeignStep ==
  ASSUME ExchangeInv, Matching, mode' = mode, ReadForeign
  PROVE  ExchangeInv'
<1>1. /\ loop = "read" /\ Frame # Raw(PROBE) /\ ~Readable /\ disconnected' = disconnected
      /\ Done("ended", <<>>)
  BY DEF ReadForeign
<1>2. job.conn \in ConnId /\ Frame = Carries(job.conn)
  BY <1>1, Served
<1>3. generation # 0
  BY <1>1, <1>2, Carried DEF ExchangeInv, Readable
<1>4. disconnected' \subseteq Client
  BY <1>1 DEF ExchangeInv, Types
<1> QED
  BY <1>1, <1>3, <1>4, NothingSaid, DoneStep

LEMMA StreamEndsStep ==
  ASSUME ExchangeInv, mode' = mode, StreamEnds
  PROVE  ExchangeInv'
<1>1. loop = "stream" /\ disconnected' = disconnected /\ Done("accept", <<>>)
  BY DEF StreamEnds
<1>2. job.conn[2] \in 1 .. Len(sent[job.conn[1]])
  BY <1>1 DEF ExchangeInv, Working, Streamed
<1>3. job.conn[1] \in Client /\ Len(sent[job.conn[1]]) \in Nat
  BY <1>1, Served, Numbered, SentTexts DEF ExchangeInv
<1>4. job.conn[2] # Len(sent[job.conn[1]]) + 1
  BY <1>2, <1>3
<1>5. disconnected' \subseteq Client
  BY <1>1 DEF ExchangeInv, Types
<1> QED
  BY <1>1, <1>4, <1>5, NothingSaid, DoneStep

LEMMA ReadCloseStep ==
  ASSUME ExchangeInv, Matching, mode' = mode, ReadClose
  PROVE  ExchangeInv'
<1>1. loop = "read" /\ disconnected' = disconnected \cup {Sender} /\ Done("accept", <<>>)
  BY DEF ReadClose, ReadMessage
<1>2. Sender = job.conn[1] /\ Sender \in Client
  BY <1>1, Served
<1>3. disconnected' \subseteq Client /\ disconnected \subseteq disconnected'
      /\ job.conn[1] \in disconnected'
  BY <1>1, <1>2 DEF ExchangeInv, Types
<1> QED
  BY <1>1, <1>3, NothingSaid, DoneStep

LEMMA SendReplyStep ==
  ASSUME ExchangeInv, Matching, mode' = mode, SendReply
  PROVE  ExchangeInv'
<1>1. /\ loop = "send" /\ disconnected' = disconnected
      /\ IF ExitSecure /\ ~Fits(Body(job.message)) THEN Done("ended", <<>>)
         ELSE Done("accept", <<ReplyTo(Sender, job.message)>>)
  BY DEF SendReply
<1>2. PICK i \in ConnId : i = job.conn
  BY <1>1, Served
<1>3. i[1] \in Client /\ Sender = i[1] /\ Len(sent[i[1]]) \in Nat
  BY <1>1, <1>2, Served, Numbered, SentTexts DEF ExchangeInv
<1>4. i[2] \in 1 .. Len(sent[i[1]]) /\ ~Streamed(i)
  BY <1>1, <1>2 DEF ExchangeInv, Working
<1>5. i[2] # Len(sent[i[1]]) + 1
  BY <1>3, <1>4
<1>6. disconnected' \subseteq Client
  BY <1>1 DEF ExchangeInv, Types
<1>7. PICK x \in Outcomes(sent[i[1]][i[2]]) : job = [conn |-> job.conn, message |-> x]
  BY <1>1, <1>2 DEF ExchangeInv, Working
<1>8. job.message = x
  BY <1>7
<1>9. x \in Words
  BY <1>3, <1>4, <1>7, SentTexts, Controls DEF Outcomes, ExchangeInv
<1>10. CASE ExitSecure /\ ~Fits(Body(x))
  BY <1>1, <1>2, <1>5, <1>6, <1>8, <1>10, NothingSaid, DoneStep
<1>11. CASE ~(ExitSecure /\ ~Fits(Body(x)))
  <2>1. PICK f \in DownFrame : f = ReplyTo(i[1], x)
    BY <1>3, <1>9, <1>11, Replying DEF ExchangeInv, Types
  <2>2. Answers(f, i)
    BY <1>3, <1>4, <1>7, <1>11, <2>1 DEF Answers
  <2>3. <<f>> \in Seq(DownFrame) /\ Len(<<f>>) = 1 /\ <<f>>[1] = f
    OBVIOUS
  <2>4. Done("accept", <<f>>)
    BY <1>1, <1>3, <1>8, <1>11, <2>1
  <2> QED
    BY <1>1, <1>2, <1>4, <1>5, <1>6, <2>2, <2>3, <2>4, DoneStep
<1> QED
  BY <1>10, <1>11


(* Steps of the exit that leave the connections and the clients alone.      *)
LEMMA QuietStep ==
  ASSUME ExchangeInv, mode' = mode, UNCHANGED <<clientVars, conn, generation, disconnected>>,
         loop' \in {"accept", "read", "forward", "send", "stream", "ended"},
         backlog' \in Seq(ConnId), arrived' \in Seq(Arrival)
  PROVE  /\ Types' /\ Sent' /\ Conns' /\ (\A c \in Client : Asked(c)') /\ Notified'
         /\ sent' = sent /\ conn' = conn
         /\ \A i : /\ Taken(i)' = Taken(i) /\ LastOf(i)' = LastOf(i)
                   /\ Carries(i)' = Carries(i) /\ Streamed(i)' = Streamed(i)
<1> USE DEF ExchangeInv
<1>1. /\ at' = at /\ sent' = sent /\ replies' = replies /\ current' = current /\ conn' = conn
      /\ generation' = generation /\ disconnected' = disconnected /\ UNCHANGED clientVars
  BY DEF clientVars
<1>2. /\ conn' \in [ConnId -> Connection] /\ generation' \in 0 .. MaxRestarts
      /\ disconnected' \subseteq Client
  BY <1>1 DEF Types
<1>3. \A i \in ConnId : Fewer(i)
  BY <1>1, FewerUnread
<1>4. Types' /\ Sent' /\ Conns' /\ \A c \in Client : Asked(c)'
  BY <1>1, <1>2, <1>3, ServedStep
<1>5. Notified'
  BY <1>1, NotifiedKept
<1>6. \A i : /\ Taken(i)' = Taken(i) /\ LastOf(i)' = LastOf(i)
             /\ Carries(i)' = Carries(i) /\ Streamed(i)' = Streamed(i)
  BY <1>1, Unsent DEF Taken, LastOf
<1> QED
  BY <1>1, <1>4, <1>5, <1>6

(* A frame is taken from a connection.                                      *)
LEMMA TakesStep ==
  ASSUME ExchangeInv, mode' = mode, UNCHANGED <<clientVars, generation, disconnected>>,
         NEW w \in ConnId, conn[w].exit = "waiting", conn[w].up # <<>>,
         conn' = [conn EXCEPT ![w].up = Tail(@)],
         loop' \in {"accept", "read", "forward", "send", "stream", "ended"},
         backlog' \in Seq(ConnId), arrived' \in Seq(Arrival)
  PROVE  /\ Types' /\ Sent' /\ Conns' /\ (\A c \in Client : Asked(c)') /\ Notified'
         /\ sent' = sent /\ conn' \in [ConnId -> Connection]
         /\ Taken(w) \in Int /\ Taken(w)' = Taken(w) + 1
         /\ \A i \in ConnId : i # w => Taken(i)' = Taken(i)
         /\ \A i \in ConnId : /\ conn'[i].exit = conn[i].exit /\ LastOf(i)' = LastOf(i)
                              /\ conn[i].exit # "none" => Taken(i) <= Taken(i)'
         /\ \A i : Carries(i)' = Carries(i) /\ Streamed(i)' = Streamed(i)
<1> USE DEF ExchangeInv
<1>1. /\ at' = at /\ sent' = sent /\ replies' = replies /\ current' = current
      /\ generation' = generation /\ disconnected' = disconnected /\ UNCHANGED clientVars
  BY DEF clientVars
<1>2. conn \in [ConnId -> Connection] /\ conn[w] \in Connection /\ Made(w) /\ Queued(w)
  BY DEF Types, Conns
<1>3. PICK u \in Seq(UpFrame) : /\ u = Tail(conn[w].up) /\ Len(u) = Len(conn[w].up) - 1
                                /\ \A j \in 1 .. Len(u) : u[j] = conn[w].up[j + 1]
  BY <1>2, NextWritten
<1>4. [conn[w] EXCEPT !.up = u] \in Connection
  BY <1>2 DEF Connection
<1>5. conn' = [conn EXCEPT ![w] = [conn[w] EXCEPT !.up = u]]
  BY <1>3
<1>6. /\ conn' \in [ConnId -> Connection] /\ conn'[w].up = u
      /\ conn'[w].exit = conn[w].exit /\ conn'[w].client = conn[w].client
      /\ conn'[w].down = conn[w].down
      /\ \A i \in ConnId : i # w => conn'[i] = conn[i]
  <2>1. PICK r \in Connection : /\ r = [conn[w] EXCEPT !.up = u] /\ r.up = u
                                /\ r.exit = conn[w].exit /\ r.client = conn[w].client
                                /\ r.down = conn[w].down
    BY <1>2, <1>4 DEF Connection
  <2>2. conn' = [conn EXCEPT ![w] = r]
    BY <1>5, <2>1
  <2> QED
    BY <1>2, <2>1, <2>2
<1>7. PICK n \in Nat, l \in Nat : n = Len(u) /\ Len(conn[w].up) = n + 1 /\ l = LastOf(w)
  <2>1. Len(conn[w].up) \in Nat /\ LastOf(w) \in Nat
    BY <1>2, Frames
  <2>2. Len(u) \in Nat
    OBVIOUS
  <2> QED
    BY <1>3, <2>1, <2>2
<1>8. ASSUME NEW i \in ConnId PROVE Fewer(i)
  <2>1. CASE i # w
    BY <1>6, <2>1, FewerUnread
  <2>2. CASE i = w
    <3>1. n <= n + 1 /\ \A j \in 1 .. n : j + (n + 1 - n) = j + 1
      OBVIOUS
    <3> QED
      BY <1>3, <1>6, <1>7, <2>2, <3>1 DEF Fewer
  <2> QED
    BY <2>1, <2>2
<1>9. generation' \in 0 .. MaxRestarts /\ disconnected' \subseteq Client
  BY <1>1 DEF Types
<1>10. /\ Types' /\ Sent' /\ Conns' /\ \A c \in Client : Asked(c)'
       /\ \A i \in ConnId : /\ LastOf(i)' = LastOf(i)
                            /\ conn[i].exit # "none" => Taken(i) <= Taken(i)'
                            /\ conn'[i].up = conn[i].up => Taken(i)' = Taken(i)
  BY <1>1, <1>6, <1>8, <1>9, ServedStep
<1>11. \A i \in ConnId : conn'[i].exit = conn[i].exit
  BY <1>6
<1>12. Notified'
  BY <1>1, <1>11, NotifiedKept
<1>13. Taken(w) \in Int /\ Taken(w)' = Taken(w) + 1
  <2>1. Taken(w) = l - (n + 1) /\ Taken(w)' = l - n
    BY <1>6, <1>7, <1>10 DEF Taken
  <2>2. l - (n + 1) \in Int /\ l - n = l - (n + 1) + 1
    OBVIOUS
  <2> QED
    BY <2>1, <2>2
<1> QED
  BY <1>1, <1>6, <1>10, <1>11, <1>12, <1>13, Unsent

(* The exit stays with its connection and its message.                      *)
LEMMA OnceAppended ==
  ASSUME ExchangeInv, mode' = mode, sent' = sent, conn' \in [ConnId -> Connection],
         NEW a \in Arrival, arrived' = Append(arrived, a),
         \A i \in ConnId : conn[i].exit # "none" =>
           /\ conn'[i].exit # "none" /\ LastOf(i)' = LastOf(i) /\ Taken(i) <= Taken(i)'
           /\ Through(i) => Through(i)',
         \A j \in 1 .. Len(arrived) : arrived[j].text = a.text => a.text = <<>>,
         NEW w \in ConnId, conn'[w].exit # "none", Delivered(a, w)',
         ~a.wrapped => Through(w)'
  PROVE  Once'
<1>1. arrived \in Seq(Arrival)
  BY DEF ExchangeInv, Types
<1>2. PICK n \in Nat : n = Len(arrived)
  BY <1>1
<1>3. /\ Len(arrived') = n + 1 /\ arrived'[n + 1] = a
      /\ \A j \in 1 .. n + 1 : j # n + 1 => j \in 1 .. n /\ arrived'[j] = arrived[j]
  BY <1>1, <1>2
<1>4. ASSUME NEW j \in 1 .. n, NEW b, b = arrived[j]
      PROVE  \E i \in ConnId : /\ conn'[i].exit # "none" /\ Delivered(b, i)'
                               /\ ~b.wrapped => Through(i)'
  <2>1. PICK i \in ConnId : /\ conn[i].exit # "none" /\ Delivered(arrived[j], i)
                            /\ ~arrived[j].wrapped => Through(i)
    BY <1>2 DEF ExchangeInv, Once
  <2>2. conn'[i].up \in Seq(UpFrame)
    BY DEF Connection
  <2>3. Delivered(b, i)
    BY <1>4, <2>1 DEF Delivered
  <2>4. Delivered(b, i)'
    BY <2>1, <2>2, <2>3, DeliveredStill
  <2> QED
    BY <1>4, <2>1, <2>4
<1>5. ASSUME NEW j \in 1 .. Len(arrived')
      PROVE  \E i \in ConnId : /\ conn'[i].exit # "none" /\ Delivered(arrived[j], i)'
                               /\ ~arrived'[j].wrapped => Through(i)'
  <2>1. PICK b : b = arrived'[j]
    OBVIOUS
  <2>2. PICK i \in ConnId : /\ conn'[i].exit # "none" /\ Delivered(b, i)'
                            /\ ~b.wrapped => Through(i)'
    <3>1. CASE j = n + 1
      BY <1>3, <2>1, <3>1
    <3>2. CASE j # n + 1
      <4>1. j \in 1 .. n /\ b = arrived[j]
        BY <1>3, <2>1, <3>2
      <4> QED
        BY <4>1, <1>4
    <3> QED
      BY <3>1, <3>2
  <2>3. Delivered(arrived[j], i)'
    BY <2>1, <2>2 DEF Delivered
  <2> QED
    BY <2>1, <2>2, <2>3
<1>6. \A j, l \in 1 .. Len(arrived') :
        arrived'[j].text = arrived'[l].text /\ arrived'[j].text # <<>> => j = l
  <2>1. \A j, l \in 1 .. n :
          arrived[j].text = arrived[l].text /\ arrived[j].text # <<>> => j = l
    BY <1>2 DEF ExchangeInv, Once
  <2>2. \A j \in 1 .. n : arrived[j].text = a.text => a.text = <<>>
    BY <1>2
  <2> QED
    BY <1>3, <2>1, <2>2
<1> QED
  BY <1>5, <1>6 DEF Once


LEMMA AcceptStep ==
  ASSUME ExchangeInv, mode' = mode, Accept
  PROVE  ExchangeInv'
<1> USE DEF ExchangeInv
<1>1. backlog \in Seq(ConnId) /\ arrived \in Seq(Arrival) /\ backlog # <<>>
  BY DEF Types, Accept
<1>2. PICK w \in ConnId : w = Head(backlog) /\ w = backlog[1] /\ 1 \in 1 .. Len(backlog)
  BY <1>1
<1>3. /\ loop = "accept" /\ loop' = "read" /\ backlog' = Tail(backlog)
      /\ job' = [conn |-> w, frame |-> Head(conn[w].up)]
      /\ conn' = [conn EXCEPT ![w].up = Tail(@)] /\ arrived' = arrived
      /\ UNCHANGED <<clientVars, generation, disconnected>>
  BY <1>2 DEF Accept
<1>4. conn[w].exit = "waiting" /\ Taken(w) = w[2] - 1 /\ Made(w) /\ Queued(w)
  BY <1>2 DEF Waiting, Conns
<1>5. conn[w].up # <<>> /\ w[2] \in Nat
  <2>1. /\ Len(conn[w].up) = LastOf(w) - Taken(w) /\ LastOf(w) \in Nat /\ w[2] \in Nat
        /\ w[2] <= LastOf(w) /\ conn[w].up \in Seq(UpFrame)
    BY <1>4, Frames
  <2>2. \A l, k \in Nat : k <= l => l - (k - 1) # 0
    OBVIOUS
  <2>3. Len(conn[w].up) # 0
    BY <1>4, <2>1, <2>2
  <2> QED
    BY <2>1, <2>3
<1>6. Head(conn[w].up) = Carries(w)
  <2>1. Head(conn[w].up) = Written(w, Taken(w) + 1)
    BY <1>4, <1>5, NextWritten
  <2>2. Taken(w) + 1 = w[2]
    BY <1>4, <1>5
  <2> QED
    BY <2>1, <2>2 DEF Written
<1>7. /\ backlog' \in Seq(ConnId) /\ Len(backlog') = Len(backlog) - 1 /\ Len(backlog) \in Nat
      /\ \A j \in 1 .. Len(backlog') : /\ backlog'[j] = backlog[j + 1]
                                       /\ j + 1 \in 1 .. Len(backlog) /\ j + 1 # 1
  BY <1>1, <1>3
<1>8. /\ Types' /\ Sent' /\ Conns' /\ (\A c \in Client : Asked(c)') /\ Notified'
      /\ sent' = sent /\ conn' \in [ConnId -> Connection]
      /\ Taken(w) \in Int /\ Taken(w)' = Taken(w) + 1
      /\ \A i \in ConnId : i # w => Taken(i)' = Taken(i)
      /\ \A i \in ConnId : /\ conn'[i].exit = conn[i].exit /\ LastOf(i)' = LastOf(i)
                           /\ conn[i].exit # "none" => Taken(i) <= Taken(i)'
      /\ \A i : Carries(i)' = Carries(i) /\ Streamed(i)' = Streamed(i)
  BY <1>1, <1>3, <1>4, <1>5, <1>7, TakesStep
<1>9. job'.conn = w /\ job' = [conn |-> job'.conn, frame |-> Carries(w)]
  BY <1>3, <1>6
<1>10. Waiting'
  <2>1. ASSUME NEW j \in 1 .. Len(backlog')
        PROVE  /\ conn'[backlog'[j]].exit = "waiting" /\ backlog'[j] # w
               /\ Taken(backlog[j])' = backlog'[j][2] - 1
    <3>1. PICK i \in ConnId : i = backlog'[j] /\ i = backlog[j + 1] /\ j + 1 \in 1 .. Len(backlog)
      BY <1>1, <1>7
    <3>2. conn[i].exit = "waiting" /\ i # w /\ Taken(i) = i[2] - 1
      BY <1>2, <1>7, <3>1 DEF Waiting
    <3>3. conn'[i].exit = "waiting" /\ Taken(i)' = i[2] - 1
      BY <1>8, <3>2
    <3>4. Taken(backlog[j])' = Taken(i)'
      BY <3>1 DEF Taken, LastOf
    <3> QED
      BY <3>1, <3>2, <3>3, <3>4
  <2>2. \A j, l \in 1 .. Len(backlog') : backlog'[j] = backlog'[l] => j = l
    <3> TAKE j, l \in 1 .. Len(backlog')
    <3>1. backlog'[j] = backlog[j + 1] /\ backlog'[l] = backlog[l + 1]
          /\ j + 1 \in 1 .. Len(backlog) /\ l + 1 \in 1 .. Len(backlog)
      BY <1>7
    <3>2. backlog[j + 1] = backlog[l + 1] => j + 1 = l + 1
      BY <3>1 DEF Waiting
    <3> QED
      BY <1>7, <3>1, <3>2
  <2> QED
    BY <1>9, <2>1, <2>2 DEF Waiting
<1>11. Working'
  <2>1. w[2] - 1 + 1 = w[2] /\ w[2] >= w[2]
    BY <1>5
  <2>2. Taken(w)' >= w[2]
    BY <1>4, <1>8, <2>1
  <2>3. Taken(job.conn)' = Taken(w)' /\ Carries(job.conn)' = Carries(w)'
    BY <1>9 DEF Taken, LastOf, Carries
  <2>4. job' = [conn |-> job'.conn, frame |-> Carries(job.conn)']
    BY <1>8, <1>9, <2>3
  <2> QED
    BY <1>3, <1>4, <1>8, <1>9, <2>2, <2>3, <2>4 DEF Working
<1>12. Once'
  <2>1. ASSUME NEW i \in ConnId, conn[i].exit # "none"
        PROVE  conn'[i].exit # "none" /\ (Through(i) => Through(i)')
    BY <1>3, <1>8, <2>1 DEF Through
  <2> QED
    BY <1>3, <1>8, <2>1, OnceKept
<1> QED
  BY <1>8, <1>10, <1>11, <1>12

(* What the exit reads from a connection when it is a message for it.       *)
LEMMA ReadsMeant ==
  ASSUME ExchangeInv, Matching, loop = "read", Frame # Raw(PROBE), Readable
  PROVE  /\ job.conn \in ConnId /\ job.conn[2] # 0 /\ job.conn[2] \in Nat
         /\ job.conn[1] \in Client /\ Len(sent[job.conn[1]]) \in Nat
         /\ Message = Meant(job.conn)
<1>1. PICK i \in ConnId : i = job.conn
  BY Served
<1>2. Frame = Carries(i)
  BY <1>1, Served
<1>3. i[2] # 0
  BY <1>2, Carried DEF ExchangeInv
<1>4. Message = Meant(i)
  BY <1>2, <1>3, Carried DEF ExchangeInv, Message
<1>5. i[1] \in Client /\ i[2] \in Nat /\ Len(sent[i[1]]) \in Nat
  BY Numbered, SentTexts DEF ExchangeInv
<1> QED
  BY <1>1, <1>3, <1>4, <1>5

(* Steps that leave the connections alone, and the exit with its own.       *)
LEMMA StaysStep ==
  ASSUME ExchangeInv, mode' = mode,
         UNCHANGED <<clientVars, conn, backlog, generation, arrived, disconnected>>,
         loop \notin {"accept", "ended", "send"}, loop' \in {"stream", "forward", "send"},
         job'.conn = job.conn,
         loop' = "stream" => job' \in Stream /\ Streamed(job.conn),
         loop' \in {"forward", "send"} =>
           /\ job.conn[2] \in 1 .. Len(sent[job.conn[1]]) /\ ~Streamed(job.conn)
           /\ job' = [conn |-> job.conn, message |-> sent[job.conn[1]][job.conn[2]]]
  PROVE  ExchangeInv'
<1> USE DEF ExchangeInv
<1>1. backlog' \in Seq(ConnId) /\ arrived' \in Seq(Arrival)
  BY DEF Types
<1>2. /\ Types' /\ Sent' /\ Conns' /\ (\A c \in Client : Asked(c)') /\ Notified'
      /\ sent' = sent /\ conn' = conn
      /\ \A i : /\ Taken(i)' = Taken(i) /\ LastOf(i)' = LastOf(i)
                /\ Carries(i)' = Carries(i) /\ Streamed(i)' = Streamed(i)
  BY <1>1, QuietStep
<1>3. PICK w \in ConnId : /\ w = job.conn /\ conn[w].exit = "waiting" /\ Taken(w) >= w[2]
  BY DEF Working
<1>4. Waiting'
  BY <1>2, WaitingKept
<1>5. Working'
  <2>1. Taken(job.conn)' = Taken(w)' /\ Streamed(job.conn)' = Streamed(w)'
    BY <1>3 DEF Taken, LastOf, Streamed
  <2>2. Taken(job.conn)' >= job'.conn[2] /\ Streamed(job.conn)' = Streamed(w)
    BY <1>2, <1>3, <2>1
  <2>3. loop' = "send" =>
          \E x \in Outcomes(sent[w[1]][w[2]]) : job' = [conn |-> w, message |-> x]
    BY <1>3 DEF Outcomes
  <2> QED
    BY <1>2, <1>3, <2>2, <2>3 DEF Working, Outcomes
<1>6. Once'
  <2>1. \A i \in ConnId : conn[i].exit # "none" =>
          /\ conn'[i].exit # "none" /\ LastOf(i)' = LastOf(i) /\ Taken(i) <= Taken(i)'
          /\ Through(i) => Through(i)'
    <3> TAKE i \in ConnId
    <3> HAVE conn[i].exit # "none"
    <3>1. Made(i) /\ Queued(i)
      BY DEF Conns
    <3>2. Taken(i) \in Int
      BY <3>1, Frames
    <3>3. \A t \in Int : t <= t
      OBVIOUS
    <3>4. Through(i) => Through(i)'
      BY <1>2 DEF Through
    <3> QED
      BY <1>2, <3>2, <3>3, <3>4
  <2>2. conn' \in [ConnId -> Connection]
    BY <1>2 DEF Types
  <2> QED
    BY <1>2, <2>1, <2>2, OnceKept
<1> QED
  BY <1>2, <1>4, <1>5, <1>6

LEMMA ReadStreamStep ==
  ASSUME ExchangeInv, Matching, mode' = mode, ReadStream
  PROVE  ExchangeInv'
<1> USE DEF ExchangeInv
<1>1. /\ loop = "read" /\ Frame # Raw(PROBE) /\ Readable /\ StreamRequest(Message)
      /\ disconnected' = disconnected
  BY DEF ReadStream
<1>2. Meant(job.conn) # CLIENT_CLOSE
  BY <1>1, ReadsMeant, Controls DEF StreamRequest
<1>3. Streamed(job.conn)
  BY <1>1, <1>2, ReadsMeant DEF Meant, Streamed
<1>4. job.conn \in ConnId
  BY <1>1, ReadsMeant
<1>5. CASE Done("accept", <<>>)
  <2>1. job.conn[2] # Len(sent[job.conn[1]]) + 1
    BY <1>1, <1>3, ReadsMeant DEF Streamed
  <2>2. disconnected' \subseteq Client
    BY <1>1 DEF Types
  <2> QED
    BY <1>1, <1>5, <2>1, <2>2, NothingSaid, DoneStep
<1>6. CASE /\ loop' = "stream"
           /\ job' = [conn |-> job.conn, keys |-> AreStreamKeys(Message),
                      reader |-> "run", stop |-> FALSE, said |-> 0]
           /\ UNCHANGED <<clientVars, conn, backlog, generation, arrived>>
  <2>1. job' \in Stream /\ job'.conn = job.conn
    BY <1>4, <1>6 DEF Stream, AreStreamKeys
  <2> QED
    BY <1>1, <1>3, <1>6, <2>1, StaysStep
<1> QED
  BY <1>5, <1>6 DEF ReadStream

LEMMA ReadOtherStep ==
  ASSUME ExchangeInv, Matching, mode' = mode, ReadOther
  PROVE  ExchangeInv'
<1>1. /\ loop = "read" /\ loop' \in {"send", "forward"} /\ Frame # Raw(PROBE) /\ Readable
      /\ ~StreamRequest(Message) /\ Message # CLIENT_CLOSE
      /\ job' = [conn |-> job.conn, message |-> Message]
      /\ UNCHANGED <<clientVars, conn, backlog, generation, arrived, disconnected>>
  BY DEF ReadOther, ReadMessage
<1>2. job'.conn = job.conn
  BY <1>1
<1>3. /\ job.conn[2] \in 1 .. Len(sent[job.conn[1]])
      /\ Message = sent[job.conn[1]][job.conn[2]]
  BY <1>1, ReadsMeant DEF Meant
<1>4. ~Streamed(job.conn)
  BY <1>1, <1>3 DEF Streamed
<1> QED
  BY <1>1, <1>2, <1>3, <1>4, StaysStep

LEMMA StreamClientEndsStep ==
  ASSUME ExchangeInv, mode' = mode, StreamClientEnds
  PROVE  ExchangeInv'
<1>1. /\ loop = "stream" /\ loop' = "stream"
      /\ job' \in {[job EXCEPT !.reader = "ended", !.stop = TRUE],
                   [job EXCEPT !.reader = "raised"]}
      /\ UNCHANGED <<clientVars, conn, backlog, generation, arrived, disconnected>>
  BY DEF StreamClientEnds
<1>2. job \in Stream /\ Streamed(job.conn)
  BY <1>1 DEF ExchangeInv, Working
<1>3. job' \in Stream /\ job'.conn = job.conn
  BY <1>1, <1>2 DEF Stream
<1> QED
  BY <1>1, <1>2, <1>3, StaysStep

LEMMA DestinationEndsStep ==
  ASSUME ExchangeInv, mode' = mode, DestinationEnds
  PROVE  ExchangeInv'
<1>1. /\ loop = "stream" /\ loop' = "stream" /\ job' = [job EXCEPT !.stop = TRUE]
      /\ UNCHANGED <<clientVars, conn, backlog, generation, arrived, disconnected>>
  BY DEF DestinationEnds
<1>2. job \in Stream /\ Streamed(job.conn)
  BY <1>1 DEF ExchangeInv, Working
<1>3. job' \in Stream /\ job'.conn = job.conn
  BY <1>1, <1>2 DEF Stream
<1> QED
  BY <1>1, <1>2, <1>3, StaysStep


(* A text that has arrived is the message of one connection and number.     *)
LEMMA ArrivedFrom ==
  ASSUME ExchangeInv, NEW j \in 1 .. Len(arrived), NEW c \in Client,
         NEW k \in 1 .. Len(sent[c]), arrived[j].text = sent[c][k], sent[c][k] # <<>>
  PROVE  \E i \in ConnId :
           /\ i[1] = c /\ k <= Taken(i) /\ conn[i].exit # "none"
           /\ arrived[j].wrapped => ~Secure /\ k > 1 /\ i[2] = 1
           /\ ~arrived[j].wrapped => k = i[2] /\ Through(i)
<1>1. PICK i \in ConnId : /\ conn[i].exit # "none" /\ Delivered(arrived[j], i)
                          /\ ~arrived[j].wrapped => Through(i)
  BY DEF ExchangeInv, Once
<1>2. PICK l \in 1 .. Len(sent[i[1]]) :
        /\ arrived[j].text = sent[i[1]][l] /\ l <= Taken(i)
        /\ IF arrived[j].wrapped THEN ~Secure /\ l > 1 /\ i[2] = 1 /\ Streamed(i) ELSE l = i[2]
  BY <1>1 DEF Delivered
<1>3. PICK d \in Client : d = i[1]
  BY Numbered
<1>4. l \in 1 .. Len(sent[d]) /\ sent[c][k] = sent[d][l]
  BY <1>2, <1>3
<1>5. c = d /\ k = l
  BY <1>4, SentOnce DEF ExchangeInv
<1> QED
  BY <1>1, <1>2, <1>3, <1>5

LEMMA ForwardStep ==
  ASSUME ExchangeInv, Matching, mode' = mode, Forward
  PROVE  ExchangeInv'
<1> USE DEF ExchangeInv
<1>1. PICK i \in ConnId : i = job.conn
  BY Served DEF Forward
<1>2. PICK m : m = sent[i[1]][i[2]]
  OBVIOUS
<1>3. /\ loop = "forward" /\ loop' = "send" /\ backlog' = backlog
      /\ UNCHANGED <<clientVars, conn, generation, disconnected>>
      /\ \/ /\ arrived' = Append(arrived, Bare(job.message))
            /\ \E r \in {job.message, NoReply, Unreachable} : job' = [job EXCEPT !.message = r]
         \/ arrived' = arrived /\ job' = [job EXCEPT !.message = Unreachable]
  BY DEF Forward
<1>4. /\ conn[i].exit = "waiting" /\ i[1] \in Client /\ Taken(i) >= i[2]
      /\ i[2] \in 1 .. Len(sent[i[1]]) /\ ~Streamed(i) /\ job = [conn |-> i, message |-> m]
      /\ Made(i) /\ Queued(i)
  BY <1>1, <1>2, <1>3, Served, Numbered DEF Working
<1>5. m \in Words
  BY <1>2, <1>4, SentTexts
<1>6. PICK a \in Arrival : a = [text |-> m, wrapped |-> FALSE]
  BY <1>5 DEF Arrival
<1>7. arrived' = arrived \/ arrived' = Append(arrived, a)
  BY <1>3, <1>4, <1>6 DEF Bare
<1>8. \E x \in Outcomes(m) : job' = [conn |-> i, message |-> x]
  BY <1>3, <1>4 DEF Outcomes
<1>9. job'.conn = i
  BY <1>8
<1>10. backlog \in Seq(ConnId) /\ arrived \in Seq(Arrival) /\ arrived' \in Seq(Arrival)
  <2>1. backlog \in Seq(ConnId) /\ arrived \in Seq(Arrival)
    BY DEF Types
  <2>2. Append(arrived, a) \in Seq(Arrival)
    BY <2>1
  <2> QED
    BY <1>7, <2>1, <2>2
<1>11. /\ Types' /\ Sent' /\ Conns' /\ (\A c \in Client : Asked(c)') /\ Notified'
       /\ sent' = sent /\ conn' = conn
       /\ \A l : /\ Taken(l)' = Taken(l) /\ LastOf(l)' = LastOf(l)
                 /\ Carries(l)' = Carries(l) /\ Streamed(l)' = Streamed(l)
  BY <1>3, <1>10, QuietStep
<1>12. Waiting'
  BY <1>1, <1>3, <1>9, <1>11, WaitingKept
<1>13. Working'
  <2>1. Taken(job.conn)' = Taken(i)' /\ Streamed(job.conn)' = Streamed(i)'
    BY <1>9 DEF Taken, LastOf, Streamed
  <2>2. Taken(job.conn)' >= i[2] /\ ~Streamed(job.conn)'
    BY <1>4, <1>11, <2>1
  <2>3. conn'[job'.conn].exit = "waiting" /\ sent'[job'.conn[1]][job'.conn[2]] = m
        /\ job'.conn[2] \in 1 .. Len(sent'[job'.conn[1]])
    BY <1>2, <1>4, <1>9, <1>11
  <2> QED
    BY <1>3, <1>8, <1>9, <2>2, <2>3 DEF Working, Outcomes
<1>14. Once'
  <2>1. \A l \in ConnId : conn[l].exit # "none" =>
          /\ conn'[l].exit # "none" /\ LastOf(l)' = LastOf(l) /\ Taken(l) <= Taken(l)'
          /\ Through(l) => Through(l)'
    <3> TAKE l \in ConnId
    <3> HAVE conn[l].exit # "none"
    <3>1. Taken(l) \in Int
      <4>1. Made(l) /\ Queued(l)
        BY DEF Conns
      <4> QED
        BY <4>1, Frames
    <3>2. \A t \in Int : t <= t
      OBVIOUS
    <3>3. Through(l) => Through(l)'
      BY <1>3, <1>11 DEF Through
    <3> QED
      BY <1>11, <3>1, <3>2, <3>3
  <2>2. conn' \in [ConnId -> Connection]
    BY <1>11 DEF Types
  <2>3. CASE arrived' = arrived
    BY <1>11, <2>1, <2>2, <2>3, OnceKept
  <2>4. CASE arrived' = Append(arrived, a)
    <3>1. ASSUME NEW j \in 1 .. Len(arrived), arrived[j].text = a.text PROVE a.text = <<>>
      <4> SUFFICES ASSUME m # <<>> PROVE FALSE
        BY <1>6
      <4>1. arrived[j].text = sent[i[1]][i[2]] /\ sent[i[1]][i[2]] # <<>>
        BY <1>2, <1>6, <3>1
      <4>2. PICK k \in ConnId :
              /\ k[1] = i[1] /\ (arrived[j].wrapped => ~Secure /\ i[2] > 1)
              /\ (~arrived[j].wrapped => i[2] = k[2] /\ Through(k))
        BY <1>4, <4>1, ArrivedFrom
      <4>3. CASE arrived[j].wrapped
        <5>1. i[2] \in {0, 1}
          BY <1>4, <4>2, <4>3, Frames
        <5> QED
          BY <4>2, <4>3, <5>1
      <4>4. CASE ~arrived[j].wrapped
        <5>1. k = i
          BY <4>2, <4>4, Numbered
        <5> QED
          BY <1>3, <1>4, <4>2, <4>4, <5>1 DEF Through
      <4> QED
        BY <4>3, <4>4
    <3>2. Delivered(a, i)'
      <4>1. i[2] # 0 /\ i[2] <= Taken(i)
        <5>1. Taken(i) \in Int
          BY <1>4, Frames
        <5> QED
          BY <1>4, <5>1
      <4> QED
        BY <1>2, <1>4, <1>6, <1>11, <4>1 DEF Delivered
    <3>3. Through(i)' /\ conn'[i].exit # "none"
      BY <1>3, <1>4, <1>9, <1>11 DEF Through
    <3> QED
      BY <1>11, <2>1, <2>2, <2>4, <3>1, <3>2, <3>3, OnceAppended
  <2> QED
    BY <1>7, <2>3, <2>4
<1> QED
  BY <1>11, <1>12, <1>13, <1>14

(* The exit takes a frame from the stream: a frame its key opens is a later *)
(* message of an insecure client, which has not arrived before.             *)
LEMMA TakenFrame ==
  ASSUME ExchangeInv, Matching, loop = "stream", conn[job.conn].up # <<>>,
         CanOpen(ExitKey(generation), NextFrame)
  PROVE  /\ ~Secure /\ job.conn[2] = 1 /\ Taken(job.conn) + 1 > 1
         /\ Taken(job.conn) + 1 \in 1 .. Len(sent[job.conn[1]])
         /\ Opened(NextFrame) = sent[job.conn[1]][Taken(job.conn) + 1]
<1> USE DEF ExchangeInv
<1>1. PICK w \in ConnId : w = job.conn
  BY Served
<1>2. Made(w) /\ Queued(w) /\ Taken(w) >= w[2]
  BY <1>1, Served
<1>3. Streamed(w)
  BY <1>1 DEF Working
<1>4. PICK c \in Client : c = w[1] /\ Len(sent[c]) \in Nat
  BY Numbered, SentTexts
<1>5. PICK k \in Int : k = Taken(w) + 1
  BY <1>2, Frames
<1>6. /\ NextFrame = Written(w, k) /\ k <= LastOf(w) /\ LastOf(w) \in Nat
      /\ w[2] \in Nat /\ w[2] < k
      /\ (~Secure => w[2] \in {0, 1}) /\ (Secure \/ w[2] = 0 => LastOf(w) = w[2])
  <2>1. /\ Head(conn[w].up) = Written(w, Taken(w) + 1) /\ Taken(w) + 1 <= LastOf(w)
    BY <1>1, <1>2, NextWritten
  <2>2. w[2] \in Nat /\ Taken(w) \in Int /\ LastOf(w) \in Nat
    BY <1>2, Frames
  <2>3. w[2] < Taken(w) + 1
    BY <1>2, <2>2
  <2>4. (~Secure => w[2] \in {0, 1}) /\ (Secure \/ w[2] = 0 => LastOf(w) = w[2])
    BY <1>2, Frames
  <2> QED
    BY <1>1, <1>5, <2>1, <2>2, <2>3, <2>4 DEF NextFrame
<1>7. ~Secure /\ w[2] = 1 /\ k > 1
  BY <1>6
<1>8. CASE k <= Len(sent[c])
  <2>1. k \in 1 .. Len(sent[c])
    BY <1>4, <1>7, <1>8
  <2>2. sent[c][k] \in Words /\ Fits(sent[c][k]) /\ mode \in Modes
    BY <2>1, SentTexts DEF Types
  <2>3. NextFrame = Sealed(c, sent[c][k])
    BY <1>4, <1>6, <1>7, <1>8 DEF Written
  <2>4. Opened(NextFrame) = sent[c][k]
    BY <1>7, <2>2, <2>3, Sealing
  <2> QED
    BY <1>1, <1>4, <1>5, <1>7, <2>1, <2>4
<1>9. CASE ~(k <= Len(sent[c]))
  BY <1>4, <1>6, <1>7, <1>9, NoExit DEF Written
<1> QED
  BY <1>8, <1>9

LEMMA TakeFrameStep ==
  ASSUME ExchangeInv, Matching, mode' = mode, TakeFrame,
         job' \in Stream, job'.conn = job.conn,
         \/ arrived' = arrived
         \/ /\ CanOpen(ExitKey(generation), NextFrame)
            /\ arrived' = Append(arrived, Wrapped(NextFrame))
  PROVE  ExchangeInv'
<1> USE DEF ExchangeInv
<1>1. /\ loop = "stream" /\ loop' = "stream" /\ conn[job.conn].up # <<>>
      /\ conn' = [conn EXCEPT ![job.conn].up = Tail(@)] /\ backlog' = backlog
      /\ UNCHANGED <<clientVars, generation, disconnected>>
  BY DEF TakeFrame
<1>2. PICK w \in ConnId : w = job.conn
  BY <1>1, Served
<1>3. /\ conn[w].exit = "waiting" /\ Made(w) /\ Queued(w) /\ Taken(w) >= w[2] /\ Streamed(w)
      /\ w[2] \in Nat /\ Taken(w) \in Int
  BY <1>1, <1>2, Served, Frames DEF Working
<1>4. PICK c \in Client : c = w[1]
  BY Numbered
<1>5. PICK k \in Int : k = Taken(w) + 1
  BY <1>3
<1>6. \/ arrived' = arrived
      \/ \E a \in Arrival :
           /\ arrived' = Append(arrived, a) /\ a.text = sent[c][k] /\ a.wrapped
           /\ ~Secure /\ w[2] = 1 /\ k > 1 /\ k \in 1 .. Len(sent[c])
  <2> SUFFICES ASSUME CanOpen(ExitKey(generation), NextFrame),
                      arrived' = Append(arrived, Wrapped(NextFrame))
               PROVE  \E a \in Arrival :
                        /\ arrived' = Append(arrived, a) /\ a.text = sent[c][k] /\ a.wrapped
                        /\ ~Secure /\ w[2] = 1 /\ k > 1 /\ k \in 1 .. Len(sent[c])
    OBVIOUS
  <2>1. /\ ~Secure /\ w[2] = 1 /\ k > 1 /\ k \in 1 .. Len(sent[c])
        /\ Opened(NextFrame) = sent[c][k]
    BY <1>1, <1>2, <1>4, <1>5, TakenFrame
  <2>2. sent[c][k] \in Words
    BY <2>1, SentTexts
  <2>3. [text |-> sent[c][k], wrapped |-> TRUE] \in Arrival
    BY <2>2 DEF Arrival
  <2> QED
    BY <2>1, <2>3 DEF Wrapped
<1>7. backlog' \in Seq(ConnId) /\ arrived' \in Seq(Arrival)
  <2>1. backlog \in Seq(ConnId) /\ arrived \in Seq(Arrival)
    BY DEF Types
  <2>2. \A a \in Arrival : Append(arrived, a) \in Seq(Arrival)
    BY <2>1
  <2> QED
    BY <1>1, <1>6, <2>1, <2>2
<1>8. /\ Types' /\ Sent' /\ Conns' /\ (\A d \in Client : Asked(d)') /\ Notified'
      /\ sent' = sent /\ conn' \in [ConnId -> Connection]
      /\ Taken(w) \in Int /\ Taken(w)' = Taken(w) + 1
      /\ \A i \in ConnId : i # w => Taken(i)' = Taken(i)
      /\ \A i \in ConnId : /\ conn'[i].exit = conn[i].exit /\ LastOf(i)' = LastOf(i)
                           /\ conn[i].exit # "none" => Taken(i) <= Taken(i)'
      /\ \A i : Carries(i)' = Carries(i) /\ Streamed(i)' = Streamed(i)
  BY <1>1, <1>2, <1>3, <1>7, TakesStep
<1>9. Waiting'
  BY <1>1, <1>2, <1>8, WaitingKept
<1>10. Working'
  <2>1. Taken(job.conn)' = Taken(w)' /\ Streamed(job.conn)' = Streamed(w)'
    BY <1>2 DEF Taken, LastOf, Streamed
  <2>2. Taken(w) + 1 >= w[2]
    BY <1>3
  <2>3. Taken(job.conn)' >= w[2] /\ Streamed(job.conn)' /\ conn'[w].exit = "waiting"
    BY <1>3, <1>8, <2>1, <2>2
  <2> QED
    BY <1>1, <1>2, <2>3 DEF Working
<1>11. \A i \in ConnId : conn[i].exit # "none" =>
         /\ conn'[i].exit # "none" /\ LastOf(i)' = LastOf(i) /\ Taken(i) <= Taken(i)'
         /\ Through(i) => Through(i)'
  <2> TAKE i \in ConnId
  <2> HAVE conn[i].exit # "none"
  <2>1. Through(i) => Through(i)'
    BY <1>1, <1>8 DEF Through
  <2> QED
    BY <1>8, <2>1
<1>12. Once'
  <2>1. CASE arrived' = arrived
    BY <1>8, <1>11, <2>1, OnceKept
  <2>2. CASE arrived' # arrived
    <3>1. PICK a \in Arrival :
            /\ arrived' = Append(arrived, a) /\ a.text = sent[c][k] /\ a.wrapped
            /\ ~Secure /\ w[2] = 1 /\ k > 1 /\ k \in 1 .. Len(sent[c])
      BY <1>6, <2>2
    <3>2. ASSUME NEW j \in 1 .. Len(arrived), arrived[j].text = a.text PROVE a.text = <<>>
      <4> SUFFICES ASSUME sent[c][k] # <<>> PROVE FALSE
        BY <3>1
      <4>1. PICK i \in ConnId :
              /\ i[1] = c /\ k <= Taken(i) /\ conn[i].exit # "none"
              /\ arrived[j].wrapped => i[2] = 1
              /\ ~arrived[j].wrapped => k = i[2]
        <5>1. arrived[j].text = sent[c][k]
          BY <3>1, <3>2
        <5> QED
          BY <3>1, <5>1, ArrivedFrom
      <4>2. i[2] \in {0, 1}
        BY <3>1, <4>1, Frames DEF Conns
      <4>3. i = w
        BY <1>4, <3>1, <4>1, <4>2, Numbered
      <4> QED
        BY <1>3, <1>5, <4>1, <4>3
    <3>3. Delivered(a, w)'
      <4>1. k <= Taken(w)'
        BY <1>5, <1>8
      <4>2. Secure' = Secure /\ Streamed(w)'
        BY <1>3, <1>8, Unsent
      <4> QED
        BY <1>4, <1>8, <3>1, <4>1, <4>2 DEF Delivered
    <3>4. conn'[w].exit # "none"
      BY <1>3, <1>8
    <3> QED
      BY <1>8, <1>11, <3>1, <3>2, <3>3, <3>4, OnceAppended
  <2> QED
    BY <2>1, <2>2
<1> QED
  BY <1>8, <1>9, <1>10, <1>12

LEMMA StreamFrameSteps ==
  ASSUME ExchangeInv, Matching, mode' = mode,
         StreamFrame \/ StreamFrameFails \/ StreamFrameRaises
  PROVE  ExchangeInv'
<1>1. TakeFrame /\ loop = "stream"
  BY DEF StreamFrame, StreamFrameFails, StreamFrameRaises, TakeFrame
<1>2. job \in Stream
  BY <1>1 DEF ExchangeInv, Working
<1>3. job' \in Stream /\ job'.conn = job.conn
  <2>1. CASE StreamFrame
    BY <1>2, <2>1 DEF Stream, StreamFrame
  <2>2. CASE StreamFrameFails
    BY <1>2, <2>2 DEF Stream, StreamFrameFails
  <2>3. CASE StreamFrameRaises
    BY <1>2, <2>3 DEF Stream, StreamFrameRaises
  <2> QED
    BY <2>1, <2>2, <2>3
<1>4. \/ arrived' = arrived
      \/ /\ CanOpen(ExitKey(generation), NextFrame)
         /\ arrived' = Append(arrived, Wrapped(NextFrame))
  BY DEF StreamFrame, StreamFrameFails, StreamFrameRaises
<1> QED
  BY <1>1, <1>3, <1>4, TakeFrameStep

(* What the exit has written to a connection, and nothing else, changes.    *)
LEMMA DownStep ==
  ASSUME ExchangeInv, mode' = mode,
         UNCHANGED <<clientVars, backlog, loop, generation, arrived, disconnected>>,
         NEW w \in ConnId, NEW d \in Seq(DownFrame), conn' = [conn EXCEPT ![w].down = d],
         d = <<>> \/ (conn[w].exit # "closed" /\ Streamed(w)),
         job' = job \/ (loop = "stream" /\ job' \in Stream /\ job'.conn = job.conn)
  PROVE  ExchangeInv'
<1> USE DEF ExchangeInv
<1>1. /\ at' = at /\ sent' = sent /\ replies' = replies /\ current' = current
      /\ UNCHANGED clientVars /\ backlog' = backlog /\ loop' = loop /\ arrived' = arrived
      /\ generation' = generation /\ disconnected' = disconnected /\ job'.conn = job.conn
  BY DEF clientVars
<1>2. conn \in [ConnId -> Connection] /\ conn[w] \in Connection
  BY DEF Types
<1>3. PICK r \in Connection : /\ r = [conn[w] EXCEPT !.down = d] /\ r.down = d
                              /\ r.up = conn[w].up /\ r.exit = conn[w].exit
                              /\ r.client = conn[w].client
  <2>1. [conn[w] EXCEPT !.down = d] \in Connection
    BY <1>2 DEF Connection
  <2> QED
    BY <1>2, <2>1 DEF Connection
<1>4. conn' = [conn EXCEPT ![w] = r]
  BY <1>2, <1>3
<1>5. /\ conn' \in [ConnId -> Connection] /\ conn'[w] = r
      /\ \A i \in ConnId : i # w => conn'[i] = conn[i]
  BY <1>2, <1>4
<1>6. ASSUME NEW i \in ConnId PROVE Fewer(i)
  <2>1. CASE i # w
    BY <1>5, <2>1, FewerUnread
  <2>2. CASE i = w
    <3>1. d = <<>> \/ Answered(w)'
      BY <1>1, Unsent DEF Answered
    <3> QED
      BY <1>3, <1>5, <2>2, <3>1, FewerUnread
  <2> QED
    BY <2>1, <2>2
<1>7. /\ loop' \in {"accept", "read", "forward", "send", "stream", "ended"}
      /\ generation' \in 0 .. MaxRestarts /\ backlog' \in Seq(ConnId)
      /\ arrived' \in Seq(Arrival) /\ disconnected' \subseteq Client
  BY <1>1 DEF Types
<1>8. /\ Types' /\ Sent' /\ Conns' /\ \A c \in Client : Asked(c)'
      /\ \A i \in ConnId : /\ LastOf(i)' = LastOf(i)
                           /\ conn[i].exit # "none" => Taken(i) <= Taken(i)'
                           /\ conn'[i].up = conn[i].up => Taken(i)' = Taken(i)
  BY <1>1, <1>5, <1>6, <1>7, ServedStep
<1>9. \A i \in ConnId : /\ conn'[i].exit = conn[i].exit /\ conn'[i].up = conn[i].up
                        /\ Taken(i)' = Taken(i)
  BY <1>3, <1>5, <1>8
<1>10. Notified'
  BY <1>1, <1>9, NotifiedKept
<1>11. Waiting'
  BY <1>1, <1>9, WaitingKept
<1>12. Working'
  <2>1. CASE loop \in {"accept", "ended"}
    BY <1>1, <2>1 DEF Working
  <2>2. CASE loop \notin {"accept", "ended"}
    <3>1. PICK i \in ConnId : i = job.conn /\ conn[i].exit = "waiting" /\ Taken(i) >= i[2]
      BY <2>2 DEF Working
    <3>2. Taken(job.conn)' = Taken(i)' /\ Streamed(job.conn)' = Streamed(i)'
          /\ Carries(job.conn)' = Carries(i)'
      BY <1>1, <3>1 DEF Taken, LastOf, Streamed, Carries
    <3>3. Taken(job.conn)' >= i[2] /\ conn'[i].exit = "waiting"
          /\ Streamed(job.conn)' = Streamed(i) /\ Carries(job.conn)' = Carries(i)
      BY <1>1, <1>9, <3>1, <3>2, Unsent
    <3> QED
      BY <1>1, <2>2, <3>1, <3>3 DEF Working, Outcomes
  <2> QED
    BY <2>1, <2>2
<1>13. Once'
  <2>1. \A i \in ConnId : Through(i) => Through(i)'
    BY <1>1, <1>9 DEF Through
  <2> QED
    BY <1>1, <1>5, <1>8, <1>9, <2>1, OnceKept
<1> QED
  BY <1>8, <1>10, <1>11, <1>12, <1>13

LEMMA DestinationSpeaksStep ==
  ASSUME ExchangeInv, mode' = mode, DestinationSpeaks
  PROVE  ExchangeInv'
<1>1. /\ loop = "stream" /\ job' = [job EXCEPT !.said = @ + 1]
      /\ conn' = [conn EXCEPT ![job.conn].down = Append(@,
                    SealForClient(IF job.keys THEN StreamKey ELSE ClientKey(Sender), Spoken))]
      /\ UNCHANGED <<clientVars, backlog, loop, generation, arrived, disconnected>>
  BY DEF DestinationSpeaks
<1>2. PICK w \in ConnId : w = job.conn /\ conn[w].exit = "waiting" /\ conn[w] \in Connection
  BY <1>1, Served
<1>3. Streamed(w) /\ job \in Stream /\ Sender \in Client
  BY <1>1, <1>2, Served DEF ExchangeInv, Working
<1>4. job' \in Stream /\ job'.conn = job.conn
  BY <1>1, <1>3 DEF Stream
<1>5. PICK f \in DownFrame :
        f = SealForClient(IF job.keys THEN StreamKey ELSE ClientKey(Sender), Spoken)
  <2>1. PICK g \in ClientKeys \cup {StreamKey} :
          g = IF job.keys THEN StreamKey ELSE ClientKey(Sender)
    BY <1>3 DEF ClientKeys
  <2>2. [sealedFor |-> g, message |-> Spoken] \in DownFrame
    BY <2>1, Controls DEF DownFrame
  <2> QED
    BY <2>1, <2>2 DEF SealForClient
<1>6. PICK d \in Seq(DownFrame) : d = Append(conn[w].down, f)
  <2>1. conn[w].down \in Seq(DownFrame)
    BY <1>2 DEF Connection
  <2>2. Append(conn[w].down, f) \in Seq(DownFrame)
    BY <2>1
  <2> QED
    BY <2>2
<1>7. conn' = [conn EXCEPT ![w].down = d]
  BY <1>1, <1>2, <1>5, <1>6
<1> QED
  BY <1>1, <1>2, <1>3, <1>4, <1>7, DownStep

LEMMA ResetStep ==
  ASSUME ExchangeInv, mode' = mode, NEW i \in ConnId, Reset(i)
  PROVE  ExchangeInv'
<1>1. /\ conn' = [conn EXCEPT ![i].down = <<>>]
      /\ UNCHANGED <<clientVars, backlog, exitVars, arrived>>
  BY DEF Reset
<1> QED
  BY <1>1, NothingSaid, DownStep DEF exitVars

LEMMA RestartStep ==
  ASSUME ExchangeInv, mode' = mode, Restart
  PROVE  ExchangeInv'
<1> USE DEF ExchangeInv
<1>1. /\ generation < MaxRestarts /\ generation' = generation + 1
      /\ at' = at /\ sent' = sent /\ replies' = replies /\ current' = current
      /\ UNCHANGED clientVars /\ backlog' = <<>> /\ loop' = "accept" /\ job' = None
      /\ arrived' = arrived /\ disconnected' = disconnected
      /\ conn' = [i \in ConnId |-> IF conn[i].exit = "waiting"
                                   THEN [conn[i] EXCEPT !.exit = "closed"] ELSE conn[i]]
  BY DEF Restart, clientVars
<1>2. ASSUME NEW i \in ConnId
      PROVE  /\ conn'[i] \in Connection
             /\ conn'[i].up = conn[i].up /\ conn'[i].down = conn[i].down
             /\ conn'[i].client = conn[i].client
             /\ conn'[i].exit = IF conn[i].exit = "waiting" THEN "closed" ELSE conn[i].exit
  <2>1. conn[i] \in Connection
    BY DEF Types
  <2>2. [conn[i] EXCEPT !.exit = "closed"] \in Connection
    BY <2>1 DEF Connection
  <2> QED
    BY <1>1, <2>1, <2>2 DEF Connection
<1>3. \A i \in ConnId : Fewer(i)
  BY <1>2, FewerUnread
<1>4. /\ conn' \in [ConnId -> Connection] /\ generation' \in 0 .. MaxRestarts
      /\ backlog' \in Seq(ConnId) /\ arrived' \in Seq(Arrival) /\ disconnected' \subseteq Client
  <2>1. conn' \in [ConnId -> Connection]
    BY <1>1, <1>2
  <2>2. generation' \in 0 .. MaxRestarts
    BY <1>1, Clientele DEF Types
  <2> QED
    BY <1>1, <2>1, <2>2 DEF Types
<1>5. /\ Types' /\ Sent' /\ Conns' /\ \A c \in Client : Asked(c)'
      /\ \A i \in ConnId : /\ LastOf(i)' = LastOf(i)
                           /\ conn[i].exit # "none" => Taken(i) <= Taken(i)'
                           /\ conn'[i].up = conn[i].up => Taken(i)' = Taken(i)
  BY <1>1, <1>3, <1>4, ServedStep
<1>6. Waiting' /\ Working'
  BY <1>1 DEF Waiting, Working
<1>7. Once'
  <2>1. ASSUME NEW i \in ConnId, conn[i].exit # "none"
        PROVE  conn'[i].exit # "none" /\ (Through(i) => Through(i)')
    BY <1>1, <1>2, <2>1 DEF Through, Working
  <2> QED
    BY <1>1, <1>4, <1>5, <2>1, OnceKept
<1>8. Notified'
  BY <1>1 DEF Notified, Types
<1> QED
  BY <1>5, <1>6, <1>7, <1>8
---------------------------------------------------------------------------------
(* The clients.  sent only grows.                                           *)
Grown ==
  /\ sent' \in [Client -> Seq(Words)]
  /\ \A d \in Client : /\ Len(sent'[d]) \in Nat /\ Len(sent[d]) \in Nat
                       /\ Len(sent[d]) <= Len(sent'[d])
                       /\ \A k \in 1 .. Len(sent[d]) : sent'[d][k] = sent[d][k]

LEMMA GrownBy ==
  ASSUME Types, Sent, NEW c \in Client, NEW n \in Sizes, Sends < MaxSends,
         sent' = [sent EXCEPT ![c] = Append(@, Text(c, Len(sent[c]) + 1, n))]
  PROVE  /\ Grown /\ Sent' /\ \A d \in Client : d # c => sent'[d] = sent[d]
         /\ Len(sent[c]) \in Nat /\ Len(sent[c]) + 1 <= MaxSends
         /\ Len(sent'[c]) = Len(sent[c]) + 1
         /\ sent'[c][Len(sent[c]) + 1] = Text(c, Len(sent[c]) + 1, n)
         /\ Text(c, Len(sent[c]) + 1, n) \in Words /\ Fits(Text(c, Len(sent[c]) + 1, n))
<1>1. PICK k \in Nat : k = Len(sent[c])
  BY SentTexts
<1>2. k <= Sends /\ Sends \in Nat /\ k + 1 \in 1 .. 9 /\ k + 1 <= MaxSends
  <2>1. k <= Sends /\ Sends \in Nat /\ Sends < MaxSends /\ MaxSends \in 1 .. 9
    BY <1>1, SentTexts, Clientele
  <2>2. \A a, b \in Nat, m \in 1 .. 9 :
          a <= b /\ b < m => a + 1 \in 1 .. 9 /\ a + 1 <= m
    OBVIOUS
  <2> QED
    BY <2>1, <2>2
<1>3. PICK t \in Words : t = Text(c, k + 1, n) /\ Fits(t)
  BY <1>2, TextOf
<1>4. sent \in [Client -> Seq(Words)]
  BY DEF Types
<1>5. sent' = [sent EXCEPT ![c] = Append(@, t)]
  BY <1>1, <1>3
<1>6. /\ sent' \in [Client -> Seq(Words)] /\ sent'[c] = Append(sent[c], t)
      /\ \A d \in Client : d # c => sent'[d] = sent[d]
  BY <1>4, <1>5
<1>7. sent[c] \in Seq(Words)
  BY <1>4
<1>8. /\ Len(sent'[c]) = k + 1 /\ sent'[c][k + 1] = t
      /\ \A j \in 1 .. k : sent'[c][j] = sent[c][j]
  BY <1>1, <1>3, <1>6, <1>7
<1>9. Grown
  <2> SUFFICES ASSUME NEW d \in Client
               PROVE  /\ Len(sent'[d]) \in Nat /\ Len(sent[d]) \in Nat
                      /\ Len(sent[d]) <= Len(sent'[d])
                      /\ \A j \in 1 .. Len(sent[d]) : sent'[d][j] = sent[d][j]
    BY <1>6 DEF Grown
  <2>1. Len(sent[d]) \in Nat
    BY SentTexts
  <2> QED
    BY <1>1, <1>6, <1>8, <2>1
<1>10. Sent'
  <2>1. Pairs' = Pairs \cup {<<c, k + 1>>} /\ <<c, k + 1>> \notin Pairs
    <3>1. DOMAIN sent[c] = 1 .. k /\ DOMAIN sent'[c] = 1 .. k + 1
      BY <1>1, <1>6, <1>7, <1>8
    <3>2. \A p : p \in Pairs <=> \E d \in Client : p \in {d} \X DOMAIN sent[d]
      BY DEF Pairs
    <3>3. \A p : p \in Pairs' <=> \E d \in Client : p \in {d} \X DOMAIN sent'[d]
      BY DEF Pairs
    <3>4. 1 .. k + 1 = (1 .. k) \cup {k + 1} /\ k + 1 \notin 1 .. k
      BY <1>1
    <3>5. \A p : p \in Pairs' <=> p \in Pairs \/ p = <<c, k + 1>>
      BY <1>6, <3>1, <3>2, <3>3, <3>4
    <3>6. <<c, k + 1>> \notin Pairs
      BY <3>1, <3>2, <3>4
    <3> QED
      BY <3>5, <3>6
  <2>2. IsFiniteSet(Pairs') /\ Cardinality(Pairs') = Cardinality(Pairs) + 1
    BY <2>1, FS_AddElement DEF Sent
  <2>3. Sends' = Sends + 1
    BY <2>2 DEF Sends, Pairs
  <2>4. Sends' <= MaxSends /\ IsFiniteSet(Pairs)'
    BY <1>2, <2>2, <2>3, Clientele
  <2>5. \A d \in Client : Len(sent'[d]) <= Sends'
    <3>1. \A d \in Client : Len(sent[d]) <= Sends /\ Len(sent[d]) \in Nat
      BY SentTexts
    <3> QED
      BY <1>1, <1>2, <1>6, <1>8, <2>3, <3>1
  <2>6. ASSUME NEW d \in Client, NEW j \in 1 .. Len(sent'[d])
        PROVE  \E p \in Sizes : sent'[d][j] = Text(d, j, p)
    <3>1. CASE d # c
      BY <1>6, <3>1 DEF Sent
    <3>2. CASE d = c /\ j # k + 1
      BY <1>1, <1>8, <3>2 DEF Sent
    <3>3. CASE d = c /\ j = k + 1
      BY <1>3, <1>8, <3>3
    <3> QED
      BY <3>1, <3>2, <3>3
  <2> QED
    BY <2>4, <2>5, <2>6 DEF Sent
<1> QED
  BY <1>1, <1>2, <1>3, <1>6, <1>8, <1>9, <1>10

LEMMA GrownByNone ==
  ASSUME Types, Sent, sent' = sent
  PROVE  Grown
BY SentTexts DEF Grown, Types

LEMMA RepliesGrow ==
  ASSUME Types, NEW c \in Client, NEW r, replies' = [replies EXCEPT ![c] = Append(@, r)]
  PROVE  /\ \E S : replies' \in [Client -> Seq(S)]
         /\ Len(replies[c]) \in Nat /\ Len(replies'[c]) = Len(replies[c]) + 1
         /\ replies'[c][Len(replies[c]) + 1] = r
         /\ \A j \in 1 .. Len(replies[c]) : replies'[c][j] = replies[c][j]
         /\ \A d \in Client : d # c => replies'[d] = replies[d]
<1>1. PICK S : replies \in [Client -> Seq(S)]
  BY DEF Types
<1>2. PICK T : T = S \cup {r}
  OBVIOUS
<1>3. \A s \in Seq(S) : s \in Seq(T)
  BY <1>2
<1>4. replies \in [Client -> Seq(T)] /\ replies[c] \in Seq(T) /\ r \in T
  BY <1>1, <1>2, <1>3
<1>5. PICK u \in Seq(T) : u = Append(replies[c], r)
  <2>1. Append(replies[c], r) \in Seq(T)
    BY <1>4
  <2> QED
    BY <2>1
<1>6. replies' = [replies EXCEPT ![c] = u]
  BY <1>5
<1>7. /\ replies' \in [Client -> Seq(T)] /\ replies'[c] = u
      /\ \A d \in Client : d # c => replies'[d] = replies[d]
  BY <1>4, <1>6
<1> QED
  BY <1>4, <1>5, <1>7

(* What a growing sent leaves as it was.                                    *)
LEMMA StillMade ==
  ASSUME Types, Sent, Grown, mode' = mode, NEW i \in ConnId, Made(i),
         conn'[i].client # "none", current'[i[1]] # NoConn,
         at[i[1]] \in {"closing", "closed"} =>
           at'[i[1]] \in {"closing", "closed"} /\ sent'[i[1]] = sent[i[1]]
  PROVE  /\ Made(i)' /\ Secure' = Secure
         /\ Carries(i)' = Carries(i) /\ Streamed(i)' = Streamed(i)
         /\ \A k \in Int : i[2] <= k /\ k <= LastOf(i) => Written(i, k)' = Written(i, k)
<1>1. PICK c \in Client : c = i[1]
  BY Numbered
<1>2. PICK k \in Nat : k = i[2]
  BY Numbered
<1>3. /\ Len(sent[c]) \in Nat /\ Len(sent'[c]) \in Nat /\ Len(sent[c]) <= Len(sent'[c])
      /\ \A j \in 1 .. Len(sent[c]) : sent'[c][j] = sent[c][j]
  BY DEF Grown
<1>4. Secure' = Secure /\ \A d, m : Sealed(d, m)' = Sealed(d, m)
  BY DEF Secure, Sealed
<1>5. /\ k <= Len(sent[c]) + 1
      /\ k = Len(sent[c]) + 1 => Secure /\ at'[c] \in {"closing", "closed"} /\ sent'[c] = sent[c]
      /\ at[c] = "closed" => sent'[c] = sent[c]
  BY <1>1, <1>2 DEF Made
<1>6. Carries(i)' = Carries(i)
  <2>1. CASE k = 0
    BY <1>2, <2>1 DEF Carries
  <2>2. CASE k \in 1 .. Len(sent[c])
    <3>1. k <= Len(sent[c]) /\ k <= Len(sent'[c]) /\ sent'[c][k] = sent[c][k] /\ k # 0
      BY <1>3, <2>2
    <3> QED
      BY <1>1, <1>2, <1>4, <3>1 DEF Carries
  <2>3. CASE k = Len(sent[c]) + 1
    BY <1>1, <1>2, <1>3, <1>4, <1>5, <2>3 DEF Carries
  <2> QED
    BY <1>3, <1>5, <2>1, <2>2, <2>3
<1>7. /\ k <= Len(sent'[c]) + 1
      /\ k = Len(sent'[c]) + 1 => Secure' /\ at'[c] \in {"closing", "closed"}
  BY <1>3, <1>4, <1>5
<1>8. Streamed(i)' = Streamed(i)
  <2>1. CASE k \in 1 .. Len(sent[c])
    <3>1. k \in 1 .. Len(sent'[c]) /\ sent'[c][k] = sent[c][k]
      BY <1>3, <2>1
    <3> QED
      BY <1>1, <1>2, <2>1, <3>1 DEF Streamed
  <2>2. CASE k \notin 1 .. Len(sent[c])
    <3>1. k \notin 1 .. Len(sent'[c])
      BY <1>3, <1>5, <2>2
    <3> QED
      BY <1>1, <1>2, <2>2, <3>1 DEF Streamed
  <2> QED
    BY <2>1, <2>2
<1>9. ASSUME NEW l \in Int, k <= l, l <= LastOf(i) PROVE Written(i, l)' = Written(i, l)
  <2>1. CASE l = k
    BY <1>2, <1>6, <2>1 DEF Written
  <2>2. CASE l # k /\ l <= Len(sent[c])
    <3>1. l \in 1 .. Len(sent[c]) /\ l <= Len(sent'[c]) /\ sent'[c][l] = sent[c][l]
      BY <1>3, <1>9, <2>2
    <3> QED
      BY <1>1, <1>2, <1>4, <2>2, <3>1 DEF Written
  <2>3. CASE l # k /\ ~(l <= Len(sent[c]))
    <3>1. at[c] = "closed"
      <4> SUFFICES ASSUME at[c] # "closed" PROVE FALSE
        OBVIOUS
      <4>1. LastOf(i) = k \/ LastOf(i) = Len(sent[c]) + 0
        BY <1>1, <1>2 DEF LastOf
      <4> QED
        BY <1>3, <1>9, <2>3, <4>1
    <3>2. sent'[c] = sent[c]
      BY <1>5, <3>1
    <3>3. ~(l <= Len(sent'[c]))
      BY <2>3, <3>2
    <3> QED
      BY <1>1, <1>2, <2>3, <3>3 DEF Written, Raw
  <2> QED
    BY <2>1, <2>2, <2>3
<1>10. Made(i)'
  BY <1>1, <1>2, <1>4, <1>7 DEF Made
<1> QED
  BY <1>2, <1>4, <1>6, <1>8, <1>9, <1>10

(* Frames that lie there lie there still, and one may follow them.          *)
LEMMA StillQueued ==
  ASSUME Types, Sent, NEW i \in ConnId, Made(i), Queued(i),
         \A k \in Int : i[2] <= k /\ k <= LastOf(i) => Written(i, k)' = Written(i, k),
         \/ conn'[i].up = conn[i].up /\ LastOf(i)' = LastOf(i)
         \/ \E f \in UpFrame : /\ conn'[i].up = Append(conn[i].up, f)
                               /\ LastOf(i)' = LastOf(i) + 1
                               /\ f = Written(i, LastOf(i))'
  PROVE  Queued(i)' /\ Taken(i)' = Taken(i)
<1>1. /\ conn[i].up \in Seq(UpFrame) /\ LastOf(i) \in Nat /\ Taken(i) \in Int /\ i[2] \in Nat
      /\ i[2] - 1 <= Taken(i) /\ Len(conn[i].up) = LastOf(i) - Taken(i)
  BY Frames
<1>2. PICK n \in Nat, l \in Nat, k \in Nat, t \in Int :
        /\ n = Len(conn[i].up) /\ l = LastOf(i) /\ k = i[2] /\ t = Taken(i)
        /\ n = l - t /\ k - 1 <= t /\ t = l - n
        /\ l + 1 - (n + 1) = t /\ t + (n + 1) = l + 1
  <2>1. \A a \in Nat, b \in Nat, x \in Int :
          a = b - x => x = b - a /\ b + 1 - (a + 1) = x /\ x + (a + 1) = b + 1
    OBVIOUS
  <2>2. Len(conn[i].up) \in Nat
    BY <1>1
  <2> QED
    BY <1>1, <2>1, <2>2
<1>3. ASSUME NEW j \in 1 .. n PROVE conn[i].up[j] = Written(i, t + j)'
  <2>1. t + j \in Int /\ k <= t + j /\ t + j <= l
    <3>1. n = l - t /\ k - 1 <= t
      BY <1>2
    <3> QED
      BY ONLY n \in Nat, l \in Nat, k \in Nat, t \in Int, j \in 1 .. n, <3>1
  <2>2. conn[i].up[j] = Written(i, t + j)
    BY <1>2, <1>3 DEF Queued
  <2> QED
    BY <1>2, <2>1, <2>2
<1>4. CASE conn'[i].up = conn[i].up /\ LastOf(i)' = LastOf(i)
  <2>1. Taken(i)' = t
    BY <1>2, <1>4 DEF Taken
  <2> QED
    BY <1>2, <1>3, <1>4, <2>1 DEF Queued
<1>5. ASSUME NEW f \in UpFrame, conn'[i].up = Append(conn[i].up, f),
             LastOf(i)' = LastOf(i) + 1, f = Written(i, LastOf(i))'
      PROVE  Queued(i)' /\ Taken(i)' = Taken(i)
  <2>1. Len(conn'[i].up) = n + 1 /\ conn'[i].up[n + 1] = f
        /\ \A j \in 1 .. n : conn'[i].up[j] = conn[i].up[j]
    <3>1. \A s \in Seq(UpFrame) : /\ Len(Append(s, f)) = Len(s) + 1
                                   /\ Append(s, f)[Len(s) + 1] = f
                                   /\ \A j \in 1 .. Len(s) : Append(s, f)[j] = s[j]
      OBVIOUS
    <3> QED
      BY <1>1, <1>2, <1>5, <3>1
  <2>2. Taken(i)' = l + 1 - (n + 1)
    <3>1. PICK p : p = LastOf(i)' /\ p = l + 1
      BY <1>2, <1>5
    <3>2. PICK q : q = Len(conn'[i].up) /\ q = n + 1
      BY <2>1
    <3>3. Taken(i)' = p - q
      BY <3>1, <3>2 DEF Taken
    <3> QED
      BY <3>1, <3>2, <3>3
  <2>3. l + 1 - (n + 1) = t /\ t + (n + 1) = l + 1
    BY <1>2
  <2>4. f = Written(i, t + (n + 1))'
    <3>1. PICK p : p = LastOf(i)'
      OBVIOUS
    <3>2. p = t + (n + 1)
      BY <1>2, <1>5, <2>3, <3>1
    <3> QED
      BY <1>5, <3>1, <3>2 DEF Written
  <2>5. \A j \in 1 .. n + 1 : j \in 1 .. n \/ j = n + 1
    OBVIOUS
  <2>6. \A j \in 1 .. n + 1 : conn'[i].up[j] = Written(i, t + j)'
    BY <1>3, <2>1, <2>4, <2>5
  <2> QED
    BY <1>2, <2>1, <2>2, <2>3, <2>6 DEF Queued
<1> QED
  BY <1>4, <1>5

LEMMA StillAnswers ==
  ASSUME Grown, mode' = mode, NEW i \in ConnId, Answered(i), Streamed(i)' = Streamed(i),
         conn'[i].exit = conn[i].exit,
         conn'[i].down = <<>> \/ conn'[i].down = conn[i].down \/ Streamed(i)
  PROVE  Answered(i)'
<1> SUFFICES ASSUME conn'[i].down = conn[i].down, conn[i].down # <<>>, ~Streamed(i)
             PROVE  Answered(i)'
  BY DEF Answered
<1>1. PICK c \in Client : c = i[1]
  BY Numbered
<1>2. PICK k \in Nat : k = i[2]
  BY Numbered
<1>3. Answers(conn[i].down[1], i) /\ conn[i].exit = "closed" /\ Len(conn[i].down) = 1
  BY DEF Answered
<1>4. k <= Len(sent[c])
  BY <1>1, <1>2, <1>3 DEF Answers
<1>5. Len(sent[c]) \in Nat /\ Len(sent'[c]) \in Nat /\ k <= Len(sent'[c])
  BY <1>4 DEF Grown
<1>6. k # 0 => sent'[c][k] = sent[c][k]
  BY <1>4, <1>5 DEF Grown
<1>7. ExitSecure' = ExitSecure
  BY DEF ExitSecure
<1>8. \A d, x : ReplyTo(d, x)' = ReplyTo(d, x) /\ Body(x)' = Body(x)
  BY <1>7 DEF ReplyTo, Body
<1>9. k # 0 => \E x \in Outcomes(sent[c][k]) :
                 conn[i].down[1] = ReplyTo(c, x) /\ (ExitSecure => Fits(Body(x)))
  BY <1>1, <1>2, <1>3 DEF Answers
<1>10. k # 0 => \E x \in Outcomes(sent'[c][k]) :
                  conn'[i].down[1] = ReplyTo(c, x)' /\ (ExitSecure' => Fits(Body(x)'))
  BY <1>6, <1>7, <1>8, <1>9
<1>11. Answers(conn[i].down[1], i)'
  BY <1>1, <1>2, <1>5, <1>10 DEF Answers, Outcomes
<1> QED
  BY <1>3, <1>11 DEF Answered

(* A step of the clients leaves the exit and the destination what they had. *)
LEMMA ExitStays ==
  ASSUME ExchangeInv, Grown, mode' = mode, loop' = loop, job' = job, arrived' = arrived,
         \A i \in ConnId : conn[i].exit # "none" =>
           /\ conn'[i].exit = conn[i].exit /\ Taken(i)' = Taken(i)
           /\ Carries(i)' = Carries(i) /\ Streamed(i)' = Streamed(i)
  PROVE  Working' /\ Once'
<1> USE DEF ExchangeInv
<1>1. Working'
  <2>1. CASE loop \in {"accept", "ended"}
    BY <2>1 DEF Working
  <2>2. CASE loop \notin {"accept", "ended"}
    <3>1. PICK i \in ConnId : i = job.conn /\ conn[i].exit = "waiting" /\ Taken(i) >= i[2]
      BY <2>2 DEF Working
    <3>2. PICK c \in Client : c = i[1]
      BY Numbered
    <3>3. i[2] \in 1 .. Len(sent[c]) => /\ i[2] \in 1 .. Len(sent'[c])
                                       /\ sent'[c][i[2]] = sent[c][i[2]]
      BY DEF Grown
    <3>4. Taken(job.conn)' = Taken(i)' /\ Streamed(job.conn)' = Streamed(i)'
          /\ Carries(job.conn)' = Carries(i)'
      BY <3>1 DEF Taken, LastOf, Streamed, Carries
    <3>5. Taken(job.conn)' >= i[2] /\ conn'[i].exit = "waiting"
          /\ Streamed(job.conn)' = Streamed(i) /\ Carries(job.conn)' = Carries(i)
      BY <3>1, <3>4
    <3>6. loop = "read" => job' = [conn |-> job'.conn, frame |-> Carries(job.conn)']
      BY <3>1, <3>5 DEF Working
    <3>7. loop = "stream" => job' \in Stream /\ Streamed(job.conn)'
      BY <3>1, <3>5 DEF Working
    <3>8. loop \in {"forward", "send"} =>
            job'.conn[2] \in 1 .. Len(sent'[job'.conn[1]]) /\ ~Streamed(job.conn)'
      BY <3>1, <3>2, <3>3, <3>5 DEF Working
    <3>9. loop \in {"forward", "send"} => sent'[i[1]][i[2]] = sent[i[1]][i[2]]
      BY <3>1, <3>2, <3>3 DEF Working
    <3>10. loop = "forward" =>
             job' = [conn |-> job'.conn, message |-> sent'[job'.conn[1]][job'.conn[2]]]
      BY <3>1, <3>9 DEF Working
    <3>11. loop = "send" =>
             \E x \in Outcomes(sent'[job'.conn[1]][job'.conn[2]]) :
               job' = [conn |-> job'.conn, message |-> x]
      BY <3>1, <3>9 DEF Working, Outcomes
    <3> QED
      BY <2>2, <3>1, <3>5, <3>6, <3>7, <3>8, <3>10, <3>11 DEF Working, Outcomes
  <2> QED
    BY <2>1, <2>2
<1>2. Once'
  <2>1. ASSUME NEW a, NEW i \in ConnId, conn[i].exit # "none", Delivered(a, i)
        PROVE  Delivered(a, i)'
    <3>1. PICK c \in Client : c = i[1]
      BY Numbered
    <3>2. \A k \in 1 .. Len(sent[c]) : k \in 1 .. Len(sent'[c]) /\ sent'[c][k] = sent[c][k]
      BY DEF Grown
    <3>3. Secure' = Secure /\ Taken(i)' = Taken(i) /\ Streamed(i)' = Streamed(i)
      BY <2>1 DEF Secure
    <3> QED
      BY <2>1, <3>1, <3>2, <3>3 DEF Delivered
  <2>2. ASSUME NEW j \in 1 .. Len(arrived)
        PROVE  \E i \in ConnId : /\ conn'[i].exit # "none" /\ Delivered(arrived[j], i)'
                                 /\ ~arrived[j].wrapped => Through(i)'
    <3>1. PICK a : a = arrived[j]
      OBVIOUS
    <3>2. PICK i \in ConnId : /\ conn[i].exit # "none" /\ Delivered(arrived[j], i)
                              /\ ~arrived[j].wrapped => Through(i)
      BY DEF Once
    <3>3. Delivered(a, i)
      BY <3>1, <3>2 DEF Delivered
    <3>4. Delivered(a, i)' /\ conn'[i].exit # "none"
      BY <2>1, <3>2, <3>3
    <3>5. Delivered(arrived[j], i)'
      BY <3>1, <3>4 DEF Delivered
    <3>6. Through(i) => Through(i)'
      BY <3>2 DEF Through
    <3> QED
      BY <3>2, <3>4, <3>5, <3>6
  <2> QED
    BY <2>2 DEF Once
<1> QED
  BY <1>1, <1>2

(* The connections of the others, and what is known of them.                *)
LEMMA OthersQueued ==
  ASSUME Types, Sent, Grown, mode' = mode, NEW i \in ConnId, Made(i), Queued(i),
         conn'[i] = conn[i], at'[i[1]] = at[i[1]], sent'[i[1]] = sent[i[1]],
         current'[i[1]] # NoConn
  PROVE  Queued(i)' /\ Taken(i)' = Taken(i)
<1>1. conn'[i].client # "none"
  BY DEF Made
<1>2. /\ Secure' = Secure
      /\ \A k \in Int : i[2] <= k /\ k <= LastOf(i) => Written(i, k)' = Written(i, k)
  BY <1>1, StillMade
<1>3. LastOf(i)' = LastOf(i)
  BY <1>2 DEF LastOf
<1> QED
  BY <1>2, <1>3, StillQueued

(* What any step of client c leaves to show: what becomes of its own        *)
(* connections, and where it stands then.                                   *)
LEMMA OwnStep ==
  ASSUME ExchangeInv, Matching, mode' = mode, NEW c \in Client, Grown, Sent',
         at' \in [Client -> {"idle", "probing", "waiting", "closing", "closed"}],
         \E S : replies' \in [Client -> Seq(S)],
         current' = current, backlog' = backlog, arrived' = arrived, UNCHANGED exitVars,
         \A d \in Client : d # c => /\ at'[d] = at[d] /\ sent'[d] = sent[d]
                                    /\ replies'[d] = replies[d],
         conn' \in [ConnId -> Connection],
         \A i \in ConnId :
           /\ conn'[i].exit = conn[i].exit
           /\ i[1] # c \/ conn[i].exit = "none" => conn'[i] = conn[i]
           /\ conn[i].exit # "none" =>
                /\ conn'[i].client # "none"
                /\ i[1] = c => Queued(i)' /\ Taken(i)' = Taken(i)
           /\ conn'[i].down = <<>> \/ conn'[i].down = conn[i].down \/ Streamed(i),
         at[c] \in {"closing", "closed"} =>
           at'[c] \in {"closing", "closed"} /\ sent'[c] = sent[c],
         Secure /\ at'[c] \in {"closing", "closed"} => at[c] \in {"closing", "closed"},
         Asked(c)'
  PROVE  ExchangeInv'
<1> USE DEF ExchangeInv
<1>1. loop' = loop /\ job' = job /\ generation' = generation /\ disconnected' = disconnected
  BY DEF exitVars
<1>2. Secure' = Secure
  BY DEF Secure
<1>3. Types'
  BY <1>1 DEF Types, Grown
<1>4. ASSUME NEW i \in ConnId, conn[i].exit # "none"
      PROVE  /\ Made(i)' /\ Queued(i)' /\ Taken(i)' = Taken(i) /\ Answered(i)'
             /\ Carries(i)' = Carries(i) /\ Streamed(i)' = Streamed(i)
  <2>1. Made(i) /\ Queued(i) /\ Answered(i)
    BY <1>4 DEF Conns
  <2>2. PICK d \in Client : d = i[1]
    BY Numbered
  <2>3. current'[d] # NoConn /\ conn'[i].client # "none"
    BY <1>4, <2>1, <2>2 DEF Made
  <2>4. at[d] \in {"closing", "closed"} =>
          at'[d] \in {"closing", "closed"} /\ sent'[d] = sent[d]
    OBVIOUS
  <2>5. Made(i)' /\ Carries(i)' = Carries(i) /\ Streamed(i)' = Streamed(i)
    BY <2>1, <2>2, <2>3, <2>4, StillMade
  <2>6. Queued(i)' /\ Taken(i)' = Taken(i)
    <3>1. CASE d = c
      BY <1>4, <2>2, <3>1
    <3>2. CASE d # c
      <4>1. conn'[i] = conn[i] /\ at'[i[1]] = at[i[1]] /\ sent'[i[1]] = sent[i[1]]
            /\ current'[i[1]] # NoConn
        BY <2>2, <2>3, <3>2
      <4> QED
        BY <2>1, <4>1, OthersQueued
    <3> QED
      BY <3>1, <3>2
  <2>7. Answered(i)'
    BY <2>1, <2>5, StillAnswers
  <2> QED
    BY <2>5, <2>6, <2>7
<1>5. Conns'
  <2> SUFFICES ASSUME NEW i \in ConnId
               PROVE  /\ IF conn'[i].exit = "none" THEN conn'[i].client = "none"
                         ELSE Made(i)' /\ Queued(i)'
                      /\ Answered(i)'
    BY DEF Conns
  <2>1. CASE conn[i].exit = "none"
    <3>1. conn'[i] = conn[i] /\ conn[i].client = "none" /\ Answered(i)
      BY <2>1 DEF Conns
    <3>2. Streamed(i) => Streamed(i)'
      <4>1. i[1] \in Client
        BY Numbered
      <4> QED
        BY <4>1 DEF Streamed, Grown
    <3> QED
      BY <2>1, <3>1, <3>2 DEF Answered
  <2>2. CASE conn[i].exit # "none"
    BY <1>4, <2>2
  <2> QED
    BY <2>1, <2>2
<1>6. ASSUME NEW d \in Client PROVE Asked(d)'
  <2>1. CASE d = c
    BY <2>1
  <2>2. CASE d # c
    <3>1. current[d] # NoConn => current[d] \in ConnId
      BY DEF Types
    <3>2. <<d, 1>> \in ConnId /\ <<d, 1>>[1] = d
      BY Circuits
    <3>3. conn'[<<d, 1>>] = conn[<<d, 1>>]
      BY <2>2, <3>2
    <3> QED
      BY <1>2, <2>2, <3>1, <3>3, AskedStill
  <2> QED
    BY <2>1, <2>2
<1>7. Waiting'
  <2>1. \A i \in ConnId : i # job.conn /\ conn[i].exit = "waiting" =>
          conn'[i].exit = "waiting" /\ Taken(i)' = Taken(i)
    BY <1>4
  <2> QED
    BY <1>1, <2>1, WaitingKept
<1>8. Working' /\ Once'
  BY <1>1, <1>4, ExitStays
<1>9. Notified'
  <2> SUFFICES ASSUME NEW d \in Client, Secure', generation' = 0,
                      at'[d] \in {"closing", "closed"}, Mine(d)'.exit = "closed"
               PROVE  d \in disconnected'
    BY DEF Notified
  <2>1. Secure /\ at[d] \in {"closing", "closed"}
    BY <1>2
  <2>2. current[d] = <<d, Len(sent[d]) + 1>>
    <3>1. Asked(d)
      OBVIOUS
    <3> QED
      BY <2>1, <3>1 DEF Asked
  <2>3. current[d] \in ConnId
    BY <2>2, Circuits
  <2>4. Mine(d).exit = "closed"
    BY <2>3 DEF Mine
  <2> QED
    BY <1>1, <2>1, <2>4 DEF Notified
<1> QED
  BY <1>3, <1>5, <1>6, <1>7, <1>8, <1>9

(* A new circuit.                                                           *)
LEMMA NewCircuitMakes ==
  ASSUME Types, NEW c \in Client, NEW k \in 0 .. MaxSends + 1, NEW f \in UpFrame,
         NewCircuit(c, k, f)
  PROVE  /\ conn' \in [ConnId -> Connection] /\ <<c, k>> \in ConnId
         /\ conn'[<<c, k>>] = [up |-> <<f>>, down |-> <<>>, client |-> "open", exit |-> "waiting"]
         /\ conn'[<<c, k>>].exit = "waiting"
         /\ \A i \in ConnId : i # <<c, k>> => conn'[i] = conn[i]
         /\ current' \in [Client -> ConnId \cup {NoConn}] /\ current'[c] = <<c, k>>
         /\ \A d \in Client : d # c => current'[d] = current[d]
         /\ backlog' = Append(backlog, <<c, k>>) /\ backlog' \in Seq(ConnId)
<1>1. PICK w \in ConnId : w = <<c, k>>
  BY Numbered
<1> DEFINE r == [up |-> <<f>>, down |-> <<>>, client |-> "open", exit |-> "waiting"]
<1>2. r \in Connection
  BY DEF Connection
<1>3. conn' = [conn EXCEPT ![w] = r] /\ current' = [current EXCEPT ![c] = w]
      /\ backlog' = Append(backlog, w)
  BY <1>1 DEF NewCircuit
<1> HIDE DEF r
<1>4. conn \in [ConnId -> Connection] /\ backlog \in Seq(ConnId)
      /\ current \in [Client -> ConnId \cup {NoConn}]
  BY DEF Types
<1>5. /\ conn' \in [ConnId -> Connection] /\ conn'[w] = r
      /\ \A i \in ConnId : i # w => conn'[i] = conn[i]
  BY <1>2, <1>3, <1>4
<1>6. /\ current' \in [Client -> ConnId \cup {NoConn}] /\ current'[c] = w
      /\ \A d \in Client : d # c => current'[d] = current[d]
  BY <1>3, <1>4
<1>7. backlog' \in Seq(ConnId)
  BY <1>3, <1>4
<1> QED
  BY <1>1, <1>3, <1>5, <1>6, <1>7 DEF r

LEMMA NewCircuitStep ==
  ASSUME ExchangeInv, Matching, mode' = mode, NEW c \in Client, Grown, Sent',
         NEW k \in 0 .. MaxSends + 1, NEW f \in UpFrame, NewCircuit(c, k, f),
         conn[<<c, k>>].exit = "none", at[c] = "idle",
         at' \in [Client -> {"idle", "probing", "waiting", "closing", "closed"}],
         replies' = replies, arrived' = arrived, UNCHANGED exitVars,
         \A d \in Client : d # c => at'[d] = at[d] /\ sent'[d] = sent[d],
         \A i \in ConnId : i[1] = c /\ conn[i].exit # "none" => LastOf(i)' = LastOf(i),
         k <= Len(sent'[c]) + 1,
         k = Len(sent'[c]) + 1 => Secure /\ at'[c] \in {"closing", "closed"},
         ~Secure => k <= 1,
         LastOf(<<c, k>>)' = k, f = Carries(<<c, k>>)', Asked(c)'
  PROVE  ExchangeInv'
<1> USE DEF ExchangeInv
<1> DEFINE r == [up |-> <<f>>, down |-> <<>>, client |-> "open", exit |-> "waiting"]
<1>1. PICK w \in ConnId : w = <<c, k>>
  BY NewCircuitMakes
<1>2. /\ conn' \in [ConnId -> Connection] /\ conn'[w] = r
      /\ \A i \in ConnId : i # w => conn'[i] = conn[i]
      /\ current' \in [Client -> ConnId \cup {NoConn}] /\ current'[c] = w
      /\ \A d \in Client : d # c => current'[d] = current[d]
      /\ backlog' = Append(backlog, w) /\ backlog' \in Seq(ConnId)
  BY <1>1, NewCircuitMakes
<1>3. /\ conn'[w].exit = "waiting" /\ conn'[w].client = "open" /\ conn'[w].down = <<>>
      /\ Len(conn'[w].up) = 1 /\ conn'[w].up[1] = f
  BY <1>2
<1> HIDE DEF r
<1>4. w # NoConn /\ w[1] = c /\ w[2] = k
  BY <1>1, Numbered
<1>5. loop' = loop /\ job' = job /\ generation' = generation /\ disconnected' = disconnected
      /\ Secure' = Secure
  BY DEF exitVars, Secure
<1>6. \A d \in Client : current[d] # NoConn => current'[d] # NoConn
  BY <1>2, <1>4
<1>7. Types'
  BY <1>2, <1>5 DEF Types, Grown
<1>8. conn[w].exit = "none"
  BY <1>1
<1>9. ASSUME NEW i \in ConnId, conn[i].exit # "none"
      PROVE  /\ Made(i)' /\ Queued(i)' /\ Taken(i)' = Taken(i) /\ Answered(i)'
             /\ Carries(i)' = Carries(i) /\ Streamed(i)' = Streamed(i)
             /\ conn'[i] = conn[i] /\ i # w
  <2>1. Made(i) /\ Queued(i) /\ Answered(i) /\ conn'[i] = conn[i] /\ i # w
    BY <1>2, <1>8, <1>9 DEF Conns
  <2>2. PICK d \in Client : d = i[1]
    BY Numbered
  <2>3. current'[d] # NoConn /\ conn'[i].client # "none"
    BY <1>6, <2>1, <2>2 DEF Made
  <2>4. at[d] \in {"closing", "closed"} =>
          at'[d] \in {"closing", "closed"} /\ sent'[d] = sent[d]
    OBVIOUS
  <2>5. /\ Made(i)' /\ Carries(i)' = Carries(i) /\ Streamed(i)' = Streamed(i)
        /\ \A l \in Int : i[2] <= l /\ l <= LastOf(i) => Written(i, l)' = Written(i, l)
    BY <2>1, <2>2, <2>3, <2>4, StillMade
  <2>6. LastOf(i)' = LastOf(i)
    BY <1>5, <1>9, <2>2 DEF LastOf
  <2>7. Queued(i)' /\ Taken(i)' = Taken(i)
    BY <2>1, <2>5, <2>6, StillQueued
  <2>8. Answered(i)'
    BY <2>1, <2>5, StillAnswers
  <2> QED
    BY <2>1, <2>5, <2>7, <2>8
<1>10. Taken(w)' = k - 1 /\ Queued(w)' /\ Made(w)'
  <2>1. LastOf(w)' = k
    BY <1>1 DEF LastOf
  <2>2. Taken(w)' = k - 1
    BY <1>3, <2>1 DEF Taken
  <2>3. Carries(w)' = f
    BY <1>1 DEF Carries
  <2>4. k - 1 + 1 = k /\ k - 1 >= k - 1 /\ 1 .. 1 = {1}
    OBVIOUS
  <2>5. \A j \in 1 .. 1 : conn'[w].up[j] = Written(w, k - 1 + j)'
    BY <1>3, <1>4, <2>3, <2>4 DEF Written
  <2>6. Queued(w)'
    BY <1>3, <1>4, <2>2, <2>4, <2>5 DEF Queued
  <2>7. Made(w)'
    BY <1>2, <1>3, <1>4, <1>5 DEF Made
  <2> QED
    BY <2>2, <2>6, <2>7
<1>11. Conns'
  <2> SUFFICES ASSUME NEW i \in ConnId
               PROVE  /\ IF conn'[i].exit = "none" THEN conn'[i].client = "none"
                         ELSE Made(i)' /\ Queued(i)'
                      /\ Answered(i)'
    BY DEF Conns
  <2>1. CASE i = w
    <3>1. Answered(w)'
      BY <1>3 DEF Answered
    <3> QED
      BY <1>3, <1>10, <2>1, <3>1
  <2>2. CASE i # w /\ conn[i].exit = "none"
    <3>1. conn'[i] = conn[i] /\ conn[i].client = "none" /\ Answered(i)
      BY <1>2, <2>2 DEF Conns
    <3>2. Streamed(i) => Streamed(i)'
      <4>1. i[1] \in Client
        BY Numbered
      <4> QED
        BY <4>1 DEF Streamed, Grown
    <3> QED
      BY <2>2, <3>1, <3>2 DEF Answered
  <2>3. CASE i # w /\ conn[i].exit # "none"
    BY <1>9, <2>3
  <2> QED
    BY <2>1, <2>2, <2>3
<1>12. ASSUME NEW d \in Client PROVE Asked(d)'
  <2>1. CASE d = c
    BY <2>1
  <2>2. CASE d # c
    <3>1. current[d] # NoConn => current[d] \in ConnId
      BY DEF Types
    <3>2. <<d, 1>> \in ConnId /\ <<d, 1>>[1] = d
      BY Circuits
    <3>3. conn'[<<d, 1>>] = conn[<<d, 1>>]
      BY <1>2, <1>4, <2>2, <3>2
    <3>4. current[d] # NoConn /\ conn[current[d]].exit # "none" => conn'[current[d]].exit # "none"
      BY <1>2, <1>8, <3>1
    <3> QED
      BY <1>2, <1>5, <2>2, <3>3, <3>4, AskedStill
  <2> QED
    BY <2>1, <2>2
<1>13. Waiting'
  <2>1. PICK n \in Nat : n = Len(backlog)
    BY DEF Types
  <2>2. ASSUME NEW j \in 1 .. n
        PROVE  /\ backlog[j] \in ConnId /\ backlog[j] # w
               /\ conn'[backlog[j]].exit = "waiting" /\ backlog[j] # job.conn
               /\ \A i \in ConnId : i = backlog[j] => Taken(i)' = i[2] - 1
    <3>1. PICK i \in ConnId : i = backlog[j]
      BY <2>1 DEF Types
    <3>2. conn[i].exit = "waiting" /\ i # job.conn /\ Taken(i) = i[2] - 1
      BY <2>1, <3>1 DEF Waiting
    <3>3. conn'[i].exit = "waiting" /\ i # w /\ Taken(i)' = i[2] - 1
      BY <1>9, <3>2
    <3> QED
      BY <3>1, <3>2, <3>3
  <2>3. /\ Len(backlog') = n + 1 /\ backlog'[n + 1] = w
        /\ \A j \in 1 .. n + 1 : j # n + 1 => j \in 1 .. n /\ backlog'[j] = backlog[j]
    <3>1. backlog \in Seq(ConnId)
      BY DEF Types
    <3> QED
      BY <1>2, <2>1, <3>1
  <2>4. job.conn # w
    <3>1. loop \in {"accept", "ended"} => job.conn = NoConn
      BY DEF Working, None
    <3>2. loop \notin {"accept", "ended"} => conn[job.conn].exit = "waiting"
      BY DEF Working
    <3> QED
      BY <1>4, <1>8, <3>1, <3>2
  <2>5. ASSUME NEW j \in 1 .. n + 1
        PROVE  /\ conn'[backlog'[j]].exit = "waiting" /\ backlog'[j] # job.conn
               /\ \A i \in ConnId : i = backlog'[j] => Taken(i)' = i[2] - 1
    <3>1. CASE j = n + 1
      BY <1>3, <1>4, <1>10, <2>3, <2>4, <3>1
    <3>2. CASE j # n + 1
      BY <2>2, <2>3, <3>2
    <3> QED
      BY <3>1, <3>2
  <2>6. \A j, l \in 1 .. n + 1 : backlog'[j] = backlog'[l] => j = l
    <3>1. \A j, l \in 1 .. n : backlog[j] = backlog[l] => j = l
      BY <2>1 DEF Waiting
    <3>2. \A j \in 1 .. n : backlog[j] # w
      BY <2>2
    <3> QED
      BY <2>3, <3>1, <3>2
  <2>7. ASSUME NEW j \in 1 .. n + 1 PROVE Taken(backlog[j])' = backlog'[j][2] - 1
    <3>1. PICK i \in ConnId : i = backlog'[j]
      BY <1>2, <2>3
    <3>2. Taken(i)' = i[2] - 1
      BY <2>5, <3>1
    <3> QED
      BY <3>1, <3>2 DEF Taken, LastOf
  <2> QED
    BY <1>5, <2>3, <2>5, <2>6, <2>7 DEF Waiting
<1>14. Working' /\ Once'
  <2>1. \A i \in ConnId : conn[i].exit # "none" =>
          /\ conn'[i].exit = conn[i].exit /\ Taken(i)' = Taken(i)
          /\ Carries(i)' = Carries(i) /\ Streamed(i)' = Streamed(i)
    BY <1>9
  <2> QED
    BY <1>5, <2>1, ExitStays
<1>15. Notified'
  <2> SUFFICES ASSUME NEW d \in Client, Secure', generation' = 0,
                      at'[d] \in {"closing", "closed"}, Mine(d)'.exit = "closed"
               PROVE  d \in disconnected'
    BY DEF Notified
  <2>1. d # c
    BY <1>2, <1>3 DEF Mine
  <2>2. Secure /\ at[d] \in {"closing", "closed"} /\ current'[d] = current[d]
    BY <1>2, <1>5, <2>1
  <2>3. current[d] = <<d, Len(sent[d]) + 1>>
    <3>1. Asked(d)
      OBVIOUS
    <3> QED
      BY <2>2, <3>1 DEF Asked
  <2>4. current[d] \in ConnId /\ current[d] # w
    <3>1. current[d] \in ConnId
      BY <2>3, Circuits
    <3>2. current[d][1] = d
      BY <2>3
    <3> QED
      BY <1>4, <2>1, <3>1, <3>2
  <2>5. Mine(d).exit = "closed"
    BY <1>2, <2>2, <2>4 DEF Mine
  <2> QED
    BY <1>5, <2>2, <2>5 DEF Notified
<1> QED
  BY <1>7, <1>11, <1>12, <1>13, <1>14, <1>15

LEMMA FreshNext ==
  ASSUME ExchangeInv, NEW c \in Client, at[c] = "idle" 
  PROVE  /\ <<c, Len(sent[c]) + 1>> \in ConnId /\ Len(sent[c]) + 1 \in 0 .. MaxSends + 1
         /\ Len(sent[c]) \in Nat /\ conn[<<c, Len(sent[c]) + 1>>].exit = "none"
<1>1. PICK k \in Nat : k = Len(sent[c]) + 1
  BY SentTexts DEF ExchangeInv
<1>2. <<c, k>> \in ConnId
  BY <1>1, Circuits DEF ExchangeInv
<1>3. Len(sent[c]) \in Nat /\ k \in 0 .. MaxSends + 1
  BY <1>1, SentTexts, Clientele DEF ExchangeInv
<1>4. ~Made(<<c, k>>)
  BY <1>1 DEF Made
<1>5. conn[<<c, k>>].exit = "none"
  BY <1>2, <1>4 DEF ExchangeInv, Conns
<1> QED
  BY <1>1, <1>2, <1>3, <1>5

LEMMA SendSecureStep ==
  ASSUME ExchangeInv, Matching, mode' = mode, NEW c \in Client, NEW n \in Sizes,
         SendSecure(c, n)
  PROVE  ExchangeInv'
<1> USE DEF ExchangeInv
<1>1. PICK k \in Nat : k = Len(sent[c]) + 1
  BY SentTexts
<1>2. PICK m : m = Text(c, k, n)
  OBVIOUS
<1>3. /\ Secure /\ at[c] = "idle" /\ Sends < MaxSends
      /\ NewCircuit(c, k, Sealed(c, m)) /\ sent' = [sent EXCEPT ![c] = Append(@, m)]
      /\ at' = [at EXCEPT ![c] = "waiting"] /\ replies' = replies /\ arrived' = arrived
      /\ UNCHANGED exitVars
  BY <1>1, <1>2 DEF SendSecure
<1>4. /\ Grown /\ Sent' /\ (\A d \in Client : d # c => sent'[d] = sent[d])
      /\ Len(sent'[c]) = k /\ sent'[c][k] = m /\ m \in Words /\ Fits(m)
  BY <1>1, <1>2, <1>3, GrownBy
<1>5. Secure' = Secure /\ \A d, x : Sealed(d, x)' = Sealed(d, x)
  BY DEF Secure, Sealed
<1>6. PICK f \in UpFrame : f = Sealed(c, m)
  BY <1>4, Sealing DEF Types
<1>7. at \in [Client -> {"idle", "probing", "waiting", "closing", "closed"}]
  BY DEF Types
<1>8. /\ at' \in [Client -> {"idle", "probing", "waiting", "closing", "closed"}]
      /\ at'[c] = "waiting" /\ \A d \in Client : d # c => at'[d] = at[d]
  BY <1>3, <1>7
<1>9. k \in 0 .. MaxSends + 1 /\ conn[<<c, k>>].exit = "none" /\ <<c, k>> \in ConnId /\ k # 0
  BY <1>1, <1>3, FreshNext
<1>10. f = Carries(<<c, k>>)'
  BY <1>4, <1>5, <1>6, <1>9 DEF Carries
<1>11. Asked(c)'
  <2>1. current'[c] = <<c, k>> /\ conn'[<<c, k>>].exit = "waiting"
    <3>1. NewCircuit(c, k, f)
      BY <1>3, <1>6
    <3> QED
      BY ONLY <1>9, <3>1, ExchangeInv, c \in Client, f \in UpFrame, NewCircuitMakes
         DEF ExchangeInv
  <2>2. Asked(c)
    OBVIOUS
  <2>3. Len(sent[c]) = Len(replies[c]) /\ Len(replies[c]) \in Nat
    BY <1>3, <2>2 DEF Asked, Types
  <2>4. Len(sent'[c]) = Len(replies'[c]) + 1
    BY <1>1, <1>3, <1>4, <2>3
  <2>5. \A j \in 1 .. Len(replies'[c]) : j <= Len(sent'[c]) /\ Matches(c, j)'
    <3>1. \A j \in 1 .. Len(replies[c]) : j <= Len(sent[c]) /\ Matches(c, j)
      BY <1>3, <2>2 DEF Asked
    <3>2. \A j \in 1 .. Len(replies[c]) : j <= Len(sent'[c]) /\ sent'[c][j] = sent[c][j]
      BY <1>4, <2>3 DEF Grown
    <3> QED
      BY <1>3, <3>1, <3>2 DEF Matches
  <2>6. sent'[c] # <<>> /\ <<c, k>> # NoConn
    BY <1>4, <1>9, Numbered
  <2> QED
    BY <1>3, <1>4, <1>5, <1>8, <2>1, <2>4, <2>5, <2>6 DEF Asked
<1>12. k <= Len(sent'[c]) + 1 /\ k # Len(sent'[c]) + 1
  BY <1>4
<1>13. /\ \A i \in ConnId : i[1] = c /\ conn[i].exit # "none" => LastOf(i)' = LastOf(i)
       /\ LastOf(<<c, k>>)' = k
  BY <1>3, <1>5 DEF LastOf
<1> QED
  BY <1>3, <1>4, <1>6, <1>8, <1>9, <1>10, <1>11, <1>12, <1>13, NewCircuitStep

LEMMA SendInsecureStep ==
  ASSUME ExchangeInv, Matching, mode' = mode, NEW c \in Client, NEW n \in Sizes,
         SendInsecure(c, n)
  PROVE  ExchangeInv'
<1> USE DEF ExchangeInv
<1>1. PICK k \in Nat : k = Len(sent[c]) + 1
  BY SentTexts
<1>2. PICK m : m = Text(c, k, n)
  OBVIOUS
<1>3. /\ ~Secure /\ at[c] = "idle" /\ Sends < MaxSends
      /\ IF sent[c] = <<>> THEN NewCircuit(c, 1, Sealed(c, m))
         ELSE /\ conn' = [conn EXCEPT ![current[c]].up = Append(@, Sealed(c, m))]
              /\ UNCHANGED <<current, backlog>>
      /\ sent' = [sent EXCEPT ![c] = Append(@, m)]
      /\ at' = at /\ replies' = replies /\ arrived' = arrived /\ UNCHANGED exitVars
  BY <1>1, <1>2 DEF SendInsecure
<1>4. /\ Grown /\ Sent' /\ (\A d \in Client : d # c => sent'[d] = sent[d])
      /\ Len(sent'[c]) = k /\ sent'[c][k] = m /\ m \in Words /\ Fits(m)
  BY <1>1, <1>2, <1>3, GrownBy
<1>5. Secure' = Secure /\ \A d, x : Sealed(d, x)' = Sealed(d, x)
  BY DEF Secure, Sealed
<1>6. PICK f \in UpFrame : f = Sealed(c, m)
  BY <1>4, Sealing DEF Types
<1>7. /\ at' \in [Client -> {"idle", "probing", "waiting", "closing", "closed"}]
      /\ \E S : replies' \in [Client -> Seq(S)]
  BY <1>3 DEF Types
<1>8. Asked(c)
  OBVIOUS
<1>9. sent'[c] # <<>> /\ <<c, 1>> # NoConn /\ <<c, 1>> \in ConnId
  <2>1. Len(sent'[c]) >= 1
    BY <1>1, <1>4, SentTexts
  <2>2. <<c, 1>> \in ConnId
    BY Circuits
  <2> QED
    BY <2>1, <2>2, Numbered
<1>10. CASE sent[c] = <<>>
  <2>1. k = 1 /\ NewCircuit(c, k, f)
    BY <1>1, <1>3, <1>6, <1>10
  <2>2. k \in 0 .. MaxSends + 1 /\ conn[<<c, k>>].exit = "none"
    BY <1>1, <1>3, FreshNext
  <2>3. f = Carries(<<c, k>>)'
    BY <1>4, <1>5, <1>6, <2>1 DEF Carries
  <2>4. current'[c] = <<c, k>> /\ conn'[<<c, k>>].exit = "waiting"
    BY ONLY <2>1, <2>2, ExchangeInv, c \in Client, f \in UpFrame, NewCircuitMakes
       DEF ExchangeInv
  <2>5. replies[c] = <<>>
    BY <1>3, <1>8, <1>10 DEF Asked
  <2>6. Asked(c)'
    BY <1>3, <1>5, <1>9, <2>1, <2>4, <2>5 DEF Asked
  <2>7. k <= Len(sent'[c]) + 1 /\ k # Len(sent'[c]) + 1 /\ k <= 1
    BY <1>4, <2>1
  <2>8. \A d \in Client : d # c => at'[d] = at[d] /\ sent'[d] = sent[d]
    BY <1>3, <1>4
  <2>9. ASSUME NEW i \in ConnId, i[1] = c, conn[i].exit # "none" PROVE LastOf(i)' = LastOf(i)
    <3>1. i[2] <= Len(sent[c]) + 1 /\ i[2] # Len(sent[c]) + 1 /\ i[2] \in Nat
      BY <1>3, <2>9, Numbered DEF Conns, Made
    <3>2. i[2] = 0
      BY <1>10, <3>1
    <3> QED
      BY <3>2 DEF LastOf
  <2>10. LastOf(<<c, k>>)' = k
    <3>1. ~Secure' /\ <<c, k>>[2] # 0 /\ <<c, k>>[1] = c /\ at'[c] # "closed"
      BY <1>3, <1>5, <2>1
    <3>2. LastOf(<<c, k>>)' = Len(sent'[c]) + 0
      BY <3>1 DEF LastOf
    <3> QED
      BY <1>4, <3>2
  <2> QED
    BY <1>3, <1>4, <1>7, <2>1, <2>2, <2>3, <2>6, <2>7, <2>8, <2>9, <2>10, NewCircuitStep
<1>11. CASE sent[c] # <<>>
  <2>1. PICK w \in ConnId : w = current[c] /\ w = <<c, 1>> /\ w[1] = c /\ w[2] = 1
    BY <1>3, <1>8, <1>9, <1>11 DEF Asked
  <2>2. conn[w] \in Connection /\ conn[w].exit # "none"
    BY <1>8, <1>9, <2>1 DEF Asked, Types
  <2>3. Made(w) /\ Queued(w)
    BY <2>2 DEF Conns
  <2>4. PICK u \in Seq(UpFrame) : u = Append(conn[w].up, f)
    <3>1. conn[w].up \in Seq(UpFrame)
      BY <2>2 DEF Connection
    <3>2. Append(conn[w].up, f) \in Seq(UpFrame)
      BY <3>1
    <3> QED
      BY <3>2
  <2>5. conn' = [conn EXCEPT ![w] = [conn[w] EXCEPT !.up = u]]
        /\ current' = current /\ backlog' = backlog
    BY <1>3, <1>6, <1>11, <2>1, <2>4
  <2>6. PICK r \in Connection : /\ r = [conn[w] EXCEPT !.up = u] /\ r.up = u
                                /\ r.exit = conn[w].exit /\ r.client = conn[w].client
                                /\ r.down = conn[w].down
    <3>1. [conn[w] EXCEPT !.up = u] \in Connection
      BY <2>2 DEF Connection
    <3> QED
      BY <2>2, <3>1 DEF Connection
  <2>7. conn \in [ConnId -> Connection] /\ conn' = [conn EXCEPT ![w] = r]
    BY <2>5, <2>6 DEF Types
  <2>8. conn' \in [ConnId -> Connection] /\ conn'[w] = r
        /\ \A i \in ConnId : i # w => conn'[i] = conn[i]
    BY <2>7
  <2>9. conn'[w].client # "none" /\ current'[w[1]] # NoConn
    BY <2>1, <2>3, <2>5, <2>6, <2>8 DEF Made
  <2>10. LastOf(w)' = LastOf(w) + 1 /\ f = Written(w, LastOf(w))'
    <3>1. LastOf(w)' = k /\ LastOf(w) = k - 1
      <4> DEFINE a == at[w[1]]
      <4>a. ~Secure /\ ~Secure' /\ ~(w[2] = 0) /\ w[1] = c /\ a # "closed" /\ a' # "closed"
        BY <1>3, <1>5, <2>1
      <4>b. LastOf(w)' = Len(sent'[w[1]]) + 0
        BY <4>a DEF LastOf
      <4>c. LastOf(w) = Len(sent[w[1]]) + 0
        BY <4>a DEF LastOf
      <4>1. LastOf(w)' = Len(sent'[c]) + 0 /\ LastOf(w) = Len(sent[c]) + 0
        BY <4>a, <4>b, <4>c
      <4>2. PICK l \in Nat : l = Len(sent[c]) /\ l + 0 = k - 1
        BY <1>1, SentTexts
      <4> QED
        BY <1>4, <4>1, <4>2
    <3>2. k # 1
      <4>1. Len(sent[c]) # 0 /\ Len(sent[c]) \in Nat
        BY <1>11, SentTexts
      <4> QED
        BY <1>1, <4>1
    <3>3. f = Sealed(c, m)'
      BY <1>5, <1>6
    <3>4. Written(w, LastOf(w))' = Sealed(c, m)'
      <4>1. PICK l : l = LastOf(w)' /\ l = k
        BY <3>1
      <4>2. l # w[2] /\ l <= Len(sent'[w[1]]) /\ sent'[w[1]][l] = m
        BY <1>4, <2>1, <3>2, <4>1
      <4>3. Written(w, LastOf(w))' = Sealed(w[1], sent[w[1]][l])'
        BY <4>1, <4>2 DEF Written
      <4>4. Sealed(w[1], sent[w[1]][l])' = Sealed(c, m)'
        BY <2>1, <4>2 DEF Sealed
      <4> QED
        BY <4>3, <4>4
    <3>5. k - 1 + 1 = k
      OBVIOUS
    <3> QED
      BY <3>1, <3>3, <3>4, <3>5
  <2>11. Queued(w)' /\ Taken(w)' = Taken(w)
    <3>1. \A l \in Int : w[2] <= l /\ l <= LastOf(w) => Written(w, l)' = Written(w, l)
      BY <1>3, <1>4, <2>1, <2>3, <2>9, StillMade
    <3>2. conn'[w].up = Append(conn[w].up, f)
      BY <2>4, <2>6, <2>8
    <3> QED
      BY <2>3, <2>10, <3>1, <3>2, StillQueued
  <2>12. ASSUME NEW i \in ConnId
         PROVE  /\ conn'[i].exit = conn[i].exit
                /\ i[1] # c \/ conn[i].exit = "none" => conn'[i] = conn[i]
                /\ conn[i].exit # "none" =>
                     /\ conn'[i].client # "none"
                     /\ i[1] = c => Queued(i)' /\ Taken(i)' = Taken(i)
                /\ conn'[i].down = conn[i].down
    <3>1. CASE i = w
      BY <2>1, <2>2, <2>6, <2>8, <2>9, <2>11, <3>1
    <3>2. CASE i # w
      <4>1. conn'[i] = conn[i] /\ (conn[i].exit # "none" => conn[i].client # "none")
        BY <2>8, <3>2 DEF Conns, Made
      <4>2. ASSUME conn[i].exit # "none", i[1] = c PROVE Queued(i)' /\ Taken(i)' = Taken(i)
        <5>1. Made(i) /\ Queued(i)
          BY <4>2 DEF Conns
        <5>2. i[2] = 0
          <6>1. i[2] \in {0, 1}
            BY <1>3, <5>1, Frames
          <6> QED
            BY <2>1, <3>2, <4>2, <6>1, Numbered
        <5>3. LastOf(i)' = LastOf(i)
          BY <5>2 DEF LastOf
        <5>4. \A l \in Int : i[2] <= l /\ l <= LastOf(i) => Written(i, l)' = Written(i, l)
          BY <1>3, <1>4, <2>1, <2>9, <4>1, <4>2, <5>1, StillMade
        <5> QED
          BY <4>1, <5>1, <5>3, <5>4, StillQueued
      <4> QED
        BY <4>1, <4>2
    <3> QED
      BY <3>1, <3>2
  <2>13. Asked(c)'
    <3>1. Len(sent[c]) \in Nat /\ Len(sent[c]) # 0
      BY <1>11, SentTexts
    <3>2. sent'[c][1] = sent[c][1]
      BY <1>4, <3>1 DEF Grown
    <3>3. OnlyFirst(c) => OnlyFirst(c)'
      BY <1>3, <2>1, <2>6, <2>8, <3>2 DEF OnlyFirst, Expected
    <3> QED
      BY <1>3, <1>5, <1>8, <1>9, <2>1, <2>2, <2>5, <2>6, <2>8, <3>2, <3>3 DEF Asked
  <2> QED
    BY <1>3, <1>4, <1>7, <2>5, <2>8, <2>12, <2>13, OwnStep
<1> QED
  BY <1>10, <1>11

(* A client changes its end of its current connection, and not its frames.  *)
LEMMA Amended ==
  ASSUME ExchangeInv, mode' = mode, sent' = sent, current' = current,
         NEW c \in Client, Secure \/ (at'[c] = "closed" <=> at[c] = "closed"),
         NEW w \in ConnId, w[1] = c, conn[w].exit # "none",
         \A i \in ConnId : i # w => conn'[i] = conn[i],
         conn'[w].exit = conn[w].exit, conn'[w].up = conn[w].up, conn'[w].client # "none",
         conn'[w].down = <<>> \/ conn'[w].down = conn[w].down \/ Streamed(w)
  PROVE  \A i \in ConnId :
           /\ conn'[i].exit = conn[i].exit
           /\ i[1] # c \/ conn[i].exit = "none" => conn'[i] = conn[i]
           /\ conn[i].exit # "none" =>
                /\ conn'[i].client # "none"
                /\ i[1] = c => Queued(i)' /\ Taken(i)' = Taken(i)
           /\ conn'[i].down = <<>> \/ conn'[i].down = conn[i].down \/ Streamed(i)
<1> USE DEF ExchangeInv
<1>1. Secure' = Secure /\ \A i, k : Written(i, k)' = Written(i, k)
  BY Unsent
<1>2. ASSUME NEW i \in ConnId
      PROVE  /\ conn'[i].exit = conn[i].exit /\ conn'[i].up = conn[i].up
             /\ i[1] # c \/ conn[i].exit = "none" => conn'[i] = conn[i]
             /\ conn[i].exit # "none" => conn'[i].client # "none"
             /\ conn'[i].down = <<>> \/ conn'[i].down = conn[i].down \/ Streamed(i)
  <2>1. CASE i = w
    BY <2>1
  <2>2. CASE i # w
    BY <2>2 DEF Conns, Made
  <2> QED
    BY <2>1, <2>2
<1>3. ASSUME NEW i \in ConnId, conn[i].exit # "none", i[1] = c
      PROVE  Queued(i)' /\ Taken(i)' = Taken(i)
  <2>1. Made(i) /\ Queued(i)
    BY <1>3 DEF Conns
  <2>2. LastOf(i)' = LastOf(i)
    <3>1. Secure \/ (at'[i[1]] = "closed" <=> at[i[1]] = "closed")
      BY <1>3
    <3> QED
      BY <1>1, <3>1 DEF LastOf
  <2> QED
    BY <1>1, <1>2, <2>1, <2>2, StillQueued
<1> QED
  BY <1>2, <1>3

LEMMA ReturnsStep ==
  ASSUME ExchangeInv, Matching, mode' = mode, NEW c \in Client, Secure,
         at[c] \in {"waiting", "closing"}, NEW r, Returns(c, r),
         at[c] = "waiting" => \/ StreamRequest(sent[c][Len(sent[c])])
                              \/ r \in Expected(sent[c][Len(sent[c])])
  PROVE  ExchangeInv'
<1> USE DEF ExchangeInv
<1>1. /\ replies' = IF at[c] = "closing" THEN replies
                    ELSE [replies EXCEPT ![c] = Append(@, r)]
      /\ at' = [at EXCEPT ![c] = IF @ = "closing" THEN "closed" ELSE "idle"]
      /\ conn' = [conn EXCEPT ![current[c]].client = "closed", ![current[c]].down = <<>>]
      /\ sent' = sent /\ current' = current /\ backlog' = backlog /\ arrived' = arrived
      /\ UNCHANGED exitVars
  BY DEF Returns
<1>2. Asked(c)
  OBVIOUS
<1>3. Grown /\ Sent' /\ Secure' = Secure
  BY <1>1, GrownByNone, Unsent
<1>4. PICK w \in ConnId : w = current[c] /\ w[1] = c
  <2>1. current[c] = <<c, Len(sent[c])>> \/ current[c] = <<c, Len(sent[c]) + 1>>
    BY <1>2 DEF Asked
  <2> QED
    BY <2>1, Circuits
<1>5. conn[w].exit # "none"
  BY <1>2, <1>4, Numbered DEF Asked
<1>6. conn \in [ConnId -> Connection] /\ conn[w] \in Connection
  BY DEF Types
<1>7. conn' = [conn EXCEPT ![w] = [conn[w] EXCEPT !.client = "closed", !.down = <<>>]]
  BY <1>1, <1>4, <1>6
<1>8. /\ conn' \in [ConnId -> Connection]
      /\ conn'[w].exit = conn[w].exit
      /\ \A i \in ConnId :
           /\ conn'[i].exit = conn[i].exit
           /\ i[1] # c \/ conn[i].exit = "none" => conn'[i] = conn[i]
           /\ conn[i].exit # "none" =>
                /\ conn'[i].client # "none"
                /\ i[1] = c => Queued(i)' /\ Taken(i)' = Taken(i)
           /\ conn'[i].down = <<>> \/ conn'[i].down = conn[i].down \/ Streamed(i)
  <2>1. PICK t \in Seq(DownFrame) : t = <<>>
    <3>1. <<>> \in Seq(DownFrame)
      BY ONLY TRUE
    <3> QED
      BY ONLY <3>1
  <2>2. PICK v \in Connection :
          /\ v = [conn[w] EXCEPT !.client = "closed", !.down = t]
          /\ v.exit = conn[w].exit /\ v.client = "closed" /\ v.down = t /\ v.up = conn[w].up
    <3>1. [conn[w] EXCEPT !.client = "closed", !.down = t] \in Connection
      BY ONLY <1>6, t \in Seq(DownFrame) DEF Connection
    <3> QED
      BY ONLY <1>6, <3>1, t \in Seq(DownFrame) DEF Connection
  <2>3. conn' = [conn EXCEPT ![w] = v]
    BY ONLY <1>7, <2>1, <2>2
  <2>4. conn' \in [ConnId -> Connection] /\ conn'[w] = v
        /\ \A i \in ConnId : i # w => conn'[i] = conn[i]
    BY ONLY <1>6, <2>3, v \in Connection, w \in ConnId
  <2> QED
    BY <1>1, <1>4, <1>5, <2>1, <2>2, <2>4, Amended
<1>9. at \in [Client -> {"idle", "probing", "waiting", "closing", "closed"}]
  BY DEF Types
<1>10. /\ at' \in [Client -> {"idle", "probing", "waiting", "closing", "closed"}]
       /\ at'[c] = (IF at[c] = "closing" THEN "closed" ELSE "idle")
       /\ \A d \in Client : d # c => at'[d] = at[d]
  BY <1>1, <1>9
<1>11. /\ \E S : replies' \in [Client -> Seq(S)]
       /\ \A d \in Client : d # c => replies'[d] = replies[d]
  <2>1. CASE at[c] = "closing"
    BY <1>1, <2>1 DEF Types
  <2>2. CASE at[c] # "closing"
    BY <1>1, <2>2, RepliesGrow
  <2> QED
    BY <2>1, <2>2
<1>12. Asked(c)'
  <2>1. current'[c] # NoConn /\ conn'[current'[c]].exit # "none"
    BY <1>1, <1>4, <1>5, <1>8, Numbered
  <2>2. CASE at[c] = "closing"
    <3>1. replies'[c] = replies[c] /\ at'[c] = "closed" /\ sent'[c] = sent[c]
          /\ current'[c] = current[c]
      BY <1>1, <1>10, <2>2
    <3>2. \A k : Matches(c, k)' = Matches(c, k)
      BY <3>1 DEF Matches
    <3> QED
      BY <1>2, <1>3, <2>1, <2>2, <3>1, <3>2 DEF Asked
  <2>3. CASE at[c] = "waiting"
    <3>1. /\ Len(replies[c]) \in Nat /\ Len(replies'[c]) = Len(replies[c]) + 1
          /\ replies'[c][Len(replies[c]) + 1] = r
          /\ \A j \in 1 .. Len(replies[c]) : replies'[c][j] = replies[c][j]
      BY <1>1, <2>3, RepliesGrow
    <3>2. at'[c] = "idle" /\ sent'[c] = sent[c] /\ current'[c] = current[c]
      BY <1>1, <1>10, <2>3
    <3>3. Len(sent[c]) = Len(replies[c]) + 1
      BY <1>2, <2>3 DEF Asked
    <3>4. ASSUME NEW j \in 1 .. Len(replies'[c])
          PROVE  j <= Len(sent[c]) /\ Matches(c, j)'
      <4>1. CASE j = Len(replies[c]) + 1
        <5>1. replies'[c][j] = r /\ sent'[c][j] = sent[c][Len(sent[c])]
          BY <3>1, <3>2, <3>3, <4>1
        <5>2. Matches(c, j)'
          BY <2>3, <5>1 DEF Matches, Expected, StreamRequest, AreStreamKeys
        <5> QED
          BY <3>1, <3>3, <4>1, <5>2
      <4>2. CASE j # Len(replies[c]) + 1
        <5>1. j \in 1 .. Len(replies[c])
          BY <3>1, <4>2
        <5>2. Matches(c, j) /\ j <= Len(sent[c])
          BY <1>2, <5>1 DEF Asked
        <5>3. replies'[c][j] = replies[c][j]
          BY <3>1, <5>1
        <5> QED
          BY <3>2, <5>2, <5>3 DEF Matches
      <4> QED
        BY <4>1, <4>2
    <3> QED
      BY <1>2, <1>3, <2>1, <2>3, <3>1, <3>2, <3>3, <3>4 DEF Asked
  <2> QED
    BY <2>2, <2>3
<1>13. /\ at[c] \in {"closing", "closed"} =>
            at'[c] \in {"closing", "closed"} /\ sent'[c] = sent[c]
       /\ at'[c] \in {"closing", "closed"} => at[c] \in {"closing", "closed"}
       /\ \A d \in Client : d # c => /\ at'[d] = at[d] /\ sent'[d] = sent[d]
                                     /\ replies'[d] = replies[d]
  BY <1>1, <1>10, <1>11
<1> QED
  BY <1>1, <1>3, <1>8, <1>10, <1>11, <1>12, <1>13, OwnStep

LEMMA NoReplyExpected == \A m : <<>> \in Expected(m)
BY DEF Expected

LEMMA TimesOutStep ==
  ASSUME ExchangeInv, Matching, mode' = mode, NEW c \in Client, TimesOut(c)
  PROVE  ExchangeInv'
BY NoReplyExpected, ReturnsStep DEF TimesOut

LEMMA ReceiveSecureStep ==
  ASSUME ExchangeInv, Matching, mode' = mode, NEW c \in Client, ReceiveSecure(c)
  PROVE  ExchangeInv'
<1> USE DEF ExchangeInv
<1>1. Secure /\ at[c] \in {"waiting", "closing"} /\ Asked(c)
  BY DEF ReceiveSecure
<1>2. CASE Returns(c, <<>>)
  BY <1>1, <1>2, NoReplyExpected, ReturnsStep
<1>3. CASE Mine(c).down # <<>> /\ Returns(c, SecureReplies(c, Head(Mine(c).down)))
  <2>1. PICK w \in ConnId : w = current[c]
    <3>1. current[c] = <<c, Len(sent[c])>> \/ current[c] = <<c, Len(sent[c]) + 1>>
      BY <1>1 DEF Asked
    <3> QED
      BY <3>1, Circuits
  <2>2. conn[w].down # <<>> /\ conn[w] \in Connection
        /\ (Streamed(w) \/ Answers(conn[w].down[1], w))
    BY <1>3, <2>1 DEF Mine, Conns, Answered, Types
  <2>3. at[c] = "waiting"
    <3>1. at[c] = "closing" => w = <<c, Len(sent[c]) + 1>>
      BY <1>1, <2>1 DEF Asked
    <3>2. Len(sent[c]) \in Nat
      BY SentTexts
    <3> QED
      BY <1>1, <2>2, <3>1, <3>2 DEF Answers, Streamed
  <2>4. PICK k \in Nat : k = Len(sent[c]) /\ k # 0 /\ w = <<c, k>>
    <3>1. Len(sent[c]) = Len(replies[c]) + 1 /\ Len(replies[c]) \in Nat
          /\ w = <<c, Len(sent[c])>>
      BY <1>1, <2>1, <2>3 DEF Asked, Types
    <3>2. Len(sent[c]) \in Nat
      BY SentTexts
    <3> QED
      BY <3>1, <3>2
  <2>5. CASE Streamed(w)
    <3>1. StreamRequest(sent[c][Len(sent[c])])
      BY <2>4, <2>5 DEF Streamed
    <3> QED
      BY <1>1, <1>3, <3>1, ReturnsStep
  <2>6. CASE Answers(conn[w].down[1], w)
    <3>1. PICK x \in Outcomes(sent[c][k]) :
            conn[w].down[1] = ReplyTo(c, x) /\ (ExitSecure => Fits(Body(x)))
      BY <2>4, <2>6 DEF Answers
    <3>2. x \in Words
      BY <2>4, <3>1, SentTexts, Controls DEF Outcomes
    <3>3. ExitSecure
      BY <1>1, Modal DEF Types
    <3>4. SecureReplies(c, ReplyTo(c, x)) = <<x>>
      BY <3>1, <3>2, <3>3, Replying DEF Types
    <3>5. Head(Mine(c).down) = ReplyTo(c, x)
      <4>1. conn[w].down \in Seq(DownFrame)
        BY <2>2 DEF Connection
      <4> QED
        BY <2>1, <2>2, <3>1, <4>1 DEF Mine
    <3>6. Returns(c, <<x>>)
      <4>1. \A e : e = ReplyTo(c, x) => SecureReplies(c, e) = <<x>>
        BY <3>4
      <4>2. SecureReplies(c, Head(Mine(c).down)) = <<x>>
        BY <3>5, <4>1
      <4> QED
        BY <1>3, <4>2 DEF Returns
    <3>7. <<x>> \in Expected(sent[c][k])
      BY <3>1 DEF Outcomes, Expected
    <3> QED
      BY <1>1, <2>4, <3>6, <3>7, ReturnsStep
  <2> QED
    BY <2>2, <2>5, <2>6
<1> QED
  BY <1>2, <1>3 DEF ReceiveSecure

LEMMA ReceiveInsecureStep ==
  ASSUME ExchangeInv, Matching, mode' = mode, NEW c \in Client, ReceiveInsecure(c)
  PROVE  ExchangeInv'
<1> USE DEF ExchangeInv
<1>1. /\ ~Secure /\ at[c] = "idle" /\ sent[c] # <<>> /\ Mine(c).down # <<>>
      /\ replies' = [replies EXCEPT ![c] = Append(@, <<InsecureReply(c, Head(Mine(c).down))>>)]
      /\ conn' = [conn EXCEPT ![current[c]].down = Tail(@)]
      /\ at' = at /\ sent' = sent /\ current' = current /\ backlog' = backlog
      /\ arrived' = arrived /\ UNCHANGED exitVars
  BY DEF ReceiveInsecure
<1>2. Asked(c)
  OBVIOUS
<1>3. Grown /\ Sent' /\ Secure' = Secure
  BY <1>1, GrownByNone, Unsent
<1>4. PICK w \in ConnId : w = current[c] /\ w = <<c, 1>> /\ w[1] = c /\ w[2] = 1
  BY <1>1, <1>2, Circuits DEF Asked
<1>5. conn[w].exit # "none" /\ conn[w] \in Connection
  BY <1>2, <1>4, Numbered DEF Asked, Types
<1>6. /\ conn[w].down # <<>> /\ conn[w].down \in Seq(DownFrame)
      /\ \/ Streamed(w)
         \/ conn[w].exit = "closed" /\ Len(conn[w].down) = 1 /\ Answers(conn[w].down[1], w)
  BY <1>1, <1>4, <1>5 DEF Mine, Conns, Answered, Connection
<1>7. PICK t \in Seq(DownFrame) :
        t = Tail(conn[w].down) /\ (Len(conn[w].down) = 1 => t = <<>>)
  <2>1. \A s \in Seq(DownFrame) :
          s # <<>> => Tail(s) \in Seq(DownFrame) /\ (Len(s) = 1 => Tail(s) = <<>>)
    BY OnlyOne
  <2> QED
    BY <1>6, <2>1
<1>8. conn[w].client # "none"
  BY <1>5 DEF Conns, Made
<1>9. conn' = [conn EXCEPT ![w] = [conn[w] EXCEPT !.down = t]]
  BY <1>1, <1>4, <1>7 DEF Types
<1>10. t = <<>> \/ t = conn[w].down \/ Streamed(w)
  BY <1>6, <1>7
<1>11. /\ conn' \in [ConnId -> Connection]
       /\ conn'[w].down = t /\ conn'[w].exit = conn[w].exit
       /\ \A i \in ConnId :
            /\ conn'[i].exit = conn[i].exit
            /\ i[1] # c \/ conn[i].exit = "none" => conn'[i] = conn[i]
            /\ conn[i].exit # "none" =>
                 /\ conn'[i].client # "none"
                 /\ i[1] = c => Queued(i)' /\ Taken(i)' = Taken(i)
            /\ conn'[i].down = <<>> \/ conn'[i].down = conn[i].down \/ Streamed(i)
  <2>1. PICK v \in Connection :
          /\ v = [conn[w] EXCEPT !.down = t]
          /\ v.exit = conn[w].exit /\ v.client = conn[w].client /\ v.down = t /\ v.up = conn[w].up
    <3>1. [conn[w] EXCEPT !.down = t] \in Connection
      BY <1>5, <1>7 DEF Connection
    <3> QED
      BY <1>5, <1>7, <3>1 DEF Connection
  <2>2. conn' \in [ConnId -> Connection] /\ conn'[w] = v
        /\ \A i \in ConnId : i # w => conn'[i] = conn[i]
    BY <1>9, <2>1 DEF Types
  <2>3. /\ sent' = sent /\ current' = current
        /\ at'[c] = "closed" <=> at[c] = "closed"
    BY <1>1
  <2>4. conn'[w].exit = conn[w].exit /\ conn'[w].up = conn[w].up /\ conn'[w].client # "none"
        /\ conn'[w].down = t
    BY <1>8, <2>1, <2>2
  <2> QED
    BY ONLY ExchangeInv, mode' = mode, c \in Client, w \in ConnId, <1>4, <1>5, <1>10, <2>2, <2>3,
       <2>4, Amended DEF ExchangeInv
<1>12. PICK r : r = <<InsecureReply(c, Head(Mine(c).down))>>
  OBVIOUS
<1>13. /\ \E S : replies' \in [Client -> Seq(S)]
       /\ Len(replies[c]) \in Nat /\ Len(replies'[c]) = Len(replies[c]) + 1
       /\ replies'[c][Len(replies[c]) + 1] = r
       /\ \A d \in Client : d # c => replies'[d] = replies[d]
  <2>1. replies' = [replies EXCEPT ![c] = Append(@, r)]
    BY <1>1, <1>12
  <2> QED
    BY <2>1, RepliesGrow
<1>14. Len(sent[c]) \in Nat /\ 1 \in 1 .. Len(sent[c])
  <2>1. Len(sent[c]) \in Nat /\ sent[c] \in Seq(Words)
    BY SentTexts
  <2> QED
    BY <1>1, <2>1
<1>15. StreamRequest(sent'[c][1]) \/ OnlyFirst(c)'
  <2>1. CASE Streamed(w)
    BY <1>1, <1>4, <2>1 DEF Streamed
  <2>2. CASE ~Streamed(w)
    <3>1. conn[w].exit = "closed" /\ t = <<>> /\ Answers(conn[w].down[1], w)
      BY <1>6, <1>7, <2>2
    <3>2. ~StreamRequest(sent[c][1])
      BY <1>4, <1>14, <2>2 DEF Streamed
    <3>3. Len(replies[c]) = 0
      <4>1. replies[c] # <<>> => OnlyFirst(c)
        BY <1>1, <1>2, <3>2 DEF Asked
      <4>2. ~OnlyFirst(c)
        BY <1>4, <1>6 DEF OnlyFirst
      <4> QED
        BY <4>1, <4>2
    <3>4. PICK x \in Outcomes(sent[c][1]) : conn[w].down[1] = ReplyTo(c, x)
      BY <1>4, <3>1 DEF Answers
    <3>5. x \in Words
      BY <1>14, <3>4, SentTexts, Controls DEF Outcomes
    <3>6. ~ExitSecure
      BY <1>1, Modal DEF Types
    <3>7. r = <<x>>
      <4>1. InsecureReply(c, ReplyTo(c, x)) = x
        BY <3>5, <3>6, Replying DEF Types
      <4>2. Head(Mine(c).down) = ReplyTo(c, x)
        BY <1>4, <1>6, <3>4 DEF Mine
      <4>3. \A f : f = ReplyTo(c, x) => InsecureReply(c, f) = x
        BY <4>1
      <4>4. InsecureReply(c, Head(Mine(c).down)) = x
        BY <4>2, <4>3
      <4> QED
        BY <1>12, <4>4
    <3>8. Len(replies'[c]) = 1 /\ replies'[c][1] = <<x>>
      BY <1>13, <3>3, <3>7
    <3>9. <<x>> \in Expected(sent'[c][1])
      BY <1>1, <3>4 DEF Outcomes, Expected
    <3>10. conn'[<<c, 1>>].exit = "closed" /\ conn'[<<c, 1>>].down = <<>>
      BY <1>4, <1>11, <3>1
    <3> QED
      BY <3>8, <3>9, <3>10 DEF OnlyFirst
  <2> QED
    BY <2>1, <2>2
<1>16. Asked(c)'
  BY <1>1, <1>2, <1>3, <1>4, <1>5, <1>11, <1>15 DEF Asked
<1>17. at \in [Client -> {"idle", "probing", "waiting", "closing", "closed"}]
  BY DEF Types
<1> QED
  BY <1>1, <1>3, <1>11, <1>13, <1>16, <1>17, OwnStep

LEMMA CloseStep ==
  ASSUME ExchangeInv, Matching, mode' = mode, NEW c \in Client, Close(c)
  PROVE  ExchangeInv'
<1> USE DEF ExchangeInv
<1>1. /\ at[c] = "idle" /\ sent' = sent /\ replies' = replies /\ arrived' = arrived
      /\ UNCHANGED exitVars
  BY DEF Close
<1>2. Asked(c)
  OBVIOUS
<1>3. Grown /\ Sent' /\ Secure' = Secure
  BY <1>1, GrownByNone, Unsent
<1>4. /\ at \in [Client -> {"idle", "probing", "waiting", "closing", "closed"}]
      /\ \E S : replies' \in [Client -> Seq(S)]
  BY <1>1 DEF Types
<1>5. CASE /\ Secure /\ NewCircuit(c, Len(sent[c]) + 1, Sealed(c, CLIENT_CLOSE))
           /\ at' = [at EXCEPT ![c] = "closing"]
  <2>1. PICK k \in 0 .. MaxSends + 1 :
          k = Len(sent[c]) + 1 /\ <<c, k>> \in ConnId /\ conn[<<c, k>>].exit = "none"
          /\ Len(sent[c]) \in Nat
    BY <1>1, FreshNext
  <2>2. PICK f \in UpFrame : f = Sealed(c, CLIENT_CLOSE)
    BY Sealing, Controls DEF Types
  <2>3. NewCircuit(c, k, f)
    BY <1>5, <2>1, <2>2
  <2>4. f = Carries(<<c, k>>)'
    <3>1. f = Carries(<<c, k>>)
      BY <2>1, <2>2 DEF Carries
    <3> QED
      BY <1>1, <3>1, Unsent
  <2>5. /\ at' \in [Client -> {"idle", "probing", "waiting", "closing", "closed"}]
        /\ at'[c] = "closing" /\ \A d \in Client : d # c => at'[d] = at[d]
    BY <1>4, <1>5
  <2>6. current'[c] = <<c, k>> /\ conn'[<<c, k>>].exit = "waiting"
    BY ONLY <2>1, <2>3, ExchangeInv, c \in Client, f \in UpFrame, NewCircuitMakes
       DEF ExchangeInv
  <2>7. <<c, k>> # NoConn
    BY <2>1, Numbered
  <2>8. Asked(c)'
    <3>1. \A j : Matches(c, j)' = Matches(c, j)
      BY <1>1 DEF Matches
    <3> QED
      BY <1>1, <1>2, <1>3, <1>5, <2>1, <2>5, <2>6, <2>7, <3>1 DEF Asked
  <2>9. k <= Len(sent'[c]) + 1
    BY <1>1, <2>1
  <2>10. /\ \A i \in ConnId : i[1] = c /\ conn[i].exit # "none" => LastOf(i)' = LastOf(i)
         /\ LastOf(<<c, k>>)' = k
    BY <1>3, <1>5 DEF LastOf
  <2> QED
    BY <1>1, <1>3, <1>5, <2>1, <2>3, <2>4, <2>5, <2>8, <2>9, <2>10, NewCircuitStep
<1>6. CASE /\ ~Secure
           /\ conn' = IF sent[c] = <<>> THEN conn
                      ELSE [conn EXCEPT ![current[c]].client = "closed",
                                        ![current[c]].up = Append(@, Raw(CLIENT_CLOSE))]
           /\ at' = [at EXCEPT ![c] = "closed"] /\ current' = current /\ backlog' = backlog
  <2>1. /\ at' \in [Client -> {"idle", "probing", "waiting", "closing", "closed"}]
        /\ at'[c] = "closed" /\ \A d \in Client : d # c => at'[d] = at[d]
    BY <1>4, <1>6
  <2>2. \A i, k : Written(i, k)' = Written(i, k)
    BY <1>1, Unsent
  <2>3. PICK f \in UpFrame : f = Raw(CLIENT_CLOSE)
    BY Controls, InTheClear
  <2>4. /\ conn' \in [ConnId -> Connection]
        /\ \A i \in ConnId :
             /\ conn'[i].exit = conn[i].exit /\ conn'[i].down = conn[i].down
             /\ i[1] # c \/ conn[i].exit = "none" => conn'[i] = conn[i]
             /\ conn[i].exit # "none" => conn'[i].client # "none"
             /\ i[1] = c /\ i[2] = 0 => conn'[i] = conn[i]
             /\ i[1] = c /\ i[2] = 1 /\ sent[c] # <<>> =>
                  conn'[i].up = Append(conn[i].up, f)
    <3>1. conn \in [ConnId -> Connection]
      BY DEF Types
    <3>2. \A i \in ConnId : conn[i].exit # "none" => conn[i].client # "none"
      BY DEF Conns, Made
    <3>3. CASE sent[c] = <<>>
      BY <1>6, <3>1, <3>2, <3>3
    <3>4. CASE sent[c] # <<>>
      <4>1. PICK w \in ConnId : w = current[c] /\ w[1] = c /\ w[2] = 1
        BY <1>2, <1>6, <3>4, Circuits DEF Asked
      <4>2. conn[w].exit # "none" /\ conn[w] \in Connection
        BY <1>2, <3>1, <4>1, Numbered DEF Asked
      <4>3. PICK u \in Seq(UpFrame) : u = Append(conn[w].up, f)
        <5>1. conn[w].up \in Seq(UpFrame)
          BY <4>2 DEF Connection
        <5>2. Append(conn[w].up, f) \in Seq(UpFrame)
          BY <5>1
        <5> QED
          BY <5>2
      <4>4. conn' = [conn EXCEPT ![w] = [conn[w] EXCEPT !.client = "closed", !.up = u]]
        BY <1>6, <2>3, <3>1, <3>4, <4>1, <4>3
      <4>5. PICK r \in Connection : /\ r = [conn[w] EXCEPT !.client = "closed", !.up = u]
                                    /\ r.exit = conn[w].exit /\ r.down = conn[w].down
                                    /\ r.client = "closed" /\ r.up = u
        <5>1. [conn[w] EXCEPT !.client = "closed", !.up = u] \in Connection
          BY <4>2 DEF Connection
        <5> QED
          BY <4>2, <5>1 DEF Connection
      <4>6. conn' \in [ConnId -> Connection] /\ conn'[w] = r
            /\ \A i \in ConnId : i # w => conn'[i] = conn[i]
        BY <3>1, <4>4, <4>5
      <4>7. ASSUME NEW i \in ConnId, i = w
            PROVE  /\ conn'[i].exit = conn[i].exit /\ conn'[i].down = conn[i].down
                   /\ conn'[i].client # "none" /\ conn'[i].up = Append(conn[i].up, f)
                   /\ i[1] = c /\ i[2] = 1 /\ conn[i].exit # "none"
        BY <4>1, <4>2, <4>3, <4>5, <4>6, <4>7
      <4>8. ASSUME NEW i \in ConnId, i # w
            PROVE  conn'[i] = conn[i] /\ ~(i[1] = c /\ i[2] = 1)
        BY <4>1, <4>6, <4>8, Numbered
      <4> QED
        BY <3>2, <4>6, <4>7, <4>8
    <3> QED
      BY <3>3, <3>4
  <2>5. ASSUME NEW i \in ConnId, conn[i].exit # "none", i[1] = c
        PROVE  Queued(i)' /\ Taken(i)' = Taken(i)
    <3>1. Made(i) /\ Queued(i) /\ i[2] \in {0, 1}
      <4>1. Made(i) /\ Queued(i)
        BY <2>5 DEF Conns
      <4> QED
        BY <1>6, <4>1, Frames
    <3>2. CASE i[2] = 0
      <4>1. LastOf(i)' = LastOf(i) /\ conn'[i].up = conn[i].up
        BY <2>4, <2>5, <3>2 DEF LastOf
      <4> QED
        BY <2>2, <3>1, <4>1, StillQueued
    <3>3. CASE i[2] = 1
      <4>1. PICK n \in Nat : n = Len(sent[c])
        BY SentTexts
      <4>2. n # 0 /\ sent[c] # <<>>
        <5>1. i[2] <= n + 1 /\ i[2] # n + 1
          BY <1>6, <2>5, <3>1, <4>1 DEF Made
        <5>2. n # 0
          BY <3>3, <5>1
        <5> QED
          BY <4>1, <5>2
      <4>3. LastOf(i)' = n + 1 /\ LastOf(i) = n + 0
        <5> DEFINE a == at[i[1]]
        <5>1. ~Secure /\ ~Secure' /\ ~(i[2] = 0) /\ a # "closed" /\ a' = "closed"
              /\ sent'[i[1]] = sent[i[1]]
          BY <1>1, <1>3, <1>6, <2>1, <2>5, <3>3
        <5>2. LastOf(i)' = Len(sent'[i[1]]) + 1
          BY <5>1 DEF LastOf
        <5>3. LastOf(i) = Len(sent[i[1]]) + 0
          BY <5>1 DEF LastOf
        <5> QED
          BY <2>5, <4>1, <5>1, <5>2, <5>3
      <4>4. LastOf(i)' = LastOf(i) + 1
        BY <4>1, <4>3
      <4>5. f = Written(i, LastOf(i))'
        <5>1. PICK l \in Nat : l = LastOf(i)' /\ l = n + 1
          BY <4>1, <4>3
        <5>2. l # i[2] /\ ~(l <= Len(sent'[i[1]]))
          BY <1>1, <2>5, <3>3, <4>1, <4>2, <5>1
        <5> QED
          BY <2>3, <5>1, <5>2 DEF Written, Raw
      <4>6. conn'[i].up = Append(conn[i].up, f)
        BY <2>4, <2>5, <3>3, <4>2
      <4> QED
        BY <2>2, <3>1, <4>4, <4>5, <4>6, StillQueued
    <3> QED
      BY <3>1, <3>2, <3>3
  <2>6. Asked(c)'
    <3>1. current[c] # NoConn => current[c] \in ConnId
      BY DEF Types
    <3>2. <<c, 1>> \in ConnId
      BY Circuits
    <3>3. current[c] # NoConn => conn'[current[c]].exit # "none"
      BY <1>2, <2>4, <3>1 DEF Asked
    <3>4. conn'[<<c, 1>>].exit = conn[<<c, 1>>].exit /\ conn'[<<c, 1>>].down = conn[<<c, 1>>].down
      BY <2>4, <3>2
    <3>5. OnlyFirst(c) => OnlyFirst(c)'
      BY <1>1, <3>4 DEF OnlyFirst
    <3> QED
      BY <1>1, <1>2, <1>3, <1>6, <2>1, <3>3, <3>5 DEF Asked
  <2> QED
    BY <1>1, <1>3, <1>4, <1>6, <2>1, <2>4, <2>5, <2>6, OwnStep
<1> QED
  BY <1>5, <1>6 DEF Close

LEMMA ProbeStep ==
  ASSUME ExchangeInv, Matching, mode' = mode, NEW c \in Client, Probe(c)
  PROVE  ExchangeInv'
<1> USE DEF ExchangeInv
<1>1. /\ at[c] = "idle" /\ current[c] = NoConn /\ NewCircuit(c, 0, Raw(PROBE))
      /\ at' = [at EXCEPT ![c] = "probing"] /\ sent' = sent /\ replies' = replies
      /\ arrived' = arrived /\ UNCHANGED exitVars
  BY DEF Probe
<1>2. Asked(c)
  OBVIOUS
<1>3. Grown /\ Sent' /\ Secure' = Secure
  BY <1>1, GrownByNone, Unsent
<1>4. PICK k \in 0 .. MaxSends + 1 : k = 0
  BY Clientele
<1>5. <<c, k>> \in ConnId /\ <<c, k>>[1] = c
  BY Numbered
<1>6. conn[<<c, k>>].exit = "none"
  BY <1>1, <1>5 DEF Conns, Made
<1>7. PICK f \in UpFrame : f = Raw(PROBE)
  BY Controls, InTheClear
<1>8. NewCircuit(c, k, f)
  BY <1>1, <1>4, <1>7
<1>9. f = Carries(<<c, k>>)'
  BY <1>4, <1>7 DEF Carries, Raw
<1>10. at \in [Client -> {"idle", "probing", "waiting", "closing", "closed"}]
  BY DEF Types
<1>11. /\ at' \in [Client -> {"idle", "probing", "waiting", "closing", "closed"}]
       /\ at'[c] = "probing" /\ \A d \in Client : d # c => at'[d] = at[d]
  BY <1>1, <1>10
<1>12. current'[c] = <<c, k>> /\ conn'[<<c, k>>].exit = "waiting"
  BY ONLY <1>5, <1>8, ExchangeInv, c \in Client, k \in 0 .. MaxSends + 1, f \in UpFrame,
     NewCircuitMakes DEF ExchangeInv
<1>13. sent[c] = <<>> /\ <<c, k>> # NoConn
  BY <1>1, <1>2, <1>5, Numbered DEF Asked
<1>14. Len(sent'[c]) = 0
  BY <1>1, <1>13
<1>15. Asked(c)'
  <2>1. ~Secure => replies[c] = <<>>
    BY <1>2, <1>13 DEF Asked
  <2>2. Secure => Len(replies[c]) = 0
    BY <1>1, <1>2, <1>14 DEF Asked, Types
  <2>3. Secure => \A j \in 1 .. Len(replies'[c]) : FALSE
    BY <1>1, <2>2
  <2> QED
    BY <1>1, <1>2, <1>3, <1>4, <1>11, <1>12, <1>13, <1>14, <2>1, <2>2, <2>3 DEF Asked
<1>16. k <= Len(sent'[c]) + 1 /\ k # Len(sent'[c]) + 1 /\ k <= 1
  BY <1>4, <1>14
<1>17. /\ \A i \in ConnId : i[1] = c /\ conn[i].exit # "none" => LastOf(i)' = LastOf(i)
       /\ LastOf(<<c, k>>)' = k
  <2>1. /\ \A i \in ConnId : i[1] = c /\ conn[i].exit # "none" => FALSE
    BY <1>1 DEF Conns, Made
  <2> QED
    BY <1>4, <2>1 DEF LastOf
<1> QED
  BY <1>1, <1>3, <1>6, <1>8, <1>9, <1>11, <1>15, <1>16, <1>17, NewCircuitStep

LEMMA ProbedStep ==
  ASSUME ExchangeInv, Matching, mode' = mode, NEW c \in Client, Probed(c)
  PROVE  ExchangeInv'
<1> USE DEF ExchangeInv
<1>1. /\ at[c] = "probing" /\ at' = [at EXCEPT ![c] = "idle"]
      /\ conn' = [conn EXCEPT ![current[c]].client = "closed"]
      /\ sent' = sent /\ replies' = replies /\ current' = current /\ backlog' = backlog
      /\ arrived' = arrived /\ UNCHANGED exitVars
  BY DEF Probed
<1>2. Asked(c)
  OBVIOUS
<1>3. Grown /\ Sent' /\ Secure' = Secure
  BY <1>1, GrownByNone, Unsent
<1>4. PICK w \in ConnId : w = current[c] /\ w = <<c, 0>> /\ w[1] = c
  BY <1>1, <1>2, Circuits DEF Asked
<1>5. conn[w].exit # "none" /\ conn[w] \in Connection /\ sent[c] = <<>>
  BY <1>1, <1>2, <1>4, Numbered DEF Asked, Types
<1>6. /\ at \in [Client -> {"idle", "probing", "waiting", "closing", "closed"}]
      /\ \E S : replies' \in [Client -> Seq(S)]
  BY <1>1 DEF Types
<1>7. /\ at' \in [Client -> {"idle", "probing", "waiting", "closing", "closed"}]
      /\ at'[c] = "idle" /\ \A d \in Client : d # c => at'[d] = at[d]
  BY <1>1, <1>6
<1>8. PICK v \in Connection :
        /\ v = [conn[w] EXCEPT !.client = "closed"]
        /\ v.exit = conn[w].exit /\ v.client = "closed" /\ v.down = conn[w].down
        /\ v.up = conn[w].up
  <2>1. [conn[w] EXCEPT !.client = "closed"] \in Connection
    BY ONLY <1>5 DEF Connection
  <2> QED
    BY ONLY <1>5, <2>1 DEF Connection
<1>9. conn' \in [ConnId -> Connection] /\ conn'[w] = v
      /\ \A i \in ConnId : i # w => conn'[i] = conn[i]
  <2>1. conn \in [ConnId -> Connection]
    BY DEF Types
  <2> QED
    BY <1>1, <1>4, <1>8, <2>1
<1>10. \A i \in ConnId :
         /\ conn'[i].exit = conn[i].exit
         /\ i[1] # c \/ conn[i].exit = "none" => conn'[i] = conn[i]
         /\ conn[i].exit # "none" =>
              /\ conn'[i].client # "none"
              /\ i[1] = c => Queued(i)' /\ Taken(i)' = Taken(i)
         /\ conn'[i].down = <<>> \/ conn'[i].down = conn[i].down \/ Streamed(i)
  BY <1>1, <1>4, <1>5, <1>7, <1>8, <1>9, Amended
<1>11. Asked(c)'
  <2>1. ~Secure => replies[c] = <<>>
    BY <1>2, <1>5 DEF Asked
  <2>2. Secure => Len(replies[c]) = 0 /\ Len(sent[c]) = 0
    BY <1>1, <1>2, <1>5 DEF Asked, Types
  <2>3. Secure => \A j \in 1 .. Len(replies'[c]) : FALSE
    BY <1>1, <2>2
  <2> QED
    BY <1>1, <1>2, <1>3, <1>4, <1>5, <1>7, <1>8, <1>9, <2>1, <2>2, <2>3 DEF Asked
<1> QED
  BY <1>1, <1>3, <1>6, <1>7, <1>9, <1>10, <1>11, OwnStep

LEMMA ExchangeStep ==
  ASSUME Matching
  PROVE  ExchangeInv /\ [Next]_vars => ExchangeInv'
<1> SUFFICES ASSUME ExchangeInv, [Next]_vars PROVE ExchangeInv'
  OBVIOUS
<1>1. CASE UNCHANGED vars
  <2>1. /\ mode' = mode /\ at' = at /\ sent' = sent /\ replies' = replies
        /\ current' = current /\ conn' = conn /\ backlog' = backlog /\ loop' = loop
        /\ job' = job /\ generation' = generation /\ arrived' = arrived
        /\ disconnected' = disconnected
    BY <1>1 DEF vars, clientVars, exitVars
  <2>2. loop \in {"accept", "read", "forward", "send", "stream", "ended"}
        /\ backlog \in Seq(ConnId) /\ arrived \in Seq(Arrival)
    BY DEF ExchangeInv, Types
  <2>3. /\ Types' /\ Sent' /\ Conns' /\ (\A c \in Client : Asked(c)') /\ Notified'
        /\ \A i : /\ Taken(i)' = Taken(i) /\ Carries(i)' = Carries(i)
                  /\ Streamed(i)' = Streamed(i)
    BY <2>1, <2>2, QuietStep DEF clientVars
  <2>4. Waiting'
    BY <2>1, <2>3, WaitingKept
  <2>5. Grown
    BY <2>1, GrownByNone DEF ExchangeInv
  <2>6. Working' /\ Once'
    BY <2>1, <2>3, <2>5, ExitStays
  <2> QED
    BY <2>3, <2>4, <2>6 DEF ExchangeInv
<1>2. CASE Next
  <2>1. mode' = mode
    BY <1>2 DEF Next
  <2>2. CASE ExitStep
    BY <2>1, <2>2, AcceptStep, AnswerProbeStep, ReadForeignStep, ReadStreamStep,
       StreamFrameSteps, StreamClientEndsStep, StreamEndsStep, ReadCloseStep, ReadOtherStep,
       ForwardStep, SendReplyStep DEF ExitStep
  <2>3. CASE OtherStep
    BY <2>1, <2>3, DestinationSpeaksStep, DestinationEndsStep, RestartStep, ResetStep
       DEF OtherStep
  <2>4. ASSUME NEW c \in Client, ClientStep(c) PROVE ExchangeInv'
    <3>1. ASSUME NEW n \in Sizes, SendSecure(c, n) \/ SendInsecure(c, n) PROVE ExchangeInv'
      BY <2>1, <3>1, SendSecureStep, SendInsecureStep
    <3> QED
      BY <2>1, <2>4, <3>1, ReceiveSecureStep, ReceiveInsecureStep, TimesOutStep,
         CloseStep, ProbeStep, ProbedStep DEF ClientStep
  <2> QED
    BY <1>2, <2>2, <2>3, <2>4 DEF Next
<1> QED
  BY <1>1, <1>2

LEMMA ExchangeInvariant == ASSUME Matching PROVE Spec => []ExchangeInv
<1>1. Init => ExchangeInv
  BY ExchangeInit
<1>2. ExchangeInv /\ [Next]_vars => ExchangeInv'
  BY ExchangeStep
<1> QED
  BY <1>1, <1>2, PTL DEF Spec

LEMMA ExchangeTypes == ASSUME ExchangeInv PROVE TypeOK
<1> USE DEF ExchangeInv
<1>1. mode \in Modes /\ at \in [Client -> {"idle", "probing", "waiting", "closing", "closed"}]
      /\ Sends <= MaxSends /\ generation \in 0 .. MaxRestarts /\ disconnected \subseteq Client
      /\ loop \in {"accept", "read", "forward", "send", "stream", "ended"}
  BY DEF Types, Sent
<1>2. ASSUME NEW c \in Client
      PROVE  /\ Secure => Len(replies[c]) <= Len(sent[c])
             /\ current[c] \in ConnId \cup {NoConn}
  <2>1. Asked(c) /\ current[c] \in ConnId \cup {NoConn} /\ Len(replies[c]) \in Nat
    BY DEF Types
  <2>2. Len(sent[c]) \in Nat
    BY SentTexts
  <2>3. Secure => \/ Len(sent[c]) = Len(replies[c]) + 1
                  \/ Len(sent[c]) = Len(replies[c]) + 0
    BY <2>1 DEF Asked
  <2> QED
    BY <2>1, <2>2, <2>3
<1>3. ASSUME NEW i \in ConnId
      PROVE  /\ conn[i].client \in {"none", "open", "closed"}
             /\ conn[i].exit \in {"none", "waiting", "closed"}
  <2>1. conn[i] \in Connection
    BY DEF Types
  <2> QED
    BY <2>1 DEF Connection
<1>4. ToSet(backlog) \subseteq ConnId /\ IsInjective(backlog)
  <2>1. backlog \in Seq(ConnId) /\ DOMAIN backlog = 1 .. Len(backlog)
    BY DEF Types
  <2> QED
    BY <2>1 DEF ToSet, IsInjective, Waiting
<1>5. job.conn \in ConnId \cup {NoConn}
  BY DEF Working, None
<1> QED
  BY <1>1, <1>2, <1>3, <1>4, <1>5 DEF TypeOK

(* Every reply a send returns belongs to the message it was asked for, and  *)
(* is whole: sent padded, packed and opened again, or a text of the exit,   *)
(* whichever connections were given up or reset and however late their      *)
(* replies are, and an insecure client gets one for its first message only, *)
(* for any number of clients and messages up to nine and any block.  Where  *)
(* a message was taken for a request for a stream, nothing is claimed of    *)
(* what comes back on its own circuit, and all of the others.               *)
THEOREM RepliesMatchHolds ==
  ASSUME Matching PROVE Spec => []RepliesMatch
<1>1. ExchangeInv => RepliesMatch
  <2> SUFFICES ASSUME ExchangeInv PROVE RepliesMatch
    OBVIOUS
  <2>1. TypeOK
    BY ExchangeTypes
  <2>2. ASSUME NEW c \in Client, NEW k \in DOMAIN replies[c]
        PROVE  IF Secure THEN \/ StreamRequest(sent[c][k])
                              \/ replies[c][k] \in Expected(sent[c][k])
               ELSE \/ StreamRequest(sent[c][1])
                    \/ k = 1 /\ replies[c][1] \in Expected(sent[c][1])
    <3>1. Asked(c) /\ k \in 1 .. Len(replies[c]) /\ replies[c] # <<>>
      BY DEF ExchangeInv, Types
    <3>2. CASE Secure
      BY <3>1, <3>2 DEF Asked, Matches
    <3>3. CASE ~Secure
      <4>1. StreamRequest(sent[c][1]) \/ OnlyFirst(c)
        BY <3>1, <3>3 DEF Asked
      <4>2. OnlyFirst(c) => k = 1 /\ replies[c][1] \in Expected(sent[c][1])
        BY <3>1 DEF OnlyFirst
      <4> QED
        BY <3>3, <4>1, <4>2
    <3> QED
      BY <3>2, <3>3
  <2> QED
    BY <2>1, <2>2 DEF RepliesMatch
<1> QED
  BY <1>1, ExchangeInvariant, PTL

(* The destination receives a message at most once and as it was sent: no   *)
(* connection is served twice and no two messages are alike.  Only what an  *)
(* insecure client sends behind a message that was taken for a request for  *)
(* a stream comes inside its envelope, and that at most once as well.       *)
THEOREM DestinationOnceHolds ==
  ASSUME Matching PROVE Spec => []DestinationOnce
<1>1. ExchangeInv => DestinationOnce
  <2> SUFFICES ASSUME ExchangeInv PROVE DestinationOnce
    OBVIOUS
  <2>1. arrived \in Seq(Arrival) /\ DOMAIN arrived = 1 .. Len(arrived) /\ Once
    BY DEF ExchangeInv, Types
  <2>2. \A i, j \in DOMAIN arrived :
          arrived[i].text = arrived[j].text /\ arrived[i].text # <<>> => i = j
    BY <2>1 DEF Once
  <2>3. ASSUME NEW j \in 1 .. Len(arrived)
        PROVE  \E c \in Client : \E k \in DOMAIN sent[c] :
                 /\ arrived[j].text = sent[c][k]
                 /\ arrived[j].wrapped <=> ~Secure /\ k > 1 /\ StreamRequest(sent[c][1])
    <3>1. PICK i \in ConnId : conn[i].exit # "none" /\ Delivered(arrived[j], i)
      BY <2>1 DEF Once
    <3>2. PICK c \in Client : c = i[1]
      BY Numbered
    <3>3. PICK k \in 1 .. Len(sent[c]) :
            /\ arrived[j].text = sent[c][k]
            /\ IF arrived[j].wrapped THEN ~Secure /\ k > 1 /\ i[2] = 1 /\ Streamed(i)
               ELSE k = i[2]
      BY <3>1, <3>2 DEF Delivered
    <3>4. ~Secure => i[2] <= 1
      BY <3>1 DEF ExchangeInv, Conns, Made
    <3>5. k \in DOMAIN sent[c] /\ arrived[j].wrapped \in BOOLEAN
      <4>1. arrived[j] \in Arrival
        BY <2>1
      <4> QED
        BY <4>1 DEF ExchangeInv, Types, Arrival
    <3>6. CASE arrived[j].wrapped
      BY <3>2, <3>3, <3>5, <3>6 DEF Streamed
    <3>7. CASE ~arrived[j].wrapped
      <4>1. ~(~Secure /\ k > 1)
        BY <3>3, <3>4, <3>7
      <4> QED
        BY <3>3, <3>5, <3>7, <4>1
    <3> QED
      BY <3>6, <3>7
  <2> QED
    BY <2>1, <2>2, <2>3 DEF DestinationOnce
<1> QED
  BY <1>1, ExchangeInvariant, PTL

(* A closed client's exit knows that it has gone, once it has served the    *)
(* connection that carries CLIENT_CLOSE and while it has the key the client *)
(* sealed for, whatever it served before.                                   *)
THEOREM CloseNotifiesHolds ==
  ASSUME Matching PROVE Spec => []CloseNotifies
<1>1. ExchangeInv => CloseNotifies
  BY DEF ExchangeInv, Notified, CloseNotifies
<1> QED
  BY <1>1, ExchangeInvariant, PTL
================================================================================
