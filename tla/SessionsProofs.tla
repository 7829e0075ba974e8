------------------------------ MODULE SessionsProofs ----------------------------
(***************************************************************************)
(* Proofs about Sessions, for any number of clients, connections, frames   *)
(* and queued replies, any mode and any capacity of a block.               *)
(***************************************************************************)
EXTENDS Sessions, Inductions

(* A sequence with one element at its end more than its beginning.          *)
LEMMA LastSplit ==
  ASSUME NEW E, NEW s \in Seq(E), NEW n \in Nat, Len(s) = n + 1
  PROVE  \E front \in Seq(E), last \in E :
           s = Append(front, last) /\ Len(front) = n
<1> DEFINE front == [i \in 1 .. n |-> s[i]]
<1>1. front \in Seq(E) /\ Len(front) = n /\ \A i \in 1 .. n : front[i] = s[i]
  OBVIOUS
<1> HIDE DEF front
<1>2. s[n + 1] \in E
  OBVIOUS
<1>3. /\ Append(front, s[n + 1]) \in Seq(E) /\ Len(Append(front, s[n + 1])) = n + 1
      /\ \A i \in 1 .. n + 1 : Append(front, s[n + 1])[i] = s[i]
  BY <1>1, <1>2
<1>4. s = Append(front, s[n + 1])
  BY <1>3
<1> QED
  BY <1>1, <1>2, <1>4

LEMMA Appended ==
  ASSUME NEW E, NEW s \in Seq(E), NEW e \in E, NEW n \in Nat, Len(s) = n
  PROVE  /\ Append(s, e) \in Seq(E) /\ Len(Append(s, e)) = n + 1
         /\ Append(s, e)[n + 1] = e /\ \A l \in 1 .. n : Append(s, e)[l] = s[l]
OBVIOUS

(* One of several sequences is longer by y at its end, those after it are   *)
(* empty: together they give y more at the end.                             *)
Lengthens(s, t, k, y) ==
  /\ Len(t) = Len(s) /\ k \in 1 .. Len(s) /\ t[k] = s[k] \o y
  /\ \A l \in 1 .. Len(s) : (l # k => t[l] = s[l]) /\ (l > k => s[l] = <<>>)

Longer(s, t, k, y) == Lengthens(s, t, k, y) => FlattenSeq(t) = FlattenSeq(s) \o y

LEMMA LongerByOne ==
  ASSUME NEW X, NEW n \in Nat, NEW y \in Seq(X),
         NEW fs \in Seq(Seq(X)), NEW ft \in Seq(Seq(X)), NEW a \in Seq(X), NEW b \in Seq(X),
         Len(fs) = n, Len(ft) = n, NEW k \in 1 .. n + 1,
         Lengthens(Append(fs, a), Append(ft, b), k, y),
         k \in 1 .. n => Longer(fs, ft, k, y)
  PROVE  FlattenSeq(Append(ft, b)) = FlattenSeq(Append(fs, a)) \o y
<1>0. Append(fs, a) \in Seq(Seq(X)) /\ Append(ft, b) \in Seq(Seq(X))
  <2>1. fs \in Seq(Seq(X)) /\ ft \in Seq(Seq(X)) /\ a \in Seq(X) /\ b \in Seq(X)
    OBVIOUS
  <2> QED
    BY ONLY <2>1, AppendProperties
<1>1. PICK s \in Seq(Seq(X)) : s = Append(fs, a)
  BY <1>0
<1>2. PICK t \in Seq(Seq(X)) : t = Append(ft, b)
  BY <1>0
<1>3. /\ Len(s) = n + 1 /\ Len(t) = n + 1 /\ s[n + 1] = a /\ t[n + 1] = b
      /\ \A l \in 1 .. n : s[l] = fs[l] /\ t[l] = ft[l]
  <2>1. fs \in Seq(Seq(X)) /\ ft \in Seq(Seq(X)) /\ a \in Seq(X) /\ b \in Seq(X)
        /\ Len(fs) = n /\ Len(ft) = n /\ n \in Nat
    OBVIOUS
  <2>2. /\ Len(Append(fs, a)) = n + 1 /\ Append(fs, a)[n + 1] = a
        /\ \A l \in 1 .. n : Append(fs, a)[l] = fs[l]
    BY ONLY <2>1, Appended
  <2>3. /\ Len(Append(ft, b)) = n + 1 /\ Append(ft, b)[n + 1] = b
        /\ \A l \in 1 .. n : Append(ft, b)[l] = ft[l]
    BY ONLY <2>1, Appended
  <2> QED
    BY ONLY <1>1, <1>2, <2>2, <2>3
<1>4. Lengthens(s, t, k, y)
  BY <1>1, <1>2
<1>5. PICK u \in Seq(X) : u = FlattenSeq(fs)
  BY FlattenType
<1>6. PICK v \in Seq(X) : v = FlattenSeq(ft)
  BY FlattenType
<1>7. FlattenSeq(Append(fs, a)) = u \o a /\ FlattenSeq(Append(ft, b)) = v \o b
  BY <1>5, <1>6, FlattenAppend
<1>8. CASE k = n + 1
  <2>1. b = a \o y /\ \A l \in 1 .. n : fs[l] = ft[l]
    <3>1. \A l \in 1 .. n : l # k /\ l \in 1 .. Len(s)
      BY <1>3, <1>8
    <3> QED
      BY <1>3, <1>4, <1>8, <3>1 DEF Lengthens
  <2>2. fs = ft
    BY <2>1
  <2>3. u \o (a \o y) = (u \o a) \o y
    BY SMTT(30)
  <2> QED
    BY <1>5, <1>6, <1>7, <2>1, <2>2, <2>3
<1>9. CASE k \in 1 .. n
  <2>1. a = <<>> /\ b = <<>>
    <3>1. n + 1 \in 1 .. Len(s) /\ n + 1 > k /\ n + 1 # k
      <4>1. n \in Nat /\ k \in 1 .. n /\ Len(s) = n + 1
        BY <1>3, <1>9
      <4> QED
        BY ONLY <4>1
    <3> QED
      BY <1>3, <1>4, <3>1 DEF Lengthens
  <2>2. Lengthens(fs, ft, k, y)
    <3>1. \A l \in 1 .. n : l \in 1 .. Len(s)
      BY <1>3
    <3> QED
      BY <1>3, <1>4, <1>9, <3>1 DEF Lengthens
  <2>3. u \o <<>> = u /\ v \o <<>> = v
    BY ConcatEmptySeq
  <2> QED
    BY <1>5, <1>6, <1>7, <1>9, <2>1, <2>2, <2>3 DEF Longer
<1> QED
  BY <1>8, <1>9

LongerUpTo(X, y, n) ==
  \A a, b \in Seq(Seq(X)) : Len(a) = n => \A j \in 1 .. n :
    Longer(a, b, j, y)

LEMMA LongerNext ==
  ASSUME NEW X, NEW y \in Seq(X), NEW n \in Nat, LongerUpTo(X, y, n),
         NEW a \in Seq(Seq(X)), NEW b \in Seq(Seq(X)), Len(a) = n + 1,
         NEW j \in 1 .. n + 1
  PROVE  Longer(a, b, j, y)
<1> SUFFICES ASSUME Lengthens(a, b, j, y) PROVE FlattenSeq(b) = FlattenSeq(a) \o y
  BY DEF Longer
<1>1. Len(b) = n + 1
  BY DEF Lengthens
<1>2. PICK fa \in Seq(Seq(X)), la \in Seq(X) : a = Append(fa, la) /\ Len(fa) = n
  BY LastSplit
<1>3. PICK fb \in Seq(Seq(X)), lb \in Seq(X) : b = Append(fb, lb) /\ Len(fb) = n
  BY <1>1, LastSplit
<1>4. j \in 1 .. n => Longer(fa, fb, j, y)
  BY <1>2, <1>3 DEF LongerUpTo
<1>5. Lengthens(Append(fa, la), Append(fb, lb), j, y)
  BY <1>2, <1>3
<1>6. FlattenSeq(Append(fb, lb)) = FlattenSeq(Append(fa, la)) \o y
  BY <1>2, <1>3, <1>4, <1>5, LongerByOne
<1> QED
  BY <1>2, <1>3, <1>6

LEMMA FlattenLonger ==
  ASSUME NEW X, NEW y \in Seq(X), NEW s \in Seq(Seq(X)), NEW t \in Seq(Seq(X)), NEW k,
         Lengthens(s, t, k, y)
  PROVE  FlattenSeq(t) = FlattenSeq(s) \o y
<1> DEFINE T == {n \in Nat : LongerUpTo(X, y, n)}
<1>1. 0 \in T
  BY DEF LongerUpTo
<1>2. ASSUME NEW n \in T PROVE n + 1 \in T
  <2>1. n \in Nat /\ LongerUpTo(X, y, n)
    OBVIOUS
  <2>2. \A a, b \in Seq(Seq(X)) : Len(a) = n + 1 => \A j \in 1 .. n + 1 : Longer(a, b, j, y)
    BY <2>1, LongerNext
  <2>3. LongerUpTo(X, y, n + 1)
    BY <2>2 DEF LongerUpTo
  <2> QED
    BY <2>1, <2>3
<1> HIDE DEF T
<1>3. T = Nat
  BY <1>1, <1>2, NaturalsAll DEF T
<1>4. Len(s) \in Nat /\ k \in 1 .. Len(s)
  BY DEF Lengthens
<1> QED
  BY <1>3, <1>4 DEF T, LongerUpTo, Longer
-------------------------------------------------------------------------------
(* Texts, and what has been written to a client.                            *)

LEMMA TextKinds ==
  /\ \A n : IsQueued(Queued(n)) /\ Queued(n).queued = n /\ ~IsMessage(Queued(n))
  /\ \A i, n : ~IsQueued(Message(i, n)) /\ IsMessage(Message(i, n)) /\ Message(i, n).conn = i
  /\ ~IsQueued(Answer) /\ ~IsMessage(Answer)
BY DEF IsQueued, IsMessage, Queued, Message, Answer

LEMMA SeqGrows ==
  ASSUME NEW A, NEW B, A \subseteq B, NEW s \in Seq(A)
  PROVE  s \in Seq(B)
OBVIOUS

(* What may be written to connection i, and what one of its records holds.  *)
Kind == Kinds \cup {"message"}
Mine(i) == {Message(i, n) : n \in 1 .. MaxFrames}
Waiting == {Queued(n) : n \in 1 .. MaxQueued}
Writable(i) == Mine(i) \cup Waiting \cup {Answer}
Lines(i) == Seq([kind : Kind, text : Mine(i)])
Bodies(i) == Seq(Seq(Writable(i)))
ConnectionOf(i) ==
  [up : Lines(i), sent : Seq(Kind), down : Bodies(i),
   client : {"none", "open", "closed"}, server : {"none", "waiting", "closed"}]
TableIs(t) ==
  /\ t = [i \in ConnId |-> t[i]]
  /\ \A i \in ConnId : /\ t[i] \in ConnectionOf(i)
                       /\ Len(t[i].up) <= Len(t[i].sent) /\ Len(t[i].sent) <= MaxFrames
Table == TableIs(conn)

LEMMA WritableTexts ==
  ASSUME NEW i \in ConnId
  PROVE  /\ Writable(i) \subseteq Texts /\ Mine(i) \subseteq Writable(i)
         /\ Waiting \subseteq Writable(i) /\ Answer \in Writable(i)
BY DEF Writable, Texts, Mine, Waiting

Pages(t, c) == [k \in 1 .. MaxConns |-> FlattenSeq(t[<<c, k>>].down)]

LEMMA DownTexts ==
  ASSUME NEW t, TableIs(t), NEW i \in ConnId
  PROVE  /\ t[i].down \in Seq(Seq(Texts)) /\ FlattenSeq(t[i].down) \in Seq(Texts)
         /\ t[i].down \in Seq(Seq(Writable(i)))
         /\ FlattenSeq(t[i].down) \in Seq(Writable(i))
<1>1. t[i].down \in Seq(Seq(Writable(i)))
  BY DEF TableIs, ConnectionOf, Bodies
<1>2. Writable(i) \subseteq Texts
  BY WritableTexts
<1>3. Seq(Writable(i)) \subseteq Seq(Texts)
  BY <1>2, SeqGrows
<1>4. t[i].down \in Seq(Seq(Texts))
  <2> DEFINE A == Seq(Writable(i))
             B == Seq(Texts)
  <2>1. A \subseteq B /\ t[i].down \in Seq(A)
    BY <1>1, <1>3
  <2> HIDE DEF A, B
  <2>2. t[i].down \in Seq(B)
    BY ONLY <2>1, SeqGrows
  <2> QED
    BY <2>2 DEF B
<1>5. FlattenSeq(t[i].down) \in Seq(Texts)
  BY <1>4, FlattenType
<1>6. FlattenSeq(t[i].down) \in Seq(Writable(i))
  BY <1>1, FlattenType
<1> QED
  BY <1>1, <1>4, <1>5, <1>6

LEMMA PagesType ==
  ASSUME SessionsAssumption, NEW t, TableIs(t), NEW c \in Client
  PROVE  Pages(t, c) \in Seq(Seq(Texts)) /\ Len(Pages(t, c)) = MaxConns
<1>1. \A k \in 1 .. MaxConns : <<c, k>> \in ConnId
  BY DEF ConnId
<1> DEFINE X == Seq(Texts)
<1>2. \A k \in 1 .. MaxConns : FlattenSeq(t[<<c, k>>].down) \in X
  BY <1>1, DownTexts
<1>3. MaxConns \in Nat
  BY DEF SessionsAssumption
<1> HIDE DEF X
<1>4. Pages(t, c) \in Seq(X) /\ Len(Pages(t, c)) = MaxConns
  BY ONLY <1>2, <1>3 DEF Pages
<1> QED
  BY <1>4 DEF X

LEMMA WrittenType ==
  ASSUME SessionsAssumption, Table, NEW c \in Client
  PROVE  Written(c) \in Seq(Texts)
<1>1. Pages(conn, c) \in Seq(Seq(Texts))
  BY PagesType DEF Table
<1>2. Written(c) = FlattenSeq(Pages(conn, c))
  BY DEF Written, Pages
<1> QED
  BY <1>1, <1>2, FlattenType

LEMMA WrittenSame ==
  ASSUME NEW c, \A k \in 1 .. MaxConns : conn'[<<c, k>>].down = conn[<<c, k>>].down
  PROVE  Written(c)' = Written(c)
<1>1. Pages(conn', c) = Pages(conn, c)
  BY DEF Pages
<1>2. Written(c) = FlattenSeq(Pages(conn, c)) /\ Written(c)' = FlattenSeq(Pages(conn', c))
  BY DEF Written, Pages
<1> QED
  BY <1>1, <1>2

LEMMA WrittenGrows ==
  ASSUME SessionsAssumption, Table, Table', NEW c \in Client, NEW k \in 1 .. MaxConns,
         NEW b \in Seq(Texts), conn'[<<c, k>>].down = Append(conn[<<c, k>>].down, b),
         \A l \in 1 .. MaxConns : l # k => conn'[<<c, l>>].down = conn[<<c, l>>].down,
         \A l \in 1 .. MaxConns : l > k => conn[<<c, l>>].down = <<>>
  PROVE  Written(c)' = Written(c) \o b
<1>1. /\ Pages(conn, c) \in Seq(Seq(Texts)) /\ Len(Pages(conn, c)) = MaxConns
      /\ Pages(conn', c) \in Seq(Seq(Texts)) /\ Len(Pages(conn', c)) = MaxConns
  BY PagesType DEF Table
<1>2. \A l \in 1 .. MaxConns : /\ Pages(conn, c)[l] = FlattenSeq(conn[<<c, l>>].down)
                               /\ Pages(conn', c)[l] = FlattenSeq(conn'[<<c, l>>].down)
  BY DEF Pages
<1>3. Pages(conn', c)[k] = Pages(conn, c)[k] \o b
  <2>1. <<c, k>> \in ConnId
    BY DEF ConnId
  <2>2. PICK d \in Seq(Seq(Texts)) : d = conn[<<c, k>>].down
    BY <2>1, DownTexts DEF Table
  <2>3. FlattenSeq(Append(d, b)) = FlattenSeq(d) \o b
    BY FlattenAppend
  <2> QED
    BY <1>2, <2>2, <2>3
<1>4. Lengthens(Pages(conn, c), Pages(conn', c), k, b)
  BY <1>1, <1>2, <1>3, FlattenEmpty DEF Lengthens
<1>5. FlattenSeq(Pages(conn', c)) = FlattenSeq(Pages(conn, c)) \o b
  BY <1>1, <1>4, FlattenLonger
<1>6. Written(c) = FlattenSeq(Pages(conn, c)) /\ Written(c)' = FlattenSeq(Pages(conn', c))
  BY DEF Written, Pages
<1> QED
  BY <1>5, <1>6

-------------------------------------------------------------------------------
(* Where the serving thread is, and what is stored.                         *)
Stores ==
  /\ mode \in Modes /\ Table
  /\ backlog \in Seq(ConnId) /\ sessions \in [Client -> Nat]
  /\ outbox \in [SessionId -> Seq(Waiting)] /\ nextSid \in Nat \ {0}
  /\ hand \in Seq(Waiting)
  /\ queued \in Seq([client : Client, session : Nat]) /\ Len(queued) <= MaxQueued
  /\ pick \in [client : 0 .. Clients, session : Nat]
  /\ pick # NoPick =>
       Len(queued) < MaxQueued /\ pick.client \in Client /\ pick.session # NoSession

Busy == loop \in {"receive", "reply", "drain", "send"}
Phase ==
  /\ loop \in {"accept", "receive", "reply", "drain", "send", "ended"}
  /\ ~Busy => serving = Idle
  /\ Busy =>
       /\ serving \in [conn : ConnId, key : 0 .. Clients, session : Nat,
                       message : Mine(serving.conn) \cup {NoText}]
       /\ serving.key = 0 => serving.session = NoSession
       /\ serving.key # 0 => /\ serving.key = Peer /\ serving.session = sessions[Peer]
                             /\ serving.session # NoSession
  /\ loop \in {"reply", "drain", "send"} => serving.message \in Mine(serving.conn)
  /\ loop \in {"drain", "send"} => serving.key # 0
  /\ loop \notin {"drain", "send"} => hand = <<>>

(* What becomes of the table of connections: the client of i does           *)
(* something, or the serving thread puts down as what it has written there  *)
(* and takes at least n of the frames.                                      *)
Touched(i) == \A j \in ConnId : j # i => conn'[j] = conn[j]
Moved(i, up, sent, client) ==
  /\ Table' /\ Touched(i) /\ conn'[i].down = conn[i].down
  /\ conn'[i].up = up /\ conn'[i].sent = sent /\ conn'[i].client = client
Handled(down, n) ==
  LET i == serving.conn
  IN /\ Table' /\ Touched(i) /\ conn'[i].down = down
     /\ conn'[i].sent = conn[i].sent /\ conn'[i].client = conn[i].client
     /\ Len(conn'[i].up) + n <= Len(conn[i].up)

Becomes(i, r) ==
  conn' = [j \in ConnId |-> conn'[j]] /\ conn'[i] = r /\ Touched(i)

LEMMA TableStep ==
  ASSUME Table, NEW i \in ConnId, NEW r \in ConnectionOf(i),
         Len(r.up) <= Len(r.sent), Len(r.sent) <= MaxFrames, Becomes(i, r)
  PROVE  Table'
BY DEF Table, TableIs, Touched, Becomes

LEMMA Fields ==
  ASSUME Table, NEW i \in ConnId
  PROVE  /\ conn[i] = [up |-> conn[i].up, sent |-> conn[i].sent, down |-> conn[i].down,
                       client |-> conn[i].client, server |-> conn[i].server]
         /\ conn[i].up \in Lines(i) /\ conn[i].sent \in Seq(Kind)
         /\ conn[i].down \in Bodies(i)
         /\ conn[i].client \in {"none", "open", "closed"}
         /\ conn[i].server \in {"none", "waiting", "closed"}
         /\ Len(conn[i].up) <= Len(conn[i].sent) /\ Len(conn[i].sent) <= MaxFrames
         /\ Len(conn[i].up) \in Nat /\ Len(conn[i].sent) \in Nat
<1>1. conn[i] \in ConnectionOf(i) /\ Len(conn[i].up) <= Len(conn[i].sent)
      /\ Len(conn[i].sent) <= MaxFrames
  BY DEF Table, TableIs
<1>2. /\ conn[i] = [up |-> conn[i].up, sent |-> conn[i].sent, down |-> conn[i].down,
                    client |-> conn[i].client, server |-> conn[i].server]
      /\ conn[i].up \in Lines(i) /\ conn[i].sent \in Seq(Kind)
      /\ conn[i].down \in Bodies(i)
      /\ conn[i].client \in {"none", "open", "closed"}
      /\ conn[i].server \in {"none", "waiting", "closed"}
  BY <1>1 DEF ConnectionOf
<1>3. Len(conn[i].up) \in Nat /\ Len(conn[i].sent) \in Nat
  BY <1>2 DEF Lines
<1> QED
  BY <1>1, <1>2, <1>3

LEMMA ConnectsTable ==
  ASSUME Table, NEW i \in ConnId, ClientConnects(i)
  PROVE  Moved(i, conn[i].up, conn[i].sent, "open")
<1> DEFINE r == [up |-> conn[i].up, sent |-> conn[i].sent, down |-> conn[i].down,
                 client |-> "open", server |-> "waiting"]
<1>1. r \in ConnectionOf(i) /\ Len(r.up) <= Len(r.sent) /\ Len(r.sent) <= MaxFrames
  BY Fields DEF ConnectionOf
<1>2. Becomes(i, r)
  <2>1. /\ conn = [j \in ConnId |-> conn[j]]
        /\ conn' = [conn EXCEPT ![i].client = "open", ![i].server = "waiting"]
        /\ conn[i] = [up |-> conn[i].up, sent |-> conn[i].sent, down |-> conn[i].down,
                      client |-> conn[i].client, server |-> conn[i].server]
    BY Fields DEF ClientConnects, Table, TableIs
  <2> QED
    BY <2>1 DEF Becomes, Touched
<1>3. /\ r.up = conn[i].up /\ r.sent = conn[i].sent /\ r.down = conn[i].down
      /\ r.client = "open"
  OBVIOUS
<1> HIDE DEF r
<1> QED
  BY <1>1, <1>2, <1>3, TableStep DEF Moved, Becomes

LEMMA LeavesTable ==
  ASSUME Table, NEW i \in ConnId, ClientLeaves(i)
  PROVE  Moved(i, conn[i].up, conn[i].sent, "closed")
<1> DEFINE r == [up |-> conn[i].up, sent |-> conn[i].sent, down |-> conn[i].down,
                 client |-> "closed", server |-> conn[i].server]
<1>1. r \in ConnectionOf(i) /\ Len(r.up) <= Len(r.sent) /\ Len(r.sent) <= MaxFrames
  BY Fields DEF ConnectionOf
<1>2. Becomes(i, r)
  BY Fields DEF ClientLeaves, Table, TableIs, Becomes, Touched
<1>3. /\ r.up = conn[i].up /\ r.sent = conn[i].sent /\ r.down = conn[i].down
      /\ r.client = "closed"
  OBVIOUS
<1> HIDE DEF r
<1> QED
  BY <1>1, <1>2, <1>3, TableStep DEF Moved, Becomes

LEMMA SendsTable ==
  ASSUME SessionsAssumption, Table, NEW i \in ConnId, NEW kind \in Kind, ClientSends(i, kind)
  PROVE  \E t \in Mine(i) :
           Moved(i, Append(conn[i].up, [kind |-> kind, text |-> t]),
                 Append(conn[i].sent, kind), conn[i].client)
<1> DEFINE t == Message(i, Len(conn[i].sent) + 1)
           e == [kind |-> kind, text |-> t]
           r == [up |-> Append(conn[i].up, e), sent |-> Append(conn[i].sent, kind),
                 down |-> conn[i].down, client |-> conn[i].client, server |-> conn[i].server]
<1>1. t \in Mine(i) /\ e \in [kind : Kind, text : Mine(i)]
  BY Fields DEF ClientSends, Mine, SessionsAssumption
<1>2. Becomes(i, r)
  <2>1. /\ conn = [j \in ConnId |-> conn[j]]
        /\ conn' = [conn EXCEPT ![i].sent = Append(@, kind), ![i].up = Append(@, e)]
        /\ conn[i] = [up |-> conn[i].up, sent |-> conn[i].sent, down |-> conn[i].down,
                      client |-> conn[i].client, server |-> conn[i].server]
    BY Fields DEF ClientSends, Table, TableIs
  <2> HIDE DEF e
  <2> QED
    BY <2>1 DEF Becomes, Touched
<1>3. Len(conn[i].sent) < MaxFrames /\ MaxFrames \in Nat
  BY DEF ClientSends, SessionsAssumption
<1> HIDE DEF e, t
<1>4. r \in ConnectionOf(i) /\ Len(r.up) <= Len(r.sent) /\ Len(r.sent) <= MaxFrames
  <2>1. Append(conn[i].up, e) \in Lines(i)
        /\ Len(Append(conn[i].up, e)) = Len(conn[i].up) + 1
    <3> DEFINE X == [kind : Kind, text : Mine(i)]
    <3>1. conn[i].up \in Seq(X) /\ e \in X
      BY <1>1, Fields DEF Lines
    <3> HIDE DEF X
    <3>2. Append(conn[i].up, e) \in Seq(X) /\ Len(Append(conn[i].up, e)) = Len(conn[i].up) + 1
      BY <3>1
    <3> QED
      BY <3>2 DEF X, Lines
  <2>2. Append(conn[i].sent, kind) \in Seq(Kind)
        /\ Len(Append(conn[i].sent, kind)) = Len(conn[i].sent) + 1
    <3>1. conn[i].sent \in Seq(Kind) /\ kind \in Kind
      BY Fields
    <3> QED
      BY ONLY <3>1
  <2>3. /\ Len(conn[i].up) <= Len(conn[i].sent)
        /\ Len(conn[i].up) \in Nat /\ Len(conn[i].sent) \in Nat
    BY Fields
  <2>4. Len(r.up) <= Len(r.sent) /\ Len(r.sent) <= MaxFrames
    BY <1>3, <2>1, <2>2, <2>3
  <2> QED
    BY <2>1, <2>2, <2>4, Fields DEF ConnectionOf
<1>5. /\ r.up = Append(conn[i].up, e) /\ r.sent = Append(conn[i].sent, kind)
      /\ r.down = conn[i].down /\ r.client = conn[i].client
  OBVIOUS
<1> HIDE DEF r
<1>6. Moved(i, Append(conn[i].up, e), Append(conn[i].sent, kind), conn[i].client)
  BY <1>2, <1>4, <1>5, TableStep DEF Moved, Becomes
<1> QED
  BY <1>1, <1>6 DEF e

(* Every step of the serving thread changes one record of the table at      *)
(* most, its fields up, down and server.                                    *)
LEMMA HandledTable ==
  ASSUME Table, serving.conn \in ConnId, NEW up \in Lines(serving.conn), NEW n \in {0, 1},
         Len(up) + n <= Len(conn[serving.conn].up),
         NEW down \in Bodies(serving.conn), NEW server \in {"none", "waiting", "closed"},
         Becomes(serving.conn, [up |-> up, sent |-> conn[serving.conn].sent, down |-> down,
                                client |-> conn[serving.conn].client, server |-> server])
  PROVE  Handled(down, n)
<1> DEFINE i == serving.conn
           r == [up |-> up, sent |-> conn[i].sent, down |-> down,
                 client |-> conn[i].client, server |-> server]
<1>0. Len(up) \in Nat /\ Len(up) <= Len(conn[i].up)
  <2>1. Len(up) \in Nat /\ Len(conn[i].up) \in Nat /\ Len(up) + n <= Len(conn[i].up)
    BY Fields DEF Lines
  <2> QED
    BY <2>1
<1>1. r \in ConnectionOf(i)
  BY <1>0, Fields DEF ConnectionOf
<1>2. Len(up) <= Len(conn[i].sent) /\ Len(conn[i].sent) <= MaxFrames
  <2>1. /\ Len(conn[i].up) <= Len(conn[i].sent) /\ Len(conn[i].sent) <= MaxFrames
        /\ Len(conn[i].up) \in Nat /\ Len(conn[i].sent) \in Nat
    BY Fields
  <2> QED
    BY <1>0, <2>1
<1>3. /\ r.up = up /\ r.sent = conn[i].sent /\ r.down = down /\ r.client = conn[i].client
      /\ Becomes(i, r) /\ i \in ConnId
  OBVIOUS
<1> HIDE DEF r
<1>4. Table'
  BY <1>1, <1>2, <1>3, TableStep
<1> QED
  BY <1>3, <1>4 DEF Handled, Becomes

LEMMA Whole ==
  ASSUME Table, NEW i \in ConnId
  PROVE  /\ conn = [j \in ConnId |-> conn[j]]
         /\ conn[i] = [up |-> conn[i].up, sent |-> conn[i].sent, down |-> conn[i].down,
                       client |-> conn[i].client, server |-> conn[i].server]
BY Fields DEF Table, TableIs

LEMMA NoLines ==
  ASSUME NEW i
  PROVE  <<>> \in Lines(i) /\ Len(<<>>) = 0
BY DEF Lines

LEMMA ClosedTable ==
  ASSUME Table, serving.conn \in ConnId, NEW next, Closed(next)
  PROVE  /\ Handled(conn[serving.conn].down, 0)
         /\ Up # <<>> => Handled(conn[serving.conn].down, 1)
<1> DEFINE i == serving.conn
<1>1. Becomes(i, [up |-> <<>>, sent |-> conn[i].sent, down |-> conn[i].down,
                  client |-> conn[i].client, server |-> "closed"])
  <2>1. /\ conn = [j \in ConnId |-> conn[j]]
        /\ conn[i] = [up |-> conn[i].up, sent |-> conn[i].sent, down |-> conn[i].down,
                       client |-> conn[i].client, server |-> conn[i].server]
    BY Whole
  <2>2. conn' = [conn EXCEPT ![i].server = "closed", ![i].up = <<>>]
    BY DEF Closed
  <2> QED
    BY <2>1, <2>2 DEF Becomes, Touched
<1>2. /\ <<>> \in Lines(i) /\ Len(<<>>) = 0 /\ conn[i].down \in Bodies(i)
      /\ Len(conn[i].up) \in Nat /\ Len(conn[i].up) <= Len(conn[i].sent)
  BY NoLines, Fields
<1>3. conn[i].up # <<>> => Len(conn[i].up) >= 1
  <2>1. conn[i].up \in Lines(i)
    BY Fields
  <2> QED
    BY <2>1, EmptySeq DEF Lines
<1>4. Handled(conn[serving.conn].down, 0)
  <2>1. Len(<<>>) + 0 <= Len(conn[serving.conn].up)
    BY <1>2
  <2> QED
    BY <1>1, <1>2, <2>1, HandledTable
<1>5. ASSUME Up # <<>> PROVE Handled(conn[serving.conn].down, 1)
  <2>1. Len(<<>>) + 1 <= Len(conn[serving.conn].up)
    BY <1>2, <1>3, <1>5 DEF Up
  <2> QED
    BY <1>1, <1>2, <2>1, HandledTable
<1> QED
  BY <1>4, <1>5

LEMMA TailOfLines ==
  ASSUME Table, NEW i \in ConnId, conn[i].up # <<>>
  PROVE  /\ Tail(conn[i].up) \in Lines(i) /\ Len(Tail(conn[i].up)) + 1 = Len(conn[i].up)
         /\ Head(conn[i].up) \in [kind : Kind, text : Mine(i)]
<1>1. conn[i].up \in Lines(i)
  BY Fields
<1> DEFINE X == [kind : Kind, text : Mine(i)]
<1>2. conn[i].up \in Seq(X)
  BY <1>1 DEF Lines
<1> HIDE DEF X
<1>3. /\ Tail(conn[i].up) \in Seq(X) /\ Len(Tail(conn[i].up)) + 1 = Len(conn[i].up)
      /\ Head(conn[i].up) \in X
  BY <1>2
<1> QED
  BY <1>3 DEF X, Lines

LEMMA ReadTable ==
  ASSUME Table, serving.conn \in ConnId, Up # <<>>,
         conn' = [conn EXCEPT ![serving.conn].up = Tail(@)]
  PROVE  Handled(conn[serving.conn].down, 1)
<1> DEFINE i == serving.conn
<1>1. Becomes(i, [up |-> Tail(conn[i].up), sent |-> conn[i].sent, down |-> conn[i].down,
                  client |-> conn[i].client, server |-> conn[i].server])
  <2>1. /\ conn = [j \in ConnId |-> conn[j]]
        /\ conn[i] = [up |-> conn[i].up, sent |-> conn[i].sent, down |-> conn[i].down,
                       client |-> conn[i].client, server |-> conn[i].server]
    BY Whole
  <2>2. conn' = [conn EXCEPT ![i].up = Tail(@)]
    OBVIOUS
  <2> QED
    BY ONLY <2>1, <2>2, serving.conn \in ConnId DEF Becomes, Touched
<1>2. /\ Tail(conn[i].up) \in Lines(i) /\ Len(Tail(conn[i].up)) + 1 <= Len(conn[i].up)
  <2>1. Len(conn[i].up) \in Nat
    BY Fields
  <2> QED
    BY <2>1, TailOfLines DEF Up
<1>3. conn[i].down \in Bodies(i) /\ conn[i].server \in {"none", "waiting", "closed"}
  BY Fields
<1> QED
  BY <1>1, <1>2, <1>3, HandledTable

LEMMA BodiesGrow ==
  ASSUME Table, NEW i \in ConnId, NEW b \in Seq(Writable(i))
  PROVE  Append(conn[i].down, b) \in Bodies(i)
<1> DEFINE X == Seq(Writable(i))
<1>1. conn[i].down \in Seq(X) /\ b \in X
  BY Fields DEF Bodies
<1> HIDE DEF X
<1>2. Append(conn[i].down, b) \in Seq(X)
  BY <1>1
<1> QED
  BY <1>2 DEF X, Bodies

LEMMA AnswersTable ==
  ASSUME Table, serving.conn \in ConnId, Up # <<>>, Answers(<<Answer>>)
  PROVE  \/ Handled(conn[serving.conn].down, 1)
         \/ Handled(Append(conn[serving.conn].down, <<Answer>>), 1)
<1> DEFINE i == serving.conn
           d == IF Gone(i) THEN conn[i].down ELSE Append(conn[i].down, <<Answer>>)
<1>1. Becomes(i, [up |-> Tail(conn[i].up), sent |-> conn[i].sent, down |-> d,
                  client |-> conn[i].client, server |-> conn[i].server])
  <2>1. /\ conn = [j \in ConnId |-> conn[j]]
        /\ conn[i] = [up |-> conn[i].up, sent |-> conn[i].sent, down |-> conn[i].down,
                       client |-> conn[i].client, server |-> conn[i].server]
    BY Whole
  <2>2. conn' = [conn EXCEPT ![i].up = Tail(@), ![i].down =
                   IF Gone(i) THEN @ ELSE Append(@, <<Answer>>)]
    BY DEF Answers
  <2> QED
    BY <2>1, <2>2 DEF Becomes, Touched
<1>2. /\ Tail(conn[i].up) \in Lines(i) /\ Len(Tail(conn[i].up)) + 1 <= Len(conn[i].up)
  <2>1. Len(conn[i].up) \in Nat
    BY Fields
  <2> QED
    BY <2>1, TailOfLines DEF Up
<1>3. d \in Bodies(i) /\ conn[i].server \in {"none", "waiting", "closed"}
  <2>1. <<Answer>> \in Seq(Writable(i))
    BY WritableTexts
  <2> QED
    BY <2>1, BodiesGrow, Fields
<1> HIDE DEF d
<1>4. Handled(d, 1)
  BY <1>1, <1>2, <1>3, HandledTable
<1> QED
  BY <1>4 DEF d

LEMMA BodyType ==
  ASSUME NEW i \in ConnId, serving.conn = i, serving.message \in Mine(i), hand \in Seq(Waiting)
  PROVE  /\ Replies \in Seq(Writable(i)) /\ Len(Replies) = Len(hand) + 1
         /\ Body(Replies) \in Seq(Writable(i))
<1>1. hand \in Seq(Writable(i)) /\ serving.message \in Writable(i)
  BY WritableTexts, SeqGrows
<1>2. Replies \in Seq(Writable(i)) /\ Len(Replies) = Len(hand) + 1
  BY <1>1 DEF Replies
<1>3. Replies[1] \in Writable(i)
  BY <1>1, <1>2
<1> HIDE DEF Replies
<1> QED
  BY <1>2, <1>3 DEF Body

LEMMA SendTable ==
  ASSUME Table, serving.conn \in ConnId, Send, Body(Replies) \in Seq(Writable(serving.conn))
  PROVE  Handled(Append(conn[serving.conn].down, Body(Replies)), 0)
<1> DEFINE i == serving.conn
           d == Append(conn[i].down, Body(Replies))
<1>1. PICK w : w = [conn EXCEPT ![i].down = d]
  OBVIOUS
<1>2. conn' = w \/ conn' = [w EXCEPT ![i].server = "closed", ![i].up = <<>>]
  BY <1>1 DEF Send
<1>3. /\ w = [j \in ConnId |-> w[j]] /\ \A j \in ConnId : j # i => w[j] = conn[j]
      /\ w[i] = [up |-> conn[i].up, sent |-> conn[i].sent, down |-> d,
                 client |-> conn[i].client, server |-> conn[i].server]
  <2>1. /\ conn = [j \in ConnId |-> conn[j]]
        /\ conn[i] = [up |-> conn[i].up, sent |-> conn[i].sent, down |-> conn[i].down,
                       client |-> conn[i].client, server |-> conn[i].server]
    BY Whole
  <2> HIDE DEF d
  <2> QED
    BY ONLY <1>1, <2>1, serving.conn \in ConnId
<1>4. d \in Bodies(i)
  BY BodiesGrow
<1>5. /\ conn[i].up \in Lines(i) /\ Len(conn[i].up) \in Nat /\ <<>> \in Lines(i)
      /\ Len(<<>>) = 0 /\ conn[i].server \in {"none", "waiting", "closed"}
  BY NoLines, Fields
<1> HIDE DEF d
<1>6. CASE conn' = w
  <2>1. Becomes(i, [up |-> conn[i].up, sent |-> conn[i].sent, down |-> d,
                    client |-> conn[i].client, server |-> conn[i].server])
    BY <1>3, <1>6 DEF Becomes, Touched
  <2>2. Len(conn[i].up) + 0 <= Len(conn[i].up)
    BY <1>5
  <2> QED
    BY <1>4, <1>5, <2>1, <2>2, HandledTable DEF d
<1>7. CASE conn' = [w EXCEPT ![i].server = "closed", ![i].up = <<>>]
  <2>1. Becomes(i, [up |-> <<>>, sent |-> conn[i].sent, down |-> d,
                    client |-> conn[i].client, server |-> "closed"])
    <3>1. PICK v : v = [up |-> conn[i].up, sent |-> conn[i].sent, down |-> d,
                        client |-> conn[i].client, server |-> conn[i].server]
      OBVIOUS
    <3>2. i \in ConnId /\ w = [j \in ConnId |-> w[j]] /\ w[i] = v
      BY <1>3, <3>1
    <3> HIDE DEF i
    <3>3. conn' = [j \in ConnId |-> conn'[j]] /\ \A j \in ConnId : j # i => conn'[j] = w[j]
      BY ONLY <1>7, <3>2
    <3>4. conn'[i] = [up |-> <<>>, sent |-> conn[i].sent, down |-> d,
                      client |-> conn[i].client, server |-> "closed"]
      <4>1. PICK a, b, c, e : v = [up |-> a, sent |-> b, down |-> d, client |-> c, server |-> e]
                              /\ b = conn[i].sent /\ c = conn[i].client
        BY <3>1
      <4>2. conn'[i] = [[v EXCEPT !.server = "closed"] EXCEPT !.up = <<>>]
        BY ONLY <1>7, <3>2
      <4>3. conn'[i] = [up |-> <<>>, sent |-> b, down |-> d, client |-> c, server |-> "closed"]
        BY ONLY <4>1, <4>2
      <4> QED
        BY <4>1, <4>3
    <3> QED
      BY <1>3, <3>3, <3>4 DEF Becomes, Touched
  <2>2. Len(<<>>) + 0 <= Len(conn[i].up)
    BY <1>5
  <2> QED
    BY <1>4, <1>5, <2>1, <2>2, HandledTable DEF d
<1> QED
  BY <1>2, <1>6, <1>7

(* The numbers of the sessions: each was made for a frame that was read, so *)
(* that there are enough of them.                                           *)
Pairs == ConnId \X (1 .. MaxFrames)
Unread(t, i) == Len(t[i].sent) - Len(t[i].up)
ReadIn(t) == {x \in Pairs : x[2] <= Unread(t, x[1])}
Numbered ==
  /\ nextSid - 1 <= Cardinality(ReadIn(conn))
  /\ \A c \in Client : sessions[c] < nextSid
  /\ \A c, d \in Client : sessions[c] = sessions[d] => c = d \/ sessions[c] = NoSession
  /\ pick.session < nextSid

LEMMA PairsFinite ==
  ASSUME SessionsAssumption
  PROVE  IsFiniteSet(Pairs) /\ Cardinality(Pairs) = Clients * MaxConns * MaxFrames
<1>1. Clients \in Nat /\ MaxConns \in Nat /\ MaxFrames \in Nat
  BY DEF SessionsAssumption
<1>2. \A n \in Nat : IsFiniteSet(1 .. n) /\ Cardinality(1 .. n) = n
  <2> TAKE n \in Nat
  <2>1. IsFiniteSet(1 .. n) /\ Cardinality(1 .. n) = IF 1 > n THEN 0 ELSE n - 1 + 1
    BY FS_Interval
  <2> QED
    BY <2>1
<1>3. IsFiniteSet(ConnId) /\ Cardinality(ConnId) = Clients * MaxConns
  <2>1. IsFiniteSet(1 .. Clients) /\ IsFiniteSet(1 .. MaxConns)
        /\ Cardinality(1 .. Clients) = Clients /\ Cardinality(1 .. MaxConns) = MaxConns
    BY <1>1, <1>2
  <2>2. Cardinality((1 .. Clients) \X (1 .. MaxConns))
           = Cardinality(1 .. Clients) * Cardinality(1 .. MaxConns)
        /\ IsFiniteSet((1 .. Clients) \X (1 .. MaxConns))
    BY ONLY <2>1, FS_Product
  <2> QED
    BY <2>1, <2>2 DEF ConnId, Client
<1>4. IsFiniteSet(Pairs) /\ Cardinality(Pairs) = Cardinality(ConnId) * Cardinality(1 .. MaxFrames)
  BY <1>1, <1>2, <1>3, FS_Product DEF Pairs
<1> QED
  BY <1>1, <1>2, <1>3, <1>4

LEMMA ReadFinite ==
  ASSUME SessionsAssumption, NEW t
  PROVE  /\ IsFiniteSet(ReadIn(t)) /\ Cardinality(ReadIn(t)) \in Nat
         /\ Cardinality(ReadIn(t)) <= Clients * MaxConns * MaxFrames
<1>1. ReadIn(t) \subseteq Pairs
  BY DEF ReadIn
<1>2. IsFiniteSet(ReadIn(t)) /\ Cardinality(ReadIn(t)) <= Cardinality(Pairs)
  BY <1>1, PairsFinite, FS_Subset
<1>3. Cardinality(ReadIn(t)) \in Nat
  BY <1>2, FS_CardinalityType
<1> QED
  BY <1>2, <1>3, PairsFinite

LEMMA SessionIds ==
  ASSUME SessionsAssumption, Stores, Numbered
  PROVE  /\ \A s \in 1 .. nextSid - 1 : s \in SessionId
         /\ \A c \in Client : sessions[c] # NoSession => sessions[c] \in SessionId
         /\ pick.session # NoSession => pick.session \in SessionId
<1>1. nextSid \in Nat /\ pick.session \in Nat /\ \A c \in Client : sessions[c] \in Nat
  BY DEF Stores
<1>2. Cardinality(ReadIn(conn)) \in Nat /\ Cardinality(ReadIn(conn)) <= Clients * MaxConns * MaxFrames
  BY ReadFinite
<1>3. nextSid - 1 <= Clients * MaxConns * MaxFrames /\ Clients * MaxConns * MaxFrames \in Nat
  <2>1. Clients * MaxConns * MaxFrames \in Nat
    BY DEF SessionsAssumption
  <2> DEFINE N == Clients * MaxConns * MaxFrames
  <2> HIDE DEF N
  <2>2. N \in Nat /\ nextSid - 1 <= Cardinality(ReadIn(conn)) /\ Cardinality(ReadIn(conn)) <= N
    BY <1>2, <2>1 DEF Numbered, N
  <2>3. nextSid - 1 <= N
    BY <1>1, <1>2, <2>2
  <2> QED
    BY <2>1, <2>3 DEF N
<1> DEFINE M == Clients * MaxConns * MaxFrames
<1>4. M \in Nat /\ nextSid - 1 <= M /\ SessionId = 1 .. M
  BY <1>3 DEF SessionId
<1> HIDE DEF M
<1> QED
  BY <1>1, <1>4 DEF Numbered, NoSession

LEMMA ReadKept ==
  ASSUME SessionsAssumption, \A i \in ConnId : Unread(conn, i) <= Unread(conn', i),
         \A i \in ConnId : Unread(conn, i) \in Int /\ Unread(conn', i) \in Int
  PROVE  Cardinality(ReadIn(conn)) <= Cardinality(ReadIn(conn'))
<1>1. ReadIn(conn) \subseteq ReadIn(conn')
  BY DEF ReadIn, Pairs
<1> QED
  BY <1>1, ReadFinite, FS_Subset

LEMMA MovedRead ==
  ASSUME SessionsAssumption, Table, NEW i \in ConnId, NEW up, NEW sent, NEW client,
         Moved(i, up, sent, client), Len(sent) - Len(up) = Unread(conn, i)
  PROVE  Cardinality(ReadIn(conn)) <= Cardinality(ReadIn(conn'))
<1>1. \A j \in ConnId : Unread(conn, j) \in Int
  BY Fields DEF Unread
<1>2. \A j \in ConnId : Unread(conn', j) = Unread(conn, j)
  BY DEF Unread, Moved, Touched
<1> QED
  BY <1>1, <1>2, ReadKept

LEMMA HandledRead ==
  ASSUME SessionsAssumption, Table, serving.conn \in ConnId, NEW d, NEW n \in {0, 1},
         Handled(d, n)
  PROVE  Cardinality(ReadIn(conn)) + n <= Cardinality(ReadIn(conn'))
<1>0. PICK i \in ConnId : i = serving.conn
  OBVIOUS
<1>1. \A j \in ConnId : Len(conn[j].sent) \in Nat /\ Len(conn[j].up) \in Nat
                        /\ Len(conn[j].sent) <= MaxFrames /\ Len(conn[j].up) <= Len(conn[j].sent)
  BY Fields
<1>2. /\ Len(conn'[i].up) \in Nat /\ Len(conn'[i].up) + n <= Len(conn[i].up)
      /\ conn'[i].sent = conn[i].sent
      /\ \A j \in ConnId : j # i => conn'[j] = conn[j]
  <2>1. TableIs(conn') /\ i \in ConnId
    BY <1>0 DEF Handled, Table
  <2>2. conn'[i].up \in Lines(i)
    BY <2>1 DEF TableIs, ConnectionOf
  <2>3. Len(conn'[i].up) \in Nat
    BY <2>2 DEF Lines
  <2> QED
    BY <1>0, <2>3 DEF Handled, Touched
<1>3. \A j \in ConnId : /\ Unread(conn, j) \in Nat /\ Unread(conn', j) \in Nat
                        /\ Unread(conn, j) <= Unread(conn', j)
  <2> TAKE j \in ConnId
  <2>1. CASE j = i
    <3>1. PICK s, u, v \in Nat : /\ s = Len(conn[i].sent) /\ u = Len(conn[i].up)
                                 /\ v = Len(conn'[i].up) /\ s = Len(conn'[i].sent)
      BY <1>1, <1>2
    <3>2. v + n <= u /\ u <= s
      BY <1>1, <1>2, <3>1
    <3>3. s - u \in Nat /\ s - v \in Nat /\ s - u <= s - v
      BY <3>2
    <3> QED
      BY <2>1, <3>1, <3>3 DEF Unread
  <2>2. CASE j # i
    <3>1. PICK s, u \in Nat : s = Len(conn[j].sent) /\ u = Len(conn[j].up) /\ u <= s
      BY <1>1
    <3>2. s - u \in Nat /\ s - u <= s - u /\ conn'[j] = conn[j]
      BY <1>2, <2>2, <3>1
    <3> QED
      BY <3>1, <3>2 DEF Unread
  <2> QED
    BY <2>1, <2>2
<1>4. Cardinality(ReadIn(conn)) <= Cardinality(ReadIn(conn'))
  BY <1>3, ReadKept
<1>5. CASE n = 1
  <2>1. Unread(conn', i) >= Unread(conn, i) + 1 /\ Unread(conn, i) + 1 \in 1 .. MaxFrames
    <3>1. Unread(conn', i) >= Unread(conn, i) + 1
      <4>1. PICK s, u, v \in Nat : /\ s = Len(conn[i].sent) /\ u = Len(conn[i].up)
                                   /\ v = Len(conn'[i].up) /\ s = Len(conn'[i].sent)
        BY <1>1, <1>2
      <4>2. v + 1 <= u /\ u <= s
        BY <1>1, <1>2, <1>5, <4>1
      <4>3. s - v >= s - u + 1
        BY <4>2
      <4> QED
        BY <4>1, <4>3 DEF Unread
    <3>2. Unread(conn, i) + 1 <= MaxFrames
      <4>1. Unread(conn', i) <= MaxFrames
        <5>1. PICK s, v \in Nat : /\ s = Len(conn'[i].sent) /\ v = Len(conn'[i].up)
                                  /\ s <= MaxFrames
          BY <1>1, <1>2
        <5>2. MaxFrames \in Nat
          BY DEF SessionsAssumption
        <5>3. s - v <= MaxFrames
          BY <5>1, <5>2
        <5> QED
          BY <5>1, <5>3 DEF Unread
      <4> QED
        BY <1>3, <3>1, <4>1 DEF SessionsAssumption
    <3> QED
      BY <1>3, <3>1, <3>2 DEF SessionsAssumption
  <2> DEFINE x == <<i, Unread(conn, i) + 1>>
  <2>2. x \in Pairs /\ x \notin ReadIn(conn) /\ x \in ReadIn(conn')
    <3>1. x \in Pairs /\ x[1] = i /\ x[2] = Unread(conn, i) + 1
      BY <2>1 DEF Pairs
    <3>2. Unread(conn, i) \in Nat /\ i \in ConnId
      BY <1>3
    <3> HIDE DEF x
    <3> QED
      BY <2>1, <3>1, <3>2 DEF ReadIn
  <2> HIDE DEF x
  <2>3. ReadIn(conn) \cup {x} \subseteq ReadIn(conn')
    BY <1>3, <2>2 DEF ReadIn, Pairs
  <2>4. /\ IsFiniteSet(ReadIn(conn) \cup {x})
        /\ Cardinality(ReadIn(conn) \cup {x}) = Cardinality(ReadIn(conn)) + 1
    BY <2>2, ReadFinite, FS_AddElement
  <2>5. Cardinality(ReadIn(conn) \cup {x}) <= Cardinality(ReadIn(conn'))
    BY <2>3, ReadFinite, FS_Subset
  <2> QED
    BY <1>5, <2>4, <2>5
<1>6. CASE n = 0
  <2>1. Cardinality(ReadIn(conn)) \in Nat
    BY ReadFinite
  <2> QED
    BY <1>4, <1>6, <2>1
<1> QED
  BY <1>5, <1>6

TypeInv == Stores /\ Phase /\ Numbered

LEMMA Bounds ==
  ASSUME SessionsAssumption
  PROVE  /\ Clients \in Nat /\ MaxConns \in Nat /\ MaxFrames \in Nat \ {0} /\ MaxQueued \in Nat
         /\ Capacity \in Nat \ {0} /\ NoConn \notin ConnId
BY DEF SessionsAssumption, NoConn, ConnId, Client

LEMMA TypeInit ==
  ASSUME SessionsAssumption, Init
  PROVE  TypeInv
<1>1. Table
  <2> DEFINE r == [up |-> <<>>, sent |-> <<>>, down |-> <<>>, client |-> "none",
                   server |-> "none"]
  <2>1. conn = [i \in ConnId |-> r]
    BY DEF Init
  <2>2. \A i : r \in ConnectionOf(i)
    BY DEF ConnectionOf, Lines, Bodies
  <2>3. Len(r.up) = 0 /\ Len(r.sent) = 0
    OBVIOUS
  <2> HIDE DEF r
  <2> QED
    BY <2>1, <2>2, <2>3, Bounds DEF Table, TableIs
<1>2. Stores
  BY <1>1, Bounds DEF Init, Stores, Client, NoPick, NoSession
<1>3. Phase
  BY DEF Init, Phase, Busy
<1>4. Numbered
  <2>1. Cardinality(ReadIn(conn)) \in Nat
    BY ReadFinite
  <2> QED
    BY <2>1 DEF Init, Numbered, NoPick, NoSession
<1> QED
  BY <1>2, <1>3, <1>4 DEF TypeInv

LEMMA CardType ==
  ASSUME SessionsAssumption
  PROVE  Cardinality(ReadIn(conn)) \in Nat /\ Cardinality(ReadIn(conn')) \in Nat
BY ReadFinite

LEMMA ClientTypes ==
  ASSUME SessionsAssumption, TypeInv, UNCHANGED mode, NEW i \in ConnId,
         \/ ClientConnects(i) \/ ClientLeaves(i)
         \/ \E k \in Kinds \cup {"message"} : ClientSends(i, k)
  PROVE  TypeInv'
<1>1. \E up, sent, client : Moved(i, up, sent, client) /\ Len(sent) - Len(up) = Unread(conn, i)
  <2>1. Table
    BY DEF TypeInv, Stores
  <2>2. CASE ClientConnects(i)
    BY <2>1, <2>2, ConnectsTable DEF Unread
  <2>3. CASE ClientLeaves(i)
    BY <2>1, <2>3, LeavesTable DEF Unread
  <2>4. ASSUME NEW k \in Kinds \cup {"message"}, ClientSends(i, k)
        PROVE  \E up, sent, client : Moved(i, up, sent, client) /\ Len(sent) - Len(up) = Unread(conn, i)
    <3>1. k \in Kind
      BY DEF Kind
    <3>2. PICK t \in Mine(i) :
             Moved(i, Append(conn[i].up, [kind |-> k, text |-> t]),
                   Append(conn[i].sent, k), conn[i].client)
      BY <2>1, <2>4, <3>1, SendsTable
    <3>3. /\ Len(Append(conn[i].up, [kind |-> k, text |-> t])) = Len(conn[i].up) + 1
          /\ Len(Append(conn[i].sent, k)) = Len(conn[i].sent) + 1
          /\ Len(conn[i].up) \in Nat /\ Len(conn[i].sent) \in Nat
      <4>1. /\ conn[i].up \in Lines(i) /\ conn[i].sent \in Seq(Kind)
            /\ Len(conn[i].up) \in Nat /\ Len(conn[i].sent) \in Nat
        BY <2>1, Fields
      <4>2. PICK X : conn[i].up \in Seq(X) /\ X = [kind : Kind, text : Mine(i)]
        BY <4>1 DEF Lines
      <4>3. [kind |-> k, text |-> t] \in X
        BY <3>1, <4>2
      <4> QED
        BY ONLY <3>1, <4>1, <4>2, <4>3
    <3>4. Len(Append(conn[i].sent, k)) - Len(Append(conn[i].up, [kind |-> k, text |-> t]))
            = Unread(conn, i)
      <4>1. PICK m, n \in Nat : m = Len(conn[i].up) /\ n = Len(conn[i].sent)
        BY <3>3
      <4>2. (n + 1) - (m + 1) = n - m
        BY <4>1
      <4> QED
        BY <3>3, <4>1, <4>2 DEF Unread
    <3> QED
      BY <3>2, <3>4
  <2> QED
    BY <2>2, <2>3, <2>4
<1>2. Table' /\ Cardinality(ReadIn(conn)) <= Cardinality(ReadIn(conn'))
  <2>1. Table
    BY DEF TypeInv, Stores
  <2> QED
    BY <1>1, <2>1, MovedRead DEF Moved
<1>3. /\ UNCHANGED <<mode, loop, serving, sessions, outbox, nextSid, hand, pick, queued>>
      /\ backlog' \in Seq(ConnId)
  <2>1. backlog \in Seq(ConnId)
    BY DEF TypeInv, Stores
  <2>2. CASE ClientConnects(i)
    BY <2>1, <2>2 DEF ClientConnects, queueVars
  <2>3. CASE ClientLeaves(i)
    BY <2>1, <2>3 DEF ClientLeaves, serverVars, queueVars
  <2>4. ASSUME NEW k \in Kinds \cup {"message"}, ClientSends(i, k)
        PROVE  /\ UNCHANGED <<mode, loop, serving, sessions, outbox, nextSid, hand, pick, queued>>
               /\ backlog' \in Seq(ConnId)
    BY <2>1, <2>4 DEF ClientSends, serverVars, queueVars
  <2> QED
    BY <2>2, <2>3, <2>4
<1>4. Stores'
  BY <1>2, <1>3 DEF TypeInv, Stores
<1>5. Phase'
  BY <1>3 DEF TypeInv, Phase, Busy, Peer
<1>6. Numbered'
  <2>1. nextSid \in Nat
    BY DEF TypeInv, Stores
  <2> QED
    BY <1>2, <1>3, <2>1, CardType DEF TypeInv, Numbered
<1> QED
  BY <1>4, <1>5, <1>6 DEF TypeInv

LEMMA PickTypes ==
  ASSUME SessionsAssumption, TypeInv, UNCHANGED mode, NEW c \in Client, Pick(c)
  PROVE  TypeInv'
<1>1. /\ UNCHANGED <<conn, serverVars, queued>> /\ pick' = [client |-> c, session |-> sessions[c]]
      /\ Len(queued) < MaxQueued /\ sessions[c] # NoSession
  BY DEF Pick
<1>2. pick' \in [client : 0 .. Clients, session : Nat] /\ pick'.session = sessions[c]
      /\ pick'.client = c
  BY <1>1, Bounds DEF TypeInv, Stores, Client
<1>3. Stores'
  BY <1>1, <1>2 DEF TypeInv, Stores, Table, serverVars
<1>4. Phase'
  BY <1>1 DEF TypeInv, Phase, Busy, Peer, serverVars
<1>5. Numbered'
  BY <1>1, <1>2 DEF TypeInv, Numbered, serverVars
<1> QED
  BY <1>3, <1>4, <1>5 DEF TypeInv

LEMMA PickedType ==
  ASSUME SessionsAssumption, TypeInv, pick # NoPick
  PROVE  Len(queued) + 1 \in 1 .. MaxQueued /\ Queued(Len(queued) + 1) \in Waiting
<1>1. Len(queued) \in Nat /\ Len(queued) < MaxQueued
  BY DEF TypeInv, Stores
<1> QED
  BY <1>1, Bounds DEF Waiting

LEMMA QueueTypes ==
  ASSUME SessionsAssumption, TypeInv, UNCHANGED mode, QueueReply
  PROVE  TypeInv'
<1>1. /\ pick # NoPick /\ pick' = NoPick /\ queued' = Append(queued, pick)
      /\ outbox' = [outbox EXCEPT ![pick.session] = Append(@, Queued(Len(queued) + 1))]
      /\ UNCHANGED <<conn, backlog, loop, serving, sessions, nextSid, hand>>
  BY DEF QueueReply
<1>2. /\ queued \in Seq([client : Client, session : Nat])
      /\ pick \in [client : Client, session : Nat] /\ Len(queued) < MaxQueued
  BY <1>1 DEF TypeInv, Stores
<1>3. queued' \in Seq([client : Client, session : Nat]) /\ Len(queued') <= MaxQueued
  <2>1. queued' \in Seq([client : Client, session : Nat]) /\ Len(queued') = Len(queued) + 1
    BY <1>1, <1>2
  <2>2. Len(queued) \in Nat /\ MaxQueued \in Nat
    BY <1>2, Bounds
  <2> QED
    BY <1>2, <2>1, <2>2
<1>4. outbox' \in [SessionId -> Seq(Waiting)]
  <2>1. Queued(Len(queued) + 1) \in Waiting
    BY <1>1, PickedType
  <2>2. outbox \in [SessionId -> Seq(Waiting)]
    BY DEF TypeInv, Stores
  <2>3. PICK t \in Waiting : t = Queued(Len(queued) + 1)
    BY <2>1
  <2>4. outbox' = [outbox EXCEPT ![pick.session] = Append(@, t)]
    BY <1>1, <2>3
  <2>5. \A s \in SessionId : Append(outbox[s], t) \in Seq(Waiting)
    <3> TAKE s \in SessionId
    <3>1. outbox[s] \in Seq(Waiting)
      BY <2>2
    <3> QED
      BY ONLY <3>1, t \in Waiting, AppendProperties
  <2> QED
    BY ONLY <2>2, <2>4, <2>5
<1>5. pick' \in [client : 0 .. Clients, session : Nat] /\ pick'.session = 0
  BY <1>1, Bounds DEF NoPick, NoSession
<1>6. Stores'
  BY <1>1, <1>3, <1>4, <1>5 DEF TypeInv, Stores, Table
<1>7. Phase'
  BY <1>1 DEF TypeInv, Phase, Busy, Peer
<1>8. Numbered'
  BY <1>1, <1>5 DEF TypeInv, Numbered, Stores
<1> QED
  BY <1>6, <1>7, <1>8 DEF TypeInv

(* What the steps of the serving thread have in common.                     *)
LEMMA Serves ==
  ASSUME TypeInv, Busy
  PROVE  /\ serving.conn \in ConnId /\ Peer \in Client /\ Table
         /\ serving = [conn |-> serving.conn, key |-> serving.key,
                       session |-> serving.session, message |-> serving.message]
<1>1. serving \in [conn : ConnId, key : 0 .. Clients, session : Nat,
                   message : Mine(serving.conn) \cup {NoText}]
  BY DEF TypeInv, Phase
<1> QED
  BY <1>1 DEF TypeInv, Stores, Peer, ConnId

LEMMA FrameType ==
  ASSUME TypeInv, Busy, Up # <<>>
  PROVE  Frame \in [kind : Kind, text : Mine(serving.conn)]
BY Serves, TailOfLines DEF Frame, Up

LEMMA AcceptTypes ==
  ASSUME SessionsAssumption, TypeInv, UNCHANGED mode, Accept
  PROVE  TypeInv'
<1>1. /\ UNCHANGED <<conn, sessions, outbox, nextSid, hand, pick, queued>>
      /\ loop = "accept" /\ loop' = "receive"
      /\ serving' = [Idle EXCEPT !.conn = Head(backlog)]
      /\ backlog' = Tail(backlog) /\ backlog # <<>>
  BY DEF Accept, queueVars
<1>2. Head(backlog) \in ConnId /\ backlog' \in Seq(ConnId)
  BY <1>1 DEF TypeInv, Stores
<1>3. serving' = [conn |-> Head(backlog), key |-> 0, session |-> NoSession, message |-> NoText]
  BY <1>1 DEF Idle
<1>4. Stores'
  BY <1>1, <1>2 DEF TypeInv, Stores, Table
<1>5. Phase'
  <2>1. hand' = <<>> /\ Busy'
    BY <1>1 DEF TypeInv, Phase, Busy
  <2>2. /\ serving'.conn = Head(backlog) /\ serving'.key = 0
        /\ serving'.session = NoSession /\ serving'.message = NoText
    BY <1>3
  <2>3. serving' \in [conn : ConnId, key : 0 .. Clients, session : Nat,
                      message : Mine(serving'.conn) \cup {NoText}]
    BY <1>2, <1>3, <2>2, Bounds DEF NoSession
  <2> QED
    BY <1>1, <2>1, <2>2, <2>3 DEF Phase
<1>6. Numbered'
  BY <1>1 DEF TypeInv, Numbered
<1> QED
  BY <1>4, <1>5, <1>6 DEF TypeInv

(* A step that ends the service of a connection.                            *)
LEMMA ClosedTypes ==
  ASSUME SessionsAssumption, TypeInv, UNCHANGED mode, Busy, NEW next \in {"accept", "ended"},
         Closed(next), hand' = <<>>, UNCHANGED <<backlog, sessions, outbox, nextSid, queueVars>>
  PROVE  TypeInv'
<1>1. Table' /\ Cardinality(ReadIn(conn)) <= Cardinality(ReadIn(conn'))
  <2>1. Handled(conn[serving.conn].down, 0)
    BY Serves, ClosedTable
  <2>2. Cardinality(ReadIn(conn)) + 0 <= Cardinality(ReadIn(conn'))
    BY <2>1, Serves, HandledRead
  <2> QED
    BY <2>1, <2>2, CardType DEF Handled
<1>2. loop' = next /\ serving' = Idle
  BY DEF Closed
<1>3. Stores'
  BY <1>1 DEF TypeInv, Stores, queueVars
<1>4. Phase'
  BY <1>2 DEF Phase, Busy
<1>5. Numbered'
  <2>1. nextSid \in Nat
    BY DEF TypeInv, Stores
  <2> QED
    BY <1>1, <2>1, CardType DEF TypeInv, Numbered, queueVars
<1> QED
  BY <1>3, <1>4, <1>5 DEF TypeInv

LEMMA ReceiveEndTypes ==
  ASSUME SessionsAssumption, TypeInv, UNCHANGED mode, ReceiveEnd
  PROVE  TypeInv'
<1>1. Busy /\ hand' = <<>>
  BY DEF ReceiveEnd, Busy, TypeInv, Phase
<1> QED
  BY <1>1, ClosedTypes DEF ReceiveEnd

LEMMA ResetTypes ==
  ASSUME SessionsAssumption, TypeInv, UNCHANGED mode, ConnectionReset
  PROVE  TypeInv'
<1>1. Busy
  BY DEF ConnectionReset, Busy
<1> QED
  BY <1>1, ClosedTypes DEF ConnectionReset

LEMMA RaisesTypes ==
  ASSUME SessionsAssumption, TypeInv, UNCHANGED mode, SendRaises
  PROVE  TypeInv'
<1>1. Busy /\ hand' = <<>>
  BY DEF SendRaises, Busy, TypeInv, Phase
<1> QED
  BY <1>1, ClosedTypes DEF SendRaises

LEMMA TooLongTypes ==
  ASSUME SessionsAssumption, TypeInv, UNCHANGED mode, SendTooLong
  PROVE  TypeInv'
<1>1. Busy
  BY DEF SendTooLong, Busy
<1> QED
  BY <1>1, ClosedTypes DEF SendTooLong

LEMMA ProbeTypes ==
  ASSUME SessionsAssumption, TypeInv, UNCHANGED mode, ReceiveProbe
  PROVE  TypeInv'
<1>1. Busy /\ Up # <<>> /\ UNCHANGED <<backlog, sessions, outbox, nextSid, hand, queueVars>>
      /\ hand' = <<>> /\ loop = "receive"
  BY DEF ReceiveProbe, Busy, TypeInv, Phase
<1>2. CASE Closed("accept")
  BY <1>1, <1>2, ClosedTypes
<1>3. CASE Answers(<<Answer>>) /\ UNCHANGED <<loop, serving>>
  <2>1. PICK d : Handled(d, 1)
    BY <1>1, <1>3, Serves, AnswersTable
  <2>2. Table' /\ Cardinality(ReadIn(conn)) <= Cardinality(ReadIn(conn'))
    <3>1. Cardinality(ReadIn(conn)) + 1 <= Cardinality(ReadIn(conn'))
      BY <1>1, <2>1, Serves, HandledRead
    <3> QED
      BY <2>1, <3>1, CardType DEF Handled
  <2>3. Stores'
    BY <1>1, <2>2 DEF TypeInv, Stores, queueVars
  <2>4. Phase'
    BY <1>1, <1>3 DEF TypeInv, Phase, Busy, Peer
  <2>5. Numbered'
    <3>1. nextSid \in Nat
      BY DEF TypeInv, Stores
    <3> QED
      BY <1>1, <2>2, <3>1, CardType DEF TypeInv, Numbered, queueVars
  <2> QED
    BY <2>3, <2>4, <2>5 DEF TypeInv
<1> QED
  BY <1>2, <1>3 DEF ReceiveProbe

LEMMA ServedRead ==
  ASSUME SessionsAssumption, TypeInv, Busy, NEW d, NEW n \in {0, 1}, Handled(d, n)
  PROVE  Table' /\ Cardinality(ReadIn(conn)) + n <= Cardinality(ReadIn(conn'))
BY Serves, HandledRead DEF Handled

(* A new session has a number that no session had.                          *)
LEMMA Creates ==
  ASSUME SessionsAssumption, TypeInv, NEW c \in Client, GetOrCreateSession(c)
  PROVE  /\ sessions' \in [Client -> Nat] /\ nextSid' \in Nat \ {0}
         /\ nextSid <= nextSid' /\ nextSid' <= nextSid + 1
         /\ \A d \in Client : sessions'[d] < nextSid' /\ (d # c => sessions'[d] = sessions[d])
         /\ \A d, e \in Client : sessions'[d] = sessions'[e] => d = e \/ sessions'[d] = NoSession
         /\ sessions'[c] # NoSession
         /\ sessions'[c] = sessions[c] \/ sessions'[c] = nextSid
<1>1. /\ sessions \in [Client -> Nat] /\ nextSid \in Nat \ {0}
      /\ \A d \in Client : sessions[d] < nextSid
      /\ \A d, e \in Client : sessions[d] = sessions[e] => d = e \/ sessions[d] = NoSession
  BY DEF TypeInv, Stores, Numbered
<1>2. CASE sessions[c] # NoSession /\ UNCHANGED <<sessions, nextSid>>
  BY <1>1, <1>2
<1>3. CASE /\ nextSid' = nextSid + 1
           /\ sessions' = [sessions EXCEPT ![c] = nextSid]
  <2>1. /\ sessions' \in [Client -> Nat] /\ sessions'[c] = nextSid
        /\ \A d \in Client : d # c => sessions'[d] = sessions[d]
    BY <1>1, <1>3
  <2>2. \A d \in Client : sessions'[d] < nextSid' /\ sessions[d] # nextSid
    BY <1>1, <1>3, <2>1
  <2>3. \A d, e \in Client : sessions'[d] = sessions'[e] => d = e \/ sessions'[d] = NoSession
    BY <1>1, <2>1, <2>2
  <2> QED
    BY <1>1, <1>3, <2>1, <2>2, <2>3 DEF NoSession
<1> QED
  BY <1>2, <1>3 DEF GetOrCreateSession

LEMMA MessageTypes ==
  ASSUME SessionsAssumption, TypeInv, UNCHANGED mode, ReceiveMessage
  PROVE  TypeInv'
<1>1. /\ Busy /\ Up # <<>> /\ loop' = "reply" /\ GetOrCreateSession(Peer)
      /\ UNCHANGED <<backlog, outbox, hand, pick, queued>> /\ hand' = <<>>
      /\ conn' = [conn EXCEPT ![serving.conn].up = Tail(@)]
      /\ serving' = [serving EXCEPT !.key = Peer, !.session = sessions'[Peer],
                                    !.message = Frame.text]
  BY DEF ReceiveMessage, Busy, TypeInv, Phase, queueVars
<1>2. Table' /\ Cardinality(ReadIn(conn)) + 1 <= Cardinality(ReadIn(conn'))
  BY <1>1, Serves, ReadTable, ServedRead
<1>3. Peer \in Client /\ Frame.text \in Mine(serving.conn)
  BY <1>1, Serves, FrameType
<1>4. /\ sessions' \in [Client -> Nat] /\ nextSid' \in Nat \ {0}
      /\ nextSid <= nextSid' /\ nextSid' <= nextSid + 1
      /\ \A d \in Client : sessions'[d] < nextSid'
      /\ \A d, e \in Client : sessions'[d] = sessions'[e] => d = e \/ sessions'[d] = NoSession
      /\ sessions'[Peer] # NoSession
  BY <1>1, <1>3, Creates
<1>5. Stores'
  BY <1>1, <1>2, <1>4 DEF TypeInv, Stores
<1>6. Phase'
  <2>1. /\ serving'.conn = serving.conn /\ serving'.key = Peer
        /\ serving'.session = sessions'[Peer] /\ serving'.message = Frame.text
        /\ serving' = [conn |-> serving.conn, key |-> Peer, session |-> sessions'[Peer],
                       message |-> Frame.text]
    BY <1>1, Serves
  <2>2. Peer \in 0 .. Clients /\ Peer # 0 /\ serving.conn \in ConnId
    BY <1>1, <1>3, Bounds, Serves DEF Client
  <2>3. serving' \in [conn : ConnId, key : 0 .. Clients, session : Nat,
                      message : Mine(serving'.conn) \cup {NoText}]
    BY <1>3, <1>4, <2>1, <2>2
  <2>4. Peer' = Peer
    BY <2>1 DEF Peer
  <2> QED
    BY <1>1, <1>3, <1>4, <2>1, <2>2, <2>3, <2>4 DEF Phase, Busy
<1>7. Numbered'
  <2>1. /\ nextSid \in Nat /\ pick.session \in Nat /\ pick.session < nextSid
        /\ nextSid - 1 <= Cardinality(ReadIn(conn))
    BY DEF TypeInv, Stores, Numbered
  <2> QED
    BY <1>1, <1>2, <1>4, <2>1, CardType DEF Numbered
<1> QED
  BY <1>5, <1>6, <1>7 DEF TypeInv

LEMMA ForeignTypes ==
  ASSUME SessionsAssumption, TypeInv, UNCHANGED mode, ReceiveForeign
  PROVE  TypeInv'
<1>1. /\ Busy /\ Up # <<>> /\ loop' = "reply" /\ hand' = <<>>
      /\ UNCHANGED <<backlog, sessions, outbox, nextSid, hand, pick, queued>>
      /\ conn' = [conn EXCEPT ![serving.conn].up = Tail(@)]
      /\ serving' = [serving EXCEPT !.message = Frame.text]
  BY DEF ReceiveForeign, Busy, TypeInv, Phase, queueVars
<1>2. Table' /\ Cardinality(ReadIn(conn)) + 1 <= Cardinality(ReadIn(conn'))
  BY <1>1, Serves, ReadTable, ServedRead
<1>3. Stores'
  BY <1>1, <1>2 DEF TypeInv, Stores
<1>4. Phase'
  <2>1. /\ serving'.conn = serving.conn /\ serving'.key = serving.key
        /\ serving'.session = serving.session /\ serving'.message = Frame.text
        /\ serving' = [conn |-> serving.conn, key |-> serving.key,
                       session |-> serving.session, message |-> Frame.text]
    BY <1>1, Serves
  <2>2. Frame.text \in Mine(serving.conn)
    BY <1>1, FrameType
  <2>3. serving' \in [conn : ConnId, key : 0 .. Clients, session : Nat,
                      message : Mine(serving'.conn) \cup {NoText}]
    BY <1>1, <2>1, <2>2 DEF TypeInv, Phase
  <2>4. Peer' = Peer
    BY <2>1 DEF Peer
  <2> QED
    BY <1>1, <2>1, <2>2, <2>3, <2>4 DEF TypeInv, Phase, Busy
<1>5. Numbered'
  <2>1. nextSid \in Nat
    BY DEF TypeInv, Stores
  <2> QED
    BY <1>1, <1>2, <2>1, CardType DEF TypeInv, Numbered
<1> QED
  BY <1>3, <1>4, <1>5 DEF TypeInv

LEMMA CloseTypes ==
  ASSUME SessionsAssumption, TypeInv, UNCHANGED mode, ReceiveClose
  PROVE  TypeInv'
<1>1. /\ Busy /\ Up # <<>> /\ Closed("accept") /\ hand' = <<>>
      /\ UNCHANGED <<backlog, outbox, hand, pick, queued>>
      /\ nextSid' = nextSid + 1 \/ nextSid' = nextSid
      /\ sessions' = [sessions EXCEPT ![Peer] = NoSession] \/ sessions' = sessions
  BY DEF ReceiveClose, Busy, TypeInv, Phase, queueVars
<1>2. Table' /\ Cardinality(ReadIn(conn)) + 1 <= Cardinality(ReadIn(conn'))
  BY <1>1, Serves, ClosedTable, ServedRead
<1>3. loop' = "accept" /\ serving' = Idle
  BY <1>1 DEF Closed
<1>4. /\ sessions \in [Client -> Nat] /\ nextSid \in Nat \ {0}
      /\ \A d \in Client : sessions[d] < nextSid
      /\ \A d, e \in Client : sessions[d] = sessions[e] => d = e \/ sessions[d] = NoSession
  BY DEF TypeInv, Stores, Numbered
<1>5. /\ sessions' \in [Client -> Nat] /\ nextSid' \in Nat \ {0}
      /\ nextSid <= nextSid' /\ nextSid' <= nextSid + 1
      /\ \A d \in Client : sessions'[d] = sessions[d] \/ sessions'[d] = NoSession
  BY <1>1, <1>4 DEF NoSession
<1>6. /\ \A d \in Client : sessions'[d] < nextSid'
      /\ \A d, e \in Client : sessions'[d] = sessions'[e] => d = e \/ sessions'[d] = NoSession
  BY <1>4, <1>5 DEF NoSession
<1>7. Stores'
  BY <1>1, <1>2, <1>5 DEF TypeInv, Stores
<1>8. Phase'
  BY <1>1, <1>3 DEF Phase, Busy
<1>9. Numbered'
  <2>1. /\ pick.session \in Nat /\ pick.session < nextSid
        /\ nextSid - 1 <= Cardinality(ReadIn(conn))
    BY DEF TypeInv, Stores, Numbered
  <2> QED
    BY <1>1, <1>2, <1>4, <1>5, <1>6, <2>1, CardType DEF Numbered
<1> QED
  BY <1>7, <1>8, <1>9 DEF TypeInv

LEMMA CopiesTypes ==
  ASSUME SessionsAssumption, TypeInv, UNCHANGED mode, DrainCopies
  PROVE  TypeInv' /\ serving.session \in SessionId
<1>1. /\ Busy /\ loop = "reply" /\ serving.key # 0 /\ loop' = "drain"
      /\ hand' = outbox[serving.session]
      /\ UNCHANGED <<conn, backlog, serving, sessions, outbox, nextSid, pick, queued>>
  BY DEF DrainCopies, Busy, queueVars
<1>2. serving.session \in SessionId
  BY <1>1, Serves, SessionIds DEF TypeInv, Phase
<1>3. hand' \in Seq(Waiting)
  BY <1>1, <1>2 DEF TypeInv, Stores
<1>4. Stores'
  BY <1>1, <1>3 DEF TypeInv, Stores, Table
<1>5. Phase'
  BY <1>1 DEF TypeInv, Phase, Busy, Peer
<1>6. Numbered'
  BY <1>1 DEF TypeInv, Numbered
<1> QED
  BY <1>2, <1>4, <1>5, <1>6 DEF TypeInv

LEMMA ClearsTypes ==
  ASSUME SessionsAssumption, TypeInv, UNCHANGED mode, DrainClears
  PROVE  TypeInv' /\ serving.session \in SessionId
<1>1. /\ Busy /\ loop = "drain" /\ loop' = "send"
      /\ outbox' = [outbox EXCEPT ![serving.session] = <<>>]
      /\ UNCHANGED <<conn, backlog, serving, sessions, nextSid, hand, pick, queued>>
  BY DEF DrainClears, Busy, queueVars
<1>2. serving.session \in SessionId
  BY <1>1, Serves, SessionIds DEF TypeInv, Phase
<1>3. outbox' \in [SessionId -> Seq(Waiting)]
  <2>1. outbox \in [SessionId -> Seq(Waiting)] /\ <<>> \in Seq(Waiting)
    BY DEF TypeInv, Stores
  <2> QED
    BY ONLY <1>1, <2>1
<1>4. Stores'
  BY <1>1, <1>3 DEF TypeInv, Stores, Table
<1>5. Phase'
  BY <1>1 DEF TypeInv, Phase, Busy, Peer
<1>6. Numbered'
  BY <1>1 DEF TypeInv, Numbered
<1> QED
  BY <1>2, <1>4, <1>5, <1>6 DEF TypeInv

(* What Send does: a body at the end of what is written to the connection.  *)
LEMMA SendHandles ==
  ASSUME TypeInv, Send
  PROVE  /\ Busy /\ hand' = <<>> /\ UNCHANGED <<backlog, sessions, outbox, nextSid, pick, queued>>
         /\ serving.message \in Mine(serving.conn)
         /\ Body(Replies) \in Seq(Writable(serving.conn))
         /\ Handled(Append(conn[serving.conn].down, Body(Replies)), 0)
         /\ \/ loop' = "receive" /\ serving' = serving
            \/ loop' = "accept" /\ serving' = Idle
<1>1. /\ Busy /\ hand' = <<>> /\ UNCHANGED <<backlog, sessions, outbox, nextSid, pick, queued>>
      /\ \/ loop' = "receive" /\ serving' = serving
         \/ loop' = "accept" /\ serving' = Idle
      /\ loop = "send"
  BY DEF Send, Busy, queueVars
<1>2. serving.message \in Mine(serving.conn) /\ hand \in Seq(Waiting)
  BY <1>1 DEF TypeInv, Phase, Stores
<1>3. Body(Replies) \in Seq(Writable(serving.conn))
  BY <1>1, <1>2, Serves, BodyType
<1> QED
  BY <1>1, <1>2, <1>3, Serves, SendTable

LEMMA SendTypes ==
  ASSUME SessionsAssumption, TypeInv, UNCHANGED mode, Send
  PROVE  TypeInv'
<1>1. /\ Busy /\ hand' = <<>> /\ UNCHANGED <<backlog, sessions, outbox, nextSid, pick, queued>>
      /\ \/ loop' = "receive" /\ serving' = serving
         \/ loop' = "accept" /\ serving' = Idle
  BY SendHandles
<1>2. Table' /\ Cardinality(ReadIn(conn)) <= Cardinality(ReadIn(conn'))
  <2>1. PICK d : Handled(d, 0)
    BY SendHandles
  <2>2. Table' /\ Cardinality(ReadIn(conn)) + 0 <= Cardinality(ReadIn(conn'))
    BY <1>1, <2>1, ServedRead
  <2> QED
    BY <2>2, CardType
<1>3. Stores'
  BY <1>1, <1>2 DEF TypeInv, Stores
<1>4. Phase'
  BY <1>1 DEF TypeInv, Phase, Busy, Peer
<1>5. Numbered'
  <2>1. nextSid \in Nat
    BY DEF TypeInv, Stores
  <2> QED
    BY <1>1, <1>2, <2>1, CardType DEF TypeInv, Numbered
<1> QED
  BY <1>3, <1>4, <1>5 DEF TypeInv

LEMMA TypeSame ==
  ASSUME TypeInv, UNCHANGED vars
  PROVE  TypeInv'
BY DEF TypeInv, Stores, Table, Phase, Busy, Peer, Numbered, vars, serverVars, queueVars

LEMMA TypeStep ==
  ASSUME SessionsAssumption, TypeInv, [Next]_vars
  PROVE  TypeInv'
<1>1. ASSUME UNCHANGED mode, NEW i \in ConnId,
             \/ ClientConnects(i) \/ ClientLeaves(i)
             \/ \E k \in Kinds \cup {"message"} : ClientSends(i, k)
      PROVE  TypeInv'
  BY <1>1, ClientTypes
<1>2. ASSUME UNCHANGED mode, ServerStep PROVE TypeInv'
  BY <1>2, AcceptTypes, ReceiveEndTypes, ResetTypes, RaisesTypes, TooLongTypes, ProbeTypes,
     MessageTypes, ForeignTypes, CloseTypes, CopiesTypes, ClearsTypes, SendTypes DEF ServerStep
<1>3. ASSUME UNCHANGED mode, NEW c \in Client, Pick(c) PROVE TypeInv'
  BY <1>3, PickTypes
<1>4. ASSUME UNCHANGED mode, QueueReply PROVE TypeInv'
  BY <1>4, QueueTypes
<1> QED
  BY <1>1, <1>2, <1>3, <1>4, TypeSame DEF Next, Step

(* The loop of the exit works on frames its connections have sent, each of  *)
(* them at most once; a lookup makes at most one session per frame read, so *)
(* that the session numbers do not run out.                                 *)
THEOREM TypesHold == Spec => []TypeInv
<1>1. Init => TypeInv
  BY SessionsAssumption, TypeInit
<1>2. TypeInv /\ [Next]_vars => TypeInv'
  BY SessionsAssumption, TypeStep
<1> QED
  BY <1>1, <1>2, PTL DEF Spec

-------------------------------------------------------------------------------
(* Sessions come and go with what the serving thread reads.                 *)

(* A step other than reading a message or a close leaves them alone.        *)
LEMMA SessionsMove ==
  ASSUME SessionsAssumption, TypeInv, [Next]_vars
  PROVE  \/ UNCHANGED <<sessions, nextSid>>
         \/ /\ ReceiveMessage /\ Peer \in Client
            /\ \A d \in Client : d # Peer => sessions'[d] = sessions[d]
            /\ \/ sessions'[Peer] = sessions[Peer]
               \/ sessions[Peer] = NoSession /\ sessions'[Peer] = nextSid
            /\ nextSid' = nextSid \/ nextSid' = nextSid + 1
         \/ /\ ReceiveClose /\ Peer \in Client
            /\ \A d \in Client : d # Peer => sessions'[d] = sessions[d]
            /\ sessions'[Peer] = sessions[Peer] \/ sessions'[Peer] = NoSession
            /\ Secure => sessions'[Peer] = NoSession
            /\ nextSid' = nextSid \/ nextSid' = nextSid + 1
<1>0. sessions \in [Client -> Nat]
  BY DEF TypeInv, Stores
<1>1. CASE ReceiveMessage
  <2>1. Peer \in Client /\ GetOrCreateSession(Peer)
    BY <1>1, Serves DEF ReceiveMessage, Busy
  <2>2. \/ UNCHANGED <<sessions, nextSid>>
        \/ /\ nextSid' = nextSid + 1 /\ sessions[Peer] = NoSession
           /\ sessions' = [sessions EXCEPT ![Peer] = nextSid]
    BY <2>1 DEF GetOrCreateSession
  <2> QED
    BY <1>0, <1>1, <2>1, <2>2
<1>2. CASE ReceiveClose
  <2>1. Peer \in Client
    BY <1>2, Serves DEF ReceiveClose, Busy
  <2>2. /\ nextSid' = nextSid \/ nextSid' = nextSid + 1
        /\ sessions' = IF Secure \/ serving.session # NoSession
                       THEN [sessions EXCEPT ![Peer] = NoSession] ELSE sessions
    BY <1>2 DEF ReceiveClose
  <2> QED
    BY <1>0, <1>2, <2>1, <2>2
<1>3. CASE ServerStep /\ ~ReceiveMessage /\ ~ReceiveClose
  BY <1>3 DEF ServerStep, Accept, ReceiveEnd, ReceiveProbe, ReceiveForeign, ConnectionReset,
              SendRaises, DrainCopies, DrainClears, SendTooLong, Send
<1>4. CASE UNCHANGED vars
  BY <1>4 DEF vars, serverVars
<1>5. CASE \E i \in ConnId : \/ ClientConnects(i) \/ ClientLeaves(i)
                             \/ \E k \in Kinds \cup {"message"} : ClientSends(i, k)
  BY <1>5 DEF ClientConnects, ClientLeaves, ClientSends, serverVars
<1>6. CASE (\E c \in Client : Pick(c)) \/ QueueReply
  BY <1>6 DEF Pick, QueueReply, serverVars
<1> QED
  BY <1>1, <1>2, <1>3, <1>4, <1>5, <1>6 DEF Next, Step

(* From a close that is read the service only goes on by reading it.        *)
LEMMA CloseIsRead ==
  ASSUME [Next]_vars, loop = "receive", Up # <<>>, Frame.kind = "close", loop' = "accept"
  PROVE  ReceiveClose
<1>1. ~UNCHANGED loop
  OBVIOUS
<1>2. ~UNCHANGED vars
  BY <1>1 DEF vars, serverVars
<1>3. ServerStep
  BY <1>1, <1>2 DEF Next, Step, ClientConnects, ClientLeaves, ClientSends, Pick, QueueReply, serverVars
<1> QED
  BY <1>1, <1>3 DEF ServerStep, Accept, ReceiveEnd, ReceiveProbe, ReceiveMessage, ReceiveForeign,
     ConnectionReset, SendRaises, DrainCopies, DrainClears, SendTooLong, Send, Closed

LEMMA StableStep ==
  ASSUME SessionsAssumption, TypeInv, [Next]_vars, NEW c \in Client, sessions[c] # NoSession
  PROVE  IF Secure /\ ReadsClose(c) /\ loop' = "accept" THEN sessions'[c] = NoSession
         ELSE sessions'[c] = sessions[c] \/ ReadsClose(c)
<1>1. ReceiveClose => loop = "receive" /\ Up # <<>> /\ Frame.kind = "close" /\ loop' = "accept"
  BY DEF ReceiveClose, Closed
<1>2. ReceiveMessage => loop = "receive" /\ loop' = "reply"
  BY DEF ReceiveMessage
<1>3. CASE Secure /\ ReadsClose(c) /\ loop' = "accept"
  <2>1. ReceiveClose /\ Peer = c /\ ~ReceiveMessage
    BY <1>2, <1>3, CloseIsRead DEF ReadsClose
  <2>2. sessions'[c] = NoSession
    BY <1>3, <2>1 DEF ReceiveClose, TypeInv, Stores
  <2> QED
    BY <1>3, <2>2
<1>4. CASE ~(Secure /\ ReadsClose(c) /\ loop' = "accept")
  <2>1. sessions'[c] = sessions[c] \/ (ReceiveClose /\ Peer = c)
    BY SessionsMove
  <2>2. ReceiveClose /\ Peer = c => ReadsClose(c)
    BY <1>1 DEF ReadsClose
  <2> QED
    BY <1>4, <2>1, <2>2
<1> QED
  BY <1>3, <1>4

(* sessions keeps the session of a client until the exit reads its          *)
(* CLIENT_CLOSE, and a secure exit drops it then: no lookup, reply, drain   *)
(* or queued reply in between touches it, for any number of clients.        *)
THEOREM StableHolds == Spec => StableUntilClose
<1>1. ASSUME TypeInv, [Next]_vars
      PROVE  [\A c \in Client : sessions[c] # NoSession =>
                IF Secure /\ ReadsClose(c) /\ loop' = "accept" THEN sessions'[c] = NoSession
                ELSE sessions'[c] = sessions[c] \/ ReadsClose(c)]_vars
  BY <1>1, SessionsAssumption, StableStep
<1> QED
  BY <1>1, TypesHold, PTL DEF Spec, StableUntilClose

(* Whose the picked session is, and that of each queued reply.              *)
Owned(q) ==
  /\ q.client \in Client /\ q.session \in 1 .. nextSid - 1
  /\ \A c \in Client : sessions[c] = q.session => q.client = c
Owners ==
  /\ pick # NoPick => Owned(pick)
  /\ \A n \in 1 .. Len(queued) : Owned(queued[n])

LEMMA OwnedKept ==
  ASSUME SessionsAssumption, TypeInv, [Next]_vars, NEW q, Owned(q)
  PROVE  Owned(q)'
<1>1. nextSid \in Nat /\ (nextSid' = nextSid \/ nextSid' = nextSid + 1)
  BY SessionsMove DEF TypeInv, Stores
<1>2. \A c \in Client : sessions'[c] \in {sessions[c], NoSession, nextSid}
  BY SessionsMove
<1> QED
  BY <1>1, <1>2 DEF Owned, NoSession

LEMMA PickedQueued ==
  ASSUME SessionsAssumption, TypeInv, [Next]_vars
  PROVE  \/ UNCHANGED <<pick, queued>>
         \/ \E c \in Client : Pick(c)
         \/ QueueReply
BY DEF Next, Step, ClientConnects, ClientLeaves, ClientSends, ServerStep, Accept, ReceiveEnd,
   ReceiveProbe, ReceiveMessage, ReceiveForeign, ConnectionReset, ReceiveClose, SendRaises,
   DrainCopies, DrainClears, SendTooLong, Send, vars, queueVars

LEMMA OwnersStep ==
  ASSUME SessionsAssumption, TypeInv, Owners, [Next]_vars
  PROVE  Owners'
<1>0. \A q : Owned(q) => Owned(q)'
  BY OwnedKept
<1>1. CASE UNCHANGED <<pick, queued>>
  <2>1. pick' # NoPick => Owned(pick)'
    BY <1>0, <1>1 DEF Owners, Owned
  <2>2. \A n \in 1 .. Len(queued) : Owned(queued[n])'
    <3> TAKE n \in 1 .. Len(queued)
    <3>1. PICK q : q = queued[n]
      OBVIOUS
    <3>2. Owned(q)' /\ queued'[n] = q
      BY <1>0, <1>1, <3>1 DEF Owners
    <3> QED
      BY <3>2 DEF Owned
  <2> QED
    BY <1>1, <2>1, <2>2 DEF Owners
<1>2. ASSUME NEW c \in Client, Pick(c) PROVE Owners'
  <2>1. /\ pick' = [client |-> c, session |-> sessions[c]] /\ sessions[c] # NoSession
        /\ queued' = queued /\ UNCHANGED <<sessions, nextSid>>
    BY <1>2 DEF Pick, serverVars
  <2>2. /\ sessions[c] \in Nat /\ sessions[c] < nextSid /\ nextSid \in Nat
        /\ \A d \in Client : sessions[c] = sessions[d] => c = d \/ sessions[c] = NoSession
    BY DEF TypeInv, Stores, Numbered
  <2>3. Owned(pick)'
    BY <2>1, <2>2 DEF Owned, NoSession
  <2>4. \A n \in 1 .. Len(queued) : Owned(queued[n])'
    BY <2>1 DEF Owners, Owned
  <2> QED
    BY <2>1, <2>3, <2>4 DEF Owners
<1>3. CASE QueueReply
  <2>1. /\ queued' = Append(queued, pick) /\ pick' = NoPick /\ pick # NoPick
        /\ UNCHANGED <<sessions, nextSid>>
    BY <1>3 DEF QueueReply
  <2>2. queued \in Seq([client : Client, session : Nat])
    BY DEF TypeInv, Stores
  <2>3. Len(queued) \in Nat
    BY <2>2
  <2>4. Len(queued') = Len(queued) + 1 /\ queued'[Len(queued) + 1] = pick
        /\ \A n \in 1 .. Len(queued) : queued'[n] = queued[n]
    <3>1. pick \in [client : Client, session : Nat]
      BY <2>1 DEF TypeInv, Stores
    <3> QED
      BY ONLY <2>1, <2>2, <3>1
  <2>5. \A n \in 1 .. Len(queued) + 1 : Owned(queued'[n])
    BY <2>1, <2>3, <2>4 DEF Owners
  <2> QED
    BY <2>1, <2>4, <2>5 DEF Owners, Owned
<1> QED
  BY <1>1, <1>2, <1>3, PickedQueued

-------------------------------------------------------------------------------
(* A client connects once the one before is gone, and its connections are   *)
(* served in that order: what is written to it goes to the last of those    *)
(* that anything was written to.                                            *)
Started(i) == conn[i].client # "none"
HasBody(i) == conn[i].down # <<>>
Turns ==
  /\ \A i, j \in ConnId : i[1] = j[1] /\ i[2] < j[2] /\ Started(j) => Gone(i)
  /\ \A i \in ConnId : HasBody(i) => Started(i)
  /\ \A n \in 1 .. Len(backlog) :
       /\ Started(backlog[n])
       /\ \A m \in 1 .. n - 1 : backlog[m][1] = backlog[n][1] => backlog[m][2] < backlog[n][2]
       /\ \A i \in ConnId : i[1] = backlog[n][1] /\ HasBody(i) => i[2] < backlog[n][2]
  /\ Busy =>
       /\ Started(serving.conn)
       /\ \A i \in ConnId : i[1] = Peer /\ HasBody(i) => i[2] <= serving.conn[2]
       /\ \A n \in 1 .. Len(backlog) : backlog[n][1] = Peer => serving.conn[2] < backlog[n][2]

(* A step of the serving thread, but Accept, is about its connection.       *)
OnlyServed ==
  /\ Busy /\ Table' /\ UNCHANGED <<backlog, pick, queued>>
  /\ Busy' => serving'.conn = serving.conn
  /\ \A j \in ConnId : /\ conn'[j].client = conn[j].client
                       /\ j # serving.conn => conn'[j].down = conn[j].down
Adds(b) == conn'[serving.conn].down = Append(conn[serving.conn].down, b)
Adding ==
  \/ ~Send /\ conn'[serving.conn].down = conn[serving.conn].down
  \/ ~Send /\ loop = "receive" /\ loop' = "receive" /\ Adds(<<Answer>>)
  \/ Send /\ Adds(Body(Replies))

LEMMA HandledServes ==
  ASSUME NEW d, NEW n, Handled(d, n)
  PROVE  /\ Table' /\ conn'[serving.conn].down = d
         /\ \A j \in ConnId : /\ conn'[j].client = conn[j].client
                              /\ j # serving.conn => conn'[j].down = conn[j].down
BY DEF Handled, Touched

LEMMA ClosedServes ==
  ASSUME TypeInv, Busy, NEW next \in {"accept", "ended"}, Closed(next), loop # "send" \/ ~Send,
         UNCHANGED <<backlog, pick, queued>>
  PROVE  OnlyServed /\ Adding
<1>1. Handled(conn[serving.conn].down, 0)
  BY Serves, ClosedTable
<1>2. ~Busy'
  BY DEF Closed, Busy
<1>3. ~Send
  BY DEF Send
<1> QED
  BY <1>1, <1>2, <1>3, HandledServes DEF OnlyServed, Adding

LEMMA ServedOnly ==
  ASSUME SessionsAssumption, TypeInv, ServerStep, ~Accept
  PROVE  OnlyServed /\ Adding
<1>1. CASE ReceiveEnd
  BY <1>1, ClosedServes DEF ReceiveEnd, Busy, queueVars
<1>2. CASE ConnectionReset
  <2>1. ~Send
    BY <1>2 DEF ConnectionReset, Closed, Send
  <2> QED
    BY <1>2, <2>1, ClosedServes DEF ConnectionReset, Busy, queueVars
<1>3. CASE ReceiveProbe
  <2>1. /\ Busy /\ Up # <<>> /\ loop = "receive" /\ ~Send
        /\ UNCHANGED <<backlog, pick, queued>>
    BY <1>3 DEF ReceiveProbe, Busy, queueVars, Send
  <2>2. CASE Closed("accept")
    BY <2>1, <2>2, ClosedServes
  <2>3. CASE Answers(<<Answer>>) /\ UNCHANGED <<loop, serving>>
    <3>1. \/ Handled(conn[serving.conn].down, 1)
          \/ Handled(Append(conn[serving.conn].down, <<Answer>>), 1)
      BY <2>1, <2>3, Serves, AnswersTable
    <3> QED
      BY <2>1, <2>3, <3>1, HandledServes DEF OnlyServed, Adding, Adds
  <2> QED
    BY <1>3, <2>2, <2>3 DEF ReceiveProbe
<1>4. CASE ReceiveMessage \/ ReceiveForeign
  <2>1. /\ Busy /\ Up # <<>> /\ loop = "receive" /\ ~Send
        /\ UNCHANGED <<backlog, pick, queued>>
        /\ conn' = [conn EXCEPT ![serving.conn].up = Tail(@)]
    BY <1>4 DEF ReceiveMessage, ReceiveForeign, Busy, queueVars, Send
  <2>2. Handled(conn[serving.conn].down, 1)
    BY <2>1, Serves, ReadTable
  <2>3. serving'.conn = serving.conn
    <3>1. serving = [conn |-> serving.conn, key |-> serving.key,
                     session |-> serving.session, message |-> serving.message]
      BY <2>1, Serves
    <3>2. \/ serving' = [serving EXCEPT !.message = Frame.text]
          \/ serving' = [serving EXCEPT !.key = Peer, !.session = sessions'[Peer],
                                        !.message = Frame.text]
      BY <1>4 DEF ReceiveMessage, ReceiveForeign
    <3> QED
      BY <3>1, <3>2
  <2> QED
    BY <2>1, <2>2, <2>3, HandledServes DEF OnlyServed, Adding
<1>5. CASE ReceiveClose
  BY <1>5, ClosedServes DEF ReceiveClose, Busy, queueVars
<1>6. CASE SendRaises
  BY <1>6, ClosedServes DEF SendRaises, Busy, queueVars
<1>7. CASE DrainCopies \/ DrainClears
  <2>1. /\ Busy /\ ~Send /\ UNCHANGED <<conn, serving, backlog, pick, queued>>
    BY <1>7 DEF DrainCopies, DrainClears, Busy, queueVars, Send
  <2>2. Table'
    BY <2>1 DEF TypeInv, Stores, Table
  <2> QED
    BY <2>1, <2>2 DEF OnlyServed, Adding
<1>8. CASE SendTooLong
  <2>1. ~Send
    BY <1>8 DEF SendTooLong, Send
  <2> QED
    BY <1>8, <2>1, ClosedServes DEF SendTooLong, Busy, queueVars
<1>9. CASE Send
  <2>1. /\ Busy /\ UNCHANGED <<backlog, pick, queued>>
        /\ Handled(Append(conn[serving.conn].down, Body(Replies)), 0)
        /\ Busy' => serving'.conn = serving.conn
    <3>1. loop' = "accept" => ~Busy'
      BY DEF Busy
    <3> QED
      BY <1>9, <3>1, SendHandles
  <2> QED
    BY <1>9, <2>1, HandledServes DEF OnlyServed, Adding, Adds
<1> QED
  BY <1>1, <1>2, <1>3, <1>4, <1>5, <1>6, <1>7, <1>8, <1>9 DEF ServerStep

(* Nothing is written and nobody connects.                                  *)
LEMMA TurnsSame ==
  ASSUME TypeInv, Turns, UNCHANGED <<backlog, serving, loop>>,
         \A i \in ConnId : /\ HasBody(i)' = HasBody(i) /\ Started(i)' = Started(i)
                           /\ Gone(i) => Gone(i)'
  PROVE  Turns'
<1>1. Busy' = Busy /\ Peer' = Peer
  BY DEF Busy, Peer
<1>2. backlog \in Seq(ConnId) /\ (Busy => serving.conn \in ConnId)
  BY Serves DEF TypeInv, Stores
<1>3. \A i \in ConnId : /\ HasBody(i)' <=> HasBody(i)
                        /\ Started(i)' <=> Started(i)
                        /\ Gone(i) => Gone(i)'
  OBVIOUS
<1>4. \A n \in 1 .. Len(backlog) : backlog'[n] = backlog[n] /\ backlog[n] \in ConnId
  BY <1>2
<1>5. \A i, j \in ConnId : i[1] = j[1] /\ i[2] < j[2] /\ Started(j)' => Gone(i)'
  BY <1>3 DEF Turns
<1>6. \A i \in ConnId : HasBody(i)' => Started(i)'
  BY <1>3 DEF Turns
<1>7. \A n \in 1 .. Len(backlog) :
       /\ Started(backlog[n])'
       /\ \A m \in 1 .. n - 1 : backlog[m][1] = backlog[n][1] => backlog[m][2] < backlog[n][2]
       /\ \A i \in ConnId : i[1] = backlog[n][1] /\ HasBody(i)' => i[2] < backlog[n][2]
  <2> TAKE n \in 1 .. Len(backlog)
  <2>1. PICK j \in ConnId : j = backlog[n]
    BY <1>4
  <2>2. Started(j)'
    BY <1>3, <2>1 DEF Turns
  <2>3. Started(backlog[n])'
    BY <1>4, <2>1, <2>2 DEF Started
  <2>4. /\ \A m \in 1 .. n - 1 : backlog[m][1] = backlog[n][1] => backlog[m][2] < backlog[n][2]
        /\ \A i \in ConnId : i[1] = backlog[n][1] /\ HasBody(i)' => i[2] < backlog[n][2]
    BY <1>3 DEF Turns
  <2> QED
    BY <2>3, <2>4
<1>8. Busy =>
       /\ Started(serving.conn)'
       /\ \A i \in ConnId : i[1] = Peer /\ HasBody(i)' => i[2] <= serving.conn[2]
       /\ \A n \in 1 .. Len(backlog) : backlog[n][1] = Peer => serving.conn[2] < backlog[n][2]
  <2> HAVE Busy
  <2>1. PICK j \in ConnId : j = serving.conn
    BY <1>2
  <2>2. Started(j)'
    BY <1>3, <2>1 DEF Turns
  <2>3. Started(serving.conn)'
    BY <2>1, <2>2 DEF Started
  <2>4. /\ \A i \in ConnId : i[1] = Peer /\ HasBody(i)' => i[2] <= serving.conn[2]
        /\ \A n \in 1 .. Len(backlog) : backlog[n][1] = Peer => serving.conn[2] < backlog[n][2]
    BY <1>3 DEF Turns
  <2> QED
    BY <2>3, <2>4
<1> QED
  BY <1>1, <1>5, <1>6, <1>7, <1>8 DEF Turns

LEMMA TurnsServed ==
  ASSUME SessionsAssumption, TypeInv, Turns, OnlyServed
  PROVE  Turns'
<1>1. backlog \in Seq(ConnId) /\ serving.conn \in ConnId /\ backlog' = backlog
  BY Serves DEF TypeInv, Stores, OnlyServed
<1>2. Busy' => serving'.conn = serving.conn /\ Peer' = Peer
  BY DEF OnlyServed, Peer
<1>3. \A i \in ConnId : /\ Started(i)' <=> Started(i)
                        /\ Gone(i)' <=> Gone(i)
                        /\ i # serving.conn => (HasBody(i)' <=> HasBody(i))
  BY DEF OnlyServed, Started, Gone, HasBody
<1>4. Started(serving.conn) /\ Busy
  BY DEF OnlyServed, Turns
<1>5. \A i, j \in ConnId : i[1] = j[1] /\ i[2] < j[2] /\ Started(j)' => Gone(i)'
  BY <1>3 DEF Turns
<1>6. \A i \in ConnId : HasBody(i)' => Started(i)'
  BY <1>1, <1>3, <1>4 DEF Turns
<1>7. \A n \in 1 .. Len(backlog) :
       /\ Started(backlog[n])'
       /\ \A m \in 1 .. n - 1 : backlog[m][1] = backlog[n][1] => backlog[m][2] < backlog[n][2]
       /\ \A i \in ConnId : i[1] = backlog[n][1] /\ HasBody(i)' => i[2] < backlog[n][2]
  <2> TAKE n \in 1 .. Len(backlog)
  <2>1. PICK j \in ConnId : j = backlog[n]
    BY <1>1
  <2>2. Started(j)'
    BY <1>3, <2>1 DEF Turns
  <2>3. Started(backlog[n])'
    BY <1>1, <2>1, <2>2 DEF Started
  <2>4. \A m \in 1 .. n - 1 : backlog[m][1] = backlog[n][1] => backlog[m][2] < backlog[n][2]
    BY DEF Turns
  <2>5. ASSUME NEW i \in ConnId, i[1] = backlog[n][1], HasBody(i)' PROVE i[2] < backlog[n][2]
    <3>1. CASE i = serving.conn
      BY <1>4, <2>5, <3>1 DEF Turns, Peer
    <3>2. CASE i # serving.conn
      BY <1>3, <2>5, <3>2 DEF Turns
    <3> QED
      BY <3>1, <3>2
  <2> QED
    BY <2>3, <2>4, <2>5
<1>8. ASSUME Busy'
      PROVE  /\ Started(serving.conn)'
             /\ \A i \in ConnId : i[1] = Peer /\ HasBody(i)' => i[2] <= serving.conn[2]
             /\ \A n \in 1 .. Len(backlog) : backlog[n][1] = Peer => serving.conn[2] < backlog[n][2]
  <2>1. PICK j \in ConnId : j = serving.conn
    BY <1>1
  <2>2. Started(j)'
    BY <1>3, <1>4, <2>1
  <2>3. Started(serving.conn)'
    BY <1>2, <1>8, <2>1, <2>2 DEF Started
  <2>4. \A n \in 1 .. Len(backlog) : backlog[n][1] = Peer => serving.conn[2] < backlog[n][2]
    BY <1>4 DEF Turns
  <2>5. ASSUME NEW i \in ConnId, i[1] = Peer, HasBody(i)' PROVE i[2] <= serving.conn[2]
    <3>1. CASE i = serving.conn
      BY <1>1, <3>1, Bounds DEF ConnId
    <3>2. CASE i # serving.conn
      BY <1>3, <1>4, <2>5, <3>2 DEF Turns
    <3> QED
      BY <3>1, <3>2
  <2> QED
    BY <2>3, <2>4, <2>5
<1> QED
  BY <1>1, <1>2, <1>5, <1>6, <1>7, <1>8 DEF Turns

LEMMA TurnsAccept ==
  ASSUME SessionsAssumption, TypeInv, Turns, Accept
  PROVE  Turns'
<1>1. /\ backlog \in Seq(ConnId) /\ backlog # <<>> /\ backlog' = Tail(backlog)
      /\ conn' = conn /\ serving'.conn = Head(backlog)
  BY DEF TypeInv, Stores, Accept, Idle
<1>2. PICK b \in ConnId : b = backlog[1]
  BY <1>1
<1>3. /\ serving'.conn = b /\ Peer' = b[1]
  BY <1>1, <1>2 DEF Peer
<1>4. \A n \in 1 .. Len(backlog') : n + 1 \in 1 .. Len(backlog) /\ backlog'[n] = backlog[n + 1]
  BY <1>1
<1>5. \A i, j \in ConnId : i[1] = j[1] /\ i[2] < j[2] /\ Started(j)' => Gone(i)'
  BY <1>1 DEF Turns, Started, Gone
<1>6. \A i \in ConnId : HasBody(i)' => Started(i)'
  BY <1>1 DEF Turns, Started, HasBody
<1>7. \A n \in 1 .. Len(backlog') :
       /\ conn[backlog'[n]].client # "none"
       /\ \A m \in 1 .. n - 1 : backlog'[m][1] = backlog'[n][1] => backlog'[m][2] < backlog'[n][2]
       /\ \A i \in ConnId : i[1] = backlog'[n][1] /\ conn[i].down # <<>> => i[2] < backlog'[n][2]
  <2> TAKE n \in 1 .. Len(backlog')
  <2>0. Len(backlog') \in Nat
    BY <1>1
  <2>1. PICK l \in 1 .. Len(backlog) : l = n + 1 /\ backlog'[n] = backlog[l]
    BY <1>4
  <2>2. conn[backlog[l]].client # "none"
    BY DEF Turns, Started
  <2>3. \A i \in ConnId : i[1] = backlog[l][1] /\ conn[i].down # <<>> => i[2] < backlog[l][2]
    BY DEF Turns, HasBody
  <2>4. ASSUME NEW m \in 1 .. n - 1, backlog'[m][1] = backlog'[n][1]
        PROVE  backlog'[m][2] < backlog'[n][2]
    <3>1. m \in 1 .. Len(backlog') /\ m + 1 \in 1 .. l - 1
      BY <2>0, <2>1
    <3>2. backlog'[m] = backlog[m + 1]
      BY <1>4, <3>1
    <3> QED
      BY <2>1, <2>4, <3>1, <3>2 DEF Turns
  <2> QED
    BY <2>1, <2>2, <2>3, <2>4
<1>8. /\ conn[b].client # "none"
      /\ \A i \in ConnId : i[1] = b[1] /\ conn[i].down # <<>> => i[2] <= b[2]
      /\ \A n \in 1 .. Len(backlog') : backlog'[n][1] = b[1] => b[2] < backlog'[n][2]
  <2>1. 1 \in 1 .. Len(backlog)
    BY <1>1
  <2>2. conn[b].client # "none"
    BY <1>2, <2>1 DEF Turns, Started
  <2>3. \A i \in ConnId : i[1] = b[1] /\ conn[i].down # <<>> => i[2] < b[2]
    BY <1>2, <2>1 DEF Turns, HasBody
  <2>4. \A i \in ConnId : i[2] \in Nat
    BY Bounds DEF ConnId
  <2>5. ASSUME NEW n \in 1 .. Len(backlog'), backlog'[n][1] = b[1] PROVE b[2] < backlog'[n][2]
    <3>1. PICK l \in 1 .. Len(backlog) : l = n + 1 /\ backlog'[n] = backlog[l]
      BY <1>4
    <3>2. 1 \in 1 .. l - 1
      BY <1>1, <3>1
    <3> QED
      BY <1>2, <2>5, <3>1, <3>2 DEF Turns
  <2> QED
    BY <2>2, <2>3, <2>4, <2>5
<1> QED
  BY <1>1, <1>3, <1>5, <1>6, <1>7, <1>8 DEF Turns, Started, HasBody

LEMMA TurnsConnects ==
  ASSUME SessionsAssumption, TypeInv, Turns, NEW i \in ConnId, ClientConnects(i)
  PROVE  Turns'
<1>1. Table /\ Moved(i, conn[i].up, conn[i].sent, "open")
  BY ConnectsTable DEF TypeInv, Stores
<1>2. /\ \A j \in ConnId : j # i => conn'[j] = conn[j]
      /\ conn'[i].client = "open" /\ conn'[i].down = conn[i].down
  BY <1>1 DEF Moved, Touched
<1>3. /\ ~Started(i) /\ \A k \in 1 .. i[2] - 1 : Gone(<<i[1], k>>)
      /\ backlog' = Append(backlog, i) /\ UNCHANGED <<loop, serving>>
  BY DEF ClientConnects, Started
<1>4. /\ Busy' = Busy /\ Peer' = Peer /\ backlog \in Seq(ConnId) /\ Len(backlog) \in Nat
      /\ Busy => serving.conn \in ConnId
  BY <1>3, Serves DEF Busy, Peer, TypeInv, Stores
<1>5. /\ Len(backlog') = Len(backlog) + 1 /\ backlog'[Len(backlog) + 1] = i
      /\ \A n \in 1 .. Len(backlog) : backlog'[n] = backlog[n] /\ backlog[n] \in ConnId
  BY <1>3, <1>4
<1>6. /\ Started(i)' /\ ~Gone(i)'
      /\ \A j \in ConnId : HasBody(j)' <=> HasBody(j)
      /\ \A j \in ConnId : j # i => (Started(j)' <=> Started(j)) /\ (Gone(j)' <=> Gone(j))
  BY <1>2 DEF Started, Gone, HasBody
<1>7. \A j \in ConnId : j[1] = i[1] /\ Started(j) => j[2] < i[2]
  <2> SUFFICES ASSUME NEW j \in ConnId, j[1] = i[1], Started(j) PROVE j[2] < i[2]
    OBVIOUS
  <2>1. i[2] \in Nat /\ j[2] \in Nat /\ i = <<i[1], i[2]>> /\ j = <<j[1], j[2]>>
    BY Bounds DEF ConnId
  <2>2. CASE i[2] = j[2]
    BY <1>3, <2>1, <2>2
  <2>3. CASE i[2] < j[2]
    <3>1. Gone(i)
      BY <2>3 DEF Turns
    <3> QED
      BY <1>3, <3>1 DEF Gone, Started
  <2> QED
    BY <2>1, <2>2, <2>3
<1>8. \A j, k \in ConnId : j[1] = k[1] /\ j[2] < k[2] /\ Started(k)' => Gone(j)'
  <2> SUFFICES ASSUME NEW j \in ConnId, NEW k \in ConnId, j[1] = k[1], j[2] < k[2], Started(k)'
               PROVE  Gone(j)'
    OBVIOUS
  <2>1. i[2] \in Nat /\ j[2] \in Nat /\ k[2] \in Nat /\ j = <<j[1], j[2]>>
        /\ j[2] >= 1 /\ i[2] >= 1
    BY Bounds DEF ConnId
  <2>2. CASE k = i
    <3>1. j[2] \in 1 .. i[2] - 1 /\ j # i
      BY <2>1, <2>2
    <3>2. Gone(j)
      BY <1>3, <2>1, <2>2, <3>1
    <3> QED
      BY <1>6, <3>1, <3>2
  <2>3. CASE k # i
    <3>1. Started(k) /\ Gone(j)
      BY <1>6, <2>3 DEF Turns
    <3>2. j # i
      BY <1>3, <3>1 DEF Gone, Started
    <3> QED
      BY <1>6, <3>1, <3>2
  <2> QED
    BY <2>2, <2>3
<1>9. \A j \in ConnId : HasBody(j)' => Started(j)'
  BY <1>6 DEF Turns
<1>10. ASSUME NEW n \in 1 .. Len(backlog) + 1
       PROVE  /\ Started(backlog[n])'
              /\ \A m \in 1 .. n - 1 :
                   backlog'[m][1] = backlog'[n][1] => backlog'[m][2] < backlog'[n][2]
              /\ \A j \in ConnId : j[1] = backlog'[n][1] /\ HasBody(j)' => j[2] < backlog'[n][2]
  <2>1. CASE n = Len(backlog) + 1
    <3>1. backlog'[n] = i /\ Started(backlog[n])'
      BY <1>5, <1>6, <2>1 DEF Started
    <3>2. \A m \in 1 .. n - 1 : m \in 1 .. Len(backlog) /\ Started(backlog[m])
      BY <1>4, <2>1 DEF Turns
    <3>3. \A m \in 1 .. n - 1 : backlog'[m][1] = backlog'[n][1] => backlog'[m][2] < backlog'[n][2]
      BY <1>5, <1>7, <3>1, <3>2
    <3>4. \A j \in ConnId : j[1] = i[1] /\ HasBody(j)' => j[2] < i[2]
      BY <1>6, <1>7 DEF Turns
    <3> QED
      BY <3>1, <3>3, <3>4
  <2>2. CASE n \in 1 .. Len(backlog)
    <3>1. PICK b \in ConnId : b = backlog[n] /\ b = backlog'[n]
      BY <1>5, <2>2
    <3>2. Started(b)
      BY <2>2, <3>1 DEF Turns
    <3>3. Started(b)'
      BY <1>6, <3>2
    <3>4. Started(backlog[n])'
      BY <3>1, <3>3 DEF Started
    <3>5. \A m \in 1 .. n - 1 : backlog[m][1] = b[1] => backlog[m][2] < b[2]
      BY <2>2, <3>1 DEF Turns
    <3>6. \A m \in 1 .. n - 1 : backlog'[m] = backlog[m]
      BY <1>4, <1>5, <2>2
    <3>7. \A j \in ConnId : j[1] = b[1] /\ HasBody(j)' => j[2] < b[2]
      BY <1>6, <2>2, <3>1 DEF Turns
    <3> QED
      BY <3>1, <3>4, <3>5, <3>6, <3>7
  <2> QED
    BY <1>4, <2>1, <2>2
<1>11. ASSUME Busy
       PROVE  /\ Started(serving.conn)'
              /\ \A j \in ConnId : j[1] = Peer /\ HasBody(j)' => j[2] <= serving.conn[2]
              /\ \A n \in 1 .. Len(backlog) + 1 :
                   backlog'[n][1] = Peer => serving.conn[2] < backlog'[n][2]
  <2>1. PICK j \in ConnId : j = serving.conn /\ Started(j)
    BY <1>4, <1>11 DEF Turns
  <2>2. Started(j)'
    BY <1>6, <2>1
  <2>3. Started(serving.conn)'
    BY <1>3, <2>1, <2>2 DEF Started
  <2>4. \A l \in ConnId : l[1] = Peer /\ HasBody(l)' => l[2] <= serving.conn[2]
    BY <1>6, <1>11 DEF Turns
  <2>5. ASSUME NEW n \in 1 .. Len(backlog) + 1, backlog'[n][1] = Peer
        PROVE  serving.conn[2] < backlog'[n][2]
    <3>1. CASE n = Len(backlog) + 1
      BY <1>5, <1>7, <2>1, <2>5, <3>1 DEF Peer
    <3>2. CASE n \in 1 .. Len(backlog)
      BY <1>5, <1>11, <2>5, <3>2 DEF Turns
    <3> QED
      BY <1>4, <3>1, <3>2
  <2> QED
    BY <2>3, <2>4, <2>5
<1> QED
  BY <1>3, <1>4, <1>5, <1>8, <1>9, <1>10, <1>11 DEF Turns

LEMMA TurnsClient ==
  ASSUME SessionsAssumption, TypeInv, Turns, NEW i \in ConnId,
         \/ ClientLeaves(i) \/ \E k \in Kinds \cup {"message"} : ClientSends(i, k)
  PROVE  Turns'
<1>1. /\ Table /\ conn[i].client = "open" /\ UNCHANGED <<backlog, serving, loop>>
  BY DEF TypeInv, Stores, ClientLeaves, ClientSends, serverVars
<1>2. \E up, sent, client : Moved(i, up, sent, client) /\ client \in {"open", "closed"}
  <2>1. CASE ClientLeaves(i)
    BY <1>1, <2>1, LeavesTable
  <2>2. ASSUME NEW k \in Kinds \cup {"message"}, ClientSends(i, k)
        PROVE  \E up, sent, client : Moved(i, up, sent, client) /\ client \in {"open", "closed"}
    <3>1. k \in Kind
      BY DEF Kind
    <3> QED
      BY <1>1, <2>2, <3>1, SendsTable
  <2> QED
    BY <2>1, <2>2
<1>3. /\ \A j \in ConnId : j # i => conn'[j] = conn[j]
      /\ conn'[i].client \in {"open", "closed"} /\ conn'[i].down = conn[i].down
  BY <1>2 DEF Moved, Touched
<1>4. \A j \in ConnId : /\ HasBody(j)' = HasBody(j) /\ Started(j)' = Started(j)
                        /\ Gone(j) => Gone(j)'
  <2> TAKE j \in ConnId
  <2>1. CASE j = i
    BY <1>1, <1>3, <2>1 DEF HasBody, Started, Gone
  <2>2. CASE j # i
    BY <1>3, <2>2 DEF HasBody, Started, Gone
  <2> QED
    BY <2>1, <2>2
<1> QED
  BY <1>1, <1>4, TurnsSame

LEMMA TurnsStep ==
  ASSUME SessionsAssumption, TypeInv, Turns, [Next]_vars
  PROVE  Turns'
<1>1. ASSUME NEW i \in ConnId,
             \/ ClientConnects(i) \/ ClientLeaves(i)
             \/ \E k \in Kinds \cup {"message"} : ClientSends(i, k)
      PROVE  Turns'
  BY <1>1, TurnsConnects, TurnsClient
<1>2. CASE ServerStep
  BY <1>2, ServedOnly, TurnsServed, TurnsAccept
<1>3. CASE UNCHANGED <<conn, backlog, serving, loop>>
  BY <1>3, TurnsSame DEF HasBody, Started, Gone
<1>4. CASE (\E c \in Client : Pick(c)) \/ QueueReply
  BY <1>3, <1>4 DEF Pick, QueueReply, serverVars
<1>5. CASE UNCHANGED vars
  BY <1>3, <1>5 DEF vars, serverVars
<1> QED
  BY <1>1, <1>2, <1>4, <1>5 DEF Next, Step

-------------------------------------------------------------------------------
(* The order of the queued replies in what is queued and written.           *)
Rising(w) ==
  \A k, l \in 1 .. Len(w) : k < l /\ IsQueued(w[k]) /\ IsQueued(w[l]) => w[k].queued < w[l].queued
Precede(v, w) ==
  \A k \in 1 .. Len(v), l \in 1 .. Len(w) :
    IsQueued(v[k]) /\ IsQueued(w[l]) => v[k].queued < w[l].queued
(* The queued replies of v are those at the same places of w.               *)
Within(v, w) ==
  \A k \in 1 .. Len(v) : IsQueued(v[k]) => k \in 1 .. Len(w) /\ v[k] = w[k]
(* They were queued, by what q says of each, for session s or client c.     *)
OfSession(q, s, w) ==
  \A k \in 1 .. Len(w) : IsQueued(w[k]) =>
    w[k].queued \in 1 .. Len(q) /\ q[w[k].queued].session = s
OfClient(q, c, w) ==
  \A k \in 1 .. Len(w) : IsQueued(w[k]) =>
    w[k].queued \in 1 .. Len(q) /\ q[w[k].queued].client = c

LEMMA NothingQueued ==
  ASSUME NEW v
  PROVE  /\ Rising(<<>>) /\ Precede(v, <<>>) /\ Precede(<<>>, v) /\ Within(<<>>, v)
         /\ \A q, s : OfSession(q, s, <<>>) /\ OfClient(q, s, <<>>)
BY DEF Rising, Precede, Within, OfSession, OfClient

LEMMA WithinItself ==
  ASSUME NEW v
  PROVE  Within(v, v)
BY DEF Within

LEMMA WithinIn ==
  ASSUME NEW v, NEW w, Within(v, w), Len(v) \in Nat, Len(w) \in Nat
  PROVE  /\ Rising(w) => Rising(v)
         /\ \A u : Precede(u, w) => Precede(u, v)
         /\ \A u : Precede(w, u) => Precede(v, u)
         /\ \A q, s : OfSession(q, s, w) => OfSession(q, s, v)
         /\ \A q, s : OfClient(q, s, w) => OfClient(q, s, v)
<1>1. Rising(w) => Rising(v)
  BY DEF Within, Rising
<1>2. \A u : Precede(u, w) => Precede(u, v)
  BY DEF Within, Precede
<1>3. \A u : Precede(w, u) => Precede(v, u)
  BY DEF Within, Precede
<1>4. \A q, s : OfSession(q, s, w) => OfSession(q, s, v)
  BY DEF Within, OfSession
<1>5. \A q, s : OfClient(q, s, w) => OfClient(q, s, v)
  BY DEF Within, OfClient
<1> QED
  BY <1>1, <1>2, <1>3, <1>4, <1>5

LEMMA QueuedText ==
  ASSUME NEW t \in Texts, IsQueued(t)
  PROVE  t \in Waiting
<1>1. \A i, n : ~IsQueued(Message(i, n))
  BY TextKinds
<1>2. ~IsQueued(Answer) /\ ~IsQueued(NoText)
  BY TextKinds DEF IsQueued, NoText
<1>3. CASE t \in {Message(i, n) : i \in ConnId, n \in 1 .. MaxFrames}
  BY <1>1, <1>3
<1>4. CASE t \in Waiting
  BY <1>4
<1> QED
  BY <1>2, <1>3, <1>4 DEF Texts, Waiting

LEMMA WaitingNumber ==
  ASSUME NEW t \in Waiting
  PROVE  t.queued \in 1 .. MaxQueued /\ IsQueued(t) /\ t = Queued(t.queued)
<1>1. PICK n \in 1 .. MaxQueued : t = Queued(n)
  BY DEF Waiting
<1>2. IsQueued(Queued(n)) /\ Queued(n).queued = n
  BY TextKinds
<1> QED
  BY <1>1, <1>2

LEMMA ConcatPlaces ==
  ASSUME NEW E, NEW u \in Seq(E), NEW v \in Seq(E)
  PROVE  /\ u \o v \in Seq(E) /\ Len(u) \in Nat /\ Len(v) \in Nat
         /\ Len(u \o v) = Len(u) + Len(v)
         /\ \A k \in 1 .. Len(u \o v) :
              (u \o v)[k] = IF k \in 1 .. Len(u) THEN u[k] ELSE v[k - Len(u)]
         /\ \A k \in 1 .. Len(u \o v) : k \notin 1 .. Len(u) => k - Len(u) \in 1 .. Len(v)
BY SMTT(30)

LEMMA ConcatLine ==
  ASSUME NEW u \in Seq(Texts), NEW v \in Seq(Texts), Rising(u), Rising(v), Precede(u, v)
  PROVE  Rising(u \o v)
<1>1. PICK m, n \in Nat : m = Len(u) /\ n = Len(v)
  BY LenProperties
<1>2. PICK w \in Seq(Texts) : w = u \o v
  BY ConcatPlaces
<1>3. /\ Len(w) = m + n
      /\ \A k \in 1 .. m : w[k] = u[k]
      /\ \A k \in 1 .. m + n : k \notin 1 .. m => w[k] = v[k - m] /\ k - m \in 1 .. n
  <2>1. /\ Len(u \o v) = Len(u) + Len(v)
        /\ \A k \in 1 .. Len(u \o v) :
              (u \o v)[k] = IF k \in 1 .. Len(u) THEN u[k] ELSE v[k - Len(u)]
        /\ \A k \in 1 .. Len(u \o v) : k \notin 1 .. Len(u) => k - Len(u) \in 1 .. Len(v)
    BY ConcatPlaces
  <2>2. \A k \in 1 .. m : k \in 1 .. m + n
    BY <1>1
  <2> QED
    BY ONLY <1>1, <1>2, <2>1, <2>2
<1>4. ASSUME NEW k \in 1 .. m + n, NEW l \in 1 .. m + n, k < l, IsQueued(w[k]), IsQueued(w[l])
      PROVE  w[k].queued < w[l].queued
  <2>1. CASE k \in 1 .. m /\ l \in 1 .. m
    BY <1>1, <1>3, <1>4, <2>1 DEF Rising
  <2>2. CASE k \in 1 .. m /\ l \notin 1 .. m
    BY <1>1, <1>3, <1>4, <2>2 DEF Precede
  <2>3. CASE k \notin 1 .. m
    <3>1. l \notin 1 .. m /\ k - m < l - m
      BY <1>4, <2>3
    <3>2. /\ k - m \in 1 .. n /\ w[k] = v[k - m]
          /\ l - m \in 1 .. n /\ w[l] = v[l - m]
      BY <1>3, <2>3, <3>1
    <3> QED
      BY <1>1, <1>4, <3>1, <3>2 DEF Rising
  <2> QED
    BY <2>1, <2>2, <2>3
<1> QED
  BY <1>2, <1>3, <1>4 DEF Rising

LEMMA ConcatOf ==
  ASSUME NEW u \in Seq(Texts), NEW v \in Seq(Texts)
  PROVE  /\ \A w : Precede(u, w) /\ Precede(v, w) => Precede(u \o v, w)
         /\ \A q, c : OfClient(q, c, u) /\ OfClient(q, c, v) => OfClient(q, c, u \o v)
<1>1. /\ \A k \in 1 .. Len(u \o v) :
            (u \o v)[k] = IF k \in 1 .. Len(u) THEN u[k] ELSE v[k - Len(u)]
      /\ \A k \in 1 .. Len(u \o v) : k \notin 1 .. Len(u) => k - Len(u) \in 1 .. Len(v)
  BY ConcatPlaces
<1>2. PICK w : w = u \o v
  OBVIOUS
<1>3. \A k \in 1 .. Len(w) : \/ k \in 1 .. Len(u) /\ w[k] = u[k]
                             \/ \E l \in 1 .. Len(v) : w[k] = v[l]
  BY <1>1, <1>2
<1>4. \A x : Precede(u, x) /\ Precede(v, x) => Precede(w, x)
  BY <1>3 DEF Precede
<1>5. \A q, c : OfClient(q, c, u) /\ OfClient(q, c, v) => OfClient(q, c, w)
  BY <1>3 DEF OfClient
<1> QED
  BY <1>2, <1>4, <1>5

(* The body of a reply has the copied ones it has room for at their places. *)
LEMMA BodyWithin ==
  ASSUME NEW i \in ConnId, serving.message \in Mine(i), hand \in Seq(Waiting)
  PROVE  Within(Body(Replies), hand)
<1>1. PICK n \in Nat : n = Len(hand)
  OBVIOUS
<1>2. ~IsQueued(serving.message)
  BY TextKinds DEF Mine
<1>3. PICK r : r = Replies
  OBVIOUS
<1>4. Len(r) = n + 1 /\ r[n + 1] = serving.message /\ \A k \in 1 .. n : r[k] = hand[k]
  BY <1>1, <1>3 DEF Replies
<1>5. \A k \in 1 .. n + 1 : IsQueued(r[k]) => k \in 1 .. n /\ r[k] = hand[k]
  BY <1>2, <1>4
<1>6. Within(r, hand)
  BY <1>1, <1>4, <1>5 DEF Within
<1>7. Within(<<r[1]>>, hand)
  BY <1>1, <1>5 DEF Within
<1> QED
  BY <1>3, <1>6, <1>7 DEF Body

LEMMA BodyTexts ==
  ASSUME TypeInv, Send
  PROVE  /\ Body(Replies) \in Seq(Texts) /\ Within(Body(Replies), hand) /\ loop = "send"
         /\ Peer \in Client /\ loop' \in {"receive", "accept"} /\ hand' = <<>>
<1>1. /\ Busy /\ serving.message \in Mine(serving.conn) /\ loop' \in {"receive", "accept"}
      /\ Body(Replies) \in Seq(Writable(serving.conn)) /\ hand' = <<>>
  BY SendHandles
<1>2. serving.conn \in ConnId /\ Peer \in Client
  BY <1>1, Serves
<1>3. Body(Replies) \in Seq(Texts)
  BY <1>1, <1>2, WritableTexts, SeqGrows
<1>4. hand \in Seq(Waiting)
  BY DEF TypeInv, Stores
<1>5. Within(Body(Replies), hand)
  BY <1>1, <1>2, <1>4, BodyWithin
<1>6. loop = "send"
  BY DEF Send
<1> QED
  BY <1>1, <1>2, <1>3, <1>5, <1>6

(* What a step writes to client c.                                          *)
AddsTo(c) ==
  \/ Written(c)' = Written(c) /\ ~(Send /\ c = Peer)
  \/ /\ c = Peer /\ ~Send /\ loop = "receive" /\ loop' = "receive"
     /\ Written(c)' = Written(c) \o <<Answer>>
  \/ c = Peer /\ Send /\ Written(c)' = Written(c) \o Body(Replies)

LEMMA ServedWrites ==
  ASSUME SessionsAssumption, TypeInv, Turns, OnlyServed, Adding, NEW c \in Client
  PROVE  AddsTo(c)
<1>1. /\ Table /\ Table' /\ Busy /\ serving.conn \in ConnId /\ Peer = serving.conn[1]
      /\ \A j \in ConnId : j # serving.conn => conn'[j].down = conn[j].down
  BY Serves DEF OnlyServed, Peer
<1>2. PICK d \in Client, n \in 1 .. MaxConns : serving.conn = <<d, n>>
  BY <1>1 DEF ConnId
<1>3. Peer = d /\ \A e \in Client, k \in 1 .. MaxConns : <<e, k>> \in ConnId
  BY <1>1, <1>2 DEF ConnId
<1>4. CASE c # Peer
  <2>1. \A k \in 1 .. MaxConns : conn'[<<c, k>>].down = conn[<<c, k>>].down
    BY <1>1, <1>2, <1>3, <1>4
  <2> QED
    BY <1>4, <2>1, WrittenSame DEF AddsTo
<1>5. CASE c = Peer /\ conn'[serving.conn].down = conn[serving.conn].down /\ ~Send
  <2>1. \A k \in 1 .. MaxConns : conn'[<<c, k>>].down = conn[<<c, k>>].down
    BY <1>1, <1>2, <1>3, <1>5
  <2> QED
    BY <1>5, <2>1, WrittenSame DEF AddsTo
<1>6. ASSUME c = Peer, NEW b \in Seq(Texts), Adds(b)
      PROVE  Written(c)' = Written(c) \o b
  <2>1. /\ conn'[<<c, n>>].down = Append(conn[<<c, n>>].down, b)
        /\ \A l \in 1 .. MaxConns : l # n => conn'[<<c, l>>].down = conn[<<c, l>>].down
    BY <1>1, <1>2, <1>3, <1>6 DEF Adds
  <2>2. ASSUME NEW l \in 1 .. MaxConns, l > n PROVE conn[<<c, l>>].down = <<>>
    <3>1. PICK i \in ConnId : i = <<c, l>>
      BY <1>3
    <3>2. ~(i[2] <= serving.conn[2]) /\ i[1] = Peer
      BY <1>2, <1>6, <2>2, <3>1, Bounds
    <3>3. ~HasBody(i)
      BY <1>1, <3>2 DEF Turns
    <3> QED
      BY <3>1, <3>3 DEF HasBody
  <2> QED
    BY <1>1, <2>1, <2>2, WrittenGrows
<1>7. CASE c = Peer /\ ~Send /\ loop = "receive" /\ loop' = "receive" /\ Adds(<<Answer>>)
  <2>1. <<Answer>> \in Seq(Texts)
    BY DEF Texts
  <2> QED
    BY <1>6, <1>7, <2>1 DEF AddsTo
<1>8. CASE c = Peer /\ Send /\ Adds(Body(Replies))
  BY <1>6, <1>8, BodyTexts DEF AddsTo
<1> QED
  BY <1>4, <1>5, <1>7, <1>8 DEF Adding

(* Nobody else writes.                                                      *)
LEMMA ClientsDown ==
  ASSUME SessionsAssumption, TypeInv, [Next]_vars, ~ServerStep
  PROVE  \A i \in ConnId : conn'[i].down = conn[i].down
<1>1. ASSUME NEW i \in ConnId,
             \/ ClientConnects(i) \/ ClientLeaves(i)
             \/ \E k \in Kinds \cup {"message"} : ClientSends(i, k)
      PROVE  \A j \in ConnId : conn'[j].down = conn[j].down
  <2>1. Table
    BY DEF TypeInv, Stores
  <2>2. \E up, sent, client : Moved(i, up, sent, client)
    <3>1. \A k \in Kinds \cup {"message"} : k \in Kind
      BY DEF Kind
    <3> QED
      BY <1>1, <2>1, <3>1, ConnectsTable, LeavesTable, SendsTable
  <2> QED
    BY <2>2 DEF Moved, Touched
<1> QED
  BY <1>1 DEF Next, Step, Pick, QueueReply, vars

LEMMA WrittenMoves ==
  ASSUME SessionsAssumption, TypeInv, Turns, [Next]_vars, NEW c \in Client
  PROVE  AddsTo(c)
<1>1. CASE ServerStep /\ ~Accept
  BY <1>1, ServedOnly, ServedWrites
<1>2. ASSUME ~Send, \A i \in ConnId : conn'[i].down = conn[i].down PROVE AddsTo(c)
  <2>1. \A k \in 1 .. MaxConns : <<c, k>> \in ConnId
    BY DEF ConnId
  <2> QED
    BY <1>2, <2>1, WrittenSame DEF AddsTo
<1>3. CASE Accept
  BY <1>2, <1>3 DEF Accept, Send
<1>4. CASE ~ServerStep
  <2>1. ~Send
    BY <1>4 DEF ServerStep
  <2>2. \A i \in ConnId : conn'[i].down = conn[i].down
    BY <1>4, ClientsDown
  <2> QED
    BY <1>2, <2>1, <2>2
<1> QED
  BY <1>1, <1>3, <1>4

-------------------------------------------------------------------------------
(* The replies queued for a session wait in the order they were queued, go  *)
(* through the hand of the serving thread in that order, and what has been  *)
(* written to the client of the session was queued before.                  *)
OutboxLine == \A s \in SessionId : OfSession(queued, s, outbox[s]) /\ Rising(outbox[s])
HandLine ==
  /\ loop = "drain" => Within(hand, outbox[serving.session])
  /\ loop = "send" =>
       /\ OfSession(queued, serving.session, hand) /\ Rising(hand)
       /\ Precede(hand, outbox[serving.session]) /\ Precede(Written(Peer), hand)
WrittenLine ==
  \A c \in Client :
    /\ OfClient(queued, c, Written(c)) /\ Rising(Written(c))
    /\ sessions[c] # NoSession => Precede(Written(c), outbox[sessions[c]])
InLine == OutboxLine /\ HandLine /\ WrittenLine

Below(n, w) == \A k \in 1 .. Len(w) : IsQueued(w[k]) => w[k].queued \in 1 .. n

LEMMA BelowOf ==
  ASSUME NEW q, NEW w, NEW s
  PROVE  /\ OfSession(q, s, w) => Below(Len(q), w)
         /\ OfClient(q, s, w) => Below(Len(q), w)
BY DEF Below, OfSession, OfClient

LEMMA OfMore ==
  ASSUME NEW E, NEW q \in Seq(E), NEW e \in E, NEW s, NEW w
  PROVE  /\ OfSession(q, s, w) => OfSession(Append(q, e), s, w)
         /\ OfClient(q, s, w) => OfClient(Append(q, e), s, w)
<1>1. PICK n \in Nat : n = Len(q)
  OBVIOUS
<1>2. PICK r : r = Append(q, e)
  OBVIOUS
<1>3. Len(r) = n + 1 /\ \A k \in 1 .. n : r[k] = q[k] /\ k \in 1 .. n + 1
  BY <1>1, <1>2, Appended
<1>4. OfSession(q, s, w) => OfSession(r, s, w)
  BY <1>1, <1>3 DEF OfSession
<1>5. OfClient(q, s, w) => OfClient(r, s, w)
  BY <1>1, <1>3 DEF OfClient
<1> QED
  BY <1>2, <1>4, <1>5

LEMMA AppendLine ==
  ASSUME NEW w \in Seq(Waiting), NEW n \in Nat, n + 1 \in 1 .. MaxQueued, Below(n, w)
  PROVE  /\ Rising(w) => Rising(Append(w, Queued(n + 1)))
         /\ \A v : Below(n, v) /\ Precede(v, w) => Precede(v, Append(w, Queued(n + 1)))
         /\ \A v : Within(v, w) => Within(v, Append(w, Queued(n + 1)))
         /\ \A q, s : OfSession(q, s, w) /\ n + 1 \in 1 .. Len(q) /\ q[n + 1].session = s
                        => OfSession(q, s, Append(w, Queued(n + 1)))
<1>1. PICK m \in Nat : m = Len(w)
  OBVIOUS
<1>2. PICK t \in Waiting : t = Queued(n + 1) /\ t.queued = n + 1 /\ IsQueued(t)
  BY TextKinds DEF Waiting
<1>3. PICK x : x = Append(w, t)
  OBVIOUS
<1>4. /\ Len(x) = m + 1 /\ x[m + 1] = t
      /\ \A k \in 1 .. m : x[k] = w[k]
  BY <1>1, <1>3, Appended
<1>5. \A k \in 1 .. m : w[k].queued \in 1 .. n /\ IsQueued(w[k])
  <2> TAKE k \in 1 .. m
  <2>1. IsQueued(w[k])
    BY <1>1, WaitingNumber
  <2> QED
    BY <1>1, <2>1 DEF Below
<1>6. Rising(w) => Rising(x)
  <2> HAVE Rising(w)
  <2>1. ASSUME NEW k \in 1 .. m + 1, NEW l \in 1 .. m + 1, k < l
        PROVE  x[k].queued < x[l].queued
    <3>1. k \in 1 .. m
      BY <2>1
    <3>2. CASE l = m + 1
      BY <1>2, <1>4, <1>5, <3>1, <3>2
    <3>3. CASE l \in 1 .. m
      BY <1>1, <1>4, <1>5, <2>1, <3>1, <3>3 DEF Rising
    <3> QED
      BY <3>2, <3>3
  <2> QED
    BY <1>4, <2>1 DEF Rising
<1>7. \A v : Below(n, v) /\ Precede(v, w) => Precede(v, x)
  <2> SUFFICES ASSUME NEW v, Below(n, v), Precede(v, w) PROVE Precede(v, x)
    OBVIOUS
  <2>1. ASSUME NEW k \in 1 .. Len(v), NEW l \in 1 .. m + 1, IsQueued(v[k])
        PROVE  v[k].queued < x[l].queued
    <3>1. v[k].queued \in 1 .. n
      BY <2>1 DEF Below
    <3>2. CASE l = m + 1
      BY <1>2, <1>4, <3>1, <3>2
    <3>3. CASE l \in 1 .. m
      BY <1>1, <1>4, <1>5, <2>1, <3>3 DEF Precede
    <3> QED
      BY <3>2, <3>3
  <2> QED
    BY <1>4, <2>1 DEF Precede
<1>8. \A v : Within(v, w) => Within(v, x)
  BY <1>1, <1>4 DEF Within
<1>9. \A q, s : OfSession(q, s, w) /\ n + 1 \in 1 .. Len(q) /\ q[n + 1].session = s
                  => OfSession(q, s, x)
  <2> SUFFICES ASSUME NEW q, NEW s, OfSession(q, s, w), n + 1 \in 1 .. Len(q),
                      q[n + 1].session = s
               PROVE  OfSession(q, s, x)
    OBVIOUS
  <2>1. ASSUME NEW k \in 1 .. m + 1
        PROVE  x[k].queued \in 1 .. Len(q) /\ q[x[k].queued].session = s
    <3>1. CASE k = m + 1
      BY <1>2, <1>4, <3>1
    <3>2. CASE k \in 1 .. m
      BY <1>1, <1>4, <1>5, <3>2 DEF OfSession
    <3> QED
      BY <3>1, <3>2
  <2> QED
    BY <1>4, <2>1 DEF OfSession
<1> QED
  BY <1>2, <1>3, <1>6, <1>7, <1>8, <1>9

(* What is in the outbox of a session no reply is of.                       *)
LEMMA NewEmpty ==
  ASSUME SessionsAssumption, TypeInv, Owners, OutboxLine, nextSid \in SessionId
  PROVE  outbox[nextSid] = <<>>
<1>1. PICK w \in Seq(Waiting) : w = outbox[nextSid]
  BY DEF TypeInv, Stores
<1>2. nextSid \in Nat
  BY DEF TypeInv, Stores
<1>3. OfSession(queued, nextSid, w)
  BY <1>1 DEF OutboxLine
<1>4. ASSUME NEW k \in 1 .. Len(w) PROVE FALSE
  <2>1. IsQueued(w[k])
    BY WaitingNumber
  <2>2. PICK n \in 1 .. Len(queued) : queued[n].session = nextSid
    BY <1>3, <2>1 DEF OfSession
  <2>3. queued[n].session \in 1 .. nextSid - 1
    BY DEF Owners, Owned
  <2> QED
    BY <1>2, <2>2, <2>3
<1>5. w = <<>>
  BY <1>4
<1> QED
  BY <1>1, <1>5

LEMMA LineQueue ==
  ASSUME SessionsAssumption, TypeInv, Owners, InLine, [Next]_vars, Turns, QueueReply
  PROVE  InLine'
<1>1. /\ pick # NoPick /\ queued' = Append(queued, pick)
      /\ outbox' = [outbox EXCEPT ![pick.session] = Append(@, Queued(Len(queued) + 1))]
      /\ UNCHANGED <<conn, backlog, loop, serving, sessions, nextSid, hand>>
  BY DEF QueueReply
<1>2. PICK n \in Nat : n = Len(queued) /\ n + 1 \in 1 .. MaxQueued
  <2>1. Len(queued) \in Nat
    BY DEF TypeInv, Stores
  <2> QED
    BY <1>1, <2>1, PickedType
<1>3. /\ queued \in Seq([client : Client, session : Nat])
      /\ pick \in [client : Client, session : Nat] /\ outbox \in [SessionId -> Seq(Waiting)]
  BY <1>1 DEF TypeInv, Stores
<1>4. /\ Len(queued') = n + 1 /\ queued'[n + 1] = pick
  BY <1>1, <1>2, <1>3, Appended
<1>5. \A s, w : /\ OfSession(queued, s, w) => OfSession(queued', s, w)
                /\ OfClient(queued, s, w) => OfClient(queued', s, w)
  BY <1>1, <1>3, OfMore
<1>6. \A s \in SessionId :
        /\ s # pick.session => outbox'[s] = outbox[s]
        /\ s = pick.session => outbox'[s] = Append(outbox[s], Queued(n + 1))
  BY <1>1, <1>2, <1>3
<1>7. ASSUME NEW s \in SessionId
      PROVE  /\ OfSession(queued', s, outbox'[s]) /\ Rising(outbox'[s])
             /\ \A v : Below(n, v) /\ Precede(v, outbox[s]) => Precede(v, outbox'[s])
             /\ \A v : Within(v, outbox[s]) => Within(v, outbox'[s])
  <2>1. OfSession(queued, s, outbox[s]) /\ Rising(outbox[s])
    BY DEF InLine, OutboxLine
  <2>2. PICK w \in Seq(Waiting) : w = outbox[s]
    BY <1>3
  <2>3. Below(n, w) /\ OfSession(queued', s, w)
    BY <1>2, <1>5, <2>1, <2>2, BelowOf
  <2>4. CASE s # pick.session
    BY <1>6, <2>1, <2>2, <2>3, <2>4
  <2>5. CASE s = pick.session
    <3>1. outbox'[s] = Append(w, Queued(n + 1))
      BY <1>6, <2>2, <2>5
    <3>2. n + 1 \in 1 .. Len(queued') /\ queued'[n + 1].session = s
      BY <1>2, <1>4, <2>5
    <3>3. /\ Rising(w) => Rising(Append(w, Queued(n + 1)))
          /\ \A v : Below(n, v) /\ Precede(v, w) => Precede(v, Append(w, Queued(n + 1)))
          /\ \A v : Within(v, w) => Within(v, Append(w, Queued(n + 1)))
          /\ OfSession(queued', s, w) /\ n + 1 \in 1 .. Len(queued') /\ queued'[n + 1].session = s
               => OfSession(queued', s, Append(w, Queued(n + 1)))
      BY <1>2, <2>3, AppendLine
    <3> QED
      BY <2>1, <2>2, <2>3, <3>1, <3>2, <3>3
  <2> QED
    BY <2>4, <2>5
<1>8. \A c \in Client : Written(c)' = Written(c)
  BY <1>1, WrittenSame
<1>9. Peer' = Peer /\ (loop \in {"drain", "send"} => Peer \in Client /\ serving.session \in SessionId)
  <2>1. loop \in {"drain", "send"} => Busy /\ serving.key # 0
    BY DEF TypeInv, Phase, Busy
  <2>2. loop \in {"drain", "send"} => Peer \in Client /\ serving.session = sessions[Peer]
                                      /\ serving.session # NoSession
    BY <2>1, Serves DEF TypeInv, Phase
  <2> QED
    BY <1>1, <2>2, SessionIds DEF Peer, TypeInv
<1>10. OutboxLine'
  BY <1>7 DEF OutboxLine
<1>11. HandLine'
  <2>1. ASSUME loop = "drain" PROVE Within(hand, outbox'[serving.session])
    BY <1>7, <1>9, <2>1 DEF InLine, HandLine
  <2>2. ASSUME loop = "send"
        PROVE  /\ OfSession(queued', serving.session, hand) /\ Rising(hand)
               /\ Precede(hand, outbox'[serving.session]) /\ Precede(Written(Peer), hand)
    <3>1. /\ OfSession(queued, serving.session, hand) /\ Rising(hand)
          /\ Precede(hand, outbox[serving.session]) /\ Precede(Written(Peer), hand)
      BY <2>2 DEF InLine, HandLine
    <3>2. Below(n, hand)
      BY <1>2, <3>1, BelowOf
    <3> QED
      BY <1>5, <1>7, <1>9, <2>2, <3>1, <3>2
  <2>3. ASSUME loop = "send" PROVE Written(Peer)' = Written(Peer)
    BY <1>1, <1>8, <1>9, <2>3
  <2> QED
    BY <1>1, <2>1, <2>2, <2>3 DEF HandLine
<1>12. WrittenLine'
  <2> SUFFICES ASSUME NEW c \in Client
               PROVE  /\ OfClient(queued', c, Written(c)) /\ Rising(Written(c))
                      /\ sessions[c] # NoSession => Precede(Written(c), outbox'[sessions[c]])
    BY <1>1, <1>8 DEF WrittenLine
  <2>1. /\ OfClient(queued, c, Written(c)) /\ Rising(Written(c))
        /\ sessions[c] # NoSession => Precede(Written(c), outbox[sessions[c]])
    BY DEF InLine, WrittenLine
  <2>2. Below(n, Written(c)) /\ OfClient(queued', c, Written(c))
    BY <1>2, <1>5, <2>1, BelowOf
  <2>3. sessions[c] # NoSession => sessions[c] \in SessionId
    BY SessionIds DEF TypeInv
  <2> QED
    BY <1>7, <2>1, <2>2, <2>3
<1> QED
  BY <1>10, <1>11, <1>12 DEF InLine

(* A new session is one of those there are outboxes for, and its own is empty. *)
LEMMA NewSession ==
  ASSUME SessionsAssumption, TypeInv, TypeInv', Owners, OutboxLine, [Next]_vars,
         NEW c \in Client, sessions'[c] # sessions[c], sessions'[c] # NoSession
  PROVE  outbox[sessions'[c]] = <<>>
<1>1. /\ sessions'[c] = nextSid /\ (nextSid' = nextSid \/ nextSid' = nextSid + 1)
      /\ nextSid \in Nat \ {0}
  BY SessionsMove DEF TypeInv, Stores
<1>2. sessions'[c] < nextSid' /\ nextSid' - 1 <= Cardinality(ReadIn(conn'))
  BY DEF TypeInv, Numbered
<1>3. PICK n \in Nat : n = Clients * MaxConns * MaxFrames
  BY Bounds
<1>4. PICK m \in Nat : m = Cardinality(ReadIn(conn')) /\ m <= n
  BY <1>3, ReadFinite
<1>5. nextSid' = nextSid + 1 /\ nextSid <= n
  BY <1>1, <1>2, <1>4
<1>6. nextSid \in SessionId
  BY <1>1, <1>3, <1>5 DEF SessionId
<1> QED
  BY <1>1, <1>6, NewEmpty

LEMMA HandOfPeer ==
  ASSUME SessionsAssumption, TypeInv, Owners, InLine, loop = "send"
  PROVE  /\ OfClient(queued, Peer, hand) /\ Rising(hand) /\ Precede(Written(Peer), hand)
         /\ Precede(hand, outbox[sessions[Peer]])
<1>1. Busy /\ serving.key # 0
  BY DEF TypeInv, Phase, Busy
<1>2. Peer \in Client /\ serving.session = sessions[Peer] /\ serving.session # NoSession
  BY <1>1, Serves DEF TypeInv, Phase
<1>3. /\ OfSession(queued, serving.session, hand) /\ Rising(hand)
      /\ Precede(hand, outbox[serving.session]) /\ Precede(Written(Peer), hand)
  BY DEF InLine, HandLine
<1>4. \A n \in 1 .. Len(queued) : queued[n].session = serving.session => queued[n].client = Peer
  BY <1>2 DEF Owners, Owned
<1>5. OfClient(queued, Peer, hand)
  BY <1>3, <1>4 DEF OfSession, OfClient
<1> QED
  BY <1>2, <1>3, <1>5

(* What a body adds to the line of its client.                              *)
LEMMA LineWritten ==
  ASSUME NEW q, NEW c, NEW w \in Seq(Texts), NEW b \in Seq(Texts), NEW h \in Seq(Waiting),
         OfClient(q, c, w), Rising(w), Within(b, h), OfClient(q, c, h), Rising(h), Precede(w, h)
  PROVE  /\ OfClient(q, c, w \o b) /\ Rising(w \o b)
         /\ \A x : Precede(w, x) /\ Precede(h, x) => Precede(w \o b, x)
<1>1. Len(b) \in Nat /\ Len(h) \in Nat
  OBVIOUS
<1>2. OfClient(q, c, b) /\ Rising(b) /\ Precede(w, b) /\ \A x : Precede(h, x) => Precede(b, x)
  BY <1>1, WithinIn
<1> QED
  BY <1>2, ConcatLine, ConcatOf

LEMMA LineServed ==
  ASSUME SessionsAssumption, TypeInv, TypeInv', Owners, Turns, InLine, [Next]_vars,
         UNCHANGED <<outbox, queued>>, loop' \notin {"drain", "send"}
  PROVE  InLine'
<1>1. OutboxLine'
  BY DEF InLine, OutboxLine
<1>2. HandLine'
  BY DEF HandLine
<1>3. ASSUME NEW c \in Client
      PROVE  /\ OfClient(queued, c, Written(c)') /\ Rising(Written(c)')
             /\ sessions'[c] # NoSession => Precede(Written(c)', outbox[sessions'[c]])
  <2>1. /\ OfClient(queued, c, Written(c)) /\ Rising(Written(c))
        /\ sessions[c] # NoSession => Precede(Written(c), outbox[sessions[c]])
    BY DEF InLine, WrittenLine
  <2>2. PICK w \in Seq(Texts) : w = Written(c)
    BY WrittenType DEF TypeInv, Stores
  <2>3. hand \in Seq(Waiting) /\ <<>> \in Seq(Waiting)
    BY DEF TypeInv, Stores
  <2>4. CASE Written(c)' = Written(c)
    <3>1. CASE sessions'[c] = sessions[c]
      BY <2>1, <2>4, <3>1
    <3>2. CASE sessions'[c] # sessions[c] /\ sessions'[c] # NoSession
      <4>1. outbox[sessions'[c]] = <<>>
        BY <3>2, NewSession DEF InLine
      <4> QED
        BY <2>1, <2>4, <4>1, NothingQueued
    <3>3. CASE sessions'[c] = NoSession
      BY <2>1, <2>4, <3>3
    <3> QED
      BY <3>1, <3>2, <3>3
  <2>5. CASE /\ loop = "receive" /\ loop' = "receive"
             /\ Written(c)' = Written(c) \o <<Answer>>
    <3>1. UNCHANGED sessions
      <4>1. ~ReceiveMessage /\ ~ReceiveClose
        BY <2>5 DEF ReceiveMessage, ReceiveClose, Closed
      <4> QED
        BY <4>1, SessionsMove
    <3>2. Within(<<Answer>>, <<>>) /\ <<Answer>> \in Seq(Texts)
      <4>1. ~IsQueued(Answer)
        BY TextKinds
      <4> QED
        BY <4>1 DEF Within, Texts
    <3>3. PICK b \in Seq(Texts) : b = <<Answer>>
      BY <3>2
    <3>4. /\ OfClient(queued, c, <<>>) /\ Rising(<<>>) /\ Precede(w, <<>>)
          /\ \A x : Precede(<<>>, x)
      BY NothingQueued
    <3>5. /\ OfClient(queued, c, w \o b) /\ Rising(w \o b)
          /\ \A x : Precede(w, x) /\ Precede(<<>>, x) => Precede(w \o b, x)
      BY <2>1, <2>2, <2>3, <3>2, <3>3, <3>4, LineWritten
    <3> QED
      BY <2>1, <2>2, <2>5, <3>1, <3>3, <3>4, <3>5
  <2>6. CASE c = Peer /\ Send /\ Written(c)' = Written(c) \o Body(Replies)
    <3>1. UNCHANGED sessions
      BY <2>6 DEF Send
    <3>2. PICK b \in Seq(Texts) : b = Body(Replies) /\ Within(b, hand) /\ loop = "send"
      BY <2>6, BodyTexts
    <3>3. /\ OfClient(queued, c, hand) /\ Rising(hand) /\ Precede(w, hand)
          /\ Precede(hand, outbox[sessions[c]])
      BY <2>2, <2>6, <3>2, HandOfPeer
    <3>4. /\ OfClient(queued, c, w \o b) /\ Rising(w \o b)
          /\ \A x : Precede(w, x) /\ Precede(hand, x) => Precede(w \o b, x)
      BY <2>1, <2>2, <2>3, <3>2, <3>3, LineWritten
    <3> QED
      BY <2>1, <2>2, <2>6, <3>1, <3>2, <3>3, <3>4
  <2> QED
    BY <2>4, <2>5, <2>6, WrittenMoves DEF AddsTo
<1>4. WrittenLine'
  BY <1>3 DEF WrittenLine
<1> QED
  BY <1>1, <1>2, <1>4 DEF InLine

LEMMA LineIdle ==
  ASSUME TypeInv, InLine, UNCHANGED <<outbox, queued, loop, serving, hand, sessions>>,
         \A c \in Client : Written(c)' = Written(c)
  PROVE  InLine'
<1>1. OutboxLine'
  BY DEF InLine, OutboxLine
<1>2. HandLine'
  <2>1. loop \in {"drain", "send"} => Peer \in Client
    BY Serves DEF Busy
  <2>2. Peer' = Peer
    BY DEF Peer
  <2>3. loop = "send" => Written(Peer)' = Written(Peer)
    BY <2>1, <2>2
  <2> QED
    BY <2>3 DEF InLine, HandLine
<1>3. WrittenLine'
  BY DEF InLine, WrittenLine
<1> QED
  BY <1>1, <1>2, <1>3 DEF InLine

LEMMA LineCopies ==
  ASSUME SessionsAssumption, TypeInv, InLine, UNCHANGED mode, DrainCopies
  PROVE  InLine'
<1>1. /\ loop' = "drain" /\ hand' = outbox[serving.session]
      /\ UNCHANGED <<conn, serving, sessions, outbox, queued>>
  BY DEF DrainCopies, queueVars
<1>2. \A c \in Client : Written(c)' = Written(c)
  BY <1>1, WrittenSame
<1>3. OutboxLine' /\ HandLine'
  BY <1>1, WithinItself DEF InLine, OutboxLine, HandLine
<1>4. WrittenLine'
  BY <1>1, <1>2 DEF InLine, WrittenLine
<1> QED
  BY <1>3, <1>4 DEF InLine

LEMMA LineClears ==
  ASSUME SessionsAssumption, TypeInv, InLine, UNCHANGED mode, DrainClears
  PROVE  InLine'
<1>1. /\ loop = "drain" /\ loop' = "send"
      /\ outbox' = [outbox EXCEPT ![serving.session] = <<>>]
      /\ UNCHANGED <<conn, serving, sessions, hand, queued>>
  BY DEF DrainClears, queueVars
<1>2. /\ Peer' = Peer /\ Peer \in Client /\ serving.session \in SessionId
      /\ serving.session = sessions[Peer] /\ serving.session # NoSession
  <2>1. Busy /\ serving.key # 0 /\ Peer' = Peer
    BY <1>1 DEF TypeInv, Phase, Busy, Peer
  <2> QED
    BY <2>1, Serves, ClearsTypes DEF TypeInv, Phase
<1>3. \A c \in Client : Written(c)' = Written(c)
  BY <1>1, WrittenSame
<1>4. \A s \in SessionId : \/ outbox'[s] = outbox[s] /\ s # serving.session
                           \/ outbox'[s] = <<>> /\ s = serving.session
  BY <1>1 DEF TypeInv, Stores
<1>5. OutboxLine'
  BY <1>1, <1>4, NothingQueued DEF InLine, OutboxLine
<1>6. PICK w \in Seq(Waiting) : w = outbox[serving.session]
  BY <1>2 DEF TypeInv, Stores
<1>7. hand \in Seq(Waiting) /\ Within(hand, w) /\ Len(hand) \in Nat /\ Len(w) \in Nat
  BY <1>1, <1>6 DEF TypeInv, Stores, InLine, HandLine
<1>8. /\ OfSession(queued, serving.session, w) /\ Rising(w) /\ Precede(Written(Peer), w)
  BY <1>2, <1>6 DEF InLine, OutboxLine, WrittenLine
<1>9. /\ OfSession(queued, serving.session, hand) /\ Rising(hand) /\ Precede(Written(Peer), hand)
  BY <1>7, <1>8, WithinIn
<1>10. HandLine'
  <2>1. Precede(hand, outbox'[serving.session])
    BY <1>2, <1>4, NothingQueued
  <2>2. Written(Peer)' = Written(Peer)
    BY <1>2, <1>3
  <2> QED
    BY <1>1, <1>9, <2>1, <2>2 DEF HandLine
<1>11. WrittenLine'
  <2> SUFFICES ASSUME NEW c \in Client
               PROVE  /\ OfClient(queued, c, Written(c)) /\ Rising(Written(c))
                      /\ sessions[c] # NoSession => Precede(Written(c), outbox'[sessions[c]])
    BY <1>1, <1>3 DEF WrittenLine
  <2>1. /\ OfClient(queued, c, Written(c)) /\ Rising(Written(c))
        /\ sessions[c] # NoSession => Precede(Written(c), outbox[sessions[c]])
    BY DEF InLine, WrittenLine
  <2>2. sessions[c] # NoSession => sessions[c] \in SessionId
    BY SessionIds DEF TypeInv
  <2> QED
    BY <1>4, <2>1, <2>2, NothingQueued
<1> QED
  BY <1>5, <1>10, <1>11 DEF InLine

LEMMA LineStep ==
  ASSUME SessionsAssumption, TypeInv, TypeInv', Owners, Turns, InLine, [Next]_vars
  PROVE  InLine'
<1>1. CASE DrainCopies /\ UNCHANGED mode
  BY <1>1, LineCopies
<1>2. CASE DrainClears /\ UNCHANGED mode
  BY <1>2, LineClears
<1>3. CASE ServerStep /\ ~DrainCopies /\ ~DrainClears
  <2>1. UNCHANGED <<outbox, queued>> /\ loop' \notin {"drain", "send"}
    BY <1>3 DEF ServerStep, Accept, ReceiveEnd, ReceiveProbe, ReceiveMessage, ReceiveForeign,
       ConnectionReset, ReceiveClose, SendRaises, SendTooLong, Send, Closed, queueVars
  <2> QED
    BY <2>1, LineServed
<1>4. CASE QueueReply
  BY <1>4, LineQueue
<1>5. CASE ~ServerStep /\ ~QueueReply
  <2>1. UNCHANGED <<outbox, queued, loop, serving, hand, sessions>>
    BY <1>5 DEF Next, Step, ClientConnects, ClientLeaves, ClientSends, Pick, vars, serverVars, queueVars
  <2>2. \A c \in Client : Written(c)' = Written(c)
    <3> TAKE c \in Client
    <3>1. \A i \in ConnId : conn'[i].down = conn[i].down
      BY <1>5, ClientsDown
    <3>2. \A k \in 1 .. MaxConns : <<c, k>> \in ConnId
      BY DEF ConnId
    <3> QED
      BY <3>1, <3>2, WrittenSame
  <2> QED
    BY <2>1, <2>2, LineIdle
<1> QED
  BY <1>1, <1>2, <1>3, <1>4, <1>5 DEF Next, vars, ServerStep

-------------------------------------------------------------------------------
(* The serving thread that queues itself does so before it drains.          *)
Draining ==
  OwnThread =>
    /\ pick # NoPick => loop = "reply" /\ serving.key # 0
    /\ loop = "drain" => hand = outbox[serving.session]

LEMMA DrainingStep ==
  ASSUME SessionsAssumption, TypeInv, Draining, [Next]_vars
  PROVE  Draining'
<1> SUFFICES ASSUME OwnThread, UNCHANGED mode PROVE Draining'
  BY DEF Draining, OwnThread, Next, vars
<1>1. CASE DrainCopies
  BY <1>1 DEF DrainCopies, Draining, queueVars
<1>2. CASE SendRaises
  BY <1>2 DEF SendRaises, Draining, Closed, queueVars
<1>3. CASE ServerStep /\ ~DrainCopies /\ ~SendRaises
  <2>1. loop # "reply" /\ UNCHANGED pick /\ loop' # "drain"
    BY <1>3 DEF ServerStep, Accept, ReceiveEnd, ReceiveProbe, ReceiveMessage, ReceiveForeign,
       ConnectionReset, ReceiveClose, DrainClears, SendTooLong, Send, Closed, queueVars
  <2> QED
    BY <2>1 DEF Draining
<1>4. ASSUME NEW c \in Client, Pick(c) PROVE Draining'
  <2>1. /\ loop = "reply" /\ serving.session = sessions[c] /\ sessions[c] # NoSession
        /\ UNCHANGED <<loop, serving>>
    BY <1>4 DEF Pick, serverVars
  <2>2. serving.key # 0
    BY <2>1 DEF TypeInv, Phase, Busy
  <2> QED
    BY <2>1, <2>2 DEF Draining
<1>5. CASE QueueReply
  BY <1>5 DEF QueueReply, Draining
<1>6. CASE ~ServerStep /\ ~QueueReply /\ ~\E c \in Client : Pick(c)
  BY <1>6 DEF Next, Step, ClientConnects, ClientLeaves, ClientSends, vars, serverVars, queueVars,
              Draining
<1> QED
  BY <1>1, <1>2, <1>3, <1>4, <1>5, <1>6

(* Whether the n-th queued reply is in a sequence.                          *)
Has(s, n) == \E k \in 1 .. Len(s) : s[k] = Queued(n)

LEMMA HasIsIn ==
  ASSUME NEW E, NEW s \in Seq(E), NEW n
  PROVE  Queued(n) \in ToSet(s) <=> Has(s, n)
BY DEF ToSet, Has

LEMMA HasConcat ==
  ASSUME NEW E, NEW u \in Seq(E), NEW v \in Seq(E), NEW n
  PROVE  Has(u, n) \/ Has(v, n) => Has(u \o v, n)
<1>1. PICK l, m \in Nat : l = Len(u) /\ m = Len(v)
  OBVIOUS
<1>2. PICK w \in Seq(E) : w = u \o v
  BY ConcatPlaces
<1>3. /\ Len(w) = l + m /\ \A k \in 1 .. l : w[k] = u[k]
      /\ \A k \in 1 .. m : w[l + k] = v[k]
  BY <1>1, <1>2
<1>4. \A k \in 1 .. l : k \in 1 .. l + m
  BY <1>1
<1>5. \A k \in 1 .. m : l + k \in 1 .. l + m
  BY <1>1
<1>6. Has(u, n) => Has(w, n)
  BY <1>1, <1>3, <1>4 DEF Has
<1>7. Has(v, n) => Has(w, n)
  BY <1>1, <1>3, <1>5 DEF Has
<1> QED
  BY <1>2, <1>6, <1>7

Kept ==
  loop # "ended" /\ Secure /\ OwnThread =>
    \A n \in 1 .. Len(queued) :
      sessions[queued[n].client] = queued[n].session =>
        \/ Has(outbox[queued[n].session], n) \/ Has(hand, n) \/ Has(Written(queued[n].client), n)

LEMMA KeptQueue ==
  ASSUME SessionsAssumption, TypeInv, Owners, Kept, UNCHANGED mode, QueueReply
  PROVE  Kept'
<1>1. /\ pick # NoPick /\ queued' = Append(queued, pick)
      /\ outbox' = [outbox EXCEPT ![pick.session] = Append(@, Queued(Len(queued) + 1))]
      /\ UNCHANGED <<conn, loop, sessions, hand>>
  BY DEF QueueReply
<1>2. PICK n \in Nat : n = Len(queued)
  BY DEF TypeInv, Stores
<1>3. /\ queued \in Seq([client : Client, session : Nat])
      /\ pick \in [client : Client, session : Nat] /\ outbox \in [SessionId -> Seq(Waiting)]
      /\ pick.session \in SessionId
  <2>1. pick.session \in SessionId
    BY <1>1, SessionIds DEF TypeInv, Stores
  <2> QED
    BY <1>1, <2>1 DEF TypeInv, Stores
<1>4. /\ Len(queued') = n + 1 /\ queued'[n + 1] = pick
      /\ \A m \in 1 .. n : queued'[m] = queued[m]
  BY <1>1, <1>2, <1>3, Appended
<1>5. \A c \in Client : Written(c)' = Written(c)
  BY <1>1, WrittenSame
<1>6. ASSUME NEW s \in SessionId, NEW m, Has(outbox[s], m) PROVE Has(outbox'[s], m)
  <2>1. CASE s # pick.session
    BY <1>1, <1>3, <1>6, <2>1
  <2>2. CASE s = pick.session
    <3>1. PICK w \in Seq(Waiting) : w = outbox[s]
      BY <1>3
    <3>2. PICK e \in Waiting : e = Queued(Len(queued) + 1)
      BY <1>1, PickedType
    <3>3. outbox'[s] = Append(w, e)
      BY <1>1, <1>3, <2>2, <3>1, <3>2
    <3>4. PICK k \in 1 .. Len(w) : w[k] = Queued(m)
      BY <1>6, <3>1 DEF Has
    <3>5. k \in 1 .. Len(Append(w, e)) /\ Append(w, e)[k] = w[k]
      <4>1. Len(w) \in Nat
        OBVIOUS
      <4> QED
        BY <4>1, Appended
    <3> QED
      BY <3>3, <3>4, <3>5 DEF Has
  <2> QED
    BY <2>1, <2>2
<1>7. Has(outbox'[pick.session], n + 1)
  <2>1. PICK w \in Seq(Waiting) : w = outbox[pick.session]
    BY <1>3
  <2>2. PICK e \in Waiting : e = Queued(n + 1)
    BY <1>1, <1>2, PickedType
  <2>3. outbox'[pick.session] = Append(w, e)
    BY <1>1, <1>2, <1>3, <2>1, <2>2
  <2>4. PICK l \in Nat : l = Len(w)
    OBVIOUS
  <2>5. Len(Append(w, e)) = l + 1 /\ Append(w, e)[l + 1] = e /\ l + 1 \in 1 .. l + 1
    BY <2>4, Appended
  <2> QED
    BY <2>2, <2>3, <2>5 DEF Has
<1> SUFFICES ASSUME loop # "ended", Secure, OwnThread, NEW m \in 1 .. n + 1,
                    sessions[queued'[m].client] = queued'[m].session
             PROVE  \/ Has(outbox'[queued'[m].session], m) \/ Has(hand, m)
                    \/ Has(Written(queued[m].client)', m)
  BY <1>1, <1>4 DEF Kept, Secure, OwnThread
<1>8. CASE m = n + 1
  BY <1>4, <1>7, <1>8
<1>9. CASE m \in 1 .. n
  <2>1. PICK q \in [client : Client, session : Nat] : q = queued[m] /\ q = queued'[m]
    <3>1. m \in 1 .. Len(queued)
      BY <1>2, <1>9
    <3>2. queued \in Seq([client : Client, session : Nat])
      BY <1>3
    <3>3. queued[m] \in [client : Client, session : Nat]
      BY ONLY <3>1, <3>2, ElementOfSeq
    <3> QED
      BY <1>4, <1>9, <3>3
  <2>2. \/ Has(outbox[q.session], m) \/ Has(hand, m) \/ Has(Written(q.client), m)
    BY <1>2, <1>9, <2>1 DEF Kept
  <2>3. q.session \in SessionId
    <3>1. q.session \in 1 .. nextSid - 1
      BY <1>2, <1>9, <2>1 DEF Owners, Owned
    <3> QED
      BY <3>1, SessionIds DEF TypeInv
  <2>4. Written(q.client)' = Written(q.client)
    BY <1>5, <2>1
  <2>5. Written(queued[m].client)' = Written(q.client)'
    BY <2>1
  <2> QED
    BY <1>6, <2>1, <2>2, <2>3, <2>4, <2>5
<1> QED
  BY <1>2, <1>8, <1>9

(* A session that a reply was queued for is not given again.                *)
LEMMA SameSession ==
  ASSUME SessionsAssumption, TypeInv, Owners, [Next]_vars, NEW n \in 1 .. Len(queued),
         sessions'[queued[n].client] = queued[n].session
  PROVE  /\ sessions[queued[n].client] = queued[n].session
         /\ queued[n].client \in Client /\ queued[n].session \in SessionId
<1>1. queued[n].client \in Client /\ queued[n].session \in 1 .. nextSid - 1 /\ nextSid \in Nat
  BY DEF Owners, Owned, TypeInv, Stores
<1>2. sessions'[queued[n].client] \in {sessions[queued[n].client], NoSession, nextSid}
  BY <1>1, SessionsMove
<1>3. sessions[queued[n].client] = queued[n].session
  BY <1>1, <1>2 DEF NoSession
<1> QED
  BY <1>1, <1>3, SessionIds DEF TypeInv

LEMMA HasWritten ==
  ASSUME SessionsAssumption, TypeInv, Turns, [Next]_vars, NEW c \in Client, NEW n,
         Has(Written(c), n)
  PROVE  Has(Written(c)', n)
<1>1. PICK w \in Seq(Texts) : w = Written(c)
  BY WrittenType DEF TypeInv, Stores
<1>2. Send => Body(Replies) \in Seq(Texts)
  BY BodyTexts
<1>3. <<Answer>> \in Seq(Texts)
  BY DEF Texts
<1>4. \A b \in Seq(Texts) : Has(w \o b, n)
  BY <1>1, HasConcat
<1> QED
  BY <1>1, <1>2, <1>3, <1>4, WrittenMoves DEF AddsTo

(* Send puts all of a secure exit's hand into the body.                     *)
LEMMA HasSent ==
  ASSUME SessionsAssumption, TypeInv, Turns, Owners, InLine, [Next]_vars, Send, Secure,
         NEW n \in 1 .. Len(queued), Has(hand, n), NEW c \in Client, queued[n].client = c
  PROVE  Has(Written(c)', n)
<1>1. loop = "send" /\ Body(Replies) \in Seq(Texts) /\ Peer \in Client
  BY BodyTexts
<1>2. PICK k \in 1 .. Len(hand) : hand[k] = Queued(n)
  BY DEF Has
<1>3. c = Peer
  <2>1. OfClient(queued, Peer, hand)
    BY <1>1, HandOfPeer
  <2>2. IsQueued(hand[k]) /\ hand[k].queued = n
    BY <1>2, TextKinds
  <2> QED
    BY <2>1, <2>2 DEF OfClient
<1>4. Has(Body(Replies), n)
  <2>1. Body(Replies) = Append(hand, serving.message)
    BY DEF Body, Replies
  <2>2. hand \in Seq(Waiting)
    BY DEF TypeInv, Stores
  <2>3. PICK h, m : h \in Seq(Waiting) /\ h = hand /\ m = serving.message
    BY <2>2
  <2>4. k \in 1 .. Len(Append(h, m)) /\ Append(h, m)[k] = h[k]
    <3>1. k \in 1 .. Len(h) /\ Len(h) \in Nat
      BY <2>3
    <3> QED
      BY <3>1
  <2> QED
    BY <1>2, <2>1, <2>3, <2>4 DEF Has
<1>5. PICK w \in Seq(Texts) : w = Written(c)
  BY WrittenType DEF TypeInv, Stores
<1>6. Has(w \o Body(Replies), n)
  BY <1>1, <1>4, HasConcat
<1>7. AddsTo(c)
  BY WrittenMoves
<1> QED
  BY <1>3, <1>5, <1>6, <1>7 DEF AddsTo

LEMMA KeptStep ==
  ASSUME SessionsAssumption, TypeInv, Turns, Owners, InLine, Draining, Kept, [Next]_vars
  PROVE  Kept'
<1>1. CASE QueueReply /\ UNCHANGED mode
  BY <1>1, KeptQueue
<1>2. CASE UNCHANGED <<mode, queued>>
  <2> SUFFICES ASSUME loop' # "ended", Secure, OwnThread, NEW n \in 1 .. Len(queued),
                      sessions'[queued[n].client] = queued[n].session
               PROVE  \/ Has(outbox'[queued[n].session], n) \/ Has(hand', n)
                      \/ Has(Written(queued[n].client)', n)
    BY <1>2 DEF Kept, Secure, OwnThread
  <2>1. loop # "ended"
    BY DEF Next, Step, ClientConnects, ClientLeaves, ClientSends, Pick, QueueReply, ServerStep,
       Accept, ReceiveEnd, ReceiveProbe, ReceiveMessage, ReceiveForeign, ConnectionReset,
       ReceiveClose, SendRaises, DrainCopies, DrainClears, SendTooLong, Send, vars, serverVars
  <2>2. /\ sessions[queued[n].client] = queued[n].session
        /\ queued[n].client \in Client /\ queued[n].session \in SessionId
    BY SameSession
  <2>3. PICK c \in Client, s \in SessionId : c = queued[n].client /\ s = queued[n].session
    BY <2>2
  <2>4. Has(outbox[s], n) \/ Has(hand, n) \/ Has(Written(c), n)
    BY <2>1, <2>2, <2>3 DEF Kept
  <2>5. queued'[n].client = c
    BY <1>2, <2>3
  <2>6. Written(queued[n].client)' = Written(c)'
    BY <2>5
  <2>7. Has(Written(c), n) => Has(Written(c)', n)
    BY HasWritten
  <2>8. Has(outbox'[s], n) \/ Has(hand', n) \/ Has(Written(c)', n)
    <3>1. CASE DrainCopies
      <4>1. hand = <<>> /\ outbox' = outbox
        BY <3>1 DEF DrainCopies, TypeInv, Phase
      <4>2. ~Has(hand, n)
        BY <4>1 DEF Has
      <4> QED
        BY <2>4, <2>7, <4>1, <4>2
    <3>2. CASE DrainClears
      <4>1. /\ hand' = hand /\ hand = outbox[serving.session]
            /\ s # serving.session => outbox'[s] = outbox[s]
        BY <3>2 DEF DrainClears, Draining, TypeInv, Stores
      <4> QED
        BY <2>4, <2>7, <4>1
    <3>3. CASE Send
      <4>1. outbox' = outbox
        BY <3>3 DEF Send
      <4>2. Has(hand, n) => Has(Written(c)', n)
        BY <2>3, <3>3, HasSent
      <4> QED
        BY <2>4, <2>7, <4>1, <4>2
    <3>4. CASE ~DrainCopies /\ ~DrainClears /\ ~Send
      <4>1. outbox' = outbox /\ hand' = hand
        <5>1. ~QueueReply
          BY <1>2 DEF QueueReply, TypeInv, Stores
        <5>2. CASE ServerStep
          BY <3>4, <5>2 DEF ServerStep, Accept, ReceiveEnd, ReceiveProbe, ReceiveMessage,
             ReceiveForeign, ConnectionReset, ReceiveClose, SendRaises, SendTooLong, Closed
        <5>3. CASE ~ServerStep
          BY <5>1, <5>3 DEF Next, Step, ClientConnects, ClientLeaves, ClientSends, Pick, vars,
             serverVars
        <5> QED
          BY <5>2, <5>3
      <4> QED
        BY <2>4, <2>7, <4>1
    <3> QED
      BY <3>1, <3>2, <3>3, <3>4
  <2> QED
    BY <2>3, <2>6, <2>8
<1> QED
  BY <1>1, <1>2, PickedQueued DEF Next, Pick, vars, queueVars

-------------------------------------------------------------------------------
Inv == TypeInv /\ Owners /\ Turns /\ InLine /\ Draining /\ Kept

LEMMA WrittenNothing ==
  ASSUME SessionsAssumption, Init, NEW c \in Client
  PROVE  Written(c) = <<>>
<1>1. TypeInv
  BY TypeInit
<1>2. \A k \in 1 .. MaxConns : conn[<<c, k>>].down = <<>>
  BY DEF Init, ConnId
<1>3. Written(c) = FlattenSeq([k \in 1 .. MaxConns |-> <<>>])
  BY <1>2, FlattenEmpty DEF Written
<1>4. FlattenSeq([k \in 1 .. MaxConns |-> <<>>]) = <<>>
  <2> DEFINE X == Seq({})
  <2>1. <<>> \in X /\ MaxConns \in Nat
    BY Bounds
  <2> HIDE DEF X
  <2>2. [k \in 1 .. MaxConns |-> <<>>] \in Seq(X)
    BY <2>1
  <2>3. FlattenSeq([k \in 1 .. MaxConns |-> <<>>]) \in Seq({})
    BY <2>2, FlattenType DEF X
  <2>4. \A s \in Seq({}) : s = <<>>
    OBVIOUS
  <2> QED
    BY <2>3, <2>4
<1> QED
  BY <1>3, <1>4

LEMMA InvInit ==
  ASSUME SessionsAssumption, Init
  PROVE  Inv
<1>1. TypeInv
  BY TypeInit
<1>2. Owners /\ Draining /\ Kept
  BY DEF Init, Owners, Draining, Kept
<1>3. Turns
  BY DEF Init, Turns, Started, HasBody, Busy
<1>4. InLine
  BY WrittenNothing, NothingQueued DEF Init, InLine, OutboxLine, HandLine, WrittenLine
<1> QED
  BY <1>1, <1>2, <1>3, <1>4 DEF Inv

LEMMA InvStep ==
  ASSUME SessionsAssumption, Inv, [Next]_vars
  PROVE  Inv'
<1>1. TypeInv'
  BY TypeStep DEF Inv
<1> QED
  BY <1>1, OwnersStep, TurnsStep, LineStep, DrainingStep, KeptStep DEF Inv

LEMMA BacklogOnce ==
  ASSUME SessionsAssumption, TypeInv, Turns
  PROVE  IsInjective(backlog)
<1>1. backlog \in Seq(ConnId) /\ DOMAIN backlog = 1 .. Len(backlog) /\ Len(backlog) \in Nat
  BY DEF TypeInv, Stores
<1>2. ASSUME NEW m \in 1 .. Len(backlog), NEW n \in 1 .. Len(backlog), m < n
      PROVE  backlog[m] # backlog[n]
  <2>1. PICK b \in ConnId : b = backlog[m]
    BY <1>1
  <2>2. b[2] \in Nat
    BY Bounds DEF ConnId
  <2>3. m \in 1 .. n - 1
    BY <1>1, <1>2
  <2>4. backlog[n] = b => b[2] < b[2]
    BY <2>1, <2>3 DEF Turns
  <2> QED
    BY <2>1, <2>2, <2>4
<1>3. \A m, n \in 1 .. Len(backlog) : backlog[m] = backlog[n] => m = n
  <2> TAKE m, n \in 1 .. Len(backlog)
  <2>1. m < n \/ n < m \/ m = n
    BY <1>1
  <2> QED
    BY <1>2, <2>1
<1> QED
  BY <1>1, <1>3 DEF IsInjective

LEMMA ItemsOf ==
  ASSUME NEW E, NEW s \in Seq(E)
  PROVE  ToSet(s) \subseteq E /\ \A t \in ToSet(s) : \E k \in 1 .. Len(s) : t = s[k]
BY DEF ToSet

LEMMA TypesAreOK ==
  ASSUME SessionsAssumption, TypeInv, Turns
  PROVE  TypeOK
<1>1. ASSUME NEW i \in ConnId
      PROVE  /\ Len(conn[i].sent) <= MaxFrames
             /\ conn[i].client \in {"none", "open", "closed"}
             /\ conn[i].server \in {"none", "waiting", "closed"}
             /\ ToSet(FlattenSeq(conn[i].down)) \subseteq Texts
  <2>1. Table
    BY DEF TypeInv, Stores
  <2>2. FlattenSeq(conn[i].down) \in Seq(Texts)
    BY <2>1, DownTexts DEF Table
  <2> QED
    BY <2>1, <2>2, Fields, ItemsOf
<1>2. ToSet(backlog) \subseteq ConnId /\ IsInjective(backlog)
  BY BacklogOnce, ItemsOf DEF TypeInv, Stores
<1>3. /\ serving.conn \in ConnId \cup {NoConn} /\ serving.key \in {0, Peer}
      /\ serving.message \in Texts
  <2>1. CASE Busy
    <3>1. /\ serving.conn \in ConnId /\ serving.key \in {0, Peer}
          /\ serving.message \in Mine(serving.conn) \cup {NoText}
      BY <2>1 DEF TypeInv, Phase
    <3>2. Mine(serving.conn) \subseteq Texts /\ NoText \in Texts
      BY <3>1, WritableTexts DEF Texts
    <3> QED
      BY <3>1, <3>2
  <2>2. CASE ~Busy
    BY <2>2 DEF TypeInv, Phase, Idle, Texts
  <2> QED
    BY <2>1, <2>2
<1>4. /\ sessions \in [Client -> 0 .. nextSid - 1]
      /\ \A c, d \in Client : sessions[c] = sessions[d] => c = d \/ sessions[c] = NoSession
  <2>1. /\ sessions \in [Client -> Nat] /\ nextSid \in Nat
        /\ \A c \in Client : sessions[c] < nextSid
    BY DEF TypeInv, Stores, Numbered
  <2>2. \A c \in Client : sessions[c] \in 0 .. nextSid - 1
    BY <2>1
  <2> QED
    BY <2>1, <2>2 DEF TypeInv, Numbered
<1>5. Waiting \subseteq Texts
  BY DEF Waiting, Texts
<1>6. \A s \in SessionId : ToSet(outbox[s]) \subseteq Texts
  <2> TAKE s \in SessionId
  <2>1. outbox[s] \in Seq(Waiting)
    BY DEF TypeInv, Stores
  <2> QED
    BY <1>5, <2>1, ItemsOf
<1>7. ToSet(hand) \subseteq Texts
  BY <1>5, ItemsOf DEF TypeInv, Stores
<1>8. pick.session \in 0 .. nextSid - 1 /\ Len(queued) <= MaxQueued
  BY DEF TypeInv, Stores, Numbered
<1>9. loop \in {"accept", "receive", "reply", "drain", "send", "ended"} /\ mode \in Modes
  BY DEF TypeInv, Phase, Stores
<1> QED
  BY <1>1, <1>2, <1>3, <1>4, <1>6, <1>7, <1>8, <1>9 DEF TypeOK

(* A message is only answered where it came from.                           *)
LEMMA AnswersOwn ==
  ASSUME SessionsAssumption, TypeInv, NEW i \in ConnId, NEW t \in ToSet(FlattenSeq(conn[i].down)),
         IsMessage(t)
  PROVE  t.conn = i
<1>1. Table
  BY DEF TypeInv, Stores
<1>2. t \in Writable(i)
  BY <1>1, DownTexts, ItemsOf DEF Table
<1>3. ~(t \in Waiting) /\ t # Answer
  BY TextKinds DEF Waiting
<1>4. PICK n \in 1 .. MaxFrames : t = Message(i, n)
  BY <1>2, <1>3 DEF Writable, Mine
<1> QED
  BY <1>4, TextKinds

LEMMA RepliesAreRight ==
  ASSUME SessionsAssumption, Inv
  PROVE  RightReplies
<1>1. TypeOK
  BY TypesAreOK DEF Inv
<1>2. \A i \in ConnId : \A t \in ToSet(FlattenSeq(conn[i].down)) : IsMessage(t) => t.conn = i
  BY AnswersOwn DEF Inv
<1>3. ASSUME NEW c \in Client
      PROVE  LET w == Written(c)
                 Q == {k \in DOMAIN w : IsQueued(w[k])}
             IN /\ \A k \in Q : queued[w[k].queued].client = c
                /\ \A k, l \in Q : k < l => w[k].queued < w[l].queued
  <2>1. PICK w \in Seq(Texts) : w = Written(c)
    BY WrittenType DEF Inv, TypeInv, Stores
  <2>2. OfClient(queued, c, w) /\ Rising(w)
    BY <2>1 DEF Inv, InLine, WrittenLine
  <2>3. DOMAIN w = 1 .. Len(w)
    OBVIOUS
  <2> QED
    BY <2>1, <2>2, <2>3 DEF OfClient, Rising
<1> QED
  BY <1>1, <1>2, <1>3 DEF RightReplies

LEMMA KeptIsKept ==
  ASSUME SessionsAssumption, Inv
  PROVE  QueuedKept
<1>1. queued \in Seq([client : Client, session : Nat]) /\ DOMAIN queued = 1 .. Len(queued)
  BY DEF Inv, TypeInv, Stores
<1> SUFFICES ASSUME loop # "ended", Secure, OwnThread, NEW n \in 1 .. Len(queued),
                    sessions[queued[n].client] = queued[n].session
             PROVE  Queued(n) \in ToSet(outbox[queued[n].session]) \cup ToSet(hand)
                                    \cup ToSet(Written(queued[n].client))
  BY <1>1 DEF QueuedKept
<1>2. PICK c \in Client, s \in SessionId : c = queued[n].client /\ s = queued[n].session
  <2>1. queued[n].client \in Client /\ queued[n].session \in 1 .. nextSid - 1
    BY DEF Inv, Owners, Owned
  <2> QED
    BY <2>1, SessionIds DEF Inv, TypeInv
<1>3. Has(outbox[s], n) \/ Has(hand, n) \/ Has(Written(c), n)
  BY <1>2 DEF Inv, Kept
<1>4. outbox[s] \in Seq(Waiting) /\ hand \in Seq(Waiting) /\ Written(c) \in Seq(Texts)
  BY WrittenType DEF Inv, TypeInv, Stores
<1> QED
  BY <1>2, <1>3, <1>4, HasIsIn

(* The invariant behind RightReplies and QueuedKept: whose a session is,    *)
(* which connections are served in which order, where a queued reply waits  *)
(* between outbox, the list drain_outbox took, and the connection, and in   *)
(* which order.                                                             *)
THEOREM InvHolds == Spec => []Inv
<1>1. Init => Inv
  BY SessionsAssumption, InvInit
<1>2. Inv /\ [Next]_vars => Inv'
  BY SessionsAssumption, InvStep
<1> QED
  BY <1>1, <1>2, PTL DEF Spec

(* What receive answers goes to the connection it was read from; what queue *)
(* was given reaches the client it was queued for, at most once and in      *)
(* order, whatever connections and sessions come and go, secure or not.     *)
THEOREM RightRepliesHolds == Spec => []RightReplies
<1>1. Inv => RightReplies
  BY SessionsAssumption, RepliesAreRight
<1> QED
  BY <1>1, InvHolds, PTL

(* While the loop of a secure exit that queues in its own thread goes on, a *)
(* reply queued for a client that keeps its session is in the outbox, in    *)
(* the list drain_outbox has taken, or written.                             *)
THEOREM QueuedKeptHolds == Spec => []QueuedKept
<1>1. Inv => QueuedKept
  BY SessionsAssumption, KeptIsKept
<1> QED
  BY <1>1, InvHolds, PTL
=================================================================================
