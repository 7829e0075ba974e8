----------------------------- MODULE CircuitWriters ------------------------------
(***************************************************************************)
(* Threads that write frames to one socket.  At the exit the openers and   *)
(* the readers of relay_mux call coms.send on the circuit as they come     *)
(* (send_mux); at the client SharedTunnel._send holds a lock around it.    *)
(* The kernel takes what there is room for and lets the thread wait, and   *)
(* others go on, before it takes the rest.                                 *)
(***************************************************************************)
EXTENDS Integers, SequencesExt

CONSTANTS
  Writer,    \* the threads
  Calls,     \* calls of coms.send of each of them: a frame each
  Size,      \* pieces of a frame, the first one with its length
  Room,      \* pieces that socket buffers and relays take without a reader
  Lengths    \* what other pieces are when they are read as a length

ASSUME WritersAssumption ==
  /\ Calls \in Nat /\ Size \in Nat \ {0} /\ Room \in Nat \ {0}
  /\ Lengths \subseteq Nat \ {0} /\ Lengths # {}

Piece(w, k, i) == [by |-> w, frame |-> k, at |-> i]
FrameOf(w, k) == [i \in 1 .. Size |-> Piece(w, k, i)]
Nobody == "nobody"
ASSUME NobodyAssumption == Nobody \notin Writer

VARIABLES
  locked,   \* the client's end; the exit has no lock
  todo,     \* todo[w]: what sendall still has to write; <<>> between two calls
  sent,     \* sent[w]: the calls w has made
  lock,     \* who holds SharedTunnel._lock
  pipe,     \* pieces on the way
  part,     \* what receive_all has of a frame
  need,     \* pieces of the frame it is receiving, by the length it read
  got,      \* frames received
  waited    \* history: a thread had to wait in the middle of a frame

writerVars == <<locked, todo, sent, lock, pipe, part, need, got, waited>>

WritersInit ==
  /\ locked \in BOOLEAN
  /\ todo = [w \in Writer |-> <<>>]
  /\ sent = [w \in Writer |-> 0]
  /\ lock = Nobody
  /\ pipe = <<>> /\ part = <<>> /\ need = Size /\ got = <<>>
  /\ waited = FALSE

StartUnlocked(w) ==                      \* mutant: no "with self._lock"
  /\ todo[w] = <<>> /\ sent[w] < Calls
  /\ todo' = [todo EXCEPT ![w] = FrameOf(w, sent[w] + 1)]
  /\ sent' = [sent EXCEPT ![w] = @ + 1]
  /\ UNCHANGED <<locked, lock, pipe, part, need, got, waited>>

(* A call of coms.send: one sendall of length and message.                  *)
Start(w) ==
  /\ todo[w] = <<>> /\ sent[w] < Calls
  /\ locked => lock = Nobody
  /\ lock' = IF locked THEN w ELSE lock
  /\ todo' = [todo EXCEPT ![w] = FrameOf(w, sent[w] + 1)]
  /\ sent' = [sent EXCEPT ![w] = @ + 1]
  /\ UNCHANGED <<locked, pipe, part, need, got, waited>>

Least(a, b) == IF a < b THEN a ELSE b
Takes(w) == Least(Len(todo[w]), Room - Len(pipe))

WriteOnce(w) ==                          \* mutant: send for sendall
  /\ todo[w] # <<>> /\ Len(pipe) < Room
  /\ pipe' = pipe \o SubSeq(todo[w], 1, Takes(w))
  /\ todo' = [todo EXCEPT ![w] = <<>>]
  /\ waited' = (waited \/ Len(todo[w]) > Room - Len(pipe))
  /\ lock' = IF locked THEN Nobody ELSE lock
  /\ UNCHANGED <<locked, sent, part, need, got>>

WriteAgain(w) ==                         \* mutant: begins again after a wait
  /\ todo[w] # <<>> /\ Len(pipe) < Room
  /\ pipe' = pipe \o SubSeq(todo[w], 1, Takes(w))
  /\ todo' = [todo EXCEPT ![w] = IF Takes(w) = Len(@) THEN <<>> ELSE @]
  /\ waited' = (waited \/ todo'[w] # <<>>)
  /\ lock' = IF locked /\ todo'[w] = <<>> THEN Nobody ELSE lock
  /\ UNCHANGED <<locked, sent, part, need, got>>

Write(w) ==
  /\ todo[w] # <<>> /\ Len(pipe) < Room
  /\ pipe' = pipe \o SubSeq(todo[w], 1, Takes(w))
  /\ todo' = [todo EXCEPT ![w] = SubSeq(@, Takes(w) + 1, Len(@))]
  /\ waited' = (waited \/ Len(todo[w]) > Room - Len(pipe))
  /\ lock' = IF locked /\ todo'[w] = <<>> THEN Nobody ELSE lock
  /\ UNCHANGED <<locked, sent, part, need, got>>

(* The other end: coms.recv takes the first piece for the length of what    *)
(* follows, whatever it is; a reader that is out of step may be content     *)
(* with less than a frame or go on to wait for what nobody sends.           *)
Says(p) == IF p.at = 1 THEN {Size} ELSE Lengths
Read ==
  /\ pipe # <<>>
  /\ LET now == Append(part, Head(pipe))
     IN \E n \in IF part = <<>> THEN Says(Head(pipe)) ELSE {need} :
          IF Len(now) = n THEN got' = Append(got, now) /\ part' = <<>> /\ need' = Size
          ELSE part' = now /\ need' = n /\ UNCHANGED got
  /\ pipe' = Tail(pipe)
  /\ UNCHANGED <<locked, todo, sent, lock, waited>>

Done ==
  /\ \A w \in Writer : sent[w] = Calls /\ todo[w] = <<>>
  /\ pipe = <<>>
  /\ UNCHANGED writerVars

WritersNext == Read \/ Done \/ \E w \in Writer : Start(w) \/ Write(w)

WritersSpec == WritersInit /\ [][WritersNext]_writerVars

(* The threads run, and the other end reads.                                *)
WritersFairSpec ==
  /\ WritersSpec /\ WF_writerVars(Read)
  /\ \A w \in Writer : WF_writerVars(Start(w) \/ Write(w))

---------------------------------------------------------------------------------
(* Properties.                                                              *)

(* The type invariant.                                                      *)
WritersTypeOK ==
  /\ \A w \in Writer : sent[w] \in 0 .. Calls /\ Len(todo[w]) <= Size
  /\ locked \in BOOLEAN /\ lock \in Writer \cup {Nobody}
  /\ need \in Lengths \cup {Size} /\ Len(pipe) <= Room /\ Len(part) < need
  /\ \A k \in DOMAIN got : Len(got[k]) \in Lengths \cup {Size}

(* Every frame received is one that was sent: always with the lock, and     *)
(* without it until the room runs out in the middle of one, since each is a *)
(* single write.                                                            *)
FramesWhole ==
  locked \/ ~waited =>
    \A k \in DOMAIN got : \E w \in Writer, n \in 1 .. Calls : got[k] = FrameOf(w, n)

(* Locked or not, nothing is lost, repeated or reordered within a thread:   *)
(* what has left it is the beginning of its frames, one after the other.    *)
Arrived == FlattenSeq(got) \o part \o pipe
OfWriter(w, s) ==
  FlattenSeq([i \in DOMAIN s |-> IF s[i].by = w THEN <<s[i]>> ELSE <<>>])
EachInOrder ==
  WritersTypeOK /\ \A w \in Writer :
    OfWriter(w, Arrived) \o todo[w]
      = FlattenSeq([k \in 1 .. sent[w] |-> FrameOf(w, k)])

(* Locked or not, no thread waits for ever for the room or for the lock:    *)
(* all they send is written and read.  Where frames stay whole the other    *)
(* end receives each of them; where they were mixed it may end up waiting   *)
(* in the middle of what it takes for a frame.                              *)
AllArrive ==
  <>(/\ \A w \in Writer : sent[w] = Calls /\ todo[w] = <<>>
     /\ pipe = <<>>
     /\ locked \/ ~waited => Len(got) = Cardinality(Writer) * Calls)
================================================================================
