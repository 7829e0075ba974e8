-------------------------------- MODULE Envelope --------------------------------
(***************************************************************************)
(* The end-to-end envelopes (core/e2e.py) and the padding inside them      *)
(* (core/secure_transport.py).  A byte string is a sequence of four-byte   *)
(* words and lengths count words.  A word read as a length has its value:  *)
(* a length word its length, a word of text or of random padding something *)
(* larger than any string.                                                 *)
(***************************************************************************)
EXTENDS Integers, Sequences, SequencesExt

CONSTANTS
  Block,    \* PADDED_BLOCK in words, 128 in the code
  KeyWords  \* the length of a pair of stream keys, 8 in the code

Huge == 1000
Noise == Huge

(* No control message, one word here, is as long as a pair of keys.         *)
ASSUME EnvelopeAssumption ==
  Block \in 3 .. Huge - 1 /\ KeyWords \in 2 .. Block

(* data[first:last]: a slice stops where the string does.                   *)
Slice(s, first, last) == SubSeq(s, first, IF last > Len(s) THEN Len(s) ELSE last)

(* pad_payload raises ValueError on a longer string.                        *)
Fits(m) == Len(m) <= Block - 1
Pad(m) == <<Len(m)>> \o m \o [i \in 1 .. Block - 1 - Len(m) |-> Noise]

UnpadShort(p) ==                            \* mutant: the length counts itself
  IF Len(p) < 1 THEN p ELSE Slice(p, 2, p[1])

Unpad(p) == IF Len(p) < 1 THEN p
            ELSE IF p[1] > Len(p) - 1 THEN Tail(p)
            ELSE SubSeq(p, 2, 1 + p[1])

PackReplies(ms) ==
  IF ms = <<>> THEN <<>>
  ELSE <<Len(ms)>> \o FlattenSeq([i \in 1 .. Len(ms) |-> <<Len(ms[i])>> \o ms[i]])

(* Reads as many strings as the first word says, or as there are; the last  *)
(* one may be shorter than its length.                                      *)
UnpackReplies(d) ==
  LET count == IF Len(d) < 1 THEN 0
               ELSE IF d[1] > Len(d) THEN Len(d) ELSE d[1]
      read[i \in 0 .. count] ==
        IF i = 0 THEN [offset |-> 1, out |-> <<>>]
        ELSE LET r == read[i - 1]
             IN IF r.offset + 1 > Len(d) THEN r
                ELSE [offset |-> r.offset + 1 + d[r.offset + 1],
                      out |-> Append(r.out, Slice(d, r.offset + 2,
                                                  r.offset + 1 + d[r.offset + 1]))]
  IN read[count].out

(* parse_stream_keys: any string of that length is a pair of keys.          *)
AreStreamKeys(m) == Len(m) = KeyWords

(* What a client seals for the exit, and what the exit seals for a client.  *)
SealForServer(key, pem, dest, m) ==
  [sealedFor |-> key, pem |-> pem, dest |-> dest, message |-> m]
SealPaddedForServer(key, pem, dest, m) == SealForServer(key, pem, dest, Pad(m))
SealForClient(pem, m) == [sealedFor |-> pem, message |-> m]
SealPaddedForClient(pem, m) == SealForClient(pem, Pad(m))

(* unwrap_layer raises on an envelope for somebody else.                    *)
CanOpen(key, e) == e.sealedFor = key
Opened(e) == e.message
OpenedPadded(e) == Unpad(e.message)
================================================================================
