------------------------------- MODULE Inductions -------------------------------
(***************************************************************************)
(* What the proofs need of the operators of the community modules that     *)
(* recurse over a sequence or a set, and the induction that they rest on.  *)
(* The induction is about sets of naturals and not about predicates, so    *)
(* that it can be cited: it follows from the fact that finite sets are     *)
(* well-founded under strict inclusion.                                    *)
(***************************************************************************)
EXTENDS Integers, FiniteSetTheorems, SequenceTheorems, Functions,
        SequencesExt, TLAPS

(* A set of naturals that holds 0, and n + 1 with n, holds them all.        *)
LEMMA NaturalsAll ==
  ASSUME NEW T \in SUBSET Nat, 0 \in T, \A n \in T : n + 1 \in T
  PROVE  T = Nat
<1> SUFFICES ASSUME NEW m \in Nat, m \notin T PROVE FALSE
  OBVIOUS
<1> DEFINE Missing == {X \in FiniteSubsetsOf(Nat) : \E k \in Nat \ T : X = 0 .. k}
<1>1. \A k \in Nat : 0 .. k \in FiniteSubsetsOf(Nat)
  BY FS_Interval DEF FiniteSubsetsOf
<1>2. Missing \subseteq FiniteSubsetsOf(Nat) /\ Missing # {}
  BY <1>1
<1>3. IsWellFoundedOn(StrictSubsetOrdering(Nat), FiniteSubsetsOf(Nat))
  BY FS_StrictSubsetOrderingWellFounded
<1>4. PICK X \in Missing : \A Y \in Missing : ~(<<Y, X>> \in StrictSubsetOrdering(Nat))
  BY <1>2, <1>3, WFMin
<1>5. PICK k \in Nat \ T : X = 0 .. k
  BY <1>4
<1>6. k # 0 /\ k - 1 \in Nat /\ (k - 1) + 1 = k
  BY <1>5
<1>7. k - 1 \notin T
  BY <1>5, <1>6
<1>8. 0 .. k - 1 \in Missing
  BY <1>1, <1>6, <1>7
<1>9. k \in X /\ k \notin 0 .. k - 1 /\ 0 .. k - 1 \subseteq X
  BY <1>5, <1>6
<1>10. <<0 .. k - 1, X>> \in StrictSubsetOrdering(Nat)
  BY <1>5, <1>6, <1>9 DEF StrictSubsetOrdering
<1> QED
  BY <1>4, <1>8, <1>10

-------------------------------------------------------------------------------
(* FlattenSeq.                                                              *)

(* What it computes: f[i] is the concatenation of the first i of them.      *)
Flattens(f, s) ==
  f = [i \in 1 .. Len(s) |-> IF i = 1 THEN s[i] ELSE f[i - 1] \o s[i]]

LEMMA FlattensAlike ==
  ASSUME NEW s, Len(s) \in Nat, NEW f, NEW g, Flattens(f, s), Flattens(g, s),
         NEW k \in 1 .. Len(s)
  PROVE  f[k] = g[k]
<1> DEFINE T == {n \in Nat : n \in 1 .. Len(s) => f[n] = g[n]}
<1>1. 0 \in T
  OBVIOUS
<1>2. ASSUME NEW n \in T PROVE n + 1 \in T
  <2> SUFFICES ASSUME n + 1 \in 1 .. Len(s) PROVE f[n + 1] = g[n + 1]
    OBVIOUS
  <2>1. /\ f[n + 1] = IF n + 1 = 1 THEN s[n + 1] ELSE f[(n + 1) - 1] \o s[n + 1]
        /\ g[n + 1] = IF n + 1 = 1 THEN s[n + 1] ELSE g[(n + 1) - 1] \o s[n + 1]
    BY DEF Flattens
  <2>2. n \in Nat /\ (n + 1) - 1 = n
    OBVIOUS
  <2>3. n = 0 \/ f[n] = g[n]
    OBVIOUS
  <2> QED
    BY <2>1, <2>2, <2>3
<1> HIDE DEF T
<1>3. T = Nat
  BY <1>1, <1>2, NaturalsAll DEF T
<1> QED
  BY <1>3 DEF T

LEMMA FlattenSeqIs ==
  ASSUME NEW s, Len(s) \in Nat \ {0}, NEW f, Flattens(f, s)
  PROVE  FlattenSeq(s) = f[Len(s)]
<1> DEFINE chosen == CHOOSE g : Flattens(g, s)
<1>1. FlattenSeq(s) = chosen[Len(s)]
  BY DEF FlattenSeq, Flattens
<1>2. Flattens(chosen, s)
  OBVIOUS
<1> HIDE DEF chosen
<1> QED
  BY <1>1, <1>2, FlattensAlike

(* There is such an f for each sequence of sequences.                       *)
LEMMA FlattensExists ==
  ASSUME NEW X, NEW s \in Seq(Seq(X))
  PROVE  \E f \in [1 .. Len(s) -> Seq(X)] : Flattens(f, s)
<1> DEFINE Upto(k, f) ==
             \A i \in 1 .. k : f[i] = IF i = 1 THEN s[i] ELSE f[i - 1] \o s[i]
           T == {k \in Nat : k <= Len(s) => \E f \in [1 .. k -> Seq(X)] : Upto(k, f)}
<1>1. 0 \in T
  <2>1. \A i \in 1 .. 0 : FALSE
    OBVIOUS
  <2>2. [i \in 1 .. 0 |-> s[i]] \in [1 .. 0 -> Seq(X)]
    BY <2>1
  <2>3. Upto(0, [i \in 1 .. 0 |-> s[i]])
    BY <2>1
  <2> QED
    BY <2>2, <2>3
<1>2. ASSUME NEW k \in T PROVE k + 1 \in T
  <2>0. k \in Nat /\ k + 1 \in Nat
    OBVIOUS
  <2> HIDE DEF Upto
  <2> SUFFICES ASSUME k + 1 <= Len(s)
               PROVE  \E f \in [1 .. k + 1 -> Seq(X)] : Upto(k + 1, f)
    BY <2>0
  <2>1. PICK f \in [1 .. k -> Seq(X)] : Upto(k, f)
    BY <2>0
  <2> USE DEF Upto
  <2>a. k \in Nat /\ s[k + 1] \in Seq(X) /\ (k = 0 => s[1] \in Seq(X))
    OBVIOUS
  <2>b. k # 0 => f[k] \in Seq(X)
    BY <2>a
  <2>c. k # 0 => f[k] \o s[k + 1] \in Seq(X)
    BY <2>a, <2>b
  <2>2. PICK last \in Seq(X) : last = IF k = 0 THEN s[1] ELSE f[k] \o s[k + 1]
    BY <2>a, <2>c
  <2> DEFINE g == [i \in 1 .. k + 1 |-> IF i = k + 1 THEN last ELSE f[i]]
  <2>3. g \in [1 .. k + 1 -> Seq(X)]
    OBVIOUS
  <2>4. ASSUME NEW i \in 1 .. k + 1
        PROVE  g[i] = IF i = 1 THEN s[i] ELSE g[i - 1] \o s[i]
    <3>1. CASE i = k + 1
      BY <2>2, <3>1
    <3>2. CASE i # k + 1
      <4>1. i \in 1 .. k /\ g[i] = f[i]
        BY <3>2
      <4>2. i # 1 => i - 1 \in 1 .. k + 1 /\ i - 1 # k + 1 /\ g[i - 1] = f[i - 1]
        BY <4>1
      <4> QED
        BY <2>1, <4>1, <4>2
    <3> QED
      BY <3>1, <3>2
  <2> QED
    BY <2>3, <2>4
<1> HIDE DEF T
<1>3. T = Nat
  BY <1>1, <1>2, NaturalsAll DEF T
<1>4. Len(s) \in Nat
  OBVIOUS
<1> HIDE DEF Upto
<1>5. PICK f \in [1 .. Len(s) -> Seq(X)] : Upto(Len(s), f)
  BY <1>3, <1>4 DEF T
<1> USE DEF Upto
<1>6. f = [i \in 1 .. Len(s) |-> f[i]]
  BY <1>5
<1>7. \A i \in 1 .. Len(s) : f[i] = IF i = 1 THEN s[i] ELSE f[i - 1] \o s[i]
  BY <1>5
<1> HIDE DEF Upto
<1>8. f = [i \in 1 .. Len(s) |-> IF i = 1 THEN s[i] ELSE f[i - 1] \o s[i]]
  BY <1>6, <1>7
<1>9. Flattens(f, s)
  BY <1>8 DEF Flattens
<1> QED
  BY <1>5, <1>9

LEMMA FlattenEmpty == FlattenSeq(<<>>) = <<>>
BY DEF FlattenSeq

(* A sequence more is appended to what the others give.                     *)
LEMMA FlattenAppend ==
  ASSUME NEW X, NEW s \in Seq(Seq(X)), NEW x \in Seq(X)
  PROVE  /\ FlattenSeq(s) \in Seq(X)
         /\ FlattenSeq(Append(s, x)) = FlattenSeq(s) \o x
<1>1. PICK f \in [1 .. Len(s) -> Seq(X)] : Flattens(f, s)
  BY FlattensExists
<1>2. PICK n \in Nat : n = Len(s)
  OBVIOUS
<1>a. Append(s, x) \in Seq(Seq(X))
  OBVIOUS
<1>3. PICK a \in Seq(Seq(X)) : a = Append(s, x)
  BY <1>a
<1>4. Len(a) = n + 1 /\ (\A i \in 1 .. n : a[i] = s[i]) /\ a[n + 1] = x
  BY <1>2, <1>3
<1>5. CASE n = 0
  <2>1. s = <<>>
    BY <1>2, <1>5, EmptySeq
  <2>2. FlattenSeq(s) = <<>>
    BY <2>1, FlattenEmpty
  <2> DEFINE h == [i \in 1 .. 1 |-> x]
  <2>3. h = [i \in 1 .. 1 |-> h[i]] /\ h[1] = x
    OBVIOUS
  <2> HIDE DEF h
  <2>4. h = [i \in 1 .. 1 |-> IF i = 1 THEN a[i] ELSE h[i - 1] \o a[i]]
    BY <1>4, <1>5, <2>3
  <2>4b. Flattens(h, a)
    BY <1>4, <1>5, <2>4 DEF Flattens
  <2>5. FlattenSeq(a) = h[1]
    <3>1. Len(a) = 1 /\ Len(a) \in Nat \ {0}
      BY <1>4, <1>5
    <3>2. FlattenSeq(a) = h[Len(a)]
      BY <2>4b, <3>1, FlattenSeqIs
    <3> QED
      BY <3>1, <3>2
  <2>6. <<>> \in Seq(X)
    OBVIOUS
  <2>7. <<>> \o x = x
    OBVIOUS
  <2> QED
    BY <1>3, <2>2, <2>3, <2>5, <2>6, <2>7
<1>6. CASE n # 0
  <2>1. FlattenSeq(s) = f[n] /\ f[n] \in Seq(X)
    <3>1. Len(s) \in Nat \ {0} /\ n \in 1 .. Len(s)
      BY <1>2, <1>6
    <3>2. FlattenSeq(s) = f[Len(s)]
      BY <1>1, <3>1, FlattenSeqIs
    <3> QED
      BY <1>2, <3>1, <3>2
  <2> DEFINE g == [i \in 1 .. n + 1 |-> IF i = n + 1 THEN f[n] \o x ELSE f[i]]
  <2>2. ASSUME NEW i \in 1 .. n + 1
        PROVE  g[i] = IF i = 1 THEN a[i] ELSE g[i - 1] \o a[i]
    <3>1. CASE i = n + 1
      <4>1. i # 1 /\ i - 1 = n /\ g[i] = f[n] \o x /\ g[n] = f[n]
        BY <1>6, <3>1
      <4> QED
        BY <1>4, <3>1, <4>1
    <3>2. CASE i # n + 1
      <4>1. i \in 1 .. n /\ g[i] = f[i] /\ a[i] = s[i]
        BY <1>4, <3>2
      <4>2. i # 1 => i - 1 \in 1 .. n + 1 /\ i - 1 # n + 1 /\ g[i - 1] = f[i - 1]
        BY <4>1
      <4>3. f[i] = IF i = 1 THEN s[i] ELSE f[i - 1] \o s[i]
        BY <1>1, <1>2, <4>1 DEF Flattens
      <4> QED
        BY <4>1, <4>2, <4>3
    <3> QED
      BY <3>1, <3>2
  <2>3. g[n + 1] = f[n] \o x /\ g = [i \in 1 .. n + 1 |-> g[i]]
    OBVIOUS
  <2> HIDE DEF g
  <2>4. g = [i \in 1 .. n + 1 |-> IF i = 1 THEN a[i] ELSE g[i - 1] \o a[i]]
    BY <2>2, <2>3
  <2>5. Flattens(g, a)
    BY <1>4, <2>4 DEF Flattens
  <2>6. FlattenSeq(a) = g[n + 1]
    <3>1. Len(a) \in Nat \ {0}
      BY <1>4
    <3> QED
      BY <1>4, <2>5, <3>1, FlattenSeqIs
  <2> QED
    BY <1>3, <2>1, <2>3, <2>6
<1> QED
  BY <1>5, <1>6

LEMMA FlattenType ==
  ASSUME NEW X, NEW s \in Seq(Seq(X))
  PROVE  FlattenSeq(s) \in Seq(X)
<1>1. <<>> \in Seq(X)
  OBVIOUS
<1> QED
  BY <1>1, FlattenAppend

LEMMA OnlyOne ==
  ASSUME NEW E, NEW t \in Seq(E), Len(t) = 1
  PROVE  /\ Head(t) \in E
         /\ Tail(t) = <<>>
         /\ t = Append(<<>>, Head(t))
<1>1. t # <<>>
  OBVIOUS
<1>2. Head(t) \in E /\ Head(t) = t[1]
  BY <1>1
<1>3. Tail(t) \in Seq(E) /\ Len(Tail(t)) = 0
  BY <1>1
<1>4. Tail(t) = <<>>
  BY <1>3, EmptySeq
<1>5. Append(<<>>, Head(t)) \in Seq(E) /\ Len(Append(<<>>, Head(t))) = 1
      /\ Append(<<>>, Head(t))[1] = t[1]
  BY <1>2
<1> QED
  BY <1>2, <1>4, <1>5

LEMMA FirstAndLast ==
  ASSUME NEW E, NEW t \in Seq(E), NEW n \in Nat, Len(t) = n + 2
  PROVE  LET front == SubSeq(t, 1, n + 1)
         IN  /\ front \in Seq(E) /\ Len(front) = n + 1 /\ Tail(front) \in Seq(E)
             /\ t[n + 2] \in E /\ Head(front) \in E /\ Head(t) = Head(front)
             /\ t = Append(front, t[n + 2])
             /\ Tail(t) = Append(Tail(front), t[n + 2])
<1>1. n + 1 \in Nat /\ n + 2 \in 1 .. Len(t) /\ n + 1 <= Len(t) /\ t # <<>>
  OBVIOUS
<1> DEFINE front == SubSeq(t, 1, n + 1)
<1>2. front \in Seq(E) /\ Len(front) = n + 1 /\ \A i \in 1 .. n + 1 : front[i] = t[i]
  BY <1>1
<1> HIDE DEF front
<1>3. front # <<>> /\ Head(front) = t[1] /\ Head(t) = t[1] /\ t[1] \in E /\ t[n + 2] \in E
  BY <1>1, <1>2
<1>4. /\ Append(front, t[n + 2]) \in Seq(E) /\ Len(Append(front, t[n + 2])) = n + 2
      /\ \A i \in 1 .. n + 2 : Append(front, t[n + 2])[i] = t[i]
  BY <1>1, <1>2, <1>3
<1>5. t = Append(front, t[n + 2])
  BY <1>4
<1> DEFINE rest == Tail(front)
<1>6. rest \in Seq(E) /\ Len(rest) = n /\ \A i \in 1 .. n : rest[i] = t[i + 1]
  BY <1>2, <1>3
<1> HIDE DEF rest
<1>7. Tail(t) \in Seq(E) /\ Len(Tail(t)) = n + 1 /\ \A i \in 1 .. n + 1 : Tail(t)[i] = t[i + 1]
  BY <1>1
<1>8. /\ Append(rest, t[n + 2]) \in Seq(E) /\ Len(Append(rest, t[n + 2])) = n + 1
      /\ \A i \in 1 .. n + 1 : Append(rest, t[n + 2])[i] = t[i + 1]
  BY <1>1, <1>3, <1>6
<1>9. Tail(t) = Append(rest, t[n + 2])
  BY <1>7, <1>8
<1> QED
  BY <1>2, <1>3, <1>5, <1>6, <1>9 DEF front, rest

LEMMA FlattenStep ==
  ASSUME NEW X, NEW front \in Seq(Seq(X)), NEW rest \in Seq(Seq(X)),
         NEW x \in Seq(X), NEW h \in Seq(X),
         FlattenSeq(front) = h \o FlattenSeq(rest)
  PROVE  FlattenSeq(Append(front, x)) = h \o FlattenSeq(Append(rest, x))
<1>1. PICK y \in Seq(X) : y = FlattenSeq(rest)
  BY FlattenType
<1>2. FlattenSeq(Append(front, x)) = (h \o y) \o x
  BY <1>1, FlattenAppend
<1>3. FlattenSeq(Append(rest, x)) = y \o x
  BY <1>1, FlattenAppend
<1>4. (h \o y) \o x = h \o (y \o x)
  BY SMTT(30), ConcatAssociative
<1> QED
  BY <1>2, <1>3, <1>4

(* What is left of it without the first sequence.                           *)
LEMMA FlattenHeadTail ==
  ASSUME NEW X, NEW s \in Seq(Seq(X)), s # <<>>
  PROVE  FlattenSeq(s) = Head(s) \o FlattenSeq(Tail(s))
<1> DEFINE Splits(t) == FlattenSeq(t) = Head(t) \o FlattenSeq(Tail(t))
           T == {n \in Nat : \A t \in Seq(Seq(X)) : Len(t) = n + 1 => Splits(t)}
<1> HIDE DEF Splits
<1>1. ASSUME NEW t \in Seq(Seq(X)), Len(t) = 1 PROVE Splits(t)
  <2>1. Head(t) \in Seq(X) /\ Tail(t) = <<>> /\ t = Append(<<>>, Head(t))
    BY <1>1, OnlyOne
  <2> DEFINE h == Head(t)
  <2>2. <<>> \in Seq(X) /\ <<>> \in Seq(Seq(X)) /\ <<>> \o h = h /\ h \o <<>> = h
    BY <2>1, ConcatEmptySeq, EmptySeq
  <2>3. Tail(t) = <<>> /\ t = Append(<<>>, h) /\ h \in Seq(X)
    BY <2>1
  <2>4. FlattenSeq(t) = FlattenSeq(<<>>) \o h
    BY <2>2, <2>3, FlattenAppend
  <2> QED
    BY <2>1, <2>2, <2>3, <2>4, FlattenEmpty DEF Splits
<1>2. ASSUME NEW n \in Nat, \A t \in Seq(Seq(X)) : Len(t) = n + 1 => Splits(t),
             NEW t \in Seq(Seq(X)), Len(t) = n + 2
      PROVE  Splits(t)
  <2> DEFINE front == SubSeq(t, 1, n + 1)
  <2>1. /\ front \in Seq(Seq(X)) /\ Len(front) = n + 1 /\ Tail(front) \in Seq(Seq(X))
        /\ t[n + 2] \in Seq(X) /\ Head(front) \in Seq(X) /\ Head(t) = Head(front)
        /\ t = Append(front, t[n + 2])
        /\ Tail(t) = Append(Tail(front), t[n + 2])
    BY ZenonT(30), <1>2, FirstAndLast
  <2> HIDE DEF front
  <2>2. FlattenSeq(front) = Head(front) \o FlattenSeq(Tail(front))
    BY <1>2, <2>1 DEF Splits
  <2>3. FlattenSeq(Append(front, t[n + 2]))
          = Head(front) \o FlattenSeq(Append(Tail(front), t[n + 2]))
    BY <2>1, <2>2, FlattenStep
  <2> QED
    BY <2>1, <2>3 DEF Splits
<1>3. 0 \in T
  BY <1>1
<1>4. ASSUME NEW n \in T PROVE n + 1 \in T
  <2>1. n \in Nat /\ n + 1 \in Nat /\ (n + 1) + 1 = n + 2
    OBVIOUS
  <2> QED
    BY <1>2, <2>1
<1> HIDE DEF T
<1>5. T = Nat
  BY <1>3, <1>4, NaturalsAll DEF T
<1>6. PICK m \in Nat \ {0} : Len(s) = m
  BY EmptySeq
<1>7. m - 1 \in Nat /\ m = (m - 1) + 1
  OBVIOUS
<1>8. Splits(s)
  BY <1>5, <1>6, <1>7 DEF T
<1> QED
  BY <1>8 DEF Splits

-------------------------------------------------------------------------------
(* Prefixes.                                                                *)

LEMMA PrefixSelf ==
  ASSUME NEW X, NEW s \in Seq(X), NEW t \in Seq(X)
  PROVE  IsPrefix(s, s \o t)
BY DEF IsPrefix

(* A prefix stays one when the sequence grows, and has prefixes.            *)
LEMMA PrefixGrows ==
  ASSUME NEW X, NEW s \in Seq(X), NEW t \in Seq(X), NEW u \in Seq(X), IsPrefix(s, t)
  PROVE  IsPrefix(s, t \o u)
<1>1. Len(s) <= Len(t \o u) /\ Len(s) \in Nat
  BY DEF IsPrefix
<1>2. ASSUME NEW i \in 1 .. Len(s) PROVE s[i] = (t \o u)[i]
  <2>1. i <= Len(t) /\ (t \o u)[i] = t[i]
    BY DEF IsPrefix
  <2>2. SubSeq(s, 1, Len(s))[i] = s[i] /\ SubSeq(t, 1, Len(s))[i] = t[i]
    BY DEF IsPrefix
  <2> QED
    BY <2>1, <2>2 DEF IsPrefix
<1> QED
  BY <1>1, <1>2 DEF IsPrefix

LEMMA PrefixOf ==
  ASSUME NEW X, NEW s \in Seq(X), NEW t \in Seq(X), NEW u \in Seq(X), IsPrefix(s \o u, t)
  PROVE  IsPrefix(s, t)
<1>1. Len(s) \in Nat /\ Len(u) \in Nat /\ Len(t) \in Nat /\ Len(s) <= Len(s \o u)
      /\ Len(s \o u) <= Len(t)
  BY DEF IsPrefix
<1>2. ASSUME NEW i \in 1 .. Len(s) PROVE s[i] = t[i]
  <2>1. i \in 1 .. Len(s \o u) /\ (s \o u)[i] = s[i]
    BY <1>1
  <2>2. SubSeq(s \o u, 1, Len(s \o u))[i] = (s \o u)[i] /\ SubSeq(t, 1, Len(s \o u))[i] = t[i]
    BY <1>1, <2>1
  <2> QED
    BY <2>1, <2>2 DEF IsPrefix
<1> QED
  BY <1>1, <1>2 DEF IsPrefix

-------------------------------------------------------------------------------
(* Sums over the values of a function.                                      *)

Some(s) == CHOOSE x \in s : TRUE

(* What FoldFunction computes: f[s] is the sum of g over the set s.         *)
Sums(f, g, S) ==
  f = [s \in SUBSET S |-> IF s = {} THEN 0 ELSE g[Some(s)] + f[s \ {Some(s)}]]

LEMMA SmallerSet ==
  ASSUME NEW s, s # {}, IsFiniteSet(s)
  PROVE  /\ Some(s) \in s /\ IsFiniteSet(s \ {Some(s)})
         /\ Cardinality(s) \in Nat \ {0}
         /\ Cardinality(s \ {Some(s)}) = Cardinality(s) - 1
         /\ Cardinality(s) - 1 \in Nat
<1>1. Some(s) \in s
  BY DEF Some
<1>2. /\ IsFiniteSet(s \ {Some(s)})
      /\ Cardinality(s \ {Some(s)}) = Cardinality(s) - 1
  BY <1>1, FS_RemoveElement
<1>3. Cardinality(s) \in Nat /\ Cardinality(s) # 0
  BY FS_CardinalityType, FS_EmptySet
<1> QED
  BY <1>1, <1>2, <1>3

LEMMA SumsAlike ==
  ASSUME NEW S, IsFiniteSet(S), NEW g, NEW f, NEW h, Sums(f, g, S), Sums(h, g, S),
         NEW s \in SUBSET S
  PROVE  f[s] = h[s]
<1> DEFINE T == {n \in Nat : \A t \in SUBSET S : Cardinality(t) = n => f[t] = h[t]}
<1>1. \A t \in SUBSET S : IsFiniteSet(t) /\ Cardinality(t) \in Nat
  BY FS_Subset, FS_CardinalityType
<1>2. 0 \in T
  <2>1. ASSUME NEW t \in SUBSET S, Cardinality(t) = 0 PROVE f[t] = h[t]
    <3>1. t = {}
      BY <1>1, <2>1, FS_EmptySet
    <3> QED
      BY <3>1 DEF Sums
  <2> QED
    BY <2>1
<1>3. ASSUME NEW n \in T PROVE n + 1 \in T
  <2>1. ASSUME NEW t \in SUBSET S, Cardinality(t) = n + 1 PROVE f[t] = h[t]
    <3>1. t # {}
      <4>1. Cardinality({}) = 0
        BY FS_EmptySet
      <4>2. n \in Nat /\ Cardinality(t) # 0
        BY <1>3, <2>1 DEF T
      <4> QED
        BY ONLY <4>1, <4>2
    <3>2. t \ {Some(t)} \in SUBSET S /\ Cardinality(t \ {Some(t)}) = n
      BY <1>1, <2>1, <3>1, SmallerSet
    <3>3. f[t \ {Some(t)}] = h[t \ {Some(t)}]
      BY <3>2
    <3> QED
      BY ZenonT(60), <3>1, <3>3 DEF Sums
  <2> QED
    BY <2>1
<1> HIDE DEF T
<1>4. T = Nat
  BY <1>2, <1>3, NaturalsAll DEF T
<1> QED
  BY <1>1, <1>4 DEF T

(* There is such an f for each function on a finite set.                    *)
LEMMA SumsExists ==
  ASSUME NEW S, IsFiniteSet(S), NEW g \in [S -> Int]
  PROVE  \E f \in [SUBSET S -> Int] : Sums(f, g, S)
<1> DEFINE Value(f, s) == IF s = {} THEN 0 ELSE g[Some(s)] + f[s \ {Some(s)}]
           Upto(n, f) == \A s \in SUBSET S : Cardinality(s) <= n => f[s] = Value(f, s)
           T == {n \in Nat : \E f \in [SUBSET S -> Int] : Upto(n, f)}
<1>1. \A t \in SUBSET S : IsFiniteSet(t) /\ Cardinality(t) \in Nat
  BY FS_Subset, FS_CardinalityType
<1>2. 0 \in T
  <2> DEFINE f == [s \in SUBSET S |-> 0]
  <2>1. f \in [SUBSET S -> Int]
    OBVIOUS
  <2>2. ASSUME NEW s \in SUBSET S, Cardinality(s) <= 0 PROVE f[s] = Value(f, s)
    <3>1. s = {}
      BY <1>1, <2>2, FS_EmptySet
    <3> QED
      BY <3>1
  <2> QED
    BY <2>1, <2>2
<1>3. ASSUME NEW n \in T PROVE n + 1 \in T
  <2>0. n \in Nat /\ n + 1 \in Nat
    OBVIOUS
  <2>1. PICK f \in [SUBSET S -> Int] : Upto(n, f)
    OBVIOUS
  <2> DEFINE h == [s \in SUBSET S |-> Value(f, s)]
  <2>2. ASSUME NEW s \in SUBSET S, s # {}
        PROVE  Some(s) \in S /\ s \ {Some(s)} \in SUBSET S
    BY <2>2 DEF Some
  <2>3. h \in [SUBSET S -> Int]
    <3>1. \A s \in SUBSET S : Value(f, s) \in Int
      BY <2>2
    <3> QED
      BY <3>1
  <2>4. ASSUME NEW s \in SUBSET S, Cardinality(s) <= n + 1 PROVE h[s] = Value(h, s)
    <3>1. CASE s = {}
      BY <3>1
    <3>2. CASE s # {}
      <4>1. Cardinality(s \ {Some(s)}) <= n
        <5>1. /\ Cardinality(s) \in Nat
              /\ Cardinality(s \ {Some(s)}) = Cardinality(s) - 1
          BY <1>1, <3>2, SmallerSet
        <5> HIDE DEF T, Upto, h
        <5> QED
          BY <2>0, <2>4, <5>1
      <4>2. s \ {Some(s)} \in SUBSET S
        BY <2>2, <3>2
      <4>3. f[s \ {Some(s)}] = h[s \ {Some(s)}]
        BY <2>1, <4>1, <4>2
      <4> QED
        BY <3>2, <4>3
    <3> QED
      BY <3>1, <3>2
  <2> QED
    BY <2>0, <2>3, <2>4
<1> HIDE DEF T
<1>4. T = Nat
  BY <1>2, <1>3, NaturalsAll DEF T
<1>5. PICK f \in [SUBSET S -> Int] : Upto(Cardinality(S), f)
  BY <1>1, <1>4 DEF T
<1>6. ASSUME NEW s \in SUBSET S PROVE f[s] = Value(f, s)
  <2>1. Cardinality(s) <= Cardinality(S)
    BY FS_Subset
  <2> QED
    BY <1>5, <2>1
<1>7. f = [s \in SUBSET S |-> f[s]]
  OBVIOUS
<1>8. f = [s \in SUBSET S |-> Value(f, s)]
  BY <1>6, <1>7
<1> QED
  BY <1>8 DEF Sums

(* The sum of the values of a function.                                     *)
Total(g) == FoldFunction(+, 0, g)

LEMMA TotalIs ==
  ASSUME NEW S, IsFiniteSet(S), NEW g, DOMAIN g = S, NEW f, Sums(f, g, S)
  PROVE  Total(g) = f[S]
<1> DEFINE chosen == CHOOSE h : Sums(h, g, S)
<1>1. Sums(chosen, g, S)
  OBVIOUS
<1> HIDE DEF chosen
<1>2. chosen[S] = f[S]
  BY <1>1, SumsAlike
<1> USE DEF chosen
<1> QED
  BY <1>2 DEF Total, FoldFunction, FoldFunctionOnSet, MapThenFoldSet, Sums, Some

LEMMA TotalOfZeros ==
  ASSUME NEW S, IsFiniteSet(S)
  PROVE  Total([x \in S |-> 0]) = 0
<1> DEFINE g == [x \in S |-> 0]
           f == [s \in SUBSET S |-> 0]
<1>1. \A s \in SUBSET S : s # {} => Some(s) \in S /\ s \ {Some(s)} \in SUBSET S
  BY DEF Some
<1>2. \A s \in SUBSET S : f[s] = IF s = {} THEN 0 ELSE g[Some(s)] + f[s \ {Some(s)}]
  BY <1>1
<1>3. Sums(f, g, S)
  BY <1>2 DEF Sums
<1>4. f[S] = 0 /\ DOMAIN g = S
  OBVIOUS
<1> HIDE DEF f, g
<1>5. Total(g) = 0
  BY <1>3, <1>4, TotalIs
<1> QED
  BY <1>5 DEF g

(* One value that grows by n makes the sum grow by n.                       *)
LEMMA TotalGrows ==
  ASSUME NEW S, IsFiniteSet(S), NEW g \in [S -> Int], NEW h \in [S -> Int],
         NEW c \in S, NEW n \in Int, h[c] = g[c] + n,
         \A x \in S \ {c} : h[x] = g[x]
  PROVE  Total(h) = Total(g) + n
<1>1. PICK f \in [SUBSET S -> Int] : Sums(f, g, S)
  BY SumsExists
<1> DEFINE e == [s \in SUBSET S |-> f[s] + (IF c \in s THEN n ELSE 0)]
<1>2. ASSUME NEW s \in SUBSET S
      PROVE  e[s] = IF s = {} THEN 0 ELSE h[Some(s)] + e[s \ {Some(s)}]
  <2>1. CASE s = {}
    BY <1>1, <2>1 DEF Sums
  <2>2. CASE s # {}
    <3>1. Some(s) \in s /\ Some(s) \in S /\ s \ {Some(s)} \in SUBSET S
      BY <2>2 DEF Some
    <3>2. f[s] = g[Some(s)] + f[s \ {Some(s)}]
      BY <1>1, <2>2 DEF Sums
    <3>3. /\ f[s] \in Int /\ f[s \ {Some(s)}] \in Int
          /\ g[Some(s)] \in Int /\ h[Some(s)] \in Int
      BY <3>1
    <3>4. /\ e[s] = f[s] + (IF c \in s THEN n ELSE 0)
          /\ e[s \ {Some(s)}] = f[s \ {Some(s)}]
                                  + (IF c \in s \ {Some(s)} THEN n ELSE 0)
      BY <3>1
    <3>5. CASE Some(s) = c
      BY <2>2, <3>1, <3>2, <3>3, <3>4, <3>5
    <3>6. CASE Some(s) # c
      BY <2>2, <3>1, <3>2, <3>3, <3>4, <3>6
    <3> QED
      BY <3>5, <3>6
  <2> QED
    BY <2>1, <2>2
<1>3. Sums(e, h, S)
  BY <1>2 DEF Sums
<1>4. e[S] = f[S] + n /\ DOMAIN g = S /\ DOMAIN h = S
  OBVIOUS
<1> HIDE DEF e
<1>5. Total(h) = e[S]
  BY <1>3, <1>4, TotalIs
<1>6. Total(g) = f[S]
  BY <1>1, <1>4, TotalIs
<1> QED
  BY <1>4, <1>5, <1>6

-------------------------------------------------------------------------------
(* Concatenations.                                                          *)

LEMMA Splits ==
  ASSUME NEW E, NEW t \in Seq(E), NEW k \in Nat, k <= Len(t)
  PROVE  /\ SubSeq(t, 1, k) \in Seq(E) /\ SubSeq(t, k + 1, Len(t)) \in Seq(E)
         /\ Len(SubSeq(t, 1, k)) = k /\ Len(SubSeq(t, k + 1, Len(t))) = Len(t) - k
         /\ \A i \in 1 .. k : SubSeq(t, 1, k)[i] = t[i]
         /\ \A i \in 1 .. Len(t) - k : SubSeq(t, k + 1, Len(t))[i] = t[k + i]
         /\ SubSeq(t, 1, k) \o SubSeq(t, k + 1, Len(t)) = t
<1>1. PICK m \in Nat : m = Len(t)
  OBVIOUS
<1>2. \A i \in 1 .. m : t[i] \in E
  BY <1>1
<1> DEFINE a == SubSeq(t, 1, k)
           b == SubSeq(t, k + 1, m)
<1>3. a \in Seq(E) /\ Len(a) = k /\ \A i \in 1 .. k : a[i] = t[i]
  BY <1>1, <1>2
<1>4. b \in Seq(E) /\ Len(b) = m - k /\ \A i \in 1 .. m - k : b[i] = t[k + i]
  <2>1. /\ b \in Seq(E)
        /\ Len(b) = IF k + 1 <= m THEN m - (k + 1) + 1 ELSE 0
        /\ \A i \in 1 .. m - (k + 1) + 1 : b[i] = t[(k + 1) + i - 1]
    <3>1. \A i \in k + 1 .. m : t[i] \in E
      BY <1>2
    <3>2. k + 1 \in Int /\ m \in Int
      OBVIOUS
    <3> QED
      BY ONLY <3>1, <3>2, SubSeqProperties
  <2>2. m - (k + 1) + 1 = m - k /\ k <= m
    BY <1>1
  <2>3. \A i \in 1 .. m - k : (k + 1) + i - 1 = k + i
    OBVIOUS
  <2> HIDE DEF b
  <2>4. Len(b) = m - k
    BY <2>1, <2>2
  <2> QED
    BY <2>1, <2>2, <2>3, <2>4
<1> HIDE DEF a, b
<1>5. /\ a \o b \in Seq(E) /\ Len(a \o b) = Len(a) + Len(b)
      /\ \A i \in 1 .. Len(a) + Len(b) :
           (a \o b)[i] = IF i <= Len(a) THEN a[i] ELSE b[i - Len(a)]
  BY ONLY <1>3, <1>4, ConcatProperties
<1>6. a \o b = t
  <2>1. Len(a \o b) = Len(t)
    BY <1>1, <1>3, <1>4, <1>5
  <2>2. ASSUME NEW i \in 1 .. Len(a \o b) PROVE (a \o b)[i] = t[i]
    <3>1. i \in 1 .. m /\ (a \o b)[i] = IF i <= k THEN a[i] ELSE b[i - k]
      BY <1>1, <1>3, <1>4, <1>5, <2>1
    <3>2. i <= k => i \in 1 .. k
      BY <3>1
    <3>3. ~(i <= k) => i - k \in 1 .. m - k /\ k + (i - k) = i
      BY <3>1
    <3> QED
      BY <1>3, <1>4, <3>1, <3>2, <3>3
  <2> QED
    BY ONLY <1>5, <2>1, <2>2, t \in Seq(E), SeqEqual
<1> QED
  BY <1>1, <1>3, <1>4, <1>6 DEF a, b

LEMMA HeadTailOfConcat ==
  ASSUME NEW E, NEW s \in Seq(E), NEW t \in Seq(E), s # <<>>
  PROVE  s \o t # <<>> /\ Head(s \o t) = Head(s) /\ Tail(s \o t) = Tail(s) \o t
<1>1. Head(s) \in E /\ Tail(s) \in Seq(E) /\ Len(Tail(s)) = Len(s) - 1
      /\ Head(s) = s[1] /\ \A i \in 1 .. Len(Tail(s)) : Tail(s)[i] = s[i + 1]
  BY HeadTailProperties
<1>2. PICK m \in Nat, l \in Nat : Len(s) = m + 1 /\ Len(t) = l
  <2>1. Len(s) \in Nat /\ Len(s) # 0 /\ Len(t) \in Nat
    BY EmptySeq
  <2>2. Len(s) - 1 \in Nat /\ Len(s) = (Len(s) - 1) + 1
    BY <2>1
  <2> QED
    BY <2>1, <2>2
<1>a. s \o t \in Seq(E)
  BY ConcatProperties
<1>3. PICK c \in Seq(E) : c = s \o t
  BY <1>a
<1>4. /\ Len(c) = m + 1 + l
      /\ \A i \in 1 .. m + 1 + l : c[i] = IF i <= m + 1 THEN s[i] ELSE t[i - (m + 1)]
  <2>1. /\ Len(s \o t) = Len(s) + Len(t)
        /\ \A i \in 1 .. Len(s) + Len(t) :
             (s \o t)[i] = IF i <= Len(s) THEN s[i] ELSE t[i - Len(s)]
    BY ONLY s \in Seq(E), t \in Seq(E), ConcatProperties
  <2> QED
    BY ONLY <1>2, <1>3, <2>1
<1>5. c # <<>>
  <2>1. Len(c) # 0
    BY <1>4
  <2> QED
    BY ONLY <2>1, EmptySeq, c \in Seq(E)
<1>b. Tail(c) \in Seq(E)
  BY ONLY <1>5, c \in Seq(E), HeadTailProperties
<1>6. PICK h \in Seq(E) : h = Tail(c)
  BY <1>b
<1>7. Len(h) = m + l /\ \A i \in 1 .. m + l : h[i] = c[i + 1]
  BY <1>4, <1>5, <1>6
<1>8. PICK r \in Seq(E) : r = Tail(s)
  BY <1>1
<1>9. Len(r) = m /\ \A i \in 1 .. m : r[i] = s[i + 1]
  BY <1>1, <1>2, <1>8
<1>c. r \o t \in Seq(E)
  BY ConcatProperties
<1>10. PICK u \in Seq(E) : u = r \o t
  BY <1>c
<1>11. /\ Len(u) = m + l
       /\ \A i \in 1 .. m + l : u[i] = IF i <= m THEN r[i] ELSE t[i - m]
  BY ZenonT(60), <1>2, <1>9, <1>10, ConcatProperties
<1>12. ASSUME NEW i \in 1 .. m + l PROVE h[i] = u[i]
  <2>1. i + 1 \in 1 .. m + 1 + l /\ (i + 1 <= m + 1 <=> i <= m) /\ (i + 1) - (m + 1) = i - m
    OBVIOUS
  <2>2. i <= m => i \in 1 .. m
    OBVIOUS
  <2> QED
    BY ZenonT(30), <1>4, <1>7, <1>9, <1>11, <2>1, <2>2
<1>13. h = u
  BY <1>7, <1>11, <1>12, SeqEqual
<1>14. Head(c) = c[1] /\ c[1] = s[1]
  <2>1. 1 \in 1 .. m + 1 + l /\ 1 <= m + 1
    BY <1>2
  <2> QED
    BY <1>4, <1>5, <2>1
<1> QED
  BY <1>1, <1>3, <1>5, <1>6, <1>8, <1>10, <1>13, <1>14

LEMMA ConcatOfAppend ==
  ASSUME NEW E, NEW s \in Seq(E), NEW t \in Seq(E), NEW x \in E
  PROVE  /\ s \o t \in Seq(E)
         /\ s \o Append(t, x) = Append(s \o t, x)
<1>a. <<x>> \in Seq(E) /\ s \o t \in Seq(E)
  BY ConcatProperties
<1>1. PICK one \in Seq(E) : one = <<x>>
  BY <1>a
<1>2. PICK c \in Seq(E) : c = s \o t
  BY <1>a
<1>3. Append(t, x) = t \o one /\ Append(c, x) = c \o one
  BY ONLY <1>1, t \in Seq(E), c \in Seq(E), x \in E, AppendIsConcat
<1>4. (s \o t) \o one = s \o (t \o one)
  BY ONLY s \in Seq(E), t \in Seq(E), one \in Seq(E), ConcatAssociative
<1> QED
  BY <1>2, <1>3, <1>4
================================================================================
