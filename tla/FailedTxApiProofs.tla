-------------------------- MODULE FailedTxApiProofs --------------------------
(***************************************************************************)
(* Proofs for module FailedTxApi: what parse_trace makes of a trace, what  *)
(* the tables hold of it whenever blocks are interrupted, processed again  *)
(* or rolled back, and what the two endpoints answer beside that.          *)
(***************************************************************************)
EXTENDS FailedTxApi, FiniteSetTheorems, SequenceTheorems, WellFoundedInduction, TLAPS

-----------------------------------------------------------------------------
(* Induction *)

\* A set of natural numbers that is not empty has a least element.
LEMMA LeastOfNats ==
  ASSUME NEW T, T \subseteq Nat, T # {}
  PROVE  \E x \in T : \A y \in T : x <= y
<1> DEFINE R == OpToRel(<, Nat)
<1>1. IsWellFoundedOn(R, Nat)
  BY NatLessThanWellFounded
<1>2. \A x, y \in Nat : x < y => <<x, y>> \in R
  BY DEF OpToRel
<1> HIDE DEF R
<1>3. PICK x \in T : \A y \in T : ~(<<y, x>> \in R)
  BY <1>1, WFMin
<1>4. ASSUME NEW y \in T  PROVE x <= y
  <2>1. x \in Nat /\ y \in Nat
    OBVIOUS
  <2>2. ~(y < x)
    BY <1>2, <1>3, <2>1
  <2> QED  BY <2>1, <2>2
<1> QED  BY <1>4

\* A set that holds 0, and n + 1 with n, holds every natural number.
LEMMA Induct ==
  ASSUME NEW P, 0 \in P, \A n \in Nat : n \in P => n + 1 \in P
  PROVE  \A n \in Nat : n \in P
<1> SUFFICES ASSUME NEW m \in Nat, m \notin P  PROVE FALSE
  OBVIOUS
<1> DEFINE T == {n \in Nat : n \notin P}
<1>1. T \subseteq Nat /\ T # {}
  OBVIOUS
<1>2. PICK x \in T : \A y \in T : x <= y
  <2> HIDE DEF T
  <2> QED  BY <1>1, LeastOfNats
<1>3. x \in Nat /\ x # 0
  OBVIOUS
<1>4. x - 1 \in Nat /\ x - 1 \notin T
  <2>1. x - 1 \in Nat /\ ~(x <= x - 1)
    BY <1>3
  <2> QED  BY <2>1, <1>2
<1>5. (x - 1) + 1 = x
  BY <1>3
<1> QED  BY <1>4, <1>5

\* A set that holds the empty sequence, and with a sequence what is one
\* element longer, holds every sequence.
LEMMA SeqInduct ==
  ASSUME NEW S, NEW P, <<>> \in P,
         \A s \in Seq(S) : \A e \in S : s \in P => Append(s, e) \in P
  PROVE  \A s \in Seq(S) : s \in P
<1> DEFINE N == {n \in Nat : \A s \in Seq(S) : Len(s) = n => s \in P}
<1>1. 0 \in N
  <2>1. ASSUME NEW s \in Seq(S), Len(s) = 0  PROVE s = <<>>
    BY <2>1, EmptySeq
  <2> QED  BY <2>1
<1>2. ASSUME NEW n \in Nat, n \in N  PROVE n + 1 \in N
  <2> SUFFICES ASSUME NEW s \in Seq(S), Len(s) = n + 1  PROVE s \in P
    OBVIOUS
  <2>1. s # <<>>
    BY EmptySeq
  <2>2. PICK t \in Seq(S), e \in S : s = Append(t, e)
    BY <2>1, SequenceEmptyOrAppend
  <2>3. Len(t) \in Nat /\ Len(s) = Len(t) + 1
    BY <2>2
  <2>4. Len(t) = n
    BY <2>3
  <2>5. t \in P
    BY <2>4, <1>2
  <2> QED  BY <2>2, <2>5
<1>3. \A n \in Nat : n \in N
  <2> HIDE DEF N
  <2> QED  BY <1>1, <1>2, Induct
<1>4. ASSUME NEW s \in Seq(S)  PROVE s \in P
  <2>1. Len(s) \in Nat
    OBVIOUS
  <2>2. Len(s) \in N
    BY <2>1, <1>3
  <2> QED  BY <2>2
<1> QED  BY <1>4

-----------------------------------------------------------------------------
(* FlattenSeq *)

IsFlat(g, s) == g = [i \in 1 .. Len(s) |-> IF i = 1 THEN s[i] ELSE g[i - 1] \o s[i]]

\* FlattenSeq takes the last value of a recursive function.
LEMMA FlatDef ==
  ASSUME NEW s, Len(s) # 0
  PROVE  FlattenSeq(s) = (CHOOSE g : IsFlat(g, s))[Len(s)]
BY DEF FlattenSeq, IsFlat

\* g holds what the first n parts of s come to.
RunsTo(g, s, n) == g[0] = <<>> /\ \A i \in 1 .. n : g[i] = g[i - 1] \o s[i]
Runs(g, s) == RunsTo(g, s, Len(s))

\* There is such a g for every s.
LEMMA RunExists ==
  ASSUME NEW S, NEW s \in Seq(Seq(S))
  PROVE  \E g \in [0 .. Len(s) -> Seq(S)] : Runs(g, s)
<1> DEFINE Some(n) == \E g \in [0 .. n -> Seq(S)] : RunsTo(g, s, n)
           P == {n \in Nat : n <= Len(s) => Some(n)}
<1>0. Len(s) \in Nat /\ \A i \in 1 .. Len(s) : s[i] \in Seq(S)
  BY LenProperties, ElementOfSeq
<1>1. 0 \in P
  <2> DEFINE g == [i \in 0 .. 0 |-> <<>>]
  <2>1. g \in [0 .. 0 -> Seq(S)] /\ g[0] = <<>>
    BY EmptySeq
  <2>2. \A i \in 1 .. 0 : FALSE
    OBVIOUS
  <2>3. RunsTo(g, s, 0)
    BY <2>1, <2>2 DEF RunsTo
  <2> QED  BY <2>1, <2>3
<1>2. ASSUME NEW n \in Nat, n \in P  PROVE n + 1 \in P
  <2> SUFFICES ASSUME n + 1 <= Len(s)  PROVE Some(n + 1)
    OBVIOUS
  <2>1. n <= Len(s)
    BY <1>0
  <2>2. PICK g \in [0 .. n -> Seq(S)] : RunsTo(g, s, n)
    BY <2>1, <1>2
  <2>3. g[n] \o s[n + 1] \in Seq(S)
    <3>1. n + 1 \in 1 .. Len(s) /\ n \in 0 .. n
      BY <1>0
    <3>2. s[n + 1] \in Seq(S) /\ g[n] \in Seq(S)
      BY <1>0, <3>1
    <3> QED  BY <3>2, ConcatProperties
  <2> DEFINE h == [i \in 0 .. n + 1 |-> IF i <= n THEN g[i] ELSE g[n] \o s[n + 1]]
  <2>4. h \in [0 .. n + 1 -> Seq(S)]
    <3>1. ASSUME NEW i \in 0 .. n + 1  PROVE (IF i <= n THEN g[i] ELSE g[n] \o s[n + 1]) \in Seq(S)
      <4>1. i <= n => i \in 0 .. n
        OBVIOUS
      <4> QED  BY <4>1, <2>3
    <3> QED  BY <3>1
  <2>5. h[0] = g[0]
    OBVIOUS
  <2>6. ASSUME NEW i \in 1 .. n + 1  PROVE h[i] = h[i - 1] \o s[i]
    <3>1. i - 1 \in 0 .. n + 1 /\ i - 1 <= n
      OBVIOUS
    <3>2. h[i - 1] = g[i - 1]
      BY <3>1
    <3> HIDE DEF h
    <3>3. CASE i <= n
      <4>1. i \in 1 .. n
        BY <3>3
      <4>2. h[i] = g[i]
        BY <3>3 DEF h
      <4>3. g[i] = g[i - 1] \o s[i]
        BY <4>1, <2>2 DEF RunsTo
      <4> QED  BY <4>2, <4>3, <3>2
    <3>4. CASE i = n + 1
      <4>1. h[i] = g[n] \o s[n + 1]
        BY <3>4 DEF h
      <4>2. i - 1 = n
        BY <3>4
      <4> QED  BY <4>1, <4>2, <3>2, <3>4
    <3>5. i <= n \/ i = n + 1
      OBVIOUS
    <3> QED  BY <3>3, <3>4, <3>5
  <2>7. RunsTo(h, s, n + 1)
    <3> HIDE DEF h
    <3> QED  BY <2>2, <2>5, <2>6 DEF RunsTo
  <2> HIDE DEF h
  <2> QED  BY <2>4, <2>7
<1>3. \A n \in Nat : n \in P
  <2> HIDE DEF P
  <2> QED  BY <1>1, <1>2, Induct
<1>4. Len(s) \in P
  BY <1>0, <1>3
<1>5. Some(Len(s))
  BY <1>0, <1>4
<1> QED  BY <1>5 DEF Runs

\* Two of them agree.
LEMMA RunUnique ==
  ASSUME NEW s, Len(s) \in Nat, NEW g, NEW h, Runs(g, s), Runs(h, s)
  PROVE  \A i \in 0 .. Len(s) : g[i] = h[i]
<1> DEFINE P == {n \in Nat : n <= Len(s) => g[n] = h[n]}
<1>1. 0 \in P
  BY DEF Runs, RunsTo
<1>2. ASSUME NEW n \in Nat, n \in P  PROVE n + 1 \in P
  <2> SUFFICES ASSUME n + 1 <= Len(s)  PROVE g[n + 1] = h[n + 1]
    OBVIOUS
  <2>1. n + 1 \in 1 .. Len(s) /\ (n + 1) - 1 = n /\ n <= Len(s)
    OBVIOUS
  <2>2. g[n] = h[n]
    BY <2>1, <1>2
  <2>3. g[n + 1] = g[(n + 1) - 1] \o s[n + 1] /\ h[n + 1] = h[(n + 1) - 1] \o s[n + 1]
    BY <2>1 DEF Runs, RunsTo
  <2> QED  BY <2>1, <2>2, <2>3
<1>3. \A n \in Nat : n \in P
  <2> HIDE DEF P
  <2> QED  BY <1>1, <1>2, Induct
<1> QED  BY <1>3

\* FlattenSeq is the last value of any of them.
LEMMA FlattenIsRun ==
  ASSUME NEW S, NEW s \in Seq(Seq(S)), NEW g, Runs(g, s)
  PROVE  FlattenSeq(s) = g[Len(s)]
<1>0. Len(s) \in Nat /\ \A i \in 1 .. Len(s) : s[i] \in Seq(S)
  BY LenProperties, ElementOfSeq
<1>1. CASE Len(s) = 0
  <2>1. s = <<>>
    BY <1>1, EmptySeq
  <2> QED  BY <1>1, <2>1 DEF FlattenSeq, Runs, RunsTo
<1>2. CASE Len(s) # 0
  <2>1. PICK r \in [0 .. Len(s) -> Seq(S)] : Runs(r, s)
    BY RunExists
  <2> DEFINE f == [i \in 1 .. Len(s) |-> r[i]]
  <2>2. \A i \in 1 .. Len(s) : f[i] = IF i = 1 THEN s[i] ELSE f[i - 1] \o s[i]
    <3> SUFFICES ASSUME NEW i \in 1 .. Len(s)  PROVE f[i] = IF i = 1 THEN s[i] ELSE f[i - 1] \o s[i]
      OBVIOUS
    <3>1. r[i] = r[i - 1] \o s[i]
      BY <2>1 DEF Runs, RunsTo
    <3>2. CASE i = 1
      <4>1. r[i - 1] = <<>>
        BY <2>1, <3>2 DEF Runs, RunsTo
      <4>2. <<>> \o s[i] = s[i]
        BY <1>0, ConcatEmptySeq
      <4> QED  BY <3>1, <3>2, <4>1, <4>2
    <3>3. CASE i # 1
      <4>1. i - 1 \in 1 .. Len(s)
        BY <3>3, <1>0
      <4> QED  BY <3>1, <3>3, <4>1
    <3> QED  BY <3>2, <3>3
  <2>3. f = [i \in 1 .. Len(s) |-> IF i = 1 THEN s[i] ELSE f[i - 1] \o s[i]]
    <3> DEFINE k == [i \in 1 .. Len(s) |-> IF i = 1 THEN s[i] ELSE f[i - 1] \o s[i]]
    <3>1. DOMAIN f = 1 .. Len(s) /\ DOMAIN k = 1 .. Len(s)
      OBVIOUS
    <3>2. \A i \in 1 .. Len(s) : f[i] = k[i]
      BY <2>2
    <3>3. f = [i \in 1 .. Len(s) |-> f[i]] /\ k = [i \in 1 .. Len(s) |-> k[i]]
      OBVIOUS
    <3> QED  BY <3>2, <3>3
  <2>4. IsFlat(f, s)
    <3> HIDE DEF f
    <3> QED  BY <2>3 DEF IsFlat
  <2> DEFINE c == CHOOSE x : IsFlat(x, s)
  <2>5. IsFlat(c, s)
    BY <2>4
  <2> HIDE DEF c
  <2>6. c = [i \in 1 .. Len(s) |-> IF i = 1 THEN s[i] ELSE c[i - 1] \o s[i]]
    BY <2>5 DEF IsFlat
  <2> DEFINE d == [i \in 0 .. Len(s) |-> IF i = 0 THEN <<>> ELSE c[i]]
  <2>7. Runs(d, s)
    <3>1. d[0] = <<>>
      BY <1>0
    <3>2. ASSUME NEW i \in 1 .. Len(s)  PROVE d[i] = d[i - 1] \o s[i]
      <4>1. c[i] = IF i = 1 THEN s[i] ELSE c[i - 1] \o s[i]
        BY <2>6
      <4>2. d[i] = c[i]
        BY <1>0
      <4>3. CASE i = 1
        <5>1. d[i - 1] = <<>>
          BY <4>3, <3>1
        <5>2. <<>> \o s[i] = s[i]
          BY <1>0, ConcatEmptySeq
        <5> QED  BY <4>1, <4>2, <4>3, <5>1, <5>2
      <4>4. CASE i # 1
        <5>1. i - 1 \in 0 .. Len(s) /\ i - 1 # 0
          BY <4>4, <1>0
        <5>2. d[i - 1] = c[i - 1]
          BY <5>1
        <5> QED  BY <4>1, <4>2, <4>4, <5>2
      <4> QED  BY <4>3, <4>4
    <3> HIDE DEF d
    <3> QED  BY <3>1, <3>2 DEF Runs, RunsTo
  <2>8. d[Len(s)] = g[Len(s)]
    <3>1. Len(s) \in 0 .. Len(s)
      BY <1>0
    <3> HIDE DEF d
    <3> QED  BY <1>0, <2>7, <3>1, RunUnique
  <2>9. d[Len(s)] = c[Len(s)]
    BY <1>0, <1>2
  <2>10. FlattenSeq(s) = c[Len(s)]
    BY <1>2, FlatDef DEF c
  <2> QED  BY <2>8, <2>9, <2>10
<1> QED  BY <1>1, <1>2

\* What FlattenSeq makes of no sequence, and of one more.
LEMMA FlattenAppend ==
  ASSUME NEW S
  PROVE  /\ FlattenSeq(<<>>) = <<>>
         /\ \A s \in Seq(Seq(S)) : FlattenSeq(s) \in Seq(S)
         /\ \A s \in Seq(Seq(S)) : \A e \in Seq(S) : FlattenSeq(Append(s, e)) = FlattenSeq(s) \o e
<1>1. FlattenSeq(<<>>) = <<>>
  BY DEF FlattenSeq
<1>2. ASSUME NEW s \in Seq(Seq(S))  PROVE FlattenSeq(s) \in Seq(S)
  <2>1. PICK g \in [0 .. Len(s) -> Seq(S)] : Runs(g, s)
    BY RunExists
  <2>2. FlattenSeq(s) = g[Len(s)]
    BY <2>1, FlattenIsRun
  <2>3. Len(s) \in 0 .. Len(s)
    BY LenProperties
  <2> QED  BY <2>2, <2>3
<1>3. ASSUME NEW s \in Seq(Seq(S)), NEW e \in Seq(S)
      PROVE  FlattenSeq(Append(s, e)) = FlattenSeq(s) \o e
  <2> DEFINE t == Append(s, e)
  <2>1. t \in Seq(Seq(S)) /\ Len(t) = Len(s) + 1 /\ Len(s) \in Nat
    BY AppendProperties, LenProperties
  <2>2. t[Len(s) + 1] = e /\ \A i \in 1 .. Len(s) : t[i] = s[i]
    BY AppendProperties
  <2> HIDE DEF t
  <2>3. PICK g \in [0 .. Len(t) -> Seq(S)] : Runs(g, t)
    BY <2>1, RunExists
  <2>4. FlattenSeq(t) = g[Len(t)]
    BY <2>1, <2>3, FlattenIsRun
  <2>5. Runs(g, s)
    <3>1. g[0] = <<>>
      BY <2>3 DEF Runs, RunsTo
    <3>2. ASSUME NEW i \in 1 .. Len(s)  PROVE g[i] = g[i - 1] \o s[i]
      <4>1. i \in 1 .. Len(t)
        BY <2>1
      <4>2. g[i] = g[i - 1] \o t[i]
        BY <4>1, <2>3 DEF Runs, RunsTo
      <4> QED  BY <4>2, <2>2
    <3> QED  BY <3>1, <3>2 DEF Runs, RunsTo
  <2>6. FlattenSeq(s) = g[Len(s)]
    BY <2>5, FlattenIsRun
  <2>7. g[Len(s) + 1] = g[Len(s)] \o e
    <3>1. Len(s) + 1 \in 1 .. Len(t) /\ (Len(s) + 1) - 1 = Len(s)
      BY <2>1
    <3>2. g[Len(s) + 1] = g[(Len(s) + 1) - 1] \o t[Len(s) + 1]
      BY <3>1, <2>3 DEF Runs, RunsTo
    <3> QED  BY <3>1, <3>2, <2>2
  <2> QED  BY <2>1, <2>4, <2>6, <2>7 DEF t
<1> QED  BY <1>1, <1>2, <1>3

-----------------------------------------------------------------------------
(* Those *)

\* Those of no sequence, and of one more element.
LEMMA ThoseAppend ==
  ASSUME NEW S, NEW T
  PROVE  /\ Those(<<>>, T) = <<>>
         /\ \A s \in Seq(S) : Those(s, T) \in Seq(S)
         /\ \A s \in Seq(S) : \A e \in S :
              Those(Append(s, e), T) = IF e \in T THEN Append(Those(s, T), e) ELSE Those(s, T)
<1> DEFINE Part(x) == IF x \in T THEN <<x>> ELSE <<>>
           Parts(s) == [i \in DOMAIN s |-> Part(s[i])]
<1>1. \A x \in S : Part(x) \in Seq(S)
  BY EmptySeq
<1>2. \A s : Those(s, T) = FlattenSeq(Parts(s))
  BY DEF Those
<1>3. ASSUME NEW s \in Seq(S)
      PROVE  Parts(s) \in Seq(Seq(S)) /\ Len(Parts(s)) = Len(s)
  <2>1. Len(s) \in Nat /\ DOMAIN s = 1 .. Len(s) /\ \A i \in 1 .. Len(s) : s[i] \in S
    BY LenProperties, ElementOfSeq
  <2>2. \A i \in 1 .. Len(s) : Part(s[i]) \in Seq(S)
    BY <2>1, <1>1
  <2> HIDE DEF Part
  <2> QED  BY <2>1, <2>2
<1>4. Parts(<<>>) = <<>>
  OBVIOUS
<1>5. Those(<<>>, T) = <<>>
  <2> HIDE DEF Parts
  <2> QED  BY <1>2, <1>4, FlattenAppend
<1>6. ASSUME NEW s \in Seq(S)  PROVE Those(s, T) \in Seq(S)
  <2> HIDE DEF Parts
  <2> QED  BY <1>2, <1>3, FlattenAppend
<1>7. ASSUME NEW s \in Seq(S), NEW e \in S
      PROVE  Those(Append(s, e), T) = IF e \in T THEN Append(Those(s, T), e) ELSE Those(s, T)
  <2>1. Parts(Append(s, e)) = Append(Parts(s), Part(e))
    <3>1. Len(s) \in Nat /\ DOMAIN s = 1 .. Len(s)
      BY LenProperties
    <3>2. DOMAIN Append(s, e) = 1 .. Len(s) + 1
      BY <3>1, AppendProperties
    <3>3. Parts(s) \in Seq(Seq(S)) /\ Len(Parts(s)) = Len(s) /\ Part(e) \in Seq(S)
      BY <1>3, <1>1
    <3>4. Append(s, e) \in Seq(S)
      BY AppendProperties
    <3>5. Parts(Append(s, e)) \in Seq(Seq(S)) /\ Len(Parts(Append(s, e))) = Len(s) + 1
      BY <1>3, <3>4, AppendProperties
    <3>6. Append(Parts(s), Part(e)) \in Seq(Seq(S)) /\ Len(Append(Parts(s), Part(e))) = Len(s) + 1
      <4> HIDE DEF Parts, Part
      <4> QED  BY <3>3, AppendProperties
    <3>7. ASSUME NEW i \in 1 .. Len(s) + 1  PROVE Parts(Append(s, e))[i] = Append(Parts(s), Part(e))[i]
      <4>1. Parts(Append(s, e))[i] = Part(Append(s, e)[i])
        BY <3>2
      <4>2. CASE i \in 1 .. Len(s)
        <5>1. Append(s, e)[i] = s[i]
          BY <4>2, AppendProperties
        <5>2. Parts(s)[i] = Part(s[i])
          BY <4>2, <3>1
        <5>3. Append(Parts(s), Part(e))[i] = Parts(s)[i]
          <6> HIDE DEF Parts, Part
          <6> QED  BY <3>3, <4>2, AppendProperties
        <5> HIDE DEF Parts, Part
        <5> QED  BY <4>1, <5>1, <5>2, <5>3
      <4>3. CASE i = Len(s) + 1
        <5>1. Append(s, e)[i] = e
          BY <4>3, AppendProperties
        <5>2. Append(Parts(s), Part(e))[i] = Part(e)
          <6> HIDE DEF Parts, Part
          <6> QED  BY <3>3, <4>3, AppendProperties
        <5> HIDE DEF Parts, Part
        <5> QED  BY <4>1, <5>1, <5>2
      <4>4. i \in 1 .. Len(s) \/ i = Len(s) + 1
        BY <3>1
      <4> QED  BY <4>2, <4>3, <4>4
    <3> HIDE DEF Parts, Part
    <3> QED  BY <3>5, <3>6, <3>7, SeqEqual
  <2>2. FlattenSeq(Append(Parts(s), Part(e))) = FlattenSeq(Parts(s)) \o Part(e)
    <3>1. Part(e) \in Seq(S) /\ Parts(s) \in Seq(Seq(S))
      BY <1>1, <1>3
    <3> HIDE DEF Parts, Part
    <3> QED  BY <3>1, FlattenAppend
  <2>3. Those(Append(s, e), T) = Those(s, T) \o Part(e)
    <3> HIDE DEF Parts, Part
    <3> QED  BY <2>1, <2>2, <1>2
  <2>4. Those(s, T) \in Seq(S)
    BY <1>6
  <2>5. CASE e \in T
    <3>1. Part(e) = <<e>>
      BY <2>5
    <3>2. Append(Those(s, T), e) = Those(s, T) \o <<e>>
      BY <2>4, AppendIsConcat
    <3> HIDE DEF Parts, Part
    <3> QED  BY <2>3, <3>1, <3>2, <2>5
  <2>6. CASE e \notin T
    <3>1. Part(e) = <<>>
      BY <2>6
    <3>2. Those(s, T) \o <<>> = Those(s, T)
      BY <2>4, ConcatEmptySeq
    <3> HIDE DEF Parts, Part
    <3> QED  BY <2>3, <3>1, <3>2, <2>6
  <2> QED  BY <2>5, <2>6
<1> QED  BY <1>5, <1>6, <1>7

\* Those of two sequences, one behind the other.
LEMMA ThoseConcat ==
  ASSUME NEW S, NEW T, NEW s \in Seq(S), NEW t \in Seq(S)
  PROVE  Those(s \o t, T) = Those(s, T) \o Those(t, T)
<1> DEFINE P == {u \in Seq(S) : Those(s \o u, T) = Those(s, T) \o Those(u, T)}
<1>0. /\ Those(<<>>, T) = <<>>
      /\ \A u \in Seq(S) : Those(u, T) \in Seq(S)
      /\ \A u \in Seq(S) : \A e \in S :
           Those(Append(u, e), T) = IF e \in T THEN Append(Those(u, T), e) ELSE Those(u, T)
  BY ThoseAppend
<1>1. <<>> \in P
  <2>1. s \o <<>> = s /\ Those(s, T) \o <<>> = Those(s, T)
    BY <1>0, ConcatEmptySeq
  <2> QED  BY <2>1, <1>0, EmptySeq
<1>2. ASSUME NEW u \in Seq(S), NEW e \in S, u \in P  PROVE Append(u, e) \in P
  <2>1. s \o Append(u, e) = Append(s \o u, e)
    <3>1. Append(u, e) = u \o <<e>> /\ s \o u \in Seq(S) /\ <<e>> \in Seq(S)
      BY AppendIsConcat, ConcatProperties
    <3>2. Append(s \o u, e) = (s \o u) \o <<e>>
      BY <3>1, AppendIsConcat
    <3>3. (s \o u) \o <<e>> = s \o (u \o <<e>>)
      BY <3>1, ConcatAssociative
    <3> QED  BY <3>1, <3>2, <3>3
  <2>2. s \o u \in Seq(S)
    BY ConcatProperties
  <2>3. Those(Append(s \o u, e), T) = IF e \in T THEN Append(Those(s \o u, T), e) ELSE Those(s \o u, T)
    BY <2>2, <1>0
  <2>4. Those(Append(u, e), T) = IF e \in T THEN Append(Those(u, T), e) ELSE Those(u, T)
    BY <1>0
  <2>5. Those(s \o u, T) = Those(s, T) \o Those(u, T)
    BY <1>2
  <2>6. Append(Those(s, T) \o Those(u, T), e) = Those(s, T) \o Append(Those(u, T), e)
    <3> DEFINE a == Those(s, T)
               b == Those(u, T)
    <3>1. a \in Seq(S) /\ b \in Seq(S) /\ <<e>> \in Seq(S)
      BY <1>0
    <3> HIDE DEF a, b
    <3>2. Append(b, e) = b \o <<e>> /\ a \o b \in Seq(S)
      BY <3>1, AppendIsConcat, ConcatProperties
    <3>3. Append(a \o b, e) = (a \o b) \o <<e>>
      BY <3>2, AppendIsConcat
    <3>4. (a \o b) \o <<e>> = a \o (b \o <<e>>)
      BY <3>1, ConcatAssociative
    <3>5. Append(a \o b, e) = a \o Append(b, e)
      BY <3>2, <3>3, <3>4
    <3> QED  BY <3>5 DEF a, b
  <2>7. Those(s \o Append(u, e), T) = Those(s, T) \o Those(Append(u, e), T)
    BY <2>1, <2>3, <2>4, <2>5, <2>6
  <2>8. Append(u, e) \in Seq(S)
    BY AppendProperties
  <2> QED  BY <2>7, <2>8
<1>3. \A u \in Seq(S) : u \in P
  <2> HIDE DEF P
  <2> QED  BY <1>1, <1>2, SeqInduct
<1> QED  BY <1>3

\* Those are exactly the elements that are in the set.
LEMMA ThoseSet ==
  ASSUME NEW S, NEW T, NEW s \in Seq(S)
  PROVE  ToSet(Those(s, T)) = ToSet(s) \cap T
<1> DEFINE P == {u \in Seq(S) : ToSet(Those(u, T)) = ToSet(u) \cap T}
<1>0. /\ Those(<<>>, T) = <<>>
      /\ \A u \in Seq(S) : Those(u, T) \in Seq(S)
      /\ \A u \in Seq(S) : \A e \in S :
           Those(Append(u, e), T) = IF e \in T THEN Append(Those(u, T), e) ELSE Those(u, T)
  BY ThoseAppend
<1>1. <<>> \in P
  BY <1>0, EmptySeq DEF ToSet
<1>a. ASSUME NEW u \in Seq(S), NEW e \in S  PROVE ToSet(Append(u, e)) = ToSet(u) \cup {e}
  <2>1. Len(u) \in Nat /\ DOMAIN u = 1 .. Len(u)
    BY LenProperties
  <2>2. DOMAIN Append(u, e) = 1 .. Len(u) + 1 /\ Append(u, e)[Len(u) + 1] = e
        /\ \A i \in 1 .. Len(u) : Append(u, e)[i] = u[i]
    BY <2>1, AppendProperties
  <2>3. ASSUME NEW i \in 1 .. Len(u) + 1  PROVE i \in 1 .. Len(u) \/ i = Len(u) + 1
    BY <2>1
  <2>4. ASSUME NEW i \in 1 .. Len(u)  PROVE i \in 1 .. Len(u) + 1
    BY <2>1
  <2>5. Len(u) + 1 \in 1 .. Len(u) + 1
    BY <2>1
  <2> QED  BY <2>1, <2>2, <2>3, <2>4, <2>5 DEF ToSet
<1>2. ASSUME NEW u \in Seq(S), NEW e \in S, u \in P  PROVE Append(u, e) \in P
  <2>1. Those(Append(u, e), T) = IF e \in T THEN Append(Those(u, T), e) ELSE Those(u, T)
    BY <1>0
  <2>2. ToSet(Append(Those(u, T), e)) = ToSet(Those(u, T)) \cup {e}
    BY <1>0, <1>a
  <2>3. ToSet(Append(u, e)) = ToSet(u) \cup {e}
    BY <1>a
  <2>4. Append(u, e) \in Seq(S)
    BY AppendProperties
  <2> QED  BY <1>2, <2>1, <2>2, <2>3, <2>4
<1>3. \A u \in Seq(S) : u \in P
  <2> HIDE DEF P
  <2> QED  BY <1>1, <1>2, SeqInduct
<1> QED  BY <1>3

\* Those of two sets that tell no two elements of a sequence apart are the same.
LEMMA ThoseSame ==
  ASSUME NEW s, NEW T, NEW U, ToSet(s) \cap T = ToSet(s) \cap U
  PROVE  Those(s, T) = Those(s, U)
<1>1. ASSUME NEW i \in DOMAIN s  PROVE s[i] \in T <=> s[i] \in U
  <2>1. s[i] \in ToSet(s)
    BY DEF ToSet
  <2> QED  BY <2>1
<1>2. [i \in DOMAIN s |-> IF s[i] \in T THEN <<s[i]>> ELSE <<>>]
      = [i \in DOMAIN s |-> IF s[i] \in U THEN <<s[i]>> ELSE <<>>]
  BY <1>1
<1> QED  BY <1>2 DEF Those

\* Those of a sequence of one element.
LEMMA ThoseOne ==
  ASSUME NEW S, NEW T, NEW e \in S
  PROVE  Those(<<e>>, T) = IF e \in T THEN <<e>> ELSE <<>>
<1>1. /\ Those(<<>>, T) = <<>>
      /\ Those(Append(<<>>, e), T) = IF e \in T THEN Append(Those(<<>>, T), e) ELSE Those(<<>>, T)
  <2>1. <<>> \in Seq(S)
    BY EmptySeq
  <2>2. \A s \in Seq(S) : \A x \in S :
          Those(Append(s, x), T) = IF x \in T THEN Append(Those(s, T), x) ELSE Those(s, T)
    BY ThoseAppend
  <2>3. Those(<<>>, T) = <<>>
    BY ThoseAppend
  <2> QED  BY <2>1, <2>2, <2>3
<1>2. Append(<<>>, e) = <<e>>
  OBVIOUS
<1> QED  BY <1>1, <1>2

\* If all are in the set, those are all; if none is, those are none.
LEMMA ThoseAllOrNone ==
  ASSUME NEW S, NEW T, NEW s \in Seq(S)
  PROVE  /\ ToSet(s) \subseteq T => Those(s, T) = s
         /\ ToSet(s) \cap T = {} => Those(s, T) = <<>>
<1> DEFINE P == {u \in Seq(S) : Those(u, S) = u /\ Those(u, {}) = <<>>}
<1>0. \A U : /\ Those(<<>>, U) = <<>>
             /\ \A u \in Seq(S) : \A e \in S :
                  Those(Append(u, e), U) = IF e \in U THEN Append(Those(u, U), e) ELSE Those(u, U)
  BY ThoseAppend
<1>1. <<>> \in P
  BY <1>0, EmptySeq
<1>2. ASSUME NEW u \in Seq(S), NEW e \in S, u \in P  PROVE Append(u, e) \in P
  <2>1. Append(u, e) \in Seq(S)
    BY AppendProperties
  <2>2. Those(Append(u, e), S) = Append(Those(u, S), e) /\ Those(Append(u, e), {}) = Those(u, {})
    BY <1>0
  <2> QED  BY <1>2, <2>1, <2>2
<1>3. \A u \in Seq(S) : u \in P
  <2> HIDE DEF P
  <2> QED  BY <1>1, <1>2, SeqInduct
<1>4. Those(s, S) = s /\ Those(s, {}) = <<>>
  BY <1>3
<1>5. ToSet(s) \subseteq S
  <2>1. \A i \in DOMAIN s : s[i] \in S
    BY LenProperties, ElementOfSeq
  <2> QED  BY <2>1 DEF ToSet
<1>6. ASSUME ToSet(s) \subseteq T  PROVE Those(s, T) = s
  <2>1. ToSet(s) \cap T = ToSet(s) \cap S
    BY <1>5, <1>6
  <2> QED  BY <2>1, <1>4, ThoseSame
<1>7. ASSUME ToSet(s) \cap T = {}  PROVE Those(s, T) = <<>>
  <2>1. ToSet(s) \cap T = ToSet(s) \cap {}
    BY <1>7
  <2> QED  BY <2>1, <1>4, ThoseSame
<1> QED  BY <1>6, <1>7

\* Those of those.
LEMMA ThoseThose ==
  ASSUME NEW S, NEW T, NEW U, NEW s \in Seq(S)
  PROVE  Those(Those(s, T), U) = Those(s, T \cap U)
<1> DEFINE P == {u \in Seq(S) : Those(Those(u, T), U) = Those(u, T \cap U)}
<1>0. \A V : /\ Those(<<>>, V) = <<>>
             /\ \A u \in Seq(S) : Those(u, V) \in Seq(S)
             /\ \A u \in Seq(S) : \A e \in S :
                  Those(Append(u, e), V) = IF e \in V THEN Append(Those(u, V), e) ELSE Those(u, V)
  BY ThoseAppend
<1>1. <<>> \in P
  BY <1>0, EmptySeq
<1>2. ASSUME NEW u \in Seq(S), NEW e \in S, u \in P  PROVE Append(u, e) \in P
  <2>1. Append(u, e) \in Seq(S) /\ Those(u, T) \in Seq(S)
    BY <1>0, AppendProperties
  <2>2. Those(Append(u, e), T \cap U) = IF e \in T \cap U THEN Append(Those(u, T \cap U), e) ELSE Those(u, T \cap U)
    BY <1>0
  <2>3. Those(Append(u, e), T) = IF e \in T THEN Append(Those(u, T), e) ELSE Those(u, T)
    BY <1>0
  <2>4. Those(Append(Those(u, T), e), U)
          = IF e \in U THEN Append(Those(Those(u, T), U), e) ELSE Those(Those(u, T), U)
    BY <1>0, <2>1
  <2>5. Those(Those(u, T), U) = Those(u, T \cap U)
    BY <1>2
  <2>6. Those(Those(Append(u, e), T), U) = Those(Append(u, e), T \cap U)
    <3>1. CASE e \in T /\ e \in U
      BY <3>1, <2>2, <2>3, <2>4, <2>5
    <3>2. CASE e \in T /\ e \notin U
      BY <3>2, <2>2, <2>3, <2>4, <2>5
    <3>3. CASE e \notin T
      BY <3>3, <2>2, <2>3, <2>5
    <3> QED  BY <3>1, <3>2, <3>3
  <2> QED  BY <2>1, <2>6
<1>3. \A u \in Seq(S) : u \in P
  <2> HIDE DEF P
  <2> QED  BY <1>1, <1>2, SeqInduct
<1> QED  BY <1>3

\* An element of the set that comes first stays first.
LEMMA ThoseFirst ==
  ASSUME NEW S, NEW T, NEW s \in Seq(S), s # <<>>, s[1] \in T
  PROVE  Those(s, T) # <<>> /\ Head(Those(s, T)) = s[1]
<1>1. Len(s) \in Nat /\ Len(s) >= 1 /\ 1 \in 1 .. Len(s) /\ Len(s) \in 1 .. Len(s)
  BY EmptySeq, LenProperties
<1>2. s[1] \in S
  BY <1>1, ElementOfSeq
<1>3. SubSeq(s, 1, Len(s)) = <<s[1]>> \o SubSeq(s, 1 + 1, Len(s)) /\ SubSeq(s, 1, Len(s)) = s
  BY <1>1, SubSeqRecursiveFirst, SubSeqFull
<1> DEFINE t == SubSeq(s, 1 + 1, Len(s))
<1>4. t \in Seq(S)
  <2>1. \A i \in 1 + 1 .. Len(s) : s[i] \in S
    BY <1>1, ElementOfSeq
  <2>2. 1 + 1 \in Int /\ Len(s) \in Int
    BY <1>1
  <2> QED  BY <2>1, <2>2, SubSeqProperties
<1> HIDE DEF t
<1>5. s = <<s[1]>> \o t
  BY <1>3 DEF t
<1>6. <<s[1]>> \in Seq(S)
  BY <1>2
<1>7. Those(<<s[1]>> \o t, T) = Those(<<s[1]>>, T) \o Those(t, T)
  BY <1>4, <1>6, ThoseConcat
<1>8. Those(<<s[1]>>, T) = <<s[1]>>
  BY <1>2, ThoseOne
<1>9. Those(t, T) \in Seq(S)
  BY <1>4, ThoseAppend
<1> DEFINE u == Those(t, T)
<1>10. u \in Seq(S)
  BY <1>9
<1>11. Those(s, T) = <<s[1]>> \o u
  BY <1>5, <1>7, <1>8
<1> HIDE DEF u
<1>12. Len(<<s[1]>> \o u) = 1 + Len(u) /\ (<<s[1]>> \o u)[1] = s[1] /\ Len(u) \in Nat
  BY <1>6, <1>10
<1> QED  BY <1>11, <1>12

-----------------------------------------------------------------------------
(* What parse_trace makes of a frame *)

Calls(json) == Those(json.calls, Typed)
Level(n) == {json \in Frames : Nesting[json] < n}

\* The calls that are kept are frames with a type, nested less deep.
LEMMA CallsNest ==
  ASSUME NEW json \in Frames
  PROVE  /\ Calls(json) \in Seq(Frames)
         /\ \A i \in DOMAIN Calls(json) :
              /\ Calls(json)[i] \in Frames
              /\ Calls(json)[i] \in Typed
              /\ Nesting[Calls(json)[i]] < Nesting[json]
<1>1. json.calls \in Seq(Frames)
  BY TraceAssumption
<1>2. Calls(json) \in Seq(Frames)
  BY <1>1, ThoseAppend DEF Calls
<1>3. ToSet(Calls(json)) = ToSet(json.calls) \cap Typed
  BY <1>1, ThoseSet DEF Calls
<1>4. ASSUME NEW i \in DOMAIN Calls(json)
      PROVE  /\ Calls(json)[i] \in Frames
             /\ Calls(json)[i] \in Typed
             /\ Nesting[Calls(json)[i]] < Nesting[json]
  <2>1. Calls(json)[i] \in ToSet(Calls(json))
    BY DEF ToSet
  <2>2. Calls(json)[i] \in ToSet(json.calls) /\ Calls(json)[i] \in Typed
    BY <2>1, <1>3
  <2>3. PICK j \in DOMAIN json.calls : Calls(json)[i] = json.calls[j]
    BY <2>2 DEF ToSet
  <2>4. Nesting[json.calls[j]] < Nesting[json]
    BY TraceAssumption
  <2> QED  BY <2>2, <2>3, <2>4 DEF Typed
<1> QED  BY <1>2, <1>4

\* Nesting is a number, and every frame is in the highest level.
LEMMA Levels ==
  /\ \A json \in Frames : Nesting[json] \in Nat
  /\ Level(0) = {}
  /\ Level(MaxNesting + 1) = Frames
  /\ \A n \in Nat : \A json \in Level(n + 1) : \A i \in DOMAIN Calls(json) : Calls(json)[i] \in Level(n)
<1>1. ASSUME NEW json \in Frames
      PROVE  Nesting[json] \in Nat /\ ~(Nesting[json] < 0) /\ Nesting[json] < MaxNesting + 1
  <2>1. Nesting[json] \in 0 .. MaxNesting /\ MaxNesting \in Nat
    BY TraceAssumption
  <2> QED  BY <2>1
<1>2. ASSUME NEW n \in Nat, NEW json \in Level(n + 1), NEW i \in DOMAIN Calls(json)
      PROVE  Calls(json)[i] \in Level(n)
  <2>1. json \in Frames /\ Nesting[json] < n + 1
    BY DEF Level
  <2>2. Calls(json)[i] \in Frames /\ Nesting[Calls(json)[i]] < Nesting[json]
    BY <2>1, CallsNest
  <2>3. Nesting[Calls(json)[i]] \in Nat /\ Nesting[json] \in Nat
    BY <1>1, <2>1, <2>2
  <2>4. Nesting[Calls(json)[i]] < n
    BY <2>1, <2>2, <2>3
  <2> QED  BY <2>2, <2>4 DEF Level
<1> QED  BY <1>1, <1>2 DEF Level

\* A property that a frame has if all it calls have it, every frame has.
LEMMA FrameInduct ==
  ASSUME NEW P, \A json \in Frames : (\A i \in DOMAIN Calls(json) : Calls(json)[i] \in P) => json \in P
  PROVE  \A json \in Frames : json \in P
<1> DEFINE Q == {n \in Nat : Level(n) \subseteq P}
<1>1. 0 \in Q
  BY Levels
<1>2. ASSUME NEW n \in Nat, n \in Q  PROVE n + 1 \in Q
  <2>1. ASSUME NEW json \in Level(n + 1)  PROVE json \in P
    <3>1. json \in Frames
      BY DEF Level
    <3>2. \A i \in DOMAIN Calls(json) : Calls(json)[i] \in Level(n)
      BY Levels
    <3> QED  BY <1>2, <3>1, <3>2
  <2> QED  BY <2>1
<1>3. \A n \in Nat : n \in Q
  <2> HIDE DEF Q
  <2> QED  BY <1>1, <1>2, Induct
<1>4. MaxNesting + 1 \in Q
  <2>1. MaxNesting + 1 \in Nat
    BY TraceAssumption
  <2> QED  BY <2>1, <1>3
<1> QED  BY <1>4, Levels

Flattened == [Nat -> Seq(FrameRows)]
Parts(f, json, d) == [i \in DOMAIN Calls(json) |-> f[Calls(json)[i]][d + 1]]
Body(f, json) == [d \in Nat |-> <<Row(json, d)>> \o FlattenSeq(Parts(f, json, d))]

\* A row is of its type, and has the depth it is given.
LEMMA RowType ==
  ASSUME NEW json \in Frames, NEW d \in Nat
  PROVE  Row(json, d) \in FrameRows /\ Row(json, d).depth = d /\ Row(json, d).error = json.error
         /\ Row(json, d).id = json.id
<1>1. json.id \in Nat /\ json.value \in Nat \cup {Absent} /\ json.error \in BOOLEAN /\ U128Max \in Nat
      /\ Absent \notin Nat
  BY TraceAssumption
<1>2. value_decimal(json.value) \in 0 .. U128Max
  <2>1. CASE json.value = Absent
    BY <1>1, <2>1 DEF value_decimal
  <2>2. CASE json.value # Absent
    BY <1>1, <2>2 DEF value_decimal
  <2> QED  BY <2>1, <2>2
<1> QED  BY <1>1, <1>2 DEF Row, FrameRows

\* One level of the recursion, from what it makes of the calls.
LEMMA BodyType ==
  ASSUME NEW json \in Frames, NEW f,
         \A i \in DOMAIN Calls(json) : f[Calls(json)[i]] \in Flattened
  PROVE  /\ Body(f, json) \in Flattened
         /\ \A d \in Nat : Parts(f, json, d) \in Seq(Seq(FrameRows))
<1>1. Calls(json) \in Seq(Frames) /\ Len(Calls(json)) \in Nat /\ DOMAIN Calls(json) = 1 .. Len(Calls(json))
  BY CallsNest, LenProperties
<1>2. ASSUME NEW d \in Nat  PROVE Parts(f, json, d) \in Seq(Seq(FrameRows))
  <2>1. \A i \in 1 .. Len(Calls(json)) : f[Calls(json)[i]][d + 1] \in Seq(FrameRows)
    <3> SUFFICES ASSUME NEW i \in 1 .. Len(Calls(json))  PROVE f[Calls(json)[i]][d + 1] \in Seq(FrameRows)
      OBVIOUS
    <3>1. f[Calls(json)[i]] \in Flattened
      BY <1>1
    <3>2. d + 1 \in Nat
      OBVIOUS
    <3> DEFINE g == f[Calls(json)[i]]
    <3> HIDE DEF g
    <3>3. g \in [Nat -> Seq(FrameRows)]
      BY <3>1 DEF Flattened, g
    <3>4. g[d + 1] \in Seq(FrameRows)
      BY <3>2, <3>3
    <3> QED  BY <3>4 DEF g
  <2> QED  BY <1>1, <2>1 DEF Parts
<1>3. ASSUME NEW d \in Nat  PROVE <<Row(json, d)>> \o FlattenSeq(Parts(f, json, d)) \in Seq(FrameRows)
  <2>1. FlattenSeq(Parts(f, json, d)) \in Seq(FrameRows)
    BY <1>2, FlattenAppend
  <2>2. <<Row(json, d)>> \in Seq(FrameRows)
    BY RowType
  <2> QED  BY <2>1, <2>2, ConcatProperties
<1> QED  BY <1>2, <1>3 DEF Body, Flattened

\* What the recursion makes of a frame depends on what it makes of its calls.
LEMMA BodySame ==
  ASSUME NEW json, NEW f, NEW g, \A i \in DOMAIN Calls(json) : f[Calls(json)[i]] = g[Calls(json)[i]]
  PROVE  Body(f, json) = Body(g, json)
<1>1. \A d : Parts(f, json, d) = Parts(g, json, d)
  BY DEF Parts
<1> QED  BY <1>1 DEF Body

\* The recursion of flatten_call_frame ends: there is a function that obeys it.
LEMMA FlattenExists ==
  \E f \in [Frames -> Flattened] : \A json \in Frames : f[json] = Body(f, json)
<1> DEFINE Some(n) == \E f \in [Level(n) -> Flattened] : \A json \in Level(n) : f[json] = Body(f, json)
           P == {n \in Nat : Some(n)}
<1>1. 0 \in P
  <2>1. Level(0) = {}
    BY Levels
  <2> DEFINE f == [json \in {} |-> {}]
  <2>2. f \in [{} -> Flattened]
    OBVIOUS
  <2>3. \A json \in {} : f[json] = Body(f, json)
    OBVIOUS
  <2> HIDE DEF f
  <2>4. Some(0)
    BY <2>1, <2>2, <2>3
  <2> QED  BY <2>4
<1>2. ASSUME NEW n \in Nat, n \in P  PROVE n + 1 \in P
  <2>1. PICK f \in [Level(n) -> Flattened] : \A json \in Level(n) : f[json] = Body(f, json)
    BY <1>2
  <2>2. \A json \in Level(n + 1) : \A i \in DOMAIN Calls(json) : Calls(json)[i] \in Level(n)
    BY Levels
  <2> DEFINE g == [json \in Level(n + 1) |-> Body(f, json)]
  <2>3. ASSUME NEW json \in Level(n)  PROVE json \in Level(n + 1) /\ f[json] = g[json]
    <3>1. json \in Level(n + 1)
      <4>1. Nesting[json] \in Nat /\ Nesting[json] < n /\ json \in Frames
        BY Levels DEF Level
      <4>2. Nesting[json] < n + 1
        BY <4>1
      <4> QED  BY <4>1, <4>2 DEF Level
    <3> QED  BY <2>1, <3>1
  <2>4. g \in [Level(n + 1) -> Flattened]
    <3>1. ASSUME NEW json \in Level(n + 1)  PROVE Body(f, json) \in Flattened
      <4>1. json \in Frames
        BY DEF Level
      <4>2. \A i \in DOMAIN Calls(json) : f[Calls(json)[i]] \in Flattened
        BY <2>2
      <4> QED  BY <4>1, <4>2, BodyType
    <3> QED  BY <3>1
  <2>5. ASSUME NEW json \in Level(n + 1)  PROVE g[json] = Body(g, json)
    <3>1. \A i \in DOMAIN Calls(json) : f[Calls(json)[i]] = g[Calls(json)[i]]
      <4> HIDE DEF g
      <4> QED  BY <2>2, <2>3
    <3>2. g[json] = Body(f, json)
      OBVIOUS
    <3> HIDE DEF g
    <3>3. Body(f, json) = Body(g, json)
      BY <3>1, BodySame
    <3> QED  BY <3>2, <3>3
  <2>6. Some(n + 1)
    <3> HIDE DEF g
    <3> QED  BY <2>4, <2>5
  <2> QED  BY <2>6
<1>3. \A n \in Nat : n \in P
  <2> HIDE DEF P
  <2> QED  BY <1>1, <1>2, Induct
<1>4. Some(MaxNesting + 1)
  <2>1. MaxNesting + 1 \in Nat
    BY TraceAssumption
  <2> QED  BY <2>1, <1>3
<1> QED  BY <1>4, Levels

\* flatten_call_frame obeys its equation, and makes rows.
LEMMA FlattenEquation ==
  \A json \in Frames : /\ flatten_call_frame[json] = Body(flatten_call_frame, json)
                       /\ flatten_call_frame[json] \in Flattened
<1> DEFINE Given(f, json) ==
             [d \in Nat |->
                Pushed(Row(parse_call_frame(json), d),
                       FlattenSeq([i \in DOMAIN parse_call_frame(json).calls |->
                                     f[parse_call_frame(json).calls[i]][d + 1]]))]
           Obeys(f) == f = [json \in Frames |-> Given(f, json)]
<1>1. \A json : /\ parse_call_frame(json).calls = Calls(json)
                /\ \A d : Row(parse_call_frame(json), d) = Row(json, d)
  BY DEF parse_call_frame, Calls, Row
<1>2. \A f, json : Given(f, json) = Body(f, json)
  BY <1>1 DEF Pushed, Body, Parts
<1>3. flatten_call_frame = CHOOSE f : Obeys(f)
  BY DEF flatten_call_frame
<1>4. \E f : Obeys(f)
  <2> HIDE DEF Given
  <2>1. PICK f \in [Frames -> Flattened] : \A json \in Frames : f[json] = Body(f, json)
    BY FlattenExists
  <2>2. f = [json \in Frames |-> f[json]]
    OBVIOUS
  <2>3. [json \in Frames |-> f[json]] = [json \in Frames |-> Given(f, json)]
    BY <2>1, <1>2
  <2> QED  BY <2>2, <2>3
<1>5. Obeys(flatten_call_frame)
  <2> HIDE DEF Obeys
  <2> QED  BY <1>3, <1>4
<1> DEFINE F == flatten_call_frame
<1> HIDE DEF F
<1> HIDE DEF Given
<1>6. F = [json \in Frames |-> Given(F, json)]
  BY <1>5 DEF F
<1>7. \A json \in Frames : F[json] = Body(F, json)
  BY <1>2, <1>6
<1> DEFINE P == {json \in Frames : F[json] \in Flattened}
<1>8. ASSUME NEW json \in Frames, \A i \in DOMAIN Calls(json) : Calls(json)[i] \in P  PROVE json \in P
  <2>1. \A i \in DOMAIN Calls(json) : F[Calls(json)[i]] \in Flattened
    BY <1>8
  <2>2. Body(F, json) \in Flattened
    BY <2>1, BodyType
  <2> QED  BY <2>2, <1>7
<1>9. \A json \in Frames : json \in P
  <2> HIDE DEF P
  <2> QED  BY <1>8, FrameInduct
<1> QED  BY <1>7, <1>9 DEF F

Deep(d) == {row \in FrameRows : row.depth >= d}

\* A frame comes first, with the depth that is asked for, and what it calls is
\* deeper.
LEMMA FlattenShape ==
  ASSUME NEW json \in Frames, NEW d \in Nat
  PROVE  /\ flatten_call_frame[json][d] = <<Row(json, d)>> \o FlattenSeq(Parts(flatten_call_frame, json, d))
         /\ Parts(flatten_call_frame, json, d) \in Seq(Seq(Deep(d + 1)))
         /\ FlattenSeq(Parts(flatten_call_frame, json, d)) \in Seq(Deep(d + 1))
         /\ flatten_call_frame[json][d] \in Seq(Deep(d))
<1> DEFINE F == flatten_call_frame
<1>1. \A x \in Frames : F[x] = Body(F, x) /\ F[x] \in Flattened
  BY FlattenEquation
<1> HIDE DEF F
<1>2. \A x \in Frames : \A e \in Nat : F[x][e] = <<Row(x, e)>> \o FlattenSeq(Parts(F, x, e))
  BY <1>1 DEF Body
<1> DEFINE P == {x \in Frames : \A e \in Nat : F[x][e] \in Seq(Deep(e))}
<1>3. ASSUME NEW x \in Frames, NEW e \in Nat, \A i \in DOMAIN Calls(x) : Calls(x)[i] \in P
      PROVE  Parts(F, x, e) \in Seq(Seq(Deep(e + 1)))
  <2>1. Len(Calls(x)) \in Nat /\ DOMAIN Calls(x) = 1 .. Len(Calls(x))
    BY CallsNest, LenProperties
  <2>2. \A i \in 1 .. Len(Calls(x)) : F[Calls(x)[i]][e + 1] \in Seq(Deep(e + 1))
    BY <1>3, <2>1
  <2> QED  BY <2>1, <2>2 DEF Parts
<1>4. ASSUME NEW x \in Frames, NEW e \in Nat, Parts(F, x, e) \in Seq(Seq(Deep(e + 1)))
      PROVE  FlattenSeq(Parts(F, x, e)) \in Seq(Deep(e + 1)) /\ F[x][e] \in Seq(Deep(e))
  <2>1. FlattenSeq(Parts(F, x, e)) \in Seq(Deep(e + 1))
    BY <1>4, FlattenAppend
  <2>2. Deep(e + 1) \subseteq Deep(e)
    <3>1. ASSUME NEW row \in Deep(e + 1)  PROVE row.depth >= e
      <4>1. row.depth \in Nat /\ row.depth >= e + 1
        BY DEF Deep, FrameRows
      <4> QED  BY <4>1
    <3> QED  BY <3>1 DEF Deep
  <2>3. FlattenSeq(Parts(F, x, e)) \in Seq(Deep(e))
    BY <2>1, <2>2, SeqMonotonic
  <2>4. Row(x, e) \in Deep(e)
    <3>1. Row(x, e) \in FrameRows /\ Row(x, e).depth = e
      BY RowType
    <3> QED  BY <3>1 DEF Deep
  <2>5. <<Row(x, e)>> \in Seq(Deep(e))
    BY <2>4
  <2>6. <<Row(x, e)>> \o FlattenSeq(Parts(F, x, e)) \in Seq(Deep(e))
    BY <2>3, <2>5, ConcatProperties
  <2> QED  BY <1>2, <2>1, <2>6
<1>5. ASSUME NEW x \in Frames, \A i \in DOMAIN Calls(x) : Calls(x)[i] \in P  PROVE x \in P
  <2>1. ASSUME NEW e \in Nat  PROVE F[x][e] \in Seq(Deep(e))
    BY <1>3, <1>4, <1>5
  <2> QED  BY <2>1
<1>6. \A x \in Frames : x \in P
  <2> HIDE DEF P
  <2> QED  BY <1>5, FrameInduct
<1>7. Parts(F, json, d) \in Seq(Seq(Deep(d + 1)))
  <2>1. \A i \in DOMAIN Calls(json) : Calls(json)[i] \in P
    <3> HIDE DEF P
    <3> QED  BY <1>6, CallsNest
  <2> HIDE DEF P
  <2> QED  BY <2>1, <1>3
<1> QED  BY <1>2, <1>4, <1>7 DEF F

LogRows == [tx : Txs, frame : FrameRows]
OfTx(tx) == {l \in LogRows : l.tx = tx}

\* The frames of a trace: first the root, at depth 0 and with an error, then
\* what is deeper.
LEMMA FramesShape ==
  ASSUME NEW r \in Parsed
  PROVE  /\ r \in Receipts /\ r.tx \in Txs /\ r.trace \in Frames
         /\ FramesOf[r] = flatten_call_frame[r.trace][0]
         /\ FramesOf[r] \in Seq(FrameRows) /\ Len(FramesOf[r]) \in Nat \ {0}
         /\ FramesOf[r][1] = Row(r.trace, 0)
         /\ FramesOf[r][1].depth = 0 /\ FramesOf[r][1].error /\ FramesOf[r][1].id = r.trace.id
         /\ \A i \in 2 .. Len(FramesOf[r]) : FramesOf[r][i].depth # 0
<1>1. r \in Receipts /\ ~r.ok
  BY DEF Parsed
<1>2. r.trace \in Frames /\ r.trace.error /\ r.tx \in Txs
  BY <1>1, WorldAssumption, ApiAssumption
<1>3. FramesOf[r] = flatten_call_frame[r.trace][0]
  BY DEF FramesOf, parse_trace
<1> DEFINE row == Row(r.trace, 0)
           rest == FlattenSeq(Parts(flatten_call_frame, r.trace, 0))
<1>4. FramesOf[r] = <<row>> \o rest /\ rest \in Seq(Deep(0 + 1))
  BY <1>2, <1>3, FlattenShape
<1>5. row \in FrameRows /\ row.depth = 0 /\ row.error = r.trace.error /\ row.id = r.trace.id
  BY <1>2, RowType
<1> HIDE DEF row, rest
<1>6. rest \in Seq(FrameRows)
  <2>1. Deep(0 + 1) \subseteq FrameRows
    BY DEF Deep
  <2> QED  BY <1>4, <2>1, SeqMonotonic
<1>7. <<row>> \in Seq(FrameRows) /\ Len(<<row>>) = 1 /\ Len(rest) \in Nat
  BY <1>5, <1>6
<1>8. /\ FramesOf[r] \in Seq(FrameRows) /\ Len(FramesOf[r]) = 1 + Len(rest)
      /\ \A i \in 1 .. 1 + Len(rest) : FramesOf[r][i] = IF i <= 1 THEN <<row>>[i] ELSE rest[i - 1]
  BY <1>4, <1>6, <1>7, ConcatProperties
<1>9. FramesOf[r][1] = row
  <2>1. 1 \in 1 .. 1 + Len(rest)
    BY <1>7
  <2> QED  BY <2>1, <1>8
<1>10. ASSUME NEW i \in 2 .. Len(FramesOf[r])  PROVE FramesOf[r][i].depth # 0
  <2>1. i \in 1 .. 1 + Len(rest) /\ ~(i <= 1) /\ i - 1 \in 1 .. Len(rest)
    BY <1>7, <1>8
  <2>2. FramesOf[r][i] = rest[i - 1]
    BY <2>1, <1>8
  <2>3. rest[i - 1] \in Deep(0 + 1)
    BY <2>1, <1>4, ElementOfSeq
  <2>4. rest[i - 1].depth \in Nat /\ rest[i - 1].depth >= 0 + 1
    BY <2>3 DEF Deep, FrameRows
  <2> QED  BY <2>2, <2>4
<1>11. Len(FramesOf[r]) \in Nat \ {0}
  BY <1>7, <1>8
<1> QED  BY <1>1, <1>2, <1>3, <1>5, <1>8, <1>9, <1>10, <1>11 DEF row

\* The trace_log rows of a transaction: one for each frame.
LEMMA LogsShape ==
  ASSUME NEW r \in Parsed
  PROVE  /\ LogsOf(r) \in Seq(OfTx(r.tx)) /\ LogsOf(r) \in Seq(LogRows)
         /\ Len(LogsOf(r)) = Len(FramesOf[r])
         /\ \A i \in 1 .. Len(FramesOf[r]) : LogsOf(r)[i] = [tx |-> r.tx, frame |-> FramesOf[r][i]]
         /\ LogsOf(r) # <<>>
<1>1. FramesOf[r] \in Seq(FrameRows) /\ Len(FramesOf[r]) \in Nat \ {0} /\ r.tx \in Txs
  BY FramesShape
<1>2. DOMAIN FramesOf[r] = 1 .. Len(FramesOf[r])
  BY <1>1, LenProperties
<1> DEFINE n == Len(FramesOf[r])
<1>3. \A i \in 1 .. n : FramesOf[r][i] \in FrameRows
  BY <1>1, ElementOfSeq
<1>4. \A i \in 1 .. n : [tx |-> r.tx, frame |-> FramesOf[r][i]] \in OfTx(r.tx)
  BY <1>1, <1>3 DEF OfTx, LogRows
<1>5. LogsOf(r) = [i \in 1 .. n |-> [tx |-> r.tx, frame |-> FramesOf[r][i]]]
  BY <1>2 DEF LogsOf
<1> HIDE DEF n
<1>6. LogsOf(r) \in Seq(OfTx(r.tx)) /\ Len(LogsOf(r)) = n
  <2>1. n \in Nat
    BY <1>1 DEF n
  <2> QED  BY <2>1, <1>4, <1>5
<1>7. LogsOf(r) \in Seq(LogRows)
  <2>1. OfTx(r.tx) \subseteq LogRows
    BY DEF OfTx
  <2> QED  BY <1>6, <2>1, SeqMonotonic
<1>8. LogsOf(r) # <<>>
  BY <1>1, <1>6, EmptySeq DEF n
<1> QED  BY <1>5, <1>6, <1>7, <1>8 DEF n

-----------------------------------------------------------------------------
(* The inductive invariant *)

\* Failed transactions of a block whose trace can be parsed.
OnChain(b) == ToSet(receipts[b]) \cap Parsed

FailedRows == {FailedRow(p[1], p[2]) : p \in Blocks \X Parsed} \cup {Stub(p[2], p[1]) : p \in Blocks \X Txs}

\* What process_failed_txs makes of the transactions it has traces of.
BatchOf(b, rs) ==
  [logs |-> FlattenSeq([i \in DOMAIN rs |-> LogsOf(rs[i])]),
   rows |-> {FailedRow(b, rs[i]) : i \in DOMAIN rs}]

\* A block has a batch between its traces and its last INSERT, and no other
\* time; at the last one, the frames are in the table.
TasksOK ==
  /\ receipts \in Worlds
  /\ triggers \in BOOLEAN
  /\ task \in [Blocks -> ToSet(Steps)]
  /\ batch = [b \in Blocks |-> batch[b]]
  /\ lost = [b \in Blocks |-> lost[b]]
BatchOK(b) ==
  batch[b] = IF task[b] \in {"logs", "rows"} THEN BatchOf(b, Traced(b, lost[b])) ELSE EmptyBatch
Ready(b) == task[b] = "rows" => \A x \in batch[b].rows : TreeRows(x.tx) # <<>>

\* A block that is done has the frames and the failures of what it traced.
Held(tx) == TreeRows(tx) # <<>> /\ \E f \in failed : f.tx = tx
Finished(b) == task[b] = "done" => \A r \in OnChain(b) : r.tx \notin lost[b] => Held(r.tx)

\* A transaction is stored with its block, which is still in the chain; and
\* the transactions of a block stay until they are rolled back.
Listed(tx, b) == [tx |-> tx, block |-> b] \in stored
StoredOK ==
  /\ \A x \in stored : x.block \in Blocks /\ \E r \in ToSet(receipts[x.block]) : x = [tx |-> r.tx, block |-> x.block]
  /\ \A b \in Blocks : task[b] # "tx" => \A r \in ToSet(receipts[b]) : Listed(r.tx, b)
  /\ \A b \in Blocks : \A r \in OnChain(b) : TreeRows(r.tx) # <<>> => Listed(r.tx, b)
  /\ \A f \in failed : Listed(f.tx, f.timestamp)

\* A failure is of a stored transaction, and the only one.
Failure(f, b) ==
  \E r \in ToSet(receipts[b]) :
    ~r.ok /\ ((r \in Parsed /\ f = FailedRow(b, r)) \/ (triggers /\ f = Stub(r.tx, b)))
FailedOK ==
  /\ IsFiniteSet(failed)
  /\ \A f \in failed : f.timestamp \in Blocks /\ Failure(f, f.timestamp)
  /\ \A f, g \in failed : f.tx = g.tx => f = g

\* So are frames, and they are the trace as often as it was inserted.
Times(k, s) == FlattenSeq([i \in 1 .. k |-> s])
Repeats(s) == {Times(k, s) : k \in Nat}
LogOK ==
  /\ trace_log \in Seq(LogRows)
  /\ \A l \in ToSet(trace_log) : \E b \in Blocks : \E r \in OnChain(b) : l.tx = r.tx
  /\ \A b \in Blocks : \A r \in OnChain(b) : TreeRows(r.tx) \in Repeats(LogsOf(r))

WriterOK ==
  /\ TasksOK
  /\ \A b \in Blocks : BatchOK(b) /\ Ready(b) /\ Finished(b)
  /\ StoredOK
  /\ FailedOK
  /\ LogOK
  /\ FramesPrecedeFailure

\* The shapes of a request and its answer.
TreeReqs == [kind : {"detail"}, at : {"tree"}, tx : Txs, grown : BOOLEAN]
CauseReqs ==
  [kind : {"detail"}, at : {"cause"}, tx : Txs, grown : BOOLEAN, tree : Seq(FrameRows), truncated : BOOLEAN]
DetailAnswers ==
  [kind : {"detail"}, at : {"done"}, tx : Txs, grown : BOOLEAN, tree : Seq(FrameRows), truncated : BOOLEAN,
   cause : FrameRows \cup {Absent}]
ListReqs ==
  [kind : {"list"}, at : {"rows", "total"}, q : Queries, offset : Nat, seen : Seq(FailedRows), total : Nat]
ListAnswers ==
  [kind : {"list"}, at : {"done"}, q : Queries, offset : Nat, seen : Seq(FailedRows), total : Nat]
ReqTyped == req \in {NoAnswer} \cup TreeReqs \cup CauseReqs \cup DetailAnswers \cup ListReqs \cup ListAnswers

\* What a detail request holds agrees with the tables unless they changed; and
\* while rows are only added, the first frame it read is still the first.
Asked(tx) == list_trace_logs_by_tx(tx, MaxFrames + 1)
FirstKept(tx, tree) == tree # <<>> => TreeRows(tx) # <<>> /\ tree[1] = TreeRows(tx)[1].frame
DetailOK ==
  req.kind = "detail" =>
    /\ req.at # "tree" =>
         /\ Len(req.tree) <= MaxFrames
         /\ ~req.grown => req.tree = Shown(Asked(req.tx)) /\ req.truncated = (Len(Asked(req.tx)) > MaxFrames)
         /\ FirstKept(req.tx, req.tree)
    /\ req.at = "done" => req.cause = get_first_error_frame(req.tx)

\* So does a list request: each page continues the one before it, and if no
\* two rows are of one block, the i-th row seen has i - 1 rows before it.
Before(rows, f) == {g \in rows : g.timestamp > f.timestamp}
Apart(rows) == \A f, g \in rows : f.timestamp = g.timestamp => f = g
Ranked(seen, rows) == \A i \in 1 .. Len(seen) : seen[i] \in rows /\ Cardinality(Before(rows, seen[i])) = i - 1
SeenOK(at, seen, offset, limit, n) ==
  /\ offset <= n
  /\ at = "rows" => Len(seen) = offset
  /\ at = "total" => Len(seen) = IF offset + limit <= n THEN offset + limit ELSE n
  /\ at = "done" => Len(seen) = n
ListOK ==
  req.kind = "list" =>
    /\ SeenOK(req.at, req.seen, req.offset, LimitOf(req.q), Cardinality(Matches(req.q)))
    /\ Apart(Matches(req.q)) => Ranked(req.seen, Matches(req.q))

IInv == WriterOK /\ ReqTyped /\ DetailOK /\ ListOK

-----------------------------------------------------------------------------
(* Steps of a block *)

\* Min is the least element.
LEMMA MinIsLeast ==
  ASSUME NEW T, T \subseteq Nat, T # {}
  PROVE  Min(T) \in T /\ \A y \in T : Min(T) <= y
<1>1. PICK x \in T : \A y \in T : x <= y
  BY LeastOfNats
<1>2. \E z \in T : \A y \in T : z <= y
  BY <1>1
<1> QED  BY <1>2 DEF Min

\* The steps, and where each of them is.
LEMMA StepsAre ==
  /\ Len(Steps) = 8
  /\ Steps[1] = "tx" /\ Steps[2] = "swap" /\ Steps[3] = "liquidity" /\ Steps[4] = "transfer" /\ Steps[5] = "trace"
  /\ Steps[6] = "logs" /\ Steps[7] = "rows" /\ Steps[8] = "done"
  /\ ToSet(Steps) = {"tx", "swap", "liquidity", "transfer", "trace", "logs", "rows", "done"}
  /\ ToSet(EventTables) = {"swap", "liquidity", "transfer"}
<1>1. /\ Len(Steps) = 8 /\ DOMAIN Steps = 1 .. 8
      /\ Steps[1] = "tx" /\ Steps[2] = "swap" /\ Steps[3] = "liquidity" /\ Steps[4] = "transfer" /\ Steps[5] = "trace"
      /\ Steps[6] = "logs" /\ Steps[7] = "rows" /\ Steps[8] = "done"
  BY DEF Steps
<1>2. 1 .. 8 = {1, 2, 3, 4, 5, 6, 7, 8}
  OBVIOUS
<1>3. ToSet(Steps) = {"tx", "swap", "liquidity", "transfer", "trace", "logs", "rows", "done"}
  BY <1>1, <1>2 DEF ToSet
<1>4. /\ DOMAIN EventTables = 1 .. 3
      /\ EventTables[1] = "swap" /\ EventTables[2] = "liquidity" /\ EventTables[3] = "transfer"
  BY DEF EventTables
<1>5. 1 .. 3 = {1, 2, 3}
  OBVIOUS
<1>6. ToSet(EventTables) = {"swap", "liquidity", "transfer"}
  BY <1>4, <1>5 DEF ToSet
<1> QED  BY <1>1, <1>3, <1>6

\* FirstFrom passes over the steps that have no work.
LEMMA FirstFromIs ==
  ASSUME NEW i \in 1 .. 8, NEW rs, NEW b, NEW bt
  PROVE  \E j \in i .. 8 : /\ FirstFrom(i, rs, b, bt) = Steps[j]
                           /\ HasWork(rs, b, bt, Steps[j])
                           /\ \A k \in i .. j - 1 : ~HasWork(rs, b, bt, Steps[k])
<1> DEFINE W(k) == HasWork(rs, b, bt, Steps[k])
<1>1. HasWork(rs, b, bt, Steps[8])
  BY StepsAre DEF HasWork
<1> DEFINE T == {k \in i .. 8 : W(k)}
<1>2. W(8)
  BY <1>1
<1>3. FirstFrom(i, rs, b, bt) = Steps[Min(T)]
  BY StepsAre DEF FirstFrom
<1> HIDE DEF W
<1>4. T \subseteq Nat /\ T # {}
  BY <1>2
<1>5. Min(T) \in T /\ \A y \in T : Min(T) <= y
  <2> HIDE DEF T
  <2> QED  BY <1>4, MinIsLeast
<1> DEFINE j == Min(T)
<1>6. j \in T /\ \A y \in T : j <= y
  BY <1>5
<1> HIDE DEF j
<1>7. j \in i .. 8 /\ W(j)
  BY <1>6
<1>8. ASSUME NEW k \in i .. j - 1  PROVE ~W(k)
  <2>1. k \in i .. 8 /\ ~(j <= k)
    BY <1>7
  <2> QED  BY <2>1, <1>6
<1>9. FirstFrom(i, rs, b, bt) = Steps[j]
  BY <1>3 DEF j
<1> QED  BY <1>7, <1>8, <1>9 DEF W

\* A step that starts without a batch needs none, and traces are not passed
\* over when there is a transaction to trace.
LEMMA FirstWithoutBatch ==
  ASSUME NEW i \in 1 .. 8, NEW rs, NEW b
  PROVE  /\ FirstFrom(i, rs, b, EmptyBatch) \in ToSet(Steps)
         /\ FirstFrom(i, rs, b, EmptyBatch) \notin {"logs", "rows"}
         /\ (i <= 5 /\ FirstFrom(i, rs, b, EmptyBatch) = "done") => FailedReceipts(rs, b) = <<>>
         /\ i > 1 => FirstFrom(i, rs, b, EmptyBatch) # "tx"
<1>1. PICK j \in i .. 8 : /\ FirstFrom(i, rs, b, EmptyBatch) = Steps[j] /\ HasWork(rs, b, EmptyBatch, Steps[j])
                          /\ \A k \in i .. j - 1 : ~HasWork(rs, b, EmptyBatch, Steps[k])
  BY FirstFromIs
<1>2. ~HasWork(rs, b, EmptyBatch, "logs") /\ ~HasWork(rs, b, EmptyBatch, "rows")
  BY StepsAre DEF HasWork, EmptyBatch
<1>3. j \in {1, 2, 3, 4, 5, 6, 7, 8}
  OBVIOUS
<1>4. Steps[j] \in ToSet(Steps) /\ (Steps[j] = "done" => j = 8) /\ (Steps[j] = "tx" => j = 1)
  BY <1>3, StepsAre
<1>5. HasWork(rs, b, EmptyBatch, "trace") <=> FailedReceipts(rs, b) # <<>>
  BY StepsAre DEF HasWork
<1>6. (i <= 5 /\ j = 8) => 5 \in i .. j - 1
  OBVIOUS
<1>7. i > 1 => j # 1
  OBVIOUS
<1> QED  BY <1>1, <1>2, <1>4, <1>5, <1>6, <1>7, StepsAre

\* The step after each.
LEMMA AfterIs ==
  ASSUME NEW b \in Blocks, NEW bt
  PROVE  /\ task[b] \in {"tx"} \cup ToSet(EventTables) =>
              /\ After(b, EmptyBatch) \in ToSet(Steps) \ {"tx", "logs", "rows"}
              /\ After(b, EmptyBatch) = "done" => FailedReceipts(receipts, b) = <<>>
         /\ task[b] = "trace" =>
              After(b, bt) = IF bt.logs # <<>> THEN "logs" ELSE IF bt.rows # {} THEN "rows" ELSE "done"
         /\ task[b] = "logs" => After(b, bt) = IF bt.rows # {} THEN "rows" ELSE "done"
         /\ task[b] = "rows" => After(b, bt) = "done"
<1> DEFINE At(step) == CHOOSE i \in 1 .. Len(Steps) : Steps[i] = step
<1>1. At("tx") = 1 /\ At("swap") = 2 /\ At("liquidity") = 3 /\ At("transfer") = 4 /\ At("trace") = 5
      /\ At("logs") = 6 /\ At("rows") = 7
  <2>1. 1 .. Len(Steps) = {1, 2, 3, 4, 5, 6, 7, 8}
    BY StepsAre
  <2>2. At("tx") = 1
    BY <2>1, StepsAre
  <2>3. At("swap") = 2
    BY <2>1, StepsAre
  <2>4. At("liquidity") = 3
    BY <2>1, StepsAre
  <2>5. At("transfer") = 4
    BY <2>1, StepsAre
  <2>6. At("trace") = 5
    BY <2>1, StepsAre
  <2>7. At("logs") = 6
    BY <2>1, StepsAre
  <2>8. At("rows") = 7
    BY <2>1, StepsAre
  <2> QED  BY <2>2, <2>3, <2>4, <2>5, <2>6, <2>7, <2>8
<1>2. \A x : After(b, x) = FirstFrom(1 + At(task[b]), receipts, b, x)
  BY DEF After
<1> HIDE DEF At
<1>3. ASSUME task[b] \in {"tx"} \cup ToSet(EventTables)
      PROVE  /\ After(b, EmptyBatch) \in ToSet(Steps) \ {"tx", "logs", "rows"}
             /\ After(b, EmptyBatch) = "done" => FailedReceipts(receipts, b) = <<>>
  <2>1. 1 + At(task[b]) \in 2 .. 5
    BY <1>1, <1>3, StepsAre
  <2> QED  BY <1>2, <2>1, FirstWithoutBatch
<1>4. /\ HasWork(receipts, b, bt, "logs") <=> bt.logs # <<>>
      /\ HasWork(receipts, b, bt, "rows") <=> bt.rows # {}
  BY StepsAre DEF HasWork
<1>5. ASSUME task[b] = "trace"
      PROVE  After(b, bt) = IF bt.logs # <<>> THEN "logs" ELSE IF bt.rows # {} THEN "rows" ELSE "done"
  <2>1. After(b, bt) = FirstFrom(6, receipts, b, bt)
    BY <1>1, <1>2, <1>5
  <2>2. PICK j \in 6 .. 8 : /\ After(b, bt) = Steps[j] /\ HasWork(receipts, b, bt, Steps[j])
                            /\ \A k \in 6 .. j - 1 : ~HasWork(receipts, b, bt, Steps[k])
    BY <2>1, FirstFromIs
  <2>3. j = 6 \/ j = 7 \/ j = 8
    OBVIOUS
  <2>4. j = 7 => 6 \in 6 .. j - 1
    OBVIOUS
  <2>5. j = 8 => 6 \in 6 .. j - 1 /\ 7 \in 6 .. j - 1
    OBVIOUS
  <2> QED  BY <1>4, <2>2, <2>3, <2>4, <2>5, StepsAre
<1>6. ASSUME task[b] = "logs"  PROVE After(b, bt) = IF bt.rows # {} THEN "rows" ELSE "done"
  <2>1. After(b, bt) = FirstFrom(7, receipts, b, bt)
    BY <1>1, <1>2, <1>6
  <2>2. PICK j \in 7 .. 8 : /\ After(b, bt) = Steps[j] /\ HasWork(receipts, b, bt, Steps[j])
                            /\ \A k \in 7 .. j - 1 : ~HasWork(receipts, b, bt, Steps[k])
    BY <2>1, FirstFromIs
  <2>3. j = 7 \/ j = 8
    OBVIOUS
  <2>4. j = 8 => 7 \in 7 .. j - 1
    OBVIOUS
  <2> QED  BY <1>4, <2>2, <2>3, <2>4, StepsAre
<1>7. ASSUME task[b] = "rows"  PROVE After(b, bt) = "done"
  <2>1. After(b, bt) = FirstFrom(8, receipts, b, bt)
    BY <1>1, <1>2, <1>7
  <2>2. PICK j \in 8 .. 8 : After(b, bt) = Steps[j]
    BY <2>1, FirstFromIs
  <2>3. j = 8
    OBVIOUS
  <2> QED  BY <2>2, <2>3, StepsAre
<1> QED  BY <1>3, <1>5, <1>6, <1>7

-----------------------------------------------------------------------------
(* What a batch holds *)

\* The elements of two sequences, one behind the other.
LEMMA ConcatElements ==
  ASSUME NEW S, NEW u \in Seq(S), NEW v \in Seq(S)
  PROVE  ToSet(u \o v) = ToSet(u) \cup ToSet(v)
<1>1. Range(u \o v) = Range(u) \cup Range(v)
  BY RangeConcatenation
<1> QED  BY <1>1 DEF Range, ToSet

\* The elements of FlattenSeq are those of its parts.
LEMMA FlattenElements ==
  ASSUME NEW S, NEW s \in Seq(Seq(S))
  PROVE  \A x : x \in ToSet(FlattenSeq(s)) <=> \E i \in DOMAIN s : x \in ToSet(s[i])
<1> DEFINE In(u) == \A x : x \in ToSet(FlattenSeq(u)) <=> \E i \in DOMAIN u : x \in ToSet(u[i])
           P == {u \in Seq(Seq(S)) : In(u)}
<1>0. /\ FlattenSeq(<<>>) = <<>>
      /\ \A u \in Seq(Seq(S)) : FlattenSeq(u) \in Seq(S)
      /\ \A u \in Seq(Seq(S)) : \A e \in Seq(S) : FlattenSeq(Append(u, e)) = FlattenSeq(u) \o e
  BY FlattenAppend
<1>1. <<>> \in P
  <2>1. In(<<>>)
    BY <1>0 DEF ToSet
  <2> QED  BY <2>1, EmptySeq
<1>2. ASSUME NEW u \in Seq(Seq(S)), NEW e \in Seq(S), u \in P  PROVE Append(u, e) \in P
  <2>1. Append(u, e) \in Seq(Seq(S))
    BY AppendProperties
  <2>2. ToSet(FlattenSeq(Append(u, e))) = ToSet(FlattenSeq(u)) \cup ToSet(e)
    <3>1. FlattenSeq(Append(u, e)) = FlattenSeq(u) \o e /\ FlattenSeq(u) \in Seq(S)
      BY <1>0
    <3> QED  BY <3>1, ConcatElements
  <2>3. In(u)
    BY <1>2
  <2>4. Len(u) \in Nat /\ DOMAIN u = 1 .. Len(u) /\ DOMAIN Append(u, e) = 1 .. Len(u) + 1
        /\ Append(u, e)[Len(u) + 1] = e /\ \A i \in 1 .. Len(u) : Append(u, e)[i] = u[i]
    BY <2>1, AppendProperties, LenProperties
  <2>5. In(Append(u, e))
    <3> SUFFICES ASSUME NEW x
                 PROVE  x \in ToSet(FlattenSeq(Append(u, e)))
                          <=> \E i \in DOMAIN Append(u, e) : x \in ToSet(Append(u, e)[i])
      OBVIOUS
    <3>1. x \in ToSet(FlattenSeq(Append(u, e))) <=> x \in ToSet(e) \/ \E i \in DOMAIN u : x \in ToSet(u[i])
      BY <2>2, <2>3
    <3>2. ASSUME NEW i \in DOMAIN Append(u, e)  PROVE i \in 1 .. Len(u) \/ i = Len(u) + 1
      BY <2>4
    <3>3. \A i \in 1 .. Len(u) : i \in DOMAIN Append(u, e)
      BY <2>4
    <3>4. Len(u) + 1 \in DOMAIN Append(u, e)
      BY <2>4
    <3> HIDE DEF In
    <3> QED  BY <2>4, <3>1, <3>2, <3>3, <3>4
  <2> HIDE DEF In
  <2> QED  BY <2>1, <2>5
<1>3. \A u \in Seq(Seq(S)) : u \in P
  <2> HIDE DEF P
  <2> QED  BY <1>1, <1>2, SeqInduct
<1> QED  BY <1>3

\* Two receipts of one transaction are one receipt of one block.
LEMMA OneReceipt ==
  ASSUME NEW w \in Worlds, NEW b \in Blocks, NEW c \in Blocks,
         NEW r \in ToSet(w[b]), NEW s \in ToSet(w[c]), r.tx = s.tx
  PROVE  b = c /\ r = s
<1>1. PICK i \in DOMAIN w[b] : r = w[b][i]
  BY DEF ToSet
<1>2. PICK j \in DOMAIN w[c] : s = w[c][j]
  BY DEF ToSet
<1>3. b = c /\ i = j
  BY <1>1, <1>2, WorldAssumption
<1> QED  BY <1>1, <1>2, <1>3

\* The receipts of a block that a batch is made of.
LEMMA TracedAre ==
  ASSUME receipts \in Worlds, NEW b \in Blocks, NEW missed
  PROVE  /\ Traced(b, missed) \in Seq(Parsed)
         /\ ToSet(Traced(b, missed)) = {r \in OnChain(b) : r.tx \notin missed}
<1>1. receipts[b] \in Seq(Receipts)
  BY WorldAssumption
<1> DEFINE bad == {r \in Receipts : ~r.ok}
           good == {r \in Parsed : r.tx \notin missed}
<1>2. Traced(b, missed) = Those(Those(receipts[b], bad), good)
  BY DEF Traced, FailedReceipts
<1>3. Those(Those(receipts[b], bad), good) = Those(receipts[b], bad \cap good)
  BY <1>1, ThoseThose
<1>4. bad \cap good = good
  BY DEF Parsed
<1>5. ToSet(Those(receipts[b], good)) = ToSet(receipts[b]) \cap good /\ Those(receipts[b], good) \in Seq(Receipts)
  BY <1>1, ThoseSet, ThoseAppend
<1> DEFINE t == Traced(b, missed)
<1>6. t = Those(receipts[b], good)
  BY <1>2, <1>3, <1>4
<1>7. ToSet(t) = {r \in OnChain(b) : r.tx \notin missed}
  BY <1>5, <1>6 DEF OnChain
<1>8. t \in Seq(Receipts)
  BY <1>5, <1>6
<1> HIDE DEF t
<1>9. t \in Seq(Parsed)
  <2>1. Len(t) \in Nat /\ DOMAIN t = 1 .. Len(t) /\ t = [i \in 1 .. Len(t) |-> t[i]]
    BY <1>8, LenProperties
  <2>2. \A i \in 1 .. Len(t) : t[i] \in ToSet(t)
    BY <2>1 DEF ToSet
  <2>3. \A i \in 1 .. Len(t) : t[i] \in Parsed
    BY <1>7, <2>2 DEF OnChain
  <2> QED  BY <2>1, <2>3
<1> QED  BY <1>7, <1>9 DEF t

\* A block without failed transactions has none to trace.
LEMMA NoFailures ==
  ASSUME NEW w \in Worlds, NEW b \in Blocks, FailedReceipts(w, b) = <<>>
  PROVE  ToSet(w[b]) \cap Parsed = {}
<1>1. w[b] \in Seq(Receipts)
  BY WorldAssumption
<1> DEFINE bad == {r \in Receipts : ~r.ok}
<1>2. ToSet(Those(w[b], bad)) = ToSet(w[b]) \cap bad
  BY <1>1, ThoseSet
<1>3. ToSet(<<>>) = {}
  BY DEF ToSet
<1>4. Parsed \subseteq bad
  BY DEF Parsed
<1> QED  BY <1>2, <1>3, <1>4 DEF FailedReceipts

\* A row of failed_transaction: whose it is, when, and its category.
LEMMA FailedRowIs ==
  ASSUME NEW b, NEW r
  PROVE  /\ FailedRow(b, r).tx = r.tx /\ FailedRow(b, r).timestamp = b
         /\ FailedRow(b, r).category \in ErrorCategory
         /\ \A tx : Stub(tx, b).tx = tx /\ Stub(tx, b).timestamp = b /\ Stub(tx, b).category \in ErrorCategory
<1>1. ASSUME NEW class  PROVE StoredCategory(class) \in ErrorCategory
  <2>1. {"InsufficientBalance", "SlippageExceeded", "DeadlineExpired", "Unauthorized", "TransferFailed", "Unknown"}
          \subseteq ErrorCategory
    BY DEF ErrorCategory, as_wire
  <2>2. ASSUME NEW c \in ErrorCategory, as_wire[c] = class  PROVE from_str(class) \in ErrorCategory
    BY <2>2 DEF from_str
  <2> QED  BY <2>1, <2>2 DEF StoredCategory
<1> QED  BY <1>1 DEF FailedRow, Stub

\* The rows and the frames of a batch are those of its receipts.
LEMMA BatchIs ==
  ASSUME NEW b, NEW rs \in Seq(Parsed)
  PROVE  /\ [i \in DOMAIN rs |-> LogsOf(rs[i])] \in Seq(Seq(LogRows))
         /\ BatchOf(b, rs).logs \in Seq(LogRows)
         /\ \A l : l \in ToSet(BatchOf(b, rs).logs) <=> \E r \in ToSet(rs) : l \in ToSet(LogsOf(r))
         /\ \A x : x \in BatchOf(b, rs).rows <=> \E r \in ToSet(rs) : x = FailedRow(b, r)
         /\ IsFiniteSet(BatchOf(b, rs).rows)
         /\ rs = <<>> => BatchOf(b, rs) = EmptyBatch
<1>1. Len(rs) \in Nat /\ DOMAIN rs = 1 .. Len(rs) /\ \A i \in 1 .. Len(rs) : rs[i] \in Parsed
  BY LenProperties, ElementOfSeq
<1> DEFINE parts == [i \in DOMAIN rs |-> LogsOf(rs[i])]
<1>2. parts \in Seq(Seq(LogRows)) /\ DOMAIN parts = DOMAIN rs /\ \A i \in DOMAIN rs : parts[i] = LogsOf(rs[i])
  <2>1. \A i \in 1 .. Len(rs) : LogsOf(rs[i]) \in Seq(LogRows)
    BY <1>1, LogsShape
  <2> QED  BY <1>1, <2>1
<1>3. BatchOf(b, rs).logs = FlattenSeq(parts) /\ BatchOf(b, rs).rows = {FailedRow(b, rs[i]) : i \in DOMAIN rs}
  BY DEF BatchOf
<1> HIDE DEF parts
<1>4. BatchOf(b, rs).logs \in Seq(LogRows)
  BY <1>2, <1>3, FlattenAppend
<1>5. ASSUME NEW l  PROVE l \in ToSet(BatchOf(b, rs).logs) <=> \E r \in ToSet(rs) : l \in ToSet(LogsOf(r))
  <2>1. l \in ToSet(FlattenSeq(parts)) <=> \E i \in DOMAIN parts : l \in ToSet(parts[i])
    BY <1>2, FlattenElements
  <2>2. (\E r \in ToSet(rs) : l \in ToSet(LogsOf(r))) <=> \E i \in DOMAIN rs : l \in ToSet(LogsOf(rs[i]))
    BY DEF ToSet
  <2> QED  BY <1>2, <1>3, <2>1, <2>2
<1>6. \A x : x \in BatchOf(b, rs).rows <=> \E r \in ToSet(rs) : x = FailedRow(b, r)
  BY <1>3 DEF ToSet
<1>7. IsFiniteSet(BatchOf(b, rs).rows)
  <2> DEFINE R == {FailedRow(b, rs[i]) : i \in 1 .. Len(rs)}
             f == [i \in 1 .. Len(rs) |-> FailedRow(b, rs[i])]
  <2>1. f \in Surjection(1 .. Len(rs), R)
    BY DEF Surjection
  <2>2. IsFiniteSet(1 .. Len(rs))
    BY <1>1, FS_Interval
  <2> HIDE DEF f, R
  <2>3. IsFiniteSet(R)
    BY <2>1, <2>2, FS_Surjection
  <2> QED  BY <1>1, <1>3, <2>3 DEF R
<1>8. ASSUME rs = <<>>  PROVE BatchOf(b, rs) = EmptyBatch
  <2>1. DOMAIN rs = {}
    BY <1>8
  <2>2. parts = <<>>
    BY <2>1, <1>2, <1>8, LenProperties DEF parts
  <2>3. FlattenSeq(parts) = <<>>
    BY <2>2, FlattenAppend
  <2>4. BatchOf(b, rs) = [logs |-> FlattenSeq(parts), rows |-> {FailedRow(b, rs[i]) : i \in DOMAIN rs}]
    BY DEF BatchOf, parts
  <2> QED  BY <2>1, <2>3, <2>4 DEF EmptyBatch
<1> QED  BY <1>2, <1>4, <1>5, <1>6, <1>7, <1>8 DEF parts

\* A batch with rows has frames, and one with frames has rows.
LEMMA NoBatch ==
  ASSUME NEW b, NEW rs \in Seq(Parsed), BatchOf(b, rs).logs = <<>> \/ BatchOf(b, rs).rows = {}
  PROVE  BatchOf(b, rs) = EmptyBatch
<1>1. ASSUME NEW r \in ToSet(rs)  PROVE r \in Parsed
  <2>1. PICK i \in DOMAIN rs : r = rs[i]
    BY DEF ToSet
  <2> QED  BY <2>1, LenProperties, ElementOfSeq
<1>2. ASSUME NEW r \in ToSet(rs)  PROVE FALSE
  <2>1. LogsOf(r) \in Seq(LogRows) /\ LogsOf(r) # <<>>
    BY <1>1, LogsShape
  <2>2. Len(LogsOf(r)) \in Nat \ {0} /\ DOMAIN LogsOf(r) = 1 .. Len(LogsOf(r))
    BY <2>1, EmptySeq, LenProperties
  <2>3. 1 \in DOMAIN LogsOf(r)
    BY <2>2
  <2>4. LogsOf(r)[1] \in ToSet(LogsOf(r))
    BY <2>3 DEF ToSet
  <2>5. LogsOf(r)[1] \in ToSet(BatchOf(b, rs).logs) /\ FailedRow(b, r) \in BatchOf(b, rs).rows
    BY <2>4, BatchIs
  <2>6. ToSet(<<>>) = {}
    BY DEF ToSet
  <2> QED  BY <2>5, <2>6
<1>3. Len(rs) \in Nat /\ DOMAIN rs = 1 .. Len(rs)
  BY LenProperties
<1>4. CASE Len(rs) # 0
  <2>1. 1 \in DOMAIN rs
    BY <1>3, <1>4
  <2> QED  BY <1>2, <2>1 DEF ToSet
<1>5. CASE Len(rs) = 0
  <2>1. rs = <<>>
    BY <1>5, EmptySeq
  <2> QED  BY <2>1, BatchIs
<1> QED  BY <1>4, <1>5

-----------------------------------------------------------------------------
(* The frames of a transaction in trace_log *)

\* The rows of a transaction, and when there are any.
LEMMA TreeIs ==
  ASSUME NEW s \in Seq(LogRows), NEW tx
  PROVE  /\ Those(s, {l \in ToSet(s) : l.tx = tx}) = Those(s, OfTx(tx))
         /\ Those(s, OfTx(tx)) \in Seq(LogRows)
         /\ Those(s, OfTx(tx)) # <<>> <=> \E l \in ToSet(s) : l.tx = tx
<1>1. ToSet(s) \subseteq LogRows
  <2>1. \A i \in DOMAIN s : s[i] \in LogRows
    BY LenProperties, ElementOfSeq
  <2> QED  BY <2>1 DEF ToSet
<1>2. ToSet(s) \cap {l \in ToSet(s) : l.tx = tx} = ToSet(s) \cap OfTx(tx)
  BY <1>1 DEF OfTx
<1>3. Those(s, {l \in ToSet(s) : l.tx = tx}) = Those(s, OfTx(tx))
  BY <1>2, ThoseSame
<1>4. Those(s, OfTx(tx)) \in Seq(LogRows)
  BY ThoseAppend
<1>5. ToSet(Those(s, OfTx(tx))) = ToSet(s) \cap OfTx(tx)
  BY ThoseSet
<1>6. ASSUME NEW u \in Seq(LogRows)  PROVE u # <<>> <=> ToSet(u) # {}
  <2>1. CASE u = <<>>
    BY <2>1 DEF ToSet
  <2>2. CASE u # <<>>
    <3>1. Len(u) \in Nat \ {0} /\ DOMAIN u = 1 .. Len(u)
      BY <2>2, EmptySeq, LenProperties
    <3>2. 1 \in DOMAIN u
      BY <3>1
    <3> QED  BY <2>2, <3>2 DEF ToSet
  <2> QED  BY <2>1, <2>2
<1>7. Those(s, OfTx(tx)) # <<>> <=> ToSet(s) \cap OfTx(tx) # {}
  BY <1>4, <1>5, <1>6
<1>8. (ToSet(s) \cap OfTx(tx) # {}) <=> \E l \in ToSet(s) : l.tx = tx
  BY <1>1 DEF OfTx
<1> QED  BY <1>3, <1>4, <1>7, <1>8

\* A sequence repeated, and once more.
LEMMA RepeatsGrow ==
  ASSUME NEW S, NEW s \in Seq(S)
  PROVE  /\ <<>> \in Repeats(s)
         /\ \A k \in Nat : Times(k, s) \in Seq(S)
         /\ \A k \in Nat : Times(k + 1, s) = Times(k, s) \o s
         /\ \A a \in Repeats(s) : a \in Seq(S) /\ a \o s \in Repeats(s)
<1> DEFINE c(k) == [i \in 1 .. k |-> s]
<1>1. ASSUME NEW k \in Nat  PROVE c(k) \in Seq(Seq(S)) /\ Len(c(k)) = k
  OBVIOUS
<1>2. ASSUME NEW k \in Nat  PROVE c(k + 1) = Append(c(k), s)
  <2>1. c(k + 1) \in Seq(Seq(S)) /\ Len(c(k + 1)) = k + 1 /\ c(k) \in Seq(Seq(S)) /\ Len(c(k)) = k
    BY <1>1
  <2>2. Append(c(k), s) \in Seq(Seq(S)) /\ Len(Append(c(k), s)) = k + 1
    <3> HIDE DEF c
    <3> QED  BY <2>1, AppendProperties
  <2>3. ASSUME NEW i \in 1 .. k + 1  PROVE c(k + 1)[i] = Append(c(k), s)[i]
    <3>1. c(k + 1)[i] = s
      OBVIOUS
    <3>2. CASE i \in 1 .. k
      <4>1. Append(c(k), s)[i] = c(k)[i]
        <5> HIDE DEF c
        <5> QED  BY <2>1, <3>2, AppendProperties
      <4>2. c(k)[i] = s
        BY <3>2
      <4> HIDE DEF c
      <4> QED  BY <3>1, <4>1, <4>2
    <3>3. CASE i = k + 1
      <4>1. Append(c(k), s)[i] = s
        <5> HIDE DEF c
        <5> QED  BY <2>1, <3>3, AppendProperties
      <4> HIDE DEF c
      <4> QED  BY <3>1, <4>1
    <3>4. i \in 1 .. k \/ i = k + 1
      OBVIOUS
    <3> HIDE DEF c
    <3> QED  BY <3>2, <3>3, <3>4
  <2> HIDE DEF c
  <2> QED  BY <2>1, <2>2, <2>3, SeqEqual
<1>3. \A k : Times(k, s) = FlattenSeq(c(k))
  BY DEF Times
<1>4. Times(0, s) = <<>>
  <2>1. c(0) = <<>>
    OBVIOUS
  <2> HIDE DEF c
  <2> QED  BY <1>3, <2>1, FlattenAppend
<1> HIDE DEF c
<1>5. ASSUME NEW k \in Nat  PROVE Times(k, s) \in Seq(S) /\ Times(k + 1, s) = Times(k, s) \o s
  <2>1. c(k) \in Seq(Seq(S)) /\ c(k + 1) = Append(c(k), s)
    BY <1>1, <1>2
  <2>2. FlattenSeq(c(k)) \in Seq(S) /\ FlattenSeq(Append(c(k), s)) = FlattenSeq(c(k)) \o s
    BY <2>1, FlattenAppend
  <2> QED  BY <1>3, <2>1, <2>2
<1>6. <<>> \in Repeats(s)
  <2>1. 0 \in Nat
    OBVIOUS
  <2> QED  BY <1>4, <2>1 DEF Repeats
<1>7. ASSUME NEW a \in Repeats(s)  PROVE a \in Seq(S) /\ a \o s \in Repeats(s)
  <2>1. PICK k \in Nat : a = Times(k, s)
    BY DEF Repeats
  <2>2. Times(k, s) \in Seq(S) /\ Times(k + 1, s) = Times(k, s) \o s
    BY <1>5
  <2>3. k + 1 \in Nat
    OBVIOUS
  <2>4. Times(k + 1, s) \in Repeats(s)
    BY <2>3 DEF Repeats
  <2> QED  BY <2>1, <2>2, <2>4
<1> QED  BY <1>5, <1>6, <1>7

\* A batch adds whole traces to those of a transaction.
LEMMA BatchRepeats ==
  ASSUME NEW b, NEW rs \in Seq(Parsed), NEW r \in Parsed,
         \A i \in DOMAIN rs : rs[i].tx = r.tx => rs[i] = r,
         NEW a \in Repeats(LogsOf(r))
  PROVE  a \o Those(BatchOf(b, rs).logs, OfTx(r.tx)) \in Repeats(LogsOf(r))
<1> DEFINE Flat(u) == FlattenSeq([i \in DOMAIN u |-> LogsOf(u[i])])
           Same(u) == \A i \in DOMAIN u : u[i].tx = r.tx => u[i] = r
           Grows(u) == a \o Those(Flat(u), OfTx(r.tx)) \in Repeats(LogsOf(r))
           P == {u \in Seq(Parsed) : Same(u) => Grows(u)}
<1>0. /\ LogsOf(r) \in Seq(LogRows)
      /\ a \in Seq(LogRows)
      /\ \A x \in Repeats(LogsOf(r)) : x \o LogsOf(r) \in Repeats(LogsOf(r))
  <2>1. LogsOf(r) \in Seq(LogRows)
    BY LogsShape
  <2> QED  BY <2>1, RepeatsGrow
<1>1. <<>> \in P
  <2>1. Flat(<<>>) = <<>>
    <3>1. [i \in DOMAIN <<>> |-> LogsOf(<<>>[i])] = <<>>
      OBVIOUS
    <3> QED  BY <3>1, FlattenAppend
  <2>2. Those(<<>>, OfTx(r.tx)) = <<>>
    BY ThoseAppend
  <2>3. a \o <<>> = a
    BY <1>0, ConcatEmptySeq
  <2> HIDE DEF Flat
  <2>4. Grows(<<>>)
    BY <2>1, <2>2, <2>3
  <2> QED  BY <2>4, EmptySeq
<1>2. ASSUME NEW u \in Seq(Parsed), NEW e \in Parsed, u \in P  PROVE Append(u, e) \in P
  <2>1. Append(u, e) \in Seq(Parsed)
    BY AppendProperties
  <2>2. Len(u) \in Nat /\ DOMAIN u = 1 .. Len(u) /\ DOMAIN Append(u, e) = 1 .. Len(u) + 1
        /\ Append(u, e)[Len(u) + 1] = e /\ \A i \in 1 .. Len(u) : Append(u, e)[i] = u[i]
    BY <2>1, AppendProperties, LenProperties
  <2> SUFFICES ASSUME Same(Append(u, e))  PROVE Grows(Append(u, e))
    BY <2>1
  <2>3. Same(u) /\ (e.tx = r.tx => e = r)
    <3>1. \A i \in 1 .. Len(u) : i \in 1 .. Len(u) + 1
      BY <2>2
    <3>2. Len(u) + 1 \in 1 .. Len(u) + 1
      BY <2>2
    <3> QED  BY <2>2, <3>1, <3>2
  <2>4. Grows(u)
    BY <1>2, <2>3
  <2> DEFINE parts == [i \in DOMAIN u |-> LogsOf(u[i])]
             more == [i \in DOMAIN Append(u, e) |-> LogsOf(Append(u, e)[i])]
  <2>5. parts \in Seq(Seq(LogRows)) /\ more \in Seq(Seq(LogRows))
    BY <2>1, BatchIs
  <2>6. LogsOf(e) \in Seq(LogRows) /\ LogsOf(e) \in Seq(OfTx(e.tx))
    BY LogsShape
  <2>7. more = Append(parts, LogsOf(e))
    <3>1. DOMAIN parts = 1 .. Len(u) /\ DOMAIN more = 1 .. Len(u) + 1
      BY <2>2
    <3>2. Len(parts) = Len(u) /\ Len(more) = Len(u) + 1
      <4> HIDE DEF parts, more
      <4> QED  BY <2>2, <2>5, <3>1
    <3>3. Append(parts, LogsOf(e)) \in Seq(Seq(LogRows)) /\ Len(Append(parts, LogsOf(e))) = Len(u) + 1
      <4> HIDE DEF parts, more
      <4> QED  BY <2>5, <2>6, <3>2, AppendProperties
    <3>4. ASSUME NEW i \in 1 .. Len(u) + 1  PROVE more[i] = Append(parts, LogsOf(e))[i]
      <4>1. more[i] = LogsOf(Append(u, e)[i])
        BY <2>2
      <4>2. CASE i \in 1 .. Len(u)
        <5>1. parts[i] = LogsOf(u[i])
          BY <2>2, <4>2
        <5> HIDE DEF parts, more
        <5>2. Append(parts, LogsOf(e))[i] = parts[i]
          BY <2>5, <2>6, <3>2, <4>2, AppendProperties
        <5> QED  BY <2>2, <4>1, <4>2, <5>1, <5>2
      <4>3. CASE i = Len(u) + 1
        <5> HIDE DEF parts, more
        <5>2. Append(parts, LogsOf(e))[i] = LogsOf(e)
          BY <2>5, <2>6, <3>2, <4>3, AppendProperties
        <5> QED  BY <2>2, <4>1, <4>3, <5>2
      <4>4. i \in 1 .. Len(u) \/ i = Len(u) + 1
        BY <2>2
      <4> QED  BY <4>2, <4>3, <4>4
    <3> HIDE DEF parts, more
    <3> QED  BY <2>5, <3>2, <3>3, <3>4, SeqEqual
  <2>8. Flat(Append(u, e)) = Flat(u) \o LogsOf(e) /\ Flat(u) \in Seq(LogRows)
    <3>1. Flat(Append(u, e)) = FlattenSeq(more) /\ Flat(u) = FlattenSeq(parts)
      OBVIOUS
    <3> HIDE DEF parts, more, Flat
    <3> QED  BY <3>1, <2>5, <2>6, <2>7, FlattenAppend
  <2> HIDE DEF Flat, Same, parts, more
  <2> DEFINE old == Those(Flat(u), OfTx(r.tx))
             new == Those(LogsOf(e), OfTx(r.tx))
  <2>9. Those(Flat(u) \o LogsOf(e), OfTx(r.tx)) = old \o new
    BY <2>6, <2>8, ThoseConcat
  <2>10. old \in Seq(LogRows)
    BY <2>8, ThoseAppend
  <2>11. a \o old \in Repeats(LogsOf(r))
    BY <2>4
  <2>12. ToSet(LogsOf(e)) \subseteq OfTx(e.tx)
    <3>1. \A i \in DOMAIN LogsOf(e) : LogsOf(e)[i] \in OfTx(e.tx)
      BY <2>6, LenProperties, ElementOfSeq
    <3> QED  BY <3>1 DEF ToSet
  <2>13. CASE e.tx = r.tx
    <3>1. e = r
      BY <2>3, <2>13
    <3>2. new = LogsOf(r)
      BY <2>6, <2>12, <3>1, ThoseAllOrNone
    <3> HIDE DEF old, new
    <3>3. a \o (old \o new) = (a \o old) \o LogsOf(r)
      BY <1>0, <2>10, <3>2, ConcatAssociative
    <3>4. (a \o old) \o LogsOf(r) \in Repeats(LogsOf(r))
      BY <1>0, <2>11
    <3> QED  BY <2>8, <2>9, <3>3, <3>4
  <2>14. CASE e.tx # r.tx
    <3>1. ToSet(LogsOf(e)) \cap OfTx(r.tx) = {}
      BY <2>12, <2>14 DEF OfTx
    <3>2. new = <<>>
      BY <2>6, <3>1, ThoseAllOrNone
    <3> HIDE DEF old, new
    <3>3. old \o new = old
      BY <2>10, <3>2, ConcatEmptySeq
    <3> QED  BY <2>8, <2>9, <2>11, <3>3
  <2> QED  BY <2>13, <2>14
<1>3. \A u \in Seq(Parsed) : u \in P
  <2> HIDE DEF P
  <2> QED  BY <1>1, <1>2, SeqInduct
<1>4. Grows(rs)
  BY <1>3
<1> QED  BY <1>4 DEF BatchOf

-----------------------------------------------------------------------------
(* The writer keeps the invariant *)

\* What only depends on receipts.
LEMMA SameChain ==
  ASSUME receipts' = receipts
  PROVE  /\ \A b : OnChain(b)' = OnChain(b) /\ \A missed : Traced(b, missed)' = Traced(b, missed)
         /\ (triggers => triggers') => \A f, b : Failure(f, b) => Failure(f, b)'
BY DEF OnChain, Traced, FailedReceipts, Failure

\* The receipts that a batch is made of, until the block is traced again.
LEMMA SameTraced ==
  ASSUME NEW b, receipts' = receipts, lost'[b] = lost[b]
  PROVE  Traced(b, lost[b])' = Traced(b, lost[b])
BY DEF Traced, FailedReceipts

\* What only depends on trace_log.
LEMMA SameLog ==
  ASSUME trace_log' = trace_log
  PROVE  \A tx : TreeRows(tx)' = TreeRows(tx)
BY DEF TreeRows

\* A block starts with its transactions, and is done if it has none.
LEMMA Fresh ==
  ASSUME NEW rs, NEW b
  PROVE  /\ Start(rs, b) \in ToSet(Steps) /\ Start(rs, b) \notin {"logs", "rows"} /\ "done" \in ToSet(Steps)
         /\ Start(rs, b) # "tx" => rs[b] = <<>>
         /\ Start(rs, b) = "done" => FailedReceipts(rs, b) = <<>>
<1>1. 1 \in 1 .. 8 /\ 1 <= 5
  OBVIOUS
<1>2. PICK j \in 1 .. 8 : /\ FirstFrom(1, rs, b, EmptyBatch) = Steps[j]
                          /\ \A k \in 1 .. j - 1 : ~HasWork(rs, b, EmptyBatch, Steps[k])
  BY <1>1, FirstFromIs
<1>3. j = 1 \/ 1 \in 1 .. j - 1
  OBVIOUS
<1>4. HasWork(rs, b, EmptyBatch, "tx") <=> rs[b] # <<>>
  BY StepsAre DEF HasWork
<1> QED  BY <1>1, <1>2, <1>3, <1>4, FirstWithoutBatch, StepsAre DEF Start

\* Nothing is held of a block that starts over.
LEMMA StartsOver ==
  ASSUME NEW b \in Blocks, receipts' \in Worlds, task'[b] = Start(receipts', b), batch'[b] = EmptyBatch
  PROVE  BatchOK(b)' /\ Ready(b)' /\ Finished(b)'
<1>1. task'[b] \notin {"logs", "rows"}
  BY Fresh
<1>2. task'[b] = "done" => OnChain(b)' = {}
  <2> DEFINE w == receipts'
  <2>1. task'[b] = "done" => FailedReceipts(w, b) = <<>>
    BY Fresh
  <2>2. w \in Worlds
    OBVIOUS
  <2>3. OnChain(b)' = ToSet(w[b]) \cap Parsed
    BY DEF OnChain
  <2> HIDE DEF w
  <2> QED  BY <2>1, <2>2, <2>3, NoFailures
<1> QED  BY <1>1, <1>2 DEF BatchOK, Ready, Finished

\* A step that does not touch a block, and deletes nothing.
LEMMA OtherBlock ==
  ASSUME WriterOK, NEW c \in Blocks, receipts' = receipts,
         task'[c] = task[c], batch'[c] = batch[c], lost'[c] = lost[c], failed \subseteq failed',
         \A tx : TreeRows(tx) # <<>> => TreeRows(tx)' # <<>>
  PROVE  BatchOK(c)' /\ Ready(c)' /\ Finished(c)'
<1>1. BatchOK(c) /\ Ready(c) /\ Finished(c)
  BY DEF WriterOK
<1>2. Traced(c, lost[c])' = Traced(c, lost[c]) /\ OnChain(c)' = OnChain(c)
  BY SameTraced, SameChain
<1>3. BatchOK(c)'
  BY <1>1, <1>2 DEF BatchOK
<1>4. Ready(c)'
  BY <1>1 DEF Ready
<1>5. Finished(c)'
  BY <1>1, <1>2 DEF Finished, Held
<1> QED  BY <1>3, <1>4, <1>5

\* A step that stores no transaction.
LEMMA StoredKept ==
  ASSUME WriterOK, receipts' = receipts, stored' = stored,
         \A c \in Blocks : task'[c] # "tx" => task[c] # "tx" \/ receipts[c] = <<>>,
         \A f \in failed' : f \in failed \/ Listed(f.tx, f.timestamp),
         \A c \in Blocks : \A r \in OnChain(c) : TreeRows(r.tx)' # <<>> => TreeRows(r.tx) # <<>> \/ Listed(r.tx, c)
  PROVE  StoredOK'
<1>1. StoredOK
  BY DEF WriterOK
<1>2. \A tx, c : Listed(tx, c)' = Listed(tx, c)
  BY DEF Listed
<1>3. \A c : OnChain(c)' = OnChain(c)
  BY SameChain
<1>4. ASSUME NEW c \in Blocks, task'[c] # "tx", NEW r \in ToSet(receipts[c])  PROVE Listed(r.tx, c)
  <2>1. CASE task[c] # "tx"
    BY <1>1, <2>1 DEF StoredOK
  <2>2. CASE receipts[c] = <<>>
    BY <1>4, <2>2 DEF ToSet
  <2> QED  BY <1>4, <2>1, <2>2
<1>5. \A c \in Blocks : \A r \in OnChain(c) : TreeRows(r.tx)' # <<>> => Listed(r.tx, c)
  BY <1>1 DEF StoredOK
<1>6. \A f \in failed' : Listed(f.tx, f.timestamp)
  BY <1>1 DEF StoredOK
<1> QED  BY <1>1, <1>2, <1>3, <1>4, <1>5, <1>6 DEF StoredOK

\* The first state.
LEMMA WriterStarts ==
  ASSUME WriterInit
  PROVE  WriterOK
<1> USE DEF WriterInit
<1>1. TasksOK
  BY Fresh DEF TasksOK
<1>2. \A b \in Blocks : BatchOK(b) /\ Ready(b) /\ Finished(b)
  <2>1. ASSUME NEW b \in Blocks  PROVE OnChain(b) = {} \/ task[b] # "done"
    BY Fresh, NoFailures DEF OnChain
  <2> QED  BY <2>1, Fresh DEF BatchOK, Ready, Finished
<1>3. FailedOK /\ FramesPrecedeFailure
  BY FS_EmptySet DEF FailedOK, FramesPrecedeFailure
<1>4. \A tx : TreeRows(tx) = <<>>
  BY ThoseAppend DEF TreeRows
<1>5. LogOK
  <2>1. trace_log \in Seq(LogRows) /\ ToSet(trace_log) = {}
    BY EmptySeq DEF ToSet
  <2>2. ASSUME NEW b \in Blocks, NEW r \in OnChain(b)  PROVE TreeRows(r.tx) \in Repeats(LogsOf(r))
    <3>1. LogsOf(r) \in Seq(LogRows)
      BY LogsShape DEF OnChain
    <3> QED  BY <1>4, <3>1, RepeatsGrow
  <2> QED  BY <2>1, <2>2 DEF LogOK
<1>6. StoredOK
  <2>1. ASSUME NEW b \in Blocks, task[b] # "tx"  PROVE ToSet(receipts[b]) = {}
    BY <2>1, Fresh DEF ToSet
  <2> QED  BY <1>4, <2>1 DEF StoredOK
<1> QED  BY <1>1, <1>2, <1>3, <1>5, <1>6 DEF WriterOK

\* A step that writes no row of a failure and drops no batch it needs.
LEMMA TablesKept ==
  ASSUME WriterOK, UNCHANGED <<receipts, trace_log, failed>>, triggers => triggers'
  PROVE  FailedOK' /\ LogOK' /\ FramesPrecedeFailure'
<1>1. \A b : OnChain(b)' = OnChain(b) /\ \A f : Failure(f, b) => Failure(f, b)'
  BY SameChain
<1>2. \A tx : TreeRows(tx)' = TreeRows(tx)
  BY SameLog
<1>3. FailedOK'
  BY <1>1 DEF WriterOK, FailedOK
<1>4. LogOK'
  BY <1>1, <1>2 DEF WriterOK, LogOK
<1>5. FramesPrecedeFailure'
  BY <1>2 DEF WriterOK, FramesPrecedeFailure
<1> QED  BY <1>3, <1>4, <1>5

\* insert_transactions comes first, and stores all of a block that is not
\* there yet; the trigger adds a failure for each that failed.
LEMMA TransactionsKeep ==
  ASSUME WriterOK, NEW b \in Blocks, InsertTransactions(b)
  PROVE  WriterOK'
<1> USE DEF InsertTransactions
<1>0. /\ receipts \in Worlds /\ triggers \in BOOLEAN /\ task \in [Blocks -> ToSet(Steps)]
      /\ batch = [c \in Blocks |-> batch[c]] /\ lost = [c \in Blocks |-> lost[c]]
  BY DEF WriterOK, TasksOK
<1>1. batch[b] = EmptyBatch
  BY StepsAre DEF WriterOK, BatchOK
<1>2. After(b, EmptyBatch) \in ToSet(Steps) \ {"tx", "logs", "rows"}
      /\ (After(b, EmptyBatch) = "done" => FailedReceipts(receipts, b) = <<>>)
  BY AfterIs
<1>3. task'[b] = After(b, EmptyBatch) /\ UNCHANGED <<receipts, batch, trace_log, lost, triggers>>
  BY <1>0, <1>1 DEF bounds
<1>4. TasksOK'
  BY <1>0, <1>1, <1>2, <1>3 DEF TasksOK
<1>5. \A c : OnChain(c)' = OnChain(c) /\ \A f : Failure(f, c) => Failure(f, c)'
  BY <1>3, SameChain
<1>6. \A tx : TreeRows(tx)' = TreeRows(tx)
  BY <1>3, SameLog
<1> DEFINE new == IF triggers THEN Stubs(b) ELSE {}
           rows == {[tx |-> r.tx, block |-> b] : r \in NewTxs(b)}
<1>7. failed' = failed \cup new /\ stored' = stored \cup rows
  OBVIOUS
<1>8. ASSUME NEW x \in new
      PROVE  triggers /\ \E r \in NewTxs(b) : ~r.ok /\ x = Stub(r.tx, b) /\ \A f \in failed : f.tx # r.tx
  BY DEF Stubs
<1>9. \A r \in NewTxs(b) : r \in ToSet(receipts[b]) /\ [tx |-> r.tx, block |-> b] \in rows
  BY DEF NewTxs
<1>10. IsFiniteSet(new)
  <2>1. receipts[b] \in Seq(Receipts)
    BY <1>0, WorldAssumption
  <2>2. DOMAIN receipts[b] = 1 .. Len(receipts[b]) /\ Len(receipts[b]) \in Nat
    BY <2>1, LenProperties
  <2>3. IsFiniteSet(1 .. Len(receipts[b]))
    BY <2>2, FS_Interval
  <2> DEFINE n == 1 .. Len(receipts[b])
             g == [i \in n |-> Stub(receipts[b][i].tx, b)]
             R == {g[i] : i \in n}
  <2>4. g \in Surjection(n, R)
    BY DEF Surjection
  <2>5. new \in SUBSET R
    <3>1. ASSUME NEW x \in new  PROVE x \in R
      <4>1. PICK r \in ToSet(receipts[b]) : x = Stub(r.tx, b)
        BY <1>8, <1>9
      <4>2. PICK i \in n : r = receipts[b][i]
        BY <2>2 DEF ToSet
      <4>3. g[i] = x
        BY <4>1, <4>2
      <4> QED  BY <4>3
    <3> QED  BY <3>1
  <2> HIDE DEF n, g, R
  <2>6. IsFiniteSet(n)
    BY <2>3 DEF n
  <2>7. IsFiniteSet(R)
    BY <2>4, <2>6, FS_Surjection
  <2> QED  BY <2>5, <2>7, FS_Subset
<1> HIDE DEF new, rows
<1>11. ASSUME NEW c \in Blocks  PROVE BatchOK(c)' /\ Ready(c)' /\ Finished(c)'
  <2>1. CASE c = b
    <3>1. batch'[c] = EmptyBatch /\ task'[c] \notin {"logs", "rows"}
      BY <1>1, <1>2, <1>3, <2>1
    <3>2. task'[c] = "done" => OnChain(c)' = {}
      BY <1>0, <1>2, <1>3, <1>5, <2>1, NoFailures DEF OnChain
    <3> QED  BY <3>1, <3>2 DEF BatchOK, Ready, Finished
  <2>2. CASE c # b
    <3>1. task'[c] = task[c] /\ batch'[c] = batch[c] /\ lost'[c] = lost[c] /\ failed \subseteq failed'
      BY <1>0, <1>3, <1>7, <2>2
    <3> QED  BY <1>3, <1>6, <3>1, OtherBlock
  <2> QED  BY <2>1, <2>2
<1>12. ASSUME NEW r \in ToSet(receipts[b])  PROVE [tx |-> r.tx, block |-> b] \in stored'
  <2>1. CASE r \in NewTxs(b)
    BY <1>7, <1>9, <2>1
  <2>2. CASE r \notin NewTxs(b)
    <3>1. PICK x \in stored : x.tx = r.tx
      BY <2>2 DEF NewTxs
    <3>2. PICK q \in ToSet(receipts[x.block]) : x.block \in Blocks /\ x = [tx |-> q.tx, block |-> x.block]
      BY DEF WriterOK, StoredOK
    <3>3. q.tx = r.tx
      BY <3>1, <3>2
    <3>4. x.block = b
      BY <1>0, <3>2, <3>3, OneReceipt
    <3> QED  BY <1>7, <3>2, <3>3, <3>4
  <2> QED  BY <2>1, <2>2
<1>13. \A tx, c : Listed(tx, c) => Listed(tx, c)'
  BY <1>7 DEF Listed
<1>14. \A r \in ToSet(receipts[b]) : Listed(r.tx, b)'
  BY <1>12 DEF Listed
<1>15. StoredOK'
  <2>1. ASSUME NEW x \in stored'
        PROVE  x.block \in Blocks /\ \E r \in ToSet(receipts'[x.block]) : x = [tx |-> r.tx, block |-> x.block]
    <3>1. CASE x \in stored
      BY <1>3, <3>1 DEF WriterOK, StoredOK
    <3>2. CASE x \in rows
      <4>1. PICK r \in NewTxs(b) : x = [tx |-> r.tx, block |-> b]
        BY <3>2 DEF rows
      <4> QED  BY <1>3, <1>9, <4>1
    <3> QED  BY <1>7, <3>1, <3>2
  <2>2. ASSUME NEW c \in Blocks, task'[c] # "tx", NEW r \in ToSet(receipts'[c])  PROVE Listed(r.tx, c)'
    <3>1. CASE c = b
      BY <1>3, <1>14, <3>1
    <3>2. CASE c # b
      <4>1. task[c] # "tx" /\ r \in ToSet(receipts[c])
        BY <1>0, <1>3, <2>2, <3>2
      <4>2. Listed(r.tx, c)
        BY <4>1 DEF WriterOK, StoredOK
      <4> QED  BY <1>13, <4>2
    <3> QED  BY <3>1, <3>2
  <2>3. ASSUME NEW c \in Blocks, NEW r \in OnChain(c)', TreeRows(r.tx)' # <<>>  PROVE Listed(r.tx, c)'
    <3>1. r \in OnChain(c) /\ TreeRows(r.tx) # <<>>
      BY <1>5, <1>6, <2>3
    <3>2. Listed(r.tx, c)
      BY <3>1 DEF WriterOK, StoredOK
    <3> QED  BY <1>13, <3>2
  <2>4. ASSUME NEW f \in failed'  PROVE Listed(f.tx, f.timestamp)'
    <3>1. CASE f \in failed
      <4>1. Listed(f.tx, f.timestamp)
        BY <3>1 DEF WriterOK, StoredOK
      <4> QED  BY <1>13, <4>1
    <3>2. CASE f \in new
      <4>1. PICK r \in NewTxs(b) : f = Stub(r.tx, b)
        BY <1>8, <3>2
      <4>2. f.tx = r.tx /\ f.timestamp = b
        BY <4>1 DEF Stub
      <4>3. Listed(r.tx, b)'
        BY <1>9, <1>14
      <4> QED  BY <4>2, <4>3
    <3> QED  BY <1>7, <3>1, <3>2
  <2> QED  BY <2>1, <2>2, <2>3, <2>4 DEF StoredOK
<1>16. FailedOK'
  <2>1. IsFiniteSet(failed')
    <3>1. IsFiniteSet(failed)
      BY DEF WriterOK, FailedOK
    <3>2. IsFiniteSet(failed \cup new)
      BY <1>10, <3>1, FS_Union
    <3> QED  BY <1>7, <3>2
  <2>2. ASSUME NEW f \in failed'  PROVE f.timestamp \in Blocks /\ Failure(f, f.timestamp)'
    <3>1. CASE f \in failed
      BY <1>5, <3>1 DEF WriterOK, FailedOK
    <3>2. CASE f \in new
      <4>1. PICK r \in NewTxs(b) : triggers /\ ~r.ok /\ f = Stub(r.tx, b)
        BY <1>8, <3>2
      <4>2. f.timestamp = b
        BY <4>1 DEF Stub
      <4>3. Failure(f, b)
        BY <1>9, <4>1 DEF Failure
      <4> QED  BY <1>5, <4>2, <4>3
    <3> QED  BY <1>7, <3>1, <3>2
  <2>3. ASSUME NEW f \in failed', NEW g \in failed', f.tx = g.tx  PROVE f = g
    <3>1. ASSUME NEW x \in new  PROVE (\A y \in failed : y.tx # x.tx) /\ x = Stub(x.tx, b)
      <4>1. PICK r \in NewTxs(b) : x = Stub(r.tx, b) /\ \A y \in failed : y.tx # r.tx
        BY <1>8
      <4>2. x.tx = r.tx
        BY <4>1 DEF Stub
      <4> QED  BY <4>1, <4>2
    <3>2. \A x, y \in failed : x.tx = y.tx => x = y
      BY DEF WriterOK, FailedOK
    <3> QED  BY <1>7, <2>3, <3>1, <3>2
  <2> QED  BY <2>1, <2>2, <2>3 DEF FailedOK
<1>17. FramesPrecedeFailure'
  <2>1. ASSUME NEW f \in failed'
        PROVE  (triggers /\ f = Stub(f.tx, f.timestamp)) \/ TreeRows(f.tx) # <<>>
    <3>1. CASE f \in failed
      BY <3>1 DEF WriterOK, FramesPrecedeFailure
    <3>2. CASE f \in new
      <4>1. PICK r \in NewTxs(b) : triggers /\ f = Stub(r.tx, b)
        BY <1>8, <3>2
      <4>2. f.tx = r.tx /\ f.timestamp = b
        BY <4>1 DEF Stub
      <4> QED  BY <4>1, <4>2
    <3> QED  BY <1>7, <3>1, <3>2
  <2> QED  BY <1>6, <2>1 DEF FramesPrecedeFailure
<1>18. LogOK'
  BY <1>3, <1>5, <1>6 DEF WriterOK, LogOK
<1> QED  BY <1>4, <1>11, <1>15, <1>16, <1>17, <1>18 DEF WriterOK

\* insert_swap_events and the like come before there is a batch.
LEMMA EventsKeep ==
  ASSUME WriterOK, NEW b \in Blocks, InsertEvents(b)
  PROVE  WriterOK'
<1> USE DEF InsertEvents
<1>0. /\ receipts \in Worlds /\ triggers \in BOOLEAN /\ task \in [Blocks -> ToSet(Steps)]
      /\ batch = [c \in Blocks |-> batch[c]] /\ lost = [c \in Blocks |-> lost[c]]
  BY DEF WriterOK, TasksOK
<1>1. batch[b] = EmptyBatch
  BY StepsAre DEF WriterOK, BatchOK
<1>2. After(b, EmptyBatch) \in ToSet(Steps) \ {"tx", "logs", "rows"}
      /\ (After(b, EmptyBatch) = "done" => FailedReceipts(receipts, b) = <<>>)
  BY AfterIs
<1>3. UNCHANGED <<receipts, batch, stored, trace_log, failed, lost, triggers>> /\ task' = [task EXCEPT ![b] = After(b, EmptyBatch)]
  BY <1>1 DEF bounds
<1>4. TasksOK'
  BY <1>0, <1>2, <1>3 DEF TasksOK
<1>5. \A c : OnChain(c)' = OnChain(c)
  BY <1>3, SameChain
<1>6. \A tx : TreeRows(tx)' = TreeRows(tx)
  BY <1>3, SameLog
<1>7. ASSUME NEW c \in Blocks  PROVE BatchOK(c)' /\ Ready(c)' /\ Finished(c)'
  <2>1. CASE c = b
    <3>1. task'[c] = After(b, EmptyBatch) /\ batch'[c] = EmptyBatch
      BY <1>0, <1>1, <1>3, <2>1
    <3>2. task'[c] = "done" => OnChain(c)' = {}
      BY <1>0, <1>2, <1>5, <2>1, <3>1, NoFailures DEF OnChain
    <3> QED  BY <1>2, <3>1, <3>2 DEF BatchOK, Ready, Finished
  <2>2. CASE c # b
    <3>1. task'[c] = task[c] /\ batch'[c] = batch[c] /\ lost'[c] = lost[c] /\ failed \subseteq failed'
      BY <1>0, <1>3, <2>2
    <3> QED  BY <1>3, <1>6, <3>1, OtherBlock
  <2> QED  BY <2>1, <2>2
<1>8. FailedOK' /\ LogOK' /\ FramesPrecedeFailure'
  BY <1>3, TablesKept
<1>9. StoredOK'
  <2>1. \A c \in Blocks : task'[c] # "tx" => task[c] # "tx"
    BY <1>0, <1>3, StepsAre
  <2> QED  BY <1>3, <1>6, <2>1, StoredKept
<1> QED  BY <1>4, <1>7, <1>8, <1>9 DEF WriterOK

\* process_failed_txs makes the batch.
LEMMA TraceKeeps ==
  ASSUME WriterOK, NEW b \in Blocks, TraceFailedTxs(b)
  PROVE  WriterOK'
<1> USE DEF TraceFailedTxs
<1>0. /\ receipts \in Worlds /\ triggers \in BOOLEAN /\ task \in [Blocks -> ToSet(Steps)]
      /\ batch = [c \in Blocks |-> batch[c]] /\ lost = [c \in Blocks |-> lost[c]]
  BY DEF WriterOK, TasksOK
<1>1. PICK missed : /\ batch' = [batch EXCEPT ![b] = BatchOf(b, Traced(b, missed))]
                    /\ lost' = [lost EXCEPT ![b] = missed]
  BY DEF BatchOf
<1> DEFINE bt == BatchOf(b, Traced(b, missed))
<1>2. batch'[b] = bt
  BY <1>0, <1>1
<1>3. task' = [task EXCEPT ![b] = After(b, bt)]
  BY <1>2
<1>4. After(b, bt) = IF bt.logs # <<>> THEN "logs" ELSE IF bt.rows # {} THEN "rows" ELSE "done"
  BY AfterIs
<1>5. TasksOK'
  <2>1. After(b, bt) \in ToSet(Steps)
    BY <1>4, StepsAre
  <2>2. batch' = [c \in Blocks |-> batch'[c]] /\ lost' = [c \in Blocks |-> lost'[c]]
    BY <1>0, <1>1
  <2> QED  BY <1>0, <1>3, <2>1, <2>2 DEF TasksOK
<1>6. Traced(b, missed) \in Seq(Parsed)
  BY <1>0, TracedAre
<1>7. /\ bt.logs = <<>> => bt = EmptyBatch
      /\ \A x : x \in bt.rows <=> \E r \in ToSet(Traced(b, missed)) : x = FailedRow(b, r)
      /\ ToSet(Traced(b, missed)) = {r \in OnChain(b) : r.tx \notin missed}
  BY <1>0, <1>6, NoBatch, BatchIs, TracedAre
<1>8. UNCHANGED <<receipts, stored, trace_log, failed, triggers>>
  BY DEF tables
<1>9. \A c : OnChain(c)' = OnChain(c)
  BY <1>8, SameChain
<1>10. \A tx : TreeRows(tx)' = TreeRows(tx)
  BY <1>8, SameLog
<1>11. ASSUME NEW c \in Blocks  PROVE BatchOK(c)' /\ Ready(c)' /\ Finished(c)'
  <2>1. CASE c = b
    <3>1. task'[c] = After(b, bt) /\ batch'[c] = bt /\ lost'[c] = missed
      BY <1>0, <1>1, <1>2, <1>3, <2>1
    <3>2. batch'[c] = BatchOf(c, Traced(c, lost[c])')
      BY <1>8, <2>1, <3>1 DEF Traced, FailedReceipts
    <3> HIDE DEF bt
    <3>3. CASE bt.logs # <<>>
      <4>1. task'[c] = "logs"
        BY <1>4, <3>1, <3>3
      <4> QED  BY <3>2, <4>1 DEF BatchOK, Ready, Finished
    <3>4. CASE bt.logs = <<>>
      <4>1. bt = EmptyBatch
        BY <1>7, <3>4
      <4>2. task'[c] = "done"
        BY <1>4, <3>1, <4>1 DEF EmptyBatch
      <4>3. \A r \in OnChain(b) : r.tx \in missed
        BY <1>7, <4>1 DEF EmptyBatch
      <4> QED  BY <1>9, <2>1, <3>1, <4>1, <4>2, <4>3 DEF BatchOK, Ready, Finished
    <3> QED  BY <3>3, <3>4
  <2>2. CASE c # b
    <3>1. task'[c] = task[c] /\ batch'[c] = batch[c] /\ lost'[c] = lost[c] /\ failed \subseteq failed'
      BY <1>0, <1>1, <1>8, <2>2
    <3> QED  BY <1>8, <1>10, <3>1, OtherBlock
  <2> QED  BY <2>1, <2>2
<1>12. FailedOK' /\ LogOK' /\ FramesPrecedeFailure'
  BY <1>8, TablesKept
<1>13. StoredOK'
  <2>1. \A c \in Blocks : task'[c] # "tx" => task[c] # "tx"
    BY <1>0, <1>3, StepsAre
  <2> QED  BY <1>8, <1>10, <2>1, StoredKept
<1> QED  BY <1>5, <1>11, <1>12, <1>13 DEF WriterOK

\* insert_trace_logs: whole traces join those of an earlier attempt.
LEMMA LogsKeep ==
  ASSUME WriterOK, NEW b \in Blocks, InsertTraceLogs(b)
  PROVE  WriterOK'
<1> USE DEF InsertTraceLogs
<1>0. /\ receipts \in Worlds /\ triggers \in BOOLEAN /\ task \in [Blocks -> ToSet(Steps)]
      /\ batch = [c \in Blocks |-> batch[c]] /\ lost = [c \in Blocks |-> lost[c]]
      /\ trace_log \in Seq(LogRows)
  BY DEF WriterOK, TasksOK, LogOK
<1>1. batch[b] = BatchOf(b, Traced(b, lost[b]))
  BY DEF WriterOK, BatchOK
<1> DEFINE rs == Traced(b, lost[b])
           bt == BatchOf(b, rs)
<1>2. rs \in Seq(Parsed) /\ ToSet(rs) = {r \in OnChain(b) : r.tx \notin lost[b]} /\ ToSet(rs) \subseteq OnChain(b)
  BY <1>0, TracedAre
<1>3. /\ trace_log' = trace_log \o bt.logs /\ task' = [task EXCEPT ![b] = After(b, bt)]
      /\ UNCHANGED <<receipts, batch, stored, failed, lost, triggers>>
  BY <1>1 DEF Logged, bounds
<1>4. After(b, bt) = IF bt.rows # {} THEN "rows" ELSE "done"
  BY AfterIs
<1>5. batch[b] = bt
  BY <1>1
<1>6. /\ bt.logs \in Seq(LogRows)
      /\ \A l : l \in ToSet(bt.logs) <=> \E r \in ToSet(rs) : l \in ToSet(LogsOf(r))
      /\ \A x : x \in bt.rows <=> \E r \in ToSet(rs) : x = FailedRow(b, r)
      /\ bt.rows = {} => bt = EmptyBatch
  BY <1>2, BatchIs, NoBatch
<1>7. \A i \in DOMAIN rs : rs[i] \in ToSet(rs)
  BY DEF ToSet
<1>8. \A c : OnChain(c)' = OnChain(c) /\ \A f : Failure(f, c) => Failure(f, c)'
  BY <1>3, SameChain
<1>21. BatchOf(b, Traced(b, lost[b])') = bt
  BY <1>3, SameTraced
<1> HIDE DEF bt, rs
<1>9. trace_log' \in Seq(LogRows) /\ ToSet(trace_log') = ToSet(trace_log) \cup ToSet(bt.logs)
  <2>1. ToSet(trace_log \o bt.logs) = ToSet(trace_log) \cup ToSet(bt.logs)
    BY <1>0, <1>6, ConcatElements
  <2>2. trace_log \o bt.logs \in Seq(LogRows)
    BY <1>0, <1>6, ConcatProperties
  <2> QED  BY <1>3, <2>1, <2>2
<1>10. ASSUME NEW tx
       PROVE  /\ TreeRows(tx) = Those(trace_log, OfTx(tx))
              /\ TreeRows(tx)' = Those(trace_log', OfTx(tx))
              /\ TreeRows(tx) # <<>> <=> \E l \in ToSet(trace_log) : l.tx = tx
              /\ TreeRows(tx)' # <<>> <=> \E l \in ToSet(trace_log') : l.tx = tx
  <2>1. ASSUME NEW s \in Seq(LogRows)
        PROVE  /\ Those(s, {l \in ToSet(s) : l.tx = tx}) = Those(s, OfTx(tx))
               /\ Those(s, OfTx(tx)) # <<>> <=> \E l \in ToSet(s) : l.tx = tx
    BY TreeIs
  <2>2. TreeRows(tx) = Those(trace_log, {l \in ToSet(trace_log) : l.tx = tx})
        /\ TreeRows(tx)' = Those(trace_log', {l \in ToSet(trace_log') : l.tx = tx})
    BY DEF TreeRows
  <2>3. TreeRows(tx) = Those(trace_log, OfTx(tx)) /\ TreeRows(tx)' = Those(trace_log', OfTx(tx))
    BY <1>0, <1>9, <2>1, <2>2
  <2> QED  BY <1>0, <1>9, <2>1, <2>3
<1>11. \A tx : TreeRows(tx) # <<>> => TreeRows(tx)' # <<>>
  BY <1>9, <1>10
<1>12. ASSUME NEW r \in OnChain(b)
       PROVE  (\A l \in ToSet(LogsOf(r)) : l.tx = r.tx) /\ ToSet(LogsOf(r)) # {}
  <2>1. LogsOf(r) \in Seq(OfTx(r.tx)) /\ LogsOf(r) # <<>>
    BY LogsShape DEF OnChain
  <2>2. Len(LogsOf(r)) \in Nat \ {0} /\ DOMAIN LogsOf(r) = 1 .. Len(LogsOf(r))
        /\ \A i \in 1 .. Len(LogsOf(r)) : LogsOf(r)[i] \in OfTx(r.tx)
    BY <2>1, EmptySeq, LenProperties, ElementOfSeq
  <2>3. 1 \in DOMAIN LogsOf(r)
    BY <2>2
  <2> QED  BY <2>2, <2>3 DEF ToSet, OfTx
<1>13. ASSUME NEW x \in bt.rows  PROVE TreeRows(x.tx)' # <<>>
  <2>1. PICK r \in ToSet(rs) : x = FailedRow(b, r)
    BY <1>6
  <2>2. x.tx = r.tx
    BY <2>1, FailedRowIs
  <2>3. PICK l \in ToSet(LogsOf(r)) : l.tx = r.tx
    BY <1>2, <1>12
  <2>4. l \in ToSet(trace_log')
    BY <1>6, <1>9, <2>3
  <2> QED  BY <1>10, <2>2, <2>3, <2>4
<1>14. TasksOK'
  <2>1. After(b, bt) \in ToSet(Steps)
    BY <1>4, StepsAre
  <2> QED  BY <1>0, <1>3, <2>1 DEF TasksOK
<1>15. ASSUME NEW c \in Blocks  PROVE BatchOK(c)' /\ Ready(c)' /\ Finished(c)'
  <2>1. CASE c = b
    <3>1. task'[c] = After(b, bt) /\ batch'[c] = bt
      BY <1>0, <1>3, <1>5, <2>1
    <3>2. batch'[c] = BatchOf(c, Traced(c, lost[c])')
      BY <1>21, <2>1, <3>1
    <3>3. CASE bt.rows # {}
      <4>1. task'[c] = "rows"
        BY <1>4, <3>1, <3>3
      <4>2. BatchOK(c)' /\ Finished(c)'
        BY <3>2, <4>1 DEF BatchOK, Finished
      <4>3. Ready(c)'
        BY <1>13, <3>1 DEF Ready
      <4> QED  BY <4>2, <4>3
    <3>4. CASE bt.rows = {}
      <4>1. task'[c] = "done" /\ bt = EmptyBatch
        BY <1>4, <1>6, <3>1, <3>4
      <4>2. \A r \in OnChain(b) : r.tx \in lost[b]
        BY <1>2, <1>6, <3>4
      <4> QED  BY <1>3, <1>8, <2>1, <3>1, <4>1, <4>2 DEF BatchOK, Ready, Finished
    <3> QED  BY <3>3, <3>4
  <2>2. CASE c # b
    <3>1. task'[c] = task[c] /\ batch'[c] = batch[c] /\ lost'[c] = lost[c] /\ failed \subseteq failed'
      BY <1>0, <1>3, <2>2
    <3> QED  BY <1>3, <1>11, <3>1, OtherBlock
  <2> QED  BY <2>1, <2>2
<1>16. FailedOK'
  BY <1>3, <1>8 DEF WriterOK, FailedOK
<1>17. FramesPrecedeFailure'
  BY <1>3, <1>11 DEF WriterOK, FramesPrecedeFailure
<1>22. ASSUME NEW c \in Blocks, NEW r \in OnChain(c), TreeRows(r.tx)' # <<>>
       PROVE  TreeRows(r.tx) # <<>> \/ Listed(r.tx, c)
  <2>1. PICK l \in ToSet(trace_log') : l.tx = r.tx
    BY <1>10, <1>22
  <2>2. CASE l \in ToSet(trace_log)
    BY <1>10, <2>1, <2>2
  <2>3. CASE l \in ToSet(bt.logs)
    <3>1. PICK q \in ToSet(rs) : l \in ToSet(LogsOf(q))
      BY <1>6, <2>3
    <3>2. q \in OnChain(b) /\ q.tx = r.tx
      BY <1>2, <1>12, <2>1, <3>1
    <3>3. q \in ToSet(receipts[b]) /\ r \in ToSet(receipts[c])
      BY <3>2 DEF OnChain
    <3>4. b = c /\ q = r
      BY <1>0, <3>2, <3>3, OneReceipt
    <3>5. task[b] # "tx"
      OBVIOUS
    <3>6. Listed(q.tx, b)
      BY <3>3, <3>5 DEF WriterOK, StoredOK
    <3> QED  BY <3>4, <3>6
  <2> QED  BY <1>9, <2>1, <2>2, <2>3
<1>23. StoredOK'
  <2>1. \A c \in Blocks : task'[c] # "tx" => task[c] # "tx"
    BY <1>0, <1>3
  <2> QED  BY <1>3, <1>22, <2>1, StoredKept
<1>18. ASSUME NEW l \in ToSet(trace_log')  PROVE \E c \in Blocks : \E r \in OnChain(c)' : l.tx = r.tx
  <2>1. CASE l \in ToSet(trace_log)
    BY <1>8, <2>1 DEF WriterOK, LogOK
  <2>2. CASE l \in ToSet(bt.logs)
    <3>1. PICK r \in ToSet(rs) : l \in ToSet(LogsOf(r))
      BY <1>6, <2>2
    <3>2. r \in OnChain(b) /\ l.tx = r.tx
      BY <1>2, <1>12, <3>1
    <3> QED  BY <1>8, <3>2
  <2> QED  BY <1>9, <2>1, <2>2
<1>19. ASSUME NEW c \in Blocks, NEW r \in OnChain(c)'  PROVE TreeRows(r.tx)' \in Repeats(LogsOf(r))
  <2>1. r \in OnChain(c)
    BY <1>8
  <2>2. r \in Parsed /\ r \in ToSet(receipts[c])
    BY <2>1 DEF OnChain
  <2>3. ASSUME NEW i \in DOMAIN rs, rs[i].tx = r.tx  PROVE rs[i] = r
    <3>1. rs[i] \in ToSet(receipts[b])
      BY <1>2, <1>7 DEF OnChain
    <3> QED  BY <1>0, <2>2, <2>3, <3>1, OneReceipt
  <2>4. TreeRows(r.tx) \in Repeats(LogsOf(r))
    BY <2>1 DEF WriterOK, LogOK
  <2>5. TreeRows(r.tx) \o Those(bt.logs, OfTx(r.tx)) \in Repeats(LogsOf(r))
    BY <1>2, <2>2, <2>3, <2>4, BatchRepeats DEF bt
  <2>6. TreeRows(r.tx)' = TreeRows(r.tx) \o Those(bt.logs, OfTx(r.tx))
    <3>1. Those(trace_log \o bt.logs, OfTx(r.tx)) = Those(trace_log, OfTx(r.tx)) \o Those(bt.logs, OfTx(r.tx))
      BY <1>0, <1>6, ThoseConcat
    <3> QED  BY <1>3, <1>10, <3>1
  <2> QED  BY <2>5, <2>6
<1>20. LogOK'
  BY <1>8, <1>9, <1>18, <1>19 DEF LogOK
<1> QED  BY <1>14, <1>15, <1>16, <1>17, <1>20, <1>23 DEF WriterOK

\* insert_failed_transactions: the frames are there already.
LEMMA FailedKeeps ==
  ASSUME WriterOK, NEW b \in Blocks, InsertFailed(b)
  PROVE  WriterOK'
<1> USE DEF InsertFailed
<1>0. /\ receipts \in Worlds /\ triggers \in BOOLEAN /\ task \in [Blocks -> ToSet(Steps)]
      /\ batch = [c \in Blocks |-> batch[c]] /\ lost = [c \in Blocks |-> lost[c]]
  BY DEF WriterOK, TasksOK
<1>1. batch[b] = BatchOf(b, Traced(b, lost[b]))
  BY DEF WriterOK, BatchOK
<1>2. Traced(b, lost[b]) \in Seq(Parsed) /\ ToSet(Traced(b, lost[b])) = {r \in OnChain(b) : r.tx \notin lost[b]}
  BY <1>0, TracedAre
<1>3. /\ IsFiniteSet(batch[b].rows)
      /\ \A x : x \in batch[b].rows <=> \E r \in OnChain(b) : r.tx \notin lost[b] /\ x = FailedRow(b, r)
  <2> DEFINE rs == Traced(b, lost[b])
  <2>1. rs \in Seq(Parsed) /\ ToSet(rs) = {r \in OnChain(b) : r.tx \notin lost[b]} /\ batch[b] = BatchOf(b, rs)
    BY <1>1, <1>2
  <2> HIDE DEF rs
  <2>2. /\ IsFiniteSet(BatchOf(b, rs).rows)
        /\ \A x : x \in BatchOf(b, rs).rows <=> \E r \in ToSet(rs) : x = FailedRow(b, r)
    BY <2>1, BatchIs
  <2> QED  BY <2>1, <2>2
<1>4. After(b, batch[b]) = "done"
  BY AfterIs
<1>5. \A c : OnChain(c)' = OnChain(c) /\ \A f : Failure(f, c) => Failure(f, c)'
  BY SameChain
<1>6. /\ \A tx : TreeRows(tx)' = TreeRows(tx)
      /\ UNCHANGED <<receipts, stored, trace_log, lost, triggers>>
  BY SameLog DEF bounds
<1>7. TasksOK'
  <2>1. batch' = [c \in Blocks |-> batch'[c]]
    BY <1>0
  <2> QED  BY <1>0, <1>4, <1>6, <2>1, StepsAre DEF TasksOK
<1> DEFINE new == {r \in batch[b].rows : \A f \in failed : f.tx # r.tx}
<1>9. failed' = failed \cup new /\ new \in SUBSET batch[b].rows
  OBVIOUS
<1> HIDE DEF new
<1>8. ASSUME NEW x \in batch[b].rows
      PROVE  x.timestamp = b /\ \E r \in OnChain(b) : x = FailedRow(b, r) /\ x.tx = r.tx
  BY <1>3, FailedRowIs
<1>10. ASSUME NEW x \in batch[b].rows  PROVE \E f \in failed' : f.tx = x.tx
  BY <1>9 DEF new
<1>11. ASSUME NEW c \in Blocks  PROVE BatchOK(c)' /\ Ready(c)' /\ Finished(c)'
  <2>1. CASE c = b
    <3>1. task'[c] = "done" /\ batch'[c] = EmptyBatch
      BY <1>0, <1>4, <2>1
    <3>2. ASSUME NEW r \in OnChain(b), r.tx \notin lost[b]  PROVE Held(r.tx)'
      <4>1. FailedRow(b, r) \in batch[b].rows /\ FailedRow(b, r).tx = r.tx
        BY <1>3, <3>2, FailedRowIs
      <4>2. TreeRows(r.tx) # <<>>
        BY <4>1 DEF WriterOK, Ready
      <4>3. \E f \in failed' : f.tx = r.tx
        BY <1>10, <4>1
      <4> QED  BY <1>6, <4>2, <4>3 DEF Held
    <3>3. Finished(c)'
      BY <1>5, <1>6, <2>1, <3>2 DEF Finished
    <3> QED  BY <3>1, <3>3 DEF BatchOK, Ready
  <2>2. CASE c # b
    <3>1. task'[c] = task[c] /\ batch'[c] = batch[c] /\ lost'[c] = lost[c] /\ failed \subseteq failed'
      BY <1>0, <1>6, <1>9, <2>2
    <3> QED  BY <1>6, <3>1, OtherBlock
  <2> QED  BY <2>1, <2>2
<1>12. FailedOK'
  <2>1. IsFiniteSet(failed')
    <3>1. IsFiniteSet(new)
      BY <1>3, <1>9, FS_Subset
    <3>2. IsFiniteSet(failed)
      BY DEF WriterOK, FailedOK
    <3>3. IsFiniteSet(failed \cup new)
      BY <3>1, <3>2, FS_Union
    <3> QED  BY <1>9, <3>3
  <2>2. ASSUME NEW f \in failed'  PROVE f.timestamp \in Blocks /\ Failure(f, f.timestamp)'
    <3>1. CASE f \in failed
      BY <1>5, <3>1 DEF WriterOK, FailedOK
    <3>2. CASE f \in new
      <4>1. PICK r \in OnChain(b) : f = FailedRow(b, r)
        BY <1>8, <1>9, <3>2
      <4>2. f.timestamp = b
        BY <1>8, <1>9, <3>2
      <4>3. Failure(f, b)
        BY <4>1 DEF Failure, OnChain, Parsed
      <4> QED  BY <1>5, <4>2, <4>3
    <3> QED  BY <1>9, <3>1, <3>2
  <2>3. ASSUME NEW f \in failed', NEW g \in failed', f.tx = g.tx  PROVE f = g
    <3>1. \A x, y \in failed : x.tx = y.tx => x = y
      BY DEF WriterOK, FailedOK
    <3>2. \A x \in new, y \in failed : y.tx # x.tx
      BY DEF new
    <3>3. ASSUME f \in new, g \in new  PROVE f = g
      <4>1. PICK q \in OnChain(b) : f = FailedRow(b, q) /\ f.tx = q.tx
        BY <1>8, <1>9, <3>3
      <4>2. PICK r \in OnChain(b) : g = FailedRow(b, r) /\ g.tx = r.tx
        BY <1>8, <1>9, <3>3
      <4>3. q = r
        BY <1>0, <2>3, <4>1, <4>2, OneReceipt DEF OnChain
      <4> QED  BY <4>1, <4>2, <4>3
    <3> QED  BY <1>9, <2>3, <3>1, <3>2, <3>3
  <2> QED  BY <2>1, <2>2, <2>3 DEF FailedOK
<1>13. FramesPrecedeFailure'
  <2>1. \A x \in batch[b].rows : TreeRows(x.tx) # <<>>
    BY DEF WriterOK, Ready
  <2>2. \A f \in failed : (triggers /\ f = Stub(f.tx, f.timestamp)) \/ TreeRows(f.tx) # <<>>
    BY DEF WriterOK, FramesPrecedeFailure
  <2>3. \A f \in failed' : (triggers /\ f = Stub(f.tx, f.timestamp)) \/ TreeRows(f.tx) # <<>>
    BY <1>9, <2>1, <2>2
  <2> QED  BY <1>6, <2>3 DEF FramesPrecedeFailure
<1>14. LogOK'
  BY <1>5, <1>6 DEF WriterOK, LogOK
<1>15. StoredOK'
  <2>1. \A c \in Blocks : task'[c] # "tx" => task[c] # "tx"
    BY <1>0, <1>4
  <2>2. ASSUME NEW f \in new  PROVE Listed(f.tx, f.timestamp)
    <3>1. PICK r \in OnChain(b) : f.tx = r.tx /\ f.timestamp = b
      BY <1>8, <1>9
    <3>2. r \in ToSet(receipts[b]) /\ task[b] # "tx"
      BY DEF OnChain
    <3>3. Listed(r.tx, b)
      BY <3>2 DEF WriterOK, StoredOK
    <3> QED  BY <3>1, <3>3
  <2>3. \A f \in failed' : f \in failed \/ Listed(f.tx, f.timestamp)
    BY <1>9, <2>2
  <2> QED  BY <1>6, <2>1, <2>3, StoredKept
<1> QED  BY <1>7, <1>11, <1>12, <1>13, <1>14, <1>15 DEF WriterOK

\* The process ends: no batch is left, and the tables stay.
LEMMA EndKeeps ==
  ASSUME WriterOK, ProcessEnds, UNCHANGED <<receipts, tables, lost, triggers>>
  PROVE  WriterOK'
<1>0. /\ receipts \in Worlds /\ triggers \in BOOLEAN /\ lost = [c \in Blocks |-> lost[c]]
      /\ UNCHANGED <<receipts, stored, trace_log, failed, lost, triggers>>
  BY DEF WriterOK, TasksOK, tables
<1>1. PICK kept \in SUBSET Done : task' = [b \in Blocks |-> IF b \in kept THEN "done" ELSE Start(receipts, b)]
  BY DEF ProcessEnds
<1>2. batch' = [b \in Blocks |-> EmptyBatch]
  BY DEF ProcessEnds
<1>3. TasksOK'
  BY <1>0, <1>1, <1>2, Fresh DEF TasksOK
<1>4. \A tx : TreeRows(tx)' = TreeRows(tx)
  BY <1>0, SameLog
<1>5. ASSUME NEW b \in Blocks  PROVE BatchOK(b)' /\ Ready(b)' /\ Finished(b)'
  <2>1. CASE b \in kept
    <3>1. task[b] = "done" /\ task'[b] = "done" /\ batch'[b] = EmptyBatch
      BY <1>1, <1>2, <2>1 DEF Done
    <3>2. batch[b] = EmptyBatch
      BY <3>1 DEF WriterOK, BatchOK
    <3> QED  BY <1>0, <1>4, <3>1, <3>2, OtherBlock
  <2>2. CASE b \notin kept
    <3>1. task'[b] = Start(receipts', b) /\ batch'[b] = EmptyBatch /\ receipts' \in Worlds
      BY <1>0, <1>1, <1>2, <2>2
    <3> QED  BY <3>1, StartsOver
  <2> QED  BY <2>1, <2>2
<1>6. FailedOK' /\ LogOK' /\ FramesPrecedeFailure'
  BY <1>0, TablesKept
<1>7. StoredOK'
  <2>1. ASSUME NEW b \in Blocks, task'[b] # "tx"  PROVE task[b] # "tx" \/ receipts[b] = <<>>
    BY <1>1, <2>1, Fresh DEF Done
  <2> QED  BY <1>0, <1>4, <2>1, StoredKept
<1> QED  BY <1>3, <1>5, <1>6, <1>7 DEF WriterOK

\* rollback_from_block takes the rows of the blocks that go, and no other.
LEMMA RollbackKeeps ==
  ASSUME WriterOK, NEW b \in Blocks, Rollback(b)
  PROVE  WriterOK'
<1> USE DEF Rollback
<1>0. /\ receipts \in Worlds /\ triggers \in BOOLEAN /\ task \in [Blocks -> ToSet(Steps)]
      /\ batch = [c \in Blocks |-> batch[c]] /\ lost = [c \in Blocks |-> lost[c]]
      /\ trace_log \in Seq(LogRows)
  BY DEF WriterOK, TasksOK, LogOK
<1>1. receipts' \in Worlds /\ \A c \in Blocks : c < b => receipts'[c] = receipts[c]
  OBVIOUS
<1>2. \A c \in Blocks : c < b => OnChain(c)' = OnChain(c) /\ \A f : Failure(f, c) => Failure(f, c)'
  BY <1>1 DEF OnChain, Failure
<1>3. ASSUME NEW c \in Blocks  PROVE c \in Int /\ b \in Int /\ (c < b \/ c >= b) /\ ~(c < b /\ c >= b)
  <2>1. c \in Int /\ b \in Int
    BY WorldAssumption
  <2> QED  BY <2>1
<1>4. ASSUME NEW c \in Blocks  PROVE task[c] \notin {"logs", "rows"} /\ batch[c] = EmptyBatch
  <2>1. task[c] \notin {"logs", "rows"}
    BY Fresh
  <2> QED  BY <2>1 DEF WriterOK, BatchOK
<1>5. ASSUME NEW c \in Blocks  PROVE task'[c] \in ToSet(Steps) /\ task'[c] \notin {"logs", "rows"}
  <2>1. task'[c] = IF c < b THEN task[c] ELSE Start(receipts', c)
    OBVIOUS
  <2>2. task[c] \in ToSet(Steps)
    BY <1>0
  <2> QED  BY <1>4, <2>1, <2>2, Fresh
<1>6. TasksOK'
  <2>1. task' \in [Blocks -> ToSet(Steps)]
    <3>1. task' = [c \in Blocks |-> task'[c]]
      OBVIOUS
    <3> QED  BY <1>5, <3>1
  <2> QED  BY <1>0, <1>1, <2>1 DEF TasksOK
<1> DEFINE gone == GoneTxs(b)
           keep == {l \in ToSet(trace_log) : l.tx \notin gone}
<1>7. ASSUME NEW tx  PROVE tx \in gone <=> \E x \in stored : x.block >= b /\ x.tx = tx
  BY DEF GoneTxs
<1>8. /\ trace_log' = Those(trace_log, keep) /\ stored' = {x \in stored : x.block < b}
      /\ failed' = {f \in failed : f.tx \notin gone}
      /\ UNCHANGED <<batch, lost, triggers>>
  OBVIOUS
<1> HIDE DEF gone
<1>9. trace_log' \in Seq(LogRows) /\ ToSet(trace_log') = ToSet(trace_log) \cap keep
  <2> HIDE DEF keep
  <2>1. Those(trace_log, keep) \in Seq(LogRows)
    BY <1>0, ThoseAppend
  <2>2. ToSet(Those(trace_log, keep)) = ToSet(trace_log) \cap keep
    BY <1>0, ThoseSet
  <2> QED  BY <1>8, <2>1, <2>2
<1>10. ASSUME NEW c \in Blocks, c < b, NEW r \in ToSet(receipts[c])  PROVE r.tx \notin gone
  <2> SUFFICES ASSUME NEW x \in stored, x.block >= b, x.tx = r.tx  PROVE FALSE
    BY <1>7
  <2>1. PICK q \in ToSet(receipts[x.block]) : x.block \in Blocks /\ x = [tx |-> q.tx, block |-> x.block]
    BY DEF WriterOK, StoredOK
  <2>2. q.tx = r.tx
    BY <2>1
  <2>3. x.block = c
    BY <1>0, <2>1, <2>2, OneReceipt
  <2> QED  BY <1>3, <1>10, <2>3
<1>11. ASSUME NEW c \in Blocks, NEW tx, Listed(tx, c)  PROVE tx \notin gone => c < b
  <2>1. [tx |-> tx, block |-> c] \in stored
    BY <1>11 DEF Listed
  <2>2. c >= b => tx \in gone
    BY <1>7, <2>1
  <2> QED  BY <1>3, <2>2
<1>12. ASSUME NEW c \in Blocks, c < b, NEW r \in OnChain(c)  PROVE TreeRows(r.tx)' = TreeRows(r.tx)
  <2>1. ASSUME NEW l \in ToSet(trace_log), l.tx = r.tx  PROVE l \in keep
    BY <1>10, <1>12, <2>1 DEF OnChain
  <2> DEFINE of == {l \in ToSet(trace_log) : l.tx = r.tx}
  <2>2. TreeRows(r.tx)' = Those(trace_log', {l \in ToSet(trace_log') : l.tx = r.tx})
        /\ TreeRows(r.tx) = Those(trace_log, of)
    BY DEF TreeRows
  <2>3. {l \in ToSet(trace_log') : l.tx = r.tx} = of
    <3> HIDE DEF keep
    <3> QED  BY <1>9, <2>1
  <2>4. Those(Those(trace_log, keep), of) = Those(trace_log, keep \cap of)
    BY <1>0, ThoseThose
  <2>5. keep \cap of = of
    <3> HIDE DEF keep
    <3> QED  BY <2>1
  <2> HIDE DEF keep, of
  <2> QED  BY <1>8, <2>2, <2>3, <2>4, <2>5
<1>13. ASSUME NEW l \in ToSet(trace_log')  PROVE \E c \in Blocks : c < b /\ \E r \in OnChain(c) : l.tx = r.tx
  <2>1. l \in ToSet(trace_log) /\ l.tx \notin gone
    BY <1>9
  <2>2. PICK c \in Blocks : \E r \in OnChain(c) : l.tx = r.tx
    BY <2>1 DEF WriterOK, LogOK
  <2>3. PICK r \in OnChain(c) : l.tx = r.tx
    BY <2>2
  <2>4. TreeRows(r.tx) # <<>>
    BY <1>0, <2>1, <2>3, TreeIs DEF TreeRows
  <2>5. Listed(r.tx, c)
    BY <2>4 DEF WriterOK, StoredOK
  <2> QED  BY <1>11, <2>1, <2>3, <2>5
<1> HIDE DEF keep
<1>14. ASSUME NEW c \in Blocks, NEW r \in OnChain(c)'
       PROVE  /\ TreeRows(r.tx)' = Those(trace_log', OfTx(r.tx))
              /\ TreeRows(r.tx)' # <<>> => c < b
  <2>1. r \in Parsed /\ r \in ToSet(receipts'[c])
    BY DEF OnChain
  <2>2. /\ TreeRows(r.tx)' = Those(trace_log', OfTx(r.tx))
        /\ TreeRows(r.tx)' # <<>> <=> \E l \in ToSet(trace_log') : l.tx = r.tx
    <3>1. TreeRows(r.tx)' = Those(trace_log', {l \in ToSet(trace_log') : l.tx = r.tx})
      BY DEF TreeRows
    <3>2. ASSUME NEW s \in Seq(LogRows)
          PROVE  /\ Those(s, {l \in ToSet(s) : l.tx = r.tx}) = Those(s, OfTx(r.tx))
                 /\ Those(s, OfTx(r.tx)) # <<>> <=> \E l \in ToSet(s) : l.tx = r.tx
      BY TreeIs
    <3> QED  BY <1>9, <3>1, <3>2
  <2>3. ASSUME NEW l \in ToSet(trace_log'), l.tx = r.tx  PROVE c < b
    <3>1. PICK d \in Blocks : d < b /\ \E s \in OnChain(d) : l.tx = s.tx
      BY <1>13
    <3>2. PICK s \in OnChain(d) : l.tx = s.tx
      BY <3>1
    <3>3. s \in ToSet(receipts'[d])
      BY <1>1, <3>1 DEF OnChain
    <3>4. c = d
      <4>1. r.tx = s.tx
        BY <2>3, <3>2
      <4> DEFINE w == receipts'
      <4>2. w \in Worlds /\ r \in ToSet(w[c]) /\ s \in ToSet(w[d])
        BY <1>1, <2>1, <3>3
      <4> HIDE DEF w
      <4> QED  BY <4>1, <4>2, OneReceipt
    <3> QED  BY <3>1, <3>4
  <2> QED  BY <2>2, <2>3
<1>15. LogOK'
  <2>1. ASSUME NEW l \in ToSet(trace_log')  PROVE \E c \in Blocks : \E r \in OnChain(c)' : l.tx = r.tx
    BY <1>2, <1>13
  <2>2. ASSUME NEW c \in Blocks, NEW r \in OnChain(c)'  PROVE TreeRows(r.tx)' \in Repeats(LogsOf(r))
    <3>1. CASE c < b
      <4>1. r \in OnChain(c)
        BY <1>2, <3>1
      <4>2. TreeRows(r.tx) \in Repeats(LogsOf(r))
        BY <4>1 DEF WriterOK, LogOK
      <4> QED  BY <1>12, <3>1, <4>1, <4>2
    <3>2. CASE c >= b
      <4>1. TreeRows(r.tx)' = <<>>
        BY <1>3, <1>14, <3>2
      <4>2. LogsOf(r) \in Seq(LogRows)
        BY LogsShape DEF OnChain
      <4> QED  BY <4>1, <4>2, RepeatsGrow
    <3> QED  BY <1>3, <3>1, <3>2
  <2> QED  BY <1>9, <2>1, <2>2 DEF LogOK
<1>16. ASSUME NEW f \in failed'
       PROVE  /\ f \in failed /\ f.timestamp \in Blocks /\ f.timestamp < b
              /\ Failure(f, f.timestamp) /\ Listed(f.tx, f.timestamp)
  <2>1. f \in failed /\ f.tx \notin gone
    BY <1>8
  <2>2. f.timestamp \in Blocks /\ Failure(f, f.timestamp) /\ Listed(f.tx, f.timestamp)
    BY <2>1 DEF WriterOK, FailedOK, StoredOK
  <2> QED  BY <1>11, <2>1, <2>2
<1>17. FailedOK'
  <2>1. failed' \in SUBSET failed
    BY <1>16
  <2>2. IsFiniteSet(failed) /\ \A f, g \in failed : f.tx = g.tx => f = g
    BY DEF WriterOK, FailedOK
  <2>3. IsFiniteSet(failed')
    BY <2>1, <2>2, FS_Subset
  <2> QED  BY <1>2, <1>16, <2>2, <2>3 DEF FailedOK
<1>18. FramesPrecedeFailure'
  <2>1. ASSUME NEW f \in failed', ~(triggers /\ f = Stub(f.tx, f.timestamp))  PROVE TreeRows(f.tx)' # <<>>
    <3>1. PICK r \in ToSet(receipts[f.timestamp]) :
            (r \in Parsed /\ f = FailedRow(f.timestamp, r)) \/ (triggers /\ f = Stub(r.tx, f.timestamp))
      BY <1>16 DEF Failure
    <3>2. CASE r \in Parsed /\ f = FailedRow(f.timestamp, r)
      <4>1. f.tx = r.tx /\ r \in OnChain(f.timestamp)
        BY <3>2, FailedRowIs DEF OnChain
      <4>2. TreeRows(f.tx) # <<>>
        BY <1>16, <2>1 DEF WriterOK, FramesPrecedeFailure
      <4> QED  BY <1>12, <1>16, <4>1, <4>2
    <3>3. CASE triggers /\ f = Stub(r.tx, f.timestamp)
      <4>1. f.tx = r.tx
        BY <3>3 DEF Stub
      <4> QED  BY <2>1, <3>3, <4>1
    <3> QED  BY <3>1, <3>2, <3>3
  <2> QED  BY <2>1 DEF FramesPrecedeFailure
<1>19. ASSUME NEW c \in Blocks  PROVE BatchOK(c)' /\ Ready(c)' /\ Finished(c)'
  <2>1. CASE c < b
    <3>1. task'[c] = task[c] /\ batch'[c] = EmptyBatch /\ lost'[c] = lost[c]
      BY <1>4, <1>8, <2>1
    <3>2. ASSUME task[c] = "done", NEW r \in OnChain(c), r.tx \notin lost[c]  PROVE Held(r.tx)'
      <4>1. TreeRows(r.tx) # <<>> /\ \E f \in failed : f.tx = r.tx
        BY <3>2 DEF WriterOK, Finished, Held
      <4>2. r.tx \notin gone
        BY <1>10, <2>1 DEF OnChain
      <4>3. \E f \in failed' : f.tx = r.tx
        BY <1>8, <4>1, <4>2
      <4> QED  BY <1>12, <2>1, <4>1, <4>3 DEF Held
    <3>3. Finished(c)'
      BY <1>2, <2>1, <3>1, <3>2 DEF Finished
    <3> QED  BY <1>5, <3>1, <3>3 DEF BatchOK, Ready
  <2>2. CASE c >= b
    <3>1. task'[c] = Start(receipts', c) /\ batch'[c] = EmptyBatch
      BY <1>3, <1>4, <1>8, <2>2
    <3> QED  BY <1>1, <3>1, StartsOver
  <2> QED  BY <1>3, <2>1, <2>2
<1>20. StoredOK'
  <2>0. \A tx, c : Listed(tx, c) /\ c < b => Listed(tx, c)'
    BY <1>8 DEF Listed
  <2>1. ASSUME NEW x \in stored'
        PROVE  x.block \in Blocks /\ \E r \in ToSet(receipts'[x.block]) : x = [tx |-> r.tx, block |-> x.block]
    <3>1. x \in stored /\ x.block < b
      BY <1>8
    <3>2. x.block \in Blocks /\ \E r \in ToSet(receipts[x.block]) : x = [tx |-> r.tx, block |-> x.block]
      BY <3>1 DEF WriterOK, StoredOK
    <3> QED  BY <1>1, <3>1, <3>2
  <2>2. ASSUME NEW c \in Blocks, task'[c] # "tx", NEW r \in ToSet(receipts'[c])  PROVE Listed(r.tx, c)'
    <3>1. CASE c < b
      <4>1. task[c] # "tx" /\ r \in ToSet(receipts[c])
        BY <1>1, <2>2, <3>1
      <4>2. Listed(r.tx, c)
        BY <4>1 DEF WriterOK, StoredOK
      <4> QED  BY <2>0, <3>1, <4>2
    <3>2. CASE c >= b
      <4>1. task'[c] = Start(receipts', c)
        BY <1>3, <3>2
      <4>2. receipts'[c] = <<>>
        BY <2>2, <4>1, Fresh
      <4> QED  BY <2>2, <4>2 DEF ToSet
    <3> QED  BY <1>3, <3>1, <3>2
  <2>3. ASSUME NEW c \in Blocks, NEW r \in OnChain(c)', TreeRows(r.tx)' # <<>>  PROVE Listed(r.tx, c)'
    <3>1. c < b
      BY <1>14, <2>3
    <3>2. r \in OnChain(c) /\ TreeRows(r.tx) # <<>>
      BY <1>2, <1>12, <2>3, <3>1
    <3>3. Listed(r.tx, c)
      BY <3>2 DEF WriterOK, StoredOK
    <3> QED  BY <2>0, <3>1, <3>3
  <2>4. \A f \in failed' : Listed(f.tx, f.timestamp)'
    BY <1>16, <2>0
  <2> QED  BY <2>1, <2>2, <2>3, <2>4 DEF StoredOK
<1> QED  BY <1>6, <1>15, <1>17, <1>18, <1>19, <1>20 DEF WriterOK

\* A step of the writer, and a step of the client, which writes nothing.
LEMMA WriterKeeps ==
  ASSUME WriterOK, WriterNext \/ UNCHANGED writerVars
  PROVE  WriterOK'
<1>1. CASE Interrupt
  BY <1>1, EndKeeps DEF Interrupt
<1>2. ASSUME NEW b \in Blocks, ProcessBlock(b)  PROVE WriterOK'
  <2>1. CASE BlockFails(b)
    BY <2>1, EndKeeps DEF BlockFails
  <2> QED  BY <1>2, <2>1, TransactionsKeep, EventsKeep, TraceKeeps, LogsKeep, FailedKeeps DEF ProcessBlock
<1>3. ASSUME NEW b \in Blocks, Rollback(b)  PROVE WriterOK'
  BY <1>3, RollbackKeeps
<1>4. ASSUME UNCHANGED <<receipts, task, batch, stored, trace_log, failed, lost>>, triggers' \in BOOLEAN, triggers => triggers'
      PROVE  WriterOK'
  <2>1. FailedOK' /\ LogOK' /\ FramesPrecedeFailure'
    BY <1>4, TablesKept
  <2>2. \A tx : TreeRows(tx)' = TreeRows(tx)
    BY <1>4, SameLog
  <2>3. TasksOK'
    BY <1>4 DEF WriterOK, TasksOK
  <2>4. \A c \in Blocks : BatchOK(c)' /\ Ready(c)' /\ Finished(c)'
    BY <1>4, <2>2, OtherBlock
  <2>5. StoredOK'
    BY <1>4, <2>2, StoredKept
  <2> QED  BY <2>1, <2>3, <2>4, <2>5 DEF WriterOK
<1>5. CASE InstallTriggers
  BY <1>4, <1>5 DEF InstallTriggers, tables, bounds
<1>6. CASE UNCHANGED writerVars
  <2>1. triggers \in BOOLEAN
    BY DEF WriterOK, TasksOK
  <2>2. UNCHANGED <<receipts, task, batch, stored, trace_log, failed, lost, triggers>>
    BY <1>6 DEF writerVars, tables, bounds
  <2> QED  BY <1>4, <2>1, <2>2
<1> QED  BY <1>1, <1>2, <1>3, <1>5, <1>6 DEF WriterNext

-----------------------------------------------------------------------------
(* What the tables tell the endpoints *)

\* A statement the database refuses is one of a block no attempt gets through.
LEMMA RefusedIsPoison ==
  ASSUME WriterOK
  PROVE  RetryGoesThrough
<1> SUFFICES ASSUME NEW b \in Blocks, Refused(b)  PROVE Poison(b)
  BY DEF RetryGoesThrough
<1>0. receipts \in Worlds
  BY DEF WriterOK, TasksOK
<1>1. CASE task[b] \in ToSet(EventTables) /\ \E r \in RowsFor(receipts, b, task[b]) : ~Fits(r.row)
  BY <1>1 DEF Poison, ToSet
<1> DEFINE all == Traced(b, {})
<1>2. ASSUME NEW missed  PROVE ToSet(Traced(b, missed)) \subseteq ToSet(all) /\ Traced(b, missed) \in Seq(Parsed)
  <2>1. /\ Traced(b, missed) \in Seq(Parsed)
        /\ ToSet(Traced(b, missed)) = {r \in OnChain(b) : r.tx \notin missed}
    BY <1>0, TracedAre
  <2>2. ToSet(Traced(b, {})) = {r \in OnChain(b) : r.tx \notin {}}
    BY <1>0, TracedAre
  <2> QED  BY <2>1, <2>2
<1> HIDE DEF all
<1>3. CASE task[b] = "logs" /\ \E l \in ToSet(batch[b].logs) : ~LogFits(l)
  <2>1. batch[b] = BatchOf(b, Traced(b, lost[b]))
    BY <1>3 DEF WriterOK, BatchOK
  <2>2. PICK l \in ToSet(batch[b].logs) : ~LogFits(l)
    BY <1>3
  <2> DEFINE rs == Traced(b, lost[b])
  <2>3. rs \in Seq(Parsed) /\ ToSet(rs) \subseteq ToSet(all) /\ l \in ToSet(BatchOf(b, rs).logs)
    BY <1>2, <2>1, <2>2
  <2> HIDE DEF rs
  <2>4. PICK r \in ToSet(rs) : l \in ToSet(LogsOf(r))
    BY <2>3, BatchIs
  <2> QED  BY <2>2, <2>3, <2>4 DEF Poison, all
<1>4. CASE task[b] = "rows" /\ \E x \in batch[b].rows : ~RowFits(x)
  <2>1. batch[b] = BatchOf(b, Traced(b, lost[b]))
    BY <1>4 DEF WriterOK, BatchOK
  <2>2. PICK x \in batch[b].rows : ~RowFits(x)
    BY <1>4
  <2> DEFINE rs == Traced(b, lost[b])
  <2>3. rs \in Seq(Parsed) /\ ToSet(rs) \subseteq ToSet(all) /\ x \in BatchOf(b, rs).rows
    BY <1>2, <2>1, <2>2
  <2> HIDE DEF rs
  <2>4. \A y : y \in BatchOf(b, rs).rows <=> \E r \in ToSet(rs) : y = FailedRow(b, r)
    BY <2>3, BatchIs
  <2>5. PICK r \in ToSet(rs) : x = FailedRow(b, r)
    BY <2>3, <2>4
  <2> QED  BY <2>2, <2>3, <2>5 DEF Poison, all
<1> QED  BY <1>1, <1>3, <1>4 DEF Refused

\* What is stored of a failure: the row that was classified, or the stub.
LEMMA FailureIs ==
  ASSUME WriterOK, NEW f \in failed
  PROVE  /\ f.timestamp \in Blocks
         /\ \E r \in ToSet(receipts[f.timestamp]) :
              /\ r.tx = f.tx /\ r.tx \in Txs
              /\ (r \in Parsed /\ f = FailedRow(f.timestamp, r)) \/ (triggers /\ f = Stub(r.tx, f.timestamp))
         /\ f \in FailedRows /\ f.category \in ErrorCategory
<1>1. f.timestamp \in Blocks /\ Failure(f, f.timestamp)
  BY DEF WriterOK, FailedOK
<1>2. PICK r \in ToSet(receipts[f.timestamp]) :
        (r \in Parsed /\ f = FailedRow(f.timestamp, r)) \/ (triggers /\ f = Stub(r.tx, f.timestamp))
  BY <1>1 DEF Failure
<1>3. r.tx \in Txs
  <2>1. receipts[f.timestamp] \in Seq(Receipts)
    BY <1>1, WorldAssumption DEF WriterOK, TasksOK
  <2>2. PICK i \in DOMAIN receipts[f.timestamp] : r = receipts[f.timestamp][i]
    BY DEF ToSet
  <2>3. r \in Receipts
    BY <2>1, <2>2, LenProperties, ElementOfSeq
  <2> QED  BY <2>3, ApiAssumption
<1>4. CASE r \in Parsed /\ f = FailedRow(f.timestamp, r)
  <2>1. r.tx = f.tx /\ f.category \in ErrorCategory
    BY <1>4, FailedRowIs
  <2>2. <<f.timestamp, r>> \in Blocks \X Parsed
    BY <1>1, <1>4
  <2>3. f \in FailedRows
    BY <1>4, <2>2 DEF FailedRows
  <2> QED  BY <1>1, <1>3, <1>4, <2>1, <2>3
<1>5. CASE triggers /\ f = Stub(r.tx, f.timestamp)
  <2>1. Stub(r.tx, f.timestamp).tx = r.tx
    BY DEF Stub
  <2>2. \A tx, b : Stub(tx, b).category \in ErrorCategory
    BY FailedRowIs
  <2>3. <<f.timestamp, r.tx>> \in Blocks \X Txs
    BY <1>1, <1>3
  <2>4. f \in FailedRows
    BY <1>5, <2>3 DEF FailedRows
  <2> QED  BY <1>1, <1>3, <1>5, <2>1, <2>2, <2>4
<1> QED  BY <1>2, <1>4, <1>5

\* The rows of the tables have their types, and a failure is stored once.
LEMMA TablesTyped ==
  ASSUME WriterOK
  PROVE  /\ \A l \in ToSet(trace_log) : l.tx \in Txs /\ l.frame \in FrameRows
         /\ \A x \in stored : x.tx \in Txs /\ x.block \in Blocks
         /\ \A f \in failed : /\ f.tx \in Txs /\ f.timestamp \in Blocks /\ f.category \in ErrorCategory
                              /\ f \in FailedRows
         /\ \A f, g \in failed : f.tx = g.tx => f = g
<1>1. ASSUME NEW l \in ToSet(trace_log)  PROVE l.tx \in Txs /\ l.frame \in FrameRows
  <2>1. trace_log \in Seq(LogRows)
    BY DEF WriterOK, LogOK
  <2>2. PICK i \in DOMAIN trace_log : l = trace_log[i]
    BY DEF ToSet
  <2>3. DOMAIN trace_log = 1 .. Len(trace_log)
    BY <2>1, LenProperties
  <2>4. trace_log[i] \in LogRows
    BY <2>1, <2>3, ElementOfSeq
  <2> QED  BY <2>2, <2>4 DEF LogRows
<1>2. ASSUME NEW x \in stored  PROVE x.tx \in Txs /\ x.block \in Blocks
  <2>1. x.block \in Blocks
    BY DEF WriterOK, StoredOK
  <2>2. PICK r \in ToSet(receipts[x.block]) : x = [tx |-> r.tx, block |-> x.block]
    BY DEF WriterOK, StoredOK
  <2>3. receipts[x.block] \in Seq(Receipts)
    BY <2>1, WorldAssumption DEF WriterOK, TasksOK
  <2>4. PICK i \in DOMAIN receipts[x.block] : r = receipts[x.block][i]
    BY DEF ToSet
  <2>5. r \in Receipts
    BY <2>3, <2>4, LenProperties, ElementOfSeq
  <2>6. x.tx = r.tx
    BY <2>2
  <2> QED  BY <2>1, <2>5, <2>6, ApiAssumption
<1>3. ASSUME NEW f \in failed
      PROVE  f.tx \in Txs /\ f.timestamp \in Blocks /\ f.category \in ErrorCategory /\ f \in FailedRows
  BY FailureIs
<1>4. \A f, g \in failed : f.tx = g.tx => f = g
  BY DEF WriterOK, FailedOK
<1> QED  BY <1>1, <1>2, <1>3, <1>4

\* The lesser and the greater of two integers.
LEMMA MinMaxOfTwo ==
  ASSUME NEW a \in Int, NEW b \in Int
  PROVE  /\ Min({a, b}) = IF a <= b THEN a ELSE b
         /\ Max({a, b}) = IF a >= b THEN a ELSE b
<1> DEFINE T == {a, b}
<1>1. \E x \in T : \A y \in T : x <= y
  OBVIOUS
<1>2. \E x \in T : \A y \in T : x >= y
  OBVIOUS
<1>3. Min(T) \in T /\ \A y \in T : Min(T) <= y
  BY <1>1 DEF Min
<1>4. Max(T) \in T /\ \A y \in T : Max(T) >= y
  BY <1>2 DEF Max
<1>5. Min(T) = IF a <= b THEN a ELSE b
  BY <1>3
<1>6. Max(T) = IF a >= b THEN a ELSE b
  BY <1>4
<1> QED  BY <1>5, <1>6

\* What is repeated at all begins like once.
LEMMA RepeatsFirst ==
  ASSUME NEW S, NEW s \in Seq(S), s # <<>>, NEW a \in Repeats(s), a # <<>>
  PROVE  a[1] = s[1]
<1>0. /\ \A k \in Nat : Times(k, s) \in Seq(S) /\ Times(k + 1, s) = Times(k, s) \o s
      /\ Times(0, s) = <<>>
  <2>1. [i \in 1 .. 0 |-> s] = <<>>
    OBVIOUS
  <2> QED  BY <2>1, RepeatsGrow, FlattenAppend DEF Times
<1>1. Len(s) \in Nat /\ Len(s) # 0
  BY EmptySeq, LenProperties
<1> DEFINE P == {k \in Nat : Times(k, s) = <<>> \/ Times(k, s)[1] = s[1]}
<1>2. 0 \in P
  BY <1>0
<1>3. ASSUME NEW k \in Nat, k \in P  PROVE k + 1 \in P
  <2> DEFINE t == Times(k, s)
  <2>1. t \in Seq(S) /\ Times(k + 1, s) = t \o s /\ (t = <<>> \/ t[1] = s[1])
    BY <1>0, <1>3
  <2> HIDE DEF t
  <2>2. Len(t) \in Nat /\ \A i \in 1 .. Len(t) + Len(s) : (t \o s)[i] = IF i <= Len(t) THEN t[i] ELSE s[i - Len(t)]
    BY <2>1, ConcatProperties, LenProperties
  <2>3. 1 \in 1 .. Len(t) + Len(s)
    BY <1>1, <2>2
  <2>4. (t \o s)[1] = s[1]
    <3>1. CASE t = <<>>
      BY <2>1, <3>1, ConcatEmptySeq
    <3>2. CASE t # <<>>
      <4>1. 1 <= Len(t)
        BY <2>1, <2>2, <3>2, EmptySeq
      <4> QED  BY <2>1, <2>2, <2>3, <3>2, <4>1
    <3> QED  BY <3>1, <3>2
  <2> QED  BY <2>1, <2>4
<1>4. \A k \in Nat : k \in P
  <2> HIDE DEF P
  <2> QED  BY <1>2, <1>3, Induct
<1>5. PICK k \in Nat : a = Times(k, s)
  BY DEF Repeats
<1> QED  BY <1>4, <1>5

\* The frames that are asked for, and those that are shown.
LEMMA ShownAre ==
  ASSUME WriterOK, NEW tx
  PROVE  /\ TreeRows(tx) \in Seq(LogRows)
         /\ Asked(tx) \in Seq(FrameRows)
         /\ Len(Asked(tx)) = IF MaxFrames + 1 <= Len(TreeRows(tx)) THEN MaxFrames + 1 ELSE Len(TreeRows(tx))
         /\ Shown(Asked(tx)) \in Seq(FrameRows)
         /\ Len(Shown(Asked(tx))) = IF MaxFrames <= Len(TreeRows(tx)) THEN MaxFrames ELSE Len(TreeRows(tx))
         /\ \A i \in 1 .. Len(Shown(Asked(tx))) : Shown(Asked(tx))[i] = TreeRows(tx)[i].frame
<1> DEFINE rows == TreeRows(tx)
           n == Len(rows)
           m == IF MaxFrames + 1 <= n THEN MaxFrames + 1 ELSE n
           k == IF MaxFrames <= n THEN MaxFrames ELSE n
<1>1. rows \in Seq(LogRows)
  BY TreeIs DEF TreeRows, WriterOK, LogOK
<1>2. n \in Nat /\ \A i \in 1 .. n : rows[i] \in LogRows
  BY <1>1, LenProperties, ElementOfSeq
<1>3. MaxFrames \in Nat \ {0}
  BY ApiAssumption
<1>4. Min({MaxFrames + 1, n}) = m
  <2>1. MaxFrames + 1 \in Int /\ n \in Int
    BY <1>2, <1>3
  <2> QED  BY <2>1, MinMaxOfTwo
<1>5. Asked(tx) = [i \in 1 .. m |-> rows[i].frame]
  BY <1>4 DEF Asked, list_trace_logs_by_tx
<1> HIDE DEF rows
<1>6. m \in Nat /\ m <= n /\ k \in Nat /\ k <= m /\ k = IF MaxFrames <= m THEN MaxFrames ELSE m
  <2> HIDE DEF n
  <2> QED  BY <1>2, <1>3
<1> HIDE DEF n, m, k
<1>7. \A i \in 1 .. m : rows[i].frame \in FrameRows
  <2>1. \A i \in 1 .. m : i \in 1 .. n
    BY <1>2, <1>6
  <2> QED  BY <1>2, <2>1 DEF LogRows
<1> DEFINE asked == [i \in 1 .. m |-> rows[i].frame]
<1>8. asked \in Seq(FrameRows) /\ Len(asked) = m /\ \A i \in 1 .. m : asked[i] = rows[i].frame
  BY <1>6, <1>7
<1> HIDE DEF asked
<1>9. Asked(tx) = asked
  BY <1>5 DEF asked
<1>10. Shown(asked) = SubSeq(asked, 1, k)
  <2>1. Min({MaxFrames, m}) = k
    <3>1. MaxFrames \in Int /\ m \in Int
      BY <1>3, <1>6
    <3> QED  BY <1>6, <3>1, MinMaxOfTwo
  <2> QED  BY <1>8, <2>1 DEF Shown
<1>11. \A i \in 1 .. k : asked[i] \in FrameRows /\ asked[i] = rows[i].frame
  <2>1. \A i \in 1 .. k : i \in 1 .. m
    BY <1>6
  <2> QED  BY <1>7, <1>8, <2>1
<1>12. /\ SubSeq(asked, 1, k) \in Seq(FrameRows)
       /\ Len(SubSeq(asked, 1, k)) = k
       /\ \A i \in 1 .. k : SubSeq(asked, 1, k)[i] = asked[i]
  <2>1. 1 \in Int /\ k \in Int
    BY <1>6
  <2>2. /\ SubSeq(asked, 1, k) \in Seq(FrameRows)
        /\ Len(SubSeq(asked, 1, k)) = IF 1 <= k THEN k - 1 + 1 ELSE 0
        /\ \A i \in 1 .. k - 1 + 1 : SubSeq(asked, 1, k)[i] = asked[1 + i - 1]
    BY <1>11, <2>1, SubSeqProperties
  <2>3. k - 1 + 1 = k /\ \A i \in 1 .. k : 1 + i - 1 = i
    BY <1>6
  <2>4. Len(SubSeq(asked, 1, k)) = k
    BY <1>6, <2>2, <2>3
  <2> QED  BY <2>2, <2>3, <2>4
<1> QED  BY <1>1, <1>8, <1>9, <1>10, <1>11, <1>12 DEF rows, n, m, k

\* The frame root_cause names is one of the table, if there is one.
LEMMA CauseTyped ==
  ASSUME WriterOK, NEW tx
  PROVE  get_first_error_frame(tx) \in FrameRows \cup {Absent}
<1>1. TreeRows(tx) \in Seq(LogRows)
  BY ShownAre
<1> DEFINE bad == {l \in ToSet(trace_log) : l.frame.error}
           rows == Those(TreeRows(tx), bad)
<1>2. rows \in Seq(LogRows)
  BY <1>1, ThoseAppend
<1>3. get_first_error_frame(tx) = IF rows = <<>> THEN Absent ELSE Head(rows).frame
  BY DEF get_first_error_frame
<1> HIDE DEF rows
<1>4. rows # <<>> => Head(rows) \in LogRows
  BY <1>2, HeadTailProperties
<1> QED  BY <1>3, <1>4 DEF LogRows

\* The transaction that frames are of.
LEMMA TreeOf ==
  ASSUME WriterOK, NEW tx, TreeRows(tx) # <<>>
  PROVE  \E b \in Blocks : \E r \in OnChain(b) : r.tx = tx /\ TreeRows(tx) \in Repeats(LogsOf(r))
<1>1. trace_log \in Seq(LogRows)
  BY DEF WriterOK, LogOK
<1>2. PICK l \in ToSet(trace_log) : l.tx = tx
  BY <1>1, TreeIs DEF TreeRows
<1>3. \E b \in Blocks : \E r \in OnChain(b) : l.tx = r.tx
  BY DEF WriterOK, LogOK
<1> QED  BY <1>2, <1>3 DEF WriterOK, LogOK

\* The first frame of a failure is the root of its trace, whose error is set:
\* it is the root cause.
LEMMA CauseIsRoot ==
  ASSUME WriterOK, NEW tx, TreeRows(tx) # <<>>
  PROVE  /\ Len(TreeRows(tx)) \in Nat \ {0}
         /\ TreeRows(tx)[1].frame.error
         /\ get_first_error_frame(tx) = TreeRows(tx)[1].frame
<1> DEFINE rows == TreeRows(tx)
<1>1. rows \in Seq(LogRows)
  BY ShownAre
<1>2. rows # <<>>
  OBVIOUS
<1>3. PICK b \in Blocks : \E r \in OnChain(b) : r.tx = tx /\ rows \in Repeats(LogsOf(r))
  BY TreeOf
<1>4. PICK r \in OnChain(b) : r.tx = tx /\ rows \in Repeats(LogsOf(r))
  BY <1>3
<1>5. rows \in Repeats(LogsOf(r))
  BY <1>4
<1>6. r \in Parsed
  BY DEF OnChain
<1>7. LogsOf(r) \in Seq(LogRows) /\ LogsOf(r) # <<>> /\ Len(LogsOf(r)) = Len(FramesOf[r])
      /\ \A i \in 1 .. Len(FramesOf[r]) : LogsOf(r)[i] = [tx |-> r.tx, frame |-> FramesOf[r][i]]
  BY <1>6, LogsShape
<1>8. Len(FramesOf[r]) \in Nat \ {0} /\ FramesOf[r][1].error
  BY <1>6, FramesShape
<1>9. LogsOf(r)[1].frame.error
  <2>1. 1 \in 1 .. Len(FramesOf[r])
    BY <1>8
  <2>2. LogsOf(r)[1] = [tx |-> r.tx, frame |-> FramesOf[r][1]]
    BY <1>7, <2>1
  <2> QED  BY <1>8, <2>2
<1> HIDE DEF rows
<1>10. rows[1] = LogsOf(r)[1]
  BY <1>2, <1>5, <1>7, RepeatsFirst
<1>11. Len(rows) \in Nat \ {0}
  BY <1>1, <1>2, EmptySeq
<1> DEFINE bad == {l \in ToSet(trace_log) : l.frame.error}
<1>12. rows[1] \in bad
  <2>1. rows[1] \in ToSet(rows)
    <3>1. 1 \in DOMAIN rows
      BY <1>1, <1>11, LenProperties
    <3> QED  BY <3>1 DEF ToSet
  <2>2. ToSet(rows) \subseteq ToSet(trace_log)
    <3>1. ToSet(Those(trace_log, {l \in ToSet(trace_log) : l.tx = tx}))
            = ToSet(trace_log) \cap {l \in ToSet(trace_log) : l.tx = tx}
      BY ThoseSet DEF WriterOK, LogOK
    <3> QED  BY <3>1 DEF rows, TreeRows
  <2> QED  BY <1>9, <1>10, <2>1, <2>2
<1>13. get_first_error_frame(tx) = IF Those(rows, bad) = <<>> THEN Absent ELSE Head(Those(rows, bad)).frame
  BY DEF get_first_error_frame, rows
<1> HIDE DEF bad
<1>14. Those(rows, bad) # <<>> /\ Head(Those(rows, bad)) = rows[1]
  BY <1>1, <1>2, <1>12, ThoseFirst
<1> QED  BY <1>9, <1>10, <1>11, <1>13, <1>14 DEF rows

\* Without frames there is no root cause.
LEMMA NoCause ==
  ASSUME NEW tx, TreeRows(tx) = <<>>
  PROVE  get_first_error_frame(tx) = Absent
<1>1. \A T : Those(<<>>, T) = <<>>
  BY ThoseAppend
<1> QED  BY <1>1 DEF get_first_error_frame

-----------------------------------------------------------------------------
(* Requests *)

ReqOK == ReqTyped /\ DetailOK /\ ListOK

\* kind and at tell the shape of a request.
LEMMA ReqShape ==
  ASSUME ReqTyped
  PROVE  /\ req.kind \in {"none", "detail", "list"}
         /\ req.kind = "none" => req = NoAnswer
         /\ req.kind = "detail" /\ req.at = "tree" => req \in TreeReqs
         /\ req.kind = "detail" /\ req.at = "cause" => req \in CauseReqs
         /\ req.kind = "detail" /\ req.at = "done" => req \in DetailAnswers
         /\ req.kind = "list" /\ req.at # "done" => req \in ListReqs
         /\ req.kind = "list" /\ req.at = "done" => req \in ListAnswers
         /\ req.kind = "detail" => req.at \in {"tree", "cause", "done"}
<1>1. CASE req = NoAnswer
  BY <1>1 DEF NoAnswer
<1>2. CASE req \in TreeReqs
  BY <1>2 DEF TreeReqs
<1>3. CASE req \in CauseReqs
  BY <1>3 DEF CauseReqs
<1>4. CASE req \in DetailAnswers
  BY <1>4 DEF DetailAnswers
<1>5. CASE req \in ListReqs
  BY <1>5 DEF ListReqs
<1>6. CASE req \in ListAnswers
  BY <1>6 DEF ListAnswers
<1> QED  BY <1>1, <1>2, <1>3, <1>4, <1>5, <1>6 DEF ReqTyped

\* No answer is always one.
LEMMA NoAnswerOK ==
  ASSUME req' = NoAnswer
  PROVE  ReqOK'
<1>1. req'.kind = "none"
  BY DEF NoAnswer
<1> QED  BY <1>1 DEF ReqOK, ReqTyped, DetailOK, ListOK

\* What the queries answer while nothing is written.
LEMMA SameAnswers ==
  ASSUME UNCHANGED <<trace_log, failed>>
  PROVE  /\ \A tx : /\ Asked(tx)' = Asked(tx) /\ get_first_error_frame(tx)' = get_first_error_frame(tx)
                    /\ TreeRows(tx)' = TreeRows(tx)
                    /\ \A tree : FirstKept(tx, tree)' = FirstKept(tx, tree)
         /\ \A q : Matches(q)' = Matches(q)
BY DEF Asked, list_trace_logs_by_tx, get_first_error_frame, TreeRows, Matches, FirstKept

\* Where rows are only added, the first frame of a transaction stays.
LEMMA FirstStays ==
  ASSUME WriterOK, WriterOK', Grown, NEW tx, NEW tree, FirstKept(tx, tree)
  PROVE  FirstKept(tx, tree)'
<1> DEFINE T == OfTx(tx)
           n == Len(trace_log)
           rest == SubSeq(trace_log', n + 1, Len(trace_log'))
<1>1. trace_log \in Seq(LogRows) /\ trace_log' \in Seq(LogRows)
  BY DEF WriterOK, LogOK
<1>2. IsPrefix(trace_log, trace_log')
  BY DEF Grown
<1>3. n \in Nat /\ Len(trace_log') \in Nat /\ n <= Len(trace_log') /\ \A i \in 1 .. n : trace_log'[i] = trace_log[i]
  <2>1. n \in Nat /\ DOMAIN trace_log = 1 .. n /\ Len(trace_log') \in Nat /\ DOMAIN trace_log' = 1 .. Len(trace_log')
    BY <1>1, LenProperties
  <2>2. n <= Len(trace_log') /\ SubSeq(trace_log, 1, n) = SubSeq(trace_log', 1, n)
    BY <1>2 DEF IsPrefix
  <2>3. \A i \in 1 .. n : trace_log[i] \in LogRows /\ trace_log'[i] \in LogRows
    BY <1>1, <2>1, <2>2, ElementOfSeq
  <2>4. \A i \in 1 .. n : SubSeq(trace_log, 1, n)[i] = trace_log[i] /\ SubSeq(trace_log', 1, n)[i] = trace_log'[i]
    <3>1. ASSUME NEW u, \A i \in 1 .. n : u[i] \in LogRows, NEW i \in 1 .. n  PROVE SubSeq(u, 1, n)[i] = u[i]
      <4>1. \A k \in 1 .. n - 1 + 1 : SubSeq(u, 1, n)[k] = u[1 + k - 1]
        BY <2>1, <3>1, SubSeqProperties
      <4>2. i \in 1 .. n - 1 + 1 /\ 1 + i - 1 = i
        BY <2>1
      <4> QED  BY <4>1, <4>2
    <3> QED  BY <2>3, <3>1
  <2> QED  BY <2>1, <2>2, <2>4
<1>4. rest \in Seq(LogRows) /\ trace_log' = trace_log \o rest
  <2>1. \A i \in 1 .. Len(trace_log') : trace_log'[i] \in LogRows
    BY <1>1, ElementOfSeq
  <2>2. \A i \in n + 1 .. Len(trace_log') : trace_log'[i] \in LogRows
    BY <1>3, <2>1
  <2>3. /\ rest \in Seq(LogRows)
        /\ Len(rest) = IF n + 1 <= Len(trace_log') THEN Len(trace_log') - (n + 1) + 1 ELSE 0
        /\ \A i \in 1 .. Len(trace_log') - (n + 1) + 1 : rest[i] = trace_log'[n + 1 + i - 1]
    <3>1. n + 1 \in Int /\ Len(trace_log') \in Int
      BY <1>3
    <3> QED  BY <2>2, <3>1, SubSeqProperties
  <2> HIDE DEF rest, n
  <2>4. Len(rest) = Len(trace_log') - n /\ \A i \in 1 .. Len(rest) : rest[i] = trace_log'[n + i]
    <3>1. Len(rest) = Len(trace_log') - n
      BY <1>3, <2>3
    <3>2. ASSUME NEW i \in 1 .. Len(rest)  PROVE rest[i] = trace_log'[n + i]
      <4>1. i \in 1 .. Len(trace_log') - (n + 1) + 1 /\ n + 1 + i - 1 = n + i
        BY <1>3, <3>1
      <4> QED  BY <2>3, <4>1
    <3> QED  BY <3>1, <3>2
  <2>5. /\ trace_log \o rest \in Seq(LogRows) /\ Len(trace_log \o rest) = n + Len(rest)
        /\ \A i \in 1 .. n + Len(rest) : (trace_log \o rest)[i] = IF i <= n THEN trace_log[i] ELSE rest[i - n]
    BY <1>1, <2>3, ConcatProperties DEF n
  <2>6. Len(trace_log') = n + Len(rest)
    BY <1>3, <2>4
  <2>7. ASSUME NEW i \in 1 .. n + Len(rest)  PROVE (trace_log \o rest)[i] = trace_log'[i]
    <3>1. CASE i <= n
      BY <1>3, <2>5, <3>1
    <3>2. CASE ~(i <= n)
      <4>1. i - n \in 1 .. Len(rest) /\ n + (i - n) = i
        BY <1>3, <2>4, <3>2
      <4> QED  BY <2>4, <2>5, <3>2, <4>1
    <3> QED  BY <3>1, <3>2
  <2>8. trace_log' = trace_log \o rest
    BY <1>1, <2>5, <2>6, <2>7, SeqEqual
  <2> QED  BY <2>3, <2>8
<1> DEFINE old == Those(trace_log, T)
           new == Those(rest, T)
<1>5. /\ TreeRows(tx) = old
      /\ TreeRows(tx)' = Those(trace_log', T)
  <2>1. TreeRows(tx) = Those(trace_log, T)
    BY <1>1, TreeIs DEF TreeRows
  <2>2. Those(trace_log', {l \in ToSet(trace_log') : l.tx = tx}) = Those(trace_log', T)
    BY <1>1, TreeIs
  <2> QED  BY <2>1, <2>2 DEF TreeRows
<1> HIDE DEF T, rest
<1>6. Those(trace_log', T) = old \o new /\ old \in Seq(LogRows) /\ new \in Seq(LogRows)
  <2>1. Those(trace_log \o rest, T) = old \o new
    BY <1>1, <1>4, ThoseConcat
  <2> QED  BY <1>1, <1>4, <2>1, ThoseAppend
<1> HIDE DEF old, new
<1>7. CASE tree # <<>>
  <2>1. old # <<>> /\ tree[1] = old[1].frame
    BY <1>5, <1>7 DEF FirstKept
  <2>2. Len(old) \in Nat \ {0} /\ Len(new) \in Nat
    BY <1>6, <2>1, EmptySeq, LenProperties
  <2>3. Len(old \o new) = Len(old) + Len(new) /\ (old \o new)[1] = old[1]
    <3>1. \A i \in 1 .. Len(old) + Len(new) : (old \o new)[i] = IF i <= Len(old) THEN old[i] ELSE new[i - Len(old)]
      BY <1>6, ConcatProperties
    <3>2. 1 \in 1 .. Len(old) + Len(new) /\ 1 <= Len(old)
      BY <2>2
    <3> QED  BY <1>6, <3>1, <3>2, ConcatProperties
  <2>4. old \o new # <<>>
    BY <2>2, <2>3, EmptySeq
  <2>5. TreeRows(tx)' # <<>> /\ tree[1] = TreeRows(tx)'[1].frame
    BY <1>5, <1>6, <2>1, <2>3, <2>4
  <2> QED  BY <2>5 DEF FirstKept
<1> QED  BY <1>7 DEF FirstKept

\* A step of the writer leaves a request alone, or is marked in it.
LEMMA DisturbKeeps ==
  ASSUME WriterOK, WriterOK', ReqOK, Disturb
  PROVE  ReqOK'
<1> USE DEF ReqOK
<1>1. CASE req' = NoAnswer
  BY <1>1, NoAnswerOK
<1>2. CASE req.kind = "none"
  <2>1. req' = req /\ req = NoAnswer
    BY <1>2, ReqShape DEF Disturb
  <2> QED  BY <1>1, <2>1
<1>3. CASE Calm /\ req' = req
  <2>1. UNCHANGED <<trace_log, failed>>
    BY <1>3 DEF Calm
  <2>2. /\ \A tx : /\ Asked(tx)' = Asked(tx) /\ get_first_error_frame(tx)' = get_first_error_frame(tx)
                   /\ \A tree : FirstKept(tx, tree)' = FirstKept(tx, tree)
        /\ \A q : Matches(q)' = Matches(q)
    BY <2>1, SameAnswers
  <2>3. ReqTyped'
    BY <1>3 DEF ReqTyped
  <2>4. DetailOK'
    BY <1>3, <2>2 DEF DetailOK
  <2>5. ListOK'
    BY <1>3, <2>2 DEF ListOK
  <2> QED  BY <2>3, <2>4, <2>5
<1>4. CASE req.kind = "detail" /\ req.at # "done" /\ Grown /\ req' = [req EXCEPT !.grown = TRUE]
  <2>1. req \in TreeReqs \cup CauseReqs
    BY <1>4, ReqShape
  <2>2. CASE req \in TreeReqs
    <3>1. req' \in TreeReqs /\ req'.kind = "detail" /\ req'.at = "tree"
      BY <1>4, <2>2 DEF TreeReqs
    <3> QED  BY <3>1 DEF ReqTyped, DetailOK, ListOK
  <2>3. CASE req \in CauseReqs
    <3>1. req' \in CauseReqs /\ req'.kind = "detail" /\ req'.at = "cause" /\ req'.grown /\ req'.tree = req.tree
          /\ req'.tx = req.tx /\ req.kind = "detail" /\ req.at = "cause"
      BY <1>4, <2>3 DEF CauseReqs
    <3>2. FirstKept(req.tx, req.tree)'
      <4>1. FirstKept(req.tx, req.tree)
        BY <3>1 DEF DetailOK
      <4>2. \A tx, tree : FirstKept(tx, tree) => FirstKept(tx, tree)'
        BY <1>4, FirstStays
      <4>3. PICK tx, tree : tx = req.tx /\ tree = req.tree
        OBVIOUS
      <4>4. FirstKept(tx, tree)
        BY <4>1, <4>3
      <4>5. req'.tx = tx /\ req'.tree = tree
        BY <3>1, <4>3
      <4>6. FirstKept(req.tx, req.tree)' = FirstKept(tx, tree)'
        BY <4>5 DEF FirstKept, TreeRows
      <4> QED  BY <4>2, <4>4, <4>6
    <3>3. Len(req.tree) <= MaxFrames
      BY <3>1 DEF DetailOK
    <3>4. DetailOK'
      BY <3>1, <3>2, <3>3 DEF DetailOK
    <3> QED  BY <3>1, <3>4 DEF ReqTyped, ListOK
  <2> QED  BY <2>1, <2>2, <2>3
<1> QED  BY <1>1, <1>2, <1>3, <1>4 DEF Disturb

\* get_failed_transaction: a request goes on only for a failure that is stored.
LEMMA GetFailedKeeps ==
  ASSUME NEW h, GetFailed(h)
  PROVE  ReqOK'
<1>1. CASE req' = NoAnswer
  BY <1>1, NoAnswerOK
<1>2. CASE h \in Txs /\ ~(\A f \in failed : f.tx # h)
           /\ req' = [kind |-> "detail", at |-> "tree", tx |-> h, grown |-> FALSE]
  <2>1. req' \in TreeReqs
    BY <1>2 DEF TreeReqs
  <2>3. DetailOK'
    BY <1>2 DEF DetailOK
  <2>4. ListOK'
    BY <1>2 DEF ListOK
  <2> QED  BY <2>1, <2>3, <2>4 DEF ReqOK, ReqTyped
<1> QED  BY <1>1, <1>2 DEF GetFailed

\* list_trace_logs_by_tx
LEMMA GetTreeKeeps ==
  ASSUME WriterOK, ReqOK, GetTree
  PROVE  ReqOK'
<1>1. req \in TreeReqs /\ req.kind = "detail" /\ req.tx \in Txs /\ req.grown \in BOOLEAN
  BY ReqShape DEF ReqOK, GetTree, TreeReqs
<1>2. UNCHANGED <<trace_log, failed>>
  BY DEF GetTree, writerVars, tables
<1> DEFINE rows == Asked(req.tx)
<1>3. req' = [kind |-> "detail", at |-> "cause", tx |-> req.tx, grown |-> req.grown,
              tree |-> Shown(rows), truncated |-> Len(rows) > MaxFrames]
  BY DEF GetTree, Asked
<1>4. /\ rows \in Seq(FrameRows) /\ Shown(rows) \in Seq(FrameRows)
      /\ Len(Shown(rows)) = IF MaxFrames <= Len(TreeRows(req.tx)) THEN MaxFrames ELSE Len(TreeRows(req.tx))
      /\ TreeRows(req.tx) \in Seq(LogRows)
  BY ShownAre
<1>5. Len(Shown(rows)) <= MaxFrames
  <2>1. Len(TreeRows(req.tx)) \in Nat /\ MaxFrames \in Nat
    BY <1>4, ApiAssumption, LenProperties
  <2> QED  BY <1>4, <2>1
<1>6. \A tx : Asked(tx)' = Asked(tx)
  BY <1>2, SameAnswers
<1> HIDE DEF rows
<1>7. (Len(rows) > MaxFrames) \in BOOLEAN
  OBVIOUS
<1> DEFINE cut == Len(rows) > MaxFrames
<1> HIDE DEF cut
<1>8. req' = [kind |-> "detail", at |-> "cause", tx |-> req.tx, grown |-> req.grown, tree |-> Shown(rows), truncated |-> cut]
  BY <1>3 DEF cut
<1>9. req' \in CauseReqs
  BY <1>1, <1>4, <1>7, <1>8 DEF CauseReqs, cut
<1>10. /\ req'.kind = "detail" /\ req'.at = "cause" /\ req'.tx = req.tx /\ req'.grown = req.grown
       /\ req'.tree = Shown(rows) /\ req'.truncated = cut
  BY <1>8
<1>11. FirstKept(req.tx, Shown(rows))
  <2>1. ASSUME Shown(rows) # <<>>
        PROVE  TreeRows(req.tx) # <<>> /\ Shown(rows)[1] = TreeRows(req.tx)[1].frame
    <3>1. Len(Shown(rows)) \in Nat \ {0}
      BY <1>4, <2>1, EmptySeq, LenProperties
    <3>2. Len(TreeRows(req.tx)) # 0 /\ 1 \in 1 .. Len(Shown(rows))
      BY <1>4, <3>1
    <3>3. \A i \in 1 .. Len(Shown(rows)) : Shown(rows)[i] = TreeRows(req.tx)[i].frame
      BY ShownAre DEF rows
    <3> QED  BY <3>2, <3>3, EmptySeq
  <2> QED  BY <2>1 DEF FirstKept
<1>12. Asked(req.tx)' = rows /\ FirstKept(req.tx, req.tree)'
  <2>1. \A tx, tree : FirstKept(tx, tree)' = FirstKept(tx, tree)
    BY <1>2, SameAnswers
  <2>0. PICK tx, tree : tx = req.tx /\ tree = Shown(rows)
    OBVIOUS
  <2>2. req'.tx = tx /\ req'.tree = tree /\ FirstKept(tx, tree)
    BY <1>10, <1>11, <2>0
  <2>3. FirstKept(req.tx, req.tree)' = FirstKept(tx, tree)'
    BY <2>2 DEF FirstKept, TreeRows
  <2> QED  BY <1>6, <1>10, <2>1, <2>2, <2>3 DEF rows
<1>13. DetailOK'
  BY <1>5, <1>10, <1>12 DEF DetailOK, cut
<1>14. ListOK'
  BY <1>10 DEF ListOK
<1> QED  BY <1>9, <1>13, <1>14 DEF ReqOK, ReqTyped

\* get_first_error_frame, and the answer
LEMMA GetCauseKeeps ==
  ASSUME WriterOK, ReqOK, GetCause
  PROVE  ReqOK'
<1>1. req \in CauseReqs
  BY ReqShape DEF ReqOK, GetCause
<1>2. req.kind = "detail" /\ req.at = "cause" /\ req.tx \in Txs /\ req.tree \in Seq(FrameRows) /\ req.truncated \in BOOLEAN
      /\ req.grown \in BOOLEAN
  BY <1>1 DEF CauseReqs
<1>3. UNCHANGED <<trace_log, failed>>
  BY DEF GetCause, writerVars, tables
<1> DEFINE cause == get_first_error_frame(req.tx)
<1>4. cause \in FrameRows \cup {Absent}
  BY CauseTyped
<1>5. req' = [kind |-> "detail", at |-> "done", tx |-> req.tx, grown |-> req.grown, tree |-> req.tree,
              truncated |-> req.truncated, cause |-> cause]
  BY DEF GetCause
<1> HIDE DEF cause
<1>6. req' \in DetailAnswers
  BY <1>2, <1>4, <1>5 DEF DetailAnswers
<1>7. /\ req'.kind = "detail" /\ req'.at = "done" /\ req'.tx = req.tx /\ req'.tree = req.tree
      /\ req'.truncated = req.truncated /\ req'.cause = cause /\ req'.grown = req.grown
  BY <1>5
<1>8. /\ Len(req.tree) <= MaxFrames
      /\ ~req.grown => req.tree = Shown(Asked(req.tx)) /\ req.truncated = (Len(Asked(req.tx)) > MaxFrames)
      /\ FirstKept(req.tx, req.tree)
  BY <1>2 DEF ReqOK, DetailOK
<1>9. \A tx : /\ Asked(tx)' = Asked(tx) /\ get_first_error_frame(tx)' = get_first_error_frame(tx)
              /\ \A tree : FirstKept(tx, tree)' = FirstKept(tx, tree)
  BY <1>3, SameAnswers
<1>10. DetailOK'
  BY <1>7, <1>8, <1>9 DEF DetailOK, cause
<1>11. ListOK'
  BY <1>7 DEF ListOK
<1> QED  BY <1>6, <1>10, <1>11 DEF ReqOK, ReqTyped

\* A page has room for a row.
LEMMA LimitIs ==
  ASSUME NEW q \in Queries
  PROVE  LimitOf(q) \in Nat \ {0}
<1>1. q.limit \in Int \cup {Absent} /\ DefaultLimit \in Nat \ {0} /\ MaxLimit \in Nat \ {0}
  BY ApiAssumption
<1>2. CASE q.limit = Absent
  BY <1>1, <1>2 DEF LimitOf
<1>3. CASE q.limit # Absent
  <2> DEFINE m == Max({q.limit, 1})
  <2>1. q.limit \in Int /\ 1 \in Int /\ MaxLimit \in Int
    BY <1>1, <1>3
  <2>2. m = IF q.limit >= 1 THEN q.limit ELSE 1
    BY <2>1, MinMaxOfTwo
  <2>3. LimitOf(q) = Min({m, MaxLimit})
    BY <1>3 DEF LimitOf
  <2> HIDE DEF m
  <2>4. m \in Int /\ m >= 1
    BY <2>1, <2>2
  <2>5. Min({m, MaxLimit}) = IF m <= MaxLimit THEN m ELSE MaxLimit
    BY <2>1, <2>4, MinMaxOfTwo
  <2> QED  BY <1>1, <2>3, <2>4, <2>5
<1> QED  BY <1>2, <1>3

\* The rows a query matches.
LEMMA MatchesAre ==
  ASSUME WriterOK, NEW q
  PROVE  /\ IsFiniteSet(Matches(q)) /\ Cardinality(Matches(q)) \in Nat
         /\ Matches(q) \subseteq FailedRows
         /\ \A f \in Matches(q) : f.timestamp \in Int
<1>1. Matches(q) \in SUBSET failed
  BY DEF Matches
<1>2. IsFiniteSet(failed)
  BY DEF WriterOK, FailedOK
<1>3. IsFiniteSet(Matches(q))
  BY <1>1, <1>2, FS_Subset
<1>4. Cardinality(Matches(q)) \in Nat
  BY <1>3, FS_CardinalityType
<1>5. \A f \in failed : f \in FailedRows /\ f.timestamp \in Blocks
  BY TablesTyped
<1> QED  BY <1>1, <1>3, <1>4, <1>5, WorldAssumption

\* Rows in an order of the query: each once, and, if no two are of one block,
\* the i-th after i - 1 others.
LEMMA OrderIs ==
  ASSUME NEW S, IsFiniteSet(S), \A f \in S : f.timestamp \in Int, NEW s \in Orders(S)
  PROVE  /\ s \in Seq(S) /\ Len(s) = Cardinality(S)
         /\ Apart(S) => \A i \in 1 .. Len(s) : Cardinality(Before(S, s[i])) = i - 1
<1> DEFINE n == Cardinality(S)
<1>1. n \in Nat
  BY FS_CardinalityType
<1>2. /\ s \in [1 .. n -> S]
      /\ \A i, j \in 1 .. n : i # j => s[i] # s[j]
      /\ \A i, j \in DOMAIN s : i < j => s[i].timestamp >= s[j].timestamp
  BY DEF Orders, SetToSeqs
<1>3. s \in Seq(S) /\ Len(s) = n
  BY <1>1, <1>2
<1>4. \A g \in S : \E j \in 1 .. n : s[j] = g
  <2>1. s \in Injection(1 .. n, S)
    BY <1>2 DEF Injection, IsInjective
  <2>2. Cardinality(1 .. n) = n
    <3>1. 1 \in Int /\ n \in Int
      BY <1>1
    <3>2. Cardinality(1 .. n) = IF 1 > n THEN 0 ELSE n - 1 + 1
      BY <3>1, FS_Interval
    <3> QED  BY <1>1, <3>2
  <2>3. s \in Surjection(1 .. n, S)
    BY <2>1, <2>2, FS_Injection
  <2> QED  BY <2>3 DEF Surjection
<1>5. ASSUME Apart(S), NEW i \in 1 .. n  PROVE Cardinality(Before(S, s[i])) = i - 1
  <2> DEFINE h == [j \in 1 .. i - 1 |-> s[j]]
  <2>0. i - 1 \in Nat /\ (\A j \in 1 .. i - 1 : j \in 1 .. n /\ j < i) /\ DOMAIN s = 1 .. n
    BY <1>1, <1>2
  <2>1. ASSUME NEW j \in 1 .. i - 1  PROVE s[j] \in Before(S, s[i])
    <3>1. j \in 1 .. n /\ j < i /\ j # i
      BY <2>0
    <3>2. s[j] \in S /\ s[i] \in S /\ s[j] # s[i] /\ s[j].timestamp >= s[i].timestamp
      BY <1>2, <3>1
    <3>3. s[j].timestamp # s[i].timestamp
      BY <1>5, <3>2 DEF Apart
    <3>4. s[j].timestamp \in Int /\ s[i].timestamp \in Int
      BY <3>2
    <3>5. s[j].timestamp > s[i].timestamp
      BY <3>2, <3>3, <3>4
    <3> QED  BY <3>2, <3>5 DEF Before
  <2>2. ASSUME NEW g \in Before(S, s[i])  PROVE \E j \in 1 .. i - 1 : s[j] = g
    <3>1. g \in S /\ g.timestamp > s[i].timestamp
      BY DEF Before
    <3>2. PICK j \in 1 .. n : s[j] = g
      BY <1>4, <3>1
    <3>3. s[i] \in S /\ s[i].timestamp \in Int /\ g.timestamp \in Int
      BY <1>2, <3>1
    <3>4. ~(i < j)
      <4>1. i < j => s[i].timestamp >= g.timestamp
        BY <1>2, <3>2
      <4> QED  BY <3>1, <3>3, <4>1
    <3>5. i # j
      BY <3>1, <3>2, <3>3
    <3>6. j \in 1 .. i - 1
      BY <1>1, <3>4, <3>5
    <3> QED  BY <3>2, <3>6
  <2>3. h \in Bijection(1 .. i - 1, Before(S, s[i]))
    <3>1. h \in [1 .. i - 1 -> Before(S, s[i])]
      BY <2>1
    <3>2. \A j, k \in 1 .. i - 1 : h[j] = h[k] => j = k
      BY <1>2, <2>0
    <3>3. \A g \in Before(S, s[i]) : \E j \in 1 .. i - 1 : h[j] = g
      BY <2>2
    <3> HIDE DEF h
    <3> QED  BY <3>1, <3>2, <3>3 DEF Bijection, Injection, IsInjective, Surjection
  <2>4. ExistsBijection(1 .. i - 1, Before(S, s[i]))
    BY <2>3 DEF ExistsBijection
  <2> QED  BY <2>0, <2>4, FS_CountingElements
<1> QED  BY <1>3, <1>5

\* The first page is still to be asked for.
LEMMA AskListKeeps ==
  ASSUME WriterOK, NEW q \in Queries, AskList(q)
  PROVE  ReqOK'
<1>1. CASE req' = NoAnswer
  BY <1>1, NoAnswerOK
<1>2. CASE req' = [kind |-> "list", at |-> "rows", q |-> q, offset |-> 0, seen |-> <<>>, total |-> 0]
  <2>1. req' \in ListReqs
    <3>1. <<>> \in Seq(FailedRows)
      BY EmptySeq
    <3> QED  BY <1>2, <3>1 DEF ListReqs
  <2>2. Matches(q)' = Matches(q) /\ Cardinality(Matches(q)) \in Nat
    BY MatchesAre, SameAnswers DEF AskList, writerVars, tables
  <2>3. DetailOK'
    BY <1>2 DEF DetailOK
  <2>4. /\ req'.kind = "list" /\ req'.at = "rows" /\ req'.q = q /\ req'.offset = 0 /\ req'.seen = <<>>
    BY <1>2
  <2>5. SeenOK("rows", <<>>, 0, LimitOf(q), Cardinality(Matches(q)))
    BY <2>2 DEF SeenOK
  <2>6. Ranked(<<>>, Matches(q))
    BY DEF Ranked
  <2>7. ListOK'
    BY <2>2, <2>4, <2>5, <2>6 DEF ListOK
  <2> QED  BY <2>1, <2>3, <2>7 DEF ReqOK, ReqTyped
<1> QED  BY <1>1, <1>2 DEF AskList

Continued(seen, s, offset, e) == seen \o SubSeq(s, offset + 1, e)
Continues(new, seen, s, offset, e) ==
  (offset <= e /\ Len(seen) = offset) =>
    Len(new) = e /\ \A i \in 1 .. e : new[i] = IF i <= offset THEN seen[i] ELSE s[i]

\* A page continues where the last one ended.
LEMMA PageIs ==
  ASSUME NEW F, NEW s \in Seq(F), NEW seen \in Seq(F), NEW offset \in Nat, NEW e \in Nat, e <= Len(s)
  PROVE  /\ Continued(seen, s, offset, e) \in Seq(F)
         /\ Continues(Continued(seen, s, offset, e), seen, s, offset, e)
<1> DEFINE page == SubSeq(s, offset + 1, e)
<1>1. Len(s) \in Nat /\ e \in Nat /\ e <= Len(s) /\ Len(seen) \in Nat
  BY LenProperties
<1>2. \A i \in offset + 1 .. e : s[i] \in F
  <2>1. \A i \in offset + 1 .. e : i \in 1 .. Len(s)
    BY <1>1
  <2> QED  BY <2>1, ElementOfSeq
<1>3. /\ page \in Seq(F)
      /\ Len(page) = IF offset + 1 <= e THEN e - (offset + 1) + 1 ELSE 0
      /\ \A i \in 1 .. e - (offset + 1) + 1 : page[i] = s[offset + 1 + i - 1]
  <2>1. offset + 1 \in Int /\ e \in Int
    BY <1>1
  <2> QED  BY <1>2, <2>1, SubSeqProperties
<1> HIDE DEF page
<1>4. /\ seen \o page \in Seq(F)
      /\ Len(seen \o page) = Len(seen) + Len(page)
      /\ \A i \in 1 .. Len(seen) + Len(page) : (seen \o page)[i] = IF i <= Len(seen) THEN seen[i] ELSE page[i - Len(seen)]
  BY <1>3, ConcatProperties
<1>5. ASSUME offset <= e, Len(seen) = offset
      PROVE  /\ Len(seen \o page) = e
             /\ \A i \in 1 .. e : (seen \o page)[i] = IF i <= offset THEN seen[i] ELSE s[i]
  <2>1. offset <= e
    BY <1>1, <1>5
  <2>2. Len(page) = e - offset
    BY <1>1, <1>3, <2>1
  <2>3. Len(seen) + Len(page) = e
    BY <1>1, <1>5, <2>2
  <2>4. ASSUME NEW i \in 1 .. e  PROVE (seen \o page)[i] = IF i <= offset THEN seen[i] ELSE s[i]
    <3>1. (seen \o page)[i] = IF i <= offset THEN seen[i] ELSE page[i - offset]
      BY <1>4, <1>5, <2>3
    <3>2. CASE i <= offset
      BY <3>1, <3>2
    <3>3. CASE ~(i <= offset)
      <4>1. i - offset \in 1 .. e - (offset + 1) + 1 /\ offset + 1 + (i - offset) - 1 = i
        BY <1>1, <3>3
      <4>2. page[i - offset] = s[offset + 1 + (i - offset) - 1]
        BY <1>3, <4>1
      <4> QED  BY <3>1, <3>3, <4>1, <4>2
    <3> QED  BY <3>2, <3>3
  <2> QED  BY <1>4, <2>3, <2>4
<1> QED  BY <1>4, <1>5 DEF Continued, Continues, page

\* list_failed_transactions
LEMMA ListRowsKeeps ==
  ASSUME WriterOK, ReqOK, ListRows
  PROVE  ReqOK'
<1>1. req \in ListReqs /\ req.kind = "list" /\ req.at = "rows"
  BY ReqShape DEF ReqOK, ListRows
<1> DEFINE q == req.q
           S == Matches(q)
           n == Cardinality(S)
           limit == LimitOf(q)
           offset == req.offset
<1>2. q \in Queries /\ offset \in Nat /\ req.seen \in Seq(FailedRows)
  BY <1>1 DEF ListReqs
<1>3. limit \in Nat \ {0}
  BY <1>2, LimitIs
<1>4. IsFiniteSet(S) /\ n \in Nat /\ S \subseteq FailedRows /\ \A f \in S : f.timestamp \in Int
  BY MatchesAre
<1>5. PICK s \in Orders(S) :
        req' = [req EXCEPT !.at = "total",
                  !.seen = @ \o SubSeq(s, offset + 1, Min({offset + limit, Len(s)}))]
  BY DEF ListRows
<1>6. S' = S
  <2>1. UNCHANGED <<trace_log, failed>>
    BY DEF ListRows, writerVars, tables
  <2>2. \A x : Matches(x)' = Matches(x)
    BY <2>1, SameAnswers
  <2>3. req'.q = req.q
    BY <1>1, <1>5 DEF ListReqs
  <2> QED  BY <2>2, <2>3
<1> HIDE DEF S
<1>7. s \in Seq(S) /\ Len(s) = n /\ (Apart(S) => \A i \in 1 .. n : Cardinality(Before(S, s[i])) = i - 1)
  BY <1>4, OrderIs
<1> DEFINE e == IF offset + limit <= n THEN offset + limit ELSE n
           seen == req.seen \o SubSeq(s, offset + 1, e)
<1> HIDE DEF q, n, limit, offset
<1>8. Min({offset + limit, n}) = e
  <2>1. offset + limit \in Int /\ n \in Int
    BY <1>2, <1>3, <1>4
  <2> QED  BY <2>1, MinMaxOfTwo
<1>9. req' = [req EXCEPT !.at = "total", !.seen = seen]
  BY <1>1, <1>5, <1>7, <1>8 DEF ListReqs
<1>10. /\ seen \in Seq(FailedRows)
       /\ (offset <= n /\ Len(req.seen) = offset) =>
            Len(seen) = e /\ \A i \in 1 .. e : seen[i] = IF i <= offset THEN req.seen[i] ELSE s[i]
  <2>1. e \in Nat /\ e <= Len(s) /\ (offset <= n => offset <= e)
    BY <1>2, <1>3, <1>4, <1>7
  <2> DEFINE old == req.seen
  <2>2. old \in Seq(FailedRows)
    BY <1>2
  <2> HIDE DEF e, old
  <2>3. /\ Continued(old, s, offset, e) \in Seq(FailedRows)
        /\ Continues(Continued(old, s, offset, e), old, s, offset, e)
    <3>1. s \in Seq(FailedRows)
      BY <1>4, <1>7
    <3>2. offset \in Nat
      BY <1>2
    <3>3. e \in Nat
      BY <2>1
    <3>4. e <= Len(s)
      BY <2>1
    <3> HIDE DEF seen
    <3> QED  BY ONLY <2>2, <3>1, <3>2, <3>3, <3>4, PageIs
  <2>4. seen = Continued(old, s, offset, e)
    BY DEF old, Continued
  <2> HIDE DEF seen
  <2> QED  BY <2>1, <2>3, <2>4 DEF old, Continues
<1> HIDE DEF seen
<1>11. /\ req' \in ListReqs
       /\ req'.kind = "list" /\ req'.at = "total" /\ req'.q = q /\ req'.offset = offset /\ req'.seen = seen
  BY <1>1, <1>9, <1>10 DEF ListReqs, q, offset
<1>12. /\ SeenOK("total", seen, offset, limit, n)
       /\ Apart(S) => Ranked(seen, S)
  <2>1. SeenOK("rows", req.seen, offset, limit, n) /\ (Apart(S) => Ranked(req.seen, S))
    BY <1>1 DEF ReqOK, ListOK, S, q, n, limit, offset
  <2>2. offset <= n /\ Len(req.seen) = offset
    BY <2>1 DEF SeenOK
  <2>3. Len(seen) = e /\ \A i \in 1 .. e : seen[i] = IF i <= offset THEN req.seen[i] ELSE s[i]
    BY <1>10, <2>2
  <2>4. e \in Nat /\ e <= n
    BY <1>2, <1>3, <1>4
  <2>5. SeenOK("total", seen, offset, limit, n)
    BY <2>2, <2>3 DEF SeenOK
  <2> HIDE DEF e
  <2>6. ASSUME Apart(S), NEW i \in 1 .. e  PROVE seen[i] \in S /\ Cardinality(Before(S, seen[i])) = i - 1
    <3>1. CASE i <= offset
      <4>1. i \in 1 .. Len(req.seen) /\ seen[i] = req.seen[i]
        BY <2>2, <2>3, <2>4, <3>1
      <4> QED  BY <2>1, <2>6, <4>1 DEF Ranked
    <3>2. CASE ~(i <= offset)
      <4>1. i \in 1 .. n /\ seen[i] = s[i]
        BY <1>4, <2>3, <2>4, <3>2
      <4>2. s[i] \in S
        BY <1>7, <4>1, ElementOfSeq
      <4> QED  BY <1>7, <2>6, <4>1, <4>2
    <3> QED  BY <3>1, <3>2
  <2>7. Apart(S) => Ranked(seen, S)
    BY <2>3, <2>6 DEF Ranked
  <2> QED  BY <2>5, <2>7
<1>13. ListOK'
  <2>1. Matches(req.q)' = S
    BY <1>6 DEF S, q
  <2>2. LimitOf(req.q)' = limit
    BY <1>11 DEF limit
  <2> QED  BY <1>11, <1>12, <2>1, <2>2 DEF ListOK, n
<1>14. DetailOK'
  BY <1>11 DEF DetailOK
<1> QED  BY <1>11, <1>13, <1>14 DEF ReqOK, ReqTyped

\* count_failed_transactions: another page, or the answer
LEMMA ListTotalKeeps ==
  ASSUME WriterOK, ReqOK, ListTotal
  PROVE  ReqOK'
<1>1. req \in ListReqs /\ req.kind = "list" /\ req.at = "total"
  BY ReqShape DEF ReqOK, ListTotal
<1> DEFINE q == req.q
           S == Matches(q)
           n == Cardinality(S)
           limit == LimitOf(q)
           offset == req.offset
           next == offset + limit
<1>2. q \in Queries /\ offset \in Nat /\ req.seen \in Seq(FailedRows)
  BY <1>1 DEF ListReqs
<1>3. limit \in Nat \ {0}
  BY <1>2, LimitIs
<1>4. n \in Nat
  BY MatchesAre
<1>5. req' = IF next < n THEN [req EXCEPT !.at = "rows", !.total = n, !.offset = next]
             ELSE [req EXCEPT !.at = "done", !.total = n]
  BY DEF ListTotal
<1>6. \A x : Matches(x)' = Matches(x)
  <2>1. UNCHANGED <<trace_log, failed>>
    BY DEF ListTotal, writerVars, tables
  <2> QED  BY <2>1, SameAnswers
<1>7. /\ SeenOK("total", req.seen, offset, limit, n)
      /\ Apart(S) => Ranked(req.seen, S)
  BY <1>1 DEF ReqOK, ListOK
<1>8. CASE next < n
  <2>1. req' = [req EXCEPT !.at = "rows", !.total = n, !.offset = next]
    BY <1>5, <1>8
  <2>2. next \in Nat
    BY <1>2, <1>3
  <2> HIDE DEF S, n, limit, next
  <2>3. /\ req' \in ListReqs
        /\ req'.kind = "list" /\ req'.at = "rows" /\ req'.q = q /\ req'.offset = next /\ req'.seen = req.seen
    BY <1>1, <1>4, <2>1, <2>2 DEF ListReqs
  <2>4. SeenOK("rows", req.seen, next, limit, n)
    <3>1. Len(req.seen) = IF offset + limit <= n THEN offset + limit ELSE n
      BY <1>7 DEF SeenOK
    <3> QED  BY <1>2, <1>3, <1>4, <1>8, <3>1 DEF SeenOK, next
  <2>5. Matches(req.q)' = S /\ LimitOf(req.q)' = limit
    BY <1>6, <2>3 DEF S, limit
  <2>6. ListOK'
    BY <1>7, <2>3, <2>4, <2>5 DEF ListOK, n
  <2>7. DetailOK'
    BY <2>3 DEF DetailOK
  <2> QED  BY <2>3, <2>6, <2>7 DEF ReqOK, ReqTyped
<1>9. CASE ~(next < n)
  <2>1. req' = [req EXCEPT !.at = "done", !.total = n]
    BY <1>5, <1>9
  <2> HIDE DEF S, n
  <2>2. /\ req' \in ListAnswers
        /\ req'.kind = "list" /\ req'.at = "done" /\ req'.q = q /\ req'.offset = offset /\ req'.seen = req.seen
    BY <1>1, <1>4, <2>1 DEF ListReqs, ListAnswers
  <2>3. SeenOK("done", req.seen, offset, limit, n)
    <3>1. offset <= n /\ Len(req.seen) = IF offset + limit <= n THEN offset + limit ELSE n
      BY <1>7 DEF SeenOK
    <3> QED  BY <1>2, <1>3, <1>4, <1>9, <3>1 DEF SeenOK
  <2>4. Matches(req.q)' = S /\ LimitOf(req.q)' = limit
    BY <1>6, <2>2 DEF S
  <2>5. ListOK'
    BY <1>7, <2>2, <2>3, <2>4 DEF ListOK, n
  <2>6. DetailOK'
    BY <2>2 DEF DetailOK
  <2> QED  BY <2>2, <2>5, <2>6 DEF ReqOK, ReqTyped
<1> QED  BY <1>8, <1>9

-----------------------------------------------------------------------------
(* Call trees *)

\* Caller, Rebuilt and the place of a call among the calls of its caller, row
\* by row.
IsCaller(rows, i, c) ==
  /\ c \in 1 .. i - 1
  /\ rows[c].depth = rows[i].depth - 1
  /\ \A j \in c + 1 .. i - 1 : rows[j].depth # rows[i].depth - 1
Siblings(rows, i) == {j \in 2 .. i : rows[j].depth = rows[i].depth /\ Caller(rows, j) = Caller(rows, i)}
Link(rows, i) == <<rows[Caller(rows, i)].id, Cardinality(Siblings(rows, i)), rows[i].id>>

\* The rows of one call and what it calls: the first row is the only one at
\* depth d, and every other one is called from a row above it.
Rooted(rows, d) ==
  /\ rows \in Seq(FrameRows)
  /\ Len(rows) \in Nat \ {0}
  /\ rows[1].depth = d
  /\ \A i \in 2 .. Len(rows) : rows[i].depth > d /\ \E j \in 1 .. i - 1 : rows[j].depth = rows[i].depth - 1

\* The rows of what the first row calls itself.
Children(rows, d) == {j \in 2 .. Len(rows) : rows[j].depth = d + 1}

\* A set of rows has a last one.
LEMMA GreatestOfNats ==
  ASSUME NEW n \in Nat, NEW T, T \subseteq 1 .. n, T # {}
  PROVE  \E x \in T : \A y \in T : y <= x
<1> DEFINE R == {n - x : x \in T}
<1>1. R \subseteq Nat /\ R # {}
  <2>1. \A x \in T : n - x \in Nat
    OBVIOUS
  <2> QED  BY <2>1
<1>2. PICK z \in R : \A w \in R : z <= w
  <2> HIDE DEF R
  <2> QED  BY <1>1, LeastOfNats
<1>3. PICK x \in T : z = n - x
  BY <1>2
<1>4. ASSUME NEW y \in T  PROVE y <= x
  <2>1. n - x <= n - y
    BY <1>2, <1>3
  <2>2. x \in 1 .. n /\ y \in 1 .. n
    OBVIOUS
  <2> HIDE DEF R
  <2> QED  BY <2>1, <2>2
<1> QED  BY <1>4

\* The caller is the last row before a row that is one less deep.
LEMMA CallerIs ==
  ASSUME NEW rows, NEW i \in Nat, NEW c, IsCaller(rows, i, c)
  PROVE  Caller(rows, i) = c
<1> DEFINE T == {j \in 1 .. i - 1 : rows[j].depth = rows[i].depth - 1}
<1>1. c \in T /\ c \in Nat
  BY DEF IsCaller
<1>2. ASSUME NEW j \in T  PROVE j \in Nat /\ c >= j
  <2>1. j \in 1 .. i - 1 /\ j \notin c + 1 .. i - 1
    BY DEF IsCaller
  <2> QED  BY <1>1, <2>1
<1>3. \A x \in T : (\A y \in T : x >= y) => x = c
  <2> SUFFICES ASSUME NEW x \in T, \A y \in T : x >= y  PROVE x = c
    OBVIOUS
  <2>1. x >= c /\ c >= x /\ x \in Nat
    BY <1>1, <1>2
  <2> QED  BY <1>1, <2>1
<1>4. Max(T) = CHOOSE x \in T : \A y \in T : x >= y
  BY DEF Max
<1>5. Caller(rows, i) = Max(T)
  BY DEF Caller
<1> HIDE DEF T
<1> QED  BY <1>1, <1>2, <1>3, <1>4, <1>5

\* Every row but the first has one.
LEMMA HasCaller ==
  ASSUME NEW rows, NEW d, Rooted(rows, d), NEW i \in 2 .. Len(rows)
  PROVE  IsCaller(rows, i, Caller(rows, i))
<1> DEFINE T == {j \in 1 .. i - 1 : rows[j].depth = rows[i].depth - 1}
<1>1. i \in Nat /\ i - 1 \in Nat
  BY DEF Rooted
<1>2. T \subseteq 1 .. i - 1 /\ T # {}
  BY DEF Rooted
<1>3. PICK c \in T : \A y \in T : y <= c
  <2> HIDE DEF T
  <2> QED  BY <1>1, <1>2, GreatestOfNats
<1>4. c \in 1 .. i - 1 /\ c \in Nat
  BY <1>1, <1>3
<1>5. ASSUME NEW j \in c + 1 .. i - 1  PROVE rows[j].depth # rows[i].depth - 1
  <2>1. j \in 1 .. i - 1 /\ ~(j <= c)
    BY <1>1, <1>4
  <2> QED  BY <1>3, <2>1
<1>6. IsCaller(rows, i, c)
  BY <1>3, <1>4, <1>5 DEF IsCaller
<1>7. Caller(rows, i) = c
  BY <1>1, <1>6, CallerIs
<1> QED  BY <1>6, <1>7

\* Rows that follow change nothing about the rows before them.
LEMMA LinksBefore ==
  ASSUME NEW P, NEW d, Rooted(P, d), NEW Q, \A j \in 1 .. Len(P) : Q[j] = P[j]
  PROVE  /\ \A i \in 2 .. Len(P) : IsCaller(Q, i, Caller(Q, i))
         /\ \A i \in 2 .. Len(P) : Link(Q, i) = Link(P, i)
<1> DEFINE m == Len(P)
<1>1. m \in Nat
  BY DEF Rooted
<1> HIDE DEF m
<1>2. ASSUME NEW i \in 2 .. m
      PROVE  /\ IsCaller(Q, i, Caller(P, i))
             /\ Caller(Q, i) = Caller(P, i)
             /\ Caller(P, i) \in 1 .. m
  <2> DEFINE c == Caller(P, i)
  <2>1. IsCaller(P, i, c)
    BY HasCaller DEF m
  <2> HIDE DEF c
  <2>2. i \in Nat /\ i \in 1 .. m /\ c \in 1 .. m /\ \A j \in 1 .. i - 1 : j \in 1 .. m
    BY <1>1, <2>1 DEF IsCaller
  <2>3. IsCaller(Q, i, c)
    <3>1. Q[i] = P[i] /\ Q[c] = P[c]
      BY <2>2 DEF m
    <3>2. ASSUME NEW j \in c + 1 .. i - 1  PROVE Q[j] = P[j]
      <4>1. j \in 1 .. m
        BY <1>1, <2>2
      <4> QED  BY <4>1 DEF m
    <3> QED  BY <2>1, <3>1, <3>2 DEF IsCaller
  <2>4. Caller(Q, i) = c
    BY <2>2, <2>3, CallerIs
  <2> QED  BY <2>2, <2>3, <2>4 DEF c
<1>3. ASSUME NEW i \in 2 .. m  PROVE Link(Q, i) = Link(P, i)
  <2>1. i \in 1 .. m
    BY <1>1
  <2>2. \A j \in 2 .. i : j \in 2 .. m /\ j \in 1 .. m
    BY <1>1
  <2>3. Siblings(Q, i) = Siblings(P, i)
    <3>1. \A j \in 2 .. i : Q[j] = P[j] /\ Caller(Q, j) = Caller(P, j)
      BY <1>2, <2>2 DEF m
    <3>2. Q[i] = P[i] /\ Caller(Q, i) = Caller(P, i)
      BY <1>2, <2>1 DEF m
    <3> QED  BY <3>1, <3>2 DEF Siblings
  <2>4. Q[i] = P[i] /\ Q[Caller(Q, i)] = P[Caller(P, i)]
    BY <1>2, <2>1 DEF m
  <2> QED  BY <2>3, <2>4 DEF Link
<1> QED  BY <1>2, <1>3 DEF m

\* Moving a set of positions keeps its size.
LEMMA Shifted ==
  ASSUME NEW m \in Nat, NEW T, T \subseteq Nat, IsFiniteSet(T)
  PROVE  Cardinality({m + x : x \in T}) = Cardinality(T)
<1> DEFINE U == {m + x : x \in T}
           g == [x \in T |-> m + x]
<1>1. \A x, y \in T : g[x] = g[y] => x = y
  OBVIOUS
<1>2. g \in [T -> U] /\ \A u \in U : \E x \in T : g[x] = u
  OBVIOUS
<1> HIDE DEF U, g
<1>3. g \in Injection(T, U) /\ g \in Surjection(T, U)
  BY <1>1, <1>2 DEF Injection, Surjection, IsInjective
<1>4. ExistsBijection(T, U)
  BY <1>3 DEF Bijection, ExistsBijection
<1>5. Cardinality(U) = Cardinality(T)
  BY <1>4, FS_Bijection
<1> QED  BY <1>5 DEF U

\* The rows of a call are linked as they were wherever they are put.
LEMMA LinksAfter ==
  ASSUME NEW C, NEW e, Rooted(C, e), NEW m \in Nat, NEW Q, \A j \in 1 .. Len(C) : Q[m + j] = C[j],
         \A j \in 2 .. m : IsCaller(Q, j, Caller(Q, j))
  PROVE  /\ \A i \in 2 .. Len(C) : IsCaller(Q, m + i, Caller(Q, m + i))
         /\ \A i \in 2 .. Len(C) : Link(Q, m + i) = Link(C, i)
<1> DEFINE n == Len(C)
<1>1. n \in Nat /\ C[1].depth = e /\ \A i \in 2 .. n : C[i].depth > e
  BY DEF Rooted
<1>e. e \in Nat /\ \A i \in 1 .. n : C[i].depth \in Nat
  <2>1. \A i \in 1 .. n : C[i] \in FrameRows
    BY ElementOfSeq DEF Rooted
  <2>2. \A i \in 1 .. n : C[i].depth \in Nat
    BY <2>1 DEF FrameRows
  <2>3. 1 \in 1 .. n
    BY DEF Rooted
  <2> QED  BY <1>1, <2>2, <2>3
<1>2. \A j \in 1 .. n : Q[m + j] = C[j]
  OBVIOUS
<1> DEFINE Called(i) == /\ IsCaller(Q, m + i, m + Caller(C, i))
                        /\ Caller(Q, m + i) = m + Caller(C, i)
                        /\ Caller(C, i) \in 1 .. n
<1>3. ASSUME NEW i \in 2 .. n  PROVE Called(i)
  <2> DEFINE c == Caller(C, i)
  <2>1. IsCaller(C, i, c)
    BY HasCaller
  <2> HIDE DEF c
  <2>2. i \in 1 .. n /\ c \in 1 .. n /\ c \in 1 .. i - 1 /\ m + i \in Nat
    BY <1>1, <2>1 DEF IsCaller
  <2>3. Q[m + i] = C[i] /\ Q[m + c] = C[c]
    BY <1>2, <2>2
  <2>4. m + c \in 1 .. m + i - 1
    BY <1>1, <2>2
  <2>5. ASSUME NEW j \in m + c + 1 .. m + i - 1  PROVE Q[j].depth # C[i].depth - 1
    <3> DEFINE k == j - m
    <3>1. k \in c + 1 .. i - 1 /\ k \in 1 .. n /\ j = m + k
      BY <1>1, <2>2
    <3> HIDE DEF k
    <3>2. Q[j] = C[k]
      BY <1>2, <3>1
    <3> QED  BY <2>1, <3>1, <3>2 DEF IsCaller
  <2>6. IsCaller(Q, m + i, m + c)
    BY <2>1, <2>3, <2>4, <2>5 DEF IsCaller
  <2>7. Caller(Q, m + i) = m + c
    BY <2>2, <2>6, CallerIs
  <2> QED  BY <2>2, <2>6, <2>7 DEF c
<1>4. ASSUME NEW i \in 2 .. n  PROVE Link(Q, m + i) = Link(C, i)
  <2> DEFINE T == Siblings(C, i)
             U == {m + x : x \in T}
             V == Siblings(Q, m + i)
             c == Caller(C, i)
  <2>1. i \in 1 .. n /\ Q[m + i] = C[i] /\ Caller(Q, m + i) = m + c /\ c \in 1 .. n /\ C[i].depth > e
    BY <1>1, <1>2, <1>3
  <2> HIDE DEF c
  <2>2. ASSUME NEW j \in V  PROVE j \in U
    <3>1. j \in 2 .. m + i /\ Q[j].depth = C[i].depth /\ Caller(Q, j) = m + c
      BY <2>1 DEF Siblings
    <3>2. ~(j <= m)
      <4> SUFFICES ASSUME j <= m  PROVE FALSE
        OBVIOUS
      <4>1. j \in 2 .. m
        BY <3>1
      <4>2. Caller(Q, j) \in 1 .. j - 1
        BY <4>1 DEF IsCaller
      <4> QED  BY <2>1, <3>1, <4>1, <4>2
    <3> DEFINE k == j - m
    <3>3. k \in 1 .. i /\ k \in 1 .. n /\ j = m + k
      BY <1>1, <3>1, <3>2
    <3> HIDE DEF k
    <3>4. Q[j] = C[k]
      BY <1>2, <3>3
    <3>5. k # 1
      BY <1>1, <1>e, <2>1, <3>1, <3>4
    <3>6. k \in 2 .. i /\ k \in 2 .. n
      BY <3>3, <3>5
    <3>7. Caller(Q, j) = m + Caller(C, k) /\ Caller(C, k) \in 1 .. n
      BY <1>3, <3>3, <3>6
    <3>8. Caller(C, k) = c
      BY <2>1, <3>1, <3>7
    <3>9. k \in T
      BY <3>1, <3>4, <3>6, <3>8 DEF Siblings, c
    <3> QED  BY <3>3, <3>9
  <2>3. ASSUME NEW k \in T  PROVE m + k \in V
    <3>1. k \in 2 .. i /\ C[k].depth = C[i].depth /\ Caller(C, k) = c
      BY DEF Siblings, c
    <3>2. k \in 2 .. n /\ k \in 1 .. n /\ m + k \in 2 .. m + i
      BY <1>1, <3>1
    <3>3. Q[m + k] = C[k] /\ Caller(Q, m + k) = m + c
      BY <1>2, <1>3, <3>1, <3>2
    <3> QED  BY <2>1, <3>1, <3>2, <3>3 DEF Siblings
  <2>4. V = U
    BY <2>2, <2>3
  <2>5. T \subseteq Nat /\ IsFiniteSet(T)
    <3>1. T \subseteq 2 .. i
      BY DEF Siblings
    <3>2. IsFiniteSet(2 .. i)
      BY FS_Interval
    <3> QED  BY <3>1, <3>2, FS_Subset
  <2>6. Cardinality(U) = Cardinality(T)
    <3> HIDE DEF T
    <3> QED  BY <2>5, Shifted
  <2>7. Cardinality(V) = Cardinality(T)
    BY <2>4, <2>6
  <2>8. Q[Caller(Q, m + i)] = C[c]
    BY <1>2, <2>1
  <2> HIDE DEF T, V
  <2>9. Link(Q, m + i) = <<Q[m + c].id, Cardinality(V), C[i].id>>
    BY <2>1 DEF Link, V
  <2>10. Link(C, i) = <<C[c].id, Cardinality(T), C[i].id>>
    BY DEF Link, T, c
  <2> QED  BY <2>1, <2>7, <2>8, <2>9, <2>10
<1>5. ASSUME NEW i \in 2 .. n  PROVE IsCaller(Q, m + i, Caller(Q, m + i))
  <2>1. Called(i)
    BY <1>3
  <2> QED  BY <2>1
<1> QED  BY <1>4, <1>5

\* What Rebuilt makes of rows, link by link.
LEMMA RebuiltIs ==
  ASSUME NEW rows
  PROVE  Rebuilt(rows) = {Link(rows, i) : i \in 2 .. Len(rows)}
BY DEF Rebuilt, Link, Siblings

\* The rows of another call of the first row, put behind the others, add their
\* own links and that of the new call, which has the next place.
LEMMA Grafted ==
  ASSUME NEW d \in Nat, NEW P, Rooted(P, d), NEW C, Rooted(C, d + 1)
  PROVE  LET k == Cardinality(Children(P, d))
         IN  /\ Rooted(P \o C, d) /\ (P \o C)[1] = P[1]
             /\ k \in Nat /\ Cardinality(Children(P \o C, d)) = k + 1
             /\ Rebuilt(P \o C) = Rebuilt(P) \cup {<<P[1].id, k + 1, C[1].id>>} \cup Rebuilt(C)
<1> DEFINE Q == P \o C
           m == Len(P)
           n == Len(C)
           k == Cardinality(Children(P, d))
<1>1. /\ P \in Seq(FrameRows) /\ m \in Nat \ {0} /\ P[1].depth = d /\ \A i \in 2 .. m : P[i].depth > d
      /\ C \in Seq(FrameRows) /\ n \in Nat \ {0} /\ C[1].depth = d + 1 /\ \A i \in 2 .. n : C[i].depth > d + 1
  BY DEF Rooted
<1>2. /\ Q \in Seq(FrameRows) /\ Len(Q) = m + n
      /\ \A i \in 1 .. m + n : Q[i] = IF i <= m THEN P[i] ELSE C[i - m]
  BY <1>1, ConcatProperties
<1> HIDE DEF Q
<1>3. \A j \in 1 .. m : Q[j] = P[j]
  BY <1>1, <1>2
<1>4. ASSUME NEW j \in 1 .. n  PROVE Q[m + j] = C[j]
  <2>1. m + j \in 1 .. m + n /\ ~(m + j <= m) /\ m + j - m = j
    BY <1>1
  <2> QED  BY <1>2, <2>1
<1>5. /\ \A i \in 1 .. m : P[i].depth \in Nat
      /\ \A i \in 1 .. n : C[i].depth \in Nat
  <2>1. (\A i \in 1 .. m : P[i] \in FrameRows) /\ (\A i \in 1 .. n : C[i] \in FrameRows)
    BY <1>1, ElementOfSeq
  <2> QED  BY <2>1 DEF FrameRows
<1>6. /\ \A i \in 2 .. m : IsCaller(Q, i, Caller(Q, i))
      /\ \A i \in 2 .. m : Link(Q, i) = Link(P, i)
  BY <1>3, LinksBefore
<1>7. /\ \A i \in 2 .. n : IsCaller(Q, m + i, Caller(Q, m + i))
      /\ \A i \in 2 .. n : Link(Q, m + i) = Link(C, i)
  <2>1. m \in Nat
    BY <1>1
  <2> HIDE DEF m
  <2>2. \A j \in 2 .. m : IsCaller(Q, j, Caller(Q, j))
    BY <1>6
  <2>3. \A j \in 1 .. Len(C) : Q[m + j] = C[j]
    BY <1>4
  <2> QED  BY <2>1, <2>2, <2>3, LinksAfter
<1> HIDE DEF m, n, k
\* The first row calls what is one deeper.
<1>8. ASSUME NEW i \in 2 .. m + 1, Q[i].depth = d + 1  PROVE IsCaller(Q, i, 1) /\ Caller(Q, i) = 1
  <2>1. Q[1].depth = d /\ i \in Nat /\ 1 \in 1 .. i - 1
    BY <1>1, <1>3
  <2>2. ASSUME NEW j \in 1 + 1 .. i - 1  PROVE Q[j].depth # d
    <3>1. j \in 2 .. m /\ j \in 1 .. m
      BY <1>1
    <3>2. P[j].depth > d /\ P[j].depth \in Nat
      BY <1>1, <1>5, <3>1
    <3> QED  BY <1>3, <3>1, <3>2
  <2>3. Q[i].depth - 1 = d
    BY <1>8
  <2>4. IsCaller(Q, i, 1)
    BY <2>1, <2>2, <2>3 DEF IsCaller
  <2> QED  BY <2>1, <2>4, CallerIs
<1>9. m + 1 \in 2 .. m + 1 /\ Q[m + 1] = C[1] /\ Q[m + 1].depth = d + 1
  <2>1. 1 \in 1 .. n
    BY <1>1
  <2> QED  BY <1>1, <1>4, <2>1
\* Where the rows of Q come from.
<1>10. ASSUME NEW i \in 2 .. m + n  PROVE i \in 2 .. m \/ i = m + 1 \/ \E j \in 2 .. n : i = m + j
  <2>1. CASE i <= m + 1
    BY <1>1, <2>1
  <2>2. CASE i > m + 1
    <3>1. i - m \in 2 .. n /\ i = m + (i - m)
      BY <1>1, <2>2
    <3> QED  BY <3>1
  <2> QED  BY <1>1, <2>1, <2>2
\* Q is a call of its own.
<1>11. Rooted(Q, d) /\ Q[1] = P[1]
  <2>1. Q[1] = P[1] /\ Len(Q) \in Nat \ {0}
    BY <1>1, <1>2, <1>3
  <2>2. ASSUME NEW i \in 2 .. m + n
        PROVE  Q[i].depth > d /\ \E j \in 1 .. i - 1 : Q[j].depth = Q[i].depth - 1
    <3>1. IsCaller(Q, i, Caller(Q, i))
      <4>1. CASE i \in 2 .. m
        BY <1>6, <4>1
      <4>2. CASE i = m + 1
        BY <1>8, <1>9, <4>2
      <4>3. CASE \E j \in 2 .. n : i = m + j
        BY <1>7, <4>3
      <4> QED  BY <1>10, <4>1, <4>2, <4>3
    <3>2. Q[i].depth > d
      <4>1. CASE i \in 2 .. m
        BY <1>1, <1>3, <4>1
      <4>2. CASE i = m + 1
        BY <1>9, <4>2
      <4>3. CASE \E j \in 2 .. n : i = m + j
        <5>1. PICK j \in 2 .. n : i = m + j
          BY <4>3
        <5>2. j \in 1 .. n
          BY <1>1
        <5>3. C[j].depth > d + 1 /\ C[j].depth \in Nat
          BY <1>1, <1>5, <5>2
        <5> QED  BY <1>4, <5>1, <5>2, <5>3
      <4> QED  BY <1>10, <4>1, <4>2, <4>3
    <3> QED  BY <3>1, <3>2 DEF IsCaller
  <2> QED  BY <1>1, <1>2, <2>1, <2>2 DEF Rooted
\* Its first row calls one more.
<1>12. /\ IsFiniteSet(Children(P, d)) /\ k \in Nat
       /\ Children(Q, d) = Children(P, d) \cup {m + 1}
       /\ m + 1 \notin Children(P, d)
  <2>1. Children(P, d) \subseteq 2 .. m
    BY DEF Children, m
  <2>2. IsFiniteSet(2 .. m)
    <3>1. m \in Int
      BY <1>1
    <3> QED  BY <3>1, FS_Interval
  <2>3. IsFiniteSet(Children(P, d)) /\ k \in Nat
    BY <2>1, <2>2, FS_Subset, FS_CardinalityType DEF k
  <2>4. m + 1 \notin Children(P, d)
    BY <1>1, <2>1
  <2>5. ASSUME NEW j \in Children(Q, d)  PROVE j \in Children(P, d) \cup {m + 1}
    <3>1. j \in 2 .. m + n /\ Q[j].depth = d + 1
      BY <1>2 DEF Children
    <3>2. CASE j \in 2 .. m
      BY <1>1, <1>3, <3>1, <3>2 DEF Children, m
    <3>3. CASE \E i \in 2 .. n : j = m + i
      <4>1. PICK i \in 2 .. n : j = m + i
        BY <3>3
      <4>2. i \in 1 .. n
        BY <1>1
      <4>3. C[i].depth > d + 1 /\ C[i].depth \in Nat
        BY <1>1, <1>5, <4>2
      <4> QED  BY <1>4, <3>1, <4>1, <4>2, <4>3
    <3> QED  BY <1>10, <3>1, <3>2, <3>3
  <2>6. ASSUME NEW j \in Children(P, d)  PROVE j \in Children(Q, d)
    <3>1. j \in 2 .. m /\ P[j].depth = d + 1
      BY DEF Children, m
    <3>2. j \in 2 .. m + n /\ j \in 1 .. m
      BY <1>1, <3>1
    <3> QED  BY <1>2, <1>3, <3>1, <3>2 DEF Children
  <2>7. m + 1 \in Children(Q, d)
    <3>1. m + 1 \in 2 .. m + n
      BY <1>1
    <3> QED  BY <1>2, <1>9, <3>1 DEF Children
  <2> QED  BY <2>3, <2>4, <2>5, <2>6, <2>7
<1>13. Cardinality(Children(P, d) \cup {m + 1}) = k + 1
  BY <1>12, FS_AddElement DEF k
\* Its link has that place.
<1>14. Link(Q, m + 1) = <<P[1].id, k + 1, C[1].id>>
  <2>1. Caller(Q, m + 1) = 1
    BY <1>8, <1>9
  <2>2. Siblings(Q, m + 1) = Children(P, d) \cup {m + 1}
    <3>1. ASSUME NEW j \in 2 .. m + 1, Q[j].depth = d + 1  PROVE Caller(Q, j) = 1
      BY <1>8, <3>1
    <3>2. Siblings(Q, m + 1) = {j \in 2 .. m + 1 : Q[j].depth = d + 1}
      BY <1>9, <2>1, <3>1 DEF Siblings
    <3>3. ASSUME NEW j \in 2 .. m + 1  PROVE Q[j].depth = d + 1 <=> j \in Children(P, d) \cup {m + 1}
      <4>1. CASE j = m + 1
        BY <1>9, <4>1
      <4>2. CASE j # m + 1
        <5>1. j \in 2 .. m /\ j \in 1 .. m
          BY <1>1, <4>2
        <5> QED  BY <1>3, <4>2, <5>1 DEF Children, m
      <4> QED  BY <4>1, <4>2
    <3>4. Children(P, d) \cup {m + 1} \subseteq 2 .. m + 1
      <4>1. \A j \in 2 .. m : j \in 2 .. m + 1
        BY <1>1
      <4> QED  BY <1>9, <4>1 DEF Children, m
    <3> HIDE DEF m
    <3> QED  BY <3>2, <3>3, <3>4
  <2>3. Q[Caller(Q, m + 1)] = P[1]
    BY <1>11, <2>1
  <2> QED  BY <1>9, <1>13, <2>2, <2>3 DEF Link
<1>15. Rebuilt(Q) = Rebuilt(P) \cup {<<P[1].id, k + 1, C[1].id>>} \cup Rebuilt(C)
  <2>1. /\ Rebuilt(P) = {Link(P, i) : i \in 2 .. m}
        /\ Rebuilt(C) = {Link(C, i) : i \in 2 .. n}
        /\ Rebuilt(Q) = {Link(Q, i) : i \in 2 .. m + n}
    BY <1>2, RebuiltIs DEF m, n
  <2>2. \A i \in 2 .. m : i \in 2 .. m + n
    BY <1>1
  <2>3. m + 1 \in 2 .. m + n
    BY <1>1
  <2>4. \A i \in 2 .. n : m + i \in 2 .. m + n
    BY <1>1
  <2>5. ASSUME NEW x \in Rebuilt(Q)  PROVE x \in Rebuilt(P) \cup {Link(Q, m + 1)} \cup Rebuilt(C)
    <3>1. PICK i \in 2 .. m + n : x = Link(Q, i)
      BY <2>1
    <3>2. CASE i \in 2 .. m
      BY <1>6, <2>1, <3>1, <3>2
    <3>3. CASE i = m + 1
      BY <3>1, <3>3
    <3>4. CASE \E j \in 2 .. n : i = m + j
      BY <1>7, <2>1, <3>1, <3>4
    <3> QED  BY <1>10, <3>2, <3>3, <3>4
  <2>6. \A x \in Rebuilt(P) : x \in Rebuilt(Q)
    BY <1>6, <2>1, <2>2
  <2>7. Link(Q, m + 1) \in Rebuilt(Q)
    BY <2>1, <2>3
  <2>8. \A x \in Rebuilt(C) : x \in Rebuilt(Q)
    BY <1>7, <2>1, <2>4
  <2> QED  BY <1>14, <2>5, <2>6, <2>7, <2>8
<1> QED  BY <1>11, <1>12, <1>13, <1>15 DEF Q, k

\* A row alone is a call that calls nothing.
LEMMA Leaf ==
  ASSUME NEW json \in Frames, NEW d \in Nat
  PROVE  /\ Rooted(<<Row(json, d)>>, d)
         /\ Children(<<Row(json, d)>>, d) = {}
         /\ Rebuilt(<<Row(json, d)>>) = {}
<1> DEFINE row == Row(json, d)
           s == <<row>>
<1>1. row \in FrameRows /\ row.depth = d
  BY RowType
<1> HIDE DEF row
<1>2. s \in Seq(FrameRows) /\ Len(s) = 1 /\ s[1] = row /\ 2 .. 1 = {}
  BY <1>1
<1> HIDE DEF s
<1>3. Rooted(s, d)
  BY <1>1, <1>2 DEF Rooted
<1>4. Children(s, d) = {} /\ Rebuilt(s) = {}
  BY <1>2, RebuiltIs DEF Children
<1> QED  BY <1>3, <1>4 DEF s, row

\* The links of the first n calls of a frame, and theirs.
Calling(json, n) == {<<json.id, i, Calls(json)[i].id>> : i \in 1 .. n}
Below(json, d, n) == UNION {Rebuilt(flatten_call_frame[Calls(json)[i]][d + 1]) : i \in 1 .. n}

\* What flatten_call_frame makes of a frame is the rows of a call, and what can
\* be rebuilt from them is whom it calls and what can be rebuilt of those.
LEMMA FlattenRebuilt ==
  ASSUME NEW json \in Frames, NEW d \in Nat,
         \A i \in DOMAIN Calls(json) : Rooted(flatten_call_frame[Calls(json)[i]][d + 1], d + 1)
                                       /\ flatten_call_frame[Calls(json)[i]][d + 1][1].id = Calls(json)[i].id
  PROVE  /\ Rooted(flatten_call_frame[json][d], d)
         /\ flatten_call_frame[json][d][1].id = json.id
         /\ Rebuilt(flatten_call_frame[json][d]) =
              Calling(json, Len(Calls(json))) \cup Below(json, d, Len(Calls(json)))
<1> DEFINE F == flatten_call_frame
           calls == Calls(json)
           n == Len(calls)
           parts == Parts(F, json, d)
           row == Row(json, d)
           R == <<row>>
<1>1. /\ F[json][d] = R \o FlattenSeq(parts)
      /\ parts \in Seq(Seq(Deep(d + 1)))
  BY FlattenShape
<1>2. calls \in Seq(Frames) /\ n \in Nat /\ DOMAIN calls = 1 .. n
  BY CallsNest, LenProperties
<1>3. row \in FrameRows /\ row.depth = d /\ row.id = json.id
  BY RowType
<1>4. Rooted(R, d) /\ Children(R, d) = {} /\ Rebuilt(R) = {}
  BY Leaf
<1>5. parts \in Seq(Seq(FrameRows)) /\ Len(parts) = n /\ \A i \in 1 .. n : parts[i] = F[calls[i]][d + 1]
  <2>1. Deep(d + 1) \subseteq FrameRows
    BY DEF Deep
  <2>2. Seq(Deep(d + 1)) \subseteq Seq(FrameRows)
    BY <2>1, SeqMonotonic
  <2>3. parts \in Seq(Seq(FrameRows))
    <3> HIDE DEF parts
    <3> QED  BY <1>1, <2>2, SeqMonotonic
  <2>4. parts = [i \in 1 .. n |-> F[calls[i]][d + 1]]
    BY <1>2 DEF Parts
  <2> HIDE DEF parts, n
  <2> QED  BY <1>2, <2>3, <2>4
<1>6. \A i \in 1 .. n : Rooted(parts[i], d + 1) /\ parts[i][1].id = calls[i].id
  BY <1>2, <1>5
<1> HIDE DEF F, calls, n, parts, row
<1>7. PICK g \in [0 .. n -> Seq(FrameRows)] : g[0] = <<>> /\ \A i \in 1 .. n : g[i] = g[i - 1] \o parts[i]
  BY <1>5, RunExists DEF Runs, RunsTo
<1>8. FlattenSeq(parts) = g[n]
  BY <1>5, <1>7, FlattenIsRun DEF Runs, RunsTo
<1> DEFINE Made(i) == /\ Rooted(R \o g[i], d)
                      /\ (R \o g[i])[1] = row
                      /\ Cardinality(Children(R \o g[i], d)) = i
                      /\ Rebuilt(R \o g[i]) = Calling(json, i) \cup Below(json, d, i)
           M == {i \in Nat : i <= n => Made(i)}
<1>r. R \in Seq(FrameRows) /\ R[1] = row
  BY <1>3
<1> HIDE DEF R
<1>9. 0 \in M
  <2>1. R \o g[0] = R
    BY <1>7, <1>r, ConcatEmptySeq
  <2>2. Cardinality({}) = 0
    BY FS_EmptySet
  <2>3. Calling(json, 0) = {} /\ Below(json, d, 0) = {}
    <3>1. 1 .. 0 = {}
      OBVIOUS
    <3> QED  BY <3>1 DEF Calling, Below
  <2>4. Made(0)
    BY <1>4, <1>r, <2>1, <2>2, <2>3
  <2> HIDE DEF Made
  <2> QED  BY <2>4
<1> HIDE DEF Made
<1>10. ASSUME NEW i \in Nat, i \in M  PROVE i + 1 \in M
  <2> SUFFICES ASSUME i + 1 <= n  PROVE Made(i + 1)
    OBVIOUS
  <2> DEFINE p == R \o g[i]
             c == parts[i + 1]
  <2>1. Made(i)
    BY <1>2, <1>10
  <2>2. i + 1 \in 1 .. n /\ i \in 0 .. n /\ i + 1 - 1 = i
    BY <1>2
  <2>3. Rooted(c, d + 1) /\ c[1].id = calls[i + 1].id /\ c = F[calls[i + 1]][d + 1]
    BY <1>5, <1>6, <2>2
  <2>4. R \o g[i + 1] = p \o c
    <3> DEFINE x == i + 1
    <3> HIDE DEF x, p, c
    <3>1. x \in 1 .. n /\ x - 1 = i
      BY <2>2 DEF x
    <3>0. g[x] = g[x - 1] \o parts[x]
      BY <1>7, <3>1
    <3>2. g[i] \in Seq(FrameRows) /\ c \in Seq(FrameRows)
      BY <1>7, <2>2, <2>3 DEF Rooted
    <3> DEFINE h == g[i]
    <3> HIDE DEF h
    <3>3. h \in Seq(FrameRows)
      BY <3>2 DEF h
    <3>4. R \o (h \o c) = (R \o h) \o c
      <4>1. \A u, v, w \in Seq(FrameRows) : u \o (v \o w) = (u \o v) \o w
        BY ConcatAssociative
      <4> QED  BY <1>r, <3>2, <3>3, <4>1
    <3> QED  BY <3>0, <3>1, <3>4 DEF h, x, p, c
  <2>5. /\ Rooted(p, d) /\ p[1] = row /\ Cardinality(Children(p, d)) = i
        /\ Rebuilt(p) = Calling(json, i) \cup Below(json, d, i)
    BY <2>1 DEF Made
  <2> HIDE DEF p, c
  <2>6. /\ Rooted(p \o c, d) /\ (p \o c)[1] = p[1]
        /\ Cardinality(Children(p \o c, d)) = i + 1
        /\ Rebuilt(p \o c) = Rebuilt(p) \cup {<<p[1].id, i + 1, c[1].id>>} \cup Rebuilt(c)
    <3> DEFINE k == Cardinality(Children(p, d))
    <3>1. /\ Rooted(p \o c, d) /\ (p \o c)[1] = p[1]
          /\ Cardinality(Children(p \o c, d)) = k + 1
          /\ Rebuilt(p \o c) = Rebuilt(p) \cup {<<p[1].id, k + 1, c[1].id>>} \cup Rebuilt(c)
      <4>1. Rooted(p, d) /\ Rooted(c, d + 1)
        BY <2>3, <2>5
      <4> QED  BY <4>1, Grafted
    <3>2. k = i
      BY <2>5
    <3> HIDE DEF k
    <3> QED  BY <3>1, <3>2
  <2>7. 1 .. i + 1 = (1 .. i) \cup {i + 1}
    OBVIOUS
  <2>8. Calling(json, i + 1) = Calling(json, i) \cup {<<json.id, i + 1, calls[i + 1].id>>}
    BY <2>7 DEF Calling, calls
  <2>9. Below(json, d, i + 1) = Below(json, d, i) \cup Rebuilt(c)
    BY <2>3, <2>7 DEF Below, F, calls
  <2>10. p[1].id = json.id
    BY <1>3, <2>5
  <2>11. Rebuilt(p \o c) = Calling(json, i + 1) \cup Below(json, d, i + 1)
    BY <2>3, <2>5, <2>6, <2>8, <2>9, <2>10
  <2> QED  BY <2>4, <2>5, <2>6, <2>11 DEF Made
<1>11. \A i \in Nat : i \in M
  <2> HIDE DEF M
  <2> QED  BY <1>9, <1>10, Induct
<1>12. Made(n)
  BY <1>2, <1>11
<1> QED  BY <1>1, <1>3, <1>8, <1>12 DEF Made, F, calls, n

\* That holds of every frame at every depth.
LEMMA AllRooted ==
  \A json \in Frames : \A d \in Nat :
    /\ Rooted(flatten_call_frame[json][d], d)
    /\ flatten_call_frame[json][d][1].id = json.id
    /\ Rebuilt(flatten_call_frame[json][d]) =
         Calling(json, Len(Calls(json))) \cup Below(json, d, Len(Calls(json)))
<1> DEFINE F == flatten_call_frame
           Root(json, d) == Rooted(F[json][d], d) /\ F[json][d][1].id = json.id
           P == {json \in Frames : \A d \in Nat : Root(json, d)}
<1>1. ASSUME NEW json \in Frames, NEW d \in Nat, \A i \in DOMAIN Calls(json) : Root(Calls(json)[i], d + 1)
      PROVE  /\ Root(json, d)
             /\ Rebuilt(F[json][d]) = Calling(json, Len(Calls(json))) \cup Below(json, d, Len(Calls(json)))
  BY <1>1, FlattenRebuilt
<1> HIDE DEF Root
<1>2. ASSUME NEW json \in Frames, \A i \in DOMAIN Calls(json) : Calls(json)[i] \in P  PROVE json \in P
  <2>1. ASSUME NEW d \in Nat  PROVE Root(json, d)
    <3>1. d + 1 \in Nat
      OBVIOUS
    <3>2. \A i \in DOMAIN Calls(json) : Root(Calls(json)[i], d + 1)
      BY <1>2, <3>1
    <3> QED  BY <1>1, <3>2
  <2> QED  BY <2>1
<1>3. \A json \in Frames : json \in P
  <2> HIDE DEF P
  <2> QED  BY <1>2, FrameInduct
<1>4. ASSUME NEW json \in Frames, NEW d \in Nat
      PROVE  /\ Root(json, d)
             /\ Rebuilt(F[json][d]) = Calling(json, Len(Calls(json))) \cup Below(json, d, Len(Calls(json)))
  <2>1. d + 1 \in Nat
    OBVIOUS
  <2>2. \A i \in DOMAIN Calls(json) : Root(Calls(json)[i], d + 1)
    BY <1>3, <2>1, CallsNest
  <2> QED  BY <1>1, <2>2
<1> QED  BY <1>4 DEF Root, F

\* What can be rebuilt does not depend on the depth one starts from.
LEMMA AnyDepth ==
  \A json \in Frames : \A d \in Nat : Rebuilt(flatten_call_frame[json][d]) = Rebuilt(flatten_call_frame[json][0])
<1> DEFINE Re(json, d) == Rebuilt(flatten_call_frame[json][d])
           P == {json \in Frames : \A d \in Nat : Re(json, d) = Re(json, 0)}
<1>1. ASSUME NEW json \in Frames, NEW d \in Nat
      PROVE  Re(json, d) = Calling(json, Len(Calls(json))) \cup UNION {Re(Calls(json)[i], d + 1) : i \in 1 .. Len(Calls(json))}
  BY AllRooted DEF Below
<1> HIDE DEF Re
<1>2. ASSUME NEW json \in Frames, \A i \in DOMAIN Calls(json) : Calls(json)[i] \in P  PROVE json \in P
  <2> DEFINE n == Len(Calls(json))
  <2>1. DOMAIN Calls(json) = 1 .. n
    BY CallsNest, LenProperties
  <2> HIDE DEF n
  <2>2. \A i \in 1 .. n : \A d \in Nat : Re(Calls(json)[i], d) = Re(Calls(json)[i], 0)
    BY <1>2, <2>1
  <2>3. ASSUME NEW d \in Nat  PROVE Re(json, d) = Re(json, 0)
    <3>1. d + 1 \in Nat /\ 0 + 1 \in Nat /\ 0 \in Nat
      OBVIOUS
    <3>2. \A i \in 1 .. n : Re(Calls(json)[i], d + 1) = Re(Calls(json)[i], 0 + 1)
      BY <2>2, <3>1
    <3>3. {Re(Calls(json)[i], d + 1) : i \in 1 .. n} = {Re(Calls(json)[i], 0 + 1) : i \in 1 .. n}
      BY <3>2
    <3>4. /\ Re(json, d) = Calling(json, n) \cup UNION {Re(Calls(json)[i], d + 1) : i \in 1 .. n}
          /\ Re(json, 0) = Calling(json, n) \cup UNION {Re(Calls(json)[i], 0 + 1) : i \in 1 .. n}
      BY <1>1, <3>1 DEF n
    <3> QED  BY <3>3, <3>4
  <2> QED  BY <2>3
<1>3. \A json \in Frames : json \in P
  <2> HIDE DEF P
  <2> QED  BY <1>2, FrameInduct
<1> QED  BY <1>3 DEF Re

\* From order and depth alone one gets the call tree back.
LEMMA EdgesRebuilt ==
  \A json \in Frames : Edges[json] = Rebuilt(flatten_call_frame[json][0])
<1> DEFINE Step(f, json) ==
             Calling(json, Len(Calls(json))) \cup UNION {f[Calls(json)[i]] : i \in 1 .. Len(Calls(json))}
           Obeys(f) == f = [json \in Frames |-> Step(f, json)]
           R == [json \in Frames |-> Rebuilt(flatten_call_frame[json][0])]
<1>1. \A json \in Frames : DOMAIN Calls(json) = 1 .. Len(Calls(json)) /\ \A i \in 1 .. Len(Calls(json)) : Calls(json)[i] \in Frames
  <2> SUFFICES ASSUME NEW json \in Frames
               PROVE  DOMAIN Calls(json) = 1 .. Len(Calls(json)) /\ \A i \in 1 .. Len(Calls(json)) : Calls(json)[i] \in Frames
    OBVIOUS
  <2>1. Calls(json) \in Seq(Frames)
    BY CallsNest
  <2> QED  BY <2>1, LenProperties, ElementOfSeq
<1>2. Edges = CHOOSE f : Obeys(f)
  <2> DEFINE Given(f, json) ==
               {<<parse_call_frame(json).id, i, parse_call_frame(json).calls[i].id>> :
                  i \in DOMAIN parse_call_frame(json).calls}
                 \cup UNION {f[parse_call_frame(json).calls[i]] : i \in DOMAIN parse_call_frame(json).calls}
  <2>1. \A json : parse_call_frame(json).calls = Calls(json) /\ parse_call_frame(json).id = json.id
    BY DEF parse_call_frame, Calls
  <2>2. \A f : \A json \in Frames : Given(f, json) = Step(f, json)
    BY <1>1, <2>1 DEF Calling
  <2>3. Edges = CHOOSE f : f = [json \in Frames |-> Given(f, json)]
    BY DEF Edges
  <2> HIDE DEF Given, Step
  <2>4. \A f : [json \in Frames |-> Given(f, json)] = [json \in Frames |-> Step(f, json)]
    BY <2>2
  <2> QED  BY <2>3, <2>4
<1>3. ASSUME NEW json \in Frames  PROVE R[json] = Step(R, json)
  <2> DEFINE n == Len(Calls(json))
  <2>1. \A i \in 1 .. n : R[Calls(json)[i]] = Rebuilt(flatten_call_frame[Calls(json)[i]][0 + 1])
    BY <1>1, AnyDepth
  <2>2. R[json] = Calling(json, n) \cup Below(json, 0, n)
    BY AllRooted
  <2> HIDE DEF R, n
  <2>3. Below(json, 0, n) = UNION {R[Calls(json)[i]] : i \in 1 .. n}
    BY <2>1 DEF Below
  <2> QED  BY <2>2, <2>3 DEF n
<1>4. Obeys(R)
  <2>1. R = [json \in Frames |-> R[json]]
    OBVIOUS
  <2> HIDE DEF R, Step
  <2> QED  BY <1>3, <2>1
<1>5. Obeys(Edges)
  <2> HIDE DEF Obeys, R
  <2> QED  BY <1>2, <1>4
<1> HIDE DEF R
<1> DEFINE E == Edges
<1> HIDE DEF E
<1>6. \A json \in Frames : E[json] = Step(E, json)
  <2>1. E = [json \in Frames |-> Step(E, json)]
    BY <1>5 DEF E
  <2> HIDE DEF Step
  <2> QED  BY <2>1
<1> DEFINE P == {json \in Frames : E[json] = R[json]}
<1>7. ASSUME NEW json \in Frames, \A i \in DOMAIN Calls(json) : Calls(json)[i] \in P  PROVE json \in P
  <2>1. \A i \in 1 .. Len(Calls(json)) : E[Calls(json)[i]] = R[Calls(json)[i]]
    BY <1>1, <1>7
  <2>2. Step(E, json) = Step(R, json)
    BY <2>1
  <2> HIDE DEF Step
  <2>3. E[json] = R[json]
    BY <1>3, <1>6, <2>2
  <2> QED  BY <2>3
<1>8. \A json \in Frames : json \in P
  <2> HIDE DEF P
  <2> QED  BY <1>7, FrameInduct
<1> QED  BY <1>8 DEF E, R

\* Every element of a is in a whole copy of s, behind which another begins or
\* a ends.
CopyAt(a, s, o) ==
  /\ o \in Nat /\ o + Len(s) <= Len(a)
  /\ \A y \in 1 .. Len(s) : a[o + y] = s[y]
  /\ o + Len(s) = Len(a) \/ a[o + Len(s) + 1] = s[1]
Cyclic(a, s) == \A x \in 1 .. Len(a) : \E o \in Nat : CopyAt(a, s, o) /\ o < x /\ x <= o + Len(s)

\* One more copy.
LEMMA CyclicGrows ==
  ASSUME NEW S, NEW a \in Seq(S), NEW s \in Seq(S), s # <<>>, Cyclic(a, s)
  PROVE  Cyclic(a \o s, s)
<1> DEFINE b == a \o s
           m == Len(a)
           n == Len(s)
<1>1. m \in Nat /\ n \in Nat /\ n # 0
  BY LenProperties, EmptySeq
<1>2. Len(b) = m + n /\ \A i \in 1 .. m + n : b[i] = IF i <= m THEN a[i] ELSE s[i - m]
  BY ConcatProperties
<1> HIDE DEF b, m, n
<1>3. ASSUME NEW i \in 1 .. m  PROVE b[i] = a[i]
  <2>1. i \in 1 .. m + n /\ i <= m
    BY <1>1
  <2> QED  BY <1>2, <2>1
<1>4. ASSUME NEW y \in 1 .. n  PROVE b[m + y] = s[y]
  <2> DEFINE i == m + y
  <2>1. i \in 1 .. m + n /\ ~(i <= m) /\ i - m = y
    BY <1>1
  <2> HIDE DEF i
  <2>2. b[i] = s[i - m]
    BY <1>2, <2>1
  <2> QED  BY <2>1, <2>2 DEF i
<1>5. CopyAt(b, s, m)
  BY <1>1, <1>2, <1>4 DEF CopyAt, n
<1>6. ASSUME NEW o \in Nat, CopyAt(a, s, o)  PROVE CopyAt(b, s, o)
  <2>1. /\ o + n <= m /\ \A y \in 1 .. n : a[o + y] = s[y]
        /\ o + n = m \/ a[o + n + 1] = s[1]
    BY <1>6 DEF CopyAt, m, n
  <2>2. ASSUME NEW y \in 1 .. n  PROVE b[o + y] = s[y]
    <3>1. o + y \in 1 .. m
      BY <1>1, <2>1
    <3> QED  BY <1>3, <2>1, <3>1
  <2>3. b[o + n + 1] = s[1]
    <3>1. CASE o + n = m
      <4>1. 1 \in 1 .. n
        BY <1>1
      <4>2. b[m + 1] = s[1]
        BY <1>4, <4>1
      <4> QED  BY <3>1, <4>2
    <3>2. CASE o + n # m
      <4>1. o + n + 1 \in 1 .. m
        BY <1>1, <2>1, <3>2
      <4> QED  BY <1>3, <2>1, <3>2, <4>1
    <3> QED  BY <3>1, <3>2
  <2>4. o + n <= m + n
    BY <1>1, <2>1
  <2> QED  BY <1>2, <2>2, <2>3, <2>4 DEF CopyAt, n
<1>7. ASSUME NEW x \in 1 .. m + n  PROVE \E o \in Nat : CopyAt(b, s, o) /\ o < x /\ x <= o + n
  <2>1. CASE x <= m
    <3>1. x \in 1 .. m
      BY <1>1, <2>1
    <3>2. PICK o \in Nat : CopyAt(a, s, o) /\ o < x /\ x <= o + n
      BY <3>1 DEF Cyclic, m, n
    <3> QED  BY <1>6, <3>2
  <2>2. CASE ~(x <= m)
    <3>1. m < x /\ x <= m + n
      BY <1>1, <2>2
    <3> QED  BY <1>1, <1>5, <3>1
  <2> QED  BY <2>1, <2>2
<1>8. Cyclic(b, s)
  BY <1>2, <1>7 DEF Cyclic, n
<1> QED  BY <1>8 DEF b

\* The rows of a transaction are copies of its trace.
LEMMA RepeatsCyclic ==
  ASSUME NEW S, NEW s \in Seq(S), s # <<>>, NEW a \in Repeats(s)
  PROVE  Cyclic(a, s)
<1>0. /\ \A k \in Nat : Times(k, s) \in Seq(S) /\ Times(k + 1, s) = Times(k, s) \o s
      /\ Times(0, s) = <<>>
  <2>1. [i \in 1 .. 0 |-> s] = <<>>
    OBVIOUS
  <2> QED  BY <2>1, RepeatsGrow, FlattenAppend DEF Times
<1> DEFINE P == {k \in Nat : Cyclic(Times(k, s), s)}
<1>1. 0 \in P
  <2>1. Len(<<>>) = 0 /\ 1 .. 0 = {}
    BY EmptySeq
  <2>2. Cyclic(<<>>, s)
    BY <2>1 DEF Cyclic
  <2> QED  BY <1>0, <2>2
<1>2. ASSUME NEW k \in Nat, k \in P  PROVE k + 1 \in P
  <2> DEFINE t == Times(k, s)
  <2>1. t \in Seq(S) /\ Times(k + 1, s) = t \o s /\ Cyclic(t, s)
    BY <1>0, <1>2
  <2> HIDE DEF t
  <2>2. Cyclic(t \o s, s)
    BY <2>1, CyclicGrows
  <2> DEFINE u == Times(k + 1, s)
  <2>3. u = t \o s
    BY <2>1
  <2> HIDE DEF u
  <2>4. Cyclic(u, s)
    BY <2>2, <2>3
  <2> QED  BY <2>4 DEF u
<1>3. \A k \in Nat : k \in P
  <2> HIDE DEF P
  <2> QED  BY <1>1, <1>2, Induct
<1>4. PICK k \in Nat : a = Times(k, s)
  BY DEF Repeats
<1> QED  BY <1>3, <1>4

\* What is between one root and the next is one copy.
LEMMA CopiesAre ==
  ASSUME NEW a \in Seq(FrameRows), NEW s \in Seq(FrameRows), Cyclic(a, s), Len(s) \in Nat \ {0},
         s[1].depth = 0, \A y \in 2 .. Len(s) : s[y].depth # 0,
         NEW rows \in Copies(a)
  PROVE  rows = s
<1> DEFINE m == Len(a)
           n == Len(s)
<1>1. m \in Nat /\ n \in Nat \ {0} /\ DOMAIN a = 1 .. m
  BY LenProperties
<1>2. PICK i \in DOMAIN a : rows \in {SubSeq(a, i, j) : j \in {j \in i .. Len(a) : Copy(a, i, j)}}
  BY DEF Copies
<1>3. PICK j \in i .. m : Copy(a, i, j) /\ rows = SubSeq(a, i, j)
  BY <1>2
<1>4. i \in 1 .. m /\ j \in 1 .. m
  BY <1>1, <1>2, <1>3
<1>5. PICK o \in Nat : CopyAt(a, s, o) /\ o < i /\ i <= o + n
  BY <1>4 DEF Cyclic
<1>6. /\ o + n <= m /\ \A y \in 1 .. n : a[o + y] = s[y]
      /\ o + n = m \/ a[o + n + 1] = s[1]
  BY <1>5 DEF CopyAt
<1>7. /\ \A k \in i .. j : a[k].depth = 0 <=> k = i
      /\ j = m \/ a[j + 1].depth = 0
  BY <1>3 DEF Copy
<1> HIDE DEF m, n
<1>n. s[1].depth = 0 /\ \A y \in 2 .. n : s[y].depth # 0
  BY DEF n
<1>8. i = o + 1
  <2> SUFFICES ASSUME i # o + 1  PROVE FALSE
    OBVIOUS
  <2> DEFINE y == i - o
  <2>1. y \in 2 .. n /\ y \in 1 .. n /\ i = o + y
    BY <1>1, <1>4, <1>5
  <2> HIDE DEF y
  <2>2. a[i] = s[y]
    BY <1>6, <2>1
  <2>3. a[i].depth = 0
    <3>1. i \in i .. j
      BY <1>3, <1>4
    <3> QED  BY <1>7, <3>1
  <2> QED  BY <1>n, <2>1, <2>2, <2>3
<1>9. ~(j > o + n)
  <2> SUFFICES ASSUME j > o + n  PROVE FALSE
    OBVIOUS
  <2>1. o + n # m /\ o + n + 1 \in i .. j /\ o + n + 1 # i
    BY <1>1, <1>4, <1>8
  <2>2. a[o + n + 1].depth = 0
    BY <1>6, <1>n, <2>1
  <2> QED  BY <1>7, <2>1, <2>2
<1>10. ~(j < o + n)
  <2> SUFFICES ASSUME j < o + n  PROVE FALSE
    OBVIOUS
  <2> DEFINE y == j + 1 - o
  <2>1. y \in 2 .. n /\ y \in 1 .. n /\ j + 1 = o + y /\ j # m
    BY <1>1, <1>3, <1>4, <1>6, <1>8
  <2> HIDE DEF y
  <2>2. a[j + 1] = s[y]
    BY <1>6, <2>1
  <2> QED  BY <1>7, <1>n, <2>1, <2>2
<1>11. j = o + n
  BY <1>1, <1>4, <1>9, <1>10
<1>12. rows = SubSeq(a, o + 1, o + n)
  BY <1>3, <1>8, <1>11
<1>13. \A k \in o + 1 .. o + n : a[k] \in FrameRows
  <2>1. \A k \in o + 1 .. o + n : k \in 1 .. m
    BY <1>1, <1>6
  <2> QED  BY <2>1, ElementOfSeq DEF m
<1>14. /\ rows \in Seq(FrameRows)
       /\ Len(rows) = n
       /\ \A k \in 1 .. n : rows[k] = s[k]
  <2> DEFINE p == o + 1
             q == o + n
  <2>1. p \in Int /\ q \in Int /\ p <= q /\ q - p + 1 = n
    BY <1>1
  <2>2. \A k \in p .. q : a[k] \in FrameRows
    BY <1>13
  <2>3. rows = SubSeq(a, p, q)
    BY <1>12
  <2>p. \A k \in 1 .. n : p + k - 1 = o + k
    BY <1>1
  <2> HIDE DEF p, q
  <2>4. /\ rows \in Seq(FrameRows)
        /\ Len(rows) = IF p <= q THEN q - p + 1 ELSE 0
        /\ \A k \in 1 .. q - p + 1 : rows[k] = a[p + k - 1]
    BY <2>1, <2>2, <2>3, SubSeqProperties
  <2>5. ASSUME NEW k \in 1 .. n  PROVE rows[k] = s[k]
    <3>1. rows[k] = a[p + k - 1]
      BY <2>1, <2>4
    <3>2. p + k - 1 = o + k
      BY <2>p
    <3> QED  BY <1>6, <3>1, <3>2
  <2> QED  BY <2>1, <2>4, <2>5
<1> QED  BY <1>14, SeqEqual DEF n

-----------------------------------------------------------------------------
(* The invariant *)

\* A step of the API leaves the tables alone and keeps the request in shape.
LEMMA ApiKeeps ==
  ASSUME IInv, ApiNext
  PROVE  IInv'
<1>1. WriterOK /\ ReqOK
  BY DEF IInv, ReqOK
<1>2. UNCHANGED writerVars
  BY DEF ApiNext, GetFailed, AskList, GetTree, GetCause, ListRows, ListTotal
<1>3. WriterOK'
  BY <1>1, <1>2, WriterKeeps
<1>4. ReqOK'
  <2>1. CASE \E h \in Hashes : GetFailed(h)
    BY <1>1, <2>1, GetFailedKeeps
  <2>2. CASE \E q \in Queries : AskList(q)
    BY <1>1, <2>2, AskListKeeps
  <2>3. CASE GetTree
    BY <1>1, <2>3, GetTreeKeeps
  <2>4. CASE GetCause
    BY <1>1, <2>4, GetCauseKeeps
  <2>5. CASE ListRows
    BY <1>1, <2>5, ListRowsKeeps
  <2>6. CASE ListTotal
    BY <1>1, <2>6, ListTotalKeeps
  <2> QED  BY <2>1, <2>2, <2>3, <2>4, <2>5, <2>6 DEF ApiNext
<1> QED  BY <1>3, <1>4 DEF IInv, ReqOK

\* The invariant is inductive: it holds at the start, and every step of the
\* indexer, of a rollback, a restart or a request keeps it.
LEMMA Inductive == Spec => []IInv
<1>1. Init => IInv
  <2> SUFFICES ASSUME Init  PROVE IInv
    OBVIOUS
  <2>1. WriterOK
    BY WriterStarts DEF Init
  <2>2. ReqTyped /\ DetailOK /\ ListOK
    BY DEF Init, ReqTyped, DetailOK, ListOK, NoAnswer
  <2> QED  BY <2>1, <2>2 DEF IInv
<1>2. IInv /\ [Next]_vars => IInv'
  <2> SUFFICES ASSUME IInv, [Next]_vars  PROVE IInv'
    OBVIOUS
  <2>1. WriterOK /\ ReqOK
    BY DEF IInv, ReqOK
  <2>2. CASE WriterNext /\ Disturb
    <3>1. WriterOK' /\ ReqOK'
      <4>1. WriterOK'
        BY <2>1, <2>2, WriterKeeps
      <4> QED  BY <2>1, <2>2, <4>1, DisturbKeeps
    <3> QED  BY <3>1 DEF IInv, ReqOK
  <2>3. CASE ApiNext
    BY <2>3, ApiKeeps
  <2>4. CASE UNCHANGED vars
    <3>1. Disturb /\ UNCHANGED writerVars
      BY <2>4 DEF vars, writerVars, tables, Disturb, Calm
    <3>2. WriterOK' /\ ReqOK'
      <4>1. WriterOK'
        BY <2>1, <3>1, WriterKeeps
      <4> QED  BY <2>1, <3>1, <4>1, DisturbKeeps
    <3> QED  BY <3>2 DEF IInv, ReqOK
  <2> QED  BY <2>2, <2>3, <2>4 DEF Next
<1> QED  BY <1>1, <1>2, PTL DEF Spec

-----------------------------------------------------------------------------
(* Theorems *)

\* Tables and answers have their types, failed_transaction has one row for a
\* transaction, and no answer more than MAX_CALL_TREE_FRAMES frames.
THEOREM TypeCorrect == Spec => []TypeOK
<1>1. IInv => TypeOK
  <2> SUFFICES ASSUME IInv  PROVE TypeOK
    OBVIOUS
  <2>1. WriterOK /\ DetailOK
    BY DEF IInv
  <2>2. task \in [Blocks -> ToSet(Steps)] /\ triggers \in BOOLEAN
    BY <2>1 DEF WriterOK, TasksOK
  <2>3. (req.kind = "detail" /\ req.at # "tree") => Len(req.tree) <= MaxFrames
    BY <2>1 DEF DetailOK
  <2> QED  BY <2>1, <2>2, <2>3, TablesTyped DEF TypeOK
<1> QED  BY <1>1, Inductive, PTL

\* insert_trace_logs before insert_failed_transactions, both gone after a
\* rollback: whoever finds a failure finds frames of its call tree, unless what
\* is found is the stub of trg_transaction_check_failed.
THEOREM FramesComeFirst == Spec => []FramesPrecedeFailure
<1>1. IInv => FramesPrecedeFailure
  BY DEF IInv, WriterOK
<1> QED  BY <1>1, Inductive, PTL

\* What an earlier attempt at a block left in the tables fails no statement of
\* a later attempt: only a block whose own data are refused is refused.
THEOREM RetriesGoThrough == Spec => []RetryGoesThrough
<1>1. IInv => RetryGoesThrough
  BY RefusedIsPoison DEF IInv
<1> QED  BY <1>1, Inductive, PTL

\* When a block is done, after any attempts at it and whatever was rolled back
\* above it, each transaction it got a trace of has frames and a failure: the
\* one that was classified, or a stub if the trigger was there before it.
THEOREM TracedStored == Spec => []TracedIsStored
<1>1. IInv => TracedIsStored
  <2> SUFFICES ASSUME IInv, NEW b \in Done, NEW r \in TracedIn(b)
               PROVE  /\ TreeRows(r.tx) # <<>>
                      /\ \E f \in failed : f = FailedRow(b, r) \/ (triggers /\ f = Stub(r.tx, b))
    BY DEF TracedIsStored
  <2>1. WriterOK /\ b \in Blocks /\ task[b] = "done" /\ r \in OnChain(b) /\ r.tx \notin lost[b]
    BY DEF IInv, Done, TracedIn, OnChain
  <2>2. Held(r.tx)
    BY <2>1 DEF WriterOK, Finished
  <2>3. PICK f \in failed : f.tx = r.tx
    BY <2>2 DEF Held
  <2>4. f.timestamp \in Blocks
    BY <2>1, FailureIs
  <2>5. PICK x \in ToSet(receipts[f.timestamp]) :
          x.tx = f.tx /\ (f = FailedRow(f.timestamp, x) \/ (triggers /\ f = Stub(x.tx, f.timestamp)))
    BY <2>1, FailureIs
  <2>6. receipts \in Worlds /\ r \in ToSet(receipts[b])
    BY <2>1 DEF WriterOK, TasksOK, OnChain
  <2>7. f.timestamp = b /\ x = r
    BY <2>1, <2>3, <2>4, <2>5, <2>6, OneReceipt
  <2> QED  BY <2>2, <2>5, <2>7 DEF Held
<1> QED  BY <1>1, Inductive, PTL

\* get_first_error_frame finds the first frame with an error of the very call
\* tree in the answer: the root, which is shown however small the tree is cut,
\* and stays the first when frames are added between the two queries.
THEOREM CauseIsInTree == Spec => []CauseInTree
<1>1. IInv => CauseInTree
  <2> SUFFICES ASSUME IInv, DetailDone
               PROVE  IF req.tree = <<>> THEN ~req.grown => req.cause = Absent
                      ELSE \E i \in DOMAIN req.tree :
                             /\ req.tree[i] = req.cause
                             /\ req.tree[i].error
                             /\ \A j \in 1 .. i - 1 : ~req.tree[j].error
    BY DEF CauseInTree
  <2>1. WriterOK /\ ReqTyped /\ DetailOK /\ req.kind = "detail" /\ req.at = "done"
    BY DEF IInv, DetailDone
  <2>2. req \in DetailAnswers
    BY <2>1, ReqShape
  <2>3. req.tree \in Seq(FrameRows)
    BY <2>2 DEF DetailAnswers
  <2> DEFINE tx == req.tx
             tree == req.tree
  <2>4. req.cause = get_first_error_frame(tx) /\ FirstKept(tx, tree)
    BY <2>1, <2>3 DEF DetailOK
  <2>5. ASSUME tree = <<>>, ~req.grown  PROVE req.cause = Absent
    <3>1. tree = Shown(Asked(tx))
      BY <2>1, <2>5 DEF DetailOK
    <3>2. /\ TreeRows(tx) \in Seq(LogRows)
          /\ Len(Shown(Asked(tx))) = IF MaxFrames <= Len(TreeRows(tx)) THEN MaxFrames ELSE Len(TreeRows(tx))
      BY <2>1, ShownAre
    <3>3. Len(Shown(Asked(tx))) = 0 /\ MaxFrames \in Nat \ {0}
      BY <2>5, <3>1, EmptySeq, ApiAssumption
    <3>4. Len(TreeRows(tx)) = 0
      BY <3>2, <3>3
    <3>5. TreeRows(tx) = <<>>
      BY <3>2, <3>4, EmptySeq
    <3> QED  BY <2>4, <3>5, NoCause
  <2>6. ASSUME tree # <<>>
        PROVE  \E i \in DOMAIN tree :
                 /\ tree[i] = req.cause
                 /\ tree[i].error
                 /\ \A j \in 1 .. i - 1 : ~tree[j].error
    <3>1. TreeRows(tx) # <<>> /\ tree[1] = TreeRows(tx)[1].frame
      BY <2>4, <2>6 DEF FirstKept
    <3>2. TreeRows(tx)[1].frame.error /\ get_first_error_frame(tx) = TreeRows(tx)[1].frame
      BY <2>1, <3>1, CauseIsRoot
    <3>3. 1 \in DOMAIN tree
      <4>1. Len(tree) \in Nat \ {0} /\ DOMAIN tree = 1 .. Len(tree)
        BY <2>3, <2>6, EmptySeq, LenProperties
      <4> QED  BY <4>1
    <3>4. tree[1] = req.cause /\ tree[1].error /\ \A j \in 1 .. 1 - 1 : ~tree[j].error
      BY <2>4, <3>1, <3>2
    <3> QED  BY <3>3, <3>4
  <2> QED  BY <2>5, <2>6
<1> QED  BY <1>1, Inductive, PTL

\* A client that follows the pages while nothing is written is given as many
\* rows as the total says, and every one of them if no two are of one block.
THEOREM PagesAreComplete == Spec => []PagesComplete
<1>1. IInv => PagesComplete
  <2> SUFFICES ASSUME IInv, req.kind = "list", req.at = "done"
               PROVE  /\ Len(req.seen) = Cardinality(Matches(req.q))
                      /\ Apart(Matches(req.q)) => ToSet(req.seen) = Matches(req.q)
    BY DEF PagesComplete, Apart
  <2> DEFINE S == Matches(req.q)
             n == Cardinality(S)
             seen == req.seen
  <2>1. WriterOK /\ ReqTyped /\ ListOK
    BY DEF IInv
  <2>2. req \in ListAnswers
    BY <2>1, ReqShape
  <2>3. seen \in Seq(FailedRows)
    BY <2>2 DEF ListAnswers
  <2>4. SeenOK(req.at, seen, req.offset, LimitOf(req.q), n) /\ (Apart(S) => Ranked(seen, S))
    BY <2>1, <2>3 DEF ListOK
  <2>5. Len(seen) = n
    BY <2>4 DEF SeenOK
  <2>6. IsFiniteSet(S) /\ n \in Nat
    BY <2>1, MatchesAre
  <2>7. DOMAIN seen = 1 .. n
    BY <2>3, <2>5, LenProperties
  <2> HIDE DEF S, n, seen
  <2>8. ASSUME Apart(S)  PROVE ToSet(seen) = S
    <3>1. \A i \in 1 .. n : seen[i] \in S /\ Cardinality(Before(S, seen[i])) = i - 1
      BY <2>4, <2>5, <2>8 DEF Ranked
    <3> DEFINE T == {seen[i] : i \in 1 .. n}
               g == [i \in 1 .. n |-> seen[i]]
    <3>2. T \subseteq S
      BY <3>1
    <3>3. g \in Bijection(1 .. n, T)
      <4>1. \A i, j \in 1 .. n : g[i] = g[j] => i = j
        BY <2>6, <3>1
      <4>2. g \in [1 .. n -> T] /\ \A t \in T : \E i \in 1 .. n : g[i] = t
        OBVIOUS
      <4> HIDE DEF T, g
      <4>3. g \in Injection(1 .. n, T) /\ g \in Surjection(1 .. n, T)
        BY <4>1, <4>2 DEF Injection, Surjection, IsInjective
      <4> QED  BY <4>3 DEF Bijection
    <3>4. IsFiniteSet(1 .. n) /\ Cardinality(1 .. n) = n
      BY <2>6, FS_Interval
    <3>5. Cardinality(T) = n
      <4> HIDE DEF T, g
      <4>1. ExistsBijection(1 .. n, T)
        BY <3>3 DEF ExistsBijection
      <4> QED  BY <3>4, <4>1, FS_Bijection
    <3>6. T = S
      <4> HIDE DEF T
      <4> QED  BY <2>6, <3>2, <3>5, FS_Subset DEF n
    <3> QED  BY <2>7, <3>6 DEF ToSet
  <2> QED  BY <2>5, <2>8 DEF S, n, seen
<1> QED  BY <1>1, Inductive, PTL

\* The call tree in an answer is the whole of the transaction's rows unless it
\* is marked truncated, and then every copy of the trace in it, one for each
\* attempt at the block, gives back the tree that debug_traceTransaction found.
THEOREM TreeIsFaithful == Spec => []TreeFaithful
<1>1. IInv => TreeFaithful
  <2> SUFFICES ASSUME IInv, DetailAtRest
               PROVE  /\ req.truncated <=> Len(req.tree) < Len(TreeRows(req.tx))
                      /\ ~req.truncated =>
                           \A rows \in Copies(req.tree) :
                             /\ Rebuilt(rows) = Edges[TraceOf(req.tx)]
                             /\ \A i \in DOMAIN rows : rows[i].depth = 0 => rows[i].id = TraceOf(req.tx).id
    BY DEF TreeFaithful
  <2>1. WriterOK /\ ReqTyped /\ DetailOK /\ req.kind = "detail" /\ req.at = "done" /\ ~req.grown
    BY DEF IInv, DetailAtRest, DetailDone
  <2> DEFINE tx == req.tx
             a == TreeRows(tx)
             tree == req.tree
  <2>2. tree = Shown(Asked(tx)) /\ req.truncated = (Len(Asked(tx)) > MaxFrames)
    BY <2>1 DEF DetailOK
  <2>3. /\ a \in Seq(LogRows)
        /\ Len(Asked(tx)) = IF MaxFrames + 1 <= Len(a) THEN MaxFrames + 1 ELSE Len(a)
        /\ tree \in Seq(FrameRows)
        /\ Len(tree) = IF MaxFrames <= Len(a) THEN MaxFrames ELSE Len(a)
        /\ \A i \in 1 .. Len(tree) : tree[i] = a[i].frame
    BY <2>1, <2>2, ShownAre
  <2>4. MaxFrames \in Nat /\ Len(a) \in Nat /\ Len(tree) \in Nat
    BY <2>3, LenProperties, ApiAssumption
  <2>5. req.truncated <=> Len(tree) < Len(a)
    <3>1. req.truncated <=> Len(Asked(tx)) > MaxFrames
      BY <2>2
    <3> DEFINE l == Len(a)
               n == Len(tree)
               k == Len(Asked(tx))
    <3>2. /\ l \in Nat /\ n \in Nat /\ MaxFrames \in Nat
          /\ k = IF MaxFrames + 1 <= l THEN MaxFrames + 1 ELSE l
          /\ n = IF MaxFrames <= l THEN MaxFrames ELSE l
      BY <2>3, <2>4
    <3> HIDE DEF l, n, k
    <3>3. k > MaxFrames <=> n < l
      BY <3>2
    <3> QED  BY <3>1, <3>3 DEF l, n, k
  \* Without rows there is nothing to rebuild.
  <2>6. ASSUME a = <<>>  PROVE Copies(tree) = {}
    <3>1. Len(a) = 0
      BY <2>6, EmptySeq
    <3> DEFINE n == Len(tree)
    <3>2. n \in Nat /\ n <= 0
      BY <2>3, <2>4, <3>1
    <3> HIDE DEF n
    <3>3. n = 0
      BY <3>2
    <3>4. tree = <<>>
      BY <2>3, <3>3, EmptySeq DEF n
    <3>5. DOMAIN tree = {}
      BY <3>4
    <3> QED  BY <3>5 DEF Copies
  <2> SUFFICES ASSUME a # <<>>
               PROVE  ~req.truncated =>
                        \A rows \in Copies(tree) :
                          /\ Rebuilt(rows) = Edges[TraceOf(tx)]
                          /\ \A i \in DOMAIN rows : rows[i].depth = 0 => rows[i].id = TraceOf(tx).id
    BY <2>5, <2>6
  \* The receipt the rows are of.
  <2>7. PICK b \in Blocks : \E r \in OnChain(b) : r.tx = tx /\ a \in Repeats(LogsOf(r))
    BY <2>1, TreeOf
  <2>8. PICK r \in OnChain(b) : r.tx = tx /\ a \in Repeats(LogsOf(r))
    BY <2>7
  <2>9. r \in Parsed /\ r \in ToSet(receipts[b])
    BY DEF OnChain
  <2>10. TraceOf(tx) = r.trace
    <3> DEFINE U == UNION {ToSet(receipts[c]) : c \in Blocks}
    <3>1. r \in U /\ r.tx = tx
      BY <2>8, <2>9
    <3>2. ASSUME NEW x \in U, x.tx = tx  PROVE x = r
      <4>1. PICK c \in Blocks : x \in ToSet(receipts[c])
        OBVIOUS
      <4>2. receipts \in Worlds
        BY <2>1 DEF WriterOK, TasksOK
      <4> QED  BY <2>8, <2>9, <3>2, <4>1, <4>2, OneReceipt
    <3> HIDE DEF U
    <3>3. (CHOOSE x \in U : x.tx = tx) = r
      BY <3>1, <3>2
    <3>4. TraceOf(tx) = (CHOOSE x \in U : x.tx = tx).trace
      BY DEF TraceOf, U
    <3> QED  BY <3>3, <3>4
  <2> DEFINE s == LogsOf(r)
             F == FramesOf[r]
  <2>11. /\ r.trace \in Frames
         /\ F = flatten_call_frame[r.trace][0]
         /\ F \in Seq(FrameRows) /\ Len(F) \in Nat \ {0}
         /\ F[1].depth = 0 /\ F[1].id = r.trace.id
         /\ \A i \in 2 .. Len(F) : F[i].depth # 0
    BY <2>9, FramesShape
  <2>12. /\ s \in Seq(LogRows) /\ Len(s) = Len(F) /\ s # <<>>
         /\ \A i \in 1 .. Len(F) : s[i] = [tx |-> r.tx, frame |-> F[i]]
    BY <2>9, LogsShape
  <2> HIDE DEF s, F, a, tree
  <2>13. Cyclic(a, s)
    BY <2>8, <2>12, RepeatsCyclic DEF s
  <2>14. ASSUME ~req.truncated  PROVE Cyclic(tree, F)
    <3>1. Len(tree) = Len(a)
      BY <2>3, <2>4, <2>5, <2>14
    <3>2. ASSUME NEW i \in 1 .. Len(F)  PROVE s[i].frame = F[i]
      <4>1. s[i] = [tx |-> r.tx, frame |-> F[i]]
        BY <2>12
      <4> QED  BY <4>1
    <3>3. ASSUME NEW o \in Nat, CopyAt(a, s, o)  PROVE CopyAt(tree, F, o)
      <4>1. /\ o + Len(F) <= Len(a) /\ \A y \in 1 .. Len(F) : a[o + y] = s[y]
            /\ o + Len(F) = Len(a) \/ a[o + Len(F) + 1] = s[1]
        BY <2>12, <3>3 DEF CopyAt
      <4>2. ASSUME NEW y \in 1 .. Len(F)  PROVE tree[o + y] = F[y]
        <5>1. o + y \in 1 .. Len(tree)
          BY <2>4, <2>11, <3>1, <4>1
        <5>2. tree[o + y] = a[o + y].frame
          BY <2>3, <5>1
        <5> QED  BY <3>2, <4>1, <5>2
      <4>3. ASSUME o + Len(F) # Len(a)  PROVE tree[o + Len(F) + 1] = F[1]
        <5>1. o + Len(F) + 1 \in 1 .. Len(tree) /\ 1 \in 1 .. Len(F)
          BY <2>4, <2>11, <3>1, <4>1, <4>3
        <5>2. tree[o + Len(F) + 1] = a[o + Len(F) + 1].frame
          BY <2>3, <5>1
        <5> QED  BY <3>2, <4>1, <4>3, <5>1, <5>2
      <4> QED  BY <3>1, <4>1, <4>2, <4>3 DEF CopyAt
    <3> QED  BY <2>12, <2>13, <3>1, <3>3 DEF Cyclic
  <2>15. ASSUME ~req.truncated, NEW rows \in Copies(tree)
         PROVE  /\ Rebuilt(rows) = Edges[r.trace]
                /\ \A i \in DOMAIN rows : rows[i].depth = 0 => rows[i].id = r.trace.id
    <3>1. rows = F
      BY <2>3, <2>11, <2>14, <2>15, CopiesAre
    <3>2. Rebuilt(F) = Edges[r.trace]
      BY <2>11, EdgesRebuilt
    <3>3. ASSUME NEW i \in DOMAIN F, F[i].depth = 0  PROVE F[i].id = r.trace.id
      <4>1. DOMAIN F = 1 .. Len(F)
        BY <2>11, LenProperties
      <4>2. i = 1
        BY <2>11, <3>3, <4>1
      <4> QED  BY <2>11, <4>2
    <3> QED  BY <3>1, <3>2, <3>3
  <2> QED  BY <2>10, <2>15
<1> QED  BY <1>1, Inductive, PTL
=============================================================================
