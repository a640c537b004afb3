------------------------ MODULE ReflectionCodecProofs ------------------------
(***************************************************************************)
(* The reader of ReflectionCodec takes what the writer makes, for every    *)
(* reflection and every length at which the blob may be cut.  A reader is  *)
(* described by what it makes of a blob that has, from a position on, the  *)
(* values of one written record as far as the blob goes: a failure, if the *)
(* record is outside the limits or not all there, else the record (Out).  *)
(***************************************************************************)
EXTENDS ReflectionCodec, SequenceTheorems, WellFoundedInduction, TLAPS

\* The fields S of a record, and the records that have the fields of a list.
Part(x, S) == [f \in S |-> x[f]]
HasFields(x, names) == x = Part(x, Range(names))

IsSeq(w) == w \in Seq(Range(w))

\* The blob has w after a position, as far as it goes.
Holds(blob, at, w) == \A i \in 1 .. Len(w) : at + i <= Len(blob) => blob[at + i] = w[i]

\* What the reader of w makes of it, w having been written for x.
Out(blob, at, w, x) == IF at + Len(w) <= Len(blob) THEN Good(at + Len(w), x) ELSE Failed
------------------------------------------------------------------------------
(* Sequences.                                                              *)

\* Induction over the numbers, for a set: what has 0 and each successor of a
\* number of its own has all of them.
LEMMA SetInduction ==
  ASSUME NEW S, 0 \in S, \A n \in Nat : n \in S => n + 1 \in S
  PROVE  \A n \in Nat : n \in S
PROOF
  <1> DEFINE T == Nat \ S
             R == OpToRel(<, Nat)
  <1> SUFFICES ASSUME T # {} PROVE FALSE  OBVIOUS
  <1>1. IsWellFoundedOn(R, Nat)  BY NatLessThanWellFounded
  <1>2. \A ss \in Nat \X Nat : ss \in R <=> ss[1] < ss[2]  BY DEF OpToRel
  <1>3. T \subseteq Nat  OBVIOUS
  <1> HIDE DEF R, T
  <1>4. PICK x \in T : \A y \in T : <<y, x>> \notin R  BY <1>1, <1>3, WFMin, Zenon
  <1> USE DEF T
  <1>5. x # 0 /\ x \in Nat  BY <1>4
  <1>6. x - 1 \in Nat /\ x - 1 \notin S  BY <1>5, <1>4
  <1>7. <<x - 1, x>> \in R  BY <1>5, <1>6, <1>2
  <1> QED  BY <1>4, <1>6, <1>7

\* A function on 1 .. n is a sequence of length n.
LEMMA LenOfFunction ==
  ASSUME NEW n \in Nat, NEW f, f = [i \in 1 .. n |-> f[i]]
  PROVE  Len(f) = n
PROOF
  <1> DEFINE S == {f[i] : i \in 1 .. n}
  <1>1. f \in [1 .. n -> S]  OBVIOUS
  <1>2. f \in Seq(S)  BY <1>1, SeqDef
  <1> HIDE DEF S
  <1> QED  BY <1>1, <1>2, LenProperties

\* A function on 1 .. n, as a sequence of its own values.
LEMMA FunctionIsSeq ==
  ASSUME NEW n \in Nat, NEW f, f = [i \in 1 .. n |-> f[i]]
  PROVE  IsSeq(f) /\ Len(f) = n
PROOF
  <1>1. f \in [1 .. n -> Range(f)]  BY DEF Range
  <1>2. f \in Seq(Range(f))  BY <1>1, SeqDef
  <1> QED  BY <1>2, LenOfFunction DEF IsSeq

LEMMA SeqLen ==
  ASSUME NEW w, IsSeq(w)
  PROVE  Len(w) \in Nat /\ DOMAIN w = 1 .. Len(w)
PROOF
  BY LenProperties DEF IsSeq

\* The first value that a blob holds.
LEMMA HoldsFirst ==
  ASSUME NEW blob, NEW at \in Nat, NEW w, Len(w) \in Nat \ {0}, Holds(blob, at, w), at + 1 <= Len(blob)
  PROVE  blob[at + 1] = w[1]
PROOF
  <1>1. 1 \in 1 .. Len(w)  OBVIOUS
  <1> QED  BY <1>1 DEF Holds

\* A concatenation, value by value.
LEMMA ConcatValues ==
  ASSUME NEW u, NEW v, IsSeq(u), IsSeq(v)
  PROVE  /\ IsSeq(u \o v)
         /\ Len(u \o v) = Len(u) + Len(v)
         /\ \A i \in 1 .. Len(u) : (u \o v)[i] = u[i]
         /\ \A i \in 1 .. Len(v) : (u \o v)[Len(u) + i] = v[i]
PROOF
  <1> DEFINE S == Range(u) \cup Range(v)
  <1>1. Range(u) \subseteq S /\ Range(v) \subseteq S  OBVIOUS
  <1> HIDE DEF S
  <1>2. u \in Seq(S) /\ v \in Seq(S)  BY <1>1, SeqDef DEF IsSeq
  <1>3. u \o v \in Seq(S)  BY <1>2, ConcatProperties
  <1>4. Len(u \o v) = Len(u) + Len(v)  BY <1>2, ConcatProperties
  <1>5. \A i \in 1 .. Len(u) + Len(v) :
          (u \o v)[i] = IF i <= Len(u) THEN u[i] ELSE v[i - Len(u)]
    BY <1>2, ConcatProperties
  <1>6. Len(u) \in Nat /\ Len(v) \in Nat  BY SeqLen
  <1>7. IsSeq(u \o v)
    <2>1. Len(u \o v) \in Nat /\ u \o v = [i \in 1 .. Len(u \o v) |-> (u \o v)[i]]
      <3> HIDE DEF IsSeq
      <3> QED  BY <1>3, LenProperties, SeqDef
    <2> QED  BY <2>1, FunctionIsSeq
  <1> QED  BY <1>4, <1>5, <1>6, <1>7

\* A blob that holds a concatenation holds its parts, each at its place.
LEMMA HoldsParts ==
  ASSUME NEW blob, NEW at \in Nat, NEW u, NEW v, IsSeq(u), IsSeq(v), Holds(blob, at, u \o v)
  PROVE  Holds(blob, at, u) /\ Holds(blob, at + Len(u), v)
PROOF
  <1>1. Len(u) \in Nat /\ Len(v) \in Nat  BY SeqLen
  <1>2. Holds(blob, at, u)
    BY <1>1, ConcatValues DEF Holds
  <1>3. ASSUME NEW i \in 1 .. Len(v), at + Len(u) + i <= Len(blob)
        PROVE  blob[at + Len(u) + i] = v[i]
    <2>1. Len(u) + i \in 1 .. Len(u \o v)  BY <1>1, ConcatValues
    <2>2. at + Len(u) + i = at + (Len(u) + i)  BY <1>1
    <2>3. blob[at + (Len(u) + i)] = (u \o v)[Len(u) + i]  BY <1>3, <2>1, <2>2 DEF Holds
    <2> QED  BY <2>2, <2>3, ConcatValues
  <1> QED  BY <1>2, <1>3 DEF Holds
\* FlattenSeq concatenates from the left.
LEMMA FlattenSteps ==
  ASSUME NEW N \in Nat \ {0}, NEW ss, ss = [i \in 1 .. N |-> ss[i]]
  PROVE  \E f : /\ \A i \in 1 .. N : f[i] = IF i = 1 THEN ss[i] ELSE f[i - 1] \o ss[i]
                /\ FlattenSeq(ss) = f[N]
PROOF
  <1> DEFINE Is(f, n) == f = [i \in 1 .. n |-> IF i = 1 THEN ss[i] ELSE f[i - 1] \o ss[i]]
             Has(n) == \E f : Is(f, n)
             K == {n \in Nat : Has(n)}
             flatten == CHOOSE f : Is(f, N)
  <1>1. Len(ss) = N  BY LenOfFunction
  <1>2. FlattenSeq(ss) = flatten[N]
    <2>1. FlattenSeq(ss) = (CHOOSE f : Is(f, Len(ss)))[Len(ss)]  BY <1>1 DEF FlattenSeq
    <2> QED  BY <1>1, <2>1
  <1>3. 0 \in K
    <2>1. Is([i \in 1 .. 0 |-> <<>>], 0)  OBVIOUS
    <2>2. Has(0)
      <3> HIDE DEF Is
      <3> QED  BY <2>1, Zenon
    <2> HIDE DEF Has
    <2> QED  BY <2>2
  <1>4. ASSUME NEW n \in Nat, n \in K  PROVE n + 1 \in K
    <2>1. PICK f : Is(f, n)
      <3>1. Has(n)
        <4> HIDE DEF Has
        <4> QED  BY <1>4
      <3> HIDE DEF Is
      <3> QED  BY <3>1, Zenon
    <2> DEFINE h == [i \in 1 .. n + 1 |-> IF i = 1 THEN ss[i] ELSE f[i - 1] \o ss[i]]
    <2>2. \A i \in 1 .. n : h[i] = f[i]
      <3>1. \A i \in 1 .. n : f[i] = IF i = 1 THEN ss[i] ELSE f[i - 1] \o ss[i]
        BY <2>1, Zenon
      <3>2. \A i \in 1 .. n + 1 : h[i] = IF i = 1 THEN ss[i] ELSE f[i - 1] \o ss[i]
        BY Zenon
      <3>3. \A i \in 1 .. n : i \in 1 .. n + 1  OBVIOUS
      <3> HIDE DEF h
      <3> QED  BY <3>1, <3>2, <3>3
    <2>3. h = [i \in 1 .. n + 1 |-> IF i = 1 THEN ss[i] ELSE h[i - 1] \o ss[i]]
      <3>1. \A i \in 1 .. n + 1 : i # 1 => i - 1 \in 1 .. n  OBVIOUS
      <3>2. \A i \in 1 .. n + 1 : i # 1 => f[i - 1] = h[i - 1]
        <4> HIDE DEF h
        <4> QED  BY <2>2, <3>1
      <3> QED  BY <3>2
    <2>4. Has(n + 1)
      <3>1. Is(h, n + 1)  BY <2>3
      <3> HIDE DEF Is, h
      <3> QED  BY <3>1, Zenon
    <2> HIDE DEF Has
    <2> QED  BY <2>4
  <1>5. Is(flatten, N)
    <2>1. Has(N)
      <3>1. N \in K
        <4> HIDE DEF K
        <4> QED  BY <1>3, <1>4, SetInduction
      <3> HIDE DEF Has
      <3> QED  BY <3>1
    <2> HIDE DEF Is
    <2> QED  BY <2>1, Zenon
  <1>6. \A i \in 1 .. N : flatten[i] = IF i = 1 THEN ss[i] ELSE flatten[i - 1] \o ss[i]
    <2> HIDE DEF flatten
    <2> QED  BY <1>5, Zenon
  <1> HIDE DEF flatten
  <1> QED  BY <1>2, <1>6, Zenon

\* Where each sequence is in a concatenation.
IsPlaces(pos, ss, N) ==
  /\ pos \in [0 .. N -> Nat] /\ pos[0] = 0
  /\ \A i \in 1 .. N : pos[i] = pos[i - 1] + Len(ss[i])

Placed(flat, pos, ss, N) ==
  /\ IsPlaces(pos, ss, N) /\ Len(flat) = pos[N]
  /\ \A i \in 1 .. N : \A k \in 1 .. Len(ss[i]) :
       pos[i - 1] + k \in 1 .. pos[N] /\ flat[pos[i - 1] + k] = ss[i][k]

\* Sequences to be concatenated.
AreParts(ss, N) == ss = [i \in 1 .. N |-> ss[i]] /\ \A i \in 1 .. N : IsSeq(ss[i])

LEMMA FlattenPlaces ==
  ASSUME NEW N \in Nat, NEW ss, AreParts(ss, N)
  PROVE  IsSeq(FlattenSeq(ss)) /\ \E pos : Placed(FlattenSeq(ss), pos, ss, N)
PROOF
  <1>1. ss = [i \in 1 .. N |-> ss[i]] /\ \A i \in 1 .. N : IsSeq(ss[i])  BY DEF AreParts
  <1>2. Len(ss) = N /\ IsSeq(ss)  BY <1>1, FunctionIsSeq
  <1>3. CASE N = 0
    <2>1. FlattenSeq(ss) = ss  BY <1>2, <1>3 DEF FlattenSeq
    <2> DEFINE p == [i \in 0 .. N |-> 0]
    <2>2. IsPlaces(p, ss, N) /\ p[N] = 0  BY <1>3 DEF IsPlaces
    <2>3. \A i \in 1 .. N : \A k \in 1 .. Len(ss[i]) :
            p[i - 1] + k \in 1 .. p[N] /\ FlattenSeq(ss)[p[i - 1] + k] = ss[i][k]
      BY <1>3
    <2> HIDE DEF p
    <2> QED  BY <1>2, <1>3, <2>1, <2>2, <2>3 DEF Placed
  <1>4. CASE N # 0
    <2>1. PICK f : /\ \A i \in 1 .. N : f[i] = IF i = 1 THEN ss[i] ELSE f[i - 1] \o ss[i]
                   /\ FlattenSeq(ss) = f[N]
      BY <1>1, <1>4, FlattenSteps
    <2> DEFINE p == [i \in 0 .. N |-> IF i = 0 THEN 0 ELSE Len(f[i])]
               K == {n \in Nat : n < N => IsSeq(f[n + 1])}
               Right(n) == /\ \A i \in 1 .. n : p[i] <= p[n]
                           /\ \A i \in 1 .. n : \A k \in 1 .. Len(ss[i]) : f[n][p[i - 1] + k] = ss[i][k]
               M == {n \in Nat : n < N => Right(n + 1)}
    <2>2. p[0] = 0 /\ \A i \in 1 .. N : p[i] = Len(f[i])  OBVIOUS
    <2>3. f[1] = ss[1]
      <3>1. 1 \in 1 .. N  BY <1>4
      <3> QED  BY <2>1, <3>1
    <2>4. ASSUME NEW n \in Nat, n + 1 < N, IsSeq(f[n + 1])
          PROVE  /\ n + 1 \in 1 .. N /\ n + 2 \in 1 .. N
                 /\ IsSeq(f[n + 2]) /\ Len(f[n + 2]) = Len(f[n + 1]) + Len(ss[n + 2])
                 /\ \A i \in 1 .. Len(f[n + 1]) : f[n + 2][i] = f[n + 1][i]
                 /\ \A i \in 1 .. Len(ss[n + 2]) : f[n + 2][Len(f[n + 1]) + i] = ss[n + 2][i]
      <3> DEFINE m == n + 2
                 u == f[n + 1]
                 v == ss[m]
                 w == f[m]
      <3>1. m \in 1 .. N /\ m # 1 /\ m - 1 = n + 1 /\ n + 1 \in 1 .. N  BY <2>4
      <3>2. w = u \o v
        <4> HIDE DEF m
        <4> QED  BY <2>1, <3>1
      <3>3. IsSeq(u) /\ IsSeq(v)  BY <1>1, <2>4, <3>1
      <3>4. /\ IsSeq(w) /\ Len(w) = Len(u) + Len(v)
            /\ \A i \in 1 .. Len(u) : w[i] = u[i]
            /\ \A i \in 1 .. Len(v) : w[Len(u) + i] = v[i]
        <4> HIDE DEF u, v, w
        <4>1. /\ IsSeq(u \o v) /\ Len(u \o v) = Len(u) + Len(v)
              /\ \A i \in 1 .. Len(u) : (u \o v)[i] = u[i]
              /\ \A i \in 1 .. Len(v) : (u \o v)[Len(u) + i] = v[i]
          BY <3>3, ConcatValues
        <4> QED  BY <3>2, <4>1, Zenon
      <3> QED  BY <3>1, <3>4
    <2>5. \A n \in 1 .. N : IsSeq(f[n]) /\ Len(f[n]) \in Nat
      <3>1. 0 \in K
        <4>1. 1 \in 1 .. N  BY <1>4
        <4> QED  BY <1>1, <2>3, <4>1
      <3>2. ASSUME NEW n \in Nat, n \in K  PROVE n + 1 \in K
        <4> SUFFICES ASSUME n + 1 < N  PROVE IsSeq(f[n + 2])  OBVIOUS
        <4>1. IsSeq(f[n + 1])  BY <3>2
        <4> QED  BY <4>1, <2>4
      <3>3. \A n \in Nat : n \in K
        <4> HIDE DEF K
        <4> QED  BY <3>1, <3>2, SetInduction
      <3>4. ASSUME NEW n \in 1 .. N  PROVE IsSeq(f[n])
        <4>1. n - 1 \in K /\ n - 1 \in Nat /\ n - 1 < N /\ n - 1 + 1 = n  BY <3>3
        <4> QED  BY <4>1
      <3> QED  BY <3>4, <1>1, SeqLen
    <2>6. \A n \in 1 .. N : p[n] = p[n - 1] + Len(ss[n])
      <3> TAKE n \in 1 .. N
      <3>1. CASE n = 1  BY <2>2, <2>3, <3>1, <1>1, SeqLen
      <3>2. CASE n # 1
        <4> DEFINE m == n - 2
        <4>1. m \in Nat /\ m + 1 < N /\ m + 2 = n /\ m + 1 = n - 1  BY <3>2
        <4>2. m + 1 \in 1 .. N  BY <4>1
        <4>3. Len(f[m + 2]) = Len(f[m + 1]) + Len(ss[m + 2])
          <5> HIDE DEF m
          <5> QED  BY <2>4, <2>5, <4>1, <4>2
        <4> QED  BY <2>2, <4>1, <4>2, <4>3
      <3> QED  BY <3>1, <3>2
    <2>7. p \in [0 .. N -> Nat]  BY <2>5
    <2> HIDE DEF p, Right
    <2>8. 0 \in M
      <3>1. 1 \in 1 .. N  BY <1>4
      <3>2. Right(1)
        <4>1. ASSUME NEW k \in 1 .. Len(ss[1])  PROVE f[1][p[0] + k] = ss[1][k]
          <5>1. Len(ss[1]) \in Nat  BY <3>1, <1>1, SeqLen
          <5>2. p[0] + k = k  BY <2>2, <5>1
          <5> QED  BY <2>3, <5>2
        <4>2. p[1] <= p[1]  BY <2>7, <3>1
        <4>3. \A i \in 1 .. 1 : i = 1 /\ i - 1 = 0  OBVIOUS
        <4> QED  BY <4>1, <4>2, <4>3 DEF Right
      <3> QED  BY <3>2
    <2>9. ASSUME NEW n \in Nat, n \in M  PROVE n + 1 \in M
      <3>1. n + 1 + 1 = n + 2  OBVIOUS
      <3> SUFFICES ASSUME n + 1 < N  PROVE Right(n + 2)  BY <3>1
      <3>2. Right(n + 1)  BY <2>9
      <3>3. n + 1 \in 1 .. N /\ n + 2 \in 1 .. N /\ n + 2 - 1 = n + 1  OBVIOUS
      <3>4. IsSeq(f[n + 1])  BY <2>5, <3>3
      <3>5. Len(ss[n + 2]) \in Nat /\ Len(f[n + 1]) \in Nat  BY <2>5, <3>3, <1>1, SeqLen
      <3>6. p[n + 2] = p[n + 1] + Len(ss[n + 2]) /\ p[n + 1] = Len(f[n + 1])
        BY <2>2, <2>6, <3>3
      <3>7. ASSUME NEW i \in 1 .. n + 2  PROVE p[i] <= p[n + 2]
        <4>1. CASE i = n + 2  BY <2>7, <3>3, <4>1
        <4>2. CASE i # n + 2
          <5>1. i \in 1 .. n + 1 /\ i \in 0 .. N /\ n + 1 \in 0 .. N  BY <3>3, <4>2
          <5>2. p[i] <= p[n + 1] /\ p[i] \in Nat /\ p[n + 1] \in Nat  BY <2>7, <3>2, <5>1 DEF Right
          <5> DEFINE a == p[i]
                     b == p[n + 1]
                     c == Len(ss[n + 2])
          <5>3. p[n + 2] = b + c /\ c \in Nat /\ a \in Nat /\ b \in Nat /\ a <= b  BY <3>5, <3>6, <5>2
          <5> HIDE DEF a, b, c
          <5>4. a <= b + c  BY <5>3
          <5> QED  BY <5>3, <5>4 DEF a
        <4> QED  BY <4>1, <4>2
      <3>8. ASSUME NEW i \in 1 .. n + 2, NEW k \in 1 .. Len(ss[i])
            PROVE  f[n + 2][p[i - 1] + k] = ss[i][k]
        <4>1. CASE i = n + 2
          <5>1. f[n + 2][Len(f[n + 1]) + k] = ss[n + 2][k]  BY <2>4, <3>4, <4>1
          <5> QED  BY <3>3, <3>6, <4>1, <5>1
        <4>2. CASE i # n + 2
          <5>1. i \in 1 .. n + 1 /\ i \in 1 .. N /\ i - 1 \in 0 .. N  BY <3>3, <4>2
          <5>2. f[n + 1][p[i - 1] + k] = ss[i][k]  BY <3>2, <5>1 DEF Right
          <5>3. p[i] = p[i - 1] + Len(ss[i]) /\ p[i] <= p[n + 1] /\ p[i - 1] \in Nat /\ Len(ss[i]) \in Nat
            BY <2>6, <2>7, <3>2, <5>1, <1>1, SeqLen DEF Right
          <5>4. p[i - 1] + k \in 1 .. Len(f[n + 1])
            <6> DEFINE a == p[i - 1]
                       b == Len(ss[i])
                       c == Len(f[n + 1])
            <6>1. a \in Nat /\ b \in Nat /\ c \in Nat /\ a + b <= c /\ k \in 1 .. b  BY <3>5, <3>6, <5>3
            <6> HIDE DEF a, b, c
            <6>2. a + k \in 1 .. c  BY <6>1
            <6> QED  BY <6>2 DEF a, c
          <5>5. f[n + 2][p[i - 1] + k] = f[n + 1][p[i - 1] + k]  BY <2>4, <3>4, <5>4
          <5> QED  BY <5>2, <5>5
        <4> QED  BY <4>1, <4>2
      <3> QED  BY <3>7, <3>8 DEF Right
    <2>10. Right(N)
      <3>1. \A n \in Nat : n \in M
        <4> HIDE DEF M
        <4> QED  BY <2>8, <2>9, SetInduction
      <3>2. N - 1 \in M /\ N - 1 \in Nat /\ N - 1 < N /\ N - 1 + 1 = N  BY <1>4, <3>1
      <3> QED  BY <3>2
    <2>11. N \in 1 .. N  BY <1>4
    <2>12. IsPlaces(p, ss, N)  BY <2>2, <2>6, <2>7 DEF IsPlaces
    <2>13. Len(FlattenSeq(ss)) = p[N] /\ IsSeq(FlattenSeq(ss))  BY <2>1, <2>2, <2>5, <2>11
    <2>14. \A i \in 1 .. N : \A k \in 1 .. Len(ss[i]) : FlattenSeq(ss)[p[i - 1] + k] = ss[i][k]
      BY <2>1, <2>10 DEF Right
    <2>15. ASSUME NEW i \in 1 .. N, NEW k \in 1 .. Len(ss[i])  PROVE p[i - 1] + k \in 1 .. p[N]
      <3>1. p[i] <= p[N] /\ p[i] = p[i - 1] + Len(ss[i])  BY <2>6, <2>10 DEF Right
      <3>2. i - 1 \in 0 .. N /\ N \in 0 .. N  OBVIOUS
      <3>3. p[i - 1] \in Nat /\ p[N] \in Nat /\ Len(ss[i]) \in Nat  BY <2>7, <3>2, <1>1, SeqLen
      <3> QED  BY <3>1, <3>3
    <2> HIDE DEF K, M
    <2> QED  BY <2>12, <2>13, <2>14, <2>15 DEF Placed
  <1> QED  BY <1>3, <1>4
------------------------------------------------------------------------------
(* Records.                                                                *)

\* Parts of a record add up.
LEMMA MergeParts ==
  ASSUME NEW x, NEW S, NEW T
  PROVE  Merge(Part(x, S), Part(x, T)) = Part(x, S \cup T)
PROOF
  <1>1. DOMAIN Part(x, S) = S /\ DOMAIN Part(x, T) = T  BY DEF Part
  <1>2. \A f \in S \cup T : (IF f \in S THEN Part(x, S)[f] ELSE Part(x, T)[f]) = x[f]  BY DEF Part
  <1> QED  BY <1>1, <1>2 DEF Merge, Part

\* The fields of a list are written as a sequence.
LEMMA WriteIsSeq ==
  ASSUME NEW x, NEW names, Len(names) \in Nat
  PROVE  /\ IsSeq(Write(x, names)) /\ Len(Write(x, names)) = Len(names)
         /\ \A i \in 1 .. Len(names) : Write(x, names)[i] = x[names[i]]
PROOF
  <1>1. Write(x, names) = [i \in 1 .. Len(names) |-> Write(x, names)[i]]  BY DEF Write
  <1> QED  BY <1>1, FunctionIsSeq DEF Write

\* No string of the record is too long, among the fields of a list.
ShortTexts(x, names) == \A f \in Range(names) : f \in Texts => x[f] \notin LongStrings

\* Fields are read as they were written.
LEMMA FieldsRead ==
  ASSUME NEW blob, NEW at \in Nat, NEW got, Len(blob) \in Nat,
         NEW x, NEW names, IsSeq(names), Holds(blob, at, Write(x, names))
  PROVE  Read(blob, Good(at, got), names)
           = IF ShortTexts(x, names) THEN Out(blob, at, Write(x, names), Part(x, Range(names))) ELSE Failed
PROOF
  <1> DEFINE n == Len(names)
             w == Write(x, names)
  <1>1. n \in Nat /\ DOMAIN names = 1 .. n  BY SeqLen
  <1>2. Len(w) = n /\ \A i \in 1 .. n : w[i] = x[names[i]]  BY <1>1, WriteIsSeq
  <1>3. Good(at, got).ok /\ Good(at, got).at = at  BY DEF Good
  <1>4. CASE at + n > Len(blob)
    <2>1. Read(blob, Good(at, got), names) = Failed  BY <1>3, <1>4 DEF Read
    <2>2. Out(blob, at, w, Part(x, Range(names))) = Failed  BY <1>1, <1>2, <1>4 DEF Out
    <2> QED  BY <2>1, <2>2
  <1>5. CASE at + n <= Len(blob)
    <2>1. \A i \in 1 .. n : blob[at + i] = x[names[i]]
      <3> TAKE i \in 1 .. n
      <3>1. i \in 1 .. Len(w) /\ at + i <= Len(blob)  BY <1>1, <1>2, <1>5
      <3> HIDE DEF n, w
      <3> QED  BY <1>2, <3>1 DEF Holds, w
    <2>2. (\E i \in 1 .. n : names[i] \in Texts /\ blob[at + i] \in LongStrings)
            <=> ~ShortTexts(x, names)
      BY <1>1, <2>1 DEF ShortTexts, Range
    <2> DEFINE place(f) == CHOOSE i \in 1 .. n : names[i] = f
    <2>3. \A f \in Range(names) : place(f) \in 1 .. n /\ names[place(f)] = f  BY <1>1 DEF Range
    <2>4. [f \in Range(names) |-> blob[at + place(f)]] = Part(x, Range(names))
      <3> HIDE DEF place, n
      <3> QED  BY <2>1, <2>3 DEF Part
    <2>5. CASE ShortTexts(x, names)
      <3>1. Read(blob, Good(at, got), names) = Good(at + n, [f \in Range(names) |-> blob[at + place(f)]])
        BY <1>1, <1>3, <1>5, <2>2, <2>5 DEF Read
      <3> HIDE DEF place, n, w
      <3> QED  BY <1>2, <1>5, <2>4, <2>5, <3>1 DEF Out, w
    <2>6. CASE ~ShortTexts(x, names)
      <3>1. Read(blob, Good(at, got), names) = Failed  BY <1>3, <2>2, <2>6 DEF Read
      <3> QED  BY <2>6, <3>1
    <2> QED  BY <2>5, <2>6
  <1> QED  BY <1>1, <1>4, <1>5

\* A reader that starts after a failure fails.
LEMMA ReadAfterFailure ==
  ASSUME NEW blob, NEW names
  PROVE  Read(blob, Failed, names) = Failed
PROOF
  BY DEF Read, Failed

\* Two readers, one after the other, read what was written one after the other.
LEMMA BothRead ==
  ASSUME NEW blob, NEW at \in Nat, Len(blob) \in Nat,
         NEW u, NEW v, IsSeq(u), IsSeq(v), NEW x, NEW y,
         NEW r, NEW s, r = Out(blob, at, u, x), r.ok => s = Out(blob, at + Len(u), v, y)
  PROVE  Both(r, s) = Out(blob, at, u \o v, Merge(x, y))
PROOF
  <1>1. Len(u) \in Nat /\ Len(v) \in Nat /\ Len(u \o v) = Len(u) + Len(v)  BY SeqLen, ConcatValues
  <1>2. at + Len(u) + Len(v) = at + Len(u \o v)  BY <1>1
  <1>3. CASE ~(at + Len(u) <= Len(blob))
    <2>1. ~r.ok  BY <1>3 DEF Out, Failed
    <2>2. ~(at + Len(u \o v) <= Len(blob))  BY <1>1, <1>2, <1>3
    <2> QED  BY <2>1, <2>2 DEF Both, Out
  <1>4. CASE at + Len(u) <= Len(blob)
    <2>1. r = Good(at + Len(u), x)  BY <1>4 DEF Out
    <2>2. r.ok /\ r.got = x  BY <2>1 DEF Good
    <2>3. CASE at + Len(u) + Len(v) <= Len(blob)
      <3>1. s = Good(at + Len(u \o v), y)  BY <1>2, <2>2, <2>3 DEF Out
      <3>2. s.ok /\ s.got = y /\ s.at = at + Len(u \o v)  BY <3>1 DEF Good
      <3> QED  BY <1>2, <1>4, <2>2, <2>3, <3>2 DEF Both, Out
    <2>4. CASE ~(at + Len(u) + Len(v) <= Len(blob))
      <3>1. ~s.ok  BY <2>2, <2>4 DEF Out, Failed
      <3> QED  BY <1>2, <2>4, <3>1 DEF Both, Out
    <2> QED  BY <2>3, <2>4
  <1> QED  BY <1>3, <1>4

\* One of two readers fails.
LEMMA BothFailed ==
  ASSUME NEW r, NEW s, r.ok => s = Failed
  PROVE  Both(r, s) = Failed
PROOF
  BY DEF Both, Failed

\* A value that becomes a field.
LEMMA AsRead ==
  ASSUME NEW blob, NEW at, NEW w, NEW x, NEW field
  PROVE  As(field, Out(blob, at, w, x[field])) = Out(blob, at, w, Part(x, {field}))
PROOF
  <1>1. [f \in {field} |-> x[field]] = Part(x, {field})  BY DEF Part
  <1>2. As(field, Good(at + Len(w), x[field])) = Good(at + Len(w), [f \in {field} |-> x[field]])
    BY DEF As, Good
  <1>3. As(field, Failed) = Failed  BY DEF As, Failed
  <1> QED  BY <1>1, <1>2, <1>3 DEF Out

\* A reader that has not failed is past what was written.
LEMMA OutGood ==
  ASSUME NEW blob, NEW at, NEW w, NEW x, Out(blob, at, w, x).ok
  PROVE  Out(blob, at, w, x) = Good(at + Len(w), x) /\ at + Len(w) <= Len(blob)
PROOF
  BY DEF Out, Failed

\* An optional record: none, or one with its fields.
IsOptional(x, names) == x = NoReflection \/ HasFields(x, names)

\* A sequence of one value.
LEMMA OneValue ==
  ASSUME NEW v
  PROVE  IsSeq(<<v>>) /\ Len(<<v>>) = 1 /\ <<v>>[1] = v
PROOF
  <1>1. <<v>> = [i \in 1 .. 1 |-> <<v>>[i]]  OBVIOUS
  <1> QED  BY <1>1, FunctionIsSeq

\* An optional is written as a sequence.
LEMMA OptionalIsSeq ==
  ASSUME NEW x, NEW names, Len(names) \in Nat
  PROVE  IsSeq(WriteOptional(x, names))
PROOF
  <1>1. IsSeq(Write(x, names))  BY WriteIsSeq
  <1>2. IsSeq(<<1>>) /\ IsSeq(<<0>>)  BY OneValue
  <1>3. IsSeq(<<1>> \o Write(x, names))  BY <1>1, <1>2, ConcatValues
  <1> QED  BY <1>2, <1>3 DEF WriteOptional

\* An optional is read as it was written.
LEMMA OptionalRead ==
  ASSUME NEW blob, NEW at \in Nat, NEW got, Len(blob) \in Nat,
         NEW x, NEW names, IsSeq(names), Range(names) \cap Texts = {},
         IsOptional(x, names), Holds(blob, at, WriteOptional(x, names))
  PROVE  ReadOptional(blob, Good(at, got), names) = Out(blob, at, WriteOptional(x, names), x)
PROOF
  <1> DEFINE r == Good(at, got)
  <1>1. r.ok /\ r.at = at /\ r.got = got  BY DEF Good
  <1>2. CASE x = NoReflection
    <2>1. WriteOptional(x, names) = <<0>>  BY <1>2 DEF WriteOptional
    <2>2. Len(<<0>>) = 1 /\ IsSeq(<<0>>)  BY OneValue
    <2>3. CASE at + 1 > Len(blob)
      BY <1>1, <2>1, <2>2, <2>3 DEF ReadOptional, Out
    <2>4. CASE at + 1 <= Len(blob)
      <3>1. blob[at + 1] = 0
        <4> DEFINE w == <<0>>
        <4>1. Holds(blob, at, w) /\ Len(w) \in Nat \ {0} /\ w[1] = 0  BY <2>1, <2>2
        <4> HIDE DEF w
        <4> QED  BY <4>1, <2>4, HoldsFirst
      <3>2. ReadOptional(blob, r, names) = Good(at + 1, NoReflection)
        <4> HIDE DEF r
        <4> QED  BY <1>1, <2>4, <3>1 DEF ReadOptional
      <3> QED  BY <1>2, <2>1, <2>2, <2>4, <3>2 DEF Out
    <2> QED  BY <2>3, <2>4
  <1>3. CASE x # NoReflection
    <2> DEFINE w == Write(x, names)
    <2>1. WriteOptional(x, names) = <<1>> \o w  BY <1>3 DEF WriteOptional
    <2>2. Len(names) \in Nat  BY SeqLen
    <2>3. IsSeq(w) /\ Len(w) = Len(names)  BY <2>2, WriteIsSeq
    <2>4. IsSeq(<<1>>) /\ Len(<<1>>) = 1 /\ <<1>>[1] = 1  BY OneValue
    <2> HIDE DEF w
    <2>5. IsSeq(<<1>> \o w) /\ Len(<<1>> \o w) = 1 + Len(names)  BY <2>3, <2>4, ConcatValues
    <2>6. Holds(blob, at, <<1>>) /\ Holds(blob, at + 1, w)
      BY <2>1, <2>3, <2>4, HoldsParts
    <2>7. CASE at + 1 > Len(blob)
      <3>1. ~(at + Len(<<1>> \o w) <= Len(blob))  BY <2>2, <2>5, <2>7
      <3>2. ReadOptional(blob, r, names) = Failed  BY <1>1, <2>7 DEF ReadOptional
      <3> QED  BY <2>1, <2>5, <3>1, <3>2 DEF Out
    <2>8. CASE at + 1 <= Len(blob)
      <3>1. blob[at + 1] = 1  BY <2>4, <2>6, <2>8, HoldsFirst
      <3>2. ReadOptional(blob, r, names) = Read(blob, Good(at + 1, got), names)
        <4> HIDE DEF r
        <4> QED  BY <1>1, <2>8, <3>1 DEF ReadOptional
      <3>3. Read(blob, Good(at + 1, got), names)
              = IF ShortTexts(x, names) THEN Out(blob, at + 1, w, Part(x, Range(names))) ELSE Failed
        BY <2>6, FieldsRead DEF w
      <3>4. ShortTexts(x, names)  BY DEF ShortTexts
      <3>5. Part(x, Range(names)) = x  BY <1>3 DEF IsOptional, HasFields
      <3>6. at + 1 + Len(w) = at + Len(<<1>> \o w)  BY <2>2, <2>3, <2>5
      <3> QED  BY <2>1, <2>5, <3>2, <3>3, <3>4, <3>5, <3>6 DEF Out
    <2> QED  BY <2>7, <2>8
  <1> QED  BY <1>2, <1>3

LEMMA OptionalAfterFailure ==
  ASSUME NEW blob, NEW names
  PROVE  ReadOptional(blob, Failed, names) = Failed
PROOF
  BY DEF ReadOptional, Failed
------------------------------------------------------------------------------
(* Members and slots.                                                      *)

MemberFields ==
  <<"name", "offset", "size", "array_count", "array_stride", "is_matrix", "matrix_columns",
    "matrix_rows", "type_name">>
MetalFields == <<"buffer", "texture", "sampler">>
WebGpuFields == <<"group", "binding">>

\* Lists of fields are sequences.
LEMMA FieldLists ==
  /\ IsSeq(MemberFields)
  /\ Range(MemberFields) = {"name", "offset", "size", "array_count", "array_stride", "is_matrix",
                            "matrix_columns", "matrix_rows", "type_name"}
  /\ IsSeq(MetalFields) /\ Range(MetalFields) = {"buffer", "texture", "sampler"}
  /\ IsSeq(WebGpuFields) /\ Range(WebGpuFields) = {"group", "binding"}
PROOF
  <1>1. MemberFields = [i \in 1 .. 9 |-> MemberFields[i]]  BY DEF MemberFields
  <1>2. MetalFields = [i \in 1 .. 3 |-> MetalFields[i]]  BY DEF MetalFields
  <1>3. WebGpuFields = [i \in 1 .. 2 |-> WebGpuFields[i]]  BY DEF WebGpuFields
  <1>4. IsSeq(MemberFields) /\ IsSeq(MetalFields) /\ IsSeq(WebGpuFields)
    BY <1>1, <1>2, <1>3, FunctionIsSeq
  <1>5. Range(MemberFields) = {"name", "offset", "size", "array_count", "array_stride", "is_matrix",
                               "matrix_columns", "matrix_rows", "type_name"}
    BY DEF Range, MemberFields
  <1>6. Range(MetalFields) = {"buffer", "texture", "sampler"}  BY DEF Range, MetalFields
  <1>7. Range(WebGpuFields) = {"group", "binding"}  BY DEF Range, WebGpuFields
  <1> QED  BY <1>4, <1>5, <1>6, <1>7

\* A member of a block is read as it was written.
LEMMA MemberRead ==
  ASSUME NEW blob, NEW at \in Nat, NEW got, Len(blob) \in Nat,
         NEW m, HasFields(m, MemberFields), Holds(blob, at, WriteMember(m))
  PROVE  ReadMember(blob, Good(at, got))
           = IF ReadableMember(m) THEN Out(blob, at, WriteMember(m), m) ELSE Failed
PROOF
  <1>1. WriteMember(m) = Write(m, MemberFields)  BY DEF WriteMember, MemberFields
  <1>2. ReadMember(blob, Good(at, got)) = Read(blob, Good(at, got), MemberFields)
    BY DEF ReadMember, MemberFields
  <1>3. ShortTexts(m, MemberFields) <=> ReadableMember(m)
    BY FieldLists DEF ShortTexts, ReadableMember, Texts
  <1>4. Part(m, Range(MemberFields)) = m  BY DEF HasFields
  <1>5. Read(blob, Good(at, got), MemberFields)
          = IF ShortTexts(m, MemberFields) THEN Out(blob, at, Write(m, MemberFields), m) ELSE Failed
    BY <1>1, <1>4, FieldLists, FieldsRead
  <1> QED  BY <1>1, <1>2, <1>3, <1>5

\* Each writer makes a sequence.
LEMMA MemberIsSeq ==
  ASSUME NEW m
  PROVE  IsSeq(WriteMember(m)) /\ Len(WriteMember(m)) = 9
PROOF
  <1>1. MemberFields = [i \in 1 .. 9 |-> MemberFields[i]]  BY DEF MemberFields
  <1>2. Len(MemberFields) = 9  BY <1>1, FunctionIsSeq
  <1>3. WriteMember(m) = Write(m, MemberFields)  BY DEF WriteMember, MemberFields
  <1> QED  BY <1>2, <1>3, WriteIsSeq

\* The slots of a binding.
AreSlots(slots) ==
  /\ slots = Part(slots, {"metal", "webgpu"})
  /\ IsOptional(slots.metal, MetalFields) /\ IsOptional(slots.webgpu, WebGpuFields)

LEMMA SlotsRead ==
  ASSUME NEW blob, NEW at \in Nat, NEW got, Len(blob) \in Nat,
         NEW slots, AreSlots(slots), Holds(blob, at, WriteSlots(slots))
  PROVE  ReadSlots(blob, Good(at, got)) = Out(blob, at, WriteSlots(slots), slots)
PROOF
  <1> DEFINE u == WriteOptional(slots.metal, MetalFields)
             v == WriteOptional(slots.webgpu, WebGpuFields)
             r == ReadOptional(blob, Good(at, got), MetalFields)
             s == ReadOptional(blob, As("metal", r), WebGpuFields)
  <1>1. WriteSlots(slots) = u \o v  BY DEF WriteSlots, MetalFields, WebGpuFields
  <1>2. IsSeq(u) /\ IsSeq(v)  BY OptionalIsSeq, FieldLists, SeqLen
  <1>3. Holds(blob, at, u) /\ Holds(blob, at + Len(u), v)
    <2> HIDE DEF u, v
    <2> QED  BY <1>1, <1>2, HoldsParts
  <1>4. ReadSlots(blob, Good(at, got)) = Both(As("metal", r), As("webgpu", s))
    BY DEF ReadSlots, MetalFields, WebGpuFields
  <1>5. Range(MetalFields) \cap Texts = {} /\ Range(WebGpuFields) \cap Texts = {}
    BY FieldLists DEF Texts
  <1>6. r = Out(blob, at, u, slots.metal)
    <2>1. IsOptional(slots.metal, MetalFields) /\ IsSeq(MetalFields)  BY FieldLists DEF AreSlots
    <2> QED  BY <1>3, <1>5, <2>1, OptionalRead
  <1>7. As("metal", r) = Out(blob, at, u, Part(slots, {"metal"}))
    <2> HIDE DEF r, u
    <2> QED  BY <1>6, AsRead
  <1>8. ASSUME As("metal", r).ok
        PROVE  As("webgpu", s) = Out(blob, at + Len(u), v, Part(slots, {"webgpu"}))
    <2>1. As("metal", r) = Good(at + Len(u), Part(slots, {"metal"}))
      <3> HIDE DEF r, u
      <3> QED  BY <1>7, <1>8 DEF Out, Failed
    <2>2. Len(u) \in Nat  BY <1>2, SeqLen
    <2>3. s = Out(blob, at + Len(u), v, slots.webgpu)
      <3>1. at + Len(u) \in Nat  BY <2>2
      <3>2. IsOptional(slots.webgpu, WebGpuFields) /\ IsSeq(WebGpuFields)  BY FieldLists DEF AreSlots
      <3> HIDE DEF r, u
      <3> QED  BY <1>3, <1>5, <2>1, <3>1, <3>2, OptionalRead
    <2> HIDE DEF s, u, v, r
    <2> QED  BY <2>3, AsRead
  <1>9. Both(As("metal", r), As("webgpu", s))
          = Out(blob, at, u \o v, Merge(Part(slots, {"metal"}), Part(slots, {"webgpu"})))
    <2> HIDE DEF r, s, u, v
    <2> QED  BY <1>2, <1>7, <1>8, BothRead
  <1>10. Merge(Part(slots, {"metal"}), Part(slots, {"webgpu"})) = slots
    <2>1. {"metal"} \cup {"webgpu"} = {"metal", "webgpu"}  OBVIOUS
    <2> QED  BY <2>1, MergeParts DEF AreSlots
  <1> QED  BY <1>1, <1>4, <1>9, <1>10
------------------------------------------------------------------------------
(* Lists.                                                                  *)

\* A blob that holds a concatenation holds each sequence at its place.
LEMMA HoldsElements ==
  ASSUME NEW blob, NEW at \in Nat, NEW N \in Nat, NEW ws, NEW pos, AreParts(ws, N),
         NEW flat, Placed(flat, pos, ws, N), Holds(blob, at, flat)
  PROVE  \A i \in 1 .. N : Holds(blob, at + pos[i - 1], ws[i])
PROOF
  <1> SUFFICES ASSUME NEW i \in 1 .. N, NEW k \in 1 .. Len(ws[i]),
                      at + pos[i - 1] + k <= Len(blob)
               PROVE  blob[at + pos[i - 1] + k] = ws[i][k]
    BY DEF Holds
  <1>1. i - 1 \in 0 .. N  OBVIOUS
  <1>2. pos[i - 1] \in Nat  BY <1>1 DEF IsPlaces, Placed
  <1> DEFINE j == pos[i - 1] + k
  <1>3. j \in 1 .. Len(flat) /\ flat[j] = ws[i][k]  BY DEF Placed
  <1>4. at + pos[i - 1] + k = at + j  BY <1>2
  <1> HIDE DEF j
  <1>5. blob[at + j] = flat[j]  BY <1>3, <1>4 DEF Holds
  <1> QED  BY <1>3, <1>4, <1>5

\* What the loop has read after n elements, of which those in G are readable.
ReadSoFar(blob, at, pos, xs, G, n) ==
  IF 1 .. n \subseteq G /\ at + pos[n] <= Len(blob) THEN Good(at + pos[n], SubSeq(xs, 1, n)) ELSE Failed

\* All its turns.
LEMMA ListInduction ==
  ASSUME NEW N \in Nat, NEW f, NEW g, f[0] = g[0],
         \A n \in 1 .. N : f[n - 1] = g[n - 1] => f[n] = g[n]
  PROVE  f[N] = g[N]
PROOF
  <1> DEFINE K == {n \in Nat : n <= N => f[n] = g[n]}
  <1>1. 0 \in K  OBVIOUS
  <1>2. ASSUME NEW n \in Nat, n \in K  PROVE n + 1 \in K
    <2> SUFFICES ASSUME n + 1 <= N PROVE f[n + 1] = g[n + 1]  OBVIOUS
    <2>1. n + 1 \in 1 .. N /\ n + 1 - 1 = n /\ f[n] = g[n]  BY <1>2
    <2> QED  BY <2>1
  <1>3. \A n \in Nat : n \in K
    <2> HIDE DEF K
    <2> QED  BY <1>1, <1>2, SetInduction
  <1> QED  BY <1>3

\* A list as written: its length, then its elements.
IsFramed(w, N, ws) == w = <<N>> \o FlattenSeq(ws)

\* Where the parts of a list are in a blob that holds the list.
HoldsElement(blob, at, pos, ws, N) == \A i \in 1 .. N : Holds(blob, at + pos[i - 1], ws[i])

\* A list in a blob: the places of its elements, and what the loop starts from
\* and ends with.
Laid(blob, at, N, xs, ws, w, G, pos) ==
  /\ IsPlaces(pos, ws, N)
  /\ HoldsElement(blob, at + 1, pos, ws, N)
  /\ at + 1 <= Len(blob) => ReadSoFar(blob, at + 1, pos, xs, G, 0) = Good(at + 1, <<>>)
  /\ ReadSoFar(blob, at + 1, pos, xs, G, N)
       = IF 1 .. N \subseteq G THEN Out(blob, at, w, xs) ELSE Failed

\* The places of a written list: its length, then each element after the other.
LEMMA ListPlaces ==
  ASSUME NEW blob, Len(blob) \in Nat, NEW at \in Nat, NEW N \in Nat, NEW xs, IsSeq(xs), Len(xs) = N,
         NEW ws, AreParts(ws, N), NEW w, IsFramed(w, N, ws), Holds(blob, at, w), NEW G
  PROVE  /\ IsSeq(w)
         /\ at + 1 <= Len(blob) => blob[at + 1] = N
         /\ at + 1 > Len(blob) => Out(blob, at, w, xs) = Failed
         /\ \E pos : Laid(blob, at, N, xs, ws, w, G, pos)
PROOF
  <1> DEFINE flat == FlattenSeq(ws)
             one == <<N>>
  <1>1. IsSeq(flat)  BY FlattenPlaces
  <1>2. PICK pos : Placed(flat, pos, ws, N)  BY FlattenPlaces, Zenon
  <1>3. IsPlaces(pos, ws, N) /\ Len(flat) = pos[N]  BY <1>2 DEF Placed
  <1>4. IsSeq(one) /\ Len(one) = 1 /\ one[1] = N  BY OneValue
  <1>5. pos[N] \in Nat /\ pos[0] = 0  BY <1>3 DEF IsPlaces
  <1> HIDE DEF flat, one
  <1>6. IsSeq(one \o flat) /\ Len(one \o flat) = 1 + pos[N]
    <2>1. IsSeq(one \o flat) /\ Len(one \o flat) = Len(one) + Len(flat)
      BY <1>1, <1>4, ConcatValues, Zenon
    <2>2. Len(flat) = pos[N] /\ Len(one) = 1  BY <1>3, <1>4, Zenon
    <2> QED  BY <2>1, <2>2, Zenon
  <1>7. w = one \o flat  BY DEF one, flat, IsFramed
  <1>8. Holds(blob, at, one) /\ Holds(blob, at + 1, flat)  BY <1>1, <1>4, <1>7, HoldsParts
  <1>9. IsSeq(w) /\ Len(w) = 1 + pos[N]  BY <1>6, <1>7, Zenon
  <1>10. at + 1 <= Len(blob) => blob[at + 1] = N
    <2>1. Len(one) \in Nat \ {0}  BY <1>4
    <2> QED  BY <1>4, <1>8, <2>1, HoldsFirst, Zenon
  <1>11. at + 1 > Len(blob) => Out(blob, at, w, xs) = Failed  BY <1>5, <1>9 DEF Out
  <1>12. HoldsElement(blob, at + 1, pos, ws, N)
    <2> DEFINE a == at + 1
    <2>1. a \in Nat  OBVIOUS
    <2>2. Holds(blob, a, flat)  BY <1>8
    <2>3. \A i \in 1 .. N : Holds(blob, a + pos[i - 1], ws[i])
      <3> HIDE DEF a
      <3> QED  BY <1>2, <2>1, <2>2, HoldsElements, Zenon
    <2> QED  BY <2>3 DEF HoldsElement
  <1>13. SubSeq(xs, 1, 0) = <<>> /\ SubSeq(xs, 1, N) = xs
    <2>1. xs \in Seq(Range(xs)) /\ DOMAIN xs = 1 .. N  BY SeqLen DEF IsSeq
    <2> QED  BY <2>1, LenProperties
  <1>14. at + 1 <= Len(blob) => ReadSoFar(blob, at + 1, pos, xs, G, 0) = Good(at + 1, <<>>)
    <2>1. 1 .. 0 \subseteq G  OBVIOUS
    <2>2. at + 1 + pos[0] = at + 1  BY <1>5
    <2> QED  BY <1>13, <2>1, <2>2, Zenon DEF ReadSoFar
  <1>15. ReadSoFar(blob, at + 1, pos, xs, G, N)
           = IF 1 .. N \subseteq G THEN Out(blob, at, w, xs) ELSE Failed
    <2>1. at + 1 + pos[N] = at + Len(w)  BY <1>5, <1>9
    <2> QED  BY <1>13, <2>1 DEF ReadSoFar, Out
  <1> QED  BY <1>3, <1>9, <1>10, <1>11, <1>12, <1>14, <1>15 DEF Laid

\* Each turn, if those before it have not failed, reads one element.
TurnsRead(blob, at, pos, xs, ws, G, one, N) ==
  \A n \in 1 .. N : ReadSoFar(blob, at, pos, xs, G, n - 1).ok =>
    one[n] = IF n \in G THEN Out(blob, at + pos[n - 1], ws[n], xs[n]) ELSE Failed

\* What the loop has read after each turn.
LEMMA ListRun ==
  ASSUME NEW blob, Len(blob) \in Nat, NEW at \in Nat, NEW N \in Nat, NEW xs, IsSeq(xs), Len(xs) = N,
         NEW ws, AreParts(ws, N), NEW pos, IsPlaces(pos, ws, N), NEW G, NEW one,
         TurnsRead(blob, at, pos, xs, ws, G, one, N)
  PROVE  \A n \in 1 .. N : Add(ReadSoFar(blob, at, pos, xs, G, n - 1), one[n])
                              = ReadSoFar(blob, at, pos, xs, G, n)
PROOF
  <1> TAKE n \in 1 .. N
  <1> DEFINE y == one[n]
             prev == ReadSoFar(blob, at, pos, xs, G, n - 1)
             L == Len(blob)
             a == at + pos[n - 1]
             b == at + pos[n]
  <1>1. Len(ws[n]) \in Nat  BY SeqLen DEF AreParts
  <1>2. pos[n] = pos[n - 1] + Len(ws[n]) /\ pos[n - 1] \in Nat /\ pos[n] \in Nat
    <2>1. n - 1 \in 0 .. N /\ n \in 0 .. N  OBVIOUS
    <2> QED  BY <2>1 DEF IsPlaces
  <1>3. a \in Nat /\ b \in Nat /\ b = a + Len(ws[n])
    <2> DEFINE d == Len(ws[n])
               p == pos[n - 1]
               q == pos[n]
    <2>1. q = p + d /\ p \in Nat /\ q \in Nat /\ d \in Nat  BY <1>1, <1>2
    <2> HIDE DEF d, p, q
    <2>2. at + p \in Nat /\ at + q \in Nat /\ at + q = at + p + d  BY <2>1
    <2> QED  BY <2>2 DEF d, p, q
  <1>4. 1 .. n \subseteq G <=> 1 .. n - 1 \subseteq G /\ n \in G  OBVIOUS
  <1>5. SubSeq(xs, 1, n) = Append(SubSeq(xs, 1, n - 1), xs[n])
    <2>1. xs \in Seq(Range(xs)) /\ DOMAIN xs = 1 .. N  BY SeqLen DEF IsSeq
    <2> HIDE DEF prev, L, a, b
    <2> QED  BY <2>1, LenProperties
  <1>6. CASE ~(1 .. n - 1 \subseteq G /\ a <= L)
    <2>1. ~prev.ok  BY <1>6 DEF ReadSoFar, Failed
    <2>2. ~(1 .. n \subseteq G /\ b <= L)  BY <1>3, <1>4, <1>6
    <2>3. ReadSoFar(blob, at, pos, xs, G, n) = Failed  BY <2>2 DEF ReadSoFar
    <2> QED  BY <2>1, <2>3 DEF Add
  <1>7. CASE 1 .. n - 1 \subseteq G /\ a <= L
    <2>1. prev = Good(a, SubSeq(xs, 1, n - 1))  BY <1>7 DEF ReadSoFar
    <2>2. prev.ok /\ prev.got = SubSeq(xs, 1, n - 1)  BY <2>1 DEF Good
    <2>3. y = IF n \in G THEN Out(blob, a, ws[n], xs[n]) ELSE Failed  BY <2>2 DEF TurnsRead
    <2>4. CASE n \in G /\ b <= L
      <3>1. y = Good(b, xs[n])  BY <1>3, <2>3, <2>4 DEF Out
      <3>2. y.ok /\ y.at = b /\ y.got = xs[n]  BY <3>1 DEF Good
      <3>3. Add(prev, y) = Good(b, SubSeq(xs, 1, n))  BY <1>5, <2>2, <3>2 DEF Add
      <3> QED  BY <1>4, <1>7, <2>4, <3>3 DEF ReadSoFar
    <2>5. CASE ~(n \in G /\ b <= L)
      <3>1. ~y.ok  BY <1>3, <2>3, <2>5 DEF Out, Failed
      <3>2. ReadSoFar(blob, at, pos, xs, G, n) = Failed  BY <1>4, <2>5 DEF ReadSoFar
      <3> QED  BY <3>1, <3>2 DEF Add
    <2> QED  BY <2>4, <2>5
  <1> QED  BY <1>6, <1>7

LEMMA MembersRead ==
  ASSUME NEW blob, NEW at \in Nat, NEW got, Len(blob) \in Nat,
         NEW xs, IsSeq(xs), \A i \in 1 .. Len(xs) : HasFields(xs[i], MemberFields),
         Holds(blob, at, WriteList(WriteMember, xs))
  PROVE  /\ IsSeq(WriteList(WriteMember, xs))
         /\ ReadList(blob, Good(at, got), MaxStructMemberCount, ReadMember)
              = IF Len(xs) <= MaxStructMemberCount /\ \A i \in 1 .. Len(xs) : ReadableMember(xs[i])
                THEN Out(blob, at, WriteList(WriteMember, xs), xs) ELSE Failed
PROOF
  <1> DEFINE N == Len(xs)
             max == MaxStructMemberCount
             w == WriteList(WriteMember, xs)
             ws == [i \in 1 .. N |-> WriteMember(xs[i])]
             G == {i \in 1 .. N : ReadableMember(xs[i])}
             Turn(f, n, a) == IF n = 0 THEN Good(a + 1, <<>>)
                           ELSE LET prev == f[n - 1] IN Add(prev, ReadMember(blob, prev))
             Is(f, k, a) == f = [n \in 0 .. k |-> Turn(f, n, a)]
             list == CHOOSE f : Is(f, N, at)
  <1>1. N \in Nat /\ DOMAIN xs = 1 .. N  BY SeqLen
  <1>2. IsFramed(w, N, ws)  BY <1>1 DEF WriteList, IsFramed
  <1>3. AreParts(ws, N) /\ \A i \in 1 .. N : ws[i] = WriteMember(xs[i])
    BY MemberIsSeq DEF AreParts
  <1>4. /\ IsSeq(w)
        /\ at + 1 <= Len(blob) => blob[at + 1] = N
        /\ at + 1 > Len(blob) => Out(blob, at, w, xs) = Failed
        /\ \E pos : Laid(blob, at, N, xs, ws, w, G, pos)
    <2> HIDE DEF ws, w, N, G
    <2>1. Holds(blob, at, w) /\ Len(xs) = N  BY DEF w, N
    <2> QED  BY <1>1, <1>2, <1>3, <2>1, ListPlaces, ZenonT(60)
  <1>5. CASE at + 1 > Len(blob)
    <2>1. ReadList(blob, Good(at, got), max, ReadMember) = Failed  BY <1>5 DEF ReadList, Good
    <2> QED  BY <1>4, <1>5, <2>1
  <1>6. CASE at + 1 <= Len(blob)
    <2> DEFINE b == blob[at + 1]
    <2>1. b = N  BY <1>4, <1>6
    <2>2. ReadList(blob, Good(at, got), max, ReadMember) = IF N > max THEN Failed ELSE list[N]
      <3> DEFINE r == Good(at, got)
                 k == blob[r.at + 1]
      <3>1. r.ok /\ r.at = at  BY DEF Good
      <3> HIDE DEF r
      <3>2. ReadList(blob, r, max, ReadMember)
              = IF ~r.ok \/ r.at + 1 > Len(blob) THEN Failed
                ELSE IF k > max THEN Failed ELSE (CHOOSE f : Is(f, k, r.at))[k]
        BY DEF ReadList
      <3> HIDE DEF Is
      <3>3. k = N  BY <2>1, <3>1
      <3> HIDE DEF k
      <3> QED  BY <1>6, <3>1, <3>2, <3>3 DEF r
    <2>3. PICK pos : /\ IsPlaces(pos, ws, N)
                     /\ HoldsElement(blob, at + 1, pos, ws, N)
                     /\ ReadSoFar(blob, at + 1, pos, xs, G, 0) = Good(at + 1, <<>>)
                     /\ ReadSoFar(blob, at + 1, pos, xs, G, N)
                          = IF 1 .. N \subseteq G THEN Out(blob, at, w, xs) ELSE Failed
      <3> HIDE DEF ws, w, N, G
      <3> QED  BY <1>4, <1>6 DEF Laid
    <2> DEFINE E == [n \in 0 .. N |-> ReadSoFar(blob, at + 1, pos, xs, G, n)]
               one == [n \in 1 .. N |-> ReadMember(blob, ReadSoFar(blob, at + 1, pos, xs, G, n - 1))]
    <2>4. TurnsRead(blob, at + 1, pos, xs, ws, G, one, N)
      <3> SUFFICES ASSUME NEW n \in 1 .. N, ReadSoFar(blob, at + 1, pos, xs, G, n - 1).ok
                   PROVE  one[n] = IF n \in G THEN Out(blob, at + 1 + pos[n - 1], ws[n], xs[n]) ELSE Failed
        BY DEF TurnsRead
      <3> DEFINE here == at + 1 + pos[n - 1]
                 soFar == SubSeq(xs, 1, n - 1)
                 x == xs[n]
      <3>1. ReadSoFar(blob, at + 1, pos, xs, G, n - 1) = Good(here, soFar)
        BY DEF ReadSoFar, Failed
      <3>2. here \in Nat
        <4>1. n - 1 \in 0 .. N  OBVIOUS
        <4>2. pos[n - 1] \in Nat  BY <2>3, <4>1 DEF IsPlaces
        <4> HIDE DEF N
        <4> QED  BY <4>2
      <3>3. Holds(blob, here, WriteMember(x)) /\ HasFields(x, MemberFields)  BY <1>3, <2>3 DEF HoldsElement
      <3>4. n \in G <=> ReadableMember(x)  OBVIOUS
      <3> HIDE DEF here, soFar, x, G, N, ws
      <3>5. ReadMember(blob, Good(here, soFar))
              = IF ReadableMember(x) THEN Out(blob, here, WriteMember(x), x) ELSE Failed
        BY <3>2, <3>3, MemberRead
      <3> QED  BY <1>3, <3>1, <3>4, <3>5 DEF here, x
    <2>5. \A n \in 1 .. N : Add(ReadSoFar(blob, at + 1, pos, xs, G, n - 1), one[n])
                               = ReadSoFar(blob, at + 1, pos, xs, G, n)
      <3> HIDE DEF ws, G, one, N
      <3>1. at + 1 \in Nat /\ Len(xs) = N  BY DEF N
      <3> QED  BY <1>1, <1>3, <2>3, <2>4, <3>1, ListRun
    <2>6. Is(E, N, at)
      <3>1. \A n \in 0 .. N : E[n] = Turn(E, n, at)
        <4> TAKE n \in 0 .. N
        <4>1. CASE n = 0  BY <2>3, <4>1
        <4>2. CASE n # 0
          <5>1. n \in 1 .. N /\ n - 1 \in 0 .. N  BY <4>2
          <5> HIDE DEF G, N
          <5> QED  BY <2>5, <4>2, <5>1
        <4> QED  BY <4>1, <4>2
      <3> HIDE DEF Turn
      <3> QED  BY <3>1
    <2>7. Is(list, N, at)
      <3> HIDE DEF Is
      <3> QED  BY <2>6, Zenon
    <2>8. list[N] = E[N]
      <3>1. \A n \in 0 .. N : list[n] = Turn(list, n, at) /\ E[n] = Turn(E, n, at)
        <4> HIDE DEF Turn, list, E
        <4> QED  BY <2>6, <2>7, Zenon
      <3>2. 0 \in 0 .. N /\ list[0] = E[0]
        <4>1. 0 \in 0 .. N  BY <1>1
        <4> HIDE DEF list, E
        <4> QED  BY <3>1, <4>1
      <3>3. ASSUME NEW n \in 1 .. N, list[n - 1] = E[n - 1]  PROVE list[n] = E[n]
        <4>1. n \in 0 .. N /\ n # 0  OBVIOUS
        <4> HIDE DEF list, E, N
        <4> QED  BY <3>1, <3>3, <4>1
      <3> HIDE DEF list, E, N
      <3> QED  BY <1>1, <3>2, <3>3, ListInduction
    <2>9. E[N] = IF 1 .. N \subseteq G THEN Out(blob, at, w, xs) ELSE Failed
      <3>1. N \in 0 .. N  BY <1>1
      <3> HIDE DEF G, N, w
      <3> QED  BY <2>3, <3>1
    <2>10. 1 .. N \subseteq G <=> \A i \in 1 .. N : ReadableMember(xs[i])  OBVIOUS
    <2>11. N > max <=> ~(N <= max)  BY <1>1, CodecLimitsAssumption
    <2> HIDE DEF list, E, G, w, N
    <2>12. ReadList(blob, Good(at, got), max, ReadMember)
             = IF N <= max /\ (\A i \in 1 .. N : ReadableMember(xs[i]))
               THEN Out(blob, at, w, xs) ELSE Failed
      BY <2>2, <2>8, <2>9, <2>10, <2>11
    <2> QED  BY <2>12, <1>4 DEF N, w
  <1> QED  BY <1>5, <1>6, <1>1
------------------------------------------------------------------------------
(* Bindings.                                                               *)

HeadFields == <<"name", "type", "set", "binding", "array_size", "stages">>
HintFields ==
  <<"storage_format_hint", "storage_access_hint", "multisampled", "depth_texture", "dynamic_offset">>

BindingFields ==
  {"name", "type", "set", "binding", "array_size", "stages", "slots", "struct_members",
   "storage_format_hint", "storage_access_hint", "multisampled", "depth_texture", "dynamic_offset"}

\* A binding as a reflection has them.
IsBinding(b) ==
  /\ b = Part(b, BindingFields)
  /\ AreSlots(b.slots)
  /\ IsSeq(b.struct_members)
  /\ \A i \in 1 .. Len(b.struct_members) : HasFields(b.struct_members[i], MemberFields)

LEMMA BindingFieldLists ==
  /\ IsSeq(HeadFields)
  /\ Range(HeadFields) = {"name", "type", "set", "binding", "array_size", "stages"}
  /\ IsSeq(HintFields)
  /\ Range(HintFields) = {"storage_format_hint", "storage_access_hint", "multisampled", "depth_texture",
                          "dynamic_offset"}
PROOF
  <1>1. HeadFields = [i \in 1 .. 6 |-> HeadFields[i]]  BY DEF HeadFields
  <1>2. HintFields = [i \in 1 .. 5 |-> HintFields[i]]  BY DEF HintFields
  <1>3. IsSeq(HeadFields) /\ IsSeq(HintFields)  BY <1>1, <1>2, FunctionIsSeq
  <1>4. Range(HeadFields) = {"name", "type", "set", "binding", "array_size", "stages"}
    BY DEF Range, HeadFields
  <1>5. Range(HintFields) = {"storage_format_hint", "storage_access_hint", "multisampled",
                             "depth_texture", "dynamic_offset"}
    BY DEF Range, HintFields
  <1> QED  BY <1>3, <1>4, <1>5

LEMMA SlotsAfterFailure ==
  ASSUME NEW blob
  PROVE  ReadSlots(blob, Failed) = Failed
PROOF
  <1> DEFINE metal == As("metal", ReadOptional(blob, Failed, MetalFields))
             webgpu == As("webgpu", ReadOptional(blob, metal, WebGpuFields))
  <1>1. ReadSlots(blob, Failed) = Both(metal, webgpu)  BY DEF ReadSlots, MetalFields, WebGpuFields
  <1>2. ~metal.ok
    <2>1. metal = As("metal", Failed)  BY OptionalAfterFailure
    <2> HIDE DEF metal
    <2> QED  BY <2>1 DEF As, Failed
  <1> HIDE DEF metal, webgpu
  <1> QED  BY <1>1, <1>2 DEF Both

LEMMA SlotsIsSeq ==
  ASSUME NEW slots
  PROVE  IsSeq(WriteSlots(slots))
PROOF
  <1>1. IsSeq(WriteOptional(slots.metal, MetalFields)) /\ IsSeq(WriteOptional(slots.webgpu, WebGpuFields))
    BY OptionalIsSeq, FieldLists, SeqLen
  <1>2. WriteSlots(slots) = WriteOptional(slots.metal, MetalFields) \o WriteOptional(slots.webgpu, WebGpuFields)
    BY DEF WriteSlots, MetalFields, WebGpuFields
  <1> QED  BY <1>1, <1>2, ConcatValues

\* What a list of members is written as.
LEMMA MembersIsSeq ==
  ASSUME NEW xs, IsSeq(xs)
  PROVE  IsSeq(WriteList(WriteMember, xs))
PROOF
  <1> DEFINE ws == [i \in 1 .. Len(xs) |-> WriteMember(xs[i])]
             one == <<Len(xs)>>
             flat == FlattenSeq(ws)
  <1>1. Len(xs) \in Nat /\ DOMAIN xs = 1 .. Len(xs)  BY SeqLen
  <1>2. AreParts(ws, Len(xs))  BY MemberIsSeq DEF AreParts
  <1>3. WriteList(WriteMember, xs) = one \o flat  BY <1>1 DEF WriteList
  <1>4. IsSeq(flat) /\ IsSeq(one)
    <2> HIDE DEF ws
    <2> QED  BY <1>1, <1>2, FlattenPlaces, OneValue
  <1> HIDE DEF one, flat
  <1> QED  BY <1>3, <1>4, ConcatValues

\* A binding is written in four parts.
LEMMA BindingParts ==
  ASSUME NEW b, IsBinding(b)
  PROVE  /\ WriteBinding(b)
              = ((Write(b, HeadFields) \o WriteSlots(b.slots)) \o WriteList(WriteMember, b.struct_members))
                  \o Write(b, HintFields)
         /\ IsSeq(Write(b, HeadFields)) /\ IsSeq(WriteSlots(b.slots))
         /\ IsSeq(WriteList(WriteMember, b.struct_members)) /\ IsSeq(Write(b, HintFields))
PROOF
  <1>1. WriteBinding(b)
          = ((Write(b, HeadFields) \o WriteSlots(b.slots)) \o WriteList(WriteMember, b.struct_members))
              \o Write(b, HintFields)
    BY DEF WriteBinding, HeadFields, HintFields
  <1>2. Len(HeadFields) \in Nat /\ Len(HintFields) \in Nat  BY BindingFieldLists, SeqLen
  <1>3. IsSeq(b.struct_members)  BY DEF IsBinding
  <1> QED  BY <1>1, <1>2, <1>3, WriteIsSeq, SlotsIsSeq, MembersIsSeq

\* Readers in a row, each from where the one before it stopped.
LEMMA ThreeRead ==
  ASSUME NEW blob, NEW at \in Nat, Len(blob) \in Nat,
         NEW u, NEW v, NEW w, IsSeq(u), IsSeq(v), IsSeq(w), NEW x, NEW y, NEW z,
         NEW r, NEW s, NEW t, r = Out(blob, at, u, x),
         r.ok => s = Out(blob, at + Len(u), v, y),
         s.ok => t = Out(blob, at + Len(u \o v), w, z)
  PROVE  Both(Both(r, s), t) = Out(blob, at, (u \o v) \o w, Merge(Merge(x, y), z))
PROOF
  <1>1. Both(r, s) = Out(blob, at, u \o v, Merge(x, y))  BY BothRead
  <1>2. Both(r, s).ok => s.ok  BY DEF Both, Failed
  <1>3. IsSeq(u \o v)  BY ConcatValues
  <1> DEFINE uv == u \o v
             xy == Merge(x, y)
             rs == Both(r, s)
  <1>4. rs = Out(blob, at, uv, xy) /\ IsSeq(uv) /\ (rs.ok => t = Out(blob, at + Len(uv), w, z))
    BY <1>1, <1>2, <1>3
  <1>5. Both(rs, t) = Out(blob, at, uv \o w, Merge(xy, z))
    <2> HIDE DEF uv, xy, rs
    <2> QED  BY <1>4, BothRead
  <1> QED  BY <1>5

LEMMA FourRead ==
  ASSUME NEW blob, NEW at \in Nat, Len(blob) \in Nat,
         NEW u, NEW v, NEW w, NEW q, IsSeq(u), IsSeq(v), IsSeq(w), IsSeq(q),
         NEW x, NEW y, NEW z, NEW c,
         NEW r, NEW s, NEW t, NEW d, r = Out(blob, at, u, x),
         r.ok => s = Out(blob, at + Len(u), v, y),
         s.ok => t = Out(blob, at + Len(u \o v), w, z),
         t.ok => d = Out(blob, at + Len((u \o v) \o w), q, c)
  PROVE  Both(Both(Both(r, s), t), d)
           = Out(blob, at, ((u \o v) \o w) \o q, Merge(Merge(Merge(x, y), z), c))
PROOF
  <1> DEFINE uv == (u \o v) \o w
             xy == Merge(Merge(x, y), z)
             rs == Both(Both(r, s), t)
  <1>1. rs = Out(blob, at, uv, xy)  BY ThreeRead
  <1>2. rs.ok => t.ok  BY DEF Both, Failed
  <1>3. IsSeq(u \o v)  BY ConcatValues
  <1>4. IsSeq(uv)
    <2> DEFINE p == u \o v
    <2>1. IsSeq(p)  BY <1>3
    <2> HIDE DEF p
    <2>2. IsSeq(p \o w)  BY <2>1, ConcatValues
    <2> QED  BY <2>2 DEF p
  <1>5. rs.ok => d = Out(blob, at + Len(uv), q, c)  BY <1>2
  <1>6. Both(rs, d) = Out(blob, at, uv \o q, Merge(xy, c))
    <2> HIDE DEF uv, xy, rs
    <2> QED  BY <1>1, <1>4, <1>5, BothRead
  <1> QED  BY <1>6

\* A binding is read as it was written.
LEMMA BindingRead ==
  ASSUME NEW blob, NEW at \in Nat, NEW got, Len(blob) \in Nat,
         NEW b, IsBinding(b), Holds(blob, at, WriteBinding(b))
  PROVE  ReadBinding(blob, Good(at, got))
           = IF ReadableBinding(b) THEN Out(blob, at, WriteBinding(b), b) ELSE Failed
PROOF
  <1> DEFINE members == b.struct_members
             u == Write(b, HeadFields)
             v == WriteSlots(b.slots)
             w == WriteList(WriteMember, members)
             q == Write(b, HintFields)
             p2 == at + Len(u)
             p3 == at + Len(u \o v)
             p4 == at + Len((u \o v) \o w)
             start == Good(at, got)
             r == Read(blob, start, HeadFields)
             s == As("slots", ReadSlots(blob, r))
             t == As("struct_members", ReadList(blob, s, MaxStructMemberCount, ReadMember))
             d == ReadHints(blob, t)
             Short == /\ Len(members) <= MaxStructMemberCount
                      /\ \A i \in 1 .. Len(members) : ReadableMember(members[i])
             X == Part(b, Range(HeadFields))
             Y == Part(b, {"slots"})
             Z == Part(b, {"struct_members"})
             C == Part(b, Range(HintFields))
  <1>1. /\ WriteBinding(b) = ((u \o v) \o w) \o q
        /\ IsSeq(u) /\ IsSeq(v) /\ IsSeq(w) /\ IsSeq(q)
    BY BindingParts
  <1>2. ReadBinding(blob, start) = Both(Both(Both(r, s), t), d)
    BY DEF ReadBinding, HeadFields
  <1> HIDE DEF u, v, w, q
  <1>3. IsSeq(u \o v) /\ Len(u \o v) = Len(u) + Len(v)  BY <1>1, ConcatValues
  <1>4. IsSeq((u \o v) \o w) /\ Len((u \o v) \o w) = Len(u \o v) + Len(w)
    <2> DEFINE uv == u \o v
    <2>1. IsSeq(uv)  BY <1>3
    <2> HIDE DEF uv
    <2>2. IsSeq(uv \o w) /\ Len(uv \o w) = Len(uv) + Len(w)  BY <1>1, <2>1, ConcatValues
    <2> QED  BY <2>2 DEF uv
  <1>5. Len(u) \in Nat /\ Len(v) \in Nat /\ Len(w) \in Nat /\ Len(u \o v) \in Nat
        /\ Len((u \o v) \o w) \in Nat
    BY <1>1, <1>3, <1>4, SeqLen
  <1>6. p2 \in Nat /\ p3 \in Nat /\ p4 \in Nat /\ p3 = p2 + Len(v) /\ p4 = p3 + Len(w)
    BY <1>3, <1>4, <1>5
  <1>7. Holds(blob, at, u) /\ Holds(blob, p2, v) /\ Holds(blob, p3, w) /\ Holds(blob, p4, q)
    <2> DEFINE uv == u \o v
               uvw == uv \o w
    <2>1. IsSeq(uv) /\ IsSeq(uvw) /\ Holds(blob, at, uvw \o q)  BY <1>1, <1>3, <1>4
    <2>2. Holds(blob, at, uvw) /\ Holds(blob, at + Len(uvw), q)
      <3> HIDE DEF uvw
      <3> QED  BY <1>1, <2>1, HoldsParts
    <2>3. Holds(blob, at, uv) /\ Holds(blob, at + Len(uv), w)
      <3> HIDE DEF uv
      <3> QED  BY <1>1, <2>1, <2>2, HoldsParts
    <2>4. Holds(blob, at, u) /\ Holds(blob, at + Len(u), v)  BY <1>1, <2>3, HoldsParts
    <2> QED  BY <2>2, <2>3, <2>4
  <1> HIDE DEF p2, p3, p4, start
  <1>8. r = IF ShortTexts(b, HeadFields) THEN Out(blob, at, u, X) ELSE Failed
    <2> QED  BY <1>7, BindingFieldLists, FieldsRead DEF start, u
  <1>9. ASSUME ShortTexts(b, HeadFields), r.ok
        PROVE  s = Out(blob, p2, v, Y)
    <2>1. r = Good(p2, X)
      <3> HIDE DEF r, X
      <3> QED  BY <1>8, <1>9, OutGood DEF p2
    <2>2. AreSlots(b.slots)  BY DEF IsBinding
    <2>3. ReadSlots(blob, r) = Out(blob, p2, v, b.slots)
      <3> HIDE DEF r, X
      <3> QED  BY <1>6, <1>7, <2>1, <2>2, SlotsRead DEF v
    <2> HIDE DEF r
    <2> QED  BY <2>3, AsRead
  <1>10. ASSUME ShortTexts(b, HeadFields), s.ok
         PROVE  t = IF Short THEN Out(blob, p3, w, Z) ELSE Failed
    <2>1. r.ok
      <3> SUFFICES ASSUME ~r.ok PROVE FALSE  OBVIOUS
      <3>1. r = Failed  BY <1>8 DEF Out, Good
      <3>2. s = As("slots", ReadSlots(blob, Failed))  BY <3>1
      <3>3. ~s.ok
        <4>1. ReadSlots(blob, Failed) = Failed  BY SlotsAfterFailure
        <4>2. As("slots", Failed) = Failed  BY DEF As, Failed
        <4>3. ~Failed.ok  BY DEF Failed
        <4> HIDE DEF s
        <4> QED  BY <3>2, <4>1, <4>2, <4>3, Zenon
      <3> QED  BY <1>10, <3>3
    <2>2. s = Out(blob, p2, v, Y)  BY <1>9, <1>10, <2>1
    <2>3. s = Good(p3, Y)
      <3> HIDE DEF s, Y
      <3> QED  BY <1>6, <1>10, <2>2, OutGood
    <2>4. IsSeq(members) /\ \A i \in 1 .. Len(members) : HasFields(members[i], MemberFields)
      BY DEF IsBinding
    <2>5. ReadList(blob, s, MaxStructMemberCount, ReadMember)
            = IF Short THEN Out(blob, p3, w, members) ELSE Failed
      <3> HIDE DEF s, Y, members
      <3>1. ReadList(blob, Good(p3, Y), MaxStructMemberCount, ReadMember)
              = IF Short THEN Out(blob, p3, w, members) ELSE Failed
        BY <1>6, <1>7, <2>4, MembersRead DEF w
      <3> QED  BY <2>3, <3>1
    <2>6. CASE Short
      <3> HIDE DEF s, Short
      <3> QED  BY <2>5, <2>6, AsRead
    <2>7. CASE ~Short
      <3> HIDE DEF s, Short
      <3> QED  BY <2>5, <2>7 DEF As, Failed
    <2> QED  BY <2>6, <2>7
  <1>11. ASSUME ShortTexts(b, HeadFields), Short, t.ok
         PROVE  d = IF ShortTexts(b, HintFields) THEN Out(blob, p4, q, C) ELSE Failed
    <2>1. s.ok
      <3> SUFFICES ASSUME ~s.ok PROVE FALSE  OBVIOUS
      <3> HIDE DEF s
      <3>1. ReadList(blob, s, MaxStructMemberCount, ReadMember) = Failed  BY DEF ReadList
      <3>2. ~t.ok  BY <3>1 DEF As, Failed
      <3> QED  BY <1>11, <3>2
    <2>2. t = Out(blob, p3, w, Z)
      <3> HIDE DEF s, t, Short
      <3> QED  BY <1>10, <1>11, <2>1
    <2>3. t = Good(p4, Z)
      <3> HIDE DEF t, Z
      <3> QED  BY <1>6, <1>11, <2>2, OutGood
    <2>4. ReadHints(blob, Good(p4, Z)) = Read(blob, Good(p4, Z), HintFields)
      BY DEF ReadHints, HintFields
    <2>5. Read(blob, Good(p4, Z), HintFields)
            = IF ShortTexts(b, HintFields) THEN Out(blob, p4, q, C) ELSE Failed
      <3> HIDE DEF Z
      <3> QED  BY <1>6, <1>7, BindingFieldLists, FieldsRead DEF q
    <2> HIDE DEF t
    <2> QED  BY <2>3, <2>4, <2>5
  <1>12. ReadableBinding(b) <=> ShortTexts(b, HeadFields) /\ Short /\ ShortTexts(b, HintFields)
    <2>1. ShortTexts(b, HeadFields) <=> b.name \notin LongStrings
      BY BindingFieldLists DEF ShortTexts, Texts
    <2>2. ShortTexts(b, HintFields)
            <=> b.storage_format_hint \notin LongStrings /\ b.storage_access_hint \notin LongStrings
      BY BindingFieldLists DEF ShortTexts, Texts
    <2>3. DOMAIN members = 1 .. Len(members)
      <3>1. IsSeq(members)  BY DEF IsBinding
      <3> QED  BY <3>1, SeqLen
    <2> QED  BY <2>1, <2>2, <2>3 DEF ReadableBinding
  <1> HIDE DEF r, s, t, d, Short, X, Y, Z, C
  <1>13. CASE ShortTexts(b, HeadFields) /\ Short /\ ShortTexts(b, HintFields)
    <2>1. Both(Both(Both(r, s), t), d)
            = Out(blob, at, ((u \o v) \o w) \o q, Merge(Merge(Merge(X, Y), Z), C))
      <3>1. r = Out(blob, at, u, X) /\ (r.ok => s = Out(blob, at + Len(u), v, Y))
            /\ (s.ok => t = Out(blob, at + Len(u \o v), w, Z))
            /\ (t.ok => d = Out(blob, at + Len((u \o v) \o w), q, C))
        BY <1>8, <1>9, <1>10, <1>11, <1>13 DEF p2, p3, p4
      <3> QED  BY <1>1, <3>1, FourRead
    <2>2. Merge(Merge(Merge(X, Y), Z), C) = b
      <3>1. Merge(X, Y) = Part(b, Range(HeadFields) \cup {"slots"})  BY MergeParts DEF X, Y
      <3>2. Merge(Merge(X, Y), Z) = Part(b, Range(HeadFields) \cup {"slots"} \cup {"struct_members"})
        BY <3>1, MergeParts DEF Z
      <3>3. Merge(Merge(Merge(X, Y), Z), C)
              = Part(b, Range(HeadFields) \cup {"slots"} \cup {"struct_members"} \cup Range(HintFields))
        BY <3>2, MergeParts DEF C
      <3>4. Range(HeadFields) \cup {"slots"} \cup {"struct_members"} \cup Range(HintFields) = BindingFields
        BY BindingFieldLists DEF BindingFields
      <3> QED  BY <3>3, <3>4 DEF IsBinding
    <2> QED  BY <1>1, <1>2, <1>12, <1>13, <2>1, <2>2 DEF start
  <1>14. CASE ~(ShortTexts(b, HeadFields) /\ Short /\ ShortTexts(b, HintFields))
    <2>1. CASE ~ShortTexts(b, HeadFields)
      <3>1. r = Failed  BY <1>8, <2>1
      <3>2. Both(Both(Both(r, s), t), d) = Failed  BY <3>1 DEF Both, Failed
      <3> QED  BY <1>2, <1>12, <1>14, <3>2 DEF start
    <2>2. CASE ShortTexts(b, HeadFields) /\ ~Short
      <3>1. s.ok => t = Failed  BY <1>10, <2>2
      <3>2. Both(Both(Both(r, s), t), d) = Failed  BY <3>1 DEF Both, Failed
      <3> QED  BY <1>2, <1>12, <1>14, <3>2 DEF start
    <2>3. CASE ShortTexts(b, HeadFields) /\ Short /\ ~ShortTexts(b, HintFields)
      <3>1. t.ok => d = Failed  BY <1>11, <2>3
      <3>2. Both(Both(Both(r, s), t), d) = Failed  BY <3>1 DEF Both, Failed
      <3> QED  BY <1>2, <1>12, <1>14, <3>2 DEF start
    <2> QED  BY <1>14, <2>1, <2>2, <2>3
  <1> QED  BY <1>13, <1>14 DEF start

LEMMA BindingIsSeq ==
  ASSUME NEW b, IsBinding(b)
  PROVE  IsSeq(WriteBinding(b))
PROOF
  <1> DEFINE u == Write(b, HeadFields)
             v == WriteSlots(b.slots)
             w == WriteList(WriteMember, b.struct_members)
             q == Write(b, HintFields)
             uv == u \o v
             uvw == uv \o w
  <1>1. WriteBinding(b) = uvw \o q /\ IsSeq(u) /\ IsSeq(v) /\ IsSeq(w) /\ IsSeq(q)
    BY BindingParts
  <1> HIDE DEF u, v, w, q
  <1>2. IsSeq(uv)  BY <1>1, ConcatValues
  <1>3. IsSeq(uvw)
    <2> HIDE DEF uv
    <2> QED  BY <1>1, <1>2, ConcatValues
  <1> HIDE DEF uvw
  <1> QED  BY <1>1, <1>3, ConcatValues

LEMMA BindingsRead ==
  ASSUME NEW blob, NEW at \in Nat, NEW got, Len(blob) \in Nat,
         NEW xs, IsSeq(xs), \A i \in 1 .. Len(xs) : IsBinding(xs[i]),
         Holds(blob, at, WriteList(WriteBinding, xs))
  PROVE  /\ IsSeq(WriteList(WriteBinding, xs))
         /\ ReadList(blob, Good(at, got), MaxBindingCount, ReadBinding)
              = IF Len(xs) <= MaxBindingCount /\ \A i \in 1 .. Len(xs) : ReadableBinding(xs[i])
                THEN Out(blob, at, WriteList(WriteBinding, xs), xs) ELSE Failed
PROOF
  <1> DEFINE N == Len(xs)
             max == MaxBindingCount
             w == WriteList(WriteBinding, xs)
             ws == [i \in 1 .. N |-> WriteBinding(xs[i])]
             G == {i \in 1 .. N : ReadableBinding(xs[i])}
             Turn(f, n, a) == IF n = 0 THEN Good(a + 1, <<>>)
                           ELSE LET prev == f[n - 1] IN Add(prev, ReadBinding(blob, prev))
             Is(f, k, a) == f = [n \in 0 .. k |-> Turn(f, n, a)]
             list == CHOOSE f : Is(f, N, at)
  <1>1. N \in Nat /\ DOMAIN xs = 1 .. N  BY SeqLen
  <1>2. IsFramed(w, N, ws)  BY <1>1 DEF WriteList, IsFramed
  <1>3. AreParts(ws, N) /\ \A i \in 1 .. N : ws[i] = WriteBinding(xs[i])
    BY <1>1, BindingIsSeq DEF AreParts
  <1>4. /\ IsSeq(w)
        /\ at + 1 <= Len(blob) => blob[at + 1] = N
        /\ at + 1 > Len(blob) => Out(blob, at, w, xs) = Failed
        /\ \E pos : Laid(blob, at, N, xs, ws, w, G, pos)
    <2> HIDE DEF ws, w, N, G
    <2>1. Holds(blob, at, w) /\ Len(xs) = N  BY DEF w, N
    <2> QED  BY <1>1, <1>2, <1>3, <2>1, ListPlaces, ZenonT(60)
  <1>5. CASE at + 1 > Len(blob)
    <2>1. ReadList(blob, Good(at, got), max, ReadBinding) = Failed  BY <1>5 DEF ReadList, Good
    <2> QED  BY <1>4, <1>5, <2>1
  <1>6. CASE at + 1 <= Len(blob)
    <2> DEFINE b == blob[at + 1]
    <2>1. b = N  BY <1>4, <1>6
    <2>2. ReadList(blob, Good(at, got), max, ReadBinding) = IF N > max THEN Failed ELSE list[N]
      <3> DEFINE r == Good(at, got)
                 k == blob[r.at + 1]
      <3>1. r.ok /\ r.at = at  BY DEF Good
      <3> HIDE DEF r
      <3>2. ReadList(blob, r, max, ReadBinding)
              = IF ~r.ok \/ r.at + 1 > Len(blob) THEN Failed
                ELSE IF k > max THEN Failed ELSE (CHOOSE f : Is(f, k, r.at))[k]
        BY DEF ReadList
      <3> HIDE DEF Is
      <3>3. k = N  BY <2>1, <3>1
      <3> HIDE DEF k
      <3> QED  BY <1>6, <3>1, <3>2, <3>3 DEF r
    <2>3. PICK pos : /\ IsPlaces(pos, ws, N)
                     /\ HoldsElement(blob, at + 1, pos, ws, N)
                     /\ ReadSoFar(blob, at + 1, pos, xs, G, 0) = Good(at + 1, <<>>)
                     /\ ReadSoFar(blob, at + 1, pos, xs, G, N)
                          = IF 1 .. N \subseteq G THEN Out(blob, at, w, xs) ELSE Failed
      <3> HIDE DEF ws, w, N, G
      <3> QED  BY <1>4, <1>6 DEF Laid
    <2> DEFINE E == [n \in 0 .. N |-> ReadSoFar(blob, at + 1, pos, xs, G, n)]
               one == [n \in 1 .. N |-> ReadBinding(blob, ReadSoFar(blob, at + 1, pos, xs, G, n - 1))]
    <2>4. TurnsRead(blob, at + 1, pos, xs, ws, G, one, N)
      <3> SUFFICES ASSUME NEW n \in 1 .. N, ReadSoFar(blob, at + 1, pos, xs, G, n - 1).ok
                   PROVE  one[n] = IF n \in G THEN Out(blob, at + 1 + pos[n - 1], ws[n], xs[n]) ELSE Failed
        BY DEF TurnsRead
      <3> DEFINE here == at + 1 + pos[n - 1]
                 soFar == SubSeq(xs, 1, n - 1)
                 x == xs[n]
      <3>1. ReadSoFar(blob, at + 1, pos, xs, G, n - 1) = Good(here, soFar)
        BY DEF ReadSoFar, Failed
      <3>2. here \in Nat
        <4>1. n - 1 \in 0 .. N  OBVIOUS
        <4>2. pos[n - 1] \in Nat  BY <2>3, <4>1 DEF IsPlaces
        <4> HIDE DEF N
        <4> QED  BY <4>2
      <3>3. Holds(blob, here, WriteBinding(x)) /\ IsBinding(x)  BY <1>3, <2>3 DEF HoldsElement
      <3>4. n \in G <=> ReadableBinding(x)  OBVIOUS
      <3> HIDE DEF here, soFar, x, G, N, ws
      <3>5. ReadBinding(blob, Good(here, soFar))
              = IF ReadableBinding(x) THEN Out(blob, here, WriteBinding(x), x) ELSE Failed
        BY <3>2, <3>3, BindingRead
      <3> QED  BY <1>3, <3>1, <3>4, <3>5 DEF here, x
    <2>5. \A n \in 1 .. N : Add(ReadSoFar(blob, at + 1, pos, xs, G, n - 1), one[n])
                               = ReadSoFar(blob, at + 1, pos, xs, G, n)
      <3> HIDE DEF ws, G, one, N
      <3>1. at + 1 \in Nat /\ Len(xs) = N  BY DEF N
      <3> QED  BY <1>1, <1>3, <2>3, <2>4, <3>1, ListRun
    <2>6. Is(E, N, at)
      <3>1. \A n \in 0 .. N : E[n] = Turn(E, n, at)
        <4> TAKE n \in 0 .. N
        <4>1. CASE n = 0  BY <2>3, <4>1
        <4>2. CASE n # 0
          <5>1. n \in 1 .. N /\ n - 1 \in 0 .. N  BY <4>2
          <5> HIDE DEF G, N
          <5> QED  BY <2>5, <4>2, <5>1
        <4> QED  BY <4>1, <4>2
      <3> HIDE DEF Turn
      <3> QED  BY <3>1
    <2>7. Is(list, N, at)
      <3> HIDE DEF Is
      <3> QED  BY <2>6, Zenon
    <2>8. list[N] = E[N]
      <3>1. \A n \in 0 .. N : list[n] = Turn(list, n, at) /\ E[n] = Turn(E, n, at)
        <4> HIDE DEF Turn, list, E
        <4> QED  BY <2>6, <2>7, Zenon
      <3>2. 0 \in 0 .. N /\ list[0] = E[0]
        <4>1. 0 \in 0 .. N  BY <1>1
        <4> HIDE DEF list, E
        <4> QED  BY <3>1, <4>1
      <3>3. ASSUME NEW n \in 1 .. N, list[n - 1] = E[n - 1]  PROVE list[n] = E[n]
        <4>1. n \in 0 .. N /\ n # 0  OBVIOUS
        <4> HIDE DEF list, E, N
        <4> QED  BY <3>1, <3>3, <4>1
      <3> HIDE DEF list, E, N
      <3> QED  BY <1>1, <3>2, <3>3, ListInduction
    <2>9. E[N] = IF 1 .. N \subseteq G THEN Out(blob, at, w, xs) ELSE Failed
      <3>1. N \in 0 .. N  BY <1>1
      <3> HIDE DEF G, N, w
      <3> QED  BY <2>3, <3>1
    <2>10. 1 .. N \subseteq G <=> \A i \in 1 .. N : ReadableBinding(xs[i])  OBVIOUS
    <2>11. N > max <=> ~(N <= max)  BY <1>1, CodecLimitsAssumption
    <2> HIDE DEF list, E, G, w, N
    <2>12. ReadList(blob, Good(at, got), max, ReadBinding)
             = IF N <= max /\ (\A i \in 1 .. N : ReadableBinding(xs[i]))
               THEN Out(blob, at, w, xs) ELSE Failed
      BY <2>2, <2>8, <2>9, <2>10, <2>11
    <2> QED  BY <2>12, <1>4 DEF N, w
  <1> QED  BY <1>5, <1>6, <1>1

\* What a list of bindings is written as.
LEMMA BindingsIsSeq ==
  ASSUME NEW xs, IsSeq(xs), \A i \in 1 .. Len(xs) : IsBinding(xs[i])
  PROVE  IsSeq(WriteList(WriteBinding, xs))
PROOF
  <1> DEFINE ws == [i \in 1 .. Len(xs) |-> WriteBinding(xs[i])]
             one == <<Len(xs)>>
             flat == FlattenSeq(ws)
  <1>1. Len(xs) \in Nat /\ DOMAIN xs = 1 .. Len(xs)  BY SeqLen
  <1>2. AreParts(ws, Len(xs))  BY BindingIsSeq DEF AreParts
  <1>3. WriteList(WriteBinding, xs) = one \o flat  BY <1>1 DEF WriteList
  <1>4. IsSeq(flat) /\ IsSeq(one)
    <2> HIDE DEF ws
    <2> QED  BY <1>1, <1>2, FlattenPlaces, OneValue
  <1> HIDE DEF one, flat
  <1> QED  BY <1>3, <1>4, ConcatValues
------------------------------------------------------------------------------
(* Stages and programs.                                                    *)

TailFields == <<"push_constant_size", "workgroup_size">>
StageFields == {"stage", "bindings", "push_constant_size", "workgroup_size"}

\* A reflection of a stage.
IsStage(r) ==
  /\ r = Part(r, StageFields)
  /\ IsSeq(r.bindings)
  /\ \A i \in 1 .. Len(r.bindings) : IsBinding(r.bindings[i])

LEMMA StageFieldLists ==
  /\ IsSeq(<<"stage">>) /\ Range(<<"stage">>) = {"stage"}
  /\ IsSeq(TailFields) /\ Range(TailFields) = {"push_constant_size", "workgroup_size"}
PROOF
  <1>1. TailFields = [i \in 1 .. 2 |-> TailFields[i]]  BY DEF TailFields
  <1>2. IsSeq(TailFields)  BY <1>1, FunctionIsSeq
  <1>3. Range(TailFields) = {"push_constant_size", "workgroup_size"}  BY DEF Range, TailFields
  <1>4. Range(<<"stage">>) = {"stage"}  BY DEF Range
  <1> QED  BY <1>2, <1>3, <1>4, OneValue

\* A stage is written in three parts.
LEMMA StageParts ==
  ASSUME NEW x, IsStage(x)
  PROVE  /\ WriteStage(x) = (Write(x, <<"stage">>) \o WriteList(WriteBinding, x.bindings)) \o Write(x, TailFields)
         /\ IsSeq(Write(x, <<"stage">>)) /\ IsSeq(WriteList(WriteBinding, x.bindings))
         /\ IsSeq(Write(x, TailFields))
PROOF
  <1>1. WriteStage(x) = (Write(x, <<"stage">>) \o WriteList(WriteBinding, x.bindings)) \o Write(x, TailFields)
    BY DEF WriteStage, TailFields
  <1>2. Len(<<"stage">>) \in Nat /\ Len(TailFields) \in Nat  BY StageFieldLists, SeqLen
  <1>3. IsSeq(x.bindings) /\ \A i \in 1 .. Len(x.bindings) : IsBinding(x.bindings[i])  BY DEF IsStage
  <1> QED  BY <1>1, <1>2, <1>3, WriteIsSeq, BindingsIsSeq

LEMMA StageIsSeq ==
  ASSUME NEW x, IsStage(x)
  PROVE  IsSeq(WriteStage(x))
PROOF
  <1> DEFINE u == Write(x, <<"stage">>)
             w == WriteList(WriteBinding, x.bindings)
             q == Write(x, TailFields)
             uw == u \o w
  <1>1. WriteStage(x) = uw \o q /\ IsSeq(u) /\ IsSeq(w) /\ IsSeq(q)  BY StageParts
  <1> HIDE DEF u, w, q
  <1>2. IsSeq(uw)  BY <1>1, ConcatValues
  <1> HIDE DEF uw
  <1> QED  BY <1>1, <1>2, ConcatValues

\* A stage is read as it was written.
LEMMA StageRead ==
  ASSUME NEW blob, NEW at \in Nat, NEW got, Len(blob) \in Nat,
         NEW x, IsStage(x), Holds(blob, at, WriteStage(x))
  PROVE  ReadStage(blob, Good(at, got))
           = IF ReadableStage(x) THEN Out(blob, at, WriteStage(x), x) ELSE Failed
PROOF
  <1> DEFINE bindings == x.bindings
             u == Write(x, <<"stage">>)
             w == WriteList(WriteBinding, bindings)
             q == Write(x, TailFields)
             p2 == at + Len(u)
             p3 == at + Len(u \o w)
             start == Good(at, got)
             r == Read(blob, start, <<"stage">>)
             t == As("bindings", ReadList(blob, r, MaxBindingCount, ReadBinding))
             d == Read(blob, t, TailFields)
             Short == /\ Len(bindings) <= MaxBindingCount
                      /\ \A i \in 1 .. Len(bindings) : ReadableBinding(bindings[i])
             X == Part(x, {"stage"})
             Z == Part(x, {"bindings"})
             C == Part(x, Range(TailFields))
  <1>1. /\ WriteStage(x) = (u \o w) \o q
        /\ IsSeq(u) /\ IsSeq(w) /\ IsSeq(q)
    BY StageParts
  <1>2. ReadStage(blob, start) = Both(Both(r, t), d)
    BY DEF ReadStage, TailFields
  <1> HIDE DEF u, w, q
  <1>3. IsSeq(u \o w) /\ Len(u \o w) = Len(u) + Len(w)  BY <1>1, ConcatValues
  <1>4. Len(u) \in Nat /\ Len(w) \in Nat /\ Len(u \o w) \in Nat  BY <1>1, <1>3, SeqLen
  <1>5. p2 \in Nat /\ p3 \in Nat /\ p3 = p2 + Len(w)  BY <1>3, <1>4
  <1>6. Holds(blob, at, u) /\ Holds(blob, p2, w) /\ Holds(blob, p3, q)
    <2> DEFINE uw == u \o w
    <2>1. IsSeq(uw) /\ Holds(blob, at, uw \o q)  BY <1>1, <1>3
    <2>2. Holds(blob, at, uw) /\ Holds(blob, at + Len(uw), q)
      <3> HIDE DEF uw
      <3> QED  BY <1>1, <2>1, HoldsParts
    <2>3. Holds(blob, at, u) /\ Holds(blob, at + Len(u), w)  BY <1>1, <2>2, HoldsParts
    <2> QED  BY <2>2, <2>3
  <1> HIDE DEF p2, p3, start
  <1>7. r = Out(blob, at, u, X)
    <2>1. r = IF ShortTexts(x, <<"stage">>) THEN Out(blob, at, u, Part(x, Range(<<"stage">>))) ELSE Failed
      BY <1>6, StageFieldLists, FieldsRead DEF start, u
    <2>2. ShortTexts(x, <<"stage">>)  BY StageFieldLists DEF ShortTexts, Texts
    <2> QED  BY <2>1, <2>2, StageFieldLists
  <1>8. ASSUME r.ok
        PROVE  t = IF Short THEN Out(blob, p3 - Len(w), w, Z) ELSE Failed
    <2>1. p3 - Len(w) = p2  BY <1>4, <1>5
    <2>2. r = Good(p2, X)
      <3> HIDE DEF r, X
      <3> QED  BY <1>7, <1>8, OutGood DEF p2
    <2>3. IsSeq(bindings) /\ \A i \in 1 .. Len(bindings) : IsBinding(bindings[i])
      BY DEF IsStage
    <2>4. ReadList(blob, r, MaxBindingCount, ReadBinding)
            = IF Short THEN Out(blob, p2, w, bindings) ELSE Failed
      <3> HIDE DEF r, X, bindings
      <3>1. ReadList(blob, Good(p2, X), MaxBindingCount, ReadBinding)
              = IF Short THEN Out(blob, p2, w, bindings) ELSE Failed
        BY <1>5, <1>6, <2>3, BindingsRead DEF w
      <3> QED  BY <2>2, <3>1
    <2>5. CASE Short
      <3> HIDE DEF r, Short
      <3> QED  BY <2>1, <2>4, <2>5, AsRead
    <2>6. CASE ~Short
      <3> HIDE DEF r, Short
      <3> QED  BY <2>4, <2>6 DEF As, Failed
    <2> QED  BY <2>5, <2>6
  <1>9. ASSUME Short, t.ok
        PROVE  d = Out(blob, p3, q, C)
    <2>1. r.ok
      <3> SUFFICES ASSUME ~r.ok PROVE FALSE  OBVIOUS
      <3> HIDE DEF r
      <3>1. ReadList(blob, r, MaxBindingCount, ReadBinding) = Failed  BY DEF ReadList
      <3>2. ~t.ok  BY <3>1 DEF As, Failed
      <3> QED  BY <1>9, <3>2
    <2>2. t = Out(blob, p2, w, Z)
      <3>1. p3 - Len(w) = p2  BY <1>4, <1>5
      <3> HIDE DEF r, t, Short
      <3> QED  BY <1>8, <1>9, <2>1, <3>1
    <2>3. t = Good(p3, Z)
      <3> HIDE DEF t, Z
      <3> QED  BY <1>5, <1>9, <2>2, OutGood
    <2>4. Read(blob, Good(p3, Z), TailFields)
            = IF ShortTexts(x, TailFields) THEN Out(blob, p3, q, C) ELSE Failed
      <3> HIDE DEF Z
      <3> QED  BY <1>5, <1>6, StageFieldLists, FieldsRead DEF q
    <2>5. ShortTexts(x, TailFields)  BY StageFieldLists DEF ShortTexts, Texts
    <2> HIDE DEF t
    <2> QED  BY <2>3, <2>4, <2>5
  <1>10. ReadableStage(x) <=> Short
    <2>1. DOMAIN bindings = 1 .. Len(bindings)
      <3>1. IsSeq(bindings)  BY DEF IsStage
      <3> QED  BY <3>1, SeqLen
    <2> QED  BY <2>1 DEF ReadableStage
  <1>11. p3 - Len(w) = at + Len(u)  BY <1>4, <1>5 DEF p2
  <1> HIDE DEF r, t, d, Short, X, Z, C
  <1>12. CASE Short
    <2>1. Both(Both(r, t), d) = Out(blob, at, (u \o w) \o q, Merge(Merge(X, Z), C))
      <3>1. (r.ok => t = Out(blob, at + Len(u), w, Z)) /\ (t.ok => d = Out(blob, at + Len(u \o w), q, C))
        BY <1>8, <1>9, <1>11, <1>12 DEF p3
      <3> QED  BY <1>1, <1>7, <3>1, ThreeRead
    <2>2. Merge(Merge(X, Z), C) = x
      <3>1. Merge(X, Z) = Part(x, {"stage"} \cup {"bindings"})  BY MergeParts DEF X, Z
      <3>2. Merge(Merge(X, Z), C) = Part(x, {"stage"} \cup {"bindings"} \cup Range(TailFields))
        BY <3>1, MergeParts DEF C
      <3>3. {"stage"} \cup {"bindings"} \cup Range(TailFields) = StageFields
        BY StageFieldLists DEF StageFields
      <3> QED  BY <3>2, <3>3 DEF IsStage
    <2> QED  BY <1>1, <1>2, <1>10, <1>12, <2>1, <2>2 DEF start
  <1>13. CASE ~Short
    <2>1. r.ok => t = Failed  BY <1>8, <1>13
    <2>2. Both(Both(r, t), d) = Failed  BY <2>1 DEF Both, Failed
    <2> QED  BY <1>2, <1>10, <1>13, <2>2 DEF start
  <1> QED  BY <1>12, <1>13 DEF start

LEMMA StagesRead ==
  ASSUME NEW blob, NEW at \in Nat, NEW got, Len(blob) \in Nat,
         NEW xs, IsSeq(xs), \A i \in 1 .. Len(xs) : IsStage(xs[i]),
         Holds(blob, at, WriteList(WriteStage, xs))
  PROVE  /\ IsSeq(WriteList(WriteStage, xs))
         /\ ReadList(blob, Good(at, got), MaxProgramStageCount, ReadStage)
              = IF Len(xs) <= MaxProgramStageCount /\ \A i \in 1 .. Len(xs) : ReadableStage(xs[i])
                THEN Out(blob, at, WriteList(WriteStage, xs), xs) ELSE Failed
PROOF
  <1> DEFINE N == Len(xs)
             max == MaxProgramStageCount
             w == WriteList(WriteStage, xs)
             ws == [i \in 1 .. N |-> WriteStage(xs[i])]
             G == {i \in 1 .. N : ReadableStage(xs[i])}
             Turn(f, n, a) == IF n = 0 THEN Good(a + 1, <<>>)
                           ELSE LET prev == f[n - 1] IN Add(prev, ReadStage(blob, prev))
             Is(f, k, a) == f = [n \in 0 .. k |-> Turn(f, n, a)]
             list == CHOOSE f : Is(f, N, at)
  <1>1. N \in Nat /\ DOMAIN xs = 1 .. N  BY SeqLen
  <1>2. IsFramed(w, N, ws)  BY <1>1 DEF WriteList, IsFramed
  <1>3. AreParts(ws, N) /\ \A i \in 1 .. N : ws[i] = WriteStage(xs[i])
    BY StageIsSeq DEF AreParts
  <1>4. /\ IsSeq(w)
        /\ at + 1 <= Len(blob) => blob[at + 1] = N
        /\ at + 1 > Len(blob) => Out(blob, at, w, xs) = Failed
        /\ \E pos : Laid(blob, at, N, xs, ws, w, G, pos)
    <2> HIDE DEF ws, w, N, G
    <2>1. Holds(blob, at, w) /\ Len(xs) = N  BY DEF w, N
    <2> QED  BY <1>1, <1>2, <1>3, <2>1, ListPlaces, ZenonT(60)
  <1>5. CASE at + 1 > Len(blob)
    <2>1. ReadList(blob, Good(at, got), max, ReadStage) = Failed  BY <1>5 DEF ReadList, Good
    <2> QED  BY <1>4, <1>5, <2>1
  <1>6. CASE at + 1 <= Len(blob)
    <2> DEFINE b == blob[at + 1]
    <2>1. b = N  BY <1>4, <1>6
    <2>2. ReadList(blob, Good(at, got), max, ReadStage) = IF N > max THEN Failed ELSE list[N]
      <3> DEFINE r == Good(at, got)
                 k == blob[r.at + 1]
      <3>1. r.ok /\ r.at = at  BY DEF Good
      <3> HIDE DEF r
      <3>2. ReadList(blob, r, max, ReadStage)
              = IF ~r.ok \/ r.at + 1 > Len(blob) THEN Failed
                ELSE IF k > max THEN Failed ELSE (CHOOSE f : Is(f, k, r.at))[k]
        BY DEF ReadList
      <3> HIDE DEF Is
      <3>3. k = N  BY <2>1, <3>1
      <3> HIDE DEF k
      <3> QED  BY <1>6, <3>1, <3>2, <3>3 DEF r
    <2>3. PICK pos : /\ IsPlaces(pos, ws, N)
                     /\ HoldsElement(blob, at + 1, pos, ws, N)
                     /\ ReadSoFar(blob, at + 1, pos, xs, G, 0) = Good(at + 1, <<>>)
                     /\ ReadSoFar(blob, at + 1, pos, xs, G, N)
                          = IF 1 .. N \subseteq G THEN Out(blob, at, w, xs) ELSE Failed
      <3> HIDE DEF ws, w, N, G
      <3> QED  BY <1>4, <1>6 DEF Laid
    <2> DEFINE E == [n \in 0 .. N |-> ReadSoFar(blob, at + 1, pos, xs, G, n)]
               one == [n \in 1 .. N |-> ReadStage(blob, ReadSoFar(blob, at + 1, pos, xs, G, n - 1))]
    <2>4. TurnsRead(blob, at + 1, pos, xs, ws, G, one, N)
      <3> SUFFICES ASSUME NEW n \in 1 .. N, ReadSoFar(blob, at + 1, pos, xs, G, n - 1).ok
                   PROVE  one[n] = IF n \in G THEN Out(blob, at + 1 + pos[n - 1], ws[n], xs[n]) ELSE Failed
        BY DEF TurnsRead
      <3> DEFINE here == at + 1 + pos[n - 1]
                 soFar == SubSeq(xs, 1, n - 1)
                 x == xs[n]
      <3>1. ReadSoFar(blob, at + 1, pos, xs, G, n - 1) = Good(here, soFar)
        BY DEF ReadSoFar, Failed
      <3>2. here \in Nat
        <4>1. n - 1 \in 0 .. N  OBVIOUS
        <4>2. pos[n - 1] \in Nat  BY <2>3, <4>1 DEF IsPlaces
        <4> HIDE DEF N
        <4> QED  BY <4>2
      <3>3. Holds(blob, here, WriteStage(x)) /\ IsStage(x)  BY <1>3, <2>3 DEF HoldsElement
      <3>4. n \in G <=> ReadableStage(x)  OBVIOUS
      <3> HIDE DEF here, soFar, x, G, N, ws
      <3>5. ReadStage(blob, Good(here, soFar))
              = IF ReadableStage(x) THEN Out(blob, here, WriteStage(x), x) ELSE Failed
        BY <3>2, <3>3, StageRead
      <3> QED  BY <1>3, <3>1, <3>4, <3>5 DEF here, x
    <2>5. \A n \in 1 .. N : Add(ReadSoFar(blob, at + 1, pos, xs, G, n - 1), one[n])
                               = ReadSoFar(blob, at + 1, pos, xs, G, n)
      <3> HIDE DEF ws, G, one, N
      <3>1. at + 1 \in Nat /\ Len(xs) = N  BY DEF N
      <3> QED  BY <1>1, <1>3, <2>3, <2>4, <3>1, ListRun
    <2>6. Is(E, N, at)
      <3>1. \A n \in 0 .. N : E[n] = Turn(E, n, at)
        <4> TAKE n \in 0 .. N
        <4>1. CASE n = 0  BY <2>3, <4>1
        <4>2. CASE n # 0
          <5>1. n \in 1 .. N /\ n - 1 \in 0 .. N  BY <4>2
          <5> HIDE DEF G, N
          <5> QED  BY <2>5, <4>2, <5>1
        <4> QED  BY <4>1, <4>2
      <3> HIDE DEF Turn
      <3> QED  BY <3>1
    <2>7. Is(list, N, at)
      <3> HIDE DEF Is
      <3> QED  BY <2>6, Zenon
    <2>8. list[N] = E[N]
      <3>1. \A n \in 0 .. N : list[n] = Turn(list, n, at) /\ E[n] = Turn(E, n, at)
        <4> HIDE DEF Turn, list, E
        <4> QED  BY <2>6, <2>7, Zenon
      <3>2. 0 \in 0 .. N /\ list[0] = E[0]
        <4>1. 0 \in 0 .. N  BY <1>1
        <4> HIDE DEF list, E
        <4> QED  BY <3>1, <4>1
      <3>3. ASSUME NEW n \in 1 .. N, list[n - 1] = E[n - 1]  PROVE list[n] = E[n]
        <4>1. n \in 0 .. N /\ n # 0  OBVIOUS
        <4> HIDE DEF list, E, N
        <4> QED  BY <3>1, <3>3, <4>1
      <3> HIDE DEF list, E, N
      <3> QED  BY <1>1, <3>2, <3>3, ListInduction
    <2>9. E[N] = IF 1 .. N \subseteq G THEN Out(blob, at, w, xs) ELSE Failed
      <3>1. N \in 0 .. N  BY <1>1
      <3> HIDE DEF G, N, w
      <3> QED  BY <2>3, <3>1
    <2>10. 1 .. N \subseteq G <=> \A i \in 1 .. N : ReadableStage(xs[i])  OBVIOUS
    <2>11. N > max <=> ~(N <= max)  BY <1>1, CodecLimitsAssumption
    <2> HIDE DEF list, E, G, w, N
    <2>12. ReadList(blob, Good(at, got), max, ReadStage)
             = IF N <= max /\ (\A i \in 1 .. N : ReadableStage(xs[i]))
               THEN Out(blob, at, w, xs) ELSE Failed
      BY <2>2, <2>8, <2>9, <2>10, <2>11
    <2> QED  BY <2>12, <1>4 DEF N, w
  <1> QED  BY <1>5, <1>6, <1>1

\* What a list of stages is written as.
LEMMA StagesIsSeq ==
  ASSUME NEW xs, IsSeq(xs), \A i \in 1 .. Len(xs) : IsStage(xs[i])
  PROVE  IsSeq(WriteList(WriteStage, xs))
PROOF
  <1> DEFINE ws == [i \in 1 .. Len(xs) |-> WriteStage(xs[i])]
             one == <<Len(xs)>>
             flat == FlattenSeq(ws)
  <1>1. Len(xs) \in Nat /\ DOMAIN xs = 1 .. Len(xs)  BY SeqLen
  <1>2. AreParts(ws, Len(xs))  BY StageIsSeq DEF AreParts
  <1>3. WriteList(WriteStage, xs) = one \o flat  BY <1>1 DEF WriteList
  <1>4. IsSeq(flat) /\ IsSeq(one)
    <2> HIDE DEF ws
    <2> QED  BY <1>1, <1>2, FlattenPlaces, OneValue
  <1> HIDE DEF one, flat
  <1> QED  BY <1>3, <1>4, ConcatValues

(***************************************************************************)
(* What is read back of a written program, of which the blob may have lost *)
(* the end: the program, if all of it is there and within the limits of    *)
(* the reader; nothing otherwise (deserializeProgramReflection).           *)
(***************************************************************************)
THEOREM ProgramRoundTrip ==
  ASSUME NEW xs, IsSeq(xs), \A i \in 1 .. Len(xs) : IsStage(xs[i]),
         NEW n \in 0 .. Len(SerializeProgram(xs))
  PROVE  DeserializeProgram(SubSeq(SerializeProgram(xs), 1, n))
           = IF n = Len(SerializeProgram(xs)) /\ ReadableProgram(xs) THEN xs ELSE NoReflection
PROOF
  <1> DEFINE whole == SerializeProgram(xs)
             blob == SubSeq(whole, 1, n)
             one == <<Version>>
             w == WriteList(WriteStage, xs)
             Short == /\ Len(xs) <= MaxProgramStageCount
                      /\ \A i \in 1 .. Len(xs) : ReadableStage(xs[i])
  <1>1. whole = one \o w  BY DEF SerializeProgram
  <1>2. IsSeq(one) /\ Len(one) = 1 /\ one[1] = Version  BY OneValue
  <1>3. IsSeq(w)  BY StagesIsSeq
  <1> HIDE DEF one, w, whole
  <1>4. /\ IsSeq(one \o w) /\ Len(one \o w) = Len(one) + Len(w)
        /\ \A i \in 1 .. Len(one) : (one \o w)[i] = one[i]
        /\ \A i \in 1 .. Len(w) : (one \o w)[Len(one) + i] = w[i]
    <2>1. IsSeq(one)  BY <1>2
    <2> QED  BY <1>3, <2>1, ConcatValues
  <1>5. IsSeq(whole) /\ Len(whole) = Len(one) + Len(w)  BY <1>1, <1>4, Zenon
  <1>6. Len(w) \in Nat /\ Len(whole) = 1 + Len(w)  BY <1>2, <1>3, <1>5, SeqLen
  <1>7. n \in 0 .. Len(whole)  BY DEF whole
  <1>8. Len(blob) = n /\ \A i \in 1 .. n : blob[i] = whole[i]
    <2>1. whole \in Seq(Range(whole))  BY <1>5 DEF IsSeq
    <2>2. 1 \in 1 .. Len(whole) + 1 /\ n \in 1 - 1 .. Len(whole)  BY <1>6, <1>7
    <2>3. Len(blob) = n - 1 + 1 /\ \A i \in 1 .. n - 1 + 1 : blob[i] = whole[1 + i - 1]
      BY <2>1, <2>2, SubSeqProperties
    <2> QED  BY <1>6, <1>7, <2>3
  <1>9. n >= 1 => blob[1] = Version
    <2>1. whole[1] = Version
      <3>1. 1 \in 1 .. Len(one)  BY <1>2
      <3>2. (one \o w)[1] = one[1]  BY <1>4, <3>1, Zenon
      <3> QED  BY <1>1, <1>2, <3>2, Zenon
    <2> QED  BY <1>7, <1>8, <2>1
  <1>10. Holds(blob, 1, w)
    <2> SUFFICES ASSUME NEW i \in 1 .. Len(w), 1 + i <= Len(blob)  PROVE blob[1 + i] = w[i]
      BY DEF Holds
    <2>1. whole[1 + i] = w[i]
      <3>1. (one \o w)[Len(one) + i] = w[i]  BY <1>4, Zenon
      <3> QED  BY <1>1, <1>2, <3>1, Zenon
    <2>2. 1 + i \in 1 .. n  BY <1>6, <1>7, <1>8
    <2> QED  BY <1>8, <2>1, <2>2
  <1>11. Len(blob) \in Nat /\ n \in Nat /\ n <= 1 + Len(w)  BY <1>6, <1>7, <1>8
  <1>12. ReadableProgram(xs) <=> Short
    <2>1. DOMAIN xs = 1 .. Len(xs)  BY SeqLen
    <2> QED  BY <2>1 DEF ReadableProgram
  <1> HIDE DEF blob, Short
  <1>13. CASE n = 0
    <2>1. blob = <<>>
      <3> USE DEF blob
      <3>1. whole \in Seq(Range(whole))  BY <1>5 DEF IsSeq
      <3> QED  BY <1>13, <3>1
    <2>2. DeserializeProgram(blob) = NoReflection  BY <2>1 DEF DeserializeProgram
    <2>3. n # Len(whole)  BY <1>6, <1>13
    <2> QED  BY <2>2, <2>3 DEF whole, blob
  <1>14. CASE n # 0
    <2>1. blob # <<>> /\ Head(blob) = Version
      <3>1. n >= 1 /\ blob[1] = Version  BY <1>9, <1>11, <1>14
      <3>2. Len(blob) # 0  BY <1>8, <1>14
      <3>3. blob # <<>>
        <4>1. Len(<<>>) = 0  OBVIOUS
        <4> QED  BY <3>2, <4>1, Zenon
      <3>4. blob \in Seq(Range(whole))
        <4> USE DEF blob
        <4>1. whole \in Seq(Range(whole))  BY <1>5 DEF IsSeq
        <4>2. 1 \in 1 .. Len(whole) + 1 /\ n \in 1 - 1 .. Len(whole)  BY <1>6, <1>7
        <4> QED  BY <4>1, <4>2, SubSeqProperties
      <3>5. Head(blob) = blob[1]  BY <3>3, <3>4, HeadTailProperties
      <3> QED  BY <3>1, <3>3, <3>5
    <2>2. DeserializeProgram(blob)
            = ReadList(blob, Good(1, NoReflection), MaxProgramStageCount, ReadStage).got
      BY <2>1 DEF DeserializeProgram
    <2>3. ReadList(blob, Good(1, NoReflection), MaxProgramStageCount, ReadStage)
            = IF Short THEN Out(blob, 1, w, xs) ELSE Failed
      <3>1. 1 \in Nat  OBVIOUS
      <3> QED  BY <1>10, <1>11, <3>1, StagesRead DEF w, Short
    <2>4. Failed.got = NoReflection  BY DEF Failed
    <2>5. Out(blob, 1, w, xs).got = IF n = Len(whole) THEN xs ELSE NoReflection
      <3>1. 1 + Len(w) <= Len(blob) <=> n = Len(whole)  BY <1>6, <1>8, <1>11
      <3>2. Good(1 + Len(w), xs).got = xs  BY DEF Good
      <3> QED  BY <2>4, <3>1, <3>2 DEF Out
    <2>6. DeserializeProgram(blob) = IF n = Len(whole) /\ ReadableProgram(xs) THEN xs ELSE NoReflection
      BY <1>12, <2>2, <2>3, <2>4, <2>5
    <2> QED  BY <2>6 DEF whole, blob
  <1> QED  BY <1>13, <1>14
==============================================================================
