----------------------------- MODULE WatchProofs -----------------------------
(***************************************************************************)
(* Proofs about WatchTargets, for every set of targets and of keys and     *)
(* every bound: the types, that listened targets have a stream, that what  *)
(* the aggregator gathers are changes to what the views hold, and, until   *)
(* the backend rejects a target, the count of outstanding responses.       *)
(*                                                                         *)
(* The first part is about putting sequences one after the other, which    *)
(* InSomeOrder does with a recursive function over the sequences.  Its     *)
(* facts are proved by climbing: a set of numbers up to N that has 0 and   *)
(* the successor of each of its members has all of them.                   *)
(***************************************************************************)
EXTENDS WatchInvariant, FiniteSetTheorems, SequenceTheorems, WellFoundedInduction, TLAPS

(***************************************************************************)
(* Sequences one after the other.                                          *)
(***************************************************************************)

\* A set of natural numbers has a least member.
LEMMA Least ==
  ASSUME NEW S \in SUBSET Nat, S # {}
  PROVE  \E m \in S : \A k \in S : m <= k
<1>1. \E x \in S : \A y \in S : ~(<<y, x>> \in OpToRel(<, Nat))
  BY WFMin, NatLessThanWellFounded
<1>2. PICK x \in S : \A y \in S : ~(<<y, x>> \in OpToRel(<, Nat))
  BY <1>1
<1>3. \A y \in S : ~(y < x)
  BY <1>2 DEF OpToRel
<1> QED
  BY <1>3

\* Climbing from 0 to N one step at a time reaches every number.
LEMMA Climb ==
  ASSUME NEW N \in Nat, NEW P \in SUBSET (0 .. N), 0 \in P,
         \A i \in 0 .. N - 1 : i \in P => i + 1 \in P
  PROVE  P = 0 .. N
<1> SUFFICES ASSUME (0 .. N) \ P # {} PROVE FALSE
  OBVIOUS
<1>1. (0 .. N) \ P \in SUBSET Nat
  OBVIOUS
<1>2. PICK m \in (0 .. N) \ P : \A k \in (0 .. N) \ P : m <= k
  BY <1>1, Least
<1>3. m # 0 /\ m - 1 \in 0 .. N - 1
  BY <1>2
<1>4. m - 1 \in P
  BY <1>2, <1>3
<1> QED
  BY <1>2, <1>3, <1>4

\* The sequences up to each place, joined: the recursion FlattenSeq is defined by.
Joins(seqs, f, n) ==
  f = [i \in 1 .. n |-> IF i = 1 THEN seqs[i] ELSE f[i - 1] \o seqs[i]]

\* There is such a function for every number of sequences.
LEMMA JoinsExists ==
  ASSUME NEW L \in Nat, NEW seqs
  PROVE  \E f : Joins(seqs, f, L)
<1> DEFINE P == {n \in 0 .. L : \E f : Joins(seqs, f, n)}
<1>1. 0 \in P
  <2>1. Joins(seqs, <<>>, 0)
    BY DEF Joins
  <2> QED
    BY <2>1
<1>2. ASSUME NEW i \in 0 .. L - 1, i \in P PROVE i + 1 \in P
  <2>1. PICK f : Joins(seqs, f, i)
    BY <1>2
  <2> DEFINE g == [j \in 1 .. i + 1 |-> IF j \in 1 .. i THEN f[j]
                                        ELSE IF j = 1 THEN seqs[j] ELSE f[j - 1] \o seqs[j]]
  <2>2. \A j \in 1 .. i : g[j] = IF j = 1 THEN seqs[j] ELSE g[j - 1] \o seqs[j]
    <3> SUFFICES ASSUME NEW j \in 1 .. i
                 PROVE  g[j] = IF j = 1 THEN seqs[j] ELSE g[j - 1] \o seqs[j]
      OBVIOUS
    <3>1. f[j] = IF j = 1 THEN seqs[j] ELSE f[j - 1] \o seqs[j]
      BY <2>1 DEF Joins
    <3>2. g[j] = f[j] /\ (j # 1 => g[j - 1] = f[j - 1])
      OBVIOUS
    <3> QED
      BY <3>1, <3>2
  <2>3. g[i + 1] = IF i + 1 = 1 THEN seqs[i + 1] ELSE g[i] \o seqs[i + 1]
    <3>1. i + 1 # 1 => g[i] = f[i]
      OBVIOUS
    <3> QED
      BY <3>1
  <2>4. \A j \in 1 .. i + 1 : g[j] = IF j = 1 THEN seqs[j] ELSE g[j - 1] \o seqs[j]
    <3> HIDE DEF g
    <3> QED
      BY <2>2, <2>3
  <2>5. g = [j \in 1 .. i + 1 |-> g[j]]
    OBVIOUS
  <2>6. Joins(seqs, g, i + 1)
    <3> HIDE DEF g
    <3> QED
      BY <2>4, <2>5 DEF Joins
  <2> HIDE DEF g
  <2> QED
    BY <2>6
<1>3. P = 0 .. L
  <2> HIDE DEF P
  <2>1. P \in SUBSET (0 .. L)
    BY DEF P
  <2> QED
    BY <1>1, <1>2, <2>1, Climb
<1> QED
  BY <1>3

\* What FlattenSeq returns is the last of those joins.
LEMMA FlattenJoins ==
  ASSUME NEW L \in Nat \ {0}, NEW M, NEW seqs \in [1 .. L -> M]
  PROVE  \E f : Joins(seqs, f, L) /\ FlattenSeq(seqs) = f[L]
<1> DEFINE flatten[i \in 1 .. Len(seqs)] ==
             IF i = 1 THEN seqs[i] ELSE flatten[i - 1] \o seqs[i]
<1>1. Len(seqs) = L
  OBVIOUS
<1>2. \E f : f = [i \in 1 .. Len(seqs) |-> IF i = 1 THEN seqs[i] ELSE f[i - 1] \o seqs[i]]
  BY <1>1, JoinsExists, Zenon DEF Joins
<1>3. flatten = [i \in 1 .. Len(seqs) |-> IF i = 1 THEN seqs[i] ELSE flatten[i - 1] \o seqs[i]]
  BY <1>2, Zenon
<1>4. FlattenSeq(seqs) = flatten[Len(seqs)]
  BY <1>1 DEF FlattenSeq
<1> HIDE DEF flatten
<1> QED
  BY <1>1, <1>3, <1>4 DEF Joins

\* Where each of L sequences ends in their concatenation.
Ends(seqs, L, off) ==
  /\ off \in [0 .. L -> Nat] /\ off[0] = 0
  /\ \A i \in 1 .. L : off[i] = off[i - 1] + Len(seqs[i])

\* The concatenation has each sequence between its ends, and nothing else.
Joined(flat, seqs, L, off) ==
  /\ Len(flat) = off[L]
  /\ \A i \in 1 .. L : \A j \in 1 .. Len(seqs[i]) : flat[off[i - 1] + j] = seqs[i][j]

\* The places of a part of l elements that ends at b, in a sequence of c elements.
PlacesOf(a, l, b, c) ==
  /\ \A j \in 1 .. l : a + j \in (a + 1) .. b /\ a + j \in 1 .. c
  /\ \A p \in (a + 1) .. b : p \in 1 .. c /\ p - a \in 1 .. l /\ p = a + (p - a)
  /\ (IF a + 1 > b THEN 0 ELSE b - (a + 1) + 1) = l

LEMMA Between ==
  ASSUME NEW a \in Nat, NEW l \in Nat, NEW b \in Nat, b = a + l, NEW c \in Nat, b <= c
  PROVE  PlacesOf(a, l, b, c)
  BY DEF PlacesOf

\* The elements of a concatenation, by their place in its parts.
LEMMA ConcatAt ==
  ASSUME NEW M, NEW s \in Seq(M), NEW t \in Seq(M)
  PROVE  /\ \A i \in 1 .. Len(s) : (s \o t)[i] = s[i]
         /\ \A j \in 1 .. Len(t) : (s \o t)[Len(s) + j] = t[j]
<1>1. Len(s) \in Nat /\ Len(t) \in Nat
  OBVIOUS
<1>2. \A i \in 1 .. Len(s) + Len(t) :
        (s \o t)[i] = IF i <= Len(s) THEN s[i] ELSE t[i - Len(s)]
  BY ConcatProperties
<1>3. ASSUME NEW i \in 1 .. Len(s) PROVE (s \o t)[i] = s[i]
  <2>1. i \in 1 .. Len(s) + Len(t) /\ i <= Len(s)
    BY <1>1
  <2> QED
    BY <1>2, <2>1
<1>4. ASSUME NEW j \in 1 .. Len(t) PROVE (s \o t)[Len(s) + j] = t[j]
  <2>1. Len(s) + j \in 1 .. Len(s) + Len(t) /\ ~(Len(s) + j <= Len(s)) /\ (Len(s) + j) - Len(s) = j
    BY <1>1
  <2> QED
    BY <1>2, <2>1
<1> QED
  BY <1>3, <1>4

\* Sequences end one after the other.
LEMMA EndsGrow ==
  ASSUME NEW L \in Nat, NEW seqs, NEW off, Ends(seqs, L, off),
         \A i \in 1 .. L : Len(seqs[i]) \in Nat
  PROVE  \A i, j \in 0 .. L : i <= j => off[i] <= off[j]
<1> DEFINE Q == {d \in 0 .. L : \A i \in 0 .. L - d : off[i] <= off[i + d]}
<1>0. \A i \in 0 .. L : off[i] \in Nat
  BY DEF Ends
<1>1. 0 \in Q
  BY <1>0
<1>2. ASSUME NEW d \in 0 .. L - 1, d \in Q PROVE d + 1 \in Q
  <2> SUFFICES ASSUME NEW i \in 0 .. L - (d + 1) PROVE off[i] <= off[i + (d + 1)]
    OBVIOUS
  <2>1. off[i] <= off[i + d]
    BY <1>2
  <2>2. i + (d + 1) \in 1 .. L /\ (i + (d + 1)) - 1 = i + d
    OBVIOUS
  <2>3. off[i + (d + 1)] = off[i + d] + Len(seqs[i + (d + 1)])
    BY <2>2 DEF Ends
  <2>4. Len(seqs[i + (d + 1)]) \in Nat
    BY <2>2
  <2>5. off[i] \in Nat /\ off[i + d] \in Nat
    BY <1>0, <2>2
  <2> HIDE DEF Q
  <2> QED
    BY <2>1, <2>3, <2>4, <2>5
<1>3. Q = 0 .. L
  <2>1. Q \in SUBSET (0 .. L)
    OBVIOUS
  <2> HIDE DEF Q
  <2> QED
    BY <1>1, <1>2, <2>1, Climb
<1> SUFFICES ASSUME NEW i \in 0 .. L, NEW j \in 0 .. L, i <= j PROVE off[i] <= off[j]
  OBVIOUS
<1>4. j - i \in 0 .. L /\ i \in 0 .. L - (j - i) /\ i + (j - i) = j
  OBVIOUS
<1>5. off[i] <= off[i + (j - i)]
  BY <1>3, <1>4
<1> QED
  BY <1>4, <1>5

\* The joins of sequences over a set are sequences over it, each as long as its parts.
LEMMA JoinsLengths ==
  ASSUME NEW M, NEW L \in Nat, NEW seqs \in [1 .. L -> Seq(M)], NEW f, Joins(seqs, f, L)
  PROVE  /\ \A i \in 1 .. L : f[i] \in Seq(M)
         /\ Ends(seqs, L, [i \in 0 .. L |-> IF i = 0 THEN 0 ELSE Len(f[i])])
<1>1. \A i \in 1 .. L : f[i] = IF i = 1 THEN seqs[i] ELSE f[i - 1] \o seqs[i]
  BY DEF Joins
<1>2. \A i \in 1 .. L : seqs[i] \in Seq(M) /\ Len(seqs[i]) \in Nat
  OBVIOUS
<1> DEFINE P == {n \in 0 .. L : n # 0 => f[n] \in Seq(M)}
<1>3. 0 \in P
  OBVIOUS
<1>4. ASSUME NEW i \in 0 .. L - 1, i \in P PROVE i + 1 \in P
  <2>1. i + 1 \in 1 .. L /\ (i + 1) - 1 = i /\ (i + 1 = 1 <=> i = 0)
    OBVIOUS
  <2>2. f[i + 1] = IF i = 0 THEN seqs[i + 1] ELSE f[i] \o seqs[i + 1]
    BY <1>1, <2>1
  <2>3. f[i + 1] \in Seq(M)
    BY <1>2, <1>4, <2>1, <2>2, ConcatProperties
  <2> QED
    BY <2>1, <2>3
<1>5. P = 0 .. L
  <2>1. P \in SUBSET (0 .. L)
    OBVIOUS
  <2> HIDE DEF P
  <2> QED
    BY <1>3, <1>4, <2>1, Climb
<1>6. \A i \in 1 .. L : f[i] \in Seq(M)
  <2> SUFFICES ASSUME NEW i \in 1 .. L PROVE f[i] \in Seq(M)
    OBVIOUS
  <2>1. i \in P
    <3> HIDE DEF P
    <3> QED
      BY <1>5
  <2> QED
    BY <2>1
<1> HIDE DEF P
<1> DEFINE off == [i \in 0 .. L |-> IF i = 0 THEN 0 ELSE Len(f[i])]
<1>7. \A i \in 1 .. L : off[i] = off[i - 1] + Len(seqs[i])
  <2> SUFFICES ASSUME NEW i \in 1 .. L PROVE off[i] = off[i - 1] + Len(seqs[i])
    OBVIOUS
  <2>1. CASE i = 1
    <3>1. f[1] = seqs[1] /\ Len(seqs[1]) \in Nat
      BY <1>1, <1>2, <2>1
    <3>2. off[1] = Len(f[1]) /\ off[0] = 0
      BY <2>1
    <3> HIDE DEF off
    <3> QED
      BY <2>1, <3>1, <3>2
  <2>2. CASE i # 1
    <3>0. i - 1 \in 1 .. L
      BY <2>2
    <3>1. f[i] = f[i - 1] \o seqs[i] /\ i - 1 \in 1 .. L
      BY <1>1, <2>2, <3>0
    <3>2. off[i] = Len(f[i]) /\ off[i - 1] = Len(f[i - 1])
      BY <2>2
    <3>3. f[i - 1] \in Seq(M) /\ seqs[i] \in Seq(M)
      BY <1>2, <1>6, <3>1
    <3>4. Len(f[i - 1] \o seqs[i]) = Len(f[i - 1]) + Len(seqs[i])
      BY <3>3, ConcatProperties
    <3> HIDE DEF off
    <3> QED
      BY <3>1, <3>2, <3>4
  <2> QED
    BY <2>1, <2>2
<1>8. \A i \in 0 .. L : off[i] \in Nat
  <2> SUFFICES ASSUME NEW i \in 0 .. L PROVE off[i] \in Nat
    OBVIOUS
  <2>1. i # 0 => f[i] \in Seq(M)
    BY <1>6
  <2>2. i # 0 => Len(f[i]) \in Nat
    BY <2>1
  <2> QED
    BY <2>2
<1>9. off[0] = 0 /\ off = [i \in 0 .. L |-> off[i]]
  OBVIOUS
<1>10. Ends(seqs, L, off)
  <2> HIDE DEF off
  <2> QED
    BY <1>7, <1>8, <1>9 DEF Ends
<1> QED
  BY <1>6, <1>10

\* FlattenSeq joins sequences over a set to one over it.
LEMMA FlattenParts ==
  ASSUME NEW M, NEW L \in Nat, NEW seqs \in [1 .. L -> Seq(M)]
  PROVE  /\ FlattenSeq(seqs) \in Seq(M)
         /\ \E off : Ends(seqs, L, off) /\ Joined(FlattenSeq(seqs), seqs, L, off)
<1>1. CASE L = 0
  <2>1. FlattenSeq(seqs) = seqs /\ seqs = <<>>
    BY <1>1 DEF FlattenSeq
  <2>2. Ends(seqs, L, [i \in 0 .. 0 |-> 0])
    BY <1>1 DEF Ends
  <2>3. Joined(<<>>, seqs, L, [i \in 0 .. 0 |-> 0])
    BY <1>1 DEF Joined
  <2> QED
    BY <2>1, <2>2, <2>3
<1>2. CASE L # 0
  <2>1. PICK f : Joins(seqs, f, L) /\ FlattenSeq(seqs) = f[L]
    <3>1. L \in Nat \ {0}
      BY <1>2
    <3> QED
      BY <3>1, FlattenJoins
  <2>2. \A i \in 1 .. L : f[i] = IF i = 1 THEN seqs[i] ELSE f[i - 1] \o seqs[i]
    BY <2>1 DEF Joins
  <2> DEFINE off == [i \in 0 .. L |-> IF i = 0 THEN 0 ELSE Len(f[i])]
  <2>3. (\A i \in 1 .. L : f[i] \in Seq(M)) /\ Ends(seqs, L, off)
    BY <2>1, JoinsLengths
  <2>4. \A i \in 1 .. L : off[i] = Len(f[i])
    OBVIOUS
  <2>5. \A i \in 1 .. L : seqs[i] \in Seq(M) /\ Len(seqs[i]) \in Nat
    OBVIOUS
  <2> HIDE DEF off
  <2>6. \A i, j \in 0 .. L : i <= j => off[i] <= off[j]
    BY <2>3, <2>5, EndsGrow
  <2> DEFINE part(i) == \A k \in 1 .. i : \A j \in 1 .. Len(seqs[k]) :
                          f[i][off[k - 1] + j] = seqs[k][j]
             P == {n \in 0 .. L : part(n)}
  <2>7. 0 \in P
    OBVIOUS
  <2>8. ASSUME NEW i \in 0 .. L - 1, i \in P PROVE i + 1 \in P
    <3>1. i \in 0 .. L /\ i + 1 \in 1 .. L /\ (i + 1) - 1 = i /\ (i + 1 = 1 <=> i = 0)
      OBVIOUS
    <3>2. f[i + 1] = IF i = 0 THEN seqs[i + 1] ELSE f[i] \o seqs[i + 1]
      BY <2>2, <3>1
    <3>3. off[i] \in Nat /\ (i = 0 => off[i] = 0) /\ (i # 0 => off[i] = Len(f[i]))
      <4>1. (\A k \in 0 .. L : off[k] \in Nat) /\ off[0] = 0
        BY <2>3 DEF Ends
      <4>2. i # 0 => i \in 1 .. L
        BY <3>1
      <4> QED
        BY <2>4, <3>1, <4>1, <4>2
    <3>4. \A j \in 1 .. Len(seqs[i + 1]) : f[i + 1][off[i] + j] = seqs[i + 1][j]
      <4>1. CASE i = 0
        <5>1. f[i + 1] = seqs[i + 1] /\ off[i] = 0
          BY <4>1, <3>2, <3>3
        <5>2. \A j \in 1 .. Len(seqs[i + 1]) : off[i] + j = j
          BY <5>1
        <5> QED
          BY <5>1, <5>2
      <4>2. CASE i # 0
        <5>0. i \in 1 .. L
          BY <3>1, <4>2
        <5>1. f[i] \in Seq(M) /\ seqs[i + 1] \in Seq(M) /\ f[i + 1] = f[i] \o seqs[i + 1]
          BY <2>3, <2>5, <3>1, <3>2, <4>2, <5>0
        <5>2. \A s, u \in Seq(M) : \A j \in 1 .. Len(u) : (s \o u)[Len(s) + j] = u[j]
          BY ConcatAt
        <5>3. \A j \in 1 .. Len(seqs[i + 1]) :
                (f[i] \o seqs[i + 1])[Len(f[i]) + j] = seqs[i + 1][j]
          BY <5>1, <5>2
        <5> QED
          BY <5>1, <5>3, <3>3, <4>2
      <4> QED
        BY <4>1, <4>2
    <3>5. ASSUME NEW k \in 1 .. i, NEW j \in 1 .. Len(seqs[k])
          PROVE  f[i + 1][off[k - 1] + j] = seqs[k][j]
      <4>0. i \in 1 .. L /\ i # 0
        BY <3>1
      <4>1. f[i] \in Seq(M) /\ seqs[i + 1] \in Seq(M) /\ f[i + 1] = f[i] \o seqs[i + 1]
        BY <2>3, <2>5, <3>1, <3>2, <4>0
      <4>2. f[i][off[k - 1] + j] = seqs[k][j]
        BY <2>8
      <4>3. k \in 1 .. L /\ k - 1 \in 0 .. L
        OBVIOUS
      <4>4. off[k - 1] \in Nat /\ off[k] = off[k - 1] + Len(seqs[k]) /\ off[k] <= off[i]
        BY <2>3, <2>6, <4>3, <3>1 DEF Ends
      <4>5. off[k - 1] + j \in 1 .. Len(f[i])
        <5>1. Len(seqs[k]) \in Nat /\ off[i] = Len(f[i])
          BY <2>5, <4>3, <3>3
        <5>2. \A x \in 0 .. L : off[x] \in Nat
          BY <2>3 DEF Ends
        <5>3. k \in 0 .. L /\ i \in 0 .. L
          BY <3>1, <4>3
        <5>4. off[k] \in Nat /\ Len(f[i]) \in Nat /\ off[k] <= Len(f[i])
          BY <5>1, <5>2, <5>3, <4>4
        <5>5. PlacesOf(off[k - 1], Len(seqs[k]), off[k], Len(f[i]))
          BY <5>1, <5>4, <4>4, Between
        <5> QED
          BY <5>5 DEF PlacesOf
      <4>6. \A p \in 1 .. Len(f[i]) : (f[i] \o seqs[i + 1])[p] = f[i][p]
        BY <4>1, ConcatAt
      <4> QED
        BY <4>1, <4>2, <4>5, <4>6
    <3>6. part(i + 1)
      <4> SUFFICES ASSUME NEW k \in 1 .. i + 1, NEW j \in 1 .. Len(seqs[k])
                   PROVE  f[i + 1][off[k - 1] + j] = seqs[k][j]
        OBVIOUS
      <4>1. CASE k = i + 1
        BY <4>1, <3>1, <3>4
      <4>2. CASE k # i + 1
        <5>1. k \in 1 .. i
          BY <4>2
        <5> QED
          BY <5>1, <3>5
      <4> QED
        BY <4>1, <4>2
    <3> HIDE DEF part
    <3> QED
      BY <3>1, <3>6
  <2>9. P = 0 .. L
    <3>1. P \in SUBSET (0 .. L)
      OBVIOUS
    <3> HIDE DEF P
    <3> QED
      BY <2>7, <2>8, <3>1, Climb
  <2>10. part(L)
    <3>1. L \in P
      BY <2>9
    <3> HIDE DEF part
    <3> QED
      BY <3>1
  <2>11. L \in 1 .. L
    BY <1>2
  <2>12. Joined(FlattenSeq(seqs), seqs, L, off)
    BY <2>1, <2>4, <2>10, <2>11 DEF Joined
  <2>13. FlattenSeq(seqs) \in Seq(M)
    BY <2>1, <2>3, <2>11
  <2> QED
    BY <2>3, <2>12, <2>13
<1> QED
  BY <1>1, <1>2

\* Each place of the concatenation is a place of one of the sequences.
LEMMA PlaceInPart ==
  ASSUME NEW L \in Nat, NEW seqs, NEW off, Ends(seqs, L, off),
         \A i \in 1 .. L : Len(seqs[i]) \in Nat,
         NEW p \in 1 .. off[L]
  PROVE  \E i \in 1 .. L : \E j \in 1 .. Len(seqs[i]) : p = off[i - 1] + j
<1>1. \A i \in 0 .. L : off[i] \in Nat
  BY DEF Ends
<1> DEFINE S == {i \in 0 .. L : off[i] >= p}
<1>2. S \in SUBSET Nat /\ S # {}
  <2>1. L \in S
    BY <1>1
  <2> QED
    BY <2>1
<1>3. PICK i \in S : \A k \in S : i <= k
  BY <1>2, Least
<1>4. i # 0
  BY <1>3 DEF Ends
<1>5. i \in 1 .. L /\ i - 1 \in 0 .. L /\ i - 1 \notin S
  BY <1>3, <1>4
<1>6. off[i] >= p /\ off[i - 1] < p /\ off[i] = off[i - 1] + Len(seqs[i])
  BY <1>1, <1>3, <1>5 DEF Ends
<1>7. p - off[i - 1] \in 1 .. Len(seqs[i]) /\ p = off[i - 1] + (p - off[i - 1])
  BY <1>1, <1>5, <1>6
<1> QED
  BY <1>5, <1>7

\* SetToSeq lists each member of a finite set once.
LEMMA SetListed ==
  ASSUME NEW S, IsFiniteSet(S)
  PROVE  /\ Cardinality(S) \in Nat
         /\ SetToSeq(S) \in [1 .. Cardinality(S) -> S]
         /\ \A i, j \in 1 .. Cardinality(S) : SetToSeq(S)[i] = SetToSeq(S)[j] => i = j
         /\ \A x \in S : \E i \in 1 .. Cardinality(S) : SetToSeq(S)[i] = x
<1> DEFINE n == Cardinality(S)
<1>1. n \in Nat /\ \E f \in [1 .. n -> S] : IsInjective(f)
  BY FS_CardinalityType DEF ExistsBijection, Bijection, Injection, Surjection, IsInjective
<1>2. SetToSeq(S) \in [1 .. n -> S] /\ IsInjective(SetToSeq(S))
  BY <1>1 DEF SetToSeq
<1> HIDE DEF n
<1>3. \A i, j \in 1 .. n : SetToSeq(S)[i] = SetToSeq(S)[j] => i = j
  BY <1>2 DEF IsInjective
<1>4. SetToSeq(S) \in Injection(1 .. n, S)
  BY <1>2, <1>3 DEF Injection, IsInjective
<1>5. IsFiniteSet(1 .. n) /\ Cardinality(1 .. n) = n
  BY <1>1, FS_Interval
<1>6. SetToSeq(S) \in Surjection(1 .. n, S)
  BY <1>4, <1>5, FS_Injection DEF n
<1>7. \A x \in S : \E i \in 1 .. n : SetToSeq(S)[i] = x
  BY <1>6 DEF Surjection
<1> QED
  BY <1>1, <1>2, <1>3, <1>7 DEF n

\* The sequences of a table, listed by SetToSeq.
Listed(seqs) == [i \in 1 .. Cardinality(DOMAIN seqs) |-> seqs[SetToSeq(DOMAIN seqs)[i]]]

\* InSomeOrder joins the sequences of a table over a set to one over it.
LEMMA InOrder ==
  ASSUME NEW M, NEW D, IsFiniteSet(D), NEW seqs \in [D -> Seq(M)]
  PROVE  /\ InSomeOrder(seqs) \in Seq(M)
         /\ \A i \in 1 .. Cardinality(D) : Listed(seqs)[i] = seqs[SetToSeq(D)[i]]
         /\ \E off : /\ Ends(Listed(seqs), Cardinality(D), off)
                     /\ Joined(InSomeOrder(seqs), Listed(seqs), Cardinality(D), off)
<1> DEFINE n == Cardinality(D)
<1>1. n \in Nat /\ SetToSeq(D) \in [1 .. n -> D]
  BY SetListed
<1>2. DOMAIN seqs = D
  OBVIOUS
<1>3. Listed(seqs) \in [1 .. n -> Seq(M)] /\ InSomeOrder(seqs) = FlattenSeq(Listed(seqs))
  BY <1>1, <1>2 DEF Listed, InSomeOrder
<1>4. \A i \in 1 .. n : Listed(seqs)[i] = seqs[SetToSeq(D)[i]]
  BY <1>2 DEF Listed
<1> HIDE DEF n
<1> QED
  BY <1>1, <1>3, <1>4, FlattenParts DEF n

\* If the elements of each sequence carry its argument, as many carry one argument as
\* its sequence has elements.
LEMMA InOrderCount ==
  ASSUME NEW M, NEW D, IsFiniteSet(D), NEW seqs \in [D -> Seq(M)],
         \A u \in D : \A j \in 1 .. Len(seqs[u]) : seqs[u][j].target = u,
         NEW t
  PROVE  /\ IsFiniteSet(RequestsOf(InSomeOrder(seqs), t))
         /\ Cardinality(RequestsOf(InSomeOrder(seqs), t)) = IF t \in D THEN Len(seqs[t]) ELSE 0
<1> DEFINE n == Cardinality(D)
           b == SetToSeq(D)
           flat == InSomeOrder(seqs)
           parts == Listed(seqs)
           I == RequestsOf(flat, t)
<1>1. /\ n \in Nat /\ b \in [1 .. n -> D]
      /\ \A i, j \in 1 .. n : b[i] = b[j] => i = j
      /\ \A x \in D : \E i \in 1 .. n : b[i] = x
  BY SetListed
<1>2. flat \in Seq(M) /\ \A i \in 1 .. n : parts[i] = seqs[b[i]]
  BY InOrder
<1>3. PICK off : Ends(parts, n, off) /\ Joined(flat, parts, n, off)
  BY InOrder
<1> HIDE DEF n, b, flat, parts, I
<1>4. \A i \in 1 .. n : b[i] \in D /\ Len(parts[i]) \in Nat
  BY <1>1, <1>2
<1>5. /\ \A i \in 0 .. n : off[i] \in Nat
      /\ \A i \in 1 .. n : off[i] = off[i - 1] + Len(parts[i])
      /\ off[0] = 0
  BY <1>1, <1>3 DEF Ends
<1>6. DOMAIN flat = 1 .. off[n]
  BY <1>2, <1>3 DEF Joined
<1>7. \A i, j \in 0 .. n : i <= j => off[i] <= off[j]
  BY <1>1, <1>3, <1>4, EndsGrow
<1>8. \A i \in 1 .. n : \A j \in 1 .. Len(parts[i]) : flat[off[i - 1] + j].target = b[i]
  <2> SUFFICES ASSUME NEW i \in 1 .. n, NEW j \in 1 .. Len(parts[i])
               PROVE  flat[off[i - 1] + j].target = b[i]
    OBVIOUS
  <2>1. flat[off[i - 1] + j] = parts[i][j] /\ parts[i] = seqs[b[i]] /\ b[i] \in D
    BY <1>2, <1>3, <1>4 DEF Joined
  <2> QED
    BY <2>1
<1>9. \A p \in 1 .. off[n] : \E i \in 1 .. n : \E j \in 1 .. Len(parts[i]) : p = off[i - 1] + j
  <2> SUFFICES ASSUME NEW p \in 1 .. off[n]
               PROVE  \E i \in 1 .. n : \E j \in 1 .. Len(parts[i]) : p = off[i - 1] + j
    OBVIOUS
  <2>1. Ends(parts, n, off) /\ \A i \in 1 .. n : Len(parts[i]) \in Nat
    BY <1>3, <1>4
  <2> QED
    BY <1>1, <2>1, PlaceInPart
<1>10. CASE t \in D
  <2>1. PICK k \in 1 .. n : b[k] = t
    BY <1>1, <1>10
  <2>2. k \in 0 .. n /\ k - 1 \in 0 .. n /\ n \in 0 .. n
    BY <1>1
  <2>3. off[k - 1] \in Nat /\ off[k] \in Nat /\ off[k] = off[k - 1] + Len(parts[k]) /\ off[k] <= off[n]
        /\ off[n] \in Nat /\ Len(parts[k]) \in Nat
    BY <1>4, <1>5, <1>7, <2>2
  <2>4. I = (off[k - 1] + 1) .. off[k]
    <3>0. /\ \A j \in 1 .. Len(parts[k]) : off[k - 1] + j \in (off[k - 1] + 1) .. off[k]
          /\ \A p \in (off[k - 1] + 1) .. off[k] :
               p \in 1 .. off[n] /\ p - off[k - 1] \in 1 .. Len(parts[k])
               /\ p = off[k - 1] + (p - off[k - 1])
      <4>1. PlacesOf(off[k - 1], Len(parts[k]), off[k], off[n])
        BY <2>3, Between
      <4> QED
        BY <4>1 DEF PlacesOf
    <3>1. ASSUME NEW p \in I PROVE p \in (off[k - 1] + 1) .. off[k]
      <4>1. p \in 1 .. off[n] /\ flat[p].target = t
        BY <1>6 DEF I, RequestsOf
      <4>2. PICK i \in 1 .. n : \E j \in 1 .. Len(parts[i]) : p = off[i - 1] + j
        BY <1>9, <4>1
      <4>3. PICK j \in 1 .. Len(parts[i]) : p = off[i - 1] + j
        BY <4>2
      <4>4. i = k
        <5>1. flat[p].target = b[i]
          BY <1>8, <4>3
        <5>2. b[i] = b[k]
          BY <2>1, <4>1, <5>1
        <5> QED
          BY <1>1, <5>2
      <4>5. j \in 1 .. Len(parts[k]) /\ p = off[k - 1] + j
        BY <4>3, <4>4
      <4> QED
        BY <3>0, <4>5
    <3>2. ASSUME NEW p \in (off[k - 1] + 1) .. off[k] PROVE p \in I
      <4>1. p \in 1 .. off[n] /\ p - off[k - 1] \in 1 .. Len(parts[k])
            /\ p = off[k - 1] + (p - off[k - 1])
        BY <3>0
      <4>2. flat[p].target = b[k]
        BY <1>8, <4>1
      <4> QED
        BY <1>6, <2>1, <4>1, <4>2 DEF I, RequestsOf
    <3> QED
      BY <3>1, <3>2
  <2>5. IsFiniteSet(I) /\ Cardinality(I) = Len(parts[k])
    <3>1. off[k - 1] + 1 \in Int /\ off[k] \in Int
      BY <2>3
    <3>2. IsFiniteSet((off[k - 1] + 1) .. off[k])
          /\ Cardinality((off[k - 1] + 1) .. off[k]) =
               IF off[k - 1] + 1 > off[k] THEN 0 ELSE off[k] - (off[k - 1] + 1) + 1
      BY <3>1, FS_Interval
    <3>3. (IF off[k - 1] + 1 > off[k] THEN 0 ELSE off[k] - (off[k - 1] + 1) + 1) = Len(parts[k])
      <4>1. PlacesOf(off[k - 1], Len(parts[k]), off[k], off[n])
        BY <2>3, Between
      <4> QED
        BY <4>1 DEF PlacesOf
    <3> QED
      BY <2>4, <3>2, <3>3
  <2> QED
    BY <1>2, <1>10, <2>1, <2>5 DEF I, flat
<1>11. CASE t \notin D
  <2>1. I = {}
    <3> SUFFICES ASSUME NEW p \in I PROVE FALSE
      OBVIOUS
    <3>1. p \in 1 .. off[n] /\ flat[p].target = t
      BY <1>6 DEF I, RequestsOf
    <3>2. PICK i \in 1 .. n : \E j \in 1 .. Len(parts[i]) : p = off[i - 1] + j
      BY <1>9, <3>1
    <3>3. flat[p].target = b[i] /\ b[i] \in D
      BY <1>4, <1>8, <3>2
    <3> QED
      BY <1>11, <3>1, <3>3
  <2> QED
    BY <1>11, <2>1, FS_EmptySet DEF I, flat
<1> QED
  BY <1>10, <1>11

(***************************************************************************)
(* Tables of targets and their states.                                     *)
(***************************************************************************)

\* Changes are from some keys to kinds of change.
LEMMA ChangesAre ==
  ASSUME NEW f
  PROVE  f \in Changes <=> /\ DOMAIN f \subseteq Keys
                           /\ f \in [DOMAIN f -> {"Added", "Modified", "Removed"}]
  BY DEF Changes

\* Putting into a table.
LEMMA PutTable ==
  ASSUME NEW f, NEW t, NEW y
  PROVE  /\ DOMAIN Put(f, t, y) = DOMAIN f \cup {t} /\ Put(f, t, y)[t] = y
         /\ \A u \in DOMAIN f \ {t} : Put(f, t, y)[u] = f[u]
         /\ \A S : IsTable(f, S) /\ t \in Targets /\ y \in S => IsTable(Put(f, t, y), S)
<1>1. ASSUME NEW S, IsTable(f, S), t \in Targets, y \in S PROVE IsTable(Put(f, t, y), S)
  BY <1>1 DEF IsTable, Put
<1>2. /\ DOMAIN Put(f, t, y) = DOMAIN f \cup {t} /\ Put(f, t, y)[t] = y
      /\ \A u \in DOMAIN f \ {t} : Put(f, t, y)[u] = f[u]
  BY DEF Put
<1> QED
  BY <1>1, <1>2

\* Taking from a table.
LEMMA WithoutTable ==
  ASSUME NEW f, NEW t
  PROVE  /\ DOMAIN Without(f, t) = DOMAIN f \ {t}
         /\ \A u \in DOMAIN f \ {t} : Without(f, t)[u] = f[u]
         /\ \A S : IsTable(f, S) => IsTable(Without(f, t), S)
<1>1. ASSUME NEW S, IsTable(f, S) PROVE IsTable(Without(f, t), S)
  BY <1>1 DEF IsTable, Without, Restrict
<1>2. /\ DOMAIN Without(f, t) = DOMAIN f \ {t}
      /\ \A u \in DOMAIN f \ {t} : Without(f, t)[u] = f[u]
  BY DEF Without, Restrict
<1> QED
  BY <1>1, <1>2

\* A table over a set is one over any larger set.
LEMMA TableGrows ==
  ASSUME NEW S, NEW T, S \subseteq T, NEW f, IsTable(f, S)
  PROVE  IsTable(f, T)
  BY DEF IsTable

\* The fields of a client.
LEMMA ClientIs ==
  ASSUME NEW n, NEW c
  PROVE  IsClient(c, n) <=>
           /\ c = [tokens |-> c.tokens, states |-> c.states, resets |-> c.resets,
                   enabled |-> c.enabled, stream |-> c.stream, idle |-> c.idle,
                   requests |-> c.requests, responses |-> c.responses]
           /\ IsTable(c.tokens, Tokens(n)) /\ IsTable(c.states, States(n))
           /\ c.resets \in SUBSET Targets
           /\ c.enabled \in BOOLEAN /\ c.stream \in {"Stopped", "Starting", "Open"}
           /\ c.idle \in BOOLEAN
           /\ c.requests \in Seq(Requests(n)) /\ c.responses \in Seq(Responses(n))
<1>1. ASSUME IsClient(c, n)
      PROVE  /\ c = [tokens |-> c.tokens, states |-> c.states, resets |-> c.resets,
                   enabled |-> c.enabled, stream |-> c.stream, idle |-> c.idle,
                   requests |-> c.requests, responses |-> c.responses]
             /\ IsTable(c.tokens, Tokens(n)) /\ IsTable(c.states, States(n))
             /\ c.resets \in SUBSET Targets
             /\ c.enabled \in BOOLEAN /\ c.stream \in {"Stopped", "Starting", "Open"}
             /\ c.idle \in BOOLEAN
             /\ c.requests \in Seq(Requests(n)) /\ c.responses \in Seq(Responses(n))
  BY <1>1 DEF IsClient
<1>2. ASSUME c = [tokens |-> c.tokens, states |-> c.states, resets |-> c.resets,
                   enabled |-> c.enabled, stream |-> c.stream, idle |-> c.idle,
                   requests |-> c.requests, responses |-> c.responses],
             IsTable(c.tokens, Tokens(n)), IsTable(c.states, States(n)),
             c.resets \in SUBSET Targets,
             c.enabled \in BOOLEAN, c.stream \in {"Stopped", "Starting", "Open"},
             c.idle \in BOOLEAN,
             c.requests \in Seq(Requests(n)), c.responses \in Seq(Responses(n))
      PROVE  IsClient(c, n)
  <2>1. c \in [tokens : {c.tokens}, states : {c.states}, resets : SUBSET Targets,
             enabled : BOOLEAN, stream : {"Stopped", "Starting", "Open"}, idle : BOOLEAN,
             requests : Seq(Requests(n)), responses : Seq(Responses(n))]
    BY <1>2
  <2> QED
    BY <1>2, <2>1 DEF IsClient
<1> QED
  BY <1>1, <1>2

\* The state of a target, known or not, is a state.
LEMMA StateOfType ==
  ASSUME NEW n \in Nat, NEW c, IsTable(c.states, States(n)), NEW t
  PROVE  StateOf(c, t) \in States(n) /\ NewTargetState \in States(n)
<1>1. NewTargetState \in States(n)
  <2>1. <<>> \in Changes
    <3>1. DOMAIN <<>> = {} /\ <<>> \in [{} -> {"Added", "Modified", "Removed"}]
      OBVIOUS
    <3> QED
      BY <3>1, ChangesAre
  <2> QED
    BY <2>1 DEF NewTargetState, States, Tokens, None
<1>2. t \in DOMAIN c.states => c.states[t] \in States(n)
  BY DEF IsTable
<1> QED
  BY <1>1, <1>2 DEF StateOf

\* What an operation of the aggregator may do that is about target t alone, which has the
\* given keys: k of its outstanding responses are taken.
Touches(c, d, t, n, keys, k) ==
  /\ IsClient(d, n)
  /\ d.tokens = c.tokens /\ d.enabled = c.enabled /\ d.stream = c.stream
  /\ d.idle = c.idle /\ d.requests = c.requests /\ d.responses = c.responses
  /\ DOMAIN d.states \ {t} = DOMAIN c.states \ {t}
  /\ \A u \in DOMAIN d.states \ {t} : d.states[u] = c.states[u]
  /\ t \in DOMAIN d.states => Fits(d.states[t], keys)
  /\ StateOf(d, t).outstanding = StateOf(c, t).outstanding - k

\* Setting a state of t that fits touches t alone.
LEMMA WithStateTouches ==
  ASSUME NEW n \in Nat, NEW c, IsClient(c, n), NEW t \in Targets, NEW s \in States(n),
         NEW keys, Fits(s, keys), NEW k, s.outstanding = StateOf(c, t).outstanding - k
  PROVE  Touches(c, WithState(c, t, s), t, n, keys, k)
<1> DEFINE d == WithState(c, t, s)
<1>1. /\ d = [c EXCEPT !.states = Put(c.states, t, s)]
  BY DEF WithState
<1>2. /\ d = [tokens |-> c.tokens, states |-> Put(c.states, t, s), resets |-> c.resets,
              enabled |-> c.enabled, stream |-> c.stream, idle |-> c.idle,
              requests |-> c.requests, responses |-> c.responses]
  BY <1>1, ClientIs
<1> HIDE DEF d
<1>3. IsTable(c.states, States(n))
  BY ClientIs
<1>4. IsTable(Put(c.states, t, s), States(n))
  BY <1>3, PutTable
<1>5. IsClient(d, n)
  BY <1>2, <1>4, ClientIs
<1>6. /\ DOMAIN d.states = DOMAIN c.states \cup {t} /\ d.states[t] = s
      /\ \A u \in DOMAIN c.states \ {t} : d.states[u] = c.states[u]
  <2>1. d.states = Put(c.states, t, s)
    BY <1>2
  <2>2. /\ DOMAIN Put(c.states, t, s) = DOMAIN c.states \cup {t} /\ Put(c.states, t, s)[t] = s
        /\ \A u \in DOMAIN c.states \ {t} : Put(c.states, t, s)[u] = c.states[u]
    BY DEF Put
  <2> QED
    BY <2>1, <2>2
<1>7. StateOf(d, t) = s
  BY <1>6 DEF StateOf
<1> QED
  BY <1>2, <1>5, <1>6, <1>7 DEF Touches, d

\* Leaving everything as it is touches nothing.
LEMMA SameTouches ==
  ASSUME NEW n \in Nat, NEW c, IsClient(c, n), NEW t, NEW keys,
         t \in DOMAIN c.states => Fits(c.states[t], keys)
  PROVE  Touches(c, c, t, n, keys, 0)
<1>1. IsTable(c.states, States(n))
  BY ClientIs
<1>2. StateOf(c, t).outstanding \in Int
  BY <1>1, StateOfType DEF States
<1> QED
  BY <1>2 DEF Touches

\* A state without changes fits any keys.
LEMMA NoChangesFit ==
  ASSUME NEW s, DOMAIN s.changes = {}, NEW keys
  PROVE  Fits(s, keys)
  BY DEF Fits, KeysWith

\* The state of a target, known or not, fits the keys it has.
LEMMA StateOfFits ==
  ASSUME NEW c, NEW t, NEW keys, t \in DOMAIN c.states => Fits(c.states[t], keys)
  PROVE  Fits(StateOf(c, t), keys) /\ Fits(NewTargetState, keys)
<1>1. DOMAIN NewTargetState.changes = {}
  BY DEF NewTargetState
<1>2. Fits(NewTargetState, keys)
  BY <1>1, NoChangesFit
<1> QED
  BY <1>2 DEF StateOf

\* A state of target t that changes neither what is outstanding nor, except to drop them,
\* the changes touches t alone.
LEMMA FieldsTouch ==
  ASSUME NEW n \in Nat, NEW c, IsClient(c, n), NEW t \in Targets, NEW keys,
         t \in DOMAIN c.states => Fits(c.states[t], keys),
         NEW s \in States(n), s.outstanding = StateOf(c, t).outstanding,
         s.changes = StateOf(c, t).changes, s.dirty \/ s = StateOf(c, t)
  PROVE  Touches(c, WithState(c, t, s), t, n, keys, 0)
<1>1. IsTable(c.states, States(n))
  BY ClientIs
<1>2. StateOf(c, t).outstanding \in Int
  BY <1>1, StateOfType DEF States
<1>3. Fits(s, keys)
  <2>1. Fits(StateOf(c, t), keys)
    BY StateOfFits
  <2>2. \A change : KeysWith(s, change) = KeysWith(StateOf(c, t), change)
    BY DEF KeysWith
  <2>3. s.dirty \/ s.dirty = StateOf(c, t).dirty
    OBVIOUS
  <2> QED
    BY <2>1, <2>2, <2>3 DEF Fits
<1> QED
  BY <1>2, <1>3, WithStateTouches

\* A document that matches is a change to what the target has.
LEMMA AddDocumentTouches ==
  ASSUME NEW n \in Nat, NEW c, IsClient(c, n), NEW t \in Targets, NEW keys, NEW synced,
         t \in DOMAIN c.states => Fits(c.states[t], keys),
         t \in DOMAIN c.tokens => synced[t] = keys, NEW k \in Keys
  PROVE  Touches(c, AddDocument(c, synced, t, k), t, n, keys, 0)
<1>1. CASE ~IsActive(c, t)
  BY <1>1, SameTouches DEF AddDocument
<1>2. CASE IsActive(c, t)
  <2> DEFINE s == StateOf(c, t)
             change == IF k \in synced[t] THEN "Modified" ELSE "Added"
             new == [s EXCEPT !.changes = Put(s.changes, k, change), !.dirty = TRUE]
  <2>1. IsTable(c.states, States(n)) /\ synced[t] = keys
    BY <1>2, ClientIs DEF IsActive
  <2>2. s \in States(n) /\ Fits(s, keys)
    BY <2>1, StateOfType, StateOfFits
  <2>3. AddDocument(c, synced, t, k) = WithState(c, t, new)
    BY <1>2 DEF AddDocument
  <2>4. s.changes \in Changes /\ s.outstanding \in Int
    BY <2>2 DEF States
  <2>5. Put(s.changes, k, change) \in Changes
    <3>1. /\ DOMAIN s.changes \subseteq Keys
          /\ s.changes \in [DOMAIN s.changes -> {"Added", "Modified", "Removed"}]
      BY <2>4, ChangesAre
    <3> HIDE DEF s, new
    <3>2. /\ DOMAIN Put(s.changes, k, change) \subseteq Keys
          /\ Put(s.changes, k, change)
               \in [DOMAIN Put(s.changes, k, change) -> {"Added", "Modified", "Removed"}]
      BY <3>1 DEF Put
    <3> QED
      BY <3>2, ChangesAre
  <2>6. /\ new \in States(n) /\ new.outstanding = s.outstanding
        /\ new.changes = Put(s.changes, k, change) /\ new.dirty
    <3> HIDE DEF s, change
    <3> QED
      BY <2>2, <2>5 DEF States
  <2> HIDE DEF new, s
  <2>7. Fits(new, keys)
    <3>1. \A x \in DOMAIN new.changes : new.changes[x] = IF x = k THEN change ELSE s.changes[x]
      BY <2>6 DEF Put
    <3>2. DOMAIN new.changes = DOMAIN s.changes \cup {k}
      BY <2>6 DEF Put
    <3>3. change = IF k \in keys THEN "Modified" ELSE "Added"
      BY <2>1
    <3> HIDE DEF change
    <3> QED
      BY <2>2, <2>6, <3>1, <3>2, <3>3 DEF Fits, KeysWith
  <2>8. new.outstanding = StateOf(c, t).outstanding - 0
    BY <2>4, <2>6 DEF s
  <2> QED
    BY <2>3, <2>6, <2>7, <2>8, WithStateTouches
<1> QED
  BY <1>1, <1>2

\* So is a document that matches no longer, or several.
LEMMA RemoveDocumentsTouches ==
  ASSUME NEW n \in Nat, NEW c, IsClient(c, n), NEW t \in Targets, NEW keys, NEW synced,
         t \in DOMAIN c.states => Fits(c.states[t], keys),
         t \in DOMAIN c.tokens => synced[t] = keys, NEW ks \in SUBSET Keys
  PROVE  Touches(c, RemoveDocuments(c, synced, t, ks), t, n, keys, 0)
<1>1. CASE ~IsActive(c, t)
  BY <1>1, SameTouches DEF RemoveDocuments
<1>2. CASE IsActive(c, t)
  <2> DEFINE s == StateOf(c, t)
             changes == [k \in (DOMAIN s.changes \ ks) \cup (ks \cap synced[t]) |->
                           IF k \in ks THEN "Removed" ELSE s.changes[k]]
             new == [s EXCEPT !.changes = changes, !.dirty = TRUE]
  <2>1. IsTable(c.states, States(n)) /\ synced[t] = keys
    BY <1>2, ClientIs DEF IsActive
  <2>2. s \in States(n) /\ Fits(s, keys)
    BY <2>1, StateOfType, StateOfFits
  <2>3. RemoveDocuments(c, synced, t, ks) = WithState(c, t, new)
    BY <1>2 DEF RemoveDocuments
  <2>4. s.changes \in Changes /\ s.outstanding \in Int
    BY <2>2 DEF States
  <2>5. changes \in Changes
    <3>1. /\ DOMAIN s.changes \subseteq Keys
          /\ s.changes \in [DOMAIN s.changes -> {"Added", "Modified", "Removed"}]
      BY <2>4, ChangesAre
    <3>2. DOMAIN changes \subseteq Keys
      BY <3>1
    <3>3. \A k \in DOMAIN changes : changes[k] \in {"Added", "Modified", "Removed"}
      BY <3>1
    <3> HIDE DEF s, new
    <3>4. changes \in [DOMAIN changes -> {"Added", "Modified", "Removed"}]
      BY <3>3
    <3> HIDE DEF changes
    <3> QED
      BY <3>2, <3>4, ChangesAre
  <2>6. /\ new \in States(n) /\ new.outstanding = s.outstanding
        /\ new.changes = changes /\ new.dirty
    <3> HIDE DEF s, changes
    <3> QED
      BY <2>2, <2>5 DEF States
  <2>7. /\ DOMAIN changes = (DOMAIN s.changes \ ks) \cup (ks \cap synced[t])
        /\ \A k \in DOMAIN changes : changes[k] = IF k \in ks THEN "Removed" ELSE s.changes[k]
    OBVIOUS
  <2> HIDE DEF new, s, changes
  <2>8. Fits(new, keys)
    <3>1. /\ KeysWith(s, "Added") \cap keys = {} /\ KeysWith(s, "Modified") \subseteq keys
          /\ KeysWith(s, "Removed") \subseteq keys
      BY <2>2 DEF Fits
    <3>2. KeysWith(new, "Added") \cap keys = {}
      BY <2>6, <2>7, <3>1 DEF KeysWith
    <3>3. KeysWith(new, "Modified") \subseteq keys
      BY <2>6, <2>7, <3>1 DEF KeysWith
    <3>4. KeysWith(new, "Removed") \subseteq keys
      BY <2>1, <2>6, <2>7, <3>1 DEF KeysWith
    <3> QED
      BY <2>6, <3>2, <3>3, <3>4 DEF Fits
  <2>9. new.outstanding = StateOf(c, t).outstanding - 0
    BY <2>4, <2>6 DEF s
  <2> QED
    BY <2>3, <2>6, <2>8, <2>9, WithStateTouches
<1> QED
  BY <1>1, <1>2

\* Resetting an active target removes what it has.
LEMMA ResetTargetTouches ==
  ASSUME NEW n \in Nat, NEW c, IsClient(c, n), NEW t \in Targets, NEW keys \in SUBSET Keys,
         NEW synced, synced[t] = keys, StateOf(c, t).outstanding = 0
  PROVE  Touches(c, ResetTarget(c, synced, t), t, n, keys, 0)
<1> DEFINE changes == [k \in synced[t] |-> "Removed"]
           new == [NewTargetState EXCEPT !.changes = changes]
<1>1. changes \in Changes
  <2>1. DOMAIN changes \subseteq Keys /\ changes \in [DOMAIN changes -> {"Added", "Modified", "Removed"}]
    OBVIOUS
  <2> QED
    BY <2>1, ChangesAre
<1>2. /\ new \in States(n) /\ new.outstanding = 0 /\ new.changes = changes /\ new.dirty
  <2>1. IsTable(c.states, States(n))
    BY ClientIs
  <2>2. NewTargetState \in States(n) /\ NewTargetState.outstanding = 0 /\ NewTargetState.dirty
    BY <2>1, StateOfType DEF NewTargetState
  <2> HIDE DEF changes
  <2> QED
    BY <1>1, <2>2 DEF States
<1>3. ResetTarget(c, synced, t) = WithState(c, t, new)
  BY DEF ResetTarget
<1>4. Fits(new, keys)
  <2>1. DOMAIN changes = keys /\ \A k \in keys : changes[k] = "Removed"
    OBVIOUS
  <2> HIDE DEF changes, new
  <2> QED
    BY <1>2, <2>1 DEF Fits, KeysWith
<1> HIDE DEF new
<1> QED
  BY <1>2, <1>3, <1>4, WithStateTouches

\* An existence filter removes documents, or resets the target and remembers to unwatch it.
LEMMA FilterTouches ==
  ASSUME NEW n \in Nat, NEW c, IsClient(c, n), NEW m, m.target \in Targets,
         NEW keys \in SUBSET Keys, NEW synced,
         m.target \in DOMAIN c.states => Fits(c.states[m.target], keys),
         m.target \in DOMAIN c.tokens => synced[m.target] = keys
  PROVE  Touches(c, HandleExistenceFilter(c, synced, m), m.target, n, keys, 0)
<1> DEFINE t == m.target
           absent == IF m.bloom = NoBloom THEN {} ELSE synced[t] \ m.bloom
           filtered == RemoveDocuments(c, synced, t, absent)
           reset == ResetTarget(filtered, synced, t)
           marked == [reset EXCEPT !.resets = c.resets \cup {t}]
           d == HandleExistenceFilter(c, synced, m)
<1>1. d \in {c, filtered, marked} /\ (~IsActive(c, t) => d = c)
  BY DEF HandleExistenceFilter
<1>2. CASE d = c
  BY <1>2, SameTouches
<1>3. CASE d # c
  <2>1. IsActive(c, t) /\ synced[t] = keys
    BY <1>1, <1>3 DEF IsActive
  <2>2. absent \in SUBSET Keys
    BY <2>1
  <2> HIDE DEF absent
  <2>3. Touches(c, filtered, t, n, keys, 0)
    BY <2>2, RemoveDocumentsTouches
  <2> HIDE DEF filtered
  <2>4. IsClient(filtered, n) /\ StateOf(filtered, t).outstanding = 0
    BY <2>1, <2>3 DEF Touches, IsActive
  <2>5. Touches(filtered, reset, t, n, keys, 0)
    BY <2>1, <2>4, ResetTargetTouches
  <2> HIDE DEF reset
  <2>6. IsClient(reset, n) /\ c.resets \cup {t} \in SUBSET Targets
    BY <2>5, ClientIs DEF Touches
  <2>7. marked = [tokens |-> reset.tokens, states |-> reset.states, resets |-> c.resets \cup {t},
                  enabled |-> reset.enabled, stream |-> reset.stream, idle |-> reset.idle,
                  requests |-> reset.requests, responses |-> reset.responses]
    <3>1. reset = [tokens |-> reset.tokens, states |-> reset.states, resets |-> reset.resets,
                   enabled |-> reset.enabled, stream |-> reset.stream, idle |-> reset.idle,
                   requests |-> reset.requests, responses |-> reset.responses]
      BY <2>6, ClientIs
    <3> QED
      BY <3>1
  <2> HIDE DEF marked, t
  <2>8. IsClient(marked, n)
    BY <2>6, <2>7, ClientIs
  <2>9. StateOf(marked, t) = StateOf(reset, t)
    BY <2>7 DEF StateOf
  <2>10. Touches(c, marked, t, n, keys, 0)
    <3>1. StateOf(reset, t).outstanding = 0 /\ StateOf(c, t).outstanding = 0
      BY <2>1, <2>4, <2>5 DEF Touches, IsActive
    <3>2. StateOf(marked, t).outstanding = StateOf(c, t).outstanding - 0
      BY <2>9, <3>1
    <3>3. /\ DOMAIN marked.states \ {t} = DOMAIN c.states \ {t}
          /\ \A u \in DOMAIN marked.states \ {t} : marked.states[u] = c.states[u]
      BY <2>3, <2>5, <2>7 DEF Touches
    <3>4. t \in DOMAIN marked.states => Fits(marked.states[t], keys)
      BY <2>5, <2>7 DEF Touches
    <3>5. /\ marked.tokens = c.tokens /\ marked.enabled = c.enabled /\ marked.stream = c.stream
          /\ marked.idle = c.idle /\ marked.requests = c.requests
          /\ marked.responses = c.responses
      BY <2>3, <2>5, <2>7 DEF Touches
    <3> QED
      BY <2>8, <3>2, <3>3, <3>4, <3>5 DEF Touches
  <2> QED
    BY <1>1, <1>3, <2>3, <2>10 DEF t
<1> QED
  BY <1>2, <1>3

\* An acknowledged listen takes one of the outstanding responses of its target.
LEMMA AddedTouches ==
  ASSUME NEW n \in Nat, NEW c, IsClient(c, n), NEW t \in Targets, NEW keys,
         t \in DOMAIN c.states => Fits(c.states[t], keys)
  PROVE  Touches(c, Added(c, t), t, n, keys, 1)
<1> DEFINE s == [StateOf(c, t) EXCEPT !.outstanding = @ - 1]
           new == IF s.outstanding = 0 THEN [s EXCEPT !.changes = <<>>, !.dirty = FALSE] ELSE s
<1>1. StateOf(c, t) \in States(n) /\ StateOf(c, t).outstanding \in Int /\ Fits(StateOf(c, t), keys)
  <2>1. IsTable(c.states, States(n))
    BY ClientIs
  <2> QED
    BY <2>1, StateOfType, StateOfFits DEF States
<1>2. /\ s \in States(n) /\ s.outstanding = StateOf(c, t).outstanding - 1
      /\ s.changes = StateOf(c, t).changes /\ s.dirty = StateOf(c, t).dirty
  BY <1>1 DEF States
<1>3. Fits(s, keys)
  BY <1>1, <1>2 DEF Fits, KeysWith
<1> HIDE DEF s
<1>4. <<>> \in Changes
  <2>1. DOMAIN <<>> = {} /\ <<>> \in [{} -> {"Added", "Modified", "Removed"}]
    OBVIOUS
  <2> QED
    BY <2>1, ChangesAre
<1>5. new \in States(n) /\ new.outstanding = StateOf(c, t).outstanding - 1
  BY <1>2, <1>4 DEF States
<1>6. Fits(new, keys)
  <2>1. CASE s.outstanding = 0
    <3>1. new.changes = <<>>
      BY <1>2, <2>1 DEF States
    <3>2. DOMAIN new.changes = {}
      BY <3>1
    <3> QED
      BY <3>2, NoChangesFit
  <2>2. CASE s.outstanding # 0
    BY <1>3, <2>2
  <2> QED
    BY <2>1, <2>2
<1>7. Added(c, t) = WithState(c, t, new)
  BY DEF Added, s
<1> HIDE DEF new
<1> QED
  BY <1>5, <1>6, <1>7, WithStateTouches

\* So does an acknowledged unlisten, and the last one takes the target's state.
LEMMA RemovedTouches ==
  ASSUME NEW n \in Nat, NEW c, IsClient(c, n), NEW t \in Targets, NEW keys,
         t \in DOMAIN c.states => Fits(c.states[t], keys)
  PROVE  Touches(c, Removed(c, t), t, n, keys, 1)
<1> DEFINE s == [StateOf(c, t) EXCEPT !.outstanding = @ - 1]
           d == [c EXCEPT !.states = Without(c.states, t)]
<1>0. IsTable(c.states, States(n))
  BY ClientIs
<1>1. StateOf(c, t) \in States(n) /\ StateOf(c, t).outstanding \in Int /\ Fits(StateOf(c, t), keys)
  BY <1>0, StateOfType, StateOfFits DEF States
<1>2. /\ s \in States(n) /\ s.outstanding = StateOf(c, t).outstanding - 1
      /\ s.changes = StateOf(c, t).changes /\ s.dirty = StateOf(c, t).dirty
  BY <1>1 DEF States
<1>3. Fits(s, keys)
  BY <1>1, <1>2 DEF Fits, KeysWith
<1>4. Removed(c, t) = IF s.outstanding = 0 THEN d ELSE WithState(c, t, s)
  BY DEF Removed
<1> HIDE DEF s
<1>5. CASE s.outstanding # 0
  BY <1>2, <1>3, <1>4, <1>5, WithStateTouches
<1>6. CASE s.outstanding = 0
  <2>1. d = [tokens |-> c.tokens, states |-> Without(c.states, t), resets |-> c.resets,
              enabled |-> c.enabled, stream |-> c.stream, idle |-> c.idle,
              requests |-> c.requests, responses |-> c.responses]
    BY ClientIs
  <2>2. IsTable(Without(c.states, t), States(n))
    BY <1>0, WithoutTable
  <2> HIDE DEF d
  <2>3. IsClient(d, n)
    BY <2>1, <2>2, ClientIs
  <2>4. /\ DOMAIN d.states = DOMAIN c.states \ {t}
        /\ \A u \in DOMAIN c.states \ {t} : d.states[u] = c.states[u]
    <3>1. d.states = Without(c.states, t)
      BY <2>1
    <3>2. /\ DOMAIN Without(c.states, t) = DOMAIN c.states \ {t}
          /\ \A u \in DOMAIN c.states \ {t} : Without(c.states, t)[u] = c.states[u]
      BY DEF Without, Restrict
    <3> QED
      BY <3>1, <3>2
  <2>5. StateOf(d, t).outstanding = StateOf(c, t).outstanding - 1
    BY <1>2, <1>6, <2>4 DEF StateOf, NewTargetState
  <2>6. Touches(c, d, t, n, keys, 1)
    BY <2>1, <2>3, <2>4, <2>5 DEF Touches
  <2> QED
    BY <1>4, <1>6, <2>6
<1> QED
  BY <1>5, <1>6

\* What the aggregator does with a response that is not a target's error: K is what
\* every target has.
Gathers(c, d, m, n, K) ==
  /\ IsClient(d, n)
  /\ d.tokens = c.tokens /\ d.enabled = c.enabled /\ d.stream = c.stream
  /\ d.idle = c.idle /\ d.requests = c.requests /\ d.responses = c.responses
  /\ \A t \in DOMAIN d.states : Fits(d.states[t], K[t])
  /\ \A t \in Targets :
       StateOf(d, t).outstanding =
         StateOf(c, t).outstanding - (IF Answers(m) /\ m.target = t THEN 1 ELSE 0)

\* What touches the target of a response alone is gathering.
LEMMA TouchesGathers ==
  ASSUME NEW n \in Nat, NEW c, IsClient(c, n), NEW m, NEW K, NEW d, NEW k,
         \A t \in DOMAIN c.states : Fits(c.states[t], K[t]),
         Touches(c, d, m.target, n, K[m.target], k),
         k = IF Answers(m) THEN 1 ELSE 0
  PROVE  Gathers(c, d, m, n, K)
<1>1. \A t \in DOMAIN d.states : Fits(d.states[t], K[t])
  BY DEF Touches
<1>2. ASSUME NEW t \in Targets
      PROVE  StateOf(d, t).outstanding =
               StateOf(c, t).outstanding - (IF Answers(m) /\ m.target = t THEN 1 ELSE 0)
  <2>1. CASE m.target = t
    BY <2>1 DEF Touches
  <2>2. CASE m.target # t
    <3>1. StateOf(d, t) = StateOf(c, t)
      <4>1. t \in DOMAIN d.states <=> t \in DOMAIN c.states
        BY <2>2 DEF Touches
      <4>2. t \in DOMAIN d.states => d.states[t] = c.states[t]
        BY <2>2 DEF Touches
      <4> QED
        BY <4>1, <4>2 DEF StateOf
    <3>2. IsTable(c.states, States(n))
      BY ClientIs
    <3>3. StateOf(c, t).outstanding \in Int
      BY <3>2, StateOfType DEF States
    <3> QED
      BY <2>2, <3>1, <3>3
  <2> QED
    BY <2>1, <2>2
<1> QED
  BY <1>1, <1>2 DEF Touches, Gathers

\* A resume token changes neither the changes of a state nor what is outstanding.
LEMMA WithTokenIs ==
  ASSUME NEW n \in Nat, NEW s \in States(n), NEW token \in Tokens(n)
  PROVE  /\ WithToken(s, token) \in States(n)
         /\ WithToken(s, token).outstanding = s.outstanding
         /\ WithToken(s, token).changes = s.changes
         /\ s.dirty => WithToken(s, token).dirty
         /\ WithToken(s, token).dirty \/ WithToken(s, token) = s
  BY DEF WithToken, States

\* A change of no kind gives a token to every active target.
LEMMA NoChangeGathers ==
  ASSUME NEW n \in Nat, NEW c, IsClient(c, n), NEW m, m.type = "NoChange",
         m.token \in Tokens(n), NEW K, \A t \in DOMAIN c.states : Fits(c.states[t], K[t])
  PROVE  Gathers(c, NoChange(c, m.token), m, n, K)
<1> DEFINE states == [t \in DOMAIN c.states |->
                        IF IsActive(c, t) THEN WithToken(c.states[t], m.token) ELSE c.states[t]]
           d == [c EXCEPT !.states = states]
<1>0. d = NoChange(c, m.token)
  BY DEF NoChange
<1>1. IsTable(c.states, States(n))
  BY ClientIs
<1>2. \A t \in DOMAIN c.states : c.states[t] \in States(n)
  BY <1>1 DEF IsTable
<1>3. ASSUME NEW t \in DOMAIN c.states
      PROVE  /\ states[t] \in States(n) /\ states[t].outstanding = c.states[t].outstanding
             /\ states[t].changes = c.states[t].changes /\ (c.states[t].dirty => states[t].dirty)
  <2>1. states[t] \in {c.states[t], WithToken(c.states[t], m.token)}
    OBVIOUS
  <2> HIDE DEF states
  <2> QED
    BY <1>2, <2>1, WithTokenIs
<1>4. DOMAIN states = DOMAIN c.states /\ states = [t \in DOMAIN c.states |-> states[t]]
  OBVIOUS
<1>5. d = [tokens |-> c.tokens, states |-> states, resets |-> c.resets,
            enabled |-> c.enabled, stream |-> c.stream, idle |-> c.idle,
            requests |-> c.requests, responses |-> c.responses]
  <2> HIDE DEF states
  <2> QED
    BY ClientIs
<1> HIDE DEF states, d
<1>6. IsTable(states, States(n))
  BY <1>1, <1>3, <1>4 DEF IsTable
<1>7. IsClient(d, n)
  BY <1>5, <1>6, ClientIs
<1>8. \A t \in DOMAIN d.states : Fits(d.states[t], K[t])
  <2> SUFFICES ASSUME NEW t \in DOMAIN c.states PROVE Fits(states[t], K[t])
    BY <1>4, <1>5
  <2>1. Fits(c.states[t], K[t])
    OBVIOUS
  <2>2. states[t].changes = c.states[t].changes /\ (c.states[t].dirty => states[t].dirty)
    BY <1>3
  <2>3. \A change : KeysWith(states[t], change) = KeysWith(c.states[t], change)
    BY <2>2 DEF KeysWith
  <2> QED
    BY <2>1, <2>2, <2>3 DEF Fits
<1>9. \A t \in Targets : StateOf(d, t).outstanding = StateOf(c, t).outstanding - 0
  <2> SUFFICES ASSUME NEW t \in Targets
               PROVE  StateOf(d, t).outstanding = StateOf(c, t).outstanding - 0
    OBVIOUS
  <2>1. StateOf(c, t).outstanding \in Int
    BY <1>1, StateOfType DEF States
  <2>2. StateOf(d, t).outstanding = StateOf(c, t).outstanding
    BY <1>3, <1>4, <1>5 DEF StateOf
  <2> QED
    BY <2>1, <2>2
<1>10. ~Answers(m)
  BY DEF Answers
<1> QED
  BY <1>0, <1>5, <1>7, <1>8, <1>9, <1>10 DEF Gathers

\* The fields of a response, by its type.
LEMMA ResponseFields ==
  ASSUME NEW n \in Nat, NEW m \in Responses(n)
  PROVE  /\ m.type \in {"Document", "Delete", "Added", "Removed", "Reset", "Current",
                        "NoChange", "Filter", "Error"}
         /\ m.type # "NoChange" => m.target \in Targets
         /\ m.type \in {"Document", "Delete"} => m.key \in Keys
         /\ m.type \in {"Current", "NoChange"} => m.token \in Tokens(n) /\ m.token \in 1 .. n
         /\ m.type = "Error" => m.answers \in BOOLEAN
  BY DEF Responses, Tokens

\* A response about a target that is not an error touches that target alone.
LEMMA AggregateTouches ==
  ASSUME NEW n \in Nat, NEW c, IsClient(c, n), NEW m \in Responses(n),
         m.type \notin {"Error", "NoChange"}, NEW K \in [Targets -> SUBSET Keys], NEW synced,
         \A t \in DOMAIN c.states : Fits(c.states[t], K[t]),
         \A t \in DOMAIN c.tokens : synced[t] = K[t]
  PROVE  Touches(c, Aggregate(c, synced, m), m.target, n, K[m.target], IF Answers(m) THEN 1 ELSE 0)
<1> DEFINE t == m.target
<1>0. Answers(m) <=> m.type \in {"Added", "Removed"}
  BY DEF Answers
<1>1. t \in Targets
  BY ResponseFields
<1>2. /\ t \in DOMAIN c.states => Fits(c.states[t], K[t])
      /\ t \in DOMAIN c.tokens => synced[t] = K[t]
      /\ K[t] \in SUBSET Keys
  BY <1>1
<1>3. IsTable(c.states, States(n)) /\ StateOf(c, t) \in States(n)
  BY ClientIs, StateOfType
<1> HIDE DEF t
<1>4. CASE m.type = "Document"
  <2>1. Aggregate(c, synced, m) = AddDocument(c, synced, t, m.key) /\ m.key \in Keys
    BY <1>4, ResponseFields DEF Aggregate, t
  <2>2. Touches(c, AddDocument(c, synced, t, m.key), t, n, K[t], 0)
    BY <1>1, <1>2, <2>1, AddDocumentTouches
  <2> QED
    BY <1>4, <2>1, <2>2, <1>0 DEF t
<1>5. CASE m.type = "Delete"
  <2>1. Aggregate(c, synced, m) = RemoveDocuments(c, synced, t, {m.key}) /\ {m.key} \in SUBSET Keys
    BY <1>5, ResponseFields DEF Aggregate, t
  <2>2. Touches(c, RemoveDocuments(c, synced, t, {m.key}), t, n, K[t], 0)
    BY <1>1, <1>2, <2>1, RemoveDocumentsTouches
  <2> QED
    BY <1>5, <2>1, <2>2, <1>0 DEF t
<1>6. CASE m.type = "Filter"
  <2>1. Aggregate(c, synced, m) = HandleExistenceFilter(c, synced, m)
    BY <1>6 DEF Aggregate
  <2>2. Touches(c, HandleExistenceFilter(c, synced, m), t, n, K[t], 0)
    BY <1>1, <1>2, FilterTouches DEF t
  <2> QED
    BY <1>6, <2>1, <2>2, <1>0 DEF t
<1>7. CASE m.type = "Added"
  <2>1. Aggregate(c, synced, m) = Added(c, t)
    BY <1>7 DEF Aggregate, t
  <2>2. Touches(c, Added(c, t), t, n, K[t], 1)
    BY <1>1, <1>2, AddedTouches
  <2> QED
    BY <1>7, <2>1, <2>2, <1>0 DEF t
<1>8. CASE m.type = "Removed"
  <2>1. Aggregate(c, synced, m) = Removed(c, t)
    BY <1>8 DEF Aggregate, t
  <2>2. Touches(c, Removed(c, t), t, n, K[t], 1)
    BY <1>1, <1>2, RemovedTouches
  <2> QED
    BY <1>8, <2>1, <2>2, <1>0 DEF t
<1>9. ASSUME NEW s \in States(n), s.outstanding = StateOf(c, t).outstanding,
             s.changes = StateOf(c, t).changes, s.dirty \/ s = StateOf(c, t)
      PROVE  Touches(c, WithState(c, t, s), t, n, K[t], 0)
  BY <1>1, <1>2, <1>9, FieldsTouch
<1>10. CASE m.type = "Current"
  <2> DEFINE cur == [StateOf(c, t) EXCEPT !.current = TRUE, !.dirty = TRUE]
             s == IF IsActive(c, t) THEN WithToken(cur, m.token) ELSE StateOf(c, t)
  <2>1. Aggregate(c, synced, m) = WithState(c, t, s)
    BY <1>10 DEF Aggregate, t
  <2>2. /\ cur \in States(n) /\ cur.outstanding = StateOf(c, t).outstanding
        /\ cur.changes = StateOf(c, t).changes /\ cur.dirty
    BY <1>3 DEF States
  <2>3. m.token \in Tokens(n)
    BY <1>10, ResponseFields
  <2> HIDE DEF cur
  <2>4. /\ s \in States(n) /\ s.outstanding = StateOf(c, t).outstanding
        /\ s.changes = StateOf(c, t).changes /\ (s.dirty \/ s = StateOf(c, t))
    BY <1>3, <2>2, <2>3, WithTokenIs
  <2> HIDE DEF s
  <2>5. Touches(c, WithState(c, t, s), t, n, K[t], 0)
    BY <1>9, <2>4
  <2> QED
    BY <1>10, <2>1, <2>5, <1>0 DEF t
<1>11. CASE m.type = "Reset"
  <2>1. CASE ~IsActive(c, t)
    <3>1. Aggregate(c, synced, m) = WithState(c, t, StateOf(c, t))
      BY <1>11, <2>1 DEF Aggregate, t
    <3>2. Touches(c, WithState(c, t, StateOf(c, t)), t, n, K[t], 0)
      BY <1>3, <1>9
    <3> QED
      BY <1>11, <3>1, <3>2, <1>0 DEF t
  <2>2. CASE IsActive(c, t)
    <3>1. Aggregate(c, synced, m) = ResetTarget(c, synced, t)
      BY <1>11, <2>2 DEF Aggregate, t
    <3>2. Touches(c, ResetTarget(c, synced, t), t, n, K[t], 0)
      BY <1>1, <1>2, <2>2, ResetTargetTouches DEF IsActive
    <3> QED
      BY <1>11, <3>1, <3>2, <1>0 DEF t
  <2> QED
    BY <2>1, <2>2
<1> QED
  BY <1>4, <1>5, <1>6, <1>7, <1>8, <1>10, <1>11, ResponseFields

\* Every response that is not an error is gathered.
LEMMA AggregateGathers ==
  ASSUME NEW n \in Nat, NEW c, IsClient(c, n), NEW m \in Responses(n), m.type # "Error",
         NEW K \in [Targets -> SUBSET Keys], NEW synced,
         \A t \in DOMAIN c.states : Fits(c.states[t], K[t]),
         \A t \in DOMAIN c.tokens : synced[t] = K[t]
  PROVE  Gathers(c, Aggregate(c, synced, m), m, n, K)
<1>1. CASE m.type = "NoChange"
  <2>1. Aggregate(c, synced, m) = NoChange(c, m.token)
    BY <1>1 DEF Aggregate
  <2> QED
    BY <1>1, <2>1, NoChangeGathers, ResponseFields
<1>2. CASE m.type # "NoChange"
  <2> DEFINE k == IF Answers(m) THEN 1 ELSE 0
  <2>1. Touches(c, Aggregate(c, synced, m), m.target, n, K[m.target], k)
    BY <1>2, AggregateTouches
  <2>2. k = IF Answers(m) THEN 1 ELSE 0
    OBVIOUS
  <2> HIDE DEF k
  <2> QED
    BY <2>1, <2>2, TouchesGathers
<1> QED
  BY <1>1, <1>2

(***************************************************************************)
(* Counting what is on the wire.                                           *)
(***************************************************************************)

\* The places of a sequence's elements that are in a set.
Places(s, T) == {i \in DOMAIN s : s[i] \in T}

\* There are finitely many.
LEMMA PlacesFinite ==
  ASSUME NEW M, NEW s \in Seq(M), NEW T
  PROVE  IsFiniteSet(Places(s, T)) /\ Cardinality(Places(s, T)) \in Nat
<1>1. Len(s) \in Nat /\ DOMAIN s = 1 .. Len(s)
  OBVIOUS
<1>2. IsFiniteSet(1 .. Len(s))
  BY <1>1, FS_Interval
<1>3. Places(s, T) \in SUBSET (1 .. Len(s))
  BY <1>1 DEF Places
<1> QED
  BY <1>2, <1>3, FS_Subset, FS_CardinalityType

\* A concatenation has the places of both its parts.
LEMMA PlacesConcat ==
  ASSUME NEW M, NEW a \in Seq(M), NEW b \in Seq(M), NEW T
  PROVE  Cardinality(Places(a \o b, T)) = Cardinality(Places(a, T)) + Cardinality(Places(b, T))
<1> DEFINE A == Places(a, T)
           B == Places(b, T)
           C == {Len(a) + j : j \in B}
<1>1. Len(a) \in Nat /\ Len(b) \in Nat /\ DOMAIN a = 1 .. Len(a) /\ DOMAIN b = 1 .. Len(b)
      /\ a \o b \in Seq(M) /\ DOMAIN (a \o b) = 1 .. Len(a) + Len(b)
  <2>1. a \o b \in Seq(M) /\ Len(a \o b) = Len(a) + Len(b)
    BY ConcatProperties
  <2> QED
    BY <2>1
<1>2. /\ \A i \in 1 .. Len(a) : (a \o b)[i] = a[i]
      /\ \A j \in 1 .. Len(b) : (a \o b)[Len(a) + j] = b[j]
  BY ConcatAt
<1>3. IsFiniteSet(A) /\ IsFiniteSet(B) /\ Cardinality(A) \in Nat /\ Cardinality(B) \in Nat
  BY PlacesFinite
<1>4. A \subseteq 1 .. Len(a) /\ B \subseteq 1 .. Len(b)
  BY <1>1 DEF Places
<1>5. Places(a \o b, T) = A \cup C
  <2>1. ASSUME NEW p \in Places(a \o b, T) PROVE p \in A \cup C
    <3>1. p \in 1 .. Len(a) + Len(b) /\ (a \o b)[p] \in T
      BY <1>1 DEF Places
    <3>2. CASE p <= Len(a)
      <4>1. p \in 1 .. Len(a) /\ a[p] \in T
        BY <1>1, <1>2, <3>1, <3>2
      <4> QED
        BY <1>1, <4>1 DEF Places
    <3>3. CASE ~(p <= Len(a))
      <4>1. p - Len(a) \in 1 .. Len(b) /\ p = Len(a) + (p - Len(a))
        BY <1>1, <3>1, <3>3
      <4>2. b[p - Len(a)] \in T
        BY <1>2, <3>1, <4>1
      <4>3. p - Len(a) \in B
        BY <1>1, <4>1, <4>2 DEF Places
      <4> QED
        BY <4>1, <4>3
    <3> QED
      BY <3>2, <3>3
  <2>2. ASSUME NEW p \in A PROVE p \in Places(a \o b, T)
    <3>1. p \in 1 .. Len(a) /\ a[p] \in T
      BY <1>1 DEF Places
    <3>2. p \in 1 .. Len(a) + Len(b)
      BY <1>1, <3>1
    <3> QED
      BY <1>1, <1>2, <3>1, <3>2 DEF Places
  <2>3. ASSUME NEW j \in B PROVE Len(a) + j \in Places(a \o b, T)
    <3>1. j \in 1 .. Len(b) /\ b[j] \in T
      BY <1>1 DEF Places
    <3>2. Len(a) + j \in 1 .. Len(a) + Len(b)
      BY <1>1, <3>1
    <3>3. (a \o b)[Len(a) + j] \in T
      BY <1>2, <3>1
    <3> QED
      BY <1>1, <3>2, <3>3 DEF Places
  <2> QED
    BY <2>1, <2>2, <2>3
<1> HIDE DEF A, B
<1>6. IsFiniteSet(C) /\ Cardinality(C) = Cardinality(B)
  <2> DEFINE f == [j \in B |-> Len(a) + j]
  <2>1. f \in Bijection(B, C)
    <3>1. f \in [B -> C] /\ \A x \in C : \E j \in B : f[j] = x
      OBVIOUS
    <3>2. \A i, j \in B : f[i] = f[j] => i = j
      BY <1>1, <1>4
    <3> HIDE DEF f, C
    <3> QED
      BY <3>1, <3>2 DEF Bijection, Injection, Surjection, IsInjective
  <2>2. ExistsBijection(B, C)
    BY <2>1 DEF ExistsBijection
  <2> HIDE DEF C
  <2> QED
    BY <1>3, <2>2, FS_Bijection
<1>7. A \cap C = {}
  BY <1>1, <1>4
<1> HIDE DEF C
<1>8. Cardinality(A \cup C) = Cardinality(A) + Cardinality(C) - Cardinality(A \cap C)
  BY <1>3, <1>6, FS_Union
<1>9. Cardinality(A \cap C) = 0
  BY <1>7, FS_EmptySet
<1> QED
  BY <1>3, <1>5, <1>6, <1>8, <1>9 DEF A, B

\* A sequence of one element has one place or none.
LEMMA PlacesOne ==
  ASSUME NEW M, NEW e \in M, NEW T
  PROVE  Cardinality(Places(<<e>>, T)) = IF e \in T THEN 1 ELSE 0
<1>1. DOMAIN <<e>> = {1} /\ <<e>>[1] = e
  OBVIOUS
<1>2. Places(<<e>>, T) = IF e \in T THEN {1} ELSE {}
  BY <1>1 DEF Places
<1> QED
  BY <1>2, FS_EmptySet, FS_Singleton

\* An element appended is one more place or none.
LEMMA PlacesAppend ==
  ASSUME NEW M, NEW s \in Seq(M), NEW e \in M, NEW T
  PROVE  Cardinality(Places(Append(s, e), T)) =
           Cardinality(Places(s, T)) + (IF e \in T THEN 1 ELSE 0)
<1>1. Append(s, e) = s \o <<e>> /\ <<e>> \in Seq(M)
  BY AppendIsConcat
<1>2. Cardinality(Places(s \o <<e>>, T)) = Cardinality(Places(s, T)) + Cardinality(Places(<<e>>, T))
  BY <1>1, PlacesConcat
<1>3. Cardinality(Places(<<e>>, T)) = IF e \in T THEN 1 ELSE 0
  BY PlacesOne
<1> QED
  BY <1>1, <1>2, <1>3

\* The head taken is one place less or none.
LEMMA PlacesTail ==
  ASSUME NEW M, NEW s \in Seq(M), s # <<>>, NEW T
  PROVE  Cardinality(Places(Tail(s), T)) =
           Cardinality(Places(s, T)) - (IF Head(s) \in T THEN 1 ELSE 0)
<1>1. Head(s) \in M /\ Tail(s) \in Seq(M) /\ <<Head(s)>> \in Seq(M) /\ s = <<Head(s)>> \o Tail(s)
  OBVIOUS
<1> DEFINE h == Head(s)
           r == Tail(s)
<1> HIDE DEF h, r
<1>2. h \in M /\ r \in Seq(M) /\ <<h>> \in Seq(M) /\ s = <<h>> \o r
  BY <1>1 DEF h, r
<1>3. Cardinality(Places(s, T)) = Cardinality(Places(<<h>>, T)) + Cardinality(Places(r, T))
  BY <1>2, PlacesConcat
<1>4. Cardinality(Places(<<h>>, T)) = IF h \in T THEN 1 ELSE 0
  BY <1>2, PlacesOne
<1>5. Cardinality(Places(r, T)) \in Nat
  BY <1>2, PlacesFinite
<1> QED
  BY <1>3, <1>4, <1>5 DEF h, r

\* The requests and the answers of a target are places.
RequestsFor(n, t) == {q \in Requests(n) : q.target = t}
AnswersFor(n, t) == {m \in Responses(n) : Answers(m) /\ m.target = t}

LEMMA UnderWayPlaces ==
  ASSUME NEW n, NEW requests \in Seq(Requests(n)), NEW responses \in Seq(Responses(n)), NEW t
  PROVE  /\ RequestsOf(requests, t) = Places(requests, RequestsFor(n, t))
         /\ AnswersOf(responses, t) = Places(responses, AnswersFor(n, t))
<1>1. \A i \in DOMAIN requests : requests[i] \in Requests(n)
  OBVIOUS
<1>2. \A i \in DOMAIN responses : responses[i] \in Responses(n)
  OBVIOUS
<1> QED
  BY <1>1, <1>2 DEF RequestsOf, AnswersOf, Places, RequestsFor, AnswersFor

\* There are as many of both as numbers.
LEMMA UnderWayNat ==
  ASSUME NEW n, NEW c, c.requests \in Seq(Requests(n)), c.responses \in Seq(Responses(n)), NEW t
  PROVE  /\ Cardinality(RequestsOf(c.requests, t)) \in Nat
         /\ Cardinality(AnswersOf(c.responses, t)) \in Nat
         /\ UnderWay(c, t) \in Nat
<1>1. /\ RequestsOf(c.requests, t) = Places(c.requests, RequestsFor(n, t))
      /\ AnswersOf(c.responses, t) = Places(c.responses, AnswersFor(n, t))
  BY UnderWayPlaces
<1>2. Cardinality(Places(c.requests, RequestsFor(n, t))) \in Nat
  BY PlacesFinite
<1>3. Cardinality(Places(c.responses, AnswersFor(n, t))) \in Nat
  BY PlacesFinite
<1> QED
  BY <1>1, <1>2, <1>3 DEF UnderWay

(***************************************************************************)
(* The stream and the requests on it.                                      *)
(***************************************************************************)

\* What a client is like between the actions.
Sound(c, n) == IsClient(c, n) /\ CallOver(c) /\ StreamAsNeeded(c)

\* The empty table is over every set.
LEMMA EmptyTable ==
  /\ DOMAIN <<>> = {} /\ \A S : IsTable(<<>>, S)
  /\ \A S : <<>> \in Seq(S)
<1>1. DOMAIN <<>> = {} /\ \A S : <<>> \in [{} -> S]
  OBVIOUS
<1>2. \A S : <<>> \in Seq(S)
  OBVIOUS
<1> QED
  BY <1>1, <1>2 DEF IsTable

\* Dropping the call leaves nothing of it.
LEMMA NoCallIs ==
  ASSUME NEW n \in Nat, NEW c, IsClient(c, n), NEW state \in {"Stopped", "Starting", "Open"}
  PROVE  LET d == NoCall(c, state)
         IN  /\ IsClient(d, n) /\ NothingOfCall(d)
             /\ d.tokens = c.tokens /\ d.enabled = c.enabled /\ d.stream = state
<1> DEFINE d == NoCall(c, state)
<1>1. d = [tokens |-> c.tokens, states |-> <<>>, resets |-> {}, enabled |-> c.enabled,
           stream |-> state, idle |-> FALSE, requests |-> <<>>, responses |-> <<>>]
  <2>1. c = [tokens |-> c.tokens, states |-> c.states, resets |-> c.resets,
             enabled |-> c.enabled, stream |-> c.stream, idle |-> c.idle,
             requests |-> c.requests, responses |-> c.responses]
    BY ClientIs
  <2>2. d = [c EXCEPT !.stream = state, !.idle = FALSE, !.states = <<>>, !.resets = {},
                      !.requests = <<>>, !.responses = <<>>]
    BY DEF NoCall
  <2> HIDE DEF d
  <2>3. DOMAIN c = {"tokens", "states", "resets", "enabled", "stream", "idle", "requests", "responses"}
    BY <2>1
  <2> QED
    BY <2>2, <2>3
<1> HIDE DEF d
<1>2. IsTable(c.tokens, Tokens(n)) /\ c.enabled \in BOOLEAN
  BY ClientIs
<1>3. IsClient(d, n)
  BY <1>1, <1>2, EmptyTable, ClientIs
<1>4. NothingOfCall(d)
  BY <1>1, EmptyTable DEF NothingOfCall
<1> QED
  BY <1>1, <1>3, <1>4 DEF d

\* A stream that is not running is started when there is something to listen to.
LEMMA StartIfNeededIs ==
  ASSUME NEW n \in Nat, NEW c, IsClient(c, n), CallOver(c),
         c.stream = "Stopped" \/ StreamAsNeeded(c)
         \/ (c.stream # "Stopped" /\ c.enabled /\ (c.idle => DOMAIN c.tokens = {}))
  PROVE  LET d == StartIfNeeded(c)
         IN  /\ Sound(d, n) /\ d.tokens = c.tokens /\ d.enabled = c.enabled
             /\ d = c \/ NothingOfCall(d)
<1> DEFINE d == StartIfNeeded(c)
<1>1. CASE ShouldStartWatchStream(c)
  <2>1. d = NoCall(c, "Starting")
    BY <1>1 DEF StartIfNeeded
  <2>2. /\ IsClient(d, n) /\ NothingOfCall(d)
        /\ d.tokens = c.tokens /\ d.enabled = c.enabled /\ d.stream = "Starting"
    BY <2>1, NoCallIs
  <2> HIDE DEF d
  <2>3. c.enabled
    BY <1>1 DEF ShouldStartWatchStream
  <2>4. CallOver(d) /\ StreamAsNeeded(d)
    BY <2>2, <2>3 DEF CallOver, StreamAsNeeded, NothingOfCall
  <2> QED
    BY <2>2, <2>4 DEF d, Sound
<1>2. CASE ~ShouldStartWatchStream(c)
  <2>1. d = c
    BY <1>2 DEF StartIfNeeded
  <2>2. c.stream = "Stopped" => ~c.idle
    BY DEF CallOver, NothingOfCall
  <2>3. StreamAsNeeded(c)
    BY <1>2, <2>2 DEF ShouldStartWatchStream, StreamAsNeeded
  <2> QED
    BY <2>1, <2>3 DEF Sound
<1> QED
  BY <1>1, <1>2

\* After the close of a call nothing of it is left, and the stream starts as needed.
LEMMA ClosedIs ==
  ASSUME NEW n \in Nat, NEW c, IsClient(c, n)
  PROVE  /\ Sound(Closed(c), n) /\ NothingOfCall(Closed(c))
         /\ Closed(c).tokens = c.tokens /\ Closed(c).enabled = c.enabled
<1> DEFINE b == NoCall(c, "Stopped")
<1>1. /\ IsClient(b, n) /\ NothingOfCall(b)
      /\ b.tokens = c.tokens /\ b.enabled = c.enabled /\ b.stream = "Stopped"
  BY NoCallIs
<1>2. Closed(c) = StartIfNeeded(b)
  BY DEF Closed
<1> HIDE DEF b
<1>3. CallOver(b)
  BY <1>1 DEF CallOver
<1>4. /\ Sound(StartIfNeeded(b), n) /\ StartIfNeeded(b).tokens = b.tokens
      /\ StartIfNeeded(b).enabled = b.enabled
      /\ StartIfNeeded(b) = b \/ NothingOfCall(StartIfNeeded(b))
  BY <1>1, <1>3, StartIfNeededIs
<1> QED
  BY <1>1, <1>2, <1>4

\* What asking for some requests for each of the targets D makes of a client.
Asks(c, d, D, asked, n) ==
  /\ IsClient(d, n)
  /\ d.tokens = c.tokens /\ d.resets = c.resets /\ d.enabled = c.enabled
  /\ d.stream = c.stream /\ d.responses = c.responses
  /\ d.idle = (c.idle /\ D = {})
  /\ d.requests = c.requests \o InSomeOrder(asked)
  /\ DOMAIN d.states = DOMAIN c.states \cup D
  /\ \A t \in DOMAIN d.states :
       d.states[t] = [StateOf(c, t) EXCEPT
         !.outstanding = @ + (IF t \in D THEN Len(asked[t]) ELSE 0)]
  /\ \A t \in Targets :
       /\ StateOf(d, t).outstanding =
            StateOf(c, t).outstanding + (IF t \in D THEN Len(asked[t]) ELSE 0)
       /\ UnderWay(d, t) = UnderWay(c, t) + (IF t \in D THEN Len(asked[t]) ELSE 0)

\* Requests asked for are counted for their targets and put on the wire.
LEMMA AskIs ==
  ASSUME NEW n \in Nat, NEW c, IsClient(c, n), NEW D \in SUBSET Targets,
         NEW asked \in [D -> Seq(Requests(n))],
         \A u \in D : \A j \in 1 .. Len(asked[u]) : asked[u][j].target = u
  PROVE  Asks(c, Ask(c, asked), D, asked, n)
<1> DEFINE d == Ask(c, asked)
           states == [t \in DOMAIN c.states \cup D |->
                        IF t \in D THEN [StateOf(c, t) EXCEPT !.outstanding = @ + Len(asked[t])]
                        ELSE c.states[t]]
           requests == c.requests \o InSomeOrder(asked)
<1>1. DOMAIN asked = D /\ IsFiniteSet(D)
  BY FS_Subset, WatchConstants DEF WatchConstants
<1>2. c = [tokens |-> c.tokens, states |-> c.states, resets |-> c.resets,
           enabled |-> c.enabled, stream |-> c.stream, idle |-> c.idle,
           requests |-> c.requests, responses |-> c.responses]
  BY ClientIs
<1>3. d = [tokens |-> c.tokens, states |-> states, resets |-> c.resets,
           enabled |-> c.enabled, stream |-> c.stream, idle |-> c.idle /\ D = {},
           requests |-> requests, responses |-> c.responses]
  <2>1. d = [c EXCEPT !.states = states, !.requests = requests, !.idle = c.idle /\ D = {}]
    BY <1>1, <1>2 DEF Ask
  <2>2. DOMAIN c = {"tokens", "states", "resets", "enabled", "stream", "idle", "requests", "responses"}
    BY <1>2
  <2> HIDE DEF states, requests, d
  <2> QED
    BY <2>1, <2>2
<1>4. IsTable(c.states, States(n)) /\ c.idle \in BOOLEAN
  BY ClientIs
<1>5. \A t \in Targets : StateOf(c, t) \in States(n) /\ StateOf(c, t).outstanding \in Int
  BY <1>4, StateOfType DEF States
<1>6. \A t \in D : Len(asked[t]) \in Nat
  OBVIOUS
<1>7. DOMAIN c.states \subseteq Targets /\ \A t \in DOMAIN c.states : StateOf(c, t) = c.states[t]
  BY <1>4 DEF IsTable, StateOf
<1>8. ASSUME NEW t \in DOMAIN c.states \cup D
      PROVE  /\ states[t] = [StateOf(c, t) EXCEPT
                               !.outstanding = @ + (IF t \in D THEN Len(asked[t]) ELSE 0)]
             /\ states[t] \in States(n)
             /\ states[t].outstanding =
                  StateOf(c, t).outstanding + (IF t \in D THEN Len(asked[t]) ELSE 0)
  <2>1. t \in Targets /\ StateOf(c, t) \in States(n) /\ StateOf(c, t).outstanding \in Int
    BY <1>5, <1>7
  <2>2. CASE t \in D
    <3>1. states[t] = [StateOf(c, t) EXCEPT !.outstanding = @ + Len(asked[t])]
      BY <2>2
    <3> HIDE DEF states
    <3> QED
      BY <2>1, <2>2, <3>1, <1>6 DEF States
  <2>3. CASE t \notin D
    <3>1. states[t] = StateOf(c, t)
      BY <1>7, <2>3
    <3>2. [StateOf(c, t) EXCEPT !.outstanding = @ + 0] = StateOf(c, t)
      BY <2>1 DEF States
    <3> HIDE DEF states
    <3> QED
      BY <2>1, <2>3, <3>1, <3>2
  <2> QED
    BY <2>2, <2>3
<1>9. DOMAIN states = DOMAIN c.states \cup D /\ states = [t \in DOMAIN states |-> states[t]]
  OBVIOUS
<1> HIDE DEF states
<1>10. IsTable(states, States(n))
  BY <1>7, <1>8, <1>9 DEF IsTable
<1>11. c.requests \in Seq(Requests(n)) /\ InSomeOrder(asked) \in Seq(Requests(n))
  BY <1>1, InOrder, ClientIs
<1>12. requests \in Seq(Requests(n))
  BY <1>11, ConcatProperties
<1>13. ASSUME NEW t \in Targets
       PROVE  Cardinality(RequestsOf(requests, t)) =
                Cardinality(RequestsOf(c.requests, t)) + (IF t \in D THEN Len(asked[t]) ELSE 0)
  <2> DEFINE T == RequestsFor(n, t)
  <2>1. /\ RequestsOf(requests, t) = Places(requests, T)
        /\ RequestsOf(c.requests, t) = Places(c.requests, T)
        /\ RequestsOf(InSomeOrder(asked), t) = Places(InSomeOrder(asked), T)
    <3>1. c.responses \in Seq(Responses(n))
      BY ClientIs
    <3> HIDE DEF T, requests
    <3> QED
      BY <1>11, <1>12, <3>1, UnderWayPlaces DEF T
  <2>2. Cardinality(Places(requests, T)) =
          Cardinality(Places(c.requests, T)) + Cardinality(Places(InSomeOrder(asked), T))
    <3> HIDE DEF T
    <3> QED
      BY <1>11, PlacesConcat
  <2>3. Cardinality(RequestsOf(InSomeOrder(asked), t)) = IF t \in D THEN Len(asked[t]) ELSE 0
    <3> HIDE DEF T, requests, states, d
    <3> QED
      BY <1>1, InOrderCount
  <2> HIDE DEF T, requests
  <2> QED
    BY <2>1, <2>2, <2>3
<1> HIDE DEF requests
<1>14. IsClient(d, n)
  <2> HIDE DEF d
  <2>1. (c.idle /\ D = {}) \in BOOLEAN
    OBVIOUS
  <2> QED
    BY <1>3, <1>10, <1>12, <2>1, ClientIs
<1> HIDE DEF d
<1>15. ASSUME NEW t \in Targets
       PROVE  /\ StateOf(d, t).outstanding =
                   StateOf(c, t).outstanding + (IF t \in D THEN Len(asked[t]) ELSE 0)
              /\ UnderWay(d, t) = UnderWay(c, t) + (IF t \in D THEN Len(asked[t]) ELSE 0)
  <2>1. StateOf(d, t).outstanding =
          StateOf(c, t).outstanding + (IF t \in D THEN Len(asked[t]) ELSE 0)
    <3>1. CASE t \in DOMAIN c.states \cup D
      <4>1. StateOf(d, t) = states[t]
        BY <1>3, <1>9, <3>1 DEF StateOf
      <4> QED
        BY <1>8, <3>1, <4>1
    <3>2. CASE t \notin DOMAIN c.states \cup D
      <4>1. StateOf(d, t) = NewTargetState /\ StateOf(c, t) = NewTargetState
        BY <1>3, <1>9, <3>2 DEF StateOf
      <4> QED
        BY <1>5, <3>2, <4>1
    <3> QED
      BY <3>1, <3>2
  <2>2. UnderWay(d, t) = UnderWay(c, t) + (IF t \in D THEN Len(asked[t]) ELSE 0)
    <3>1. d.requests = requests /\ d.responses = c.responses
      BY <1>3
    <3>2. c.responses \in Seq(Responses(n))
      BY ClientIs
    <3>3. /\ Cardinality(RequestsOf(c.requests, t)) \in Nat
          /\ Cardinality(AnswersOf(c.responses, t)) \in Nat
      BY <1>11, <3>2, UnderWayNat
    <3>4. (IF t \in D THEN Len(asked[t]) ELSE 0) \in Nat
      BY <1>6
    <3> QED
      BY <1>13, <3>1, <3>3, <3>4 DEF UnderWay
  <2> QED
    BY <2>1, <2>2
<1>16. /\ d.tokens = c.tokens /\ d.resets = c.resets /\ d.enabled = c.enabled
       /\ d.stream = c.stream /\ d.responses = c.responses
       /\ d.idle = (c.idle /\ D = {})
       /\ d.requests = c.requests \o InSomeOrder(asked)
  BY <1>3 DEF requests
<1>17. /\ DOMAIN d.states = DOMAIN c.states \cup D
       /\ \A t \in DOMAIN d.states :
            d.states[t] = [StateOf(c, t) EXCEPT
                    !.outstanding = @ + (IF t \in D THEN Len(asked[t]) ELSE 0)]
  BY <1>3, <1>8, <1>9
<1> QED
  BY <1>14, <1>15, <1>16, <1>17 DEF d, Asks

LEMMA ChangedListed ==
  ASSUME NEW c
  PROVE  Changed(c) \subseteq DOMAIN c.states
  BY DEF Changed

\* The client once the changes of a snapshot are taken out of the aggregator.
TakesChanges(c, d, n) ==
  /\ IsClient(d, n) /\ d.enabled = c.enabled /\ d.stream = c.stream /\ d.idle = c.idle
  /\ d.requests = c.requests /\ d.responses = c.responses /\ d.resets = {}
  /\ DOMAIN d.tokens = DOMAIN c.tokens
  /\ \A t \in DOMAIN c.tokens :
       d.tokens[t] = IF t \in c.resets THEN None
                     ELSE IF t \in Changed(c) /\ c.states[t].token # None
                     THEN c.states[t].token ELSE c.tokens[t]
  /\ DOMAIN d.states = DOMAIN c.states
  /\ \A t \in DOMAIN c.states :
       /\ d.states[t].outstanding = c.states[t].outstanding
       /\ IF t \in Changed(c) THEN d.states[t].changes = <<>> ELSE d.states[t] = c.states[t]

\* Some requests about each of some targets.
RequestsFrom(asked, D, n) ==
  /\ D \in SUBSET Targets /\ asked \in [D -> Seq(Requests(n))]
  /\ \A t \in D : \A j \in 1 .. Len(asked[t]) : asked[t][j].target = t

\* A snapshot raised takes the changes of its targets out of the aggregator, and asks for
\* its mismatched targets again.
LEMMA AfterRemoteEventAsks ==
  ASSUME NEW n \in Nat, NEW c, IsClient(c, n), NEW D, D = c.resets \cap DOMAIN c.tokens,
         NEW asked, asked = [t \in D |-> <<UnwatchRequest(t), WatchRequest(t, None)>>]
  PROVE  /\ RequestsFrom(asked, D, n)
         /\ \E taken : TakesChanges(c, taken, n) /\ Asks(taken, AfterRemoteEvent(c), D, asked, n)
<1> DEFINE d == AfterRemoteEvent(c)
           cleared(s) == [s EXCEPT !.changes = <<>>, !.dirty = FALSE]
           states == [t \in DOMAIN c.states |->
                        IF t \in Changed(c) THEN cleared(c.states[t]) ELSE c.states[t]]
           tokens == [t \in DOMAIN c.tokens |->
                        IF t \in c.resets THEN None
                        ELSE IF t \in Changed(c) /\ c.states[t].token # None
                        THEN c.states[t].token ELSE c.tokens[t]]
           taken == [c EXCEPT !.states = states, !.tokens = tokens, !.resets = {}]
<1>1. d = Ask(taken, asked)
  BY DEF AfterRemoteEvent
<1>2. c = [tokens |-> c.tokens, states |-> c.states, resets |-> c.resets,
           enabled |-> c.enabled, stream |-> c.stream, idle |-> c.idle,
           requests |-> c.requests, responses |-> c.responses]
  BY ClientIs
<1>3. IsTable(c.states, States(n)) /\ IsTable(c.tokens, Tokens(n))
  BY ClientIs
<1>4. /\ DOMAIN c.states \subseteq Targets /\ \A t \in DOMAIN c.states : c.states[t] \in States(n)
      /\ DOMAIN c.tokens \subseteq Targets /\ \A t \in DOMAIN c.tokens : c.tokens[t] \in Tokens(n)
      /\ Changed(c) \subseteq DOMAIN c.states
  <2>1. Changed(c) \subseteq DOMAIN c.states
    BY ChangedListed
  <2> QED
    BY <1>3, <2>1 DEF IsTable
<1>5. DOMAIN states = DOMAIN c.states /\ states = [t \in DOMAIN states |-> states[t]]
      /\ \A t \in DOMAIN c.states :
           states[t] = IF t \in Changed(c) THEN cleared(c.states[t]) ELSE c.states[t]
  OBVIOUS
<1>6. DOMAIN tokens = DOMAIN c.tokens /\ tokens = [t \in DOMAIN tokens |-> tokens[t]]
  OBVIOUS
<1>7. \A t \in DOMAIN c.tokens : tokens[t] \in Tokens(n)
  <2>1. \A t \in DOMAIN c.tokens : tokens[t] \in {None, c.tokens[t]} \/ (t \in Changed(c) /\ tokens[t] = c.states[t].token)
    OBVIOUS
  <2>2. None \in Tokens(n) /\ \A t \in DOMAIN c.states : c.states[t].token \in Tokens(n)
    BY <1>4 DEF None, Tokens, States
  <2> HIDE DEF tokens
  <2> QED
    BY <1>4, <2>1, <2>2
<1>8. <<>> \in Changes /\ DOMAIN <<>> = {}
  <2>1. DOMAIN <<>> = {} /\ <<>> \in [{} -> {"Added", "Modified", "Removed"}]
    OBVIOUS
  <2> QED
    BY <2>1, ChangesAre
<1>9. \A s \in States(n) : /\ cleared(s) \in States(n) /\ cleared(s).changes = <<>>
                           /\ cleared(s).outstanding = s.outstanding
  BY <1>8 DEF States
<1>10. taken = [tokens |-> tokens, states |-> states, resets |-> {},
                enabled |-> c.enabled, stream |-> c.stream, idle |-> c.idle,
                requests |-> c.requests, responses |-> c.responses]
  <2>1. DOMAIN c = {"tokens", "states", "resets", "enabled", "stream", "idle", "requests", "responses"}
    BY <1>2
  <2>2. taken = [c EXCEPT !.states = states, !.tokens = tokens, !.resets = {}]
    OBVIOUS
  <2> HIDE DEF states, tokens, taken
  <2> QED
    BY <2>1, <2>2
<1> HIDE DEF states, tokens, taken, cleared
<1>11. \A t \in DOMAIN c.states : /\ states[t] \in States(n)
                                  /\ states[t].outstanding = c.states[t].outstanding
  BY <1>4, <1>5, <1>9
<1>12. IsTable(states, States(n)) /\ IsTable(tokens, Tokens(n))
  BY <1>4, <1>5, <1>6, <1>7, <1>11 DEF IsTable
<1>13. IsClient(taken, n)
  <2>1. /\ c.enabled \in BOOLEAN /\ c.stream \in {"Stopped", "Starting", "Open"}
        /\ c.idle \in BOOLEAN
        /\ c.requests \in Seq(Requests(n)) /\ c.responses \in Seq(Responses(n))
    BY ClientIs
  <2> QED
    BY <1>10, <1>12, <2>1, ClientIs
<1>14. D \in SUBSET Targets
  BY <1>4
<1>15. \A t \in D : UnwatchRequest(t) \in Requests(n) /\ WatchRequest(t, None) \in Requests(n)
  BY <1>14 DEF UnwatchRequest, WatchRequest, Requests, Tokens, None
<1>16. /\ asked \in [D -> Seq(Requests(n))]
       /\ \A t \in D : \A j \in 1 .. Len(asked[t]) : asked[t][j].target = t
  <2>0. \A a, b : Len(<<a, b>>) = 2
    OBVIOUS
  <2>1. \A t \in D : asked[t] = <<UnwatchRequest(t), WatchRequest(t, None)>>
    OBVIOUS
  <2>2. \A t \in D : asked[t] \in Seq(Requests(n))
    BY <1>15, <2>1
  <2>3. \A t \in D : UnwatchRequest(t).target = t /\ WatchRequest(t, None).target = t
    BY DEF UnwatchRequest, WatchRequest
  <2>4. asked = [t \in D |-> asked[t]]
    OBVIOUS
  <2>5. asked \in [D -> Seq(Requests(n))]
    BY ONLY <2>2, <2>4
  <2>6. ASSUME NEW t \in D, NEW j \in 1 .. Len(asked[t]) PROVE asked[t][j].target = t
    <3>1. asked[t] = <<UnwatchRequest(t), WatchRequest(t, None)>>
      BY <2>1
    <3>2. Len(asked[t]) = 2
      BY ONLY <2>0, <3>1
    <3>3. j \in {1, 2}
      BY <3>2
    <3>4. asked[t][1] = UnwatchRequest(t) /\ asked[t][2] = WatchRequest(t, None)
      BY ONLY <3>1
    <3> QED
      BY ONLY <2>3, <3>3, <3>4
  <2> QED
    BY ONLY <2>5, <2>6
<1> HIDE DEF d
<1>17. Asks(taken, d, D, asked, n)
  BY <1>1, <1>13, <1>14, <1>16, AskIs
<1>18. TakesChanges(c, taken, n)
  <2>1. \A t \in DOMAIN c.states :
          /\ states[t].outstanding = c.states[t].outstanding
          /\ IF t \in Changed(c) THEN states[t].changes = <<>> ELSE states[t] = c.states[t]
    BY <1>4, <1>5, <1>9, <1>11
  <2>2. \A t \in DOMAIN c.tokens :
          tokens[t] = IF t \in c.resets THEN None
                      ELSE IF t \in Changed(c) /\ c.states[t].token # None
                      THEN c.states[t].token ELSE c.tokens[t]
    BY DEF tokens
  <2>3. /\ taken.enabled = c.enabled /\ taken.stream = c.stream /\ taken.idle = c.idle
        /\ taken.requests = c.requests /\ taken.responses = c.responses /\ taken.resets = {}
        /\ taken.tokens = tokens /\ taken.states = states
    BY <1>10
  <2> QED
    BY <1>5, <1>6, <1>13, <2>1, <2>2, <2>3 DEF TakesChanges
<1> QED
  BY <1>14, <1>16, <1>17, <1>18 DEF d, RequestsFrom

\* What is left in the aggregator then, and that the requests are counted.
LEMMA AfterRemoteEventIs ==
  ASSUME NEW n \in Nat, NEW c, IsClient(c, n)
  PROVE  LET d == AfterRemoteEvent(c)
         IN  /\ IsClient(d, n)
             /\ DOMAIN d.tokens = DOMAIN c.tokens /\ d.enabled = c.enabled
             /\ d.stream = c.stream /\ d.responses = c.responses
             /\ d.idle => c.idle
             /\ \A t \in DOMAIN d.states :
                  \/ DOMAIN d.states[t].changes = {}
                  \/ /\ t \in DOMAIN c.states \ Changed(c)
                     /\ d.states[t].changes = c.states[t].changes
                     /\ d.states[t].dirty = c.states[t].dirty
             /\ \A t \in Targets : StateOf(c, t).outstanding = UnderWay(c, t)
                                     => StateOf(d, t).outstanding = UnderWay(d, t)
<1> DEFINE d == AfterRemoteEvent(c)
           D == c.resets \cap DOMAIN c.tokens
           asked == [t \in D |-> <<UnwatchRequest(t), WatchRequest(t, None)>>]
<1>1. PICK taken : TakesChanges(c, taken, n) /\ Asks(taken, d, D, asked, n)
  BY AfterRemoteEventAsks
<1> HIDE DEF D, asked, d
<1>2. /\ IsClient(taken, n) /\ taken.enabled = c.enabled /\ taken.stream = c.stream
      /\ taken.idle = c.idle /\ taken.requests = c.requests /\ taken.responses = c.responses
      /\ DOMAIN taken.tokens = DOMAIN c.tokens /\ DOMAIN taken.states = DOMAIN c.states
      /\ \A t \in DOMAIN c.states :
           /\ taken.states[t].outstanding = c.states[t].outstanding
           /\ IF t \in Changed(c) THEN taken.states[t].changes = <<>> ELSE taken.states[t] = c.states[t]
  BY <1>1 DEF TakesChanges
<1>3. Changed(c) \subseteq DOMAIN c.states /\ DOMAIN <<>> = {}
  BY ChangedListed, EmptyTable
<1>4. IsTable(taken.states, States(n))
  BY <1>2, ClientIs
<1>17. /\ IsClient(d, n)
       /\ d.tokens = taken.tokens /\ d.enabled = taken.enabled
       /\ d.stream = taken.stream /\ d.responses = taken.responses
       /\ d.idle = (taken.idle /\ D = {})
       /\ DOMAIN d.states = DOMAIN taken.states \cup D
       /\ \A t \in DOMAIN d.states :
            d.states[t] = [StateOf(taken, t) EXCEPT
              !.outstanding = @ + (IF t \in D THEN Len(asked[t]) ELSE 0)]
       /\ \A t \in Targets :
            /\ StateOf(d, t).outstanding =
                 StateOf(taken, t).outstanding + (IF t \in D THEN Len(asked[t]) ELSE 0)
            /\ UnderWay(d, t) = UnderWay(taken, t) + (IF t \in D THEN Len(asked[t]) ELSE 0)
  BY <1>1 DEF Asks
<1>18. ASSUME NEW t \in Targets
       PROVE  /\ StateOf(taken, t).outstanding = StateOf(c, t).outstanding
              /\ UnderWay(taken, t) = UnderWay(c, t)
  BY <1>2 DEF StateOf, UnderWay
<1>19. ASSUME NEW t \in DOMAIN d.states
       PROVE  \/ DOMAIN d.states[t].changes = {}
              \/ /\ t \in DOMAIN c.states \ Changed(c)
                 /\ d.states[t].changes = c.states[t].changes
                 /\ d.states[t].dirty = c.states[t].dirty
  <2>1. StateOf(taken, t) \in States(n)
    BY <1>4, StateOfType
  <2>2. /\ d.states[t].changes = StateOf(taken, t).changes
        /\ d.states[t].dirty = StateOf(taken, t).dirty
    BY <1>17, <2>1 DEF States
  <2>3. CASE t \notin DOMAIN c.states
    <3>1. StateOf(taken, t) = NewTargetState
      BY <1>2, <2>3 DEF StateOf
    <3>2. NewTargetState.changes = <<>>
      BY DEF NewTargetState
    <3> QED
      BY <1>3, <2>2, <3>1, <3>2
  <2>4. CASE t \in Changed(c)
    <3>1. StateOf(taken, t).changes = <<>>
      BY <1>2, <1>3, <2>4 DEF StateOf
    <3> QED
      BY <1>3, <2>2, <3>1
  <2>5. CASE t \in DOMAIN c.states \ Changed(c)
    <3>1. StateOf(taken, t) = c.states[t]
      BY <1>2, <2>5 DEF StateOf
    <3> QED
      BY <2>2, <2>5, <3>1
  <2> QED
    BY <2>3, <2>4, <2>5
<1>20. ASSUME NEW t \in Targets, StateOf(c, t).outstanding = UnderWay(c, t)
       PROVE  StateOf(d, t).outstanding = UnderWay(d, t)
  BY <1>17, <1>18, <1>20
<1>21. /\ DOMAIN d.tokens = DOMAIN c.tokens /\ d.enabled = c.enabled
       /\ d.stream = c.stream /\ d.responses = c.responses
       /\ d.idle => c.idle
  BY <1>2, <1>17
<1> QED
  BY <1>17, <1>19, <1>20, <1>21 DEF d

(***************************************************************************)
(* The actions.                                                            *)
(***************************************************************************)

\* Nothing of a call: no changes to fit, and nothing outstanding or under way.
LEMMA NothingIsCounted ==
  ASSUME NEW c, NothingOfCall(c)
  PROVE  /\ CallOver(c)
         /\ \A i \in DOMAIN c.responses : c.responses[i].type # "Error"
         /\ \A t : StateOf(c, t).outstanding = UnderWay(c, t)
<1>1. DOMAIN c.states = {} /\ DOMAIN c.requests = {} /\ DOMAIN c.responses = {}
  BY DEF NothingOfCall
<1>2. ASSUME NEW t PROVE StateOf(c, t).outstanding = UnderWay(c, t)
  <2>1. StateOf(c, t).outstanding = 0
    BY <1>1 DEF StateOf, NewTargetState
  <2>2. RequestsOf(c.requests, t) = {} /\ AnswersOf(c.responses, t) = {}
    BY <1>1 DEF RequestsOf, AnswersOf
  <2> QED
    BY <2>1, <2>2, FS_EmptySet DEF UnderWay
<1> QED
  BY <1>1, <1>2 DEF CallOver

\* A client that has nothing of a call, with the tables and the backend's history as they
\* were, keeps the invariant.
LEMMA WithoutCallKeeps ==
  ASSUME IInv, Sound(cs', Len(truth)), NothingOfCall(cs'), cs'.tokens = cs.tokens,
         UNCHANGED <<views, memory, cache, lastRemote, truth, at>>,
         served' \in {<<>>, served}, {listens, disruptions, rejections}' \subseteq Nat
  PROVE  IInv' /\ CountInv'
<1>1. IsTable(served', Serves(Len(truth)))
  BY EmptyTable DEF IInv, Typed
<1>2. Typed'
  BY <1>1 DEF IInv, Typed, Sound
<1>3. ChangesFitCache'
  BY DEF ChangesFitCache, NothingOfCall
<1>4. ViewsFromCache'
  BY DEF IInv, ViewsFromCache
<1>5. CountInv'
  BY NothingIsCounted DEF CountInv
<1> QED
  BY <1>2, <1>3, <1>4, <1>5 DEF IInv, Sound

\* A disruption is counted.
LEMMA Counters ==
  ASSUME IInv
  PROVE  /\ listens \in Nat /\ disruptions \in Nat /\ rejections \in Nat
         /\ Disrupt => disruptions' \in Nat
         /\ Reject => disruptions' \in Nat /\ rejections' \in Nat /\ rejections' # 0
  BY DEF IInv, Typed, Disrupt, Reject

\* Asking changes no changes.
LEMMA AsksFit ==
  ASSUME NEW n \in Nat, NEW c, IsClient(c, n), NEW d, NEW D, NEW asked, Asks(c, d, D, asked, n),
         NEW K, \A t \in DOMAIN c.states : Fits(c.states[t], K[t])
  PROVE  \A t \in DOMAIN d.states : Fits(d.states[t], K[t])
<1> SUFFICES ASSUME NEW t \in DOMAIN d.states PROVE Fits(d.states[t], K[t])
  OBVIOUS
<1>1. d.states[t] = [StateOf(c, t) EXCEPT
         !.outstanding = @ + (IF t \in D THEN Len(asked[t]) ELSE 0)]
  BY DEF Asks
<1>2. StateOf(c, t) \in States(n) /\ Fits(StateOf(c, t), K[t])
  BY ClientIs, StateOfType, StateOfFits
<1>3. /\ d.states[t].changes = StateOf(c, t).changes
      /\ d.states[t].dirty = StateOf(c, t).dirty
  BY <1>1, <1>2 DEF States
<1>4. \A change : KeysWith(d.states[t], change) = KeysWith(StateOf(c, t), change)
  BY <1>3 DEF KeysWith
<1> QED
  BY <1>2, <1>3, <1>4 DEF Fits

\* One request for one target.
LEMMA AskOne ==
  ASSUME NEW n \in Nat, NEW c, IsClient(c, n), NEW t \in Targets, NEW q \in Requests(n),
         q.target = t
  PROVE  Asks(c, Ask(c, [u \in {t} |-> <<q>>]), {t}, [u \in {t} |-> <<q>>], n)
<1> DEFINE asked == [u \in {t} |-> <<q>>]
<1>1. asked \in [{t} -> Seq(Requests(n))] /\ {t} \in SUBSET Targets
  OBVIOUS
<1>2. \A u \in {t} : asked[u] = <<q>>
  OBVIOUS
<1> HIDE DEF asked
<1>3. ASSUME NEW u \in {t}, NEW j \in 1 .. Len(asked[u]) PROVE asked[u][j].target = u
  BY <1>2
<1>4. Asks(c, Ask(c, asked), {t}, asked, n)
  BY <1>1, <1>3, AskIs
<1> QED
  BY <1>4 DEF asked

\* The client with its targets replaced.
LEMMA TokensReplaced ==
  ASSUME NEW n \in Nat, NEW c, IsClient(c, n), NEW tokens, IsTable(tokens, Tokens(n))
  PROVE  LET d == [c EXCEPT !.tokens = tokens]
         IN  /\ IsClient(d, n) /\ d.tokens = tokens
             /\ d.states = c.states /\ d.resets = c.resets /\ d.enabled = c.enabled
             /\ d.stream = c.stream /\ d.idle = c.idle /\ d.requests = c.requests
             /\ d.responses = c.responses
<1> DEFINE d == [c EXCEPT !.tokens = tokens]
<1>1. c = [tokens |-> c.tokens, states |-> c.states, resets |-> c.resets,
           enabled |-> c.enabled, stream |-> c.stream, idle |-> c.idle,
           requests |-> c.requests, responses |-> c.responses]
  BY ClientIs
<1>2. d = [tokens |-> tokens, states |-> c.states, resets |-> c.resets,
           enabled |-> c.enabled, stream |-> c.stream, idle |-> c.idle,
           requests |-> c.requests, responses |-> c.responses]
  BY <1>1
<1> HIDE DEF d
<1>3. /\ IsTable(c.states, States(n)) /\ c.resets \in SUBSET Targets
      /\ c.enabled \in BOOLEAN /\ c.stream \in {"Stopped", "Starting", "Open"}
      /\ c.idle \in BOOLEAN
      /\ c.requests \in Seq(Requests(n)) /\ c.responses \in Seq(Responses(n))
  BY ClientIs
<1>4. IsClient(d, n)
  BY <1>2, <1>3, ClientIs
<1> QED
  BY <1>2, <1>4 DEF d

\* Types, from the invariant.
LEMMA Types ==
  ASSUME IInv
  PROVE  /\ Len(truth) \in Nat /\ Len(truth) \in Versions /\ None \in Tokens(Len(truth))
         /\ IsClient(cs, Len(truth))
         /\ IsTable(views, Views) /\ IsTable(memory, Tokens(Len(truth)))
         /\ DOMAIN views = DOMAIN cs.tokens /\ DOMAIN memory = DOMAIN cs.tokens
         /\ DOMAIN cs.tokens \subseteq Targets
         /\ \A t \in Targets : /\ cache[t] \in Rows(Len(truth)) /\ cache[t].keys \in SUBSET Keys
                               /\ cache[t].token \in Tokens(Len(truth))
  BY ClientIs, WatchConstants
     DEF IInv, Typed, Versions, Tokens, None, Rows, IsTable, WatchConstants

LEMMA ListenKeeps ==
  ASSUME IInv, NEW t \in Targets, Listen(t)
  PROVE  IInv' /\ (CountInv => CountInv')
<1> DEFINE n == Len(truth)
           token == cache[t].token
           tokens == Put(cs.tokens, t, token)
           listening == [cs EXCEPT !.tokens = tokens]
<1>1. /\ n \in Nat /\ IsClient(cs, n) /\ token \in Tokens(n) /\ cache[t].keys \in SUBSET Keys
      /\ IsTable(cs.tokens, Tokens(n)) /\ IsTable(memory, Tokens(n)) /\ IsTable(views, Views)
  BY Types, ClientIs
<1>2. /\ t \notin DOMAIN views
      /\ listens' = listens + 1
      /\ memory' = Put(memory, t, token)
      /\ views' = Put(views, t, [synced |-> cache[t].keys, current |-> FALSE])
      /\ cs' = IF cs.stream = "Open" THEN SendWatchRequest(listening, t, token)
               ELSE StartIfNeeded(listening)
      /\ UNCHANGED <<cache, lastRemote, truth, served, at, disruptions, rejections>>
  BY DEF Listen, serverVars
<1> HIDE DEF n, token, tokens
<1>3. IsTable(tokens, Tokens(n)) /\ DOMAIN tokens = DOMAIN cs.tokens \cup {t}
  BY <1>1, PutTable DEF tokens
<1>4. /\ IsClient(listening, n) /\ listening.tokens = tokens
      /\ listening.states = cs.states /\ listening.resets = cs.resets
      /\ listening.enabled = cs.enabled
      /\ listening.stream = cs.stream /\ listening.idle = cs.idle
      /\ listening.requests = cs.requests /\ listening.responses = cs.responses
  BY <1>1, <1>3, TokensReplaced
<1> HIDE DEF listening
<1>5. \A u : StateOf(listening, u) = StateOf(cs, u) /\ UnderWay(listening, u) = UnderWay(cs, u)
  BY <1>4 DEF StateOf, UnderWay
<1>6. CallOver(cs) /\ StreamAsNeeded(cs) /\ \A u \in DOMAIN cs.states : Fits(cs.states[u], cache[u].keys)
  BY DEF IInv, ChangesFitCache
<1>7. /\ Sound(cs', n) /\ cs'.tokens = tokens
      /\ \A u \in DOMAIN cs'.states : Fits(cs'.states[u], cache[u].keys)
      /\ CountInv => CountInv'
  <2>1. CASE cs.stream = "Open"
    <3> DEFINE q == WatchRequest(t, token)
               asked == [u \in {t} |-> <<q>>]
    <3>1. cs' = Ask(listening, asked)
      BY <1>2, <2>1 DEF SendWatchRequest
    <3>2. q \in Requests(n) /\ q.target = t
      BY <1>1 DEF WatchRequest, Requests
    <3> HIDE DEF q
    <3>3. Asks(listening, cs', {t}, asked, n)
      BY <1>1, <1>4, <3>1, <3>2, AskOne
    <3> HIDE DEF asked
    <3>4. /\ IsClient(cs', n) /\ cs'.tokens = tokens /\ cs'.enabled = cs.enabled
          /\ cs'.stream = "Open" /\ ~cs'.idle /\ cs'.responses = cs.responses
      BY <1>4, <2>1, <3>3 DEF Asks
    <3>5. CallOver(cs') /\ StreamAsNeeded(cs')
      BY <1>6, <2>1, <3>4 DEF CallOver, StreamAsNeeded
    <3>6. \A u \in DOMAIN cs'.states : Fits(cs'.states[u], cache[u].keys)
      <4> DEFINE K == [u \in Targets |-> cache[u].keys]
      <4>1. \A u \in DOMAIN listening.states : Fits(listening.states[u], K[u])
        BY <1>1, <1>4, <1>6, ClientIs DEF IsTable
      <4>2. \A u \in DOMAIN cs'.states : Fits(cs'.states[u], K[u])
        <5> HIDE DEF K
        <5> QED
          BY <1>1, <1>4, <3>3, <4>1, AsksFit
      <4>3. DOMAIN cs'.states \subseteq Targets
        BY <3>4, ClientIs DEF IsTable
      <4> QED
        BY <4>2, <4>3
    <3>7. ASSUME CountInv PROVE CountInv'
      <4> SUFFICES ASSUME rejections = 0
                   PROVE  /\ \A i \in DOMAIN cs'.responses : cs'.responses[i].type # "Error"
                          /\ \A u \in Targets : StateOf(cs', u).outstanding = UnderWay(cs', u)
        BY <1>2 DEF CountInv
      <4>1. /\ \A i \in DOMAIN cs.responses : cs.responses[i].type # "Error"
            /\ \A u \in Targets : StateOf(cs, u).outstanding = UnderWay(cs, u)
        BY <3>7 DEF CountInv
      <4> QED
        BY <1>5, <3>3, <3>4, <4>1 DEF Asks
    <3> QED
      BY <3>4, <3>5, <3>6, <3>7 DEF Sound
  <2>2. CASE cs.stream # "Open"
    <3>1. NothingOfCall(cs) /\ NothingOfCall(listening) /\ CallOver(listening)
      BY <1>4, <1>6, <2>2 DEF CallOver, NothingOfCall
    <3>2. \/ listening.stream = "Stopped"
          \/ /\ listening.stream # "Stopped" /\ listening.enabled
             /\ listening.idle => DOMAIN listening.tokens = {}
      BY <1>4, <1>6, <3>1 DEF StreamAsNeeded, NothingOfCall
    <3>3. cs' = StartIfNeeded(listening)
      BY <1>2, <2>2
    <3>4. /\ Sound(cs', n) /\ cs'.tokens = tokens
          /\ cs' = listening \/ NothingOfCall(cs')
      BY <1>1, <1>4, <3>1, <3>2, <3>3, StartIfNeededIs
    <3>5. NothingOfCall(cs')
      BY <3>1, <3>4
    <3> QED
      BY <3>4, <3>5, NothingIsCounted DEF NothingOfCall, CountInv
  <2> QED
    BY <2>1, <2>2
<1>8. /\ IsTable(memory', Tokens(n)) /\ DOMAIN memory' = DOMAIN memory \cup {t}
  BY <1>1, <1>2, PutTable
<1>9. [synced |-> cache[t].keys, current |-> FALSE] \in Views
  BY <1>1 DEF Views
<1>10. /\ IsTable(views', Views) /\ DOMAIN views' = DOMAIN views \cup {t}
  BY <1>1, <1>2, <1>9, PutTable
<1>11. Typed'
  <2>1. DOMAIN views' = DOMAIN cs'.tokens /\ DOMAIN memory' = DOMAIN cs'.tokens
    BY <1>3, <1>7, <1>8, <1>10, Types
  <2>2. listens' \in Nat
    BY <1>2, Counters
  <2> QED
    BY <1>2, <1>7, <1>8, <1>10, <2>1, <2>2 DEF IInv, Typed, Sound, n
<1>12. ViewsFromCache'
  <2>1. \A u \in DOMAIN views' : views'[u] = IF u = t THEN [synced |-> cache[t].keys, current |-> FALSE] ELSE views[u]
    BY <1>2, <1>10 DEF Put
  <2> SUFFICES ASSUME NEW u \in DOMAIN views' PROVE views'[u].synced = cache[u].keys
    BY <1>2 DEF ViewsFromCache
  <2>2. CASE u = t
    BY <2>1, <2>2
  <2>3. CASE u # t
    <3>1. u \in DOMAIN views /\ views'[u] = views[u]
      BY <1>10, <2>1, <2>3
    <3> QED
      BY <3>1 DEF IInv, ViewsFromCache
  <2> QED
    BY <2>2, <2>3
<1>13. ChangesFitCache'
  BY <1>2, <1>7 DEF ChangesFitCache
<1> QED
  BY <1>7, <1>11, <1>12, <1>13 DEF IInv, Sound

\* A target released takes its view and its target data in memory, and keeps its keys.
LEMMA ReleaseKeeps ==
  ASSUME IInv, NEW t \in DOMAIN views, Release(t)
  PROVE  /\ IsTable(views', Views) /\ DOMAIN views' = DOMAIN views \ {t}
         /\ IsTable(memory', Tokens(Len(truth))) /\ DOMAIN memory' = DOMAIN memory \ {t}
         /\ cache' \in [Targets -> Rows(Len(truth))]
         /\ \A u \in Targets : cache'[u].keys = cache[u].keys
         /\ \A u \in DOMAIN views' : views'[u].synced = cache'[u].keys
<1> DEFINE n == Len(truth)
<1>1. /\ views' = Without(views, t) /\ memory' = Without(memory, t)
      /\ cache' = [cache EXCEPT ![t].token = memory[t]]
  BY DEF Release
<1>2. /\ IsTable(views, Views) /\ IsTable(memory, Tokens(n)) /\ cache \in [Targets -> Rows(n)]
      /\ DOMAIN views = DOMAIN memory
  BY DEF IInv, Typed
<1>3. t \in Targets /\ memory[t] \in Tokens(n)
  BY <1>2 DEF IsTable
<1> HIDE DEF n
<1>4. /\ IsTable(views', Views) /\ DOMAIN views' = DOMAIN views \ {t}
      /\ \A u \in DOMAIN views' : views'[u] = views[u]
  BY <1>1, <1>2, WithoutTable
<1>5. IsTable(memory', Tokens(n)) /\ DOMAIN memory' = DOMAIN memory \ {t}
  BY <1>1, <1>2, WithoutTable
<1>6. cache' \in [Targets -> Rows(n)] /\ \A u \in Targets : cache'[u].keys = cache[u].keys
  BY <1>1, <1>2, <1>3 DEF Rows
<1>7. \A u \in DOMAIN views' : views'[u].synced = cache'[u].keys
  BY <1>2, <1>4, <1>6 DEF IInv, ViewsFromCache, IsTable
<1> QED
  BY <1>4, <1>5, <1>6, <1>7 DEF n

LEMMA StopListeningKeeps ==
  ASSUME IInv, NEW t \in Targets, StopListening(t)
  PROVE  IInv' /\ (CountInv => CountInv')
<1> DEFINE n == Len(truth)
           tokens == Without(cs.tokens, t)
           stopped == [cs EXCEPT !.tokens = tokens]
           told == IF cs.stream = "Open" THEN SendUnwatchRequest(stopped, t) ELSE stopped
<1>1. /\ n \in Nat /\ IsClient(cs, n) /\ IsTable(cs.tokens, Tokens(n))
      /\ DOMAIN views = DOMAIN cs.tokens /\ DOMAIN memory = DOMAIN cs.tokens
  BY Types, ClientIs
<1>2. /\ t \in DOMAIN views /\ Release(t)
      /\ cs' = IF DOMAIN told.tokens = {} /\ told.stream = "Open"
               THEN [told EXCEPT !.idle = TRUE] ELSE told
      /\ UNCHANGED <<lastRemote, truth, served, at, listens, disruptions, rejections>>
  BY DEF StopListening, serverVars, countVars
<1> HIDE DEF n, tokens
<1>3. IsTable(tokens, Tokens(n)) /\ DOMAIN tokens = DOMAIN cs.tokens \ {t}
  BY <1>1, WithoutTable DEF tokens
<1>4. /\ IsClient(stopped, n) /\ stopped.tokens = tokens
      /\ stopped.states = cs.states /\ stopped.resets = cs.resets
      /\ stopped.enabled = cs.enabled
      /\ stopped.stream = cs.stream /\ stopped.idle = cs.idle
      /\ stopped.requests = cs.requests /\ stopped.responses = cs.responses
  BY <1>1, <1>3, TokensReplaced
<1> HIDE DEF stopped
<1>5. \A u : StateOf(stopped, u) = StateOf(cs, u) /\ UnderWay(stopped, u) = UnderWay(cs, u)
  BY <1>4 DEF StateOf, UnderWay
<1>6. CallOver(cs) /\ StreamAsNeeded(cs) /\ \A u \in DOMAIN cs.states : Fits(cs.states[u], cache[u].keys)
  BY DEF IInv, ChangesFitCache
<1>7. /\ IsClient(told, n) /\ told.tokens = tokens /\ told.enabled = cs.enabled
      /\ told.stream = cs.stream /\ told.responses = cs.responses
      /\ told.idle => cs.idle
      /\ \A u \in DOMAIN told.states : Fits(told.states[u], cache[u].keys)
      /\ cs.stream # "Open" => NothingOfCall(told)
      /\ \A u \in Targets : StateOf(cs, u).outstanding = UnderWay(cs, u)
                              => StateOf(told, u).outstanding = UnderWay(told, u)
  <2>1. CASE cs.stream = "Open"
    <3> DEFINE q == UnwatchRequest(t)
               asked == [u \in {t} |-> <<q>>]
    <3>1. told = Ask(stopped, asked)
      BY <2>1 DEF SendUnwatchRequest
    <3>2. q \in Requests(n) /\ q.target = t
      BY <1>1 DEF UnwatchRequest, Requests, None, Tokens
    <3> HIDE DEF q, told
    <3>3. Asks(stopped, told, {t}, asked, n)
      BY <1>1, <1>4, <3>1, <3>2, AskOne
    <3> HIDE DEF asked
    <3>4. /\ IsClient(told, n) /\ told.tokens = tokens /\ told.enabled = cs.enabled
          /\ told.stream = cs.stream /\ ~told.idle /\ told.responses = cs.responses
      BY <1>4, <3>3 DEF Asks
    <3>5. \A u \in DOMAIN told.states : Fits(told.states[u], cache[u].keys)
      <4> DEFINE K == [u \in Targets |-> cache[u].keys]
      <4>1. \A u \in DOMAIN stopped.states : Fits(stopped.states[u], K[u])
        BY <1>1, <1>4, <1>6, ClientIs DEF IsTable
      <4>2. \A u \in DOMAIN told.states : Fits(told.states[u], K[u])
        <5> HIDE DEF K
        <5> QED
          BY <1>1, <1>4, <3>3, <4>1, AsksFit
      <4>3. DOMAIN told.states \subseteq Targets
        BY <3>4, ClientIs DEF IsTable
      <4> QED
        BY <4>2, <4>3
    <3>6. \A u \in Targets : StateOf(cs, u).outstanding = UnderWay(cs, u)
                               => StateOf(told, u).outstanding = UnderWay(told, u)
      BY <1>5, <3>3 DEF Asks
    <3> QED
      BY <2>1, <3>4, <3>5, <3>6
  <2>2. CASE cs.stream # "Open"
    <3>1. told = stopped
      BY <2>2
    <3>2. NothingOfCall(stopped)
      BY <1>4, <1>6, <2>2 DEF CallOver, NothingOfCall
    <3> HIDE DEF told
    <3> QED
      BY <1>4, <1>5, <1>6, <3>1, <3>2
  <2> QED
    BY <2>1, <2>2
<1> HIDE DEF told
<1>8. /\ IsClient(cs', n) /\ cs'.tokens = tokens /\ cs'.enabled = cs.enabled
      /\ cs'.stream = cs.stream /\ cs'.responses = cs.responses
      /\ cs'.idle => DOMAIN tokens = {}
      /\ cs'.states = told.states /\ cs'.requests = told.requests
      /\ cs.stream # "Open" => NothingOfCall(cs')
  <2>1. CASE DOMAIN told.tokens = {} /\ told.stream = "Open"
    <3>1. told = [tokens |-> told.tokens, states |-> told.states, resets |-> told.resets,
                  enabled |-> told.enabled, stream |-> told.stream, idle |-> told.idle,
                  requests |-> told.requests, responses |-> told.responses]
      BY <1>7, ClientIs
    <3>2. cs' = [tokens |-> told.tokens, states |-> told.states, resets |-> told.resets,
                 enabled |-> told.enabled, stream |-> told.stream, idle |-> TRUE,
                 requests |-> told.requests, responses |-> told.responses]
      BY <1>2, <2>1, <3>1
    <3>3. IsClient(cs', n)
      BY <1>7, <3>2, ClientIs
    <3> QED
      BY <1>7, <2>1, <3>2, <3>3
  <2>2. CASE ~(DOMAIN told.tokens = {} /\ told.stream = "Open")
    <3>1. cs' = told
      BY <1>2, <2>2
    <3>2. cs.idle => DOMAIN tokens = {}
      BY <1>3, <1>6 DEF StreamAsNeeded
    <3> QED
      BY <1>7, <3>1, <3>2
  <2> QED
    BY <2>1, <2>2
<1>9. CallOver(cs') /\ StreamAsNeeded(cs')
  BY <1>3, <1>6, <1>8 DEF CallOver, StreamAsNeeded
<1>10. /\ IsTable(views', Views) /\ DOMAIN views' = DOMAIN views \ {t}
       /\ IsTable(memory', Tokens(n)) /\ DOMAIN memory' = DOMAIN memory \ {t}
       /\ cache' \in [Targets -> Rows(n)]
       /\ \A u \in Targets : cache'[u].keys = cache[u].keys
       /\ \A u \in DOMAIN views' : views'[u].synced = cache'[u].keys
  BY <1>2, ReleaseKeeps DEF n
<1>11. Typed'
  <2>1. DOMAIN views' = DOMAIN cs'.tokens /\ DOMAIN memory' = DOMAIN cs'.tokens
    BY <1>1, <1>3, <1>8, <1>10
  <2> QED
    BY <1>2, <1>8, <1>10, <2>1 DEF IInv, Typed, n
<1>12. ChangesFitCache'
  <2>1. DOMAIN cs'.states \subseteq Targets
    BY <1>8, ClientIs DEF IsTable
  <2> QED
    BY <1>7, <1>8, <1>10, <2>1 DEF ChangesFitCache
<1>13. CountInv => CountInv'
  <2>1. \A u \in Targets : /\ StateOf(cs', u) = StateOf(told, u)
                           /\ UnderWay(cs', u) = UnderWay(told, u)
    BY <1>7, <1>8 DEF StateOf, UnderWay
  <2> QED
    BY <1>2, <1>7, <1>8, <2>1 DEF CountInv
<1> QED
  BY <1>8, <1>9, <1>10, <1>11, <1>12, <1>13 DEF IInv, ViewsFromCache

\* The actions that end the call, and the one that allows the network again.
LEMMA CallEndsKeeps ==
  ASSUME IInv,
         \/ DisableNetwork \/ EnableNetwork \/ RestartNetwork \/ ConnectionLost \/ IdleTimeout
  PROVE  IInv' /\ CountInv'
<1> DEFINE n == Len(truth)
<1>1. n \in Nat /\ IsClient(cs, n) /\ CallOver(cs) /\ StreamAsNeeded(cs)
  BY Types DEF IInv
<1>2. {listens, disruptions, rejections} \subseteq Nat
  BY Counters
<1>3. ASSUME NEW b \in BOOLEAN
      PROVE  LET d == [cs EXCEPT !.enabled = b]
             IN  /\ IsClient(d, n) /\ d.tokens = cs.tokens /\ d.enabled = b
                 /\ d.states = cs.states /\ d.resets = cs.resets
                 /\ d.stream = cs.stream /\ d.idle = cs.idle
                 /\ d.requests = cs.requests /\ d.responses = cs.responses
  <2> DEFINE d == [cs EXCEPT !.enabled = b]
  <2>1. /\ cs = [tokens |-> cs.tokens, states |-> cs.states, resets |-> cs.resets,
                 enabled |-> cs.enabled, stream |-> cs.stream, idle |-> cs.idle,
                 requests |-> cs.requests, responses |-> cs.responses]
        /\ IsTable(cs.tokens, Tokens(n)) /\ IsTable(cs.states, States(n))
        /\ cs.resets \in SUBSET Targets /\ cs.stream \in {"Stopped", "Starting", "Open"}
        /\ cs.idle \in BOOLEAN
        /\ cs.requests \in Seq(Requests(n)) /\ cs.responses \in Seq(Responses(n))
    BY <1>1, ClientIs
  <2>2. d = [tokens |-> cs.tokens, states |-> cs.states, resets |-> cs.resets,
             enabled |-> b, stream |-> cs.stream, idle |-> cs.idle,
             requests |-> cs.requests, responses |-> cs.responses]
    BY <2>1
  <2> HIDE DEF d, n
  <2>3. IsClient(d, n)
    BY <2>1, <2>2, ClientIs
  <2> QED
    BY <2>2, <2>3 DEF d
<1>4. CASE DisableNetwork
  <2> DEFINE d == [cs EXCEPT !.enabled = FALSE]
  <2>1. IsClient(d, n) /\ d.tokens = cs.tokens /\ d.enabled = FALSE
    BY <1>3
  <2>2. /\ Disrupt /\ cs' = NoCall(d, "Stopped") /\ CallEnds
        /\ UNCHANGED <<views, memory, cache, lastRemote, listens, rejections>>
    BY <1>4 DEF DisableNetwork
  <2> HIDE DEF d, n
  <2>3. /\ IsClient(cs', n) /\ NothingOfCall(cs') /\ cs'.tokens = cs.tokens
        /\ ~cs'.enabled /\ cs'.stream = "Stopped"
    BY <1>1, <2>1, <2>2, NoCallIs
  <2>4. Sound(cs', n)
    BY <2>3 DEF Sound, CallOver, StreamAsNeeded, NothingOfCall
  <2>5. {listens, disruptions, rejections}' \subseteq Nat
    BY <1>2, <2>2, Counters
  <2> QED
    BY <2>2, <2>3, <2>4, <2>5, WithoutCallKeeps DEF n, CallEnds
<1>5. CASE EnableNetwork
  <2> DEFINE d == [cs EXCEPT !.enabled = TRUE]
  <2>1. /\ IsClient(d, n) /\ d.tokens = cs.tokens /\ d.enabled
        /\ d.states = cs.states /\ d.resets = cs.resets
        /\ d.stream = cs.stream /\ d.idle = cs.idle
        /\ d.requests = cs.requests /\ d.responses = cs.responses
    BY <1>3
  <2>2. /\ ~cs.enabled /\ cs' = StartIfNeeded(d)
        /\ UNCHANGED <<views, memory, cache, lastRemote, truth, served, at,
                       listens, disruptions, rejections>>
    BY <1>5 DEF EnableNetwork, serverVars, countVars
  <2> HIDE DEF d, n
  <2>3. d.stream = "Stopped" /\ NothingOfCall(d) /\ CallOver(d)
    BY <1>1, <2>1, <2>2 DEF CallOver, StreamAsNeeded, NothingOfCall
  <2>4. /\ Sound(cs', n) /\ cs'.tokens = d.tokens
        /\ cs' = d \/ NothingOfCall(cs')
    BY <1>1, <2>1, <2>2, <2>3, StartIfNeededIs
  <2> QED
    BY <1>2, <2>1, <2>2, <2>3, <2>4, WithoutCallKeeps DEF n
<1>6. CASE RestartNetwork \/ ConnectionLost \/ IdleTimeout
  <2>1. /\ cs' = Closed(cs) /\ CallEnds
        /\ UNCHANGED <<views, memory, cache, lastRemote, listens, rejections>>
        /\ Disrupt \/ UNCHANGED disruptions
    BY <1>6 DEF RestartNetwork, ConnectionLost, IdleTimeout, countVars
  <2>2. Sound(cs', n) /\ NothingOfCall(cs') /\ cs'.tokens = cs.tokens
    BY <1>1, <2>1, ClosedIs
  <2>3. {listens, disruptions, rejections}' \subseteq Nat
    BY <1>2, <2>1, Counters
  <2> QED
    BY <2>1, <2>2, <2>3, WithoutCallKeeps DEF CallEnds
<1> QED
  BY <1>4, <1>5, <1>6

\* A client just started.
LEMMA NewClientIs ==
  ASSUME NEW n \in Nat
  PROVE  Sound(NewClient, n) /\ NothingOfCall(NewClient) /\ DOMAIN NewClient.tokens = {}
<1>1. NewClient = [tokens |-> <<>>, states |-> <<>>, resets |-> {}, enabled |-> TRUE,
              stream |-> "Stopped", idle |-> FALSE, requests |-> <<>>, responses |-> <<>>]
  BY DEF NewClient
<1>2. IsClient(NewClient, n)
  BY <1>1, EmptyTable, ClientIs
<1>3. NothingOfCall(NewClient) /\ DOMAIN NewClient.tokens = {}
  BY <1>1, EmptyTable DEF NothingOfCall
<1> QED
  BY <1>1, <1>2, <1>3 DEF Sound, CallOver, StreamAsNeeded

LEMMA CrashKeeps ==
  ASSUME IInv, Crash
  PROVE  IInv' /\ CountInv'
<1>1. /\ Disrupt /\ cs' = NewClient /\ views' = <<>> /\ memory' = <<>> /\ served' = <<>>
      /\ UNCHANGED <<truth, at, cache, lastRemote, listens, rejections>>
  BY DEF Crash, CallEnds
<1>2. Sound(cs', Len(truth)) /\ NothingOfCall(cs') /\ DOMAIN cs'.tokens = {}
  BY <1>1, Types, NewClientIs
<1>3. {listens, disruptions, rejections}' \subseteq Nat
  BY <1>1, Counters
<1>4. Typed'
  BY <1>1, <1>2, <1>3, EmptyTable DEF IInv, Typed, Sound
<1>5. ChangesFitCache' /\ ViewsFromCache'
  BY <1>1, <1>2, EmptyTable DEF ChangesFitCache, ViewsFromCache, NothingOfCall
<1>6. CountInv'
  BY <1>2, NothingIsCounted DEF CountInv
<1> QED
  BY <1>2, <1>4, <1>5, <1>6 DEF IInv, Sound

\* An open stream asks for every target.
LEMMA StreamOpensKeeps ==
  ASSUME IInv, StreamOpens
  PROVE  IInv' /\ CountInv'
<1> DEFINE n == Len(truth)
           open == [cs EXCEPT !.stream = "Open"]
           D == DOMAIN cs.tokens
           asked == [t \in D |-> <<WatchRequest(t, cs.tokens[t])>>]
<1>1. /\ n \in Nat /\ IsClient(cs, n) /\ CallOver(cs) /\ StreamAsNeeded(cs)
      /\ D \in SUBSET Targets /\ \A t \in D : cs.tokens[t] \in Tokens(n)
  BY Types, ClientIs DEF IInv, IsTable
<1>2. /\ cs.stream = "Starting" /\ cs' = Ask(open, asked)
      /\ at' \in 1 .. n /\ served' = <<>>
      /\ UNCHANGED <<views, memory, cache, lastRemote, truth, listens, disruptions, rejections>>
  BY DEF StreamOpens, countVars
<1>3. /\ IsClient(open, n) /\ open.tokens = cs.tokens /\ open.enabled = cs.enabled
      /\ open.states = cs.states /\ open.resets = cs.resets
      /\ open.stream = "Open" /\ open.idle = cs.idle
      /\ open.requests = cs.requests /\ open.responses = cs.responses
  <2>1. /\ cs = [tokens |-> cs.tokens, states |-> cs.states, resets |-> cs.resets,
                 enabled |-> cs.enabled, stream |-> cs.stream, idle |-> cs.idle,
                 requests |-> cs.requests, responses |-> cs.responses]
        /\ IsTable(cs.tokens, Tokens(n)) /\ IsTable(cs.states, States(n))
        /\ cs.resets \in SUBSET Targets /\ cs.enabled \in BOOLEAN /\ cs.idle \in BOOLEAN
        /\ cs.requests \in Seq(Requests(n)) /\ cs.responses \in Seq(Responses(n))
    BY <1>1, ClientIs
  <2>2. open = [tokens |-> cs.tokens, states |-> cs.states, resets |-> cs.resets,
                enabled |-> cs.enabled, stream |-> "Open", idle |-> cs.idle,
                requests |-> cs.requests, responses |-> cs.responses]
    BY <2>1
  <2> HIDE DEF open, n
  <2>3. IsClient(open, n)
    BY <2>1, <2>2, ClientIs
  <2> QED
    BY <2>2, <2>3
<1> HIDE DEF open, n
<1>4. NothingOfCall(open)
  BY <1>1, <1>2, <1>3 DEF CallOver, NothingOfCall
<1>5. /\ asked \in [D -> Seq(Requests(n))]
      /\ \A u \in D : \A j \in 1 .. Len(asked[u]) : asked[u][j].target = u
  <2>1. \A t \in D : /\ asked[t] = <<WatchRequest(t, cs.tokens[t])>>
                     /\ WatchRequest(t, cs.tokens[t]) \in Requests(n)
                     /\ WatchRequest(t, cs.tokens[t]).target = t
    BY <1>1 DEF WatchRequest, Requests
  <2>2. asked = [t \in D |-> asked[t]]
    OBVIOUS
  <2> HIDE DEF asked, D
  <2>3. asked \in [D -> Seq(Requests(n))]
    <3>1. \A t \in D : asked[t] \in Seq(Requests(n))
      BY <2>1
    <3> QED
      BY <2>2, <3>1
  <2>4. ASSUME NEW u \in D, NEW j \in 1 .. Len(asked[u]) PROVE asked[u][j].target = u
    <3>1. asked[u] = <<WatchRequest(u, cs.tokens[u])>>
      BY <2>1
    <3>2. j = 1
      BY <3>1
    <3> QED
      BY <2>1, <3>1, <3>2
  <2> QED
    BY <2>3, <2>4
<1> HIDE DEF asked
<1>6. Asks(open, cs', D, asked, n)
  BY <1>1, <1>2, <1>3, <1>5, AskIs
<1>7. /\ IsClient(cs', n) /\ cs'.tokens = cs.tokens /\ cs'.enabled = cs.enabled
      /\ cs'.stream = "Open" /\ ~cs'.idle /\ cs'.responses = <<>>
  BY <1>3, <1>4, <1>6 DEF Asks, NothingOfCall
<1>8. CallOver(cs') /\ StreamAsNeeded(cs')
  BY <1>1, <1>2, <1>7 DEF CallOver, StreamAsNeeded
<1>9. Typed'
  BY <1>2, <1>7, EmptyTable DEF IInv, Typed, n
<1>10. ViewsFromCache'
  BY <1>2 DEF IInv, ViewsFromCache
<1>11. ChangesFitCache'
  <2> DEFINE K == [u \in Targets |-> cache[u].keys]
  <2>1. \A u \in DOMAIN open.states : Fits(open.states[u], K[u])
    BY <1>4 DEF NothingOfCall
  <2>2. \A u \in DOMAIN cs'.states : Fits(cs'.states[u], K[u])
    <3> HIDE DEF K
    <3> QED
      BY <1>1, <1>3, <1>6, <2>1, AsksFit
  <2>3. DOMAIN cs'.states \subseteq Targets
    BY <1>7, ClientIs DEF IsTable
  <2> QED
    BY <1>2, <2>2, <2>3 DEF ChangesFitCache
<1>12. CountInv'
  <2>1. \A t \in Targets : StateOf(open, t).outstanding = UnderWay(open, t)
    BY <1>4, NothingIsCounted
  <2>2. \A t \in Targets : StateOf(cs', t).outstanding = UnderWay(cs', t)
    BY <1>6, <2>1 DEF Asks
  <2>3. DOMAIN cs'.responses = {}
    BY <1>7, EmptyTable
  <2> QED
    BY <2>2, <2>3 DEF CountInv
<1> QED
  BY <1>8, <1>9, <1>10, <1>11, <1>12 DEF IInv

\* A client with what is on the wire replaced, and nothing else.
Rewired(c, d, requests, responses) ==
  d = [c EXCEPT !.requests = requests, !.responses = responses]

\* The client with what is on the wire replaced.
LEMMA WireReplaced ==
  ASSUME NEW n \in Nat, NEW c, IsClient(c, n),
         NEW requests \in Seq(Requests(n)), NEW responses \in Seq(Responses(n)),
         NEW d, Rewired(c, d, requests, responses)
  PROVE  /\ IsClient(d, n) /\ d.requests = requests /\ d.responses = responses
         /\ d.tokens = c.tokens /\ d.states = c.states /\ d.resets = c.resets
         /\ d.enabled = c.enabled /\ d.stream = c.stream /\ d.idle = c.idle
<1>1. c = [tokens |-> c.tokens, states |-> c.states, resets |-> c.resets,
           enabled |-> c.enabled, stream |-> c.stream, idle |-> c.idle,
           requests |-> c.requests, responses |-> c.responses]
  BY ClientIs
<1>2. d = [tokens |-> c.tokens, states |-> c.states, resets |-> c.resets,
           enabled |-> c.enabled, stream |-> c.stream, idle |-> c.idle,
           requests |-> requests, responses |-> responses]
  <2>1. DOMAIN c = {"tokens", "states", "resets", "enabled", "stream", "idle", "requests", "responses"}
    BY <1>1
  <2> QED
    BY <2>1 DEF Rewired
<1>3. /\ IsTable(c.states, States(n)) /\ c.resets \in SUBSET Targets
      /\ IsTable(c.tokens, Tokens(n))
      /\ c.enabled \in BOOLEAN /\ c.stream \in {"Stopped", "Starting", "Open"}
      /\ c.idle \in BOOLEAN
  BY ClientIs
<1>4. IsClient(d, n)
  BY <1>2, <1>3, ClientIs
<1> QED
  BY <1>2, <1>4

\* A client with a response less.
LEMMA TailRewires ==
  ASSUME NEW n, NEW c, IsClient(c, n)
  PROVE  Rewired(c, [c EXCEPT !.responses = Tail(@)], c.requests, Tail(c.responses))
<1>1. c = [tokens |-> c.tokens, states |-> c.states, resets |-> c.resets,
           enabled |-> c.enabled, stream |-> c.stream, idle |-> c.idle,
           requests |-> c.requests, responses |-> c.responses]
  BY ClientIs
<1> QED
  BY <1>1 DEF Rewired

\* The client without the response it is receiving: an answer is one less under way.
LEMMA ResponseTaken ==
  ASSUME NEW n \in Nat, NEW c, IsClient(c, n), c.responses # <<>>,
         NEW d, Rewired(c, d, c.requests, Tail(c.responses))
  PROVE  /\ IsClient(d, n) /\ d.responses = Tail(c.responses)
         /\ d.tokens = c.tokens /\ d.states = c.states /\ d.resets = c.resets
         /\ d.enabled = c.enabled /\ d.stream = c.stream /\ d.idle = c.idle
         /\ d.requests = c.requests
         /\ Head(c.responses) \in Responses(n)
         /\ \A t : UnderWay(d, t) =
                     UnderWay(c, t) - (IF Answers(Head(c.responses)) /\ Head(c.responses).target = t
                                       THEN 1 ELSE 0)
<1> DEFINE m == Head(c.responses)
           rest == Tail(c.responses)
<1>1. c.requests \in Seq(Requests(n)) /\ c.responses \in Seq(Responses(n))
  BY ClientIs
<1>2. rest \in Seq(Responses(n)) /\ m \in Responses(n)
  BY <1>1
<1>3. Rewired(c, d, c.requests, rest)
  OBVIOUS
<1> HIDE DEF rest
<1>4. /\ IsClient(d, n) /\ d.requests = c.requests /\ d.responses = rest
      /\ d.tokens = c.tokens /\ d.states = c.states /\ d.resets = c.resets
      /\ d.enabled = c.enabled /\ d.stream = c.stream /\ d.idle = c.idle
  BY <1>1, <1>2, <1>3, WireReplaced
<1>5. ASSUME NEW t
      PROVE  UnderWay(d, t) = UnderWay(c, t) - (IF Answers(m) /\ m.target = t THEN 1 ELSE 0)
  <2> DEFINE T == AnswersFor(n, t)
  <2>1. /\ AnswersOf(c.responses, t) = Places(c.responses, T)
        /\ AnswersOf(rest, t) = Places(rest, T)
    BY <1>1, <1>2, UnderWayPlaces DEF rest
  <2>2. m \in T <=> (Answers(m) /\ m.target = t)
    BY <1>2 DEF AnswersFor
  <2>3. Cardinality(Places(rest, T)) = Cardinality(Places(c.responses, T)) - (IF m \in T THEN 1 ELSE 0)
    <3> HIDE DEF T
    <3> QED
      BY <1>1, PlacesTail DEF rest
  <2>4. /\ Cardinality(RequestsOf(c.requests, t)) \in Nat
        /\ Cardinality(AnswersOf(c.responses, t)) \in Nat
    BY <1>1, UnderWayNat
  <2> HIDE DEF T, m
  <2> QED
    BY <1>4, <2>1, <2>2, <2>3, <2>4 DEF UnderWay
<1> QED
  BY <1>2, <1>4, <1>5 DEF rest

\* The keys of a target after its changes are keys.
LEMMA MatchingKeys ==
  ASSUME NEW n \in Nat, NEW s \in States(n), NEW keys \in SUBSET Keys
  PROVE  Matching(keys, s) \in SUBSET Keys
<1>1. DOMAIN s.changes \subseteq Keys
  BY ChangesAre DEF States
<1> QED
  BY <1>1 DEF Matching, KeysWith

\* What a snapshot does to the views, the target data and the cache.
LEMMA RaiseKeeps ==
  ASSUME IInv, NEW c, IsClient(c, Len(truth)), c.tokens = cs.tokens,
         NEW version \in 1 .. Len(truth), RaiseWatchSnapshot(c, version)
  PROVE  /\ IsTable(views', Views) /\ DOMAIN views' = DOMAIN views
         /\ IsTable(memory', Tokens(Len(truth))) /\ DOMAIN memory' = DOMAIN memory
         /\ cache' \in [Targets -> Rows(Len(truth))]
         /\ lastRemote' = version
         /\ \A t \in Targets : t \notin Changed(c) => cache'[t] = cache[t]
         /\ \A t \in DOMAIN views' : views'[t].synced = cache'[t].keys
<1> DEFINE n == Len(truth)
<1>1. /\ n \in Nat /\ None \in Tokens(n)
      /\ IsTable(views, Views) /\ IsTable(memory, Tokens(n))
      /\ DOMAIN views = DOMAIN cs.tokens /\ DOMAIN memory = DOMAIN cs.tokens
      /\ cache \in [Targets -> Rows(n)] /\ IsTable(c.states, States(n))
  BY Types, ClientIs DEF IInv, Typed
<1>2. PICK persisted \in SUBSET Changed(c) :
        cache' = [t \in Targets |->
           IF t \in Changed(c) THEN CachedAfter(c, t, t \in persisted) ELSE cache[t]]
  BY DEF RaiseWatchSnapshot
<1>3. /\ views' = [t \in DOMAIN views |->
           IF t \in Changed(c) THEN ViewAfter(c, t)
           ELSE [views[t] EXCEPT !.current = @ /\ t \notin c.resets]]
      /\ memory' = [t \in DOMAIN memory |-> IF t \in Changed(c) THEN TokenAfter(c, t) ELSE memory[t]]
      /\ lastRemote' = version
  BY DEF RaiseWatchSnapshot
<1> HIDE DEF n
<1>4. \A t \in Changed(c) : t \in DOMAIN views /\ t \in DOMAIN memory /\ c.states[t] \in States(n)
                            /\ t \in Targets
  BY <1>1 DEF Changed, IsActive, IsTable
<1>5. \A t \in DOMAIN views : views[t] \in Views /\ views[t].synced = cache[t].keys /\ t \in Targets
  BY <1>1 DEF IsTable, IInv, ViewsFromCache
<1>6. \A t \in DOMAIN memory : memory[t] \in Tokens(n)
  BY <1>1 DEF IsTable
<1>7. \A t \in Changed(c) : Matching(cache[t].keys, c.states[t]) \in SUBSET Keys
  BY <1>1, <1>4, MatchingKeys DEF Rows
<1>8. \A t \in Changed(c) : TokenAfter(c, t) \in Tokens(n)
  BY <1>1, <1>4, <1>6 DEF TokenAfter, States
<1>9. \A t \in Changed(c) : /\ CachedAfter(c, t, t \in persisted) \in Rows(n)
                            /\ CachedAfter(c, t, t \in persisted).keys = Matching(cache[t].keys, c.states[t])
  BY <1>1, <1>4, <1>7, <1>8 DEF CachedAfter, Rows
<1>10. \A t \in Changed(c) : /\ ViewAfter(c, t) \in Views
                             /\ ViewAfter(c, t).synced = Matching(cache[t].keys, c.states[t])
  BY <1>4, <1>5, <1>7 DEF ViewAfter, Views, States
<1>11. ASSUME NEW t \in DOMAIN views, t \notin Changed(c)
       PROVE  /\ [views[t] EXCEPT !.current = @ /\ t \notin c.resets] \in Views
              /\ [views[t] EXCEPT !.current = @ /\ t \notin c.resets].synced = cache[t].keys
  BY <1>5 DEF Views
<1>12. cache' \in [Targets -> Rows(n)]
       /\ \A t \in Targets : cache'[t] = IF t \in Changed(c) THEN CachedAfter(c, t, t \in persisted) ELSE cache[t]
  BY <1>1, <1>2, <1>9
<1>13. DOMAIN views' = DOMAIN views
       /\ \A t \in DOMAIN views : views'[t] \in Views /\ views'[t].synced = cache'[t].keys
  BY <1>3, <1>5, <1>9, <1>10, <1>11, <1>12
<1>14. IsTable(views', Views)
  <2>1. views' = [t \in DOMAIN views |-> views'[t]]
    BY <1>3
  <2> QED
    BY <1>1, <1>13, <2>1 DEF IsTable
<1>15. IsTable(memory', Tokens(n)) /\ DOMAIN memory' = DOMAIN memory
  BY <1>1, <1>3, <1>6, <1>8 DEF IsTable
<1> QED
  BY <1>3, <1>12, <1>13, <1>14, <1>15 DEF n

LEMMA ReceiveChangeKeeps ==
  ASSUME IInv, ReceiveChange
  PROVE  IInv' /\ (CountInv => CountInv')
<1> DEFINE n == Len(truth)
           m == Head(cs.responses)
           synced == [t \in DOMAIN views |-> views[t].synced]
           b == [cs EXCEPT !.responses = Tail(@)]
           c == Aggregate(b, synced, m)
           K == [t \in Targets |-> cache[t].keys]
           raised == m.type = "NoChange" /\ m.token >= lastRemote
<1>1. /\ n \in Nat /\ IsClient(cs, n) /\ CallOver(cs) /\ StreamAsNeeded(cs)
      /\ DOMAIN views = DOMAIN cs.tokens /\ DOMAIN cs.tokens \subseteq Targets
      /\ DOMAIN memory = DOMAIN cs.tokens
      /\ \A t \in Targets : cache[t].keys \in SUBSET Keys
  BY Types DEF IInv
<1>2. /\ cs.stream = "Open" /\ cs.responses # <<>> /\ m.type # "Error"
      /\ raised => RaiseWatchSnapshot(c, m.token)
      /\ ~raised => cs' = c /\ UNCHANGED <<views, memory, cache, lastRemote>>
      /\ UNCHANGED <<truth, served, at, listens, disruptions, rejections>>
  BY DEF ReceiveChange, serverVars, countVars
<1>3. /\ IsClient(b, n) /\ b.responses = Tail(cs.responses)
      /\ b.tokens = cs.tokens /\ b.states = cs.states
      /\ b.enabled = cs.enabled /\ b.stream = cs.stream /\ b.idle = cs.idle
      /\ b.requests = cs.requests
      /\ m \in Responses(n)
      /\ \A t : UnderWay(b, t) =
                  UnderWay(cs, t) - (IF Answers(m) /\ m.target = t THEN 1 ELSE 0)
  <2>1. Rewired(cs, b, cs.requests, Tail(cs.responses))
    BY <1>1, TailRewires
  <2>2. n \in Nat /\ IsClient(cs, n) /\ cs.responses # <<>>
    BY <1>1, <1>2
  <2> HIDE DEF b, n
  <2> QED
    BY <1>2, <2>1, <2>2, ResponseTaken
<1>4. K \in [Targets -> SUBSET Keys]
  BY <1>1
<1>5. \A t \in DOMAIN b.states : Fits(b.states[t], K[t])
  <2>1. DOMAIN cs.states \subseteq Targets
    BY <1>1, ClientIs DEF IsTable
  <2>2. \A t \in DOMAIN b.states : Fits(b.states[t], cache[t].keys)
    <3> HIDE DEF b
    <3> QED
      BY <1>3 DEF IInv, ChangesFitCache
  <2> HIDE DEF b
  <2> QED
    BY <1>3, <2>1, <2>2
<1>6. \A t \in DOMAIN b.tokens : synced[t] = K[t]
  <2> HIDE DEF b
  <2> QED
    BY <1>1, <1>3 DEF IInv, ViewsFromCache
<1>7. \A t \in Targets : K[t] = cache[t].keys
  OBVIOUS
<1> HIDE DEF b, m, synced, K, n
<1>8. Gathers(b, c, m, n, K)
  BY <1>1, <1>2, <1>3, <1>4, <1>5, <1>6, AggregateGathers
<1> HIDE DEF c, raised
<1>9. /\ IsClient(c, n) /\ c.tokens = cs.tokens /\ c.enabled = cs.enabled /\ c.stream = "Open"
      /\ c.idle = cs.idle /\ c.requests = cs.requests /\ c.responses = Tail(cs.responses)
      /\ \A t \in DOMAIN c.states : Fits(c.states[t], K[t])
  BY <1>2, <1>3, <1>8 DEF Gathers
<1>10. \A t \in Targets : UnderWay(c, t) = UnderWay(b, t)
  BY <1>3, <1>9 DEF UnderWay
<1>11. ASSUME NEW t \in Targets, StateOf(cs, t).outstanding = UnderWay(cs, t)
       PROVE  StateOf(c, t).outstanding = UnderWay(c, t)
  <2>1. StateOf(b, t) = StateOf(cs, t)
    BY <1>3 DEF StateOf
  <2>2. StateOf(c, t).outstanding =
          StateOf(b, t).outstanding - (IF Answers(m) /\ m.target = t THEN 1 ELSE 0)
    BY <1>8 DEF Gathers
  <2> QED
    BY <1>3, <1>10, <1>11, <2>1, <2>2
<1>12. (\A i \in DOMAIN cs.responses : cs.responses[i].type # "Error")
         => \A i \in DOMAIN c.responses : c.responses[i].type # "Error"
  <2>1. cs.responses \in Seq(Responses(n)) /\ cs.responses # <<>>
    BY <1>1, <1>2, ClientIs
  <2>2. \A i \in DOMAIN Tail(cs.responses) :
          i + 1 \in DOMAIN cs.responses /\ Tail(cs.responses)[i] = cs.responses[i + 1]
    BY <2>1
  <2> QED
    BY <1>9, <2>2
<1>13. DOMAIN c.states \subseteq Targets
  BY <1>9, ClientIs DEF IsTable
<1>14. CASE ~raised
  <2>1. cs' = c /\ UNCHANGED <<views, memory, cache, lastRemote>>
    BY <1>2, <1>14
  <2>2. Typed'
    BY <1>2, <1>9, <2>1 DEF IInv, Typed, n
  <2>3. CallOver(cs') /\ StreamAsNeeded(cs')
    BY <1>1, <1>2, <1>9, <2>1 DEF CallOver, StreamAsNeeded
  <2>4. ChangesFitCache' /\ ViewsFromCache'
    BY <1>7, <1>9, <1>13, <2>1 DEF IInv, ChangesFitCache, ViewsFromCache
  <2>5. CountInv => CountInv'
    BY <1>2, <1>11, <1>12, <2>1 DEF CountInv
  <2> QED
    BY <2>2, <2>3, <2>4, <2>5 DEF IInv
<1>15. CASE raised
  <2>1. RaiseWatchSnapshot(c, m.token) /\ m.token \in 1 .. n
    BY <1>1, <1>2, <1>3, <1>15, ResponseFields DEF raised
  <2>2. /\ IsTable(views', Views) /\ DOMAIN views' = DOMAIN views
        /\ IsTable(memory', Tokens(n)) /\ DOMAIN memory' = DOMAIN memory
        /\ cache' \in [Targets -> Rows(n)]
        /\ lastRemote' = m.token
        /\ \A t \in Targets : t \notin Changed(c) => cache'[t] = cache[t]
        /\ \A t \in DOMAIN views' : views'[t].synced = cache'[t].keys
    BY <1>9, <2>1, RaiseKeeps DEF n
  <2>3. cs' = AfterRemoteEvent(c)
    BY <2>1 DEF RaiseWatchSnapshot
  <2>4. /\ IsClient(cs', n)
        /\ DOMAIN cs'.tokens = DOMAIN c.tokens /\ cs'.enabled = c.enabled
        /\ cs'.stream = c.stream /\ cs'.responses = c.responses
        /\ cs'.idle => c.idle
        /\ \A t \in DOMAIN cs'.states :
             \/ DOMAIN cs'.states[t].changes = {}
             \/ /\ t \in DOMAIN c.states \ Changed(c)
                /\ cs'.states[t].changes = c.states[t].changes
                /\ cs'.states[t].dirty = c.states[t].dirty
        /\ \A t \in Targets : StateOf(c, t).outstanding = UnderWay(c, t)
                                => StateOf(cs', t).outstanding = UnderWay(cs', t)
    BY <1>1, <1>9, <2>3, AfterRemoteEventIs
  <2>5. Typed'
    BY <1>1, <1>2, <1>9, <2>1, <2>2, <2>4 DEF IInv, Typed, n
  <2>6. CallOver(cs') /\ StreamAsNeeded(cs')
    <3>1. cs'.stream = "Open" /\ cs'.enabled = cs.enabled /\ DOMAIN cs'.tokens = DOMAIN cs.tokens
          /\ (cs'.idle => cs.idle)
      BY <1>9, <2>4
    <3>2. cs.enabled /\ (cs.idle => DOMAIN cs.tokens = {})
      BY <1>1, <1>2 DEF StreamAsNeeded
    <3> QED
      BY <3>1, <3>2 DEF CallOver, StreamAsNeeded
  <2>7. ChangesFitCache'
    <3> SUFFICES ASSUME NEW t \in DOMAIN cs'.states PROVE Fits(cs'.states[t], cache'[t].keys)
      BY DEF ChangesFitCache
    <3>1. CASE DOMAIN cs'.states[t].changes = {}
      BY <3>1, NoChangesFit
    <3>2. CASE DOMAIN cs'.states[t].changes # {}
      <4>1. /\ t \in DOMAIN c.states \ Changed(c) /\ t \in Targets
            /\ cs'.states[t].changes = c.states[t].changes
            /\ cs'.states[t].dirty = c.states[t].dirty
        BY <1>13, <2>4, <3>2
      <4>2. cache'[t].keys = K[t]
        BY <1>7, <2>2, <4>1
      <4>3. Fits(c.states[t], K[t])
        BY <1>9, <4>1
      <4>4. \A change : KeysWith(cs'.states[t], change) = KeysWith(c.states[t], change)
        BY <4>1 DEF KeysWith
      <4> QED
        BY <4>1, <4>2, <4>3, <4>4 DEF Fits
    <3> QED
      BY <3>1, <3>2
  <2>8. ViewsFromCache'
    BY <2>2 DEF ViewsFromCache
  <2>9. CountInv => CountInv'
    BY <1>2, <1>11, <1>12, <2>4 DEF CountInv
  <2> QED
    BY <2>5, <2>6, <2>7, <2>8, <2>9 DEF IInv
<1> QED
  BY <1>14, <1>15

LEMMA ReceiveTargetErrorKeeps ==
  ASSUME IInv, ReceiveTargetError
  PROVE  IInv' /\ (CountInv => CountInv')
<1> DEFINE n == Len(truth)
           m == Head(cs.responses)
           t == m.target
           b == [cs EXCEPT !.responses = Tail(@)]
<1>1. /\ n \in Nat /\ IsClient(cs, n) /\ CallOver(cs) /\ StreamAsNeeded(cs)
      /\ DOMAIN views = DOMAIN cs.tokens /\ DOMAIN cs.tokens \subseteq Targets
      /\ DOMAIN memory = DOMAIN cs.tokens
      /\ IsTable(cs.tokens, Tokens(n)) /\ IsTable(cs.states, States(n))
  BY Types, ClientIs DEF IInv
<1>2. /\ cs.stream = "Open" /\ cs.responses # <<>> /\ m.type = "Error"
      /\ t \in DOMAIN cs.tokens =>
           /\ cs' = [b EXCEPT !.tokens = Without(@, t), !.states = Without(@, t)]
           /\ Release(t)
      /\ t \notin DOMAIN cs.tokens => cs' = b /\ UNCHANGED <<views, memory, cache>>
      /\ UNCHANGED <<lastRemote, truth, served, at, listens, disruptions, rejections>>
  BY DEF ReceiveTargetError, serverVars, countVars
<1>3. /\ IsClient(b, n) /\ b.responses = Tail(cs.responses)
      /\ b.tokens = cs.tokens /\ b.states = cs.states /\ b.resets = cs.resets
      /\ b.enabled = cs.enabled /\ b.stream = "Open" /\ b.idle = cs.idle
      /\ b.requests = cs.requests
  <2>1. Rewired(cs, b, cs.requests, Tail(cs.responses))
    BY <1>1, TailRewires
  <2>2. n \in Nat /\ IsClient(cs, n) /\ cs.responses # <<>>
    BY <1>1, <1>2
  <2> HIDE DEF b, n
  <2> QED
    BY <1>2, <2>1, <2>2, ResponseTaken
<1>4. CountInv => CountInv'
  <2> SUFFICES ASSUME CountInv, rejections = 0 PROVE FALSE
    BY <1>2 DEF CountInv
  <2>1. 1 \in DOMAIN cs.responses /\ cs.responses[1].type = "Error"
    BY <1>1, <1>2, ClientIs
  <2> QED
    BY <2>1 DEF CountInv
<1> HIDE DEF b, n
<1>5. CASE t \notin DOMAIN cs.tokens
  <2>1. cs' = b /\ UNCHANGED <<views, memory, cache>>
    BY <1>2, <1>5
  <2>2. Typed'
    BY <1>2, <1>3, <2>1 DEF IInv, Typed, n
  <2>3. CallOver(cs') /\ StreamAsNeeded(cs')
    BY <1>1, <1>2, <1>3, <2>1 DEF CallOver, StreamAsNeeded
  <2>4. ChangesFitCache' /\ ViewsFromCache'
    BY <1>3, <2>1 DEF IInv, ChangesFitCache, ViewsFromCache
  <2> QED
    BY <1>4, <2>2, <2>3, <2>4 DEF IInv
<1>6. CASE t \in DOMAIN cs.tokens
  <2>1. t \in DOMAIN views /\ Release(t)
        /\ cs' = [b EXCEPT !.tokens = Without(@, t), !.states = Without(@, t)]
    BY <1>1, <1>2, <1>6
  <2>2. /\ IsTable(views', Views) /\ DOMAIN views' = DOMAIN views \ {t}
        /\ IsTable(memory', Tokens(n)) /\ DOMAIN memory' = DOMAIN memory \ {t}
        /\ cache' \in [Targets -> Rows(n)]
        /\ \A u \in Targets : cache'[u].keys = cache[u].keys
        /\ \A u \in DOMAIN views' : views'[u].synced = cache'[u].keys
    <3> HIDE DEF t
    <3> QED
      BY <2>1, ReleaseKeeps DEF n
  <2> DEFINE tokens == Without(b.tokens, t)
             states == Without(b.states, t)
  <2>3. cs' = [tokens |-> tokens, states |-> states, resets |-> b.resets,
               enabled |-> b.enabled, stream |-> b.stream, idle |-> b.idle,
               requests |-> b.requests, responses |-> b.responses]
    <3>1. b = [tokens |-> b.tokens, states |-> b.states, resets |-> b.resets,
               enabled |-> b.enabled, stream |-> b.stream, idle |-> b.idle,
               requests |-> b.requests, responses |-> b.responses]
      BY <1>3, ClientIs
    <3>2. DOMAIN b = {"tokens", "states", "resets", "enabled", "stream", "idle", "requests", "responses"}
      BY <3>1
    <3>3. cs' = [b EXCEPT !.tokens = tokens, !.states = states]
      BY <2>1, <3>1
    <3> HIDE DEF tokens, states
    <3> QED
      BY <3>2, <3>3
  <2>4. /\ IsTable(tokens, Tokens(n)) /\ DOMAIN tokens = DOMAIN cs.tokens \ {t}
        /\ IsTable(states, States(n)) /\ DOMAIN states = DOMAIN cs.states \ {t}
        /\ \A u \in DOMAIN cs.states \ {t} : states[u] = cs.states[u]
    <3>1. tokens = Without(cs.tokens, t) /\ states = Without(cs.states, t)
      BY <1>3
    <3> HIDE DEF tokens, states, t
    <3>2. IsTable(tokens, Tokens(n)) /\ DOMAIN tokens = DOMAIN cs.tokens \ {t}
      BY <1>1, <3>1, WithoutTable
    <3>3. /\ IsTable(states, States(n)) /\ DOMAIN states = DOMAIN cs.states \ {t}
          /\ \A u \in DOMAIN cs.states \ {t} : states[u] = cs.states[u]
      BY <1>1, <3>1, WithoutTable
    <3> QED
      BY <3>2, <3>3
  <2> HIDE DEF tokens, states, t
  <2>5. IsClient(cs', n)
    <3>1. /\ b.resets \in SUBSET Targets
          /\ b.enabled \in BOOLEAN /\ b.stream \in {"Stopped", "Starting", "Open"}
          /\ b.idle \in BOOLEAN
          /\ b.requests \in Seq(Requests(n)) /\ b.responses \in Seq(Responses(n))
      BY <1>3, ClientIs
    <3> QED
      BY <2>3, <2>4, <3>1, ClientIs
  <2>6. Typed'
    <3>1. DOMAIN views' = DOMAIN cs'.tokens /\ DOMAIN memory' = DOMAIN cs'.tokens
      BY <1>1, <2>2, <2>3, <2>4
    <3> QED
      BY <1>2, <2>2, <2>5, <3>1 DEF IInv, Typed, n
  <2>7. CallOver(cs') /\ StreamAsNeeded(cs')
    BY <1>1, <1>2, <1>3, <2>3, <2>4 DEF CallOver, StreamAsNeeded
  <2>8. ChangesFitCache'
    <3> SUFFICES ASSUME NEW u \in DOMAIN states PROVE Fits(states[u], cache'[u].keys)
      BY <2>3 DEF ChangesFitCache
    <3>1. u \in DOMAIN cs.states /\ states[u] = cs.states[u] /\ u \in Targets
      BY <1>1, <2>4 DEF IsTable
    <3>2. cache'[u].keys = cache[u].keys
      BY <2>2, <3>1
    <3> QED
      BY <3>1, <3>2 DEF IInv, ChangesFitCache
  <2>9. ViewsFromCache'
    BY <2>2 DEF ViewsFromCache
  <2> QED
    BY <1>4, <2>6, <2>7, <2>8, <2>9 DEF IInv
<1> QED
  BY <1>5, <1>6

\* What is typed stays so when the backend's history grows.
LEMMA TypesGrow ==
  ASSUME NEW n \in Nat
  PROVE  /\ Tokens(n) \subseteq Tokens(n + 1)
         /\ States(n) \subseteq States(n + 1) /\ Rows(n) \subseteq Rows(n + 1)
         /\ Serves(n) \subseteq Serves(n + 1)
         /\ \A c : IsClient(c, n) => IsClient(c, n + 1)
<1>1. Tokens(n) \subseteq Tokens(n + 1)
  BY DEF Tokens
<1>2. States(n) \subseteq States(n + 1)
  BY <1>1 DEF States
<1>3. Rows(n) \subseteq Rows(n + 1) /\ Serves(n) \subseteq Serves(n + 1)
  BY <1>1 DEF Rows, Serves
<1>4. Requests(n) \subseteq Requests(n + 1)
  BY <1>1 DEF Requests
<1>5. Responses(n) \subseteq Responses(n + 1)
  <2>1. 1 .. n \subseteq 1 .. n + 1
    OBVIOUS
  <2>2. [type : {"Current"}, target : Targets, token : 1 .. n]
          \subseteq [type : {"Current"}, target : Targets, token : 1 .. n + 1]
    BY <2>1
  <2>3. [type : {"NoChange"}, token : 1 .. n] \subseteq [type : {"NoChange"}, token : 1 .. n + 1]
    BY <2>1
  <2> QED
    BY <2>2, <2>3 DEF Responses
<1>6. ASSUME NEW c, IsClient(c, n) PROVE IsClient(c, n + 1)
  <2>1. /\ c = [tokens |-> c.tokens, states |-> c.states, resets |-> c.resets,
                enabled |-> c.enabled, stream |-> c.stream, idle |-> c.idle,
                requests |-> c.requests, responses |-> c.responses]
        /\ IsTable(c.tokens, Tokens(n)) /\ IsTable(c.states, States(n))
        /\ c.resets \in SUBSET Targets /\ c.enabled \in BOOLEAN
        /\ c.stream \in {"Stopped", "Starting", "Open"} /\ c.idle \in BOOLEAN
        /\ c.requests \in Seq(Requests(n)) /\ c.responses \in Seq(Responses(n))
    BY <1>6, ClientIs
  <2>2. IsTable(c.tokens, Tokens(n + 1)) /\ IsTable(c.states, States(n + 1))
    BY <1>1, <1>2, <2>1, TableGrows
  <2>3. c.requests \in Seq(Requests(n + 1)) /\ c.responses \in Seq(Responses(n + 1))
    BY <1>4, <1>5, <2>1, SeqMonotonic
  <2> QED
    BY <2>1, <2>2, <2>3, ClientIs
<1> QED
  BY <1>1, <1>2, <1>3, <1>6

LEMMA DocumentChangesKeeps ==
  ASSUME IInv, DocumentChanges
  PROVE  IInv' /\ (CountInv => CountInv')
<1> DEFINE n == Len(truth)
           M == [Targets -> SUBSET Keys]
<1>1. /\ n \in Nat /\ n < MaxVersions /\ truth \in Seq(M) /\ n \in 1 .. MaxVersions
      /\ UNCHANGED <<cs, views, memory, cache, lastRemote, served, at,
                     listens, disruptions, rejections>>
  BY DEF DocumentChanges, IInv, Typed, Versions, countVars
<1>2. PICK t \in Targets, k \in Keys :
        truth' = Append(truth, [Last(truth) EXCEPT ![t] = IF k \in @ THEN @ \ {k} ELSE @ \cup {k}])
  BY DEF DocumentChanges
<1>3. Last(truth) \in M
  BY <1>1 DEF Last
<1>4. [Last(truth) EXCEPT ![t] = IF k \in @ THEN @ \ {k} ELSE @ \cup {k}] \in M
  BY <1>3
<1>5. truth' \in Seq(M) /\ Len(truth') = n + 1
  BY <1>1, <1>2, <1>4, AppendProperties
<1>6. n + 1 \in Versions
  BY <1>1, WatchConstants DEF Versions, WatchConstants
<1>7. Typed'
  <2>1. /\ IsClient(cs, n) /\ IsTable(views, Views) /\ IsTable(memory, Tokens(n))
        /\ DOMAIN views = DOMAIN cs.tokens /\ DOMAIN memory = DOMAIN cs.tokens
        /\ cache \in [Targets -> Rows(n)] /\ IsTable(served, Serves(n))
        /\ lastRemote \in 0 .. n /\ at \in 1 .. n
        /\ {listens, disruptions, rejections} \subseteq Nat
    BY DEF IInv, Typed
  <2> HIDE DEF n, M
  <2>2. IsClient(cs, n + 1)
    BY <1>1, <2>1, TypesGrow
  <2>3. IsTable(memory, Tokens(n + 1)) /\ IsTable(served, Serves(n + 1))
    BY <1>1, <2>1, TypesGrow, TableGrows
  <2>4. cache \in [Targets -> Rows(n + 1)]
    BY <1>1, <2>1, TypesGrow
  <2>5. lastRemote \in 0 .. n + 1 /\ at \in 1 .. n + 1
    BY <1>1, <2>1
  <2> QED
    BY <1>1, <1>5, <1>6, <2>1, <2>2, <2>3, <2>4, <2>5 DEF Typed, M
<1>8. CallOver(cs)' /\ StreamAsNeeded(cs)' /\ ChangesFitCache' /\ ViewsFromCache'
  BY <1>1 DEF IInv, CallOver, NothingOfCall, StreamAsNeeded, ChangesFitCache, ViewsFromCache
<1>9. CountInv => CountInv'
  BY <1>1 DEF CountInv
<1> QED
  BY <1>7, <1>8, <1>9 DEF IInv

\* A client with only what is on the wire replaced keeps the invariant.
LEMMA WireKeeps ==
  ASSUME IInv, cs.stream = "Open",
         NEW requests \in Seq(Requests(Len(truth))), NEW responses \in Seq(Responses(Len(truth))),
         Rewired(cs, cs', requests, responses),
         UNCHANGED <<views, memory, cache, lastRemote, truth>>,
         IsTable(served', Serves(Len(truth))), at' \in 1 .. Len(truth),
         {listens, disruptions, rejections}' \subseteq Nat
  PROVE  /\ IInv'
         /\ \A t : StateOf(cs', t) = StateOf(cs, t)
         /\ cs'.requests = requests /\ cs'.responses = responses
<1>1. Len(truth) \in Nat /\ IsClient(cs, Len(truth)) /\ StreamAsNeeded(cs)
  BY Types DEF IInv
<1>2. /\ IsClient(cs', Len(truth)) /\ cs'.requests = requests /\ cs'.responses = responses
      /\ cs'.tokens = cs.tokens /\ cs'.states = cs.states
      /\ cs'.enabled = cs.enabled /\ cs'.stream = cs.stream /\ cs'.idle = cs.idle
  BY <1>1, WireReplaced
<1>3. Typed'
  BY <1>2 DEF IInv, Typed
<1>4. CallOver(cs') /\ StreamAsNeeded(cs')
  BY <1>1, <1>2 DEF CallOver, StreamAsNeeded
<1>5. ChangesFitCache' /\ ViewsFromCache'
  BY <1>2 DEF IInv, ChangesFitCache, ViewsFromCache
<1>6. \A t : StateOf(cs', t) = StateOf(cs, t)
  BY <1>2 DEF StateOf
<1> QED
  BY <1>2, <1>3, <1>4, <1>5, <1>6 DEF IInv

\* A client with a request answered.
LEMMA AnswerRewires ==
  ASSUME NEW n, NEW c, IsClient(c, n), NEW m
  PROVE  Rewired(c, [c EXCEPT !.requests = Tail(@), !.responses = Append(@, m)],
                 Tail(c.requests), Append(c.responses, m))
<1>1. c = [tokens |-> c.tokens, states |-> c.states, resets |-> c.resets,
           enabled |-> c.enabled, stream |-> c.stream, idle |-> c.idle,
           requests |-> c.requests, responses |-> c.responses]
  BY ClientIs
<1> QED
  BY <1>1 DEF Rewired

LEMMA ServerTakesRequestKeeps ==
  ASSUME IInv, ServerTakesRequest
  PROVE  IInv' /\ (CountInv => CountInv')
<1> DEFINE n == Len(truth)
           q == Head(cs.requests)
           t == q.target
           rest == Tail(cs.requests)
<1>1. /\ n \in Nat /\ IsClient(cs, n)
      /\ cs.requests \in Seq(Requests(n)) /\ cs.responses \in Seq(Responses(n))
      /\ IsTable(served, Serves(n)) /\ at \in 1 .. n
      /\ truth \in Seq([Targets -> SUBSET Keys])
  BY Types, ClientIs DEF IInv, Typed
<1>2. /\ cs.stream = "Open" /\ cs.requests # <<>>
      /\ UNCHANGED <<views, memory, cache, lastRemote, truth, listens>>
  BY DEF ServerTakesRequest
<1>3. /\ q \in Requests(n) /\ rest \in Seq(Requests(n))
      /\ t \in Targets /\ q.token \in Tokens(n)
  <2>1. q \in Requests(n) /\ rest \in Seq(Requests(n))
    BY <1>1, <1>2
  <2> QED
    BY <2>1 DEF Requests
<1>4. ASSUME NEW m, cs' = [cs EXCEPT !.requests = Tail(@), !.responses = Append(@, m)]
      PROVE  Rewired(cs, cs', rest, Append(cs.responses, m))
  <2>1. Rewired(cs, [cs EXCEPT !.requests = Tail(@), !.responses = Append(@, m)],
                rest, Append(cs.responses, m))
    BY <1>1, AnswerRewires
  <2> QED
    BY <1>4, <2>1
<1>5. \E m \in Responses(n) :
        /\ cs' = [cs EXCEPT !.requests = Tail(@), !.responses = Append(@, m)]
        /\ m.type \in {"Added", "Removed"} \/ (m.type = "Error" /\ m.answers)
        /\ m.target = t
        /\ m.type = "Error" => rejections' # 0
        /\ IsTable(served', Serves(n)) /\ at' \in 1 .. n
        /\ {listens, disruptions, rejections}' \subseteq Nat
        /\ rejections' = 0 => rejections = 0
  <2>1. CASE /\ cs' = [cs EXCEPT !.requests = Tail(@), !.responses = Append(@, [type |-> "Added", target |-> t])]
             /\ served' = Put(served, t,
                 [keys |-> IF q.token = None THEN {} ELSE truth[q.token][t],
                  resumed |-> q.token # None, version |-> None])
             /\ at' = Later(at, q.token)
             /\ UNCHANGED <<disruptions, rejections>>
    <3> DEFINE s == [keys |-> IF q.token = None THEN {} ELSE truth[q.token][t],
                     resumed |-> q.token # None, version |-> None]
    <3>1. [type |-> "Added", target |-> t] \in Responses(n)
      BY <1>3 DEF Responses
    <3>2. s \in Serves(n)
      <4>1. q.token # None => truth[q.token] \in [Targets -> SUBSET Keys]
        BY <1>1, <1>3 DEF None, Tokens
      <4>2. (IF q.token = None THEN {} ELSE truth[q.token][t]) \in SUBSET Keys
        BY <1>3, <4>1
      <4>3. None \in Tokens(n)
        BY <1>1 DEF None, Tokens
      <4> QED
        BY <4>2, <4>3 DEF Serves
    <3> HIDE DEF s, n, t
    <3>3. IsTable(served', Serves(n))
      <4>1. served' = Put(served, t, s)
        BY <2>1 DEF s
      <4>2. IsTable(Put(served, t, s), Serves(n))
        BY <1>1, <1>3, <3>2, PutTable
      <4> QED
        BY <4>1, <4>2
    <3>4. at' \in 1 .. n
      BY <1>1, <1>3, <2>1 DEF Later, Tokens
    <3>5. {listens, disruptions, rejections}' \subseteq Nat
      BY <1>2, <2>1, Counters
    <3> QED
      BY <2>1, <3>1, <3>3, <3>4, <3>5
  <2>2. CASE /\ Reject
             /\ cs' = [cs EXCEPT !.requests = Tail(@),
                                 !.responses = Append(@, [type |-> "Error", target |-> t, answers |-> TRUE])]
             /\ UNCHANGED <<served, at>>
    <3>1. [type |-> "Error", target |-> t, answers |-> TRUE] \in Responses(n)
      BY <1>3 DEF Responses
    <3>2. {listens, disruptions, rejections}' \subseteq Nat /\ rejections' # 0
      BY <1>2, <2>2, Counters
    <3> HIDE DEF n, t
    <3> QED
      BY <1>1, <2>2, <3>1, <3>2
  <2>3. CASE /\ cs' = [cs EXCEPT !.requests = Tail(@), !.responses = Append(@, [type |-> "Removed", target |-> t])]
             /\ served' = Without(served, t)
             /\ UNCHANGED <<at, disruptions, rejections>>
    <3>1. [type |-> "Removed", target |-> t] \in Responses(n)
      BY <1>3 DEF Responses
    <3> HIDE DEF n, t
    <3>2. IsTable(served', Serves(n))
      BY <1>1, <2>3, WithoutTable
    <3>3. {listens, disruptions, rejections}' \subseteq Nat
      BY <1>2, <2>3, Counters
    <3> QED
      BY <1>1, <2>3, <3>1, <3>2, <3>3
  <2> QED
    BY <2>1, <2>2, <2>3 DEF ServerTakesRequest
<1>6. PICK m \in Responses(n) :
        /\ Rewired(cs, cs', rest, Append(cs.responses, m))
        /\ Answers(m) /\ m.target = t
        /\ m.type = "Error" => rejections' # 0
        /\ IsTable(served', Serves(n)) /\ at' \in 1 .. n
        /\ {listens, disruptions, rejections}' \subseteq Nat
        /\ rejections' = 0 => rejections = 0
  <2> HIDE DEF n, t, rest
  <2> QED
    BY <1>4, <1>5 DEF Answers
<1> DEFINE responses == Append(cs.responses, m)
<1>7. responses \in Seq(Responses(n)) /\ DOMAIN responses = 1 .. Len(cs.responses) + 1
      /\ (\A i \in 1 .. Len(cs.responses) : responses[i] = cs.responses[i])
      /\ responses[Len(cs.responses) + 1] = m
  BY <1>1, AppendProperties
<1> HIDE DEF responses, rest
<1>8. /\ IInv' /\ \A u : StateOf(cs', u) = StateOf(cs, u)
      /\ cs'.requests = rest /\ cs'.responses = responses
  BY <1>2, <1>3, <1>6, <1>7, WireKeeps DEF responses
<1>9. ASSUME CountInv, rejections' = 0
      PROVE  /\ \A i \in DOMAIN cs'.responses : cs'.responses[i].type # "Error"
             /\ \A u \in Targets : StateOf(cs', u).outstanding = UnderWay(cs', u)
  <2>1. rejections = 0 /\ m.type # "Error"
    BY <1>6, <1>9
  <2>2. /\ \A i \in DOMAIN cs.responses : cs.responses[i].type # "Error"
        /\ \A u \in Targets : StateOf(cs, u).outstanding = UnderWay(cs, u)
    BY <1>9, <2>1 DEF CountInv
  <2>3. ASSUME NEW i \in DOMAIN cs'.responses PROVE cs'.responses[i].type # "Error"
    <3>1. i \in 1 .. Len(cs.responses) + 1 /\ cs'.responses[i] = responses[i]
      BY <1>7, <1>8
    <3>2. Len(cs.responses) \in Nat /\ DOMAIN cs.responses = 1 .. Len(cs.responses)
      BY <1>1
    <3>3. CASE i = Len(cs.responses) + 1
      BY <1>7, <2>1, <3>1, <3>3
    <3>4. CASE i # Len(cs.responses) + 1
      <4>1. i \in 1 .. Len(cs.responses)
        BY <3>1, <3>2, <3>4
      <4> QED
        BY <1>7, <2>2, <3>1, <3>2, <4>1
    <3> QED
      BY <3>3, <3>4
  <2>4. ASSUME NEW u \in Targets PROVE UnderWay(cs', u) = UnderWay(cs, u)
    <3> DEFINE R == RequestsFor(n, u)
               A == AnswersFor(n, u)
    <3>1. /\ RequestsOf(cs.requests, u) = Places(cs.requests, R)
          /\ RequestsOf(rest, u) = Places(rest, R)
          /\ AnswersOf(cs.responses, u) = Places(cs.responses, A)
          /\ AnswersOf(responses, u) = Places(responses, A)
      BY <1>1, <1>3, <1>7, UnderWayPlaces DEF rest
    <3>2. (q \in R <=> t = u) /\ (m \in A <=> t = u)
      BY <1>3, <1>6 DEF RequestsFor, AnswersFor
    <3> HIDE DEF R, A
    <3>3. Cardinality(Places(rest, R)) = Cardinality(Places(cs.requests, R)) - (IF q \in R THEN 1 ELSE 0)
      BY <1>1, <1>2, PlacesTail DEF rest
    <3>4. Cardinality(Places(responses, A)) =
            Cardinality(Places(cs.responses, A)) + (IF m \in A THEN 1 ELSE 0)
      BY <1>1, <1>6, PlacesAppend DEF responses
    <3>5. /\ Cardinality(RequestsOf(cs.requests, u)) \in Nat
          /\ Cardinality(AnswersOf(cs.responses, u)) \in Nat
      BY <1>1, UnderWayNat
    <3> HIDE DEF q, t
    <3> QED
      BY <1>8, <3>1, <3>2, <3>3, <3>4, <3>5 DEF UnderWay
  <2> QED
    BY <1>8, <2>2, <2>3, <2>4
<1> QED
  BY <1>8, <1>9 DEF CountInv

\* The elements of a concatenation are those of its parts.
Either(s, a, b) ==
  \A i \in DOMAIN s : \/ \E j \in DOMAIN a : s[i] = a[j]
                      \/ \E j \in 1 .. Len(b) : s[i] = b[j]

LEMMA InEitherPart ==
  ASSUME NEW M, NEW a \in Seq(M), NEW b \in Seq(M)
  PROVE  a \o b \in Seq(M) /\ Either(a \o b, a, b)
<1> SUFFICES ASSUME NEW i \in DOMAIN (a \o b)
             PROVE  \/ \E j \in DOMAIN a : (a \o b)[i] = a[j]
                    \/ \E j \in 1 .. Len(b) : (a \o b)[i] = b[j]
  BY DEF Either
<1>1. /\ Len(a) \in Nat /\ Len(b) \in Nat /\ i \in 1 .. Len(a) + Len(b)
      /\ DOMAIN a = 1 .. Len(a)
  OBVIOUS
<1>2. CASE i <= Len(a)
  <2>1. i \in DOMAIN a /\ (a \o b)[i] = a[i]
    BY <1>1, <1>2
  <2> QED
    BY <2>1
<1>3. CASE i > Len(a)
  <2>1. i - Len(a) \in 1 .. Len(b) /\ (a \o b)[i] = b[i - Len(a)]
    BY <1>1, <1>3
  <2> QED
    BY <2>1
<1> QED
  BY <1>1, <1>2, <1>3

\* What the backend sends unasked comes after the responses under way.
LEMMA RespondRewires ==
  ASSUME NEW n, IsClient(cs, n), NEW more, Respond(more)
  PROVE  Rewired(cs, cs', cs.requests, cs.responses \o more)
<1>1. cs = [tokens |-> cs.tokens, states |-> cs.states, resets |-> cs.resets,
            enabled |-> cs.enabled, stream |-> cs.stream, idle |-> cs.idle,
            requests |-> cs.requests, responses |-> cs.responses]
  BY ClientIs
<1> QED
  BY <1>1 DEF Respond, Rewired

\* What the backend sends unasked keeps the invariant, unless it rejects a target.
LEMMA RespondKeeps ==
  ASSUME IInv, cs.stream = "Open",
         NEW more \in Seq(Responses(Len(truth))), Respond(more),
         \A i \in 1 .. Len(more) : ~Answers(more[i]) /\ (more[i].type = "Error" => rejections' # 0),
         UNCHANGED <<views, memory, cache, lastRemote, truth>>,
         IsTable(served', Serves(Len(truth))), at' \in 1 .. Len(truth),
         {listens, disruptions, rejections}' \subseteq Nat,
         rejections' = 0 => rejections = 0
  PROVE  IInv' /\ (CountInv => CountInv')
<1> DEFINE n == Len(truth)
           responses == cs.responses \o more
<1>1. /\ n \in Nat /\ IsClient(cs, n)
      /\ cs.requests \in Seq(Requests(n)) /\ cs.responses \in Seq(Responses(n))
  BY Types, ClientIs
<1>2. responses \in Seq(Responses(n)) /\ Either(responses, cs.responses, more)
  BY <1>1, InEitherPart
<1> HIDE DEF responses
<1>3. /\ IInv' /\ \A u : StateOf(cs', u) = StateOf(cs, u)
      /\ cs'.requests = cs.requests /\ cs'.responses = responses
  <2>1. Rewired(cs, cs', cs.requests, responses)
    BY <1>1, RespondRewires DEF responses
  <2> QED
    BY <1>1, <1>2, <2>1, WireKeeps
<1>4. ASSUME CountInv, rejections' = 0
      PROVE  /\ \A i \in DOMAIN cs'.responses : cs'.responses[i].type # "Error"
             /\ \A u \in Targets : StateOf(cs', u).outstanding = UnderWay(cs', u)
  <2>1. rejections = 0
    BY <1>4
  <2>2. /\ \A i \in DOMAIN cs.responses : cs.responses[i].type # "Error"
        /\ \A u \in Targets : StateOf(cs, u).outstanding = UnderWay(cs, u)
    BY <1>4, <2>1 DEF CountInv
  <2>3. ASSUME NEW i \in DOMAIN cs'.responses PROVE cs'.responses[i].type # "Error"
    <3>1. cs'.responses[i] = responses[i]
      BY <1>3
    <3>2. \/ \E j \in DOMAIN cs.responses : responses[i] = cs.responses[j]
          \/ \E j \in 1 .. Len(more) : responses[i] = more[j]
      BY <1>2, <1>3, Zenon DEF Either
    <3> QED
      BY <1>4, <2>2, <3>1, <3>2, Zenon
  <2>4. ASSUME NEW u \in Targets PROVE UnderWay(cs', u) = UnderWay(cs, u)
    <3> DEFINE A == AnswersFor(n, u)
    <3>1. /\ AnswersOf(cs.responses, u) = Places(cs.responses, A)
          /\ AnswersOf(responses, u) = Places(responses, A)
      BY <1>1, <1>2, UnderWayPlaces
    <3>2. Places(more, A) = {}
      BY DEF Places, AnswersFor
    <3> HIDE DEF A
    <3>3. Cardinality(Places(responses, A)) =
            Cardinality(Places(cs.responses, A)) + Cardinality(Places(more, A))
      BY <1>1, PlacesConcat DEF responses
    <3>4. Cardinality(Places(more, A)) = 0
      BY <3>2, FS_EmptySet
    <3>5. Cardinality(AnswersOf(cs.responses, u)) \in Nat
      BY <1>1, UnderWayNat
    <3> QED
      BY <1>3, <3>1, <3>3, <3>4, <3>5 DEF UnderWay
  <2> QED
    BY <1>3, <2>2, <2>3, <2>4
<1> QED
  BY <1>3, <1>4 DEF CountInv

LEMMA ServerRemovesTargetKeeps ==
  ASSUME IInv, ServerRemovesTarget
  PROVE  IInv' /\ (CountInv => CountInv')
<1> DEFINE n == Len(truth)
<1>1. PICK t \in DOMAIN served :
        /\ Respond(<<[type |-> "Error", target |-> t, answers |-> FALSE]>>)
        /\ served' = Without(served, t)
  BY DEF ServerRemovesTarget
<1>2. /\ cs.stream = "Open" /\ Reject
      /\ UNCHANGED <<views, memory, cache, lastRemote, truth, at, listens>>
  BY DEF ServerRemovesTarget
<1>3. IsTable(served, Serves(n)) /\ at \in 1 .. n /\ t \in Targets
  BY DEF IInv, Typed, IsTable
<1> DEFINE m == [type |-> "Error", target |-> t, answers |-> FALSE]
           more == <<m>>
<1>4. m \in Responses(n) /\ ~Answers(m)
  BY <1>3 DEF Responses, Answers
<1>5. IsTable(served', Serves(n))
  BY <1>1, <1>3, WithoutTable
<1>6. {listens, disruptions, rejections}' \subseteq Nat /\ rejections' # 0
  BY <1>2, Counters
<1>7. Respond(more)
  BY <1>1
<1> HIDE DEF m
<1>8. /\ more \in Seq(Responses(n))
      /\ \A i \in 1 .. Len(more) : more[i] = m
  BY <1>4
<1> HIDE DEF more
<1> QED
  BY <1>2, <1>3, <1>4, <1>5, <1>6, <1>7, <1>8, RespondKeeps

\* What the backend sends to bring a target to a version: neither answers nor errors.
Passive(n) == {m \in Responses(n) : ~Answers(m) /\ m.type # "Error"}

LEMMA MessagesArePassive ==
  ASSUME NEW n, NEW type \in {"Document", "Delete"}, NEW t \in Targets, NEW keys \in SUBSET Keys
  PROVE  Messages(type, t, keys) \in Seq(Passive(n))
<1> DEFINE N == Cardinality(keys)
           s == Messages(type, t, keys)
<1>1. N \in Nat /\ SetToSeq(keys) \in [1 .. N -> keys]
  BY FS_Subset, SetListed, WatchConstants DEF WatchConstants
<1>2. s = [i \in 1 .. N |-> [type |-> type, target |-> t, key |-> SetToSeq(keys)[i]]]
  BY DEF Messages
<1>3. \A k \in Keys : [type |-> type, target |-> t, key |-> k] \in Passive(n)
  BY DEF Passive, Responses, Answers
<1> HIDE DEF N, s
<1>4. s \in [1 .. N -> Passive(n)]
  BY <1>1, <1>2, <1>3
<1> QED
  BY <1>1, <1>4 DEF s

LEMMA UpdatesArePassive ==
  ASSUME IInv, NEW v \in 1 .. Len(truth), NEW t \in DOMAIN served, NEW u \in Updates(t, v)
  PROVE  u \in Seq(Passive(Len(truth)))
<1> DEFINE P == Passive(Len(truth))
           old == served[t].keys
           new == truth[v][t]
           gone == old \ new
           touched == IF Modifications THEN SUBSET (old \cap new) ELSE {{}}
           changes(also, removed) ==
             Messages("Document", t, (new \ old) \cup also) \o Messages("Delete", t, removed)
           filter(bloom) == <<[type |-> "Filter", target |-> t, count |-> Cardinality(new), bloom |-> bloom]>>
           reset == <<[type |-> "Reset", target |-> t]>> \o Messages("Document", t, new)
           claimed == IF Collisions THEN SUBSET gone ELSE {{}}
<1>1. t \in Targets /\ old \in SUBSET Keys /\ new \in SUBSET Keys
  <2>1. t \in Targets /\ served[t] \in Serves(Len(truth)) /\ truth \in Seq([Targets -> SUBSET Keys])
    BY DEF IInv, Typed, IsTable
  <2>2. truth[v] \in [Targets -> SUBSET Keys]
    BY <2>1
  <2> QED
    BY <2>1, <2>2 DEF Serves
<1>2. Cardinality(new) \in Nat
  BY <1>1, FS_Subset, FS_CardinalityType, WatchConstants DEF WatchConstants
<1>3. (\A m \in touched : m \in SUBSET old) /\ (\A p \in claimed : p \in SUBSET old)
  OBVIOUS
<1>4. ASSUME NEW m \in SUBSET old, NEW r \in SUBSET gone PROVE changes(m, r) \in Seq(P)
  <2>1. /\ (new \ old) \cup m \in SUBSET Keys /\ r \in SUBSET Keys
        /\ "Document" \in {"Document", "Delete"} /\ "Delete" \in {"Document", "Delete"}
    BY <1>1
  <2>2. /\ Messages("Document", t, (new \ old) \cup m) \in Seq(P)
        /\ Messages("Delete", t, r) \in Seq(P)
    BY <1>1, <2>1, MessagesArePassive
  <2> HIDE DEF P, old, new, gone
  <2> QED
    BY <2>2
<1>5. ASSUME NEW b \in SUBSET (Keys \cup NoBloom) PROVE filter(b) \in Seq(P)
  <2>1. [type |-> "Filter", target |-> t, count |-> Cardinality(new), bloom |-> b] \in P
    BY <1>1, <1>2 DEF Passive, Responses, Answers
  <2> HIDE DEF P, new
  <2> QED
    BY <2>1
<1>6. reset \in Seq(P)
  <2>1. [type |-> "Reset", target |-> t] \in P
    BY <1>1 DEF Passive, Responses, Answers
  <2>2. Messages("Document", t, new) \in Seq(P)
    BY <1>1, MessagesArePassive
  <2> HIDE DEF P, new
  <2>3. <<[type |-> "Reset", target |-> t]>> \in Seq(P)
    BY <2>1
  <2> QED
    BY <2>2, <2>3
<1> DEFINE ByChanges == {changes(m, gone) : m \in touched}
           Unfiltered == {changes(m, r) \o filter(NoBloom) : m \in touched, r \in SUBSET gone}
           ByBloom(m, r) == {changes(m, r) \o filter(((old \cap new) \ m) \cup p) : p \in claimed}
           Filtered == UNION {ByBloom(m, r) : m \in touched, r \in SUBSET gone}
           without == \/ ~served[t].resumed \/ served[t].version # None
                      \/ ~SplitResets /\ v < lastRemote
<1>7. u \in ByChanges \/ u = reset \/ u \in Unfiltered \/ u \in Filtered
  <2>1. Updates(t, v) = ByChanges \cup {reset} \cup IF without THEN {} ELSE Unfiltered \cup Filtered
    BY SMTT(30) DEF Updates
  <2> HIDE DEF ByChanges, reset, Unfiltered, Filtered, without
  <2>2. CASE without
    <3>1. u \in ByChanges \cup {reset} \cup {}
      BY <2>1, <2>2, Zenon
    <3> QED
      BY <3>1, Zenon
  <2>3. CASE ~without
    <3>1. u \in ByChanges \cup {reset} \cup (Unfiltered \cup Filtered)
      BY <2>1, <2>3, Zenon
    <3> QED
      BY <3>1, Zenon
  <2> QED
    BY <2>2, <2>3
<1>8. ASSUME NEW m \in SUBSET old, NEW r \in SUBSET gone, NEW b \in SUBSET (Keys \cup NoBloom)
      PROVE  changes(m, r) \o filter(b) \in Seq(P)
  <2>1. changes(m, r) \in Seq(P) /\ filter(b) \in Seq(P)
    BY <1>4, <1>5
  <2> HIDE DEF P, changes, filter
  <2> QED
    BY <2>1
<1>9. NoBloom \in SUBSET (Keys \cup NoBloom)
  OBVIOUS
<1>10. \A m \in SUBSET old, p \in SUBSET old :
         ((old \cap new) \ m) \cup p \in SUBSET (Keys \cup NoBloom)
  BY <1>1
<1>11. gone \in SUBSET gone
  OBVIOUS
<1> HIDE DEF P, old, new, gone, touched, changes, filter, reset, claimed
<1>12. CASE u \in ByChanges
  <2>1. PICK m \in touched : u = changes(m, gone)
    BY <1>12
  <2> QED
    BY <1>3, <1>4, <1>11, <2>1 DEF P
<1>13. CASE u \in Unfiltered
  <2>1. PICK m \in touched, r \in SUBSET gone : u = changes(m, r) \o filter(NoBloom)
    BY <1>13
  <2> QED
    BY <1>3, <1>8, <1>9, <2>1 DEF P
<1>14. CASE u \in Filtered
  <2>1. PICK m \in touched, r \in SUBSET gone : u \in ByBloom(m, r)
    <3> HIDE DEF ByBloom
    <3> QED
      BY <1>14
  <2>2. PICK p \in claimed : u = changes(m, r) \o filter(((old \cap new) \ m) \cup p)
    BY <2>1
  <2>3. ((old \cap new) \ m) \cup p \in SUBSET (Keys \cup NoBloom)
    BY <1>3, <1>10
  <2> QED
    BY <1>3, <1>8, <2>2, <2>3 DEF P
<1> QED
  <2> HIDE DEF ByChanges, Unfiltered, Filtered
  <2> QED
    BY <1>6, <1>7, <1>12, <1>13, <1>14 DEF P

LEMMA ServerCatchesUpKeeps ==
  ASSUME IInv, ServerCatchesUp
  PROVE  IInv' /\ (CountInv => CountInv')
<1> DEFINE n == Len(truth)
           P == Passive(n)
           D == DOMAIN served
           current(update, v, t) ==
             IF served[t].version # None /\ (update[t] = <<>> \/ Head(update[t]).type # "Reset")
             THEN <<>> ELSE <<[type |-> "Current", target |-> t, token |-> v]>>
           seqs(update, v) == [t \in D |-> update[t] \o current(update, v, t)]
           more(update, v) == Append(InSomeOrder(seqs(update, v)), [type |-> "NoChange", token |-> v])
<1>1. PICK v \in at .. n :
        /\ \E update \in [D -> UNION {Updates(t, v) : t \in D}] :
             /\ \A t \in D : update[t] \in Updates(t, v)
             /\ Respond(more(update, v))
        /\ served' = [t \in D |-> [keys |-> truth[v][t], resumed |-> served[t].resumed, version |-> v]]
        /\ at' = v
  BY DEF ServerCatchesUp
<1>2. PICK update : /\ \A t \in D : update[t] \in Updates(t, v)
                    /\ Respond(more(update, v))
  BY <1>1
<1>3. /\ cs.stream = "Open"
      /\ UNCHANGED <<views, memory, cache, lastRemote, truth, listens, disruptions, rejections>>
  BY DEF ServerCatchesUp, countVars
<1>4. /\ n \in Nat /\ truth \in Seq([Targets -> SUBSET Keys])
      /\ IsTable(served, Serves(n)) /\ at \in 1 .. n
  BY Types DEF IInv, Typed
<1>5. v \in 1 .. n /\ D \subseteq Targets /\ IsFiniteSet(D)
  <2>1. D \subseteq Targets
    BY <1>4 DEF IsTable
  <2>2. IsFiniteSet(D)
    BY <2>1, FS_Subset, WatchConstants DEF WatchConstants
  <2> QED
    BY <1>1, <1>4, <2>1, <2>2
<1>6. IsTable(served', Serves(n)) /\ at' \in 1 .. n
  <2>1. truth[v] \in [Targets -> SUBSET Keys]
    BY <1>4, <1>5
  <2>2. ASSUME NEW t \in D
        PROVE  [keys |-> truth[v][t], resumed |-> served[t].resumed, version |-> v] \in Serves(n)
    BY <1>4, <1>5, <2>1 DEF IsTable, Serves, Tokens
  <2>3. DOMAIN served' = D
    BY <1>1
  <2>4. served' \in [D -> Serves(n)]
    <3> HIDE DEF D, n
    <3> QED
      BY <1>1, <2>2
  <2> QED
    BY <1>1, <1>5, <2>3, <2>4 DEF IsTable
<1>7. \A t \in D : update[t] \in Seq(P) /\ current(update, v, t) \in Seq(P)
  <2> SUFFICES ASSUME NEW t \in D
               PROVE  update[t] \in Seq(P) /\ current(update, v, t) \in Seq(P)
    OBVIOUS
  <2>1. update[t] \in Seq(P)
    BY <1>2, <1>5, UpdatesArePassive
  <2>2. [type |-> "Current", target |-> t, token |-> v] \in P
    BY <1>5 DEF Passive, Responses, Answers
  <2>3. current(update, v, t) \in Seq(P)
    <3> HIDE DEF P
    <3> QED
      BY <2>2
  <2> QED
    BY <2>1, <2>3
<1>8. seqs(update, v) \in [D -> Seq(P)]
  <2> HIDE DEF P, D, current
  <2>1. \A t \in D : update[t] \o current(update, v, t) \in Seq(P)
    BY <1>7
  <2> QED
    BY <2>1
<1>9. InSomeOrder(seqs(update, v)) \in Seq(P)
  <2> HIDE DEF P, D, seqs
  <2> QED
    BY <1>5, <1>8, InOrder
<1>10. more(update, v) \in Seq(P)
  <2>1. [type |-> "NoChange", token |-> v] \in P
    BY <1>5 DEF Passive, Responses, Answers
  <2> HIDE DEF P, seqs
  <2> QED
    BY <1>9, <2>1
<1>11. P \subseteq Responses(n) /\ \A m \in P : ~Answers(m) /\ m.type # "Error"
  BY DEF Passive
<1> HIDE DEF P, more
<1>12. /\ more(update, v) \in Seq(Responses(n))
       /\ \A i \in 1 .. Len(more(update, v)) : more(update, v)[i] \in P
  BY <1>10, <1>11, SeqMonotonic
<1>13. {listens, disruptions, rejections}' \subseteq Nat
  BY <1>3, Counters
<1> QED
  BY <1>2, <1>3, <1>6, <1>11, <1>12, <1>13, RespondKeeps

-----------------------------------------------------------------------------
\* The invariant holds from the start and through every step.
LEMMA InitHolds ==
  ASSUME Init
  PROVE  IInv /\ CountInv
<1>1. PICK w \in [Targets -> SUBSET Keys] : truth = <<w>>
  BY DEF Init
<1>2. truth \in Seq([Targets -> SUBSET Keys]) /\ Len(truth) = 1
  <2> DEFINE M == [Targets -> SUBSET Keys]
  <2> HIDE DEF M
  <2>1. w \in M
    BY DEF M
  <2>2. <<w>> \in Seq(M) /\ Len(<<w>>) = 1
    BY <2>1
  <2> QED
    BY <1>1, <2>2 DEF M
<1>3. /\ cs = NewClient /\ views = <<>> /\ memory = <<>> /\ served = <<>>
      /\ cache = [t \in Targets |-> [token |-> None, keys |-> {}]]
      /\ lastRemote = None /\ at = 1
      /\ listens = 0 /\ disruptions = 0 /\ rejections = 0
  BY DEF Init
<1>4. 1 \in Nat /\ 1 \in Versions
  BY WatchConstants DEF WatchConstants, Versions
<1>5. Sound(cs, 1) /\ NothingOfCall(cs) /\ DOMAIN cs.tokens = {}
  BY <1>3, <1>4, NewClientIs
<1>6. Typed
  <2>1. cache \in [Targets -> Rows(1)]
    BY <1>3 DEF Rows, Tokens, None
  <2>2. lastRemote \in 0 .. 1 /\ at \in 1 .. 1 /\ {listens, disruptions, rejections} \subseteq Nat
    BY <1>3 DEF None
  <2> QED
    BY <1>2, <1>3, <1>4, <1>5, <2>1, <2>2, EmptyTable DEF Typed, Sound
<1>7. ChangesFitCache /\ ViewsFromCache
  BY <1>3, <1>5, EmptyTable DEF ChangesFitCache, ViewsFromCache, NothingOfCall
<1>8. CountInv
  BY <1>5, NothingIsCounted DEF CountInv
<1> QED
  BY <1>5, <1>6, <1>7, <1>8 DEF IInv, Sound

LEMMA StutterKeeps ==
  ASSUME IInv, UNCHANGED vars
  PROVE  IInv' /\ (CountInv => CountInv')
<1>1. UNCHANGED <<cs, views, memory, cache, lastRemote, truth, served, at,
                  listens, disruptions, rejections>>
  BY DEF vars, serverVars, countVars
<1>2. Typed'
  BY <1>1 DEF IInv, Typed
<1>3. CallOver(cs)' /\ StreamAsNeeded(cs)' /\ ChangesFitCache' /\ ViewsFromCache'
  BY <1>1 DEF IInv, CallOver, NothingOfCall, StreamAsNeeded, ChangesFitCache, ViewsFromCache
<1>4. CountInv => CountInv'
  BY <1>1 DEF CountInv
<1> QED
  BY <1>2, <1>3, <1>4 DEF IInv

LEMMA NextKeeps ==
  ASSUME IInv, [Next]_vars
  PROVE  IInv' /\ (CountInv => CountInv')
<1>1. ASSUME NEW t \in Targets, Listen(t) PROVE IInv' /\ (CountInv => CountInv')
  BY <1>1, ListenKeeps
<1>2. ASSUME NEW t \in Targets, StopListening(t) PROVE IInv' /\ (CountInv => CountInv')
  BY <1>2, StopListeningKeeps
<1>3. CASE \/ DisableNetwork \/ EnableNetwork \/ RestartNetwork \/ ConnectionLost \/ IdleTimeout
  BY <1>3, CallEndsKeeps
<1>4. CASE Crash
  BY <1>4, CrashKeeps
<1>5. CASE StreamOpens
  BY <1>5, StreamOpensKeeps
<1>6. CASE ReceiveChange
  BY <1>6, ReceiveChangeKeeps
<1>7. CASE ReceiveTargetError
  BY <1>7, ReceiveTargetErrorKeeps
<1>8. CASE DocumentChanges
  BY <1>8, DocumentChangesKeeps
<1>9. CASE ServerTakesRequest
  BY <1>9, ServerTakesRequestKeeps
<1>10. CASE ServerRemovesTarget
  BY <1>10, ServerRemovesTargetKeeps
<1>11. CASE ServerCatchesUp
  BY <1>11, ServerCatchesUpKeeps
<1>12. CASE UNCHANGED vars
  BY <1>12, StutterKeeps
<1> QED
  BY <1>1, <1>2, <1>3, <1>4, <1>5, <1>6, <1>7, <1>8, <1>9, <1>10, <1>11, <1>12 DEF Next

\* What RemoteStore, SyncEngine, LocalStore and the aggregator keep, through every order
\* of calls, responses, lost connections and crashes, and until a target is rejected the
\* count of what is under way.
THEOREM WatchInductive == Spec => [](IInv /\ CountInv)
<1>1. Init => IInv /\ CountInv
  BY InitHolds
<1>2. IInv /\ CountInv /\ [Next]_vars => (IInv /\ CountInv)'
  BY NextKeeps
<1> QED
  BY <1>1, <1>2, PTL DEF Spec

\* The tables of listened targets that RemoteStore, SyncEngine and LocalStore keep apart
\* list the same targets, and all they hold is in its type.
THEOREM WatchTypeOK == Spec => []TypeOK
<1>1. IInv => TypeOK
  <2> SUFFICES ASSUME IInv PROVE TypeOK
    OBVIOUS
  <2>1. /\ IsClient(cs, Len(truth)) /\ IsTable(views, Views) /\ IsTable(memory, Tokens(Len(truth)))
        /\ DOMAIN views = DOMAIN cs.tokens /\ DOMAIN memory = DOMAIN cs.tokens
        /\ cache \in [Targets -> Rows(Len(truth))]
        /\ lastRemote \in 0 .. Len(truth) /\ at \in 1 .. Len(truth)
        /\ truth \in Seq([Targets -> SUBSET Keys]) /\ Len(truth) \in Versions
        /\ DOMAIN served \subseteq Targets
    BY DEF IInv, Typed, IsTable
  <2>2. Tokens(Len(truth)) \subseteq 0 .. MaxVersions
    BY <2>1, WatchConstants DEF Tokens, Versions, WatchConstants
  <2>3. /\ IsTable(cs.tokens, Tokens(Len(truth))) /\ IsTable(cs.states, States(Len(truth)))
        /\ cs.resets \in SUBSET Targets /\ cs.enabled \in BOOLEAN /\ cs.idle \in BOOLEAN
        /\ cs.stream \in {"Stopped", "Starting", "Open"}
    BY <2>1, ClientIs
  <2>4. ASSUME NEW t \in DOMAIN cs.tokens
        PROVE  /\ cs.tokens[t] \in 0 .. MaxVersions /\ memory[t] \in 0 .. MaxVersions
               /\ views[t] \in [synced : SUBSET Keys, current : BOOLEAN]
    BY <2>1, <2>2, <2>3 DEF IsTable, Views
  <2>5. ASSUME NEW t \in DOMAIN cs.states PROVE cs.states[t] \in TargetStates
    <3>1. States(Len(truth)) \subseteq TargetStates
      BY <2>2 DEF States, Changes, TargetStates
    <3> QED
      BY <2>3, <3>1 DEF IsTable
  <2>6. cache \in [Targets -> [token : 0 .. MaxVersions, keys : SUBSET Keys]]
    <3>1. Rows(Len(truth)) \subseteq [token : 0 .. MaxVersions, keys : SUBSET Keys]
      BY <2>2 DEF Rows
    <3> QED
      BY <2>1, <3>1
  <2>7. DOMAIN cs.tokens \subseteq Targets /\ DOMAIN cs.states \subseteq Targets
    BY <2>3 DEF IsTable
  <2> QED
    BY <2>1, <2>3, <2>4, <2>5, <2>6, <2>7 DEF TypeOK
<1> QED
  BY <1>1, WatchInductive, PTL

\* StartWatchStream, StopListening's idle timer and OnWatchStreamClose leave no listened
\* target without a stream while the network is allowed.
THEOREM ListenedTargetsServed == Spec => []ListenedTargetsHaveStream
<1>1. IInv => ListenedTargetsHaveStream
  BY DEF IInv, StreamAsNeeded, ListenedTargetsHaveStream
<1> QED
  BY <1>1, WatchInductive, PTL

\* The aggregator never gives SyncEngine a change its view cannot take: AddDocumentToTarget
\* and RemoveDocumentFromTarget ask for the synced documents as they will be when the
\* snapshot is raised, whatever is listened to, reset or lost in between.
THEOREM GatheredChangesApply == Spec => []ChangesApplyToView
<1>1. IInv => ChangesApplyToView
  <2> SUFFICES ASSUME IInv, NEW t \in DOMAIN cs.states, IsActive(cs, t)
               PROVE  /\ KeysWith(cs.states[t], "Added") \cap views[t].synced = {}
                      /\ KeysWith(cs.states[t], "Modified") \subseteq views[t].synced
                      /\ KeysWith(cs.states[t], "Removed") \subseteq views[t].synced
    BY DEF ChangesApplyToView
  <2>1. t \in DOMAIN views
    BY Types DEF IsActive
  <2>2. views[t].synced = cache[t].keys
    BY <2>1 DEF IInv, ViewsFromCache
  <2> QED
    BY <2>2 DEF IInv, ChangesFitCache, Fits
<1> QED
  BY <1>1, WatchInductive, PTL

\* Until the backend rejects a target, RecordPendingTargetRequest and
\* RecordTargetResponse agree with what is on the wire.
THEOREM OutstandingCounted == Spec => [](rejections = 0 => OutstandingResponsesCounted)
<1>1. IInv /\ CountInv => (rejections = 0 => OutstandingResponsesCounted)
  BY DEF CountInv, UnderWay, RequestsOf, AnswersOf, Answers, OutstandingResponsesCounted
<1> QED
  BY <1>1, WatchInductive, PTL
=============================================================================
