------------------------------ MODULE Induction ------------------------------
(***************************************************************************)
(* Induction over the natural numbers, stated with a set in the place of a *)
(* predicate, and what follows from it for the loops that the models write *)
(* as functions on 0..n and for FlattenSeq.                                *)
(***************************************************************************)
EXTENDS Integers, SequencesExt, SequenceTheorems, WellFoundedInduction, TLAPS

\* A set that has 0 and with every number the next one has all numbers.  The loops
\* of the code (over locations, tokens, statements, lines) are proved with it.
LEMMA SetInduction ==
  ASSUME NEW S, 0 \in S, \A n \in Nat : n \in S => n + 1 \in S
  PROVE  Nat \subseteq S
<1> SUFFICES ASSUME Nat \ S # {} PROVE FALSE
  OBVIOUS
<1> DEFINE R == OpToRel(<, Nat)
<1>1. IsWellFoundedOn(R, Nat)
  BY NatLessThanWellFounded
<1>2. \A a, b \in Nat : a < b => <<a, b>> \in R
  BY DEF OpToRel
<1> HIDE DEF R
<1>3. PICK x \in Nat \ S : \A y \in Nat \ S : ~ (<<y, x>> \in R)
  BY <1>1, WFMin
<1>4. x # 0 /\ x - 1 \in Nat /\ x - 1 < x /\ x = (x - 1) + 1
  BY <1>3
<1>5. x - 1 \in S
  BY <1>2, <1>3, <1>4
<1> QED
  BY <1>3, <1>4, <1>5

\* The same up to a bound: a loop that has made n turns.
LEMMA BoundedInduction ==
  ASSUME NEW N \in Nat, NEW S, 0 \in S, \A n \in 1..N : n - 1 \in S => n \in S
  PROVE  0..N \subseteq S
<1> DEFINE T == {n \in Nat : n <= N => n \in S}
<1>1. 0 \in T
  OBVIOUS
<1>2. ASSUME NEW n \in Nat, n \in T PROVE n + 1 \in T
  <2>1. n + 1 <= N => n + 1 \in 1..N /\ (n + 1) - 1 = n /\ n <= N
    OBVIOUS
  <2> QED
    BY <1>2, <2>1
<1> HIDE DEF T
<1>3. Nat \subseteq T
  BY <1>1, <1>2, SetInduction
<1> QED
  BY <1>3 DEF T

\* f gives the values of a loop that starts from a: one in V after each of N turns.
IsLoop(f, N, V, a, G) ==
  f \in [0..N -> V] /\ f[0] = a /\ \A n \in 1..N : f[n] = G[n][f[n - 1]]

\* A loop that starts from a and makes G[n][v] of v in its n-th turn has a value
\* after every turn: the functions that the models define by recursion exist.
LEMMA LoopExists ==
  ASSUME NEW N \in Nat, NEW V, NEW a \in V, NEW G \in [1..N -> [V -> V]]
  PROVE  \E f : IsLoop(f, N, V, a, G)
<1> DEFINE Upto(m, f) == f[0] = a /\ \A n \in 1..m : f[n] = G[n][f[n - 1]]
           S == {m \in Nat : \E f \in [0..m -> V] : Upto(m, f)}
<1>1. 0 \in S
  <2> DEFINE f == [n \in 0..0 |-> a]
  <2>1. f \in [0..0 -> V] /\ Upto(0, f)
    OBVIOUS
  <2> QED
    BY <2>1
<1>2. ASSUME NEW m \in 1..N, m - 1 \in S PROVE m \in S
  <2>1. PICK g \in [0..(m - 1) -> V] : Upto(m - 1, g)
    BY <1>2
  <2> DEFINE f == [n \in 0..m |-> IF n = m THEN G[m][g[m - 1]] ELSE g[n]]
  <2>2. g[m - 1] \in V /\ G[m][g[m - 1]] \in V
    OBVIOUS
  <2>3. f \in [0..m -> V]
    BY <2>2
  <2>4. f[0] = a
    BY <2>1
  <2>5. ASSUME NEW n \in 1..m PROVE f[n] = G[n][f[n - 1]]
    <3>1. CASE n = m
      BY <3>1
    <3>2. CASE n # m
      <4>1. n \in 1..(m - 1) /\ n - 1 # m /\ n \in 0..m /\ n - 1 \in 0..m
        BY <3>2
      <4> QED
        BY <4>1, <2>1
    <3> QED
      BY <3>1, <3>2
  <2> HIDE DEF f
  <2> QED
    BY <2>3, <2>4, <2>5
<1> HIDE DEF S
<1>3. 0..N \subseteq S
  BY <1>1, <1>2, BoundedInduction
<1>4. N \in S
  BY <1>3
<1> QED
  BY <1>4 DEF S, IsLoop
-----------------------------------------------------------------------------
\* Parts put together one after the other, as FlattenSeq does.
IsFlat(g, parts, V) ==
  /\ g \in [1..Len(parts) -> Seq(V)]
  /\ g[1] = parts[1]
  /\ \A i \in 2..Len(parts) : g[i] = g[i - 1] \o parts[i]
  /\ FlattenSeq(parts) = g[Len(parts)]

\* FlattenSeq puts the parts together in turn: the loops that write a header and
\* that rewrite the links of a body.
LEMMA FlattenLoop ==
  ASSUME NEW V, NEW parts \in Seq(Seq(V)), parts # <<>>
  PROVE  \E g : IsFlat(g, parts, V)
<1> DEFINE N == Len(parts)
           W == Seq(V)
           G == [n \in 1..N |-> [v \in W |-> IF n = 1 THEN parts[n] ELSE v \o parts[n]]]
           Body(f) == [i \in 1..N |-> IF i = 1 THEN parts[i] ELSE f[i - 1] \o parts[i]]
<1>1. N \in Nat /\ N # 0 /\ 1 \in 1..N /\ N \in 1..N
  BY EmptySeq, LenProperties
<1>2. \A n \in 1..N : parts[n] \in W
  BY ElementOfSeq
<1>3. \A v \in W, n \in 1..N : v \o parts[n] \in W
  BY <1>2, ConcatProperties
<1> HIDE DEF N
<1>4. G \in [1..N -> [W -> W]]
  BY <1>2, <1>3
<1>5. <<>> \in W
  OBVIOUS
<1>6. \A n \in 1..N, v \in W : G[n][v] = IF n = 1 THEN parts[n] ELSE v \o parts[n]
  OBVIOUS
<1> HIDE DEF G, W
<1>7. PICK f : IsLoop(f, N, W, <<>>, G)
  BY <1>1, <1>4, <1>5, LoopExists
<1>8. f \in [0..N -> W] /\ \A n \in 1..N : f[n] = G[n][f[n - 1]]
  BY <1>7 DEF IsLoop
<1>9. \A n \in 1..N : f[n] \in W /\ n - 1 \in 0..N /\ f[n - 1] \in W /\ f[n] = IF n = 1 THEN parts[n] ELSE f[n - 1] \o parts[n]
  <2> SUFFICES ASSUME NEW n \in 1..N
               PROVE  f[n] \in W /\ n - 1 \in 0..N /\ f[n - 1] \in W /\ f[n] = IF n = 1 THEN parts[n] ELSE f[n - 1] \o parts[n]
    OBVIOUS
  <2>1. n \in 0..N /\ n - 1 \in 0..N
    BY <1>1
  <2> QED
    BY <1>6, <1>8, <2>1, Zenon
<1> DEFINE g == [i \in 1..N |-> f[i]]
<1>10. \A i \in 1..N : g[i] = IF i = 1 THEN parts[i] ELSE g[i - 1] \o parts[i]
  <2> SUFFICES ASSUME NEW i \in 1..N PROVE g[i] = IF i = 1 THEN parts[i] ELSE g[i - 1] \o parts[i]
    OBVIOUS
  <2>1. i # 1 => i - 1 \in 1..N
    BY <1>1
  <2> QED
    BY <1>9, <2>1
<1>11. g = Body(g)
  BY <1>10
<1> DEFINE h == CHOOSE e : e = Body(e)
<1>12. h = Body(h)
  BY <1>11, Zenon
<1>13. FlattenSeq(parts) = h[N]
  BY <1>1, Zenon DEF FlattenSeq, N
<1> HIDE DEF h
<1>14. \A i \in 1..N : h[i] = IF i = 1 THEN parts[i] ELSE h[i - 1] \o parts[i]
  BY <1>12, Zenon
<1> HIDE DEF g
<1>15. 0..N \subseteq {n \in Nat : n \in 1..N => h[n] = g[n]}
  <2> DEFINE S == {n \in Nat : n \in 1..N => h[n] = g[n]}
  <2>1. 0 \in S
    OBVIOUS
  <2>2. ASSUME NEW n \in 1..N, n - 1 \in S PROVE n \in S
    <3>1. n # 1 => n - 1 \in 1..N
      BY <1>1
    <3> QED
      BY <1>10, <1>14, <2>2, <3>1
  <2> HIDE DEF S
  <2>3. 0..N \subseteq S
    BY <1>1, <2>1, <2>2, BoundedInduction, Zenon
  <2> QED
    BY <2>3 DEF S
<1>16. h[N] = g[N]
  BY <1>1, <1>15
<1>17. g \in [1..N -> W]
  BY <1>9 DEF g
<1>18. g[1] = parts[1] /\ \A i \in 2..N : g[i] = g[i - 1] \o parts[i]
  <2>1. \A i \in 2..N : i \in 1..N /\ i # 1
    BY <1>1
  <2>2. g[1] = parts[1]
    BY <1>1, <1>10
  <2>3. \A i \in 2..N : g[i] = g[i - 1] \o parts[i]
    BY <1>10, <2>1, Zenon
  <2> QED
    BY <2>2, <2>3, Zenon
<1>19. IsFlat(g, parts, V)
  BY <1>13, <1>16, <1>17, <1>18, Zenon DEF IsFlat, N, W
<1> QED
  BY <1>19

\* What FlattenSeq makes of the first n of the parts g.
Joined(g, n) == FlattenSeq([i \in 1..n |-> g[i]])

\* A part more is put behind those before it: a stream of requests, the lines of a
\* header and the pieces of a value are put together in this way.
LEMMA JoinedStep ==
  ASSUME NEW V, NEW N \in Nat, NEW g, \A i \in 1..N : g[i] \in Seq(V)
  PROVE  /\ Joined(g, 0) = <<>>
         /\ \A n \in 0..N : Joined(g, n) \in Seq(V)
         /\ \A n \in 1..N : Joined(g, n) = Joined(g, n - 1) \o g[n]
<1> DEFINE P(n) == [i \in 1..n |-> g[i]]
<1>1. \A n \in 0..N : P(n) \in Seq(Seq(V)) /\ Len(P(n)) = n /\ \A i \in 1..n : P(n)[i] = g[i]
  <2> SUFFICES ASSUME NEW n \in 0..N
               PROVE  P(n) \in Seq(Seq(V)) /\ Len(P(n)) = n /\ \A i \in 1..n : P(n)[i] = g[i]
    OBVIOUS
  <2>1. \A i \in 1..n : g[i] \in Seq(V)
    OBVIOUS
  <2> QED
    BY <2>1, IsASeq
<1> HIDE DEF P
<1>2. Joined(g, 0) = <<>>
  <2>1. P(0) = <<>>
    BY <1>1, EmptySeq
  <2>2. Joined(g, 0) = FlattenSeq(P(0))
    BY DEF Joined, P
  <2>3. FlattenSeq(<<>>) = <<>>
    BY DEF FlattenSeq
  <2> QED
    BY <2>1, <2>2, <2>3
<1>0. \A n \in 1..N : n \in 0..N /\ n \in 1..n /\ n \in Nat
  OBVIOUS
<1>3. ASSUME NEW n \in 1..N
      PROVE  \E f : IsFlat(f, P(n), V)
  <2>1. P(n) \in Seq(Seq(V)) /\ P(n) # <<>>
    BY <1>1, EmptySeq
  <2> QED
    BY <2>1, FlattenLoop
<1>4. ASSUME NEW n \in 1..N
      PROVE  Joined(g, n) \in Seq(V)
  <2>1. PICK f : IsFlat(f, P(n), V)
    BY <1>3
  <2>2. Len(P(n)) = n /\ n \in 1..n
    BY <1>1
  <2>3. f[n] \in Seq(V) /\ FlattenSeq(P(n)) = f[n]
    BY <2>1, <2>2 DEF IsFlat
  <2> QED
    BY <2>3 DEF Joined, P
<1>5. ASSUME NEW n \in 1..N
      PROVE  Joined(g, n) = Joined(g, n - 1) \o g[n]
  <2>1. PICK f : IsFlat(f, P(n), V)
    BY <1>3
  <2>2. /\ f \in [1..n -> Seq(V)] /\ f[1] = g[1] /\ Joined(g, n) = f[n]
        /\ \A i \in 2..n : f[i] = f[i - 1] \o g[i]
    <3>1. Len(P(n)) = n /\ \A i \in 1..n : P(n)[i] = g[i]
      BY <1>0, <1>1, Zenon
    <3>2. Joined(g, n) = FlattenSeq(P(n))
      BY DEF Joined, P
    <3>3. /\ f \in [1..n -> Seq(V)] /\ f[1] = P(n)[1] /\ FlattenSeq(P(n)) = f[n]
          /\ \A i \in 2..n : f[i] = f[i - 1] \o P(n)[i]
      BY <2>1, <3>1, Zenon DEF IsFlat
    <3>4. 1 \in 1..n /\ \A i \in 2..n : i \in 1..n
      OBVIOUS
    <3> QED
      BY <3>1, <3>2, <3>3, <3>4, Zenon
  <2>3. CASE n = 1
    <3>1. g[1] \in Seq(V)
      OBVIOUS
    <3> QED
      BY <1>2, <2>2, <2>3, <3>1, ConcatEmptySeq
  <2>4. CASE n # 1
    <3>1. n - 1 \in 1..N
      BY <2>4
    <3>2. PICK e : IsFlat(e, P(n - 1), V)
      BY <1>3, <3>1
    <3>3. /\ e[1] = g[1] /\ Joined(g, n - 1) = e[n - 1]
          /\ \A i \in 2..(n - 1) : e[i] = e[i - 1] \o g[i]
      <4>1. Len(P(n - 1)) = n - 1 /\ \A i \in 1..(n - 1) : P(n - 1)[i] = g[i]
        BY <1>0, <1>1, <3>1, Zenon
      <4>2. Joined(g, n - 1) = FlattenSeq(P(n - 1))
        BY DEF Joined, P
      <4>3. /\ e[1] = P(n - 1)[1] /\ FlattenSeq(P(n - 1)) = e[n - 1]
            /\ \A i \in 2..(n - 1) : e[i] = e[i - 1] \o P(n - 1)[i]
        BY <3>2, <4>1, Zenon DEF IsFlat
      <4>4. 1 \in 1..(n - 1) /\ \A i \in 2..(n - 1) : i \in 1..(n - 1)
        BY <3>1
      <4> QED
        BY <4>1, <4>2, <4>3, <4>4, Zenon
    <3> DEFINE S == {i \in Nat : i \in 1..(n - 1) => e[i] = f[i]}
    <3>4. 0 \in S
      OBVIOUS
    <3>5. ASSUME NEW i \in 1..(n - 1), i - 1 \in S PROVE i \in S
      <4>1. CASE i = 1
        BY <4>1, <2>2, <3>3
      <4>2. CASE i # 1
        <5>1. i - 1 \in 1..(n - 1) /\ i \in 2..(n - 1) /\ i \in 2..n
          BY <4>2
        <5>2. e[i - 1] = f[i - 1]
          BY <3>5, <5>1 DEF S
        <5>3. e[i] = e[i - 1] \o g[i] /\ f[i] = f[i - 1] \o g[i]
          BY <2>2, <3>3, <5>1, Zenon
        <5>4. e[i] = f[i]
          BY <5>2, <5>3, Zenon
        <5> QED
          BY <5>4
      <4> QED
        BY <4>1, <4>2
    <3> HIDE DEF S
    <3>6. n - 1 \in Nat
      BY <2>4
    <3>7. 0..(n - 1) \subseteq S
      BY <3>4, <3>5, <3>6, BoundedInduction
    <3>8. e[n - 1] = f[n - 1]
      <4>1. n - 1 \in 0..(n - 1) /\ n - 1 \in 1..(n - 1)
        BY <3>1
      <4> QED
        BY <3>7, <4>1 DEF S
    <3>9. f[n] = f[n - 1] \o g[n]
      <4>1. n \in 2..n
        BY <2>4
      <4> QED
        BY <2>2, <4>1, Zenon
    <3> QED
      BY <2>2, <3>3, <3>8, <3>9
  <2> QED
    BY <2>3, <2>4
<1>6. Joined(g, 0) \in Seq(V)
  <2>1. <<>> \in Seq(V)
    OBVIOUS
  <2> QED
    BY <1>2, <2>1, Zenon
<1>7. \A n \in 0..N : n = 0 \/ n \in 1..N
  OBVIOUS
<1> QED
  BY <1>2, <1>4, <1>5, <1>6, <1>7, Zenon
=============================================================================
