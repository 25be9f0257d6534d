--------------------------- MODULE MaterialProofs ---------------------------
(***************************************************************************)
(* Theorems about the merkle tree and the two passes over a block's items, *)
(* for blocks of any length and content: they accept the same blocks, the  *)
(* streaming hasher has the root of the whole batch at every item, and a   *)
(* witness recomputes the block's root from its own transaction and from   *)
(* no other.                                                               *)
(*                                                                         *)
(* Everything about the tree goes by its levels: the stack of the hasher,  *)
(* and the roots of the peaks, are the last nodes of the levels of the set *)
(* bits of the count of leaves.                                            *)
(***************************************************************************)
EXTENDS Material, FiniteSetTheorems, SequenceTheorems, WellFoundedInduction, TLAPS

----------------------------------------------------------------------------
(* The least-number principle and induction, on sets.                      *)
LEMMA LeastNumber ==
  ASSUME NEW T, T \subseteq Nat, T # {}
  PROVE  \E x \in T : \A y \in T : ~ (y < x)
<1>1. IsWellFoundedOn(OpToRel(<, Nat), Nat)
  BY NatLessThanWellFounded
<1>2. \E x \in T : \A y \in T : ~ (<<y, x>> \in OpToRel(<, Nat))
  BY <1>1, WFMin
<1>3. QED
  BY <1>2 DEF OpToRel

(* Induction, with a set in the place of the formula.                      *)
LEMMA Induction ==
  ASSUME NEW S, 0 \in S, \A n \in Nat : n \in S => n + 1 \in S
  PROVE  \A n \in Nat : n \in S
<1> DEFINE Others == {n \in Nat : n \notin S}
<1> SUFFICES ASSUME Others # {} PROVE FALSE
  OBVIOUS
<1>1. PICK x \in Others : \A y \in Others : ~ (y < x)
  BY LeastNumber
<1>2. x - 1 \in Nat /\ x - 1 \notin Others
  BY <1>1
<1> QED
  BY <1>1, <1>2

(* A function defined by recursion over the numbers, with values in a set  *)
(* that its step does not leave, exists.                                   *)
IsUpto(g, n, V, c, step) ==
  /\ g \in [0 .. n -> V] /\ g[0] = c
  /\ \A i \in 0 .. n - 1 : g[i + 1] = step[i][g[i]]

(* One more value of a function defined by recursion.                      *)
LEMMA UptoStep ==
  ASSUME NEW V, NEW c \in V, NEW step \in [Nat -> [V -> V]], NEW n \in Nat,
         NEW g, IsUpto(g, n, V, c, step)
  PROVE  \E h : IsUpto(h, n + 1, V, c, step)
<1> DEFINE h == [i \in 0 .. n + 1 |-> IF i = n + 1 THEN step[n][g[n]] ELSE g[i]]
<1>1. /\ g \in [0 .. n -> V] /\ g[0] = c
      /\ \A i \in 0 .. n - 1 : g[i + 1] = step[i][g[i]]
  BY DEF IsUpto
<1>2. step[n][g[n]] \in V
  BY <1>1
<1>3. h \in [0 .. n + 1 -> V]
  BY <1>1, <1>2
<1>4. h[0] = c
  BY <1>1
<1>5. ASSUME NEW i \in 0 .. n PROVE h[i + 1] = step[i][h[i]]
  <2>1. CASE i = n
    BY <2>1
  <2>2. CASE i # n
    <3>1. i \in 0 .. n - 1 /\ i + 1 \in 0 .. n
      BY <2>2
    <3> QED BY <1>1, <3>1
  <2> QED BY <2>1, <2>2
<1> HIDE DEF h
<1>6. IsUpto(h, n + 1, V, c, step)
  BY <1>3, <1>4, <1>5 DEF IsUpto
<1> QED BY <1>6

(* There is only one such function.                                        *)
LEMMA UptoUnique ==
  ASSUME NEW V, NEW c \in V, NEW step \in [Nat -> [V -> V]], NEW n \in Nat, NEW m \in Nat,
         NEW g, IsUpto(g, n, V, c, step), NEW h, IsUpto(h, m, V, c, step)
  PROVE  \A i \in Nat : i <= n /\ i <= m => g[i] = h[i]
<1> DEFINE S == {i \in Nat : i <= n /\ i <= m => g[i] = h[i]}
<1>1. 0 \in S
  BY DEF IsUpto
<1>2. ASSUME NEW i \in Nat, i \in S PROVE i + 1 \in S
  <2> SUFFICES ASSUME i + 1 <= n, i + 1 <= m PROVE g[i + 1] = h[i + 1]
    OBVIOUS
  <2>1. i \in 0 .. n - 1 /\ i \in 0 .. m - 1 /\ g[i] = h[i]
    BY <1>2
  <2> QED BY <2>1 DEF IsUpto
<1> HIDE DEF S
<1>3. \A i \in Nat : i \in S
  BY <1>1, <1>2, Induction
<1> QED BY <1>3 DEF S

IsRecursive(f, V, c, step) ==
  /\ f \in [Nat -> V] /\ f[0] = c
  /\ \A n \in Nat : f[n + 1] = step[n][f[n]]

(* There is such a function, on all of the numbers.                        *)
LEMMA Recursion ==
  ASSUME NEW V, NEW c \in V, NEW step \in [Nat -> [V -> V]]
  PROVE  \E f : IsRecursive(f, V, c, step)
<1>1. \A n \in Nat : \E g : IsUpto(g, n, V, c, step)
  <2> DEFINE S == {n \in Nat : \E g : IsUpto(g, n, V, c, step)}
  <2>1. 0 \in S
    <3>1. IsUpto([i \in 0 .. 0 |-> c], 0, V, c, step)
      BY DEF IsUpto
    <3> QED BY <3>1
  <2>2. ASSUME NEW n \in Nat, n \in S PROVE n + 1 \in S
    BY <2>2, UptoStep
  <2> HIDE DEF S
  <2>3. \A n \in Nat : n \in S
    BY <2>1, <2>2, Induction
  <2> QED BY <2>3 DEF S
<1> DEFINE G(n) == CHOOSE g : IsUpto(g, n, V, c, step)
           f    == [n \in Nat |-> G(n)[n]]
<1>2. ASSUME NEW n \in Nat PROVE IsUpto(G(n), n, V, c, step)
  BY <1>1
<1> HIDE DEF G
<1>3. ASSUME NEW n \in Nat PROVE G(n)[n] \in V
  BY <1>2 DEF IsUpto
<1>4. G(0)[0] = c
  BY <1>2 DEF IsUpto
<1>5. ASSUME NEW n \in Nat PROVE G(n + 1)[n + 1] = step[n][G(n)[n]]
  <2>1. G(n + 1)[n + 1] = step[n][G(n + 1)[n]]
    BY <1>2 DEF IsUpto
  <2>2. IsUpto(G(n + 1), n + 1, V, c, step) /\ IsUpto(G(n), n, V, c, step)
    BY <1>2
  <2>3. G(n + 1)[n] = G(n)[n]
    BY <2>2, UptoUnique
  <2> QED BY <2>1, <2>3
<1>6. f \in [Nat -> V] /\ f[0] = c
  BY <1>3, <1>4
<1>7. ASSUME NEW n \in Nat PROVE f[n + 1] = step[n][f[n]]
  BY <1>5
<1> HIDE DEF f
<1>8. IsRecursive(f, V, c, step)
  BY <1>6, <1>7 DEF IsRecursive
<1> QED BY <1>8

(* The same up to a bound, which the step may rely on.                     *)
LEMMA BoundedRecursion ==
  ASSUME NEW V, NEW c \in V, NEW m \in Nat, NEW step \in [0 .. m - 1 -> [V -> V]]
  PROVE  \E f : IsUpto(f, m, V, c, step)
<1> DEFINE all == [n \in Nat |-> IF n < m THEN step[n] ELSE [v \in V |-> v]]
<1>1. all \in [Nat -> [V -> V]]
  BY DEF all
<1>2. ASSUME NEW n \in 0 .. m - 1 PROVE all[n] = step[n]
  OBVIOUS
<1> HIDE DEF all
<1>3. PICK f : IsRecursive(f, V, c, all)
  BY <1>1, Recursion
<1>4. /\ f \in [Nat -> V] /\ f[0] = c
      /\ \A n \in Nat : f[n + 1] = all[n][f[n]]
  BY <1>3 DEF IsRecursive
<1> DEFINE g == [n \in 0 .. m |-> f[n]]
<1>5. g \in [0 .. m -> V] /\ g[0] = c
  BY <1>4
<1>6. ASSUME NEW n \in 0 .. m - 1 PROVE g[n + 1] = step[n][g[n]]
  <2>1. n \in Nat /\ g[n] = f[n] /\ g[n + 1] = f[n + 1]
    OBVIOUS
  <2> QED BY <1>2, <1>4, <2>1
<1> HIDE DEF g
<1>7. IsUpto(g, m, V, c, step)
  BY <1>5, <1>6 DEF IsUpto
<1> QED BY <1>7
----------------------------------------------------------------------------
(* Powers of two.                                                          *)
LEMMA SizeIs ==
  /\ Size \in [Nat -> Nat] /\ Size[0] = 1
  /\ \A k \in Nat : Size[k + 1] = 2 * Size[k]
<1> DEFINE Turn(f, k) == IF k = 0 THEN 1 ELSE 2 * f[k - 1]
           step == [n \in Nat |-> [v \in Nat |-> 2 * v]]
<1>a. PICK f : IsRecursive(f, Nat, 1, step)
  <2>1. step \in [Nat -> [Nat -> Nat]] /\ 1 \in Nat
    OBVIOUS
  <2> HIDE DEF step
  <2> QED BY <2>1, Recursion
<1>1. f \in [Nat -> Nat] /\ f[0] = 1
  BY <1>a DEF IsRecursive
<1>2. \A n \in Nat : f[n + 1] = 2 * f[n]
  BY <1>a DEF IsRecursive
<1>3. f = [k \in Nat |-> Turn(f, k)]
  <2>1. ASSUME NEW k \in Nat PROVE f[k] = Turn(f, k)
    <3>1. CASE k = 0
      BY <3>1, <1>1
    <3>2. CASE k # 0
      <4>1. k - 1 \in Nat /\ k = (k - 1) + 1
        BY <3>2
      <4> QED BY <1>2, <3>2, <4>1
    <3> QED BY <3>1, <3>2
  <2>2. f = [k \in Nat |-> f[k]]
    BY <1>1
  <2> HIDE DEF Turn
  <2> QED BY <2>1, <2>2
<1>4. Size = [k \in Nat |-> Turn(Size, k)]
  BY <1>3 DEF Size
<1>5. Size[0] = 1
  BY <1>4
<1>6. ASSUME NEW k \in Nat PROVE Size[k + 1] = 2 * Size[k]
  BY <1>4
<1>7. \A k \in Nat : Size[k] \in Nat
  <2> DEFINE S == {k \in Nat : Size[k] \in Nat}
  <2>1. 0 \in S /\ \A k \in Nat : k \in S => k + 1 \in S
    BY <1>5, <1>6
  <2> HIDE DEF S
  <2>2. \A k \in Nat : k \in S
    BY <2>1, Induction
  <2> QED BY <2>2 DEF S
<1>8. Size \in [Nat -> Nat]
  BY <1>4, <1>7
<1> QED BY <1>5, <1>6, <1>8

(* Size grows, and faster than its argument: every number is below some.   *)
LEMMA SizeGrows ==
  /\ \A k \in Nat : Size[k] \in Nat /\ k < Size[k]
  /\ \A j, k \in Nat : j < k => Size[j] < Size[k]
<1>1. \A k \in Nat : k < Size[k]
  <2> DEFINE S == {k \in Nat : k < Size[k]}
  <2>1. 0 \in S /\ \A k \in Nat : k \in S => k + 1 \in S
    BY SizeIs
  <2> HIDE DEF S
  <2>2. \A k \in Nat : k \in S
    BY <2>1, Induction
  <2> QED BY <2>2 DEF S
<1>2. ASSUME NEW j \in Nat PROVE \A d \in Nat : Size[j] < Size[j + d + 1]
  <2> DEFINE S == {d \in Nat : Size[j] < Size[j + d + 1]}
  <2>1. 0 \in S
    BY SizeIs, <1>1
  <2>2. ASSUME NEW d \in Nat, d \in S PROVE d + 1 \in S
    <3>1. Size[j + (d + 1) + 1] = 2 * Size[j + d + 1] /\ Size[j + d + 1] \in Nat /\ Size[j] \in Nat
      BY SizeIs
    <3> QED BY <2>2, <3>1
  <2> HIDE DEF S
  <2>3. \A d \in Nat : d \in S
    BY <2>1, <2>2, Induction
  <2> QED BY <2>3 DEF S
<1>3. ASSUME NEW j \in Nat, NEW k \in Nat, j < k PROVE Size[j] < Size[k]
  <2>1. k - j - 1 \in Nat /\ k = j + (k - j - 1) + 1
    BY <1>3
  <2> QED BY <1>2, <2>1
<1> QED BY SizeIs, <1>1, <1>3

(* The bits of n above one another.                                        *)
LEMMA DivTwice ==
  ASSUME NEW n \in Nat, NEW m \in Nat, m > 0
  PROVE  n \div (2 * m) = (n \div m) \div 2
<1> DEFINE q == n \div m
           r == n % m
           p == q \div 2
           s == q % 2
<1>1. q \in Nat /\ r \in 0 .. m - 1 /\ n = m * q + r
  OBVIOUS
<1> HIDE DEF q, r
<1>2. p \in Nat /\ s \in 0 .. 1 /\ q = 2 * p + s
  BY <1>1
<1> HIDE DEF p, s
<1>3. n = (2 * m) * p + (s * m + r)
  BY <1>1, <1>2
<1>4. s * m + r \in 0 .. 2 * m - 1
  <2>1. CASE s = 0
    BY <2>1, <1>1
  <2>2. CASE s = 1
    BY <2>2, <1>1
  <2> QED BY <2>1, <2>2, <1>2
<1> DEFINE M == 2 * m
           R == s * m + r
<1>5. M \in Nat /\ M > 0 /\ n = M * p + R /\ R \in 0 .. M - 1
  BY <1>3, <1>4
<1> HIDE DEF M, R
<1>6. n \div M = p
  BY <1>2, <1>5
<1> QED BY <1>6 DEF M, p, q

(* One bit further is one half.                                            *)
LEMMA DivSize ==
  ASSUME NEW n \in Nat, NEW k \in Nat
  PROVE  /\ n \div Size[k] \in Nat
         /\ n \div Size[k + 1] = (n \div Size[k]) \div 2
         /\ n \div Size[0] = n
<1>1. Size[k] \in Nat /\ Size[k] > 0 /\ Size[k + 1] = 2 * Size[k] /\ Size[0] = 1
  BY SizeIs, SizeGrows
<1>2. n \div (2 * Size[k]) = (n \div Size[k]) \div 2
  BY <1>1, DivTwice
<1> QED BY <1>1, <1>2

(* No bit is set where the numbers below n do not reach.                   *)
LEMMA NoHighBit ==
  ASSUME NEW n \in Nat, NEW k \in Nat, n < Size[k]
  PROVE  n \div Size[k] = 0 /\ ~ Bit(n, k)
<1>1. Size[k] \in Nat /\ Size[k] > 0
  BY SizeGrows
<1>2. n \div Size[k] = 0
  BY <1>1
<1> QED BY <1>2 DEF Bit
----------------------------------------------------------------------------
(* Hashes: a set that holds the leaves and the hash of any two of its own. *)
Closed(H) == \A l, r \in H : hash_internal(l, r) \in H

(* A level of nodes has a node for each two of the level below             *)
(* (perfect_root, merkle.rs:128-136).                                      *)
LEMMA PairsAre ==
  ASSUME NEW H, Closed(H), NEW s \in Seq(H)
  PROVE  /\ Pairs(s) \in Seq(H) /\ Len(Pairs(s)) = Len(s) \div 2
         /\ \A i \in 1 .. Len(s) \div 2 : Pairs(s)[i] = hash_internal(s[2 * i - 1], s[2 * i])
<1>1. Len(s) \in Nat /\ Len(s) \div 2 \in Nat
  OBVIOUS
<1>2. ASSUME NEW i \in 1 .. Len(s) \div 2 PROVE hash_internal(s[2 * i - 1], s[2 * i]) \in H
  <2>1. 2 * i - 1 \in 1 .. Len(s) /\ 2 * i \in 1 .. Len(s)
    BY <1>1
  <2> QED BY <2>1 DEF Closed
<1>3. Pairs(s) \in [1 .. Len(s) \div 2 -> H]
  BY <1>2 DEF Pairs
<1> QED BY <1>1, <1>3 DEF Pairs

(* What the recursion of Levels computes, for leaves and levels of any     *)
(* number.                                                                 *)
LEMMA LevelsAre ==
  ASSUME NEW H, Closed(H), NEW leaves \in Seq(H)
  PROVE  /\ Levels(leaves)[0] = leaves
         /\ \A k \in Nat : /\ Levels(leaves)[k] \in Seq(H)
                           /\ Levels(leaves)[k + 1] = Pairs(Levels(leaves)[k])
<1> DEFINE Turn(f, k) == IF k = 0 THEN leaves ELSE Pairs(f[k - 1])
           step == [n \in Nat |-> [v \in Seq(H) |-> Pairs(v)]]
           Level == Levels(leaves)
<1>1. PICK f : IsRecursive(f, Seq(H), leaves, step)
  <2>1. step \in [Nat -> [Seq(H) -> Seq(H)]]
    BY PairsAre
  <2> HIDE DEF step
  <2> QED BY <2>1, Recursion
<1>2. f \in [Nat -> Seq(H)] /\ f[0] = leaves /\ \A n \in Nat : f[n + 1] = Pairs(f[n])
  BY <1>1 DEF IsRecursive
<1>3. f = [k \in Nat |-> Turn(f, k)]
  <2>1. ASSUME NEW k \in Nat PROVE f[k] = Turn(f, k)
    <3>1. CASE k = 0
      BY <3>1, <1>2
    <3>2. CASE k # 0
      <4>1. k - 1 \in Nat /\ k = (k - 1) + 1
        BY <3>2
      <4> QED BY <1>2, <3>2, <4>1
    <3> QED BY <3>1, <3>2
  <2>2. f = [k \in Nat |-> f[k]]
    BY <1>2
  <2> HIDE DEF Turn
  <2> QED BY <2>1, <2>2
<1>4. Level = [k \in Nat |-> Turn(Level, k)]
  BY <1>3 DEF Levels
<1> HIDE DEF Level
<1>5. Level[0] = leaves
  BY <1>4
<1>6. ASSUME NEW k \in Nat PROVE Level[k + 1] = Pairs(Level[k])
  BY <1>4
<1>7. \A k \in Nat : Level[k] \in Seq(H)
  <2> DEFINE S == {k \in Nat : Level[k] \in Seq(H)}
  <2>1. 0 \in S
    BY <1>5
  <2>2. ASSUME NEW k \in Nat, k \in S PROVE k + 1 \in S
    <3>1. Pairs(Level[k]) \in Seq(H)
      BY <2>2, PairsAre
    <3>2. Level[k + 1] \in Seq(H)
      BY <1>6, <3>1
    <3> QED BY <3>2
  <2> HIDE DEF S
  <2>3. \A k \in Nat : k \in S
    BY <2>1, <2>2, Induction
  <2> QED BY <2>3 DEF S
<1> QED BY <1>5, <1>6, <1>7 DEF Level

(* How many nodes each level has: n shifted right, which ties levels to    *)
(* bits.                                                                   *)
LEMMA LevelLength ==
  ASSUME NEW H, Closed(H), NEW leaves \in Seq(H), NEW k \in Nat
  PROVE  Len(Levels(leaves)[k]) = Len(leaves) \div Size[k]
<1> DEFINE Level == Levels(leaves)
           S == {j \in Nat : Len(Level[j]) = Len(leaves) \div Size[j]}
<1> HIDE DEF Level
<1>0. Len(leaves) \in Nat
  OBVIOUS
<1>1. 0 \in S
  BY <1>0, LevelsAre, DivSize DEF Level
<1>2. ASSUME NEW j \in Nat, j \in S PROVE j + 1 \in S
  <2>1. Level[j] \in Seq(H) /\ Level[j + 1] = Pairs(Level[j])
    BY LevelsAre DEF Level
  <2>2. Len(Level[j + 1]) = Len(Level[j]) \div 2
    BY <2>1, PairsAre
  <2>3. Len(leaves) \div Size[j + 1] = (Len(leaves) \div Size[j]) \div 2
    BY <1>0, DivSize
  <2>4. Len(Level[j]) = Len(leaves) \div Size[j]
    BY <1>2
  <2>5. Len(Level[j + 1]) = Len(leaves) \div Size[j + 1]
    BY <2>2, <2>3, <2>4
  <2> QED BY <2>5
<1> HIDE DEF S
<1>3. k \in S
  BY <1>1, <1>2, Induction
<1> QED BY <1>3 DEF S, Level

(* Half of a number.                                                       *)
LEMMA Half ==
  ASSUME NEW n \in Nat
  PROVE  /\ n \div 2 \in Nat /\ n = 2 * (n \div 2) + (IF n % 2 = 1 THEN 1 ELSE 0)
         /\ (n + 1) \div 2 = IF n % 2 = 1 THEN (n \div 2) + 1 ELSE n \div 2
         /\ \A i \in 1 .. n \div 2 : 2 * i - 1 \in 1 .. n /\ 2 * i \in 1 .. n
OBVIOUS

(* One more node at the end of a level is the right sibling of a node that *)
(* had none, or waits for one.                                             *)
LEMMA PairsOfMore ==
  ASSUME NEW H, Closed(H), NEW s \in Seq(H), NEW y \in H
  PROVE  /\ Len(s) % 2 = 1 => /\ s # << >> /\ Last(s) \in H
                              /\ Pairs(Append(s, y)) = Append(Pairs(s), hash_internal(Last(s), y))
         /\ Len(s) % 2 # 1 => Pairs(Append(s, y)) = Pairs(s)
<1> DEFINE more == Append(s, y)
           n    == Len(s)
           h    == n \div 2
<1>0. /\ n \in Nat /\ h \in Nat /\ n = 2 * h + (IF n % 2 = 1 THEN 1 ELSE 0)
      /\ (n + 1) \div 2 = IF n % 2 = 1 THEN h + 1 ELSE h
      /\ \A i \in 1 .. h : 2 * i - 1 \in 1 .. n /\ 2 * i \in 1 .. n
  <2> HIDE DEF more
  <2>1. n \in Nat
    OBVIOUS
  <2> HIDE DEF n
  <2> QED BY <2>1, Half
<1>1. /\ more \in Seq(H) /\ Len(more) = n + 1 /\ more[n + 1] = y
      /\ \A i \in 1 .. n : more[i] = s[i] /\ s[i] \in H
  <2>1. /\ Append(s, y) \in Seq(H) /\ Len(Append(s, y)) = Len(s) + 1
        /\ Append(s, y)[Len(s) + 1] = y
    OBVIOUS
  <2>2. \A i \in 1 .. Len(s) : Append(s, y)[i] = s[i] /\ s[i] \in H
    OBVIOUS
  <2> QED BY <2>1, <2>2
<1>2. /\ Pairs(s) \in Seq(H) /\ Len(Pairs(s)) = h
      /\ \A i \in 1 .. h : Pairs(s)[i] = hash_internal(s[2 * i - 1], s[2 * i])
  BY PairsAre
<1>3. /\ Pairs(more) \in Seq(H) /\ Len(Pairs(more)) = (n + 1) \div 2
      /\ \A i \in 1 .. (n + 1) \div 2 : Pairs(more)[i] = hash_internal(more[2 * i - 1], more[2 * i])
  BY <1>1, PairsAre
<1> HIDE DEF more, n, h
<1>4. \A i \in 1 .. h : 2 * i - 1 \in 1 .. n /\ 2 * i \in 1 .. n
  BY <1>0
<1>5. (n + 1) \div 2 = IF n % 2 = 1 THEN h + 1 ELSE h
  BY <1>0
<1>6. \A i \in 1 .. h : Pairs(more)[i] = Pairs(s)[i]
  BY <1>0, <1>1, <1>2, <1>3, <1>4, <1>5
<1>7. CASE n % 2 = 1
  <2>1. n \in 1 .. n /\ Last(s) = s[n] /\ Last(s) \in H
    BY <1>0, <1>1, <1>7 DEF Last, n
  <2>2. Pairs(more)[h + 1] = hash_internal(Last(s), y)
    <3>1. 2 * (h + 1) - 1 = n /\ 2 * (h + 1) = n + 1 /\ h + 1 \in 1 .. (n + 1) \div 2
      BY <1>0, <1>5, <1>7
    <3> QED BY <1>1, <1>3, <2>1, <3>1
  <2>3. hash_internal(Last(s), y) \in H
    BY <2>1 DEF Closed
  <2> DEFINE z == hash_internal(Last(s), y)
             a == Append(Pairs(s), z)
  <2>4. a \in Seq(H) /\ Len(a) = h + 1 /\ a[h + 1] = z /\ \A i \in 1 .. h : a[i] = Pairs(s)[i]
    BY <1>0, <1>2, <2>3
  <2> HIDE DEF z
  <2>5. \A i \in 1 .. h + 1 : Pairs(more)[i] = a[i]
    BY <1>0, <1>6, <2>2, <2>4 DEF z
  <2> HIDE DEF a
  <2>6. Pairs(more) = a
    BY <1>3, <1>5, <1>7, <2>4, <2>5, SeqEqual
  <2>7. s # << >>
    BY <1>0, <1>7 DEF n
  <2> QED BY <1>7, <2>1, <2>6, <2>7 DEF a, z, more, n
<1>8. CASE n % 2 # 1
  <2>1. Pairs(more) = Pairs(s)
    BY <1>2, <1>3, <1>5, <1>6, <1>8, SeqEqual
  <2> QED BY <1>8, <2>1 DEF more, n
<1> QED BY <1>7, <1>8

(* What a leaf does to the levels: it goes up to the first one with an     *)
(* even number of nodes, and those above stay.                             *)
IsCarry(c, leaves, x, t) ==
  /\ c[0] = x
  /\ \A k \in 0 .. t - 1 : c[k + 1] = hash_internal(Last(Levels(leaves)[k]), c[k])

(* There is one for every run of set bits.                                 *)
LEMMA CarryExists ==
  ASSUME NEW H, Closed(H), NEW leaves \in Seq(H), NEW x \in H, NEW t \in Nat,
         \A k \in 0 .. t - 1 : Bit(Len(leaves), k)
  PROVE  \E c \in [0 .. t -> H] : IsCarry(c, leaves, x, t)
<1> DEFINE Level == Levels(leaves)
           step == [n \in 0 .. t - 1 |-> [v \in H |-> hash_internal(Last(Level[n]), v)]]
<1> HIDE DEF Level
<1>1. ASSUME NEW k \in 0 .. t - 1 PROVE Last(Level[k]) \in H
  <2>0. k \in Nat
    OBVIOUS
  <2>1. Level[k] \in Seq(H)
    BY <2>0, LevelsAre DEF Level
  <2>2. Len(Level[k]) % 2 = 1
    BY <2>0, LevelLength DEF Level, Bit
  <2> QED BY <2>1, <2>2, PairsOfMore
<1>2. step \in [0 .. t - 1 -> [H -> H]]
  BY <1>1 DEF Closed
<1>3. PICK c : IsUpto(c, t, H, x, step)
  <2> HIDE DEF step
  <2> QED BY <1>2, BoundedRecursion
<1>4. c \in [0 .. t -> H] /\ c[0] = x /\ \A k \in 0 .. t - 1 : c[k + 1] = step[k][c[k]]
  BY <1>3 DEF IsUpto
<1>5. ASSUME NEW k \in 0 .. t - 1 PROVE c[k + 1] = hash_internal(Last(Level[k]), c[k])
  <2>1. c[k] \in H
    BY <1>4
  <2> QED BY <1>4, <2>1
<1> QED BY <1>4, <1>5 DEF IsCarry, Level

(* The levels of n + 1 leaves from those of n (add_leaf, merkle.rs:47-57). *)
LEMMA CarryGoesUp ==
  ASSUME NEW H, Closed(H), NEW leaves \in Seq(H), NEW x \in H, NEW t \in Nat,
         \A k \in 0 .. t - 1 : Bit(Len(leaves), k), ~ Bit(Len(leaves), t),
         NEW c \in [0 .. t -> H], IsCarry(c, leaves, x, t)
  PROVE  /\ \A k \in 0 .. t : Levels(Append(leaves, x))[k] = Append(Levels(leaves)[k], c[k])
         /\ \A k \in Nat : k > t => Levels(Append(leaves, x))[k] = Levels(leaves)[k]
<1> DEFINE Level   == Levels(leaves)
           More    == Levels(Append(leaves, x))
           Up(k)   == Append(Level[k], c[k])
           Same    == {k \in Nat : IF k <= t THEN More[k] = Up(k) ELSE More[k] = Level[k]}
<1> HIDE DEF Level, More
<1>1. /\ Level[0] = leaves /\ More[0] = Append(leaves, x)
      /\ \A k \in Nat : /\ Level[k] \in Seq(H) /\ Level[k + 1] = Pairs(Level[k])
                        /\ More[k + 1] = Pairs(More[k])
  <2>1. Append(leaves, x) \in Seq(H)
    OBVIOUS
  <2> QED BY <2>1, LevelsAre DEF Level, More
<1>2. \A k \in Nat : Bit(Len(leaves), k) <=> Len(Level[k]) % 2 = 1
  BY LevelLength DEF Level, Bit
<1>3. c[0] = x /\ \A k \in 0 .. t - 1 : c[k + 1] = hash_internal(Last(Level[k]), c[k])
  BY DEF IsCarry, Level
<1>4. More[0] = Up(0)
  BY <1>1, <1>3
<1>5. ASSUME NEW k \in 0 .. t - 1 PROVE Pairs(Up(k)) = Up(k + 1)
  <2>1. k \in Nat /\ Bit(Len(leaves), k) /\ c[k] \in H
    OBVIOUS
  <2>2. Level[k] \in Seq(H) /\ Len(Level[k]) % 2 = 1
    BY <2>1, <1>1, <1>2
  <2>3. Pairs(Append(Level[k], c[k])) = Append(Pairs(Level[k]), hash_internal(Last(Level[k]), c[k]))
    BY <2>1, <2>2, PairsOfMore
  <2>4. Level[k + 1] = Pairs(Level[k]) /\ c[k + 1] = hash_internal(Last(Level[k]), c[k])
    BY <2>1, <1>1, <1>3
  <2> QED BY <2>3, <2>4
<1>6. Pairs(Up(t)) = Level[t + 1]
  <2>0. c[t] \in H /\ ~ Bit(Len(leaves), t)
    OBVIOUS
  <2>1. c[t] \in H /\ Level[t] \in Seq(H) /\ ~ (Len(Level[t]) % 2 = 1)
    BY <1>1, <1>2, <2>0
  <2>2. Pairs(Append(Level[t], c[t])) = Pairs(Level[t])
    BY <2>1, PairsOfMore
  <2> QED BY <2>2, <1>1
<1> HIDE DEF Up
<1>7. 0 \in Same
  BY <1>4
<1>8. ASSUME NEW k \in Nat, k \in Same PROVE k + 1 \in Same
  <2>1. More[k + 1] = Pairs(More[k]) /\ Level[k + 1] = Pairs(Level[k])
    BY <1>1
  <2>2. CASE k < t
    <3>1. k \in 0 .. t - 1 /\ More[k] = Up(k)
      BY <1>8, <2>2
    <3>2. More[k + 1] = Up(k + 1)
      BY <1>5, <2>1, <3>1
    <3> QED BY <2>2, <3>2
  <2>3. CASE k = t
    <3>1. More[t + 1] = Level[t + 1]
      BY <1>6, <1>8, <2>1, <2>3
    <3> QED BY <2>3, <3>1
  <2>4. CASE k > t
    <3>1. More[k + 1] = Level[k + 1]
      BY <1>8, <2>1, <2>4
    <3> QED BY <2>4, <3>1
  <2> QED BY <2>2, <2>3, <2>4
<1> HIDE DEF Same
<1>9. \A k \in Nat : k \in Same
  BY <1>7, <1>8, Induction
<1>10. \A k \in 0 .. t : More[k] = Up(k)
  BY <1>9 DEF Same
<1>11. \A k \in Nat : k > t => More[k] = Level[k]
  BY <1>9 DEF Same
<1> QED BY <1>10, <1>11 DEF Level, More, Up
----------------------------------------------------------------------------
(* Perfect trees.                                                          *)
LEMMA HeightOfSize ==
  ASSUME NEW k \in Nat
  PROVE  Height(Size[k]) = k
<1>1. k \in 0 .. Size[k]
  BY SizeGrows
<1>2. \A j \in Nat : Size[j] = Size[k] => j = k
  <2> SUFFICES ASSUME NEW j \in Nat, Size[j] = Size[k], j # k PROVE FALSE
    OBVIOUS
  <2>1. j < k \/ k < j
    OBVIOUS
  <2>2. Size[j] < Size[k] \/ Size[k] < Size[j]
    BY <2>1, SizeGrows
  <2> QED BY <2>2, SizeGrows
<1>3. Size[k] \in Nat
  BY SizeGrows
<1> QED BY <1>1, <1>2, <1>3 DEF Height

(* A perfect tree halves from level to level.                              *)
LEMMA PerfectLevels ==
  ASSUME NEW H, Closed(H), NEW leaves \in Seq(H), NEW k \in Nat, Len(leaves) = Size[k]
  PROVE  \A j \in 0 .. k : /\ Levels(leaves)[j] \in Seq(H)
                           /\ Len(Levels(leaves)[j]) = Size[k - j]
<1> DEFINE Level == Levels(leaves)
           S == {j \in Nat : j <= k => Len(Level[j]) = Size[k - j]}
<1> HIDE DEF Level
<1>1. \A j \in Nat : Level[j] \in Seq(H) /\ Level[j + 1] = Pairs(Level[j])
  BY LevelsAre DEF Level
<1>2. 0 \in S
  <2>1. Level[0] = leaves /\ k - 0 = k
    BY LevelsAre DEF Level
  <2> QED BY <2>1
<1>3. ASSUME NEW j \in Nat, j \in S PROVE j + 1 \in S
  <2> SUFFICES ASSUME j + 1 <= k PROVE Len(Level[j + 1]) = Size[k - (j + 1)]
    OBVIOUS
  <2>1. Len(Level[j]) = Size[k - j]
    BY <1>3
  <2>2. k - (j + 1) \in Nat /\ k - j = (k - (j + 1)) + 1
    OBVIOUS
  <2>3. Size[k - j] = 2 * Size[k - (j + 1)] /\ Size[k - (j + 1)] \in Nat
    BY <2>2, SizeIs
  <2>4. Len(Level[j + 1]) = Len(Level[j]) \div 2
    BY <1>1, PairsAre
  <2> QED BY <2>1, <2>3, <2>4
<1> HIDE DEF S
<1>4. \A j \in Nat : j \in S
  BY <1>2, <1>3, Induction
<1>5. \A j \in Nat : j <= k => Len(Level[j]) = Size[k - j]
  BY <1>4 DEF S
<1>6. ASSUME NEW j \in 0 .. k PROVE Level[j] \in Seq(H) /\ Len(Level[j]) = Size[k - j]
  <2>1. j \in Nat /\ j <= k
    OBVIOUS
  <2> QED BY <1>1, <1>5, <2>1
<1> QED BY <1>6 DEF Level

(* A number lies between two multiples of another.                         *)
LEMMA DivMod ==
  ASSUME NEW n \in Nat, NEW m \in Nat, m > 0
  PROVE  (n \div m) * m <= n /\ n < ((n \div m) + 1) * m
<1> DEFINE q == n \div m
           r == n % m
<1>1. q \in Nat /\ r \in 0 .. m - 1 /\ n = m * q + r
  OBVIOUS
<1> HIDE DEF q, r
<1>2. q * m = m * q /\ (q + 1) * m = m * q + m /\ m * q \in Nat
  BY <1>1
<1>3. q * m <= n /\ n < (q + 1) * m
  BY <1>1, <1>2
<1> QED BY <1>3 DEF q

(* Where the peak of a set bit lies: the last whole run of its size.       *)
LEMMA PeakPlace ==
  ASSUME NEW n \in Nat, NEW b \in Nat, Bit(n, b)
  PROVE  /\ n \div Size[b] \in Nat \ {0} /\ Peak(n, b).size = Size[b] /\ Size[b] \in Nat \ {0}
         /\ Peak(n, b).start = ((n \div Size[b]) - 1) * Size[b]
         /\ Peak(n, b).start \in Nat
         /\ Peak(n, b).start + Size[b] = (n \div Size[b]) * Size[b]
         /\ Peak(n, b).start + Size[b] <= n
<1> DEFINE q == n \div Size[b]
           p == n \div Size[b + 1]
           m == Size[b]
<1>1. m \in Nat /\ m > 0 /\ Size[b + 1] = 2 * m
  BY SizeIs, SizeGrows
<1>2. q \in Nat /\ p = q \div 2 /\ q % 2 = 1
  BY DivSize DEF Bit
<1>3. Peak(n, b) = [start |-> p * Size[b + 1], size |-> m]
  BY DEF Peak
<1>4. q * m <= n
  BY <1>1, DivMod
<1> HIDE DEF q, p, m
<1>5. p \in Nat /\ q = (2 * p) + 1
  BY <1>2, Half
<1>6. p * (2 * m) = (q - 1) * m /\ ((q - 1) * m) + m = q * m /\ (q - 1) * m \in Nat
  BY <1>1, <1>5
<1>7. p * Size[b + 1] = (q - 1) * m
  BY <1>1, <1>6
<1>8. Peak(n, b).start = (q - 1) * m /\ Peak(n, b).size = m
  BY <1>3, <1>7
<1>9. q \in Nat \ {0} /\ m \in Nat \ {0}
  BY <1>1, <1>5
<1>10. Peak(n, b).start \in Nat /\ Peak(n, b).start + m = q * m /\ Peak(n, b).start + m <= n
  BY <1>4, <1>6, <1>8
<1> QED BY <1>8, <1>9, <1>10 DEF q, m
----------------------------------------------------------------------------
(* A run of the leaves that starts at a multiple of its size, a power of   *)
(* two, is a subtree: its levels are runs of the levels of the whole.      *)
IsRun(sub, leaves, s, size) ==
  /\ Len(sub) = size /\ (s + 1) * size <= Len(leaves)
  /\ \A i \in 1 .. size : sub[i] = leaves[s * size + i]

(* So are their levels, all the way up.                                    *)
LEMMA SubtreeLevels ==
  ASSUME NEW H, Closed(H), NEW leaves \in Seq(H), NEW b \in Nat, NEW s \in Nat,
         NEW sub \in Seq(H), IsRun(sub, leaves, s, Size[b])
  PROVE  \A j \in Nat : j <= b => IsRun(Levels(sub)[j], Levels(leaves)[j], s, Size[b - j])
<1> DEFINE Level == Levels(leaves)
           Sub   == Levels(sub)
           Fits(j)  == (s + 1) * Size[b - j] <= Len(Level[j])
           Alike(j) == \A i \in 1 .. Size[b - j] : Sub[j][i] = Level[j][s * Size[b - j] + i]
           S == {j \in Nat : j <= b => Fits(j) /\ Alike(j)}
<1> HIDE DEF Level, Sub
<1>1. /\ Level[0] = leaves /\ Sub[0] = sub
      /\ \A j \in Nat : Level[j] \in Seq(H) /\ Level[j + 1] = Pairs(Level[j])
      /\ \A j \in Nat : Sub[j] \in Seq(H) /\ Sub[j + 1] = Pairs(Sub[j])
  BY LevelsAre DEF Level, Sub
<1>2. 0 \in S
  <2>1. b - 0 = b
    OBVIOUS
  <2> QED BY <1>1, <2>1 DEF IsRun
<1>3. ASSUME NEW j \in Nat, j \in S PROVE j + 1 \in S
  <2> SUFFICES ASSUME j + 1 <= b PROVE Fits(j + 1) /\ Alike(j + 1)
    OBVIOUS
  <2>1. Fits(j) /\ Alike(j)
    BY <1>3
  <2> DEFINE h == Size[b - (j + 1)]
             low == Level[j]
             slow == Sub[j]
  <2>2. h \in Nat /\ Size[b - j] = 2 * h
    <3>1. b - (j + 1) \in Nat /\ b - j = (b - (j + 1)) + 1
      OBVIOUS
    <3> QED BY <3>1, SizeIs
  <2>3. /\ low \in Seq(H) /\ slow \in Seq(H) /\ Len(slow) = 2 * h
        /\ Level[j + 1] = Pairs(low) /\ Sub[j + 1] = Pairs(slow)
    <3>1. j \in 0 .. b /\ Len(sub) = Size[b]
      BY DEF IsRun
    <3>2. Len(slow) = Size[b - j]
      BY <3>1, PerfectLevels DEF Sub
    <3> QED BY <1>1, <2>2, <3>2
  <2>4. (s + 1) * (2 * h) <= Len(low)
        /\ \A i \in 1 .. 2 * h : slow[i] = low[(s * (2 * h)) + i]
    BY <2>1, <2>2
  <2> HIDE DEF h, low, slow
  <2>5. s * (2 * h) = 2 * (s * h) /\ (s + 1) * (2 * h) = 2 * (s * h) + 2 * h /\ s * h \in Nat
        /\ (s + 1) * h = (s * h) + h
    BY <2>2
  <2>6. Len(low) \in Nat /\ 2 * (s * h) + 2 * h <= Len(low)
    BY <2>3, <2>4, <2>5
  <2>7. (s * h) + h <= Len(low) \div 2
    BY <2>2, <2>5, <2>6
  <2>8. /\ Len(Pairs(low)) = Len(low) \div 2
        /\ \A i \in 1 .. Len(low) \div 2 : Pairs(low)[i] = hash_internal(low[2 * i - 1], low[2 * i])
    BY <2>3, PairsAre
  <2>9. \A i \in 1 .. h : Pairs(slow)[i] = hash_internal(slow[2 * i - 1], slow[2 * i])
    <3>1. Len(slow) \div 2 = h
      BY <2>2, <2>3
    <3> QED BY <2>3, <3>1, PairsAre
  <2>10. ASSUME NEW i \in 1 .. h PROVE Pairs(slow)[i] = Pairs(low)[(s * h) + i]
    <3>1. (s * h) + i \in 1 .. Len(low) \div 2
      <4> DEFINE x == s * h
                 y == Len(low) \div 2
      <4>1. x \in Nat /\ y \in Nat /\ h \in Nat /\ x + h <= y
        BY <2>2, <2>5, <2>6, <2>7
      <4> HIDE DEF x, y
      <4>2. x + i \in 1 .. y
        BY <4>1
      <4> QED BY <4>2 DEF x, y
    <3>2. 2 * i - 1 \in 1 .. 2 * h /\ 2 * i \in 1 .. 2 * h
      BY <2>2
    <3>3. 2 * ((s * h) + i) - 1 = (s * (2 * h)) + (2 * i - 1)
          /\ 2 * ((s * h) + i) = (s * (2 * h)) + 2 * i
      BY <2>2, <2>5
    <3>4. slow[2 * i - 1] = low[2 * ((s * h) + i) - 1] /\ slow[2 * i] = low[2 * ((s * h) + i)]
      BY <2>4, <3>2, <3>3
    <3> QED BY <2>8, <2>9, <3>1, <3>4
  <2>11. Fits(j + 1)
    BY <2>3, <2>5, <2>7, <2>8 DEF h
  <2>12. Alike(j + 1)
    BY <2>3, <2>10 DEF h
  <2> QED BY <2>11, <2>12
<1> HIDE DEF S
<1>4. \A j \in Nat : j \in S
  BY <1>2, <1>3, Induction
<1>5. ASSUME NEW j \in Nat, j <= b PROVE IsRun(Sub[j], Level[j], s, Size[b - j])
  <2>1. j \in 0 .. b /\ Len(sub) = Size[b]
    BY <1>5 DEF IsRun
  <2>2. Len(Sub[j]) = Size[b - j]
    BY <2>1, PerfectLevels DEF Sub
  <2>3. Fits(j) /\ Alike(j)
    BY <1>4, <1>5 DEF S
  <2> QED BY <2>2, <2>3 DEF IsRun
<1> QED BY <1>5 DEF Level, Sub

(* A peak's leaves, and its root: the last node of its level.              *)
LEMMA SliceIs ==
  ASSUME NEW H, NEW leaves \in Seq(H), NEW start \in Nat, NEW size \in Nat,
         start + size <= Len(leaves)
  PROVE  /\ Slice(leaves, [start |-> start, size |-> size]) \in Seq(H)
         /\ Len(Slice(leaves, [start |-> start, size |-> size])) = size
         /\ \A i \in 1 .. size : Slice(leaves, [start |-> start, size |-> size])[i] = leaves[start + i]
<1> DEFINE a == start + 1
           z == start + size
<1>1. SubSeq(leaves, a, z) = [i \in 1 .. z - a + 1 |-> leaves[i + a - 1]]
  OBVIOUS
<1> QED
  BY <1>1 DEF Slice

(* perfect_root of a peak's slice (merkle.rs:157) is a node the levels of  *)
(* the whole tree have too.                                                *)
LEMMA PeakRoot ==
  ASSUME NEW H, Closed(H), NEW leaves \in Seq(H), NEW b \in Nat, Bit(Len(leaves), b)
  PROVE  /\ perfect_root(Slice(leaves, Peak(Len(leaves), b))) = Last(Levels(leaves)[b])
         /\ Last(Levels(leaves)[b]) \in H
<1> DEFINE n == Len(leaves)
           q == n \div Size[b]
           sub == Slice(leaves, Peak(n, b))
<1>0. n \in Nat
  OBVIOUS
<1> HIDE DEF n
<1>1. /\ q \in Nat \ {0} /\ Peak(n, b).size = Size[b] /\ Size[b] \in Nat \ {0}
      /\ Peak(n, b).start = (q - 1) * Size[b] /\ Peak(n, b).start \in Nat
      /\ Peak(n, b).start + Size[b] = q * Size[b]
      /\ Peak(n, b).start + Size[b] <= n
  BY <1>0, PeakPlace DEF n
<1> HIDE DEF q
<1>2. /\ sub \in Seq(H) /\ Len(sub) = Size[b]
      /\ \A i \in 1 .. Size[b] : sub[i] = leaves[Peak(n, b).start + i]
  <2>1. Peak(n, b) = [start |-> Peak(n, b).start, size |-> Size[b]]
    BY DEF Peak
  <2> QED BY <1>1, <2>1, SliceIs DEF n
<1>3. ((q - 1) + 1) * Size[b] <= Len(leaves) /\ q - 1 \in Nat
  <2>1. (q - 1) + 1 = q /\ q - 1 \in Nat
    BY <1>1
  <2> QED BY <1>1, <2>1 DEF n
<1> HIDE DEF sub
<1>4. IsRun(Levels(sub)[b], Levels(leaves)[b], q - 1, Size[b - b])
  <2>1. \A i \in 1 .. Size[b] : sub[i] = leaves[(q - 1) * Size[b] + i]
    BY <1>1, <1>2
  <2> DEFINE s == q - 1
  <2>2. s \in Nat /\ IsRun(sub, leaves, s, Size[b])
    BY <1>2, <1>3, <2>1 DEF IsRun
  <2> HIDE DEF s
  <2>3. IsRun(Levels(sub)[b], Levels(leaves)[b], s, Size[b - b])
    BY <1>2, <2>2, SubtreeLevels
  <2> QED BY <2>3 DEF s
<1>5. Size[b - b] = 1
  BY SizeIs
<1>6. Levels(sub)[b][1] = Levels(leaves)[b][q]
  <2>1. 1 \in 1 .. Size[b - b] /\ (q - 1) * Size[b - b] + 1 = q
    BY <1>1, <1>5
  <2> QED BY <1>4, <2>1 DEF IsRun
<1>7. perfect_root(sub) = Levels(sub)[b][1]
  BY <1>2, HeightOfSize DEF perfect_root
<1>8. Levels(leaves)[b] \in Seq(H) /\ Len(Levels(leaves)[b]) = q
  BY LevelsAre, LevelLength DEF q, n
<1>9. Last(Levels(leaves)[b]) = Levels(leaves)[b][q] /\ Levels(leaves)[b][q] \in H
  BY <1>1, <1>8 DEF Last
<1> QED BY <1>6, <1>7, <1>9 DEF sub, n
----------------------------------------------------------------------------
(* The loop of peak_bounds, one bit at a time.                             *)
PeakSet == [start : Nat, size : Nat]

(* It appends a peak for each set bit, from the highest down               *)
(* (merkle.rs:111-122).                                                    *)
LEMMA PeaksAre ==
  ASSUME NEW n \in Nat
  PROVE  /\ PeaksDownTo(n)[UsizeBits] = << >>
         /\ \A b \in 0 .. UsizeBits : PeaksDownTo(n)[b] \in Seq(PeakSet)
         /\ \A b \in 0 .. UsizeBits - 1 :
              PeaksDownTo(n)[b] = IF Bit(n, b) THEN Append(PeaksDownTo(n)[b + 1], Peak(n, b))
                                               ELSE PeaksDownTo(n)[b + 1]
<1> DEFINE B == UsizeBits
           Turn(f, b) == IF b = B THEN << >>
                         ELSE IF Bit(n, b) THEN Append(f[b + 1], Peak(n, b)) ELSE f[b + 1]
           step == [k \in 0 .. B - 1 |-> [v \in Seq(PeakSet) |->
                      IF Bit(n, B - 1 - k) THEN Append(v, Peak(n, B - 1 - k)) ELSE v]]
           Down == PeaksDownTo(n)
<1>0. B \in Nat /\ << >> \in Seq(PeakSet)
  BY UsizeBitsIsNat
<1> HIDE DEF B
<1>1. ASSUME NEW b \in Nat PROVE Peak(n, b) \in PeakSet
  <2>1. /\ Size[b + 1] \in Nat /\ Size[b + 1] > 0 /\ Size[b] \in Nat
    BY SizeGrows
  <2>2. (n \div Size[b + 1]) * Size[b + 1] \in Nat
    BY <2>1
  <2> QED BY <2>1, <2>2 DEF Peak, PeakSet
<1>2. PICK g : IsUpto(g, B, Seq(PeakSet), << >>, step)
  <2>1. ASSUME NEW k \in 0 .. B - 1, NEW v \in Seq(PeakSet), NEW p \in PeakSet
        PROVE (IF Bit(n, B - 1 - k) THEN Append(v, p) ELSE v) \in Seq(PeakSet)
    OBVIOUS
  <2>2. \A k \in 0 .. B - 1 : Peak(n, B - 1 - k) \in PeakSet
    BY <1>0, <1>1
  <2>3. step \in [0 .. B - 1 -> [Seq(PeakSet) -> Seq(PeakSet)]]
    BY <2>1, <2>2
  <2> HIDE DEF step
  <2> QED BY <1>0, <2>3, BoundedRecursion
<1>3. /\ g \in [0 .. B -> Seq(PeakSet)] /\ g[0] = << >>
      /\ \A k \in 0 .. B - 1 : g[k + 1] = step[k][g[k]]
  BY <1>2 DEF IsUpto
<1> DEFINE f == [b \in 0 .. B |-> g[B - b]]
<1>4. f = [b \in 0 .. B |-> Turn(f, b)]
  <2>1. ASSUME NEW b \in 0 .. B PROVE f[b] = Turn(f, b)
    <3>1. CASE b = B
      BY <3>1, <1>0, <1>3
    <3>2. CASE b # B
      <4> DEFINE k == B - b - 1
      <4>1. k \in 0 .. B - 1 /\ k \in 0 .. B /\ B - b = k + 1 /\ B - (b + 1) = k /\ B - 1 - k = b
            /\ b + 1 \in 0 .. B
        BY <1>0, <3>2
      <4> HIDE DEF k
      <4>2. g[k] \in Seq(PeakSet) /\ g[k + 1] = step[k][g[k]]
        BY <1>3, <4>1
      <4>3. g[k + 1] = IF Bit(n, b) THEN Append(g[k], Peak(n, b)) ELSE g[k]
        BY <4>1, <4>2
      <4>4. f[b] = g[k + 1] /\ f[b + 1] = g[k]
        BY <4>1
      <4> QED BY <3>2, <4>3, <4>4
    <3> QED BY <3>1, <3>2
  <2>2. f = [b \in 0 .. B |-> f[b]]
    OBVIOUS
  <2> HIDE DEF f, Turn
  <2> QED BY <2>1, <2>2
<1> HIDE DEF f
<1>5. Down = [b \in 0 .. B |-> Turn(Down, b)]
  BY <1>4 DEF PeaksDownTo, B
<1> HIDE DEF Down
<1>6. Down[B] = << >>
  BY <1>0, <1>5
<1>7. \A b \in 0 .. B - 1 :
        Down[b] = IF Bit(n, b) THEN Append(Down[b + 1], Peak(n, b)) ELSE Down[b + 1]
  <2>1. \A b \in 0 .. B - 1 : b \in 0 .. B /\ b # B
    BY <1>0
  <2>2. \A b \in 0 .. B - 1 : Down[b] = Turn(Down, b)
    <3> HIDE DEF Turn
    <3> QED BY <1>5, <2>1
  <2> QED BY <2>1, <2>2
<1>8. \A b \in 0 .. B : Down[b] \in Seq(PeakSet)
  <2> DEFINE S == {k \in Nat : k <= B => Down[B - k] \in Seq(PeakSet)}
  <2>1. 0 \in S
    <3>1. B - 0 = B /\ << >> \in Seq(PeakSet)
      BY <1>0
    <3> QED BY <1>6, <3>1
  <2>2. ASSUME NEW k \in Nat, k \in S PROVE k + 1 \in S
    <3> SUFFICES ASSUME k + 1 <= B PROVE Down[B - (k + 1)] \in Seq(PeakSet)
      OBVIOUS
    <3> DEFINE b == B - (k + 1)
    <3>1. b \in 0 .. B - 1 /\ b \in Nat /\ b + 1 = B - k
      BY <1>0
    <3>2. Down[b + 1] \in Seq(PeakSet)
      <4>1. Down[B - k] \in Seq(PeakSet)
        BY <1>0, <2>2
      <4> QED BY <3>1, <4>1
    <3> HIDE DEF b
    <3>3. Peak(n, b) \in PeakSet
      BY <1>1, <3>1
    <3>4. Append(Down[b + 1], Peak(n, b)) \in Seq(PeakSet)
      BY <3>2, <3>3
    <3>5. Down[b] \in Seq(PeakSet)
      BY <1>7, <3>1, <3>2, <3>4
    <3> QED BY <3>5 DEF b
  <2> HIDE DEF S
  <2>3. \A k \in Nat : k \in S
    BY <2>1, <2>2, Induction
  <2>4. ASSUME NEW b \in 0 .. B PROVE Down[b] \in Seq(PeakSet)
    <3>1. B - b \in Nat /\ B - b <= B /\ B - (B - b) = b
      BY <1>0
    <3> QED BY <2>3, <3>1 DEF S
  <2> QED BY <2>4
<1> QED BY <1>6, <1>7, <1>8 DEF Down, B

(* The roots of the peaks down to a bit.                                   *)
Roots(leaves, b) == PeakRoots(leaves, PeaksDownTo(Len(leaves))[b])

(* They are the last nodes of the levels of the set bits.                  *)
LEMMA RootsAre ==
  ASSUME NEW H, Closed(H), NEW leaves \in Seq(H)
  PROVE  /\ Roots(leaves, UsizeBits) = << >>
         /\ \A b \in 0 .. UsizeBits : Roots(leaves, b) \in Seq(H)
         /\ \A b \in 0 .. UsizeBits : Len(Roots(leaves, b)) = Len(PeaksDownTo(Len(leaves))[b])
         /\ \A b \in 0 .. UsizeBits - 1 :
              Roots(leaves, b) = IF Bit(Len(leaves), b)
                                 THEN Append(Roots(leaves, b + 1), Last(Levels(leaves)[b]))
                                 ELSE Roots(leaves, b + 1)
<1> DEFINE n == Len(leaves)
           B == UsizeBits
           Down == PeaksDownTo(n)
<1>0. n \in Nat /\ B \in Nat
  BY UsizeBitsIsNat
<1> HIDE DEF n, B
<1>1. /\ Down[B] = << >>
      /\ \A b \in 0 .. B : Down[b] \in Seq(PeakSet)
      /\ \A b \in 0 .. B - 1 :
           Down[b] = IF Bit(n, b) THEN Append(Down[b + 1], Peak(n, b)) ELSE Down[b + 1]
  BY <1>0, PeaksAre DEF B
<1> HIDE DEF Down
<1>2. Roots(leaves, B) = << >>
  BY <1>1 DEF Roots, PeakRoots, Down, n
<1>3. ASSUME NEW b \in 0 .. B - 1, Bit(n, b), Roots(leaves, b + 1) \in Seq(H)
      PROVE  Roots(leaves, b) = Append(Roots(leaves, b + 1), Last(Levels(leaves)[b]))
  <2> DEFINE ps == Down[b + 1]
             pk == Peak(n, b)
             more == Append(ps, pk)
             root1 == Last(Levels(leaves)[b])
             rs == [p \in DOMAIN ps |-> perfect_root(Slice(leaves, ps[p]))]
  <2>1. b \in Nat /\ b + 1 \in 0 .. B /\ b \in 0 .. B
    BY <1>0
  <2>2. ps \in Seq(PeakSet) /\ Down[b] = more /\ Down[b] \in Seq(PeakSet)
    BY <1>1, <1>3, <2>1
  <2>3. root1 \in H /\ perfect_root(Slice(leaves, pk)) = root1
    BY <1>3, <2>1, PeakRoot DEF n
  <2> HIDE DEF root1, pk
  <2>4. Roots(leaves, b + 1) = rs
    BY DEF Roots, PeakRoots, Down, n
  <2> HIDE DEF ps
  <2>5. /\ Len(ps) \in Nat /\ DOMAIN ps = 1 .. Len(ps) /\ DOMAIN more = 1 .. Len(ps) + 1
        /\ more[Len(ps) + 1] = pk /\ \A p \in 1 .. Len(ps) : more[p] = ps[p]
    BY <2>2
  <2>6. Roots(leaves, b) = [p \in DOMAIN more |-> perfect_root(Slice(leaves, more[p]))]
    BY <2>2 DEF Roots, PeakRoots, Down, n
  <2> HIDE DEF more
  <2>7. rs \in Seq(H) /\ Len(rs) = Len(ps) /\ \A p \in 1 .. Len(ps) : rs[p] = perfect_root(Slice(leaves, ps[p]))
    BY <1>3, <2>4, <2>5
  <2> HIDE DEF rs
  <2> DEFINE new == Append(rs, root1)
  <2>8. new \in Seq(H) /\ new = [p \in 1 .. Len(ps) + 1 |-> IF p = Len(ps) + 1 THEN root1 ELSE rs[p]]
    <3>1. /\ new \in Seq(H) /\ Len(new) = Len(ps) + 1 /\ new[Len(ps) + 1] = root1
          /\ \A p \in 1 .. Len(ps) : new[p] = rs[p]
      BY <2>3, <2>7
    <3>3. \A p \in 1 .. Len(ps) + 1 : new[p] = IF p = Len(ps) + 1 THEN root1 ELSE rs[p]
      BY <2>5, <3>1
    <3> HIDE DEF new
    <3>2. new = [p \in 1 .. Len(ps) + 1 |-> new[p]]
      BY <3>1, LenProperties
    <3> QED BY <3>1, <3>2, <3>3
  <2>9. Roots(leaves, b) = new
    <3>1. \A p \in 1 .. Len(ps) + 1 : perfect_root(Slice(leaves, more[p])) = IF p = Len(ps) + 1 THEN root1 ELSE rs[p]
      BY <2>3, <2>5, <2>7
    <3> QED BY <2>5, <2>6, <2>8, <3>1
  <2> QED BY <2>4, <2>9 DEF new, root1
<1>4. ASSUME NEW b \in 0 .. B - 1, ~ Bit(n, b)
      PROVE  Roots(leaves, b) = Roots(leaves, b + 1)
  BY <1>1, <1>4 DEF Roots, Down, n
<1>5. \A b \in 0 .. B : Roots(leaves, b) \in Seq(H)
  <2> DEFINE S == {k \in Nat : k <= B => Roots(leaves, B - k) \in Seq(H)}
  <2>1. 0 \in S
    BY <1>0, <1>2
  <2>2. ASSUME NEW k \in Nat, k \in S PROVE k + 1 \in S
    <3> SUFFICES ASSUME k + 1 <= B PROVE Roots(leaves, B - (k + 1)) \in Seq(H)
      OBVIOUS
    <3> DEFINE b == B - (k + 1)
    <3>1. b \in 0 .. B - 1 /\ b \in Nat /\ b + 1 = B - k
      BY <1>0
    <3>2. Roots(leaves, b + 1) \in Seq(H)
      <4>1. Roots(leaves, B - k) \in Seq(H)
        BY <1>0, <2>2
      <4> QED BY <3>1, <4>1
    <3> HIDE DEF b
    <3>3. CASE Bit(n, b)
      <4>1. Last(Levels(leaves)[b]) \in H
        BY <3>1, <3>3, PeakRoot DEF n
      <4>2. Roots(leaves, b) = Append(Roots(leaves, b + 1), Last(Levels(leaves)[b]))
        BY <1>3, <3>1, <3>2, <3>3
      <4>3. Append(Roots(leaves, b + 1), Last(Levels(leaves)[b])) \in Seq(H)
        BY <3>2, <4>1
      <4> QED BY <4>2, <4>3 DEF b
    <3>4. CASE ~ Bit(n, b)
      BY <1>4, <3>1, <3>2, <3>4 DEF b
    <3> QED BY <3>3, <3>4
  <2> HIDE DEF S
  <2>3. \A k \in Nat : k \in S
    BY <2>1, <2>2, Induction
  <2>4. ASSUME NEW b \in 0 .. B PROVE Roots(leaves, b) \in Seq(H)
    <3>1. B - b \in Nat /\ B - b <= B /\ B - (B - b) = b
      BY <1>0
    <3> QED BY <2>3, <3>1 DEF S
  <2> QED BY <2>4
<1>6. ASSUME NEW b \in 0 .. B PROVE Len(Roots(leaves, b)) = Len(Down[b])
  <2>1. Down[b] \in Seq(PeakSet) /\ Roots(leaves, b) = [p \in DOMAIN Down[b] |-> perfect_root(Slice(leaves, Down[b][p]))]
    BY <1>1 DEF Roots, PeakRoots, Down, n
  <2>2. DOMAIN Roots(leaves, b) = 1 .. Len(Down[b]) /\ Len(Down[b]) \in Nat
    BY <2>1
  <2>3. Roots(leaves, b) \in Seq(H)
    BY <1>5
  <2> QED BY <2>2, <2>3
<1>7. ASSUME NEW b \in 0 .. B - 1
      PROVE  Roots(leaves, b) = IF Bit(n, b) THEN Append(Roots(leaves, b + 1), Last(Levels(leaves)[b]))
                                             ELSE Roots(leaves, b + 1)
  <2>1. b + 1 \in 0 .. B
    BY <1>0
  <2>2. Roots(leaves, b + 1) \in Seq(H)
    BY <1>5, <2>1
  <2> QED BY <1>3, <1>4, <2>2
<1> QED BY <1>2, <1>5, <1>6, <1>7 DEF B, n, Down
----------------------------------------------------------------------------
(* The loop of add_leaf ends, at the lowest bit that is not set            *)
(* (merkle.rs:49-55).                                                      *)
LEMMA TrailingOnesIs ==
  ASSUME NEW n \in Nat
  PROVE  /\ TrailingOnes(n) \in Nat /\ ~ Bit(n, TrailingOnes(n))
         /\ \A k \in 0 .. TrailingOnes(n) - 1 : Bit(n, k)
<1> DEFINE T == {k \in Nat : ~ Bit(n, k)}
<1>1. n \in T
  BY SizeGrows, NoHighBit
<1>2. PICK t \in T : \A y \in T : ~ (y < t)
  BY <1>1, LeastNumber
<1>3. t \in 0 .. n /\ ~ Bit(n, t) /\ \A k \in 0 .. t - 1 : Bit(n, k)
  BY <1>1, <1>2
<1>4. \E u \in 0 .. n : ~ Bit(n, u) /\ \A k \in 0 .. u - 1 : Bit(n, k)
  BY <1>3
<1>5. TrailingOnes(n) \in 0 .. n /\ ~ Bit(n, TrailingOnes(n))
      /\ \A k \in 0 .. TrailingOnes(n) - 1 : Bit(n, k)
  BY <1>4 DEF TrailingOnes
<1> QED BY <1>5

(* The last element of a sequence, and the rest.                           *)
LEMMA FrontLast ==
  ASSUME NEW H, NEW s \in Seq(H), NEW e \in H
  PROVE  /\ Append(s, e) \in Seq(H) /\ Append(s, e) # << >>
         /\ Front(Append(s, e)) = s /\ Last(Append(s, e)) = e
<1> DEFINE a == Append(s, e)
           m == Len(s)
<1>1. /\ a \in Seq(H) /\ a # << >> /\ Len(a) = m + 1 /\ a[m + 1] = e /\ m \in Nat
      /\ \A i \in 1 .. m : a[i] = s[i]
  BY AppendProperties
<1>2. s = [i \in 1 .. m |-> s[i]]
  BY LenProperties
<1> HIDE DEF a, m
<1>3. SubSeq(a, 1, m) = [i \in 1 .. m |-> a[i]]
  <2>1. SubSeq(a, 1, m) = [i \in 1 .. m - 1 + 1 |-> a[i + 1 - 1]]
    BY <1>1
  <2>2. m - 1 + 1 = m /\ \A i \in 1 .. m : i + 1 - 1 = i
    BY <1>1
  <2> QED BY <2>1, <2>2
<1>4. SubSeq(a, 1, m) = s
  BY <1>1, <1>2, <1>3
<1>5. Len(a) - 1 = m
  BY <1>1
<1>6. Front(a) = s /\ Last(a) = e
  BY <1>1, <1>4, <1>5 DEF Front, Last
<1> QED BY <1>1, <1>6 DEF a

(* The last two roots of a stack become one.                               *)
Paired(stack) == Append(Front(Front(stack)), hash_internal(Last(Front(stack)), Last(stack)))

(* That is one turn of the loop of add_leaf (merkle.rs:51-53).             *)
LEMMA PairedIs ==
  ASSUME NEW H, Closed(H), NEW rs \in Seq(H), NEW l \in H, NEW r \in H
  PROVE  Paired(Append(Append(rs, l), r)) = Append(rs, hash_internal(l, r))
<1>1. Append(rs, l) \in Seq(H) /\ Front(Append(rs, l)) = rs /\ Last(Append(rs, l)) = l
  BY FrontLast
<1> DEFINE one == Append(rs, l)
<1> HIDE DEF one
<1>2. one \in Seq(H) /\ Front(one) = rs /\ Last(one) = l
  BY <1>1 DEF one
<1>3. Front(Append(one, r)) = one /\ Last(Append(one, r)) = r
  BY <1>2, FrontLast
<1> QED BY <1>2, <1>3 DEF Paired, one

(* The loop of add_leaf.                                                   *)
IsLoop(f, H, stack, x, t) ==
  /\ f \in [0 .. t -> Seq(H)] /\ f[0] = Append(stack, x)
  /\ \A k \in 0 .. t - 1 : f[k + 1] = Paired(f[k])

(* What add_leaf returns is where the turns of its loop lead.              *)
LEMMA AddLeafIs ==
  ASSUME NEW H, NEW h, NEW x \in H, NEW t \in Nat, TrailingOnes(h.leaf_count) = t,
         NEW f, IsLoop(f, H, h.stack, x, t)
  PROVE  add_leaf(h, x) = [stack |-> f[t], leaf_count |-> h.leaf_count + 1]
<1> DEFINE Pair(s) == Append(Front(Front(s)), hash_internal(Last(Front(s)), Last(s)))
           Turn(g, k) == IF k = 0 THEN Append(h.stack, x) ELSE Pair(g[k - 1])
           Folded == CHOOSE g : g = [k \in 0 .. t |-> Turn(g, k)]
<1>0. f \in [0 .. t -> Seq(H)] /\ f[0] = Append(h.stack, x) /\ \A k \in 0 .. t - 1 : f[k + 1] = Paired(f[k])
  BY DEF IsLoop
<1>1. f = [k \in 0 .. t |-> Turn(f, k)]
  <2>1. ASSUME NEW k \in 0 .. t PROVE f[k] = Turn(f, k)
    <3>1. CASE k = 0
      BY <1>0, <3>1
    <3>2. CASE k # 0
      <4>1. k - 1 \in 0 .. t - 1 /\ k = (k - 1) + 1
        BY <3>2
      <4>2. f[(k - 1) + 1] = Paired(f[k - 1])
        BY <1>0, <4>1
      <4> QED BY <3>2, <4>1, <4>2 DEF Paired
    <3> QED BY <3>1, <3>2
  <2>2. f = [k \in 0 .. t |-> f[k]]
    BY <1>0
  <2> HIDE DEF Turn
  <2> QED BY <2>1, <2>2
<1>2. Folded = [k \in 0 .. t |-> Turn(Folded, k)]
  BY <1>1
<1>3. add_leaf(h, x) = [stack |-> Folded[t], leaf_count |-> h.leaf_count + 1]
  BY DEF add_leaf
<1> HIDE DEF Folded
<1>4. Folded[0] = f[0]
  BY <1>0, <1>2
<1>5. ASSUME NEW k \in 0 .. t - 1 PROVE Folded[k + 1] = Paired(Folded[k])
  <2>1. k + 1 \in 0 .. t /\ k + 1 # 0 /\ (k + 1) - 1 = k
    OBVIOUS
  <2>2. Folded[k + 1] = Turn(Folded, k + 1)
    <3> HIDE DEF Turn
    <3> QED BY <1>2, <2>1
  <2> QED BY <2>1, <2>2 DEF Paired
<1> DEFINE S == {k \in Nat : k <= t => Folded[k] = f[k]}
<1>6. 0 \in S
  BY <1>4
<1>7. ASSUME NEW k \in Nat, k \in S PROVE k + 1 \in S
  <2> SUFFICES ASSUME k + 1 <= t PROVE Folded[k + 1] = f[k + 1]
    OBVIOUS
  <2>1. k \in 0 .. t - 1 /\ Folded[k] = f[k]
    BY <1>7
  <2> QED BY <1>0, <1>5, <2>1
<1> HIDE DEF S
<1>8. t \in S
  BY <1>6, <1>7, Induction
<1>9. Folded[t] = f[t]
  BY <1>8 DEF S
<1> QED BY <1>3, <1>9

(* Leaves that have the same levels from a bit up have the same roots down *)
(* to it.                                                                  *)
LEMMA SameRoots ==
  ASSUME NEW H, Closed(H), NEW s \in Seq(H), NEW r \in Seq(H), NEW b \in 0 .. UsizeBits,
         \A k \in Nat : k >= b => Levels(s)[k] = Levels(r)[k]
  PROVE  Roots(s, b) = Roots(r, b)
<1> DEFINE B == UsizeBits
           S == {k \in Nat : k <= B - b => Roots(s, B - k) = Roots(r, B - k)}
<1>0. B \in Nat /\ b \in 0 .. B
  BY UsizeBitsIsNat
<1> HIDE DEF B
<1>1. Roots(s, B) = << >> /\ Roots(r, B) = << >>
  BY RootsAre DEF B
<1>2. 0 \in S
  <2>1. B - 0 = B
    BY <1>0
  <2> QED BY <1>1, <2>1
<1>3. ASSUME NEW k \in Nat, k \in S PROVE k + 1 \in S
  <2> SUFFICES ASSUME k + 1 <= B - b PROVE Roots(s, B - (k + 1)) = Roots(r, B - (k + 1))
    OBVIOUS
  <2> DEFINE a == B - (k + 1)
  <2>1. a \in 0 .. B - 1 /\ a \in Nat /\ a + 1 = B - k /\ a >= b /\ k <= B - b
    BY <1>0
  <2>2. Roots(s, B - k) = Roots(r, B - k)
    BY <1>3, <2>1
  <2>3. Roots(s, a + 1) = Roots(r, a + 1)
    BY <2>1, <2>2
  <2> HIDE DEF a
  <2>4. Levels(s)[a] = Levels(r)[a]
    BY <2>1
  <2>5. Bit(Len(s), a) <=> Bit(Len(r), a)
    <3>1. Len(s) \div Size[a] = Len(Levels(s)[a]) /\ Len(r) \div Size[a] = Len(Levels(r)[a])
      BY <2>1, LevelLength
    <3> QED BY <2>4, <3>1 DEF Bit
  <2>6. /\ Roots(s, a) = IF Bit(Len(s), a) THEN Append(Roots(s, a + 1), Last(Levels(s)[a])) ELSE Roots(s, a + 1)
        /\ Roots(r, a) = IF Bit(Len(r), a) THEN Append(Roots(r, a + 1), Last(Levels(r)[a])) ELSE Roots(r, a + 1)
    BY <2>1, RootsAre DEF B
  <2>7. Roots(s, a) = Roots(r, a)
    BY <2>3, <2>4, <2>5, <2>6
  <2> QED BY <2>7 DEF a
<1> HIDE DEF S
<1>4. B - b \in S
  <2>1. B - b \in Nat
    BY <1>0
  <2> QED BY <1>2, <1>3, <2>1, Induction
<1>5. Roots(s, B - (B - b)) = Roots(r, B - (B - b))
  <2>1. B - b \in Nat /\ B - b <= B - b
    BY <1>0
  <2> QED BY <1>4, <2>1 DEF S
<1>6. B - (B - b) = b
  BY <1>0
<1> QED BY <1>5, <1>6

(* Nor do unset bits give any.                                             *)
LEMMA NoRoots ==
  ASSUME NEW H, Closed(H), NEW s \in Seq(H), NEW t \in 0 .. UsizeBits,
         \A k \in 0 .. t - 1 : ~ Bit(Len(s), k)
  PROVE  Roots(s, 0) = Roots(s, t)
<1> DEFINE S == {k \in Nat : k <= t => Roots(s, 0) = Roots(s, k)}
<1>0. t \in Nat /\ t <= UsizeBits /\ UsizeBits \in Nat
  BY UsizeBitsIsNat
<1>1. 0 \in S
  OBVIOUS
<1>2. ASSUME NEW k \in Nat, k \in S PROVE k + 1 \in S
  <2> SUFFICES ASSUME k + 1 <= t PROVE Roots(s, 0) = Roots(s, k + 1)
    OBVIOUS
  <2>1. k \in 0 .. t - 1 /\ k \in 0 .. UsizeBits - 1 /\ Roots(s, 0) = Roots(s, k)
    BY <1>0, <1>2
  <2>2. Roots(s, k) = Roots(s, k + 1)
    BY <2>1, RootsAre
  <2> QED BY <2>1, <2>2
<1> HIDE DEF S
<1>3. t \in S
  BY <1>0, <1>1, <1>2, Induction
<1> QED BY <1>3 DEF S
----------------------------------------------------------------------------
(* The hasher that has got these leaves.                                   *)
HasherOf(leaves) == [stack |-> Roots(leaves, 0), leaf_count |-> Len(leaves)]

(* Without leaves it is the new one (merkle.rs:40-44).                     *)
LEMMA HasherOfNone ==
  ASSUME NEW H, Closed(H)
  PROVE  Hasher = HasherOf(<< >>) /\ << >> \in Seq(H)
<1>1. << >> \in Seq(H) /\ Len(<< >>) = 0 /\ UsizeBits \in 0 .. UsizeBits
  BY UsizeBitsIsNat
<1>2. \A k \in 0 .. UsizeBits - 1 : ~ Bit(Len(<< >>), k)
  <2>1. \A k \in Nat : ~ Bit(0, k)
    BY SizeGrows, NoHighBit
  <2> QED BY <1>1, <2>1
<1>3. Roots(<< >>, UsizeBits) = << >>
  BY <1>1, RootsAre
<1>4. Roots(<< >>, 0) = Roots(<< >>, UsizeBits)
  BY <1>1, <1>2, NoRoots
<1> QED BY <1>1, <1>3, <1>4 DEF Hasher, HasherOf

(* Odd and even take turns.                                                *)
LEMMA OddEven ==
  ASSUME NEW m \in Nat
  PROVE  /\ m % 2 = 1 => (m + 1) % 2 = 0
         /\ m % 2 # 1 => (m + 1) % 2 = 1
OBVIOUS

(* One more leaf: the hasher of n leaves becomes that of n + 1, so the     *)
(* stack holds the peaks' roots at all times (merkle.rs:36-37).            *)
LEMMA AddLeaf ==
  ASSUME NEW H, Closed(H), NEW leaves \in Seq(H), NEW x \in H, Len(leaves) + 1 < Size[UsizeBits]
  PROVE  /\ Append(leaves, x) \in Seq(H) /\ Len(Append(leaves, x)) = Len(leaves) + 1
         /\ add_leaf(HasherOf(leaves), x) = HasherOf(Append(leaves, x))
<1> DEFINE B == UsizeBits
           n == Len(leaves)
           t == TrailingOnes(n)
           more == Append(leaves, x)
           Level == Levels(leaves)
           More == Levels(more)
<1>0. n \in Nat /\ B \in Nat /\ more \in Seq(H) /\ Len(more) = n + 1
  BY UsizeBitsIsNat
<1>1. t \in Nat /\ ~ Bit(n, t) /\ \A k \in 0 .. t - 1 : Bit(n, k)
  BY <1>0, TrailingOnesIs
<1> HIDE DEF t
<1>2. PICK c \in [0 .. t -> H] : IsCarry(c, leaves, x, t)
  BY <1>1, CarryExists
<1>3. /\ \A k \in 0 .. t : More[k] = Append(Level[k], c[k])
      /\ \A k \in Nat : k > t => More[k] = Level[k]
  BY <1>1, <1>2, CarryGoesUp
<1>4. c[0] = x /\ \A k \in 0 .. t - 1 : c[k + 1] = hash_internal(Last(Level[k]), c[k])
  BY <1>2 DEF IsCarry
<1> HIDE DEF more, Level, More
<1>5. \A k \in Nat : /\ Level[k] \in Seq(H) /\ Len(Level[k]) = n \div Size[k]
                     /\ More[k] \in Seq(H) /\ Len(More[k]) = (n + 1) \div Size[k]
  <2>1. \A k \in Nat : Level[k] \in Seq(H) /\ More[k] \in Seq(H)
    BY <1>0, LevelsAre DEF Level, More
  <2>2. \A k \in Nat : Len(Level[k]) = Len(leaves) \div Size[k]
    BY LevelLength DEF Level
  <2>3. \A k \in Nat : Len(More[k]) = Len(more) \div Size[k]
    BY <1>0, LevelLength DEF More
  <2> HIDE DEF n
  <2> QED BY <1>0, <2>1, <2>2, <2>3 DEF n
(* The carry stops below the highest bit.                                  *)
<1>6. t < B
  <2> SUFFICES ASSUME ~ (t < B) PROVE FALSE
    OBVIOUS
  <2>1. B \in 0 .. t
    BY <1>0, <1>1
  <2>2. More[B] = Append(Level[B], c[B]) /\ c[B] \in H
    BY <1>3, <2>1
  <2>3. Len(More[B]) = Len(Level[B]) + 1 /\ Len(Level[B]) \in Nat
    BY <1>0, <1>5, <2>2
  <2>4. (n + 1) \div Size[B] = 0
    BY <1>0, NoHighBit DEF B, n
  <2> QED BY <1>0, <1>5, <2>3, <2>4
(* The bits of n + 1.                                                      *)
<1>7. \A k \in 0 .. t - 1 : ~ Bit(n + 1, k)
  <2> SUFFICES ASSUME NEW k \in 0 .. t - 1 PROVE ~ Bit(n + 1, k)
    OBVIOUS
  <2>1. k \in Nat /\ k \in 0 .. t /\ c[k] \in H /\ Bit(n, k)
    BY <1>1
  <2>2. Len(More[k]) = Len(Level[k]) + 1 /\ Len(Level[k]) \in Nat
    BY <1>3, <1>5, <2>1
  <2>3. Len(Level[k]) % 2 = 1
    BY <1>5, <2>1 DEF Bit
  <2>4. (Len(Level[k]) + 1) % 2 = 0
    BY <2>2, <2>3, OddEven
  <2>5. ((n + 1) \div Size[k]) % 2 = 0
    BY <1>5, <2>1, <2>2, <2>4
  <2> QED BY <2>5 DEF Bit
<1>8. Bit(n + 1, t)
  <2>1. t \in 0 .. t /\ c[t] \in H
    BY <1>1
  <2>2. Len(More[t]) = Len(Level[t]) + 1 /\ Len(Level[t]) \in Nat
    BY <1>1, <1>3, <1>5, <2>1
  <2>3. Len(Level[t]) % 2 # 1
    BY <1>1, <1>5 DEF Bit
  <2>4. (Len(Level[t]) + 1) % 2 = 1
    BY <2>2, <2>3, OddEven
  <2> QED BY <1>1, <1>5, <2>2, <2>4 DEF Bit
(* The roots: those above the carry stay, and it is the last.              *)
<1>9. Roots(more, 0) = Append(Roots(leaves, t + 1), c[t])
  <2>1. t + 1 \in 0 .. B /\ t \in 0 .. B - 1 /\ t \in 0 .. B /\ t \in 0 .. t /\ c[t] \in H
    BY <1>0, <1>1, <1>6
  <2>2. Roots(more, t + 1) = Roots(leaves, t + 1)
    <3>1. \A k \in Nat : k >= t + 1 => Levels(more)[k] = Levels(leaves)[k]
      BY <1>1, <1>3 DEF More, Level
    <3> QED BY <1>0, <2>1, <3>1, SameRoots DEF B
  <2>3. Roots(more, t) = Append(Roots(more, t + 1), Last(More[t]))
    BY <1>0, <1>8, <2>1, RootsAre DEF More, B
  <2>4. Last(More[t]) = c[t]
    <3>1. More[t] = Append(Level[t], c[t]) /\ Level[t] \in Seq(H)
      BY <1>1, <1>3, <1>5, <2>1
    <3> QED BY <2>1, <3>1, FrontLast
  <2>5. Roots(more, 0) = Roots(more, t)
    BY <1>0, <1>7, <2>1, NoRoots DEF B
  <2> QED BY <2>2, <2>3, <2>4, <2>5
<1> DEFINE f == [k \in 0 .. t |-> Append(Roots(leaves, k), c[k])]
<1>10. \A k \in 0 .. t + 1 : k \in 0 .. B /\ Roots(leaves, k) \in Seq(H)
  <2> SUFFICES ASSUME NEW k \in 0 .. t + 1 PROVE k \in 0 .. B /\ Roots(leaves, k) \in Seq(H)
    OBVIOUS
  <2>1. k \in 0 .. B
    BY <1>0, <1>1, <1>6
  <2> QED BY <2>1, RootsAre DEF B
<1>11. f \in [0 .. t -> Seq(H)]
  <2>1. ASSUME NEW k \in 0 .. t PROVE Append(Roots(leaves, k), c[k]) \in Seq(H)
    <3>1. k \in 0 .. t + 1 /\ c[k] \in H
      BY <1>1
    <3>2. Roots(leaves, k) \in Seq(H)
      BY <1>10, <3>1
    <3> QED BY <3>1, <3>2
  <2> QED BY <2>1
<1>12. ASSUME NEW k \in 0 .. t - 1 PROVE f[k + 1] = Paired(f[k])
  <2> DEFINE rs == Roots(leaves, k + 1)
             l == Last(Level[k])
  <2>1. k \in Nat /\ k \in 0 .. t /\ k + 1 \in 0 .. t /\ k + 1 \in 0 .. t + 1 /\ k \in 0 .. B - 1 /\ c[k] \in H /\ Bit(n, k)
    BY <1>0, <1>1, <1>6
  <2>2. rs \in Seq(H)
    BY <1>10, <2>1
  <2>3. l \in H
    BY <2>1, PeakRoot DEF Level, n
  <2>4. Roots(leaves, k) = Append(rs, l)
    BY <2>1, RootsAre DEF Level, n, B
  <2>5. c[k + 1] = hash_internal(l, c[k])
    BY <1>4
  <2>6. f[k] = Append(Append(rs, l), c[k]) /\ f[k + 1] = Append(rs, hash_internal(l, c[k]))
    BY <2>1, <2>4, <2>5
  <2> HIDE DEF rs, l, f
  <2>7. Paired(Append(Append(rs, l), c[k])) = Append(rs, hash_internal(l, c[k]))
    BY <2>1, <2>2, <2>3, PairedIs
  <2> QED BY <2>6, <2>7
<1>13. f[0] = Append(Roots(leaves, 0), x) /\ f[t] = Append(Roots(leaves, t), c[t])
  BY <1>1, <1>4
<1> HIDE DEF f
<1>14. add_leaf(HasherOf(leaves), x) = [stack |-> f[t], leaf_count |-> n + 1]
  <2>1. Roots(leaves, 0) \in Seq(H)
    BY <1>1, <1>10
  <2> DEFINE h == HasherOf(leaves)
  <2>2. h.stack = Roots(leaves, 0) /\ h.leaf_count = n
    BY DEF HasherOf, n
  <2> HIDE DEF h, n
  <2>3. IsLoop(f, H, h.stack, x, t)
    BY <1>11, <1>12, <1>13, <2>2 DEF IsLoop
  <2>4. TrailingOnes(h.leaf_count) = t
    BY <2>2 DEF t
  <2>5. t \in Nat
    BY <1>1
  <2>6. add_leaf(h, x) = [stack |-> f[t], leaf_count |-> h.leaf_count + 1]
    BY <2>3, <2>4, <2>5, AddLeafIs
  <2> QED BY <2>2, <2>6 DEF h
<1>15. Roots(leaves, t) = Roots(leaves, t + 1)
  <2>1. t \in 0 .. B - 1
    BY <1>0, <1>1, <1>6
  <2> QED BY <1>1, <2>1, RootsAre DEF n, B
<1>16. HasherOf(more) = [stack |-> f[t], leaf_count |-> n + 1]
  BY <1>0, <1>9, <1>13, <1>15 DEF HasherOf
<1> QED BY <1>0, <1>14, <1>16 DEF more, n
----------------------------------------------------------------------------
(* The peaks lie side by side, from the first leaf to the last.            *)
Tiles(ps, m) ==
  /\ ps \in Seq(PeakSet) /\ m \in Nat
  /\ ps = << >> => m = 0
  /\ ps # << >> => ps[1].start = 0 /\ ps[Len(ps)].start + ps[Len(ps)].size = m
  /\ \A p \in 1 .. Len(ps) - 1 : ps[p].start + ps[p].size = ps[p + 1].start

(* One more peak goes where the others end.                                *)
LEMMA TilesOfMore ==
  ASSUME NEW ps, NEW m, Tiles(ps, m), NEW pk \in PeakSet, pk.start = m
  PROVE  Tiles(Append(ps, pk), m + pk.size)
<1> DEFINE more == Append(ps, pk)
           n == Len(ps)
<1>1. ps \in Seq(PeakSet) /\ n \in Nat /\ m \in Nat
  BY DEF Tiles
<1>2. /\ more \in Seq(PeakSet) /\ Len(more) = n + 1 /\ more # << >> /\ more[n + 1] = pk
      /\ \A p \in 1 .. n : more[p] = ps[p]
  BY <1>1, AppendProperties
<1>3. pk.size \in Nat
  BY DEF PeakSet
<1> HIDE DEF more
<1>4. more[1].start = 0
  <2>1. CASE ps = << >>
    BY <1>1, <1>2, <2>1 DEF Tiles
  <2>2. CASE ps # << >>
    <3>1. 1 \in 1 .. n
      BY <1>1, <2>2
    <3> QED BY <1>2, <2>2, <3>1 DEF Tiles
  <2> QED BY <2>1, <2>2
<1>5. ASSUME NEW p \in 1 .. Len(more) - 1 PROVE more[p].start + more[p].size = more[p + 1].start
  <2>1. CASE p = n
    <3>1. ps # << >> /\ n \in 1 .. n
      BY <1>1, <1>2, <2>1
    <3>2. ps[n].start + ps[n].size = m
      BY <3>1 DEF Tiles
    <3> QED BY <1>2, <2>1, <3>1, <3>2
  <2>2. CASE p # n
    <3>1. p \in 1 .. n - 1 /\ p \in 1 .. n /\ p + 1 \in 1 .. n
      BY <1>1, <1>2, <2>2
    <3>2. ps[p].start + ps[p].size = ps[p + 1].start
      BY <3>1 DEF Tiles
    <3>3. more[p] = ps[p] /\ more[p + 1] = ps[p + 1]
      BY <1>2, <3>1
    <3> QED BY <3>2, <3>3
  <2> QED BY <2>1, <2>2
<1>6. more[Len(more)].start + more[Len(more)].size = m + pk.size /\ m + pk.size \in Nat
  BY <1>1, <1>2, <1>3
<1>7. Tiles(more, m + pk.size)
  BY <1>2, <1>4, <1>5, <1>6 DEF Tiles
<1> QED BY <1>7 DEF more

(* Every peak is that of a bit.                                            *)
LEMMA PeaksTile ==
  ASSUME NEW n \in Nat, n < Size[UsizeBits]
  PROVE  /\ Tiles(peak_bounds(n), n)
         /\ \A p \in 1 .. Len(peak_bounds(n)) :
              \E b \in 0 .. UsizeBits - 1 : Bit(n, b) /\ peak_bounds(n)[p] = Peak(n, b)
<1> DEFINE B == UsizeBits
           Down == PeaksDownTo(n)
           OfBits(b) == \A p \in 1 .. Len(Down[b]) : \E a \in 0 .. B - 1 : Bit(n, a) /\ Down[b][p] = Peak(n, a)
           Fine(b) == Tiles(Down[b], (n \div Size[b]) * Size[b]) /\ OfBits(b)
           S == {k \in Nat : k <= B => Fine(B - k)}
<1>0. B \in Nat
  BY UsizeBitsIsNat
<1>1. /\ Down[B] = << >>
      /\ \A b \in 0 .. B : Down[b] \in Seq(PeakSet)
      /\ \A b \in 0 .. B - 1 :
           Down[b] = IF Bit(n, b) THEN Append(Down[b + 1], Peak(n, b)) ELSE Down[b + 1]
  BY PeaksAre
<1>2. Fine(B)
  <2>1. n \div Size[B] = 0 /\ Size[B] \in Nat
    BY <1>0, NoHighBit, SizeGrows
  <2>2. (n \div Size[B]) * Size[B] = 0
    BY <2>1
  <2>3. << >> \in Seq(PeakSet) /\ Len(<< >>) = 0
    OBVIOUS
  <2> QED BY <1>1, <2>2, <2>3 DEF Tiles
<1> HIDE DEF Down, B
<1>3. ASSUME NEW b \in 0 .. B - 1, Fine(b + 1) PROVE Fine(b)
  <2>1. b \in Nat /\ b \in 0 .. B /\ b + 1 \in 0 .. B /\ b + 1 \in Nat
    BY <1>0
  <2>2. /\ Size[b] \in Nat \ {0} /\ Size[b + 1] = 2 * Size[b]
        /\ n \div Size[b + 1] = (n \div Size[b]) \div 2 /\ n \div Size[b] \in Nat
    <3>1. Size[b] \in Nat /\ b < Size[b] /\ Size[b + 1] = 2 * Size[b]
      BY <2>1, SizeIs, SizeGrows
    <3>2. Size[b] \in Nat \ {0}
      BY <2>1, <3>1
    <3> QED BY <2>1, <3>1, <3>2, DivSize
  <2>3. CASE ~ Bit(n, b)
    <3> DEFINE q == n \div Size[b]
               m == Size[b]
    <3>1. q \in Nat /\ m \in Nat /\ q % 2 # 1
      BY <2>2, <2>3 DEF Bit
    <3> HIDE DEF q, m
    <3>2. q = 2 * (q \div 2) /\ q \div 2 \in Nat
      BY <3>1
    <3>3. (q \div 2) * (2 * m) = q * m
      BY <3>1, <3>2
    <3>4. (n \div Size[b + 1]) * Size[b + 1] = (n \div Size[b]) * Size[b]
      BY <2>2, <3>3 DEF q, m
    <3> QED BY <1>1, <1>3, <2>3, <3>4
  <2>4. CASE Bit(n, b)
    <3> DEFINE pk == Peak(n, b)
    <3>1. /\ pk.size = Size[b] /\ pk.start \in Nat
          /\ pk.start + Size[b] = (n \div Size[b]) * Size[b]
      BY <2>1, <2>4, PeakPlace
    <3>2. pk.start = (n \div Size[b + 1]) * Size[b + 1]
      BY DEF Peak
    <3>3. pk \in PeakSet
      BY <2>2, <3>1 DEF Peak, PeakSet
    <3>4. Down[b] = Append(Down[b + 1], pk)
      BY <1>1, <2>4
    <3> DEFINE ps == Down[b + 1]
               m == (n \div Size[b + 1]) * Size[b + 1]
    <3>5. Tiles(ps, m) /\ ps \in Seq(PeakSet)
      BY <1>1, <1>3, <2>1
    <3> HIDE DEF ps, pk, m
    <3>6. Tiles(Append(ps, pk), m + pk.size)
      BY <3>2, <3>3, <3>5, TilesOfMore DEF m
    <3>7. m + pk.size = (n \div Size[b]) * Size[b]
      BY <3>1, <3>2 DEF m
    <3>8. Tiles(Down[b], (n \div Size[b]) * Size[b])
      BY <3>4, <3>6, <3>7 DEF ps
    <3>9. /\ Len(Append(ps, pk)) = Len(ps) + 1 /\ Append(ps, pk)[Len(ps) + 1] = pk /\ Len(ps) \in Nat
          /\ \A p \in 1 .. Len(ps) : Append(ps, pk)[p] = ps[p]
      BY <3>3, <3>5, AppendProperties
    <3>10. ASSUME NEW p \in 1 .. Len(Down[b])
           PROVE  \E a \in 0 .. B - 1 : Bit(n, a) /\ Down[b][p] = Peak(n, a)
      <4>1. p \in 1 .. Len(ps) + 1
        BY <3>4, <3>9 DEF ps
      <4>2. CASE p = Len(ps) + 1
        BY <2>4, <3>4, <3>9, <4>2 DEF ps, pk
      <4>3. CASE p # Len(ps) + 1
        <5>1. p \in 1 .. Len(ps) /\ Down[b][p] = ps[p]
          BY <3>4, <3>9, <4>1, <4>3 DEF ps
        <5> QED BY <1>3, <5>1 DEF ps
      <4> QED BY <4>2, <4>3
    <3> QED BY <3>8, <3>10
  <2> QED BY <2>3, <2>4
<1> HIDE DEF Fine
<1>4. 0 \in S
  <2>1. B - 0 = B
    BY <1>0
  <2> QED BY <1>2, <2>1 DEF B
<1>5. ASSUME NEW k \in Nat, k \in S PROVE k + 1 \in S
  <2> SUFFICES ASSUME k + 1 <= B PROVE Fine(B - (k + 1))
    OBVIOUS
  <2> DEFINE b == B - (k + 1)
  <2>1. b \in 0 .. B - 1 /\ b + 1 = B - k
    BY <1>0
  <2>2. Fine(B - k)
    BY <1>0, <1>5
  <2>3. Fine(b + 1)
    BY <2>1, <2>2
  <2> HIDE DEF b
  <2>4. Fine(b)
    BY <1>3, <2>1, <2>3
  <2> QED BY <2>4 DEF b
<1> HIDE DEF S
<1>6. B \in S
  BY <1>0, <1>4, <1>5, Induction
<1>7. Fine(0)
  <2>1. B - B = 0 /\ B <= B
    BY <1>0
  <2>2. Fine(B - B)
    BY <1>0, <1>6, <2>1 DEF S
  <2> QED BY <2>1, <2>2
<1>8. (n \div Size[0]) * Size[0] = n
  BY DivSize, SizeIs
<1>9. Tiles(Down[0], n) /\ OfBits(0)
  BY <1>7, <1>8 DEF Fine
<1> QED BY <1>9 DEF Down, B, peak_bounds

(* The streaming hasher's root is the batch root (merkle.rs:151-152).      *)
LEMMA RootIs ==
  ASSUME NEW H, Closed(H), NEW leaves \in Seq(H), Len(leaves) < Size[UsizeBits]
  PROVE  root(HasherOf(leaves)) = merkle_root(leaves)
<1> DEFINE n == Len(leaves)
           ps == peak_bounds(n)
<1>1. n \in Nat
  OBVIOUS
<1>2. Tiles(ps, n)
  BY <1>1, PeaksTile
<1>3. Roots(leaves, 0) = PeakRoots(leaves, ps)
  BY DEF Roots, peak_bounds
<1>4. Roots(leaves, 0) \in Seq(H) /\ Len(Roots(leaves, 0)) = Len(ps)
  BY UsizeBitsIsNat, RootsAre DEF peak_bounds
<1>5. CASE leaves = << >>
  <2>1. Roots(leaves, 0) = << >>
    <3>1. HasherOf(<< >>).stack = << >>
      BY HasherOfNone DEF Hasher
    <3> QED BY <1>5, <3>1 DEF HasherOf
  <2> QED BY <1>5, <2>1 DEF root, merkle_root, HasherOf
<1>6. CASE leaves # << >>
  <2>1. n # 0
    BY <1>6
  <2>2. ps \in Seq(PeakSet) /\ ps # << >>
    BY <1>2, <2>1 DEF Tiles
  <2>3. Roots(leaves, 0) # << >>
    BY <1>4, <2>2
  <2> HIDE DEF ps
  <2>4. root(HasherOf(leaves)) = fold_peaks(Roots(leaves, 0))
    BY <2>3 DEF root, HasherOf
  <2>5. merkle_root(leaves) = fold_peaks(PeakRoots(leaves, ps))
    BY <1>6 DEF merkle_root, ps
  <2> QED BY <1>3, <2>4, <2>5
<1> QED BY <1>5, <1>6

(* A stack has as many roots as the count of leaves has bits.              *)
LEMMA StackSize ==
  ASSUME NEW H, Closed(H), NEW leaves \in Seq(H), Len(leaves) < Size[UsizeBits]
  PROVE  Len(Roots(leaves, 0)) = Cardinality({k \in 0 .. Len(leaves) : Bit(Len(leaves), k)})
<1> DEFINE B == UsizeBits
           n == Len(leaves)
           Bits(b) == {k \in 0 .. n : b <= k /\ Bit(n, k)}
           Fine(b) == IsFiniteSet(Bits(b)) /\ Cardinality(Bits(b)) = Len(Roots(leaves, b))
           S == {k \in Nat : k <= B => Fine(B - k)}
<1>0. B \in Nat /\ n \in Nat
  BY UsizeBitsIsNat
<1>1. Fine(B)
  <2>1. ASSUME NEW k \in Nat, B <= k PROVE ~ Bit(n, k)
    <3>1. Size[B] <= Size[k] /\ Size[B] \in Nat /\ Size[k] \in Nat
      BY <1>0, <2>1, SizeGrows
    <3> QED BY <1>0, <3>1, NoHighBit
  <2>2. Bits(B) = {}
    BY <1>0, <2>1
  <2>3. Len(Roots(leaves, B)) = 0
    BY RootsAre
  <2> HIDE DEF Bits
  <2> QED BY <2>2, <2>3, FS_EmptySet
<1> HIDE DEF B, n
<1>2. ASSUME NEW b \in 0 .. B - 1, Fine(b + 1) PROVE Fine(b)
  <2>1. b \in Nat /\ b + 1 \in 0 .. B /\ b \in 0 .. B
    BY <1>0
  <2>2. /\ Roots(leaves, b + 1) \in Seq(H)
        /\ Roots(leaves, b) = IF Bit(n, b) THEN Append(Roots(leaves, b + 1), Last(Levels(leaves)[b]))
                                           ELSE Roots(leaves, b + 1)
    BY <2>1, RootsAre DEF n, B
  <2>3. CASE Bit(n, b)
    <3>1. b \in 0 .. n
      <4>1. Size[b] \in Nat /\ b < Size[b]
        BY <2>1, SizeGrows
      <4>2. ~ (n < Size[b])
        BY <1>0, <2>1, <2>3, NoHighBit
      <4> QED BY <1>0, <2>1, <4>1, <4>2
    <3>2. Bits(b) = Bits(b + 1) \cup {b} /\ b \notin Bits(b + 1)
      BY <1>0, <2>1, <2>3, <3>1
    <3>3. Last(Levels(leaves)[b]) \in H
      BY <2>1, <2>3, PeakRoot DEF n
    <3>4. Len(Roots(leaves, b)) = Len(Roots(leaves, b + 1)) + 1
      BY <2>2, <2>3, <3>3, AppendProperties
    <3> DEFINE above == Bits(b + 1)
    <3> HIDE DEF Bits, above
    <3>5. IsFiniteSet(Bits(b)) /\ Cardinality(Bits(b)) = Cardinality(above) + 1
      <4>1. IsFiniteSet(above) /\ Bits(b) = above \cup {b} /\ b \notin above
        BY <1>2, <3>2 DEF above
      <4>2. /\ IsFiniteSet(above \cup {b})
            /\ Cardinality(above \cup {b}) = IF b \in above THEN Cardinality(above) ELSE Cardinality(above) + 1
        BY <4>1, FS_AddElement
      <4> QED BY <4>1, <4>2
    <3> QED BY <1>2, <3>4, <3>5 DEF above
  <2>4. CASE ~ Bit(n, b)
    <3>1. Bits(b) = Bits(b + 1)
      BY <1>0, <2>1, <2>4
    <3> HIDE DEF Bits
    <3> QED BY <1>2, <2>2, <2>4, <3>1
  <2> QED BY <2>3, <2>4
<1> HIDE DEF Fine
<1>4. 0 \in S
  <2>1. B - 0 = B
    BY <1>0
  <2> QED BY <1>1, <2>1
<1>5. ASSUME NEW k \in Nat, k \in S PROVE k + 1 \in S
  <2> SUFFICES ASSUME k + 1 <= B PROVE Fine(B - (k + 1))
    OBVIOUS
  <2> DEFINE b == B - (k + 1)
  <2>1. b \in 0 .. B - 1 /\ b + 1 = B - k
    BY <1>0
  <2>2. Fine(B - k)
    BY <1>0, <1>5
  <2>3. Fine(b + 1)
    BY <2>1, <2>2
  <2> HIDE DEF b
  <2>4. Fine(b)
    BY <1>2, <2>1, <2>3
  <2> QED BY <2>4 DEF b
<1> HIDE DEF S
<1>6. B \in S
  BY <1>0, <1>4, <1>5, Induction
<1>7. Fine(0)
  <2>1. B - B = 0 /\ B <= B
    BY <1>0
  <2>2. Fine(B - B)
    BY <1>0, <1>6, <2>1 DEF S
  <2> QED BY <2>1, <2>2
<1>8. Bits(0) = {k \in 0 .. n : Bit(n, k)}
  BY <1>0
<1> QED BY <1>7, <1>8 DEF Fine, n
----------------------------------------------------------------------------
(* Hashes are equal for equal children only.                               *)
LEMMA HashInjective ==
  \A a, b, c, d : hash_internal(a, b) = hash_internal(c, d) => a = c /\ b = d
BY DEF hash_internal

(* The fold over the left children, one turn at a time.                    *)
IsFold(A, rs, seed) ==
  /\ A[0] = seed
  /\ \A k \in 0 .. Len(rs) - 1 : A[k + 1] = hash_internal(rs[Len(rs) - k], A[k])

(* What the loop of fold_left_children returns.                            *)
LEMMA FoldIs ==
  ASSUME NEW rs, Len(rs) \in Nat, NEW seed, NEW A, IsFold(A, rs, seed)
  PROVE  fold_left_children(rs, seed) = A[Len(rs)]
<1> DEFINE m == Len(rs)
           Turn(f, k) == IF k = 0 THEN seed ELSE hash_internal(rs[m + 1 - k], f[k - 1])
           acc == CHOOSE f : f = [k \in 0 .. m |-> Turn(f, k)]
           a == [k \in 0 .. m |-> A[k]]
<1>0. m \in Nat /\ A[0] = seed /\ \A k \in 0 .. m - 1 : A[k + 1] = hash_internal(rs[m - k], A[k])
  BY DEF IsFold
<1>1. fold_left_children(rs, seed) = acc[m]
  BY DEF fold_left_children
<1> HIDE DEF m
<1>2. a = [k \in 0 .. m |-> Turn(a, k)]
  <2>1. ASSUME NEW k \in 0 .. m PROVE A[k] = Turn(a, k)
    <3>1. CASE k = 0
      BY <1>0, <3>1
    <3>2. CASE k # 0
      <4>1. k - 1 \in 0 .. m - 1 /\ k - 1 \in 0 .. m /\ k = (k - 1) + 1 /\ m - (k - 1) = m + 1 - k
        BY <1>0, <3>2
      <4>2. A[(k - 1) + 1] = hash_internal(rs[m - (k - 1)], A[k - 1]) /\ a[k - 1] = A[k - 1]
        BY <1>0, <4>1
      <4>3. A[k] = hash_internal(rs[m + 1 - k], a[k - 1])
        BY <4>1, <4>2
      <4> QED BY <3>2, <4>3
    <3> QED BY <3>1, <3>2
  <2> DEFINE b == a
  <2>2. \A k \in 0 .. m : A[k] = Turn(b, k)
    BY <2>1
  <2> HIDE DEF Turn, b
  <2>3. a = [k \in 0 .. m |-> Turn(b, k)]
    BY <2>2
  <2> QED BY <2>3 DEF b
<1>3. acc = [k \in 0 .. m |-> Turn(acc, k)]
  <2> HIDE DEF Turn, a
  <2> QED BY <1>2
<1> HIDE DEF acc
<1> DEFINE S == {k \in Nat : k <= m => acc[k] = A[k]}
<1>4. 0 \in S
  BY <1>0, <1>3
<1>5. ASSUME NEW k \in Nat, k \in S PROVE k + 1 \in S
  <2> SUFFICES ASSUME k + 1 <= m PROVE acc[k + 1] = A[k + 1]
    OBVIOUS
  <2>1. k \in 0 .. m - 1 /\ k + 1 \in 0 .. m /\ k + 1 # 0 /\ (k + 1) - 1 = k /\ m + 1 - (k + 1) = m - k
        /\ acc[k] = A[k]
    BY <1>0, <1>5
  <2>2. acc[k + 1] = Turn(acc, k + 1)
    <3> HIDE DEF Turn
    <3> QED BY <1>3, <2>1
  <2>3. acc[k + 1] = hash_internal(rs[m - k], acc[k])
    BY <2>1, <2>2
  <2> QED BY <1>0, <2>1, <2>3
<1> HIDE DEF S
<1>6. m \in S
  BY <1>0, <1>4, <1>5, Induction
<1>7. acc[m] = A[m]
  BY <1>0, <1>6 DEF S
<1> QED BY <1>1, <1>7 DEF m

(* There are its turns, for any roots and any seed.                        *)
LEMMA FoldExists ==
  ASSUME NEW H, Closed(H), NEW rs \in Seq(H), NEW seed \in H
  PROVE  \E A \in [0 .. Len(rs) -> H] : IsFold(A, rs, seed)
<1> DEFINE m == Len(rs)
           step == [k \in 0 .. m - 1 |-> [v \in H |-> hash_internal(rs[m - k], v)]]
<1>0. m \in Nat
  OBVIOUS
<1>1. \A k \in 0 .. m - 1 : rs[m - k] \in H
  <2> SUFFICES ASSUME NEW k \in 0 .. m - 1 PROVE rs[m - k] \in H
    OBVIOUS
  <2>1. m - k \in 1 .. m
    BY <1>0
  <2> QED BY <2>1
<1>2. step \in [0 .. m - 1 -> [H -> H]]
  BY <1>1 DEF Closed
<1> HIDE DEF m
<1>3. PICK A : IsUpto(A, m, H, seed, step)
  <2> HIDE DEF step
  <2> QED BY <1>0, <1>2, BoundedRecursion
<1>4. A \in [0 .. m -> H] /\ A[0] = seed /\ \A k \in 0 .. m - 1 : A[k + 1] = step[k][A[k]]
  BY <1>3 DEF IsUpto
<1>5. ASSUME NEW k \in 0 .. m - 1 PROVE A[k + 1] = hash_internal(rs[m - k], A[k])
  <2>1. A[k] \in H
    BY <1>0, <1>4
  <2> QED BY <1>4, <2>1
<1> QED BY <1>4, <1>5 DEF IsFold, m

(* It returns a hash.                                                      *)
LEMMA FoldInHashes ==
  ASSUME NEW H, Closed(H), NEW rs \in Seq(H), NEW seed \in H
  PROVE  fold_left_children(rs, seed) \in H
<1>1. PICK A \in [0 .. Len(rs) -> H] : IsFold(A, rs, seed)
  BY FoldExists
<1>2. Len(rs) \in Nat
  OBVIOUS
<1>3. A[Len(rs)] \in H
  BY <1>2
<1> QED BY <1>1, <1>2, <1>3, FoldIs

(* Another seed, another fold.                                             *)
LEMMA FoldInjective ==
  ASSUME NEW H, Closed(H), NEW rs \in Seq(H), NEW x \in H, NEW y \in H, x # y
  PROVE  fold_left_children(rs, x) # fold_left_children(rs, y)
<1>1. PICK A \in [0 .. Len(rs) -> H] : IsFold(A, rs, x)
  BY FoldExists
<1>2. PICK C \in [0 .. Len(rs) -> H] : IsFold(C, rs, y)
  BY FoldExists
<1> DEFINE m == Len(rs)
           S == {k \in Nat : k <= m => A[k] # C[k]}
<1>3. m \in Nat
  OBVIOUS
<1> HIDE DEF m
<1>4. 0 \in S
  BY <1>1, <1>2 DEF IsFold
<1>5. ASSUME NEW k \in Nat, k \in S PROVE k + 1 \in S
  <2> SUFFICES ASSUME k + 1 <= m PROVE A[k + 1] # C[k + 1]
    OBVIOUS
  <2>1. k \in 0 .. m - 1 /\ A[k] # C[k]
    BY <1>3, <1>5
  <2>2. A[k + 1] = hash_internal(rs[m - k], A[k]) /\ C[k + 1] = hash_internal(rs[m - k], C[k])
    BY <1>1, <1>2, <2>1 DEF IsFold, m
  <2> QED BY <2>1, <2>2, HashInjective
<1> HIDE DEF S
<1>6. m \in S
  BY <1>3, <1>4, <1>5, Induction
<1>7. A[m] # C[m]
  BY <1>3, <1>6 DEF S
<1>8. fold_left_children(rs, x) = A[m] /\ fold_left_children(rs, y) = C[m]
  BY <1>1, <1>2, <1>3, FoldIs DEF m
<1> QED BY <1>7, <1>8

(* A part of a sequence.                                                   *)
LEMMA SubSeqIs ==
  ASSUME NEW H, NEW s \in Seq(H), NEW a \in 1 .. Len(s) + 1, NEW z \in a - 1 .. Len(s)
  PROVE  /\ SubSeq(s, a, z) \in Seq(H) /\ Len(SubSeq(s, a, z)) = z - a + 1
         /\ \A i \in 1 .. z - a + 1 : SubSeq(s, a, z)[i] = s[a + i - 1]
<1>1. a \in Int /\ z \in Int /\ z >= a - 1
  OBVIOUS
<1>2. \A i \in a .. z : s[i] \in H
  OBVIOUS
<1>3. /\ SubSeq(s, a, z) \in Seq(H) /\ Len(SubSeq(s, a, z)) = IF a <= z THEN z - a + 1 ELSE 0
      /\ \A i \in 1 .. z - a + 1 : SubSeq(s, a, z)[i] = s[a + i - 1]
  BY <1>1, <1>2, SubSeqProperties
<1> QED BY <1>1, <1>3

(* The fold over all of the roots passes through each of them: what is     *)
(* left of one is folded over it and what is right of it.                  *)
LEMMA FoldPeaksAt ==
  ASSUME NEW H, Closed(H), NEW rs \in Seq(H), NEW p \in 1 .. Len(rs)
  PROVE  /\ SubSeq(rs, 1, p - 1) \in Seq(H)
         /\ p # Len(rs) => fold_peaks(SubSeq(rs, p + 1, Len(rs))) \in H
         /\ fold_peaks(rs) = fold_left_children(SubSeq(rs, 1, p - 1),
              IF p = Len(rs) THEN rs[p]
              ELSE hash_internal(rs[p], fold_peaks(SubSeq(rs, p + 1, Len(rs)))))
<1> DEFINE m == Len(rs)
           front == SubSeq(rs, 1, m - 1)
           left  == SubSeq(rs, 1, p - 1)
           right == SubSeq(rs, p + 1, m)
<1>1. m \in Nat /\ m >= 1 /\ p \in 1 .. m /\ \A k \in 1 .. m : rs[k] \in H
  OBVIOUS
<1>2. /\ front \in Seq(H) /\ Len(front) = m - 1 /\ \A k \in 1 .. m - 1 : front[k] = rs[k]
  <2>1. /\ 1 \in 1 .. m + 1 /\ m - 1 \in 1 - 1 .. m /\ m - 1 - 1 + 1 = m - 1
        /\ \A k \in 1 .. m - 1 : 1 + k - 1 = k
    BY <1>1
  <2> QED BY <2>1, SubSeqIs
<1>3. /\ left \in Seq(H) /\ Len(left) = p - 1 /\ \A k \in 1 .. p - 1 : left[k] = rs[k]
  <2> DEFINE e == p - 1
  <2>1. /\ 1 \in 1 .. m + 1 /\ e \in 1 - 1 .. m /\ e - 1 + 1 = e
        /\ \A k \in 1 .. e : 1 + k - 1 = k
    BY <1>1
  <2> HIDE DEF e
  <2>2. /\ SubSeq(rs, 1, e) \in Seq(H) /\ Len(SubSeq(rs, 1, e)) = e
        /\ \A k \in 1 .. e : SubSeq(rs, 1, e)[k] = rs[k]
    BY <2>1, SubSeqIs
  <2> QED BY <2>2 DEF e
<1>4. /\ right \in Seq(H) /\ Len(right) = m - p /\ \A k \in 1 .. m - p : right[k] = rs[p + k]
  <2> DEFINE a == p + 1
  <2>1. /\ a \in 1 .. m + 1 /\ m \in a - 1 .. m /\ m - a + 1 = m - p
        /\ \A k \in 1 .. m - p : a + k - 1 = p + k
    BY <1>1
  <2> HIDE DEF a
  <2>2. /\ SubSeq(rs, a, m) \in Seq(H) /\ Len(SubSeq(rs, a, m)) = m - a + 1
        /\ \A k \in 1 .. m - a + 1 : SubSeq(rs, a, m)[k] = rs[a + k - 1]
    BY <2>1, SubSeqIs
  <2> QED BY <2>1, <2>2 DEF a
<1> HIDE DEF m, front, left, right
<1>5. PICK A \in [0 .. Len(front) -> H] : IsFold(A, front, rs[m])
  <2>1. rs[m] \in H
    BY <1>1
  <2> DEFINE last == rs[m]
  <2> HIDE DEF last
  <2>2. last \in H
    BY <2>1 DEF last
  <2>3. \E A \in [0 .. Len(front) -> H] : IsFold(A, front, last)
    BY <1>2, <2>2, FoldExists
  <2> QED BY <2>3 DEF last
<1>6. /\ A \in [0 .. m - 1 -> H] /\ A[0] = rs[m]
      /\ \A k \in 0 .. m - 2 : A[k + 1] = hash_internal(rs[m - 1 - k], A[k])
  <2>1. ASSUME NEW k \in 0 .. m - 2 PROVE A[k + 1] = hash_internal(rs[m - 1 - k], A[k])
    <3>1. k \in 0 .. Len(front) - 1 /\ Len(front) - k = m - 1 - k /\ m - 1 - k \in 1 .. m - 1
      BY <1>1, <1>2
    <3>2. A[k + 1] = hash_internal(front[Len(front) - k], A[k])
      BY <1>5, <3>1 DEF IsFold
    <3> QED BY <1>2, <3>1, <3>2
  <2> QED BY <1>2, <1>5, <2>1 DEF IsFold
<1>7. fold_peaks(rs) = A[m - 1]
  <2>1. Front(rs) = front /\ Last(rs) = rs[m]
    BY DEF Front, Last, front, m
  <2>2. fold_left_children(front, rs[m]) = A[Len(front)]
    <3>1. Len(front) \in Nat
      BY <1>1, <1>2
    <3> QED BY <1>5, <3>1, FoldIs
  <2> QED BY <1>2, <2>1, <2>2 DEF fold_peaks
(* What is right of p.                                                     *)
<1>8. ASSUME p # m PROVE fold_peaks(right) = A[m - p - 1] /\ A[m - p - 1] \in H
  <2> DEFINE r == m - p
             most == SubSeq(right, 1, r - 1)
  <2>1. r \in Nat /\ r >= 1
    BY <1>1, <1>8
  <2>2. Len(most) = r - 1 /\ \A k \in 1 .. r - 1 : most[k] = right[k]
    <3>1. /\ right \in Seq(H) /\ Len(right) = r
          /\ 1 \in 1 .. r + 1 /\ r - 1 \in 1 - 1 .. r /\ r - 1 - 1 + 1 = r - 1
          /\ \A k \in 1 .. r - 1 : 1 + k - 1 = k
      BY <1>4, <2>1
    <3> HIDE DEF r
    <3> QED BY <3>1, SubSeqIs
  <2> HIDE DEF most
  <2>3. Front(right) = most /\ Last(right) = right[r]
    BY <1>4 DEF Front, Last, most
  <2>4. right[r] = rs[m]
    <3>1. p + r = m /\ r \in 1 .. m - p
      BY <1>1, <2>1
    <3> QED BY <1>4, <3>1
  <2>5. IsFold(A, most, right[r])
    <3>1. ASSUME NEW k \in 0 .. Len(most) - 1 PROVE A[k + 1] = hash_internal(most[Len(most) - k], A[k])
      <4> DEFINE j == Len(most) - k
      <4>1. j \in 1 .. r - 1 /\ j \in 1 .. m - p /\ p + j = m - 1 - k /\ k \in 0 .. m - 2
        BY <1>1, <2>1, <2>2
      <4> HIDE DEF j
      <4>2. most[j] = rs[m - 1 - k]
        BY <1>4, <2>2, <4>1
      <4> QED BY <1>6, <4>1, <4>2 DEF j
    <3> QED BY <1>6, <2>4, <3>1 DEF IsFold
  <2>6. fold_left_children(most, right[r]) = A[Len(most)]
    <3>1. Len(most) \in Nat
      BY <2>1, <2>2
    <3> QED BY <2>5, <3>1, FoldIs
  <2>7. m - p - 1 \in 0 .. m - 1 /\ Len(most) = m - p - 1
    BY <1>1, <2>1, <2>2
  <2> QED BY <1>6, <2>3, <2>6, <2>7 DEF fold_peaks
<1> DEFINE seed == IF p = m THEN rs[p] ELSE hash_internal(rs[p], fold_peaks(right))
<1>9. seed = A[m - p]
  <2>1. CASE p = m
    <3>1. m - p = 0
      BY <1>1, <2>1
    <3> QED BY <1>6, <2>1, <3>1
  <2>2. CASE p # m
    <3> DEFINE k == m - p - 1
    <3>1. k \in 0 .. m - 2 /\ k + 1 = m - p /\ m - 1 - k = p
      BY <1>1, <2>2
    <3>2. A[k + 1] = hash_internal(rs[m - 1 - k], A[k])
      BY <1>6, <3>1
    <3>3. fold_peaks(right) = A[k]
      BY <1>8, <2>2
    <3> QED BY <2>2, <3>1, <3>2, <3>3
  <2> QED BY <2>1, <2>2
<1> HIDE DEF seed
<1>10. fold_left_children(left, seed) = A[m - 1]
  <2> DEFINE C == [k \in 0 .. p - 1 |-> A[(m - p) + k]]
  <2>1. C[0] = seed /\ C[p - 1] = A[m - 1] /\ p - 1 \in Nat
    <3>1. (m - p) + 0 = m - p /\ (m - p) + (p - 1) = m - 1 /\ 0 \in 0 .. p - 1 /\ p - 1 \in 0 .. p - 1
      BY <1>1
    <3> QED BY <1>9, <3>1
  <2>2. ASSUME NEW k \in 0 .. Len(left) - 1 PROVE C[k + 1] = hash_internal(left[Len(left) - k], C[k])
    <3> DEFINE j == (m - p) + k
    <3>1. /\ k \in 0 .. p - 1 /\ k + 1 \in 0 .. p - 1 /\ (m - p) + (k + 1) = j + 1 /\ j \in 0 .. m - 2
          /\ Len(left) - k \in 1 .. p - 1 /\ Len(left) - k = m - 1 - j
      BY <1>1, <1>3
    <3>2. C[k] = A[j] /\ C[k + 1] = A[j + 1]
      BY <3>1
    <3> HIDE DEF j, C
    <3>3. A[j + 1] = hash_internal(rs[m - 1 - j], A[j])
      BY <1>6, <3>1
    <3>4. left[Len(left) - k] = rs[m - 1 - j]
      BY <1>3, <3>1
    <3> QED BY <3>2, <3>3, <3>4
  <2> HIDE DEF C
  <2>3. IsFold(C, left, seed)
    BY <2>1, <2>2 DEF IsFold
  <2>4. fold_left_children(left, seed) = C[Len(left)]
    <3>1. Len(left) \in Nat
      BY <1>3, <2>1
    <3> QED BY <2>3, <3>1, FoldIs
  <2> QED BY <1>3, <2>1, <2>4
<1> QED BY <1>3, <1>7, <1>8, <1>10 DEF seed, left, right, m
----------------------------------------------------------------------------
(* The way up through the siblings, one at a time.                         *)
Climb(acc, s) == IF s.side = "Left" THEN hash_internal(s.hash, acc) ELSE hash_internal(acc, s.hash)

IsClimb(u, leaf, siblings) ==
  /\ u[0] = leaf
  /\ \A k \in 0 .. Len(siblings) - 1 : u[k + 1] = Climb(u[k], siblings[k + 1])

(* What fold_witness does above the peak.                                  *)
AbovePeak(peak, w) ==
  fold_left_children(w.left_peaks,
    IF w.right_root = << >> THEN peak ELSE hash_internal(peak, w.right_root[1]))

(* What the loop of fold_witness returns (merkle.rs:228-243).              *)
LEMMA ClimbIs ==
  ASSUME NEW w, Len(w.siblings) \in Nat, NEW leaf, NEW u, IsClimb(u, leaf, w.siblings)
  PROVE  fold_witness(leaf, w) = AbovePeak(u[Len(w.siblings)], w)
<1> DEFINE m == Len(w.siblings)
           climb(acc, s) == IF s.side = "Left" THEN hash_internal(s.hash, acc)
                                               ELSE hash_internal(acc, s.hash)
           Turn(f, k) == IF k = 0 THEN leaf ELSE climb(f[k - 1], w.siblings[k])
           up == CHOOSE f : f = [k \in 0 .. m |-> Turn(f, k)]
           a == [k \in 0 .. m |-> u[k]]
<1>0. m \in Nat /\ u[0] = leaf /\ \A k \in 0 .. m - 1 : u[k + 1] = climb(u[k], w.siblings[k + 1])
  BY DEF IsClimb, Climb
<1>1. fold_witness(leaf, w) = AbovePeak(up[m], w)
  BY DEF fold_witness, AbovePeak
<1> HIDE DEF m, climb
<1>2. a = [k \in 0 .. m |-> Turn(a, k)]
  <2>1. ASSUME NEW k \in 0 .. m PROVE u[k] = Turn(a, k)
    <3>1. CASE k = 0
      BY <1>0, <3>1
    <3>2. CASE k # 0
      <4>1. k - 1 \in 0 .. m - 1 /\ k - 1 \in 0 .. m /\ k = (k - 1) + 1
        BY <1>0, <3>2
      <4>2. u[(k - 1) + 1] = climb(u[k - 1], w.siblings[(k - 1) + 1]) /\ a[k - 1] = u[k - 1]
        BY <1>0, <4>1
      <4>3. u[k] = climb(a[k - 1], w.siblings[k])
        BY <4>1, <4>2
      <4> QED BY <3>2, <4>3
    <3> QED BY <3>1, <3>2
  <2> DEFINE b == a
  <2>2. \A k \in 0 .. m : u[k] = Turn(b, k)
    BY <2>1
  <2> HIDE DEF Turn, b
  <2>3. a = [k \in 0 .. m |-> Turn(b, k)]
    BY <2>2
  <2> QED BY <2>3 DEF b
<1>3. up = [k \in 0 .. m |-> Turn(up, k)]
  <2> HIDE DEF Turn, a
  <2> QED BY <1>2
<1> HIDE DEF up
<1> DEFINE S == {k \in Nat : k <= m => up[k] = u[k]}
<1>4. 0 \in S
  BY <1>0, <1>3
<1>5. ASSUME NEW k \in Nat, k \in S PROVE k + 1 \in S
  <2> SUFFICES ASSUME k + 1 <= m PROVE up[k + 1] = u[k + 1]
    OBVIOUS
  <2>1. k \in 0 .. m - 1 /\ k + 1 \in 0 .. m /\ k + 1 # 0 /\ (k + 1) - 1 = k /\ up[k] = u[k]
    <3>1. m \in Nat /\ k <= m
      BY <1>0
    <3>2. up[k] = u[k]
      BY <1>5, <3>1
    <3> QED BY <3>1, <3>2
  <2>2. up[k + 1] = Turn(up, k + 1)
    <3> HIDE DEF Turn
    <3> QED BY <1>3, <2>1
  <2>3. up[k + 1] = climb(up[k], w.siblings[k + 1])
    BY <2>1, <2>2
  <2> QED BY <1>0, <2>1, <2>3
<1> HIDE DEF S
<1>6. m \in S
  BY <1>0, <1>4, <1>5, Induction
<1>7. up[m] = u[m]
  BY <1>0, <1>6 DEF S
<1> QED BY <1>1, <1>7 DEF m

(* What a witness is made of.                                              *)
Siblings(H) == [side : {"Left", "Right"}, hash : H]

IsWitness(w, H) ==
  /\ w.siblings \in Seq(Siblings(H)) /\ w.left_peaks \in Seq(H)
  /\ w.right_root # << >> => w.right_root[1] \in H

(* There are its turns, for any siblings.                                  *)
LEMMA ClimbExists ==
  ASSUME NEW H, Closed(H), NEW siblings \in Seq(Siblings(H)), NEW leaf \in H
  PROVE  \E u \in [0 .. Len(siblings) -> H] : IsClimb(u, leaf, siblings)
<1> DEFINE m == Len(siblings)
           step == [k \in 0 .. m - 1 |-> [v \in H |-> Climb(v, siblings[k + 1])]]
<1>0. m \in Nat
  OBVIOUS
<1>1. ASSUME NEW k \in 0 .. m - 1, NEW v \in H PROVE Climb(v, siblings[k + 1]) \in H
  <2>1. k + 1 \in 1 .. m
    BY <1>0
  <2>2. siblings[k + 1] \in Siblings(H)
    BY <2>1
  <2> QED BY <2>2 DEF Siblings, Climb, Closed
<1>2. step \in [0 .. m - 1 -> [H -> H]]
  BY <1>1
<1> HIDE DEF m
<1>3. PICK u : IsUpto(u, m, H, leaf, step)
  <2> HIDE DEF step
  <2> QED BY <1>0, <1>2, BoundedRecursion
<1>4. u \in [0 .. m -> H] /\ u[0] = leaf /\ \A k \in 0 .. m - 1 : u[k + 1] = step[k][u[k]]
  BY <1>3 DEF IsUpto
<1>5. ASSUME NEW k \in 0 .. m - 1 PROVE u[k + 1] = Climb(u[k], siblings[k + 1])
  <2>1. u[k] \in H
    BY <1>0, <1>4
  <2> QED BY <1>4, <2>1
<1> QED BY <1>4, <1>5 DEF IsClimb, m

(* A witness folds another leaf to another root.                           *)
LEMMA WitnessInjective ==
  ASSUME NEW H, Closed(H), NEW w, IsWitness(w, H), NEW x \in H, NEW y \in H, x # y
  PROVE  fold_witness(x, w) # fold_witness(y, w)
<1> DEFINE siblings == w.siblings
           m == Len(siblings)
<1>0. siblings \in Seq(Siblings(H)) /\ m \in Nat
  BY DEF IsWitness
<1> HIDE DEF siblings
<1>1. PICK u \in [0 .. m -> H] : IsClimb(u, x, siblings)
  BY <1>0, ClimbExists
<1>2. PICK v \in [0 .. m -> H] : IsClimb(v, y, siblings)
  BY <1>0, ClimbExists
<1> DEFINE S == {k \in Nat : k <= m => u[k] # v[k]}
<1> HIDE DEF m
<1>3. 0 \in S
  BY <1>1, <1>2 DEF IsClimb
<1>4. ASSUME NEW k \in Nat, k \in S PROVE k + 1 \in S
  <2> SUFFICES ASSUME k + 1 <= m PROVE u[k + 1] # v[k + 1]
    OBVIOUS
  <2>1. k \in 0 .. m - 1 /\ u[k] # v[k]
    BY <1>0, <1>4
  <2>2. u[k + 1] = Climb(u[k], siblings[k + 1]) /\ v[k + 1] = Climb(v[k], siblings[k + 1])
    BY <1>1, <1>2, <2>1 DEF IsClimb, m
  <2> QED BY <2>1, <2>2, HashInjective DEF Climb
<1> HIDE DEF S
<1>5. m \in S
  BY <1>0, <1>3, <1>4, Induction
<1>6. u[m] # v[m] /\ u[m] \in H /\ v[m] \in H
  BY <1>0, <1>5 DEF S
<1>7. fold_witness(x, w) = AbovePeak(u[m], w) /\ fold_witness(y, w) = AbovePeak(v[m], w)
  BY <1>0, <1>1, <1>2, ClimbIs DEF m, siblings
<1> DEFINE Seed(peak) == IF w.right_root = << >> THEN peak ELSE hash_internal(peak, w.right_root[1])
<1>8. w.left_peaks \in Seq(H) /\ (w.right_root # << >> => w.right_root[1] \in H)
  BY DEF IsWitness
<1>9. Seed(u[m]) \in H /\ Seed(v[m]) \in H
  BY <1>6, <1>8 DEF Closed
<1>10. Seed(u[m]) # Seed(v[m])
  BY <1>6, HashInjective
<1> HIDE DEF Seed
<1>11. fold_left_children(w.left_peaks, Seed(u[m])) # fold_left_children(w.left_peaks, Seed(v[m]))
  BY <1>8, <1>9, <1>10, FoldInjective
<1> QED BY <1>7, <1>11 DEF AbovePeak, Seed
----------------------------------------------------------------------------
(* The siblings on the way up through a perfect tree lead to its root.     *)
LEMMA FunctionIsSequence ==
  ASSUME NEW V, NEW m \in Nat, NEW f \in [1 .. m -> V]
  PROVE  f \in Seq(V) /\ Len(f) = m
OBVIOUS

(* peak_path collects one sibling per level, and folding them gives the    *)
(* root of the peak (merkle.rs:201-222).                                   *)
LEMMA PathIs ==
  ASSUME NEW H, Closed(H), NEW leaves \in Seq(H), NEW b \in Nat, Len(leaves) = Size[b],
         NEW pos \in 0 .. Size[b] - 1
  PROVE  /\ peak_path(leaves, pos) \in Seq(Siblings(H)) /\ Len(peak_path(leaves, pos)) = b
         /\ \E u : /\ IsClimb(u, leaves[pos + 1], peak_path(leaves, pos))
                   /\ u[b] = perfect_root(leaves)
<1> DEFINE Level == Levels(leaves)
           path == peak_path(leaves, pos)
           here(k) == pos \div Size[k]
           u == [k \in 0 .. b |-> Level[k][here(k) + 1]]
           sibling(k) == IF here(k) % 2 = 0
                         THEN [side |-> "Right", hash |-> Level[k][here(k) + 2]]
                         ELSE [side |-> "Left",  hash |-> Level[k][here(k)]]
<1>0. Size[b] \in Nat /\ pos \in Nat
  BY SizeGrows
<1>1. path = [k \in 1 .. b |-> sibling(k - 1)]
  BY HeightOfSize DEF peak_path
<1>2. \A k \in 0 .. b : Level[k] \in Seq(H) /\ Len(Level[k]) = Size[b - k]
  BY PerfectLevels
<1> HIDE DEF Level
<1>3. \A k \in Nat : k <= b => here(k) \in 0 .. Size[b - k] - 1
  <2> DEFINE S == {k \in Nat : k <= b => here(k) \in 0 .. Size[b - k] - 1}
  <2>1. 0 \in S
    <3>1. b - 0 = b /\ here(0) = pos
      BY <1>0, DivSize
    <3> QED BY <1>0, <3>1
  <2>2. ASSUME NEW k \in Nat, k \in S PROVE k + 1 \in S
    <3> SUFFICES ASSUME k + 1 <= b PROVE here(k + 1) \in 0 .. Size[b - (k + 1)] - 1
      OBVIOUS
    <3>1. here(k + 1) = here(k) \div 2 /\ here(k) \in Nat
      BY <1>0, DivSize
    <3>2. Size[b - k] = 2 * Size[b - (k + 1)] /\ Size[b - (k + 1)] \in Nat
      <4>1. b - (k + 1) \in Nat /\ b - k = (b - (k + 1)) + 1
        OBVIOUS
      <4> QED BY <4>1, SizeIs
    <3>3. here(k) \in 0 .. Size[b - k] - 1
      BY <2>2
    <3> HIDE DEF here
    <3> DEFINE h == here(k)
               z == Size[b - (k + 1)]
    <3>4. h \in Nat /\ z \in Nat /\ h < 2 * z
      BY <3>1, <3>2, <3>3
    <3> HIDE DEF h, z
    <3>5. h \div 2 \in 0 .. z - 1
      BY <3>4
    <3> QED BY <3>1, <3>5 DEF h, z
  <2> HIDE DEF S
  <2>3. \A k \in Nat : k \in S
    BY <2>1, <2>2, Induction
  <2> QED BY <2>3 DEF S
(* One step of the way.                                                    *)
<1>4. ASSUME NEW k \in 0 .. b - 1
      PROVE  /\ sibling(k) \in Siblings(H)
             /\ Climb(Level[k][here(k) + 1], sibling(k)) = Level[k + 1][here(k + 1) + 1]
  <2> DEFINE h == here(k)
             half == h \div 2
             z == Size[b - (k + 1)]
             low == Level[k]
  <2>1. k \in Nat /\ k \in 0 .. b /\ k + 1 <= b /\ k <= b
    OBVIOUS
  <2>2. z \in Nat /\ Size[b - k] = 2 * z
    <3>1. b - (k + 1) \in Nat /\ b - k = (b - (k + 1)) + 1
      BY <2>1
    <3> QED BY <3>1, SizeIs
  <2>3. h \in 0 .. 2 * z - 1 /\ here(k + 1) = half
    BY <1>0, <1>3, <2>1, <2>2, DivSize
  <2>4. low \in Seq(H) /\ Len(low) = 2 * z
    BY <1>2, <2>1, <2>2
  <2>5. Level[k + 1] = Pairs(low)
    BY <2>1, LevelsAre DEF Level
  <2> HIDE DEF h, z, low
  <2>6. half \in 0 .. z - 1 /\ h = 2 * half + (IF h % 2 = 1 THEN 1 ELSE 0) /\ h % 2 \in {0, 1}
    BY <2>2, <2>3
  <2>7. Pairs(low)[half + 1] = hash_internal(low[2 * (half + 1) - 1], low[2 * (half + 1)])
    <3>1. Len(low) \div 2 = z /\ half + 1 \in 1 .. z
      <4>1. (2 * z) \div 2 = z
        BY <2>2
      <4> HIDE DEF half
      <4>2. half + 1 \in 1 .. z
        BY <2>2, <2>6
      <4> QED BY <2>4, <4>1, <4>2
    <3>2. \A i \in 1 .. Len(low) \div 2 : Pairs(low)[i] = hash_internal(low[2 * i - 1], low[2 * i])
      BY <2>4, PairsAre
    <3> HIDE DEF half
    <3> QED BY <3>1, <3>2
  <2> HIDE DEF half
  <2>8. CASE h % 2 = 0
    <3>1. 2 * (half + 1) - 1 = h + 1 /\ 2 * (half + 1) = h + 2 /\ h + 2 \in 1 .. Len(low)
      BY <2>2, <2>4, <2>6, <2>8
    <3>2. low[h + 2] \in H
      BY <2>4, <3>1
    <3>3. sibling(k) = [side |-> "Right", hash |-> low[h + 2]]
      BY <2>8 DEF h, low
    <3>4. Climb(low[h + 1], sibling(k)) = hash_internal(low[h + 1], low[h + 2])
      BY <3>3 DEF Climb
    <3>5. Climb(low[h + 1], sibling(k)) = Level[k + 1][here(k + 1) + 1]
      BY <2>3, <2>5, <2>7, <3>1, <3>4
    <3>6. sibling(k) \in Siblings(H)
      BY <3>2, <3>3 DEF Siblings
    <3> QED BY <3>5, <3>6 DEF h, low
  <2>9. CASE h % 2 = 1
    <3>1. 2 * (half + 1) - 1 = h /\ 2 * (half + 1) = h + 1 /\ h \in 1 .. Len(low)
      BY <2>2, <2>4, <2>6, <2>9
    <3>2. low[h] \in H
      BY <2>4, <3>1
    <3>3. sibling(k) = [side |-> "Left", hash |-> low[h]]
      BY <2>9 DEF h, low
    <3>4. Climb(low[h + 1], sibling(k)) = hash_internal(low[h], low[h + 1])
      BY <3>3 DEF Climb
    <3>5. Climb(low[h + 1], sibling(k)) = Level[k + 1][here(k + 1) + 1]
      BY <2>3, <2>5, <2>7, <3>1, <3>4
    <3>6. sibling(k) \in Siblings(H)
      BY <3>2, <3>3 DEF Siblings
    <3> QED BY <3>5, <3>6 DEF h, low
  <2> QED BY <2>6, <2>8, <2>9
<1>5. path \in Seq(Siblings(H)) /\ Len(path) = b
  <2>1. ASSUME NEW k \in 1 .. b PROVE sibling(k - 1) \in Siblings(H)
    <3>1. k - 1 \in 0 .. b - 1
      OBVIOUS
    <3> DEFINE j == k - 1
    <3> HIDE DEF j
    <3>2. j \in 0 .. b - 1
      BY <3>1 DEF j
    <3>3. sibling(j) \in Siblings(H)
      BY <1>4, <3>2
    <3> QED BY <3>3 DEF j
  <2> HIDE DEF sibling, path
  <2>2. path \in [1 .. b -> Siblings(H)]
    BY <1>1, <2>1
  <2> QED BY <2>2, FunctionIsSequence
<1>6. IsClimb(u, leaves[pos + 1], path)
  <2>1. u[0] = leaves[pos + 1]
    <3>1. here(0) = pos /\ Level[0] = leaves
      BY <1>0, DivSize, LevelsAre DEF Level
    <3> QED BY <3>1
  <2>2. ASSUME NEW k \in 0 .. b - 1 PROVE u[k + 1] = Climb(u[k], path[k + 1])
    <3>1. k \in 0 .. b /\ k + 1 \in 0 .. b /\ k + 1 \in 1 .. b /\ (k + 1) - 1 = k
      OBVIOUS
    <3>2. u[k] = Level[k][here(k) + 1] /\ u[k + 1] = Level[k + 1][here(k + 1) + 1]
      BY <3>1
    <3>3. path[k + 1] = sibling(k)
      <4> HIDE DEF sibling, path
      <4> QED BY <1>1, <3>1
    <3> HIDE DEF u, sibling, path, here
    <3> QED BY <1>4, <3>2, <3>3
  <2> HIDE DEF u, path
  <2> QED BY <1>5, <2>1, <2>2 DEF IsClimb
<1>7. u[b] = perfect_root(leaves)
  <2>1. here(b) = 0
    <3>1. Size[b - b] = 1
      BY SizeIs
    <3>2. here(b) \in 0 .. Size[b - b] - 1
      BY <1>3
    <3> QED BY <3>1, <3>2
  <2>2. u[b] = Level[b][1]
    BY <2>1
  <2> QED BY <2>2, HeightOfSize DEF perfect_root, Level
<1> HIDE DEF u, path
<1>8. \E v : IsClimb(v, leaves[pos + 1], path) /\ v[b] = perfect_root(leaves)
  BY <1>6, <1>7
<1> QED BY <1>5, <1>8 DEF path
----------------------------------------------------------------------------
(* The peak of a leaf.                                                     *)
LEMMA PeakOfIs ==
  ASSUME NEW ps, NEW m, Tiles(ps, m), NEW i \in 0 .. m - 1
  PROVE  /\ PeakOf(ps, i) \in 1 .. Len(ps)
         /\ ps[PeakOf(ps, i)].start <= i
         /\ i < ps[PeakOf(ps, i)].start + ps[PeakOf(ps, i)].size
<1> DEFINE n == Len(ps)
           Starts == {p \in 1 .. n : ps[p].start <= i}
           FromEnd == {n - p : p \in Starts}
           Of(p) == ps[p].start <= i /\ \A q \in p + 1 .. n : ps[q].start > i
<1>1. ps \in Seq(PeakSet) /\ n \in Nat /\ m \in Nat /\ ps # << >> /\ DOMAIN ps = 1 .. n
  BY DEF Tiles
<1>2. n >= 1 /\ ps[1].start = 0 /\ ps[n].start + ps[n].size = m
  BY <1>1 DEF Tiles
<1>3. \A p \in 1 .. n : ps[p].start \in Nat /\ ps[p].size \in Nat
  <2>1. \A p \in 1 .. n : ps[p] \in PeakSet
    BY <1>1
  <2> QED BY <2>1 DEF PeakSet
<1>4. \A p \in 1 .. n - 1 : ps[p].start + ps[p].size = ps[p + 1].start
  BY DEF Tiles
<1> HIDE DEF n
<1>5. \E p \in 1 .. n : Of(p)
  <2>1. 1 \in Starts
    BY <1>1, <1>2
  <2>2. FromEnd # {} /\ FromEnd \subseteq Nat
    BY <1>1, <2>1
  <2>3. PICK x \in FromEnd : \A y \in FromEnd : ~ (y < x)
    BY <2>2, LeastNumber
  <2>4. PICK p \in Starts : x = n - p
    BY <2>3
  <2>5. ASSUME NEW q \in p + 1 .. n PROVE ps[q].start > i
    <3>1. q \in 1 .. n /\ n - q < x /\ n - q \in Nat
      BY <1>1, <2>4
    <3>2. q \notin Starts
      BY <2>3, <3>1
    <3> QED BY <1>1, <1>3, <3>1, <3>2
  <2> QED BY <2>4, <2>5
<1> DEFINE P == PeakOf(ps, i)
<1>6. P \in 1 .. n /\ Of(P)
  <2>1. P = CHOOSE p \in 1 .. n : Of(p)
    BY <1>1 DEF PeakOf, n
  <2> HIDE DEF P, Of
  <2> QED BY <1>5, <2>1
<1> HIDE DEF P
<1>7. i < ps[P].start + ps[P].size
  <2>1. CASE P = n
    BY <1>1, <1>2, <2>1
  <2>2. CASE P # n
    <3>1. P \in 1 .. n - 1 /\ P + 1 \in P + 1 .. n
      BY <1>1, <1>6, <2>2
    <3> QED BY <1>4, <1>6, <3>1
  <2> QED BY <2>1, <2>2
<1> QED BY <1>6, <1>7 DEF P, n

(* The roots of some of the peaks.                                         *)
LEMMA RootsOfSome ==
  ASSUME NEW leaves, NEW ps \in Seq(PeakSet), NEW a \in 1 .. Len(ps) + 1, NEW z \in a - 1 .. Len(ps)
  PROVE  PeakRoots(leaves, SubSeq(ps, a, z)) = SubSeq(PeakRoots(leaves, ps), a, z)
<1> DEFINE some == SubSeq(ps, a, z)
           m == z - a + 1
           Of(p) == perfect_root(Slice(leaves, p))
<1>1. some \in Seq(PeakSet) /\ Len(some) = m /\ \A k \in 1 .. m : some[k] = ps[a + k - 1]
  BY SubSeqIs
<1>2. a \in Nat /\ z \in Int /\ m \in Nat /\ Len(ps) \in Nat /\ DOMAIN ps = 1 .. Len(ps)
      /\ \A k \in 1 .. m : a + k - 1 \in 1 .. Len(ps) /\ k + a - 1 = a + k - 1
  OBVIOUS
<1>3. DOMAIN some = 1 .. m
  BY <1>1
<1> HIDE DEF some
<1>4. PeakRoots(leaves, some) = [k \in 1 .. m |-> Of(some[k])]
  BY <1>3 DEF PeakRoots
<1>5. PeakRoots(leaves, ps) = [k \in 1 .. Len(ps) |-> Of(ps[k])]
  BY <1>2 DEF PeakRoots
<1>6. SubSeq(PeakRoots(leaves, ps), a, z) = [k \in 1 .. m |-> PeakRoots(leaves, ps)[k + a - 1]]
  OBVIOUS
<1> HIDE DEF Of, m
<1>7. \A k \in 1 .. m : PeakRoots(leaves, ps)[k + a - 1] = Of(some[k])
  BY <1>1, <1>2, <1>5
<1> QED BY <1>4, <1>6, <1>7 DEF some

(* A witness folds its leaf to the root of the tree, wherever the leaf is  *)
(* and however many there are (witness_for, merkle.rs:167-198, and         *)
(* fold_witness, 228-243).                                                 *)
LEMMA WitnessOfLeaf ==
  ASSUME NEW H, Closed(H), NEW leaves \in Seq(H), Len(leaves) < Size[UsizeBits],
         NEW i \in 0 .. Len(leaves) - 1
  PROVE  /\ IsWitness(witness_for(leaves, i), H)
         /\ fold_witness(leaves[i + 1], witness_for(leaves, i)) = merkle_root(leaves)
<1> DEFINE n == Len(leaves)
           ps == peak_bounds(n)
           p == PeakOf(ps, i)
           m == Len(ps)
           rs == PeakRoots(leaves, ps)
           sub == Slice(leaves, ps[p])
           pos == i - ps[p].start
           w == witness_for(leaves, i)
<1>0. n \in Nat /\ n < Size[UsizeBits] /\ i \in 0 .. n - 1 /\ leaves # << >>
  OBVIOUS
<1>1. /\ Tiles(ps, n)
      /\ \A k \in 1 .. m : \E b \in 0 .. UsizeBits - 1 : Bit(n, b) /\ ps[k] = Peak(n, b)
  BY <1>0, PeaksTile
<1>2. rs \in Seq(H) /\ Len(rs) = m
  <2>1. 0 \in 0 .. UsizeBits
    BY UsizeBitsIsNat
  <2>2. rs = Roots(leaves, 0)
    BY DEF Roots, peak_bounds
  <2>3. m = Len(PeaksDownTo(n)[0])
    BY DEF peak_bounds
  <2> HIDE DEF rs, m, n
  <2> QED BY <2>1, <2>2, <2>3, RootsAre DEF n
<1>3. /\ w.siblings = peak_path(sub, pos)
      /\ w.left_peaks = PeakRoots(leaves, SubSeq(ps, 1, p - 1))
      /\ w.right_root = IF SubSeq(ps, p + 1, m) = << >> THEN << >>
                        ELSE <<fold_peaks(PeakRoots(leaves, SubSeq(ps, p + 1, m)))>>
  BY DEF witness_for
<1>4. merkle_root(leaves) = fold_peaks(rs)
  BY <1>0 DEF merkle_root
<1> HIDE DEF n, w
<1>5. p \in 1 .. m /\ ps[p].start <= i /\ i < ps[p].start + ps[p].size
  BY <1>0, <1>1, PeakOfIs
<1>6. ps \in Seq(PeakSet) /\ m \in Nat
  BY <1>1 DEF Tiles
<1> HIDE DEF ps, p
<1>7. PICK b \in 0 .. UsizeBits - 1 : Bit(n, b) /\ ps[p] = Peak(n, b)
  BY <1>1, <1>5
(* In the peak of the leaf.                                                *)
<1>8. /\ sub \in Seq(H) /\ Len(sub) = Size[b] /\ pos \in 0 .. Size[b] - 1 /\ b \in Nat
      /\ sub[pos + 1] = leaves[i + 1]
  <2>1. b \in Nat
    OBVIOUS
  <2>2. /\ ps[p].size = Size[b] /\ Size[b] \in Nat \ {0} /\ ps[p].start \in Nat
        /\ ps[p].start + Size[b] <= n
    BY <1>0, <1>7, <2>1, PeakPlace
  <2>3. ps[p] = [start |-> ps[p].start, size |-> Size[b]]
    BY <1>7 DEF Peak
  <2>4. /\ sub \in Seq(H) /\ Len(sub) = Size[b]
        /\ \A k \in 1 .. Size[b] : sub[k] = leaves[ps[p].start + k]
    <3> DEFINE st == ps[p].start
               sz == Size[b]
    <3>1. st \in Nat /\ sz \in Nat /\ st + sz <= Len(leaves)
      BY <2>2 DEF n
    <3>2. sub = Slice(leaves, [start |-> st, size |-> sz])
      BY <2>3
    <3> HIDE DEF st, sz, sub
    <3>3. sub \in Seq(H) /\ Len(sub) = sz /\ \A k \in 1 .. sz : sub[k] = leaves[st + k]
      BY <3>1, <3>2, SliceIs
    <3> QED BY <3>3 DEF st, sz
  <2>5. pos \in 0 .. Size[b] - 1 /\ pos + 1 \in 1 .. Size[b] /\ ps[p].start + (pos + 1) = i + 1
    <3> DEFINE st == ps[p].start
               sz == Size[b]
    <3>1. i \in Nat /\ st \in Nat /\ sz \in Nat /\ st <= i /\ i < st + sz
      BY <1>0, <1>5, <2>2
    <3> HIDE DEF st, sz
    <3>2. i - st \in 0 .. sz - 1 /\ (i - st) + 1 \in 1 .. sz /\ st + ((i - st) + 1) = i + 1
      BY <3>1
    <3> QED BY <3>2 DEF st, sz
  <2> HIDE DEF sub, pos
  <2>6. sub[pos + 1] = leaves[ps[p].start + (pos + 1)]
    BY <2>4, <2>5
  <2> QED BY <2>1, <2>4, <2>5, <2>6
<1>9. rs[p] = perfect_root(sub)
  <2>1. p \in DOMAIN ps
    BY <1>5, <1>6
  <2> QED BY <2>1 DEF PeakRoots
<1> HIDE DEF sub, pos
<1>10. /\ w.siblings \in Seq(Siblings(H)) /\ Len(w.siblings) = b
       /\ \E u : IsClimb(u, leaves[i + 1], w.siblings) /\ u[b] = rs[p]
  BY <1>3, <1>8, <1>9, PathIs
<1>11. PICK u : IsClimb(u, leaves[i + 1], w.siblings) /\ u[b] = rs[p]
  BY <1>10
(* Left and right of it.                                                   *)
<1>12. w.left_peaks = SubSeq(rs, 1, p - 1)
  <2> DEFINE e == p - 1
  <2>1. 1 \in 1 .. Len(ps) + 1 /\ e \in 1 - 1 .. Len(ps)
    BY <1>5, <1>6
  <2> HIDE DEF e, m
  <2>2. PeakRoots(leaves, SubSeq(ps, 1, e)) = SubSeq(PeakRoots(leaves, ps), 1, e)
    BY <1>6, <2>1, RootsOfSome
  <2> QED BY <1>3, <2>2 DEF e
<1>13. SubSeq(ps, p + 1, m) = << >> <=> p = m
  <2> DEFINE a == p + 1
  <2>1. a \in 1 .. Len(ps) + 1 /\ m \in a - 1 .. Len(ps) /\ m - a + 1 = m - p
    BY <1>5, <1>6
  <2> HIDE DEF a
  <2>2. SubSeq(ps, a, m) \in Seq(PeakSet) /\ Len(SubSeq(ps, a, m)) = m - a + 1
    BY <1>6, <2>1, SubSeqIs
  <2>3. SubSeq(ps, a, m) = << >> <=> m - p = 0
    BY <2>1, <2>2, EmptySeq
  <2>4. m - p = 0 <=> p = m
    BY <1>5, <1>6
  <2> QED BY <2>3, <2>4 DEF a
<1>14. PeakRoots(leaves, SubSeq(ps, p + 1, m)) = SubSeq(rs, p + 1, m)
  <2> DEFINE a == p + 1
  <2>1. a \in 1 .. Len(ps) + 1 /\ m \in a - 1 .. Len(ps)
    BY <1>5, <1>6
  <2> HIDE DEF a, m
  <2>2. PeakRoots(leaves, SubSeq(ps, a, m)) = SubSeq(PeakRoots(leaves, ps), a, m)
    BY <1>6, <2>1, RootsOfSome
  <2> QED BY <2>2 DEF a
<1>15. w.right_root = IF p = m THEN << >> ELSE <<fold_peaks(SubSeq(rs, p + 1, m))>>
  BY <1>3, <1>13, <1>14
<1> DEFINE left == SubSeq(rs, 1, p - 1)
           right == fold_peaks(SubSeq(rs, p + 1, m))
<1>16. /\ left \in Seq(H) /\ (p # m => right \in H)
       /\ fold_peaks(rs) = fold_left_children(left, IF p = m THEN rs[p] ELSE hash_internal(rs[p], right))
  <2> HIDE DEF rs, m
  <2>1. p \in 1 .. Len(rs) /\ Len(rs) = m
    BY <1>2, <1>5
  <2>2. /\ SubSeq(rs, 1, p - 1) \in Seq(H)
        /\ p # Len(rs) => fold_peaks(SubSeq(rs, p + 1, Len(rs))) \in H
        /\ fold_peaks(rs) = fold_left_children(SubSeq(rs, 1, p - 1),
              IF p = Len(rs) THEN rs[p]
              ELSE hash_internal(rs[p], fold_peaks(SubSeq(rs, p + 1, Len(rs)))))
    BY <1>2, <2>1, FoldPeaksAt
  <2> QED BY <2>1, <2>2
<1> HIDE DEF left, right, rs, m
<1>17. /\ w.right_root = IF p = m THEN << >> ELSE <<right>>
       /\ w.left_peaks = left
  BY <1>12, <1>15 DEF left, right
<1>18. IsWitness(w, H)
  BY <1>10, <1>16, <1>17 DEF IsWitness
<1>19. fold_witness(leaves[i + 1], w) = AbovePeak(rs[p], w)
  <2>1. Len(w.siblings) \in Nat
    BY <1>8, <1>10
  <2> QED BY <1>10, <1>11, <2>1, ClimbIs
<1>20. AbovePeak(rs[p], w) = fold_peaks(rs)
  <2>1. CASE p = m
    BY <1>16, <1>17, <2>1 DEF AbovePeak
  <2>2. CASE p # m
    <3>1. w.right_root # << >> /\ w.right_root[1] = right
      BY <1>17, <2>2
    <3> QED BY <1>16, <1>17, <2>2, <3>1 DEF AbovePeak
  <2> QED BY <2>1, <2>2
<1> QED BY <1>4, <1>18, <1>19, <1>20 DEF w, rs

(* There is a set of hashes around any set of leaves.                      *)
Grown(s) == s \cup {hash_internal(pair[1], pair[2]) : pair \in s \X s}

IsGrowth(g, n, base) ==
  /\ g = [i \in 0 .. n |-> g[i]] /\ g[0] = base
  /\ \A i \in 0 .. n - 1 : g[i + 1] = Grown(g[i])

(* It is the limit of adding all hashes of two of its own.                 *)
LEMMA HashesExist ==
  ASSUME NEW base
  PROVE  \E H : Closed(H) /\ base \subseteq H
<1>1. \A n \in Nat : \E g : IsGrowth(g, n, base)
  <2> DEFINE S == {n \in Nat : \E g : IsGrowth(g, n, base)}
  <2>1. 0 \in S
    <3>1. IsGrowth([i \in 0 .. 0 |-> base], 0, base)
      BY DEF IsGrowth
    <3> QED BY <3>1
  <2>2. ASSUME NEW n \in Nat, n \in S PROVE n + 1 \in S
    <3>1. PICK g : IsGrowth(g, n, base)
      BY <2>2
    <3> DEFINE h == [i \in 0 .. n + 1 |-> IF i = n + 1 THEN Grown(g[n]) ELSE g[i]]
    <3>2. h = [i \in 0 .. n + 1 |-> h[i]] /\ h[0] = base
      BY <3>1 DEF IsGrowth
    <3>3. ASSUME NEW i \in 0 .. n PROVE h[i + 1] = Grown(h[i])
      <4>1. CASE i = n
        BY <4>1
      <4>2. CASE i # n
        <5>1. i \in 0 .. n - 1 /\ i + 1 \in 0 .. n
          BY <4>2
        <5>2. h[i] = g[i] /\ h[i + 1] = g[i + 1]
          BY <5>1
        <5> QED BY <3>1, <5>1, <5>2 DEF IsGrowth
      <4> QED BY <4>1, <4>2
    <3> HIDE DEF h
    <3>4. IsGrowth(h, n + 1, base)
      <4>1. (n + 1) - 1 = n
        OBVIOUS
      <4> QED BY <3>2, <3>3, <4>1 DEF IsGrowth
    <3> QED BY <3>4
  <2> HIDE DEF S
  <2>3. \A n \in Nat : n \in S
    BY <2>1, <2>2, Induction
  <2> QED BY <2>3 DEF S
<1> DEFINE G(n) == CHOOSE g : IsGrowth(g, n, base)
           f    == [n \in Nat |-> G(n)[n]]
<1>2. ASSUME NEW n \in Nat PROVE IsGrowth(G(n), n, base)
  BY <1>1
<1>3. ASSUME NEW n \in Nat, NEW m \in Nat, n <= m PROVE G(m)[n] = f[n]
  <2> DEFINE S == {i \in Nat : i <= n => G(m)[i] = G(n)[i]}
  <2>0. IsGrowth(G(m), m, base) /\ IsGrowth(G(n), n, base) /\ f[n] = G(n)[n]
    BY <1>2
  <2> HIDE DEF G, f
  <2>1. 0 \in S
    BY <2>0 DEF IsGrowth
  <2>2. ASSUME NEW i \in Nat, i \in S PROVE i + 1 \in S
    <3> SUFFICES ASSUME i + 1 <= n PROVE G(m)[i + 1] = G(n)[i + 1]
      OBVIOUS
    <3>1. i \in 0 .. n - 1 /\ i \in 0 .. m - 1 /\ G(m)[i] = G(n)[i]
      BY <1>3, <2>2
    <3> QED BY <2>0, <3>1 DEF IsGrowth
  <2> HIDE DEF S
  <2>3. n \in S
    BY <2>1, <2>2, Induction
  <2> QED BY <2>0, <2>3 DEF S
<1>4. f[0] = base
  BY <1>2 DEF IsGrowth
<1>5. ASSUME NEW n \in Nat PROVE f[n + 1] = Grown(f[n])
  <2>1. IsGrowth(G(n + 1), n + 1, base) /\ f[n + 1] = G(n + 1)[n + 1] /\ G(n + 1)[n] = f[n]
    BY <1>2, <1>3
  <2> HIDE DEF G, f
  <2>2. n \in 0 .. (n + 1) - 1
    OBVIOUS
  <2> QED BY <2>1, <2>2 DEF IsGrowth
<1> HIDE DEF f, G
<1>6. ASSUME NEW n \in Nat PROVE \A d \in Nat : f[n] \subseteq f[n + d]
  <2> DEFINE S == {d \in Nat : f[n] \subseteq f[n + d]}
  <2>1. 0 \in S
    OBVIOUS
  <2>2. ASSUME NEW d \in Nat, d \in S PROVE d + 1 \in S
    <3>1. f[(n + d) + 1] = Grown(f[n + d]) /\ (n + d) + 1 = n + (d + 1)
      BY <1>5
    <3>2. f[n + d] \subseteq f[n + (d + 1)]
      BY <3>1 DEF Grown
    <3> QED BY <2>2, <3>2
  <2> HIDE DEF S
  <2>3. \A d \in Nat : d \in S
    BY <2>1, <2>2, Induction
  <2> QED BY <2>3 DEF S
<1> DEFINE H == UNION {f[n] : n \in Nat}
<1>7. base \subseteq H
  BY <1>4
<1>8. ASSUME NEW l \in H, NEW r \in H PROVE hash_internal(l, r) \in H
  <2>1. PICK i \in Nat : l \in f[i]
    OBVIOUS
  <2>2. PICK j \in Nat : r \in f[j]
    OBVIOUS
  <2>3. l \in f[i + j] /\ r \in f[i + j]
    <3>1. f[i] \subseteq f[i + j]
      BY <1>6
    <3>2. f[j] \subseteq f[j + i] /\ j + i = i + j
      BY <1>6
    <3> QED BY <2>1, <2>2, <3>1, <3>2
  <2>4. hash_internal(l, r) \in Grown(f[i + j])
    <3>1. <<l, r>> \in f[i + j] \X f[i + j] /\ <<l, r>>[1] = l /\ <<l, r>>[2] = r
      BY <2>3
    <3> QED BY <3>1 DEF Grown
  <2>5. hash_internal(l, r) \in f[(i + j) + 1]
    BY <1>5, <2>4
  <2> QED BY <2>5
<1> HIDE DEF H
<1>9. Closed(H) /\ base \subseteq H
  BY <1>7, <1>8 DEF Closed
<1> QED BY <1>9
----------------------------------------------------------------------------
(* While neither pass has failed they hold the same header, footer and     *)
(* trees; and a file the scan rejects, the witness has rejected too.       *)
InStep ==
  /\ failed = "no" /\ w_failed = "no" =>
       /\ header = w_header /\ footer = w_footer
       /\ w_trees = [t \in Trees \ {"input"} |-> trees[t]]
  /\ w_failed = "no" => failed # "rejected"
  /\ failed \in {"no", "rejected", "undecodable"}
  /\ DOMAIN trees = Trees

(* Both copies of the match send a kind to the same tree, and reject the   *)
(* same kinds (material.rs:297-321 and 427-452).                           *)
LEMMA SameMatch == ScanTree = WitnessTree /\ ScanRejects = WitnessRejects
BY DEF ScanTree, WitnessTree, ScanRejects, WitnessRejects

(* A kind of item has at most one tree.                                    *)
LEMMA TreeOfKind == \A kind \in DOMAIN ScanTree : ScanTree[kind] \in Trees
BY DEF ScanTree, Trees

(* An item read by both passes keeps them in step.                         *)
LEMMA BothReadInStep ==
  ASSUME InStep, failed = "no", w_failed = "no",
         NEW item \in Item, NEW bytes, ScanItem(item, bytes), WitnessItem(item, bytes)
  PROVE  InStep'
<1>1. DOMAIN trees' = Trees /\ failed' \in {"no", "rejected", "undecodable"}
  BY DEF ScanItem, InStep
<1>2. w_failed' = "no" => failed' # "rejected"
  BY SameMatch DEF ScanItem, WitnessItem
<1>3. header' = w_header' /\ footer' = w_footer'
  BY DEF ScanItem, WitnessItem, InStep
<1>4. w_trees' = [t \in Trees \ {"input"} |-> trees'[t]]
  <2> DEFINE kind == item.kind
  <2>0. w_trees = [t \in Trees \ {"input"} |-> trees[t]] /\ DOMAIN trees = Trees
    BY DEF InStep
  <2>1. CASE kind \notin DOMAIN ScanTree
    <3>1. trees' = trees
      BY <2>1 DEF ScanItem
    <3>2. w_trees' = w_trees
      BY <2>0, <2>1, SameMatch, MaterialConstants DEF WitnessItem
    <3> QED BY <2>0, <3>1, <3>2
  <2>2. CASE kind \in DOMAIN ScanTree
    <3>1. PICK tree \in Trees : tree = ScanTree[kind]
      BY <2>2, TreeOfKind
    <3>2. trees' = [trees EXCEPT ![tree] = add_leaf(trees[tree], hash_leaf(bytes))]
      BY <2>2, <3>1 DEF ScanItem
    <3>3. w_trees' = IF tree \in DOMAIN w_trees
                     THEN [w_trees EXCEPT ![tree] = add_leaf(w_trees[tree], hash_leaf(bytes))]
                     ELSE w_trees
      BY <2>2, <3>1, SameMatch DEF WitnessItem
    <3> QED BY <2>0, <3>2, <3>3
  <2> QED BY <2>1, <2>2
<1> QED BY <1>1, <1>2, <1>3, <1>4 DEF InStep

(* A pass that goes on alone keeps the invariant too.                      *)
LEMMA NextItemInStep ==
  ASSUME InStep, NEW item \in Item, NextItem(item)
  PROVE  InStep'
<1>1. PICK bytes :
        /\ IF failed = "no" THEN ScanItem(item, bytes) ELSE UNCHANGED scan
        /\ IF w_failed = "no" THEN WitnessItem(item, bytes) ELSE UNCHANGED witness
  BY DEF NextItem
<1>2. CASE failed = "no" /\ w_failed = "no"
  BY <1>1, <1>2, BothReadInStep
<1>3. CASE failed # "no"
  <2>1. failed' = failed /\ trees' = trees
    BY <1>1, <1>3 DEF scan
  <2>2. w_failed' = "no" => w_failed = "no"
    BY <1>1 DEF witness
  <2> QED BY <1>3, <2>1, <2>2 DEF InStep
<1>4. CASE failed = "no" /\ w_failed # "no"
  <2>1. w_failed' = w_failed
    BY <1>1, <1>4 DEF witness
  <2>2. DOMAIN trees' = Trees /\ failed' \in {"no", "rejected", "undecodable"}
    BY <1>1, <1>4 DEF ScanItem, InStep
  <2> QED BY <1>4, <2>1, <2>2 DEF InStep
<1> QED BY <1>2, <1>3, <1>4

(* InStep is inductive, and PassesAgree follows from it.                   *)
LEMMA InStepForever == Spec => []InStep
<1>1. Init => InStep
  BY DEF Init, InStep
<1>2. InStep /\ [Next]_vars => InStep'
  <2> SUFFICES ASSUME InStep, [Next]_vars PROVE InStep'
    OBVIOUS
  <2>1. CASE Next
    BY <2>1, NextItemInStep DEF Next
  <2>2. CASE UNCHANGED vars
    BY <2>2 DEF vars, InStep
  <2> QED BY <2>1, <2>2
<1> QED BY <1>1, <1>2, PTL DEF Spec

(* A witness is given only where the scan computes a root, unless the scan *)
(* stopped at a proof or a transaction that does not decode, for blocks of *)
(* any length (scan_block, material.rs:281, block_inclusion_witness, 409). *)
THEOREM PassesAgreeForever == Spec => []PassesAgree
<1>1. InStep => PassesAgree
  <2> SUFFICES ASSUME InStep, NEW i \in Indices, ~ WitnessFails(i), failed # "undecodable"
               PROVE  ~ ScanFails
    BY DEF PassesAgree
  <2>1. w_failed = "no" /\ None \notin {w_header, w_footer}
    BY DEF WitnessFails
  <2>2. failed # "rejected"
    BY <2>1 DEF InStep
  <2> QED BY <2>1, <2>2 DEF InStep, ScanFails
<1> QED BY <1>1, InStepForever, PTL

----------------------------------------------------------------------------
(* The hashes of items.                                                    *)
ItemHashes == {hash_leaf(<<n, kind>>) : n \in Nat, kind \in Kinds \cup {"signed", "none"}}
Hashes     == CHOOSE H : Closed(H) /\ ItemHashes \subseteq H

(* They hold the leaves of every item, and are closed.                     *)
LEMMA HashesAre == Closed(Hashes) /\ ItemHashes \subseteq Hashes
<1>1. \E H : Closed(H) /\ ItemHashes \subseteq H
  BY HashesExist
<1> QED BY <1>1 DEF Hashes

(* The first n transactions: their bytes and their leaves.                 *)
SignedBytes(n)  == [i \in 1 .. n |-> Bytes(i, "signed")]
SignedLeaves(n) == [i \in 1 .. n |-> hash_leaf(Bytes(i, "signed"))]

(* One more transaction goes to the end of both.                           *)
LEMMA SignedAre ==
  ASSUME NEW n \in Nat
  PROVE  /\ SignedLeaves(n) \in Seq(Hashes) /\ Len(SignedLeaves(n)) = n
         /\ SignedBytes(n) \in Seq(Nat \X {"signed"}) /\ Len(SignedBytes(n)) = n
         /\ hash_leaf(Bytes(n + 1, "signed")) \in Hashes
         /\ Append(SignedLeaves(n), hash_leaf(Bytes(n + 1, "signed"))) = SignedLeaves(n + 1)
         /\ Append(SignedBytes(n), Bytes(n + 1, "signed")) = SignedBytes(n + 1)
<1>1. \A i \in Nat : hash_leaf(Bytes(i, "signed")) \in Hashes
  <2> SUFFICES ASSUME NEW i \in Nat PROVE hash_leaf(Bytes(i, "signed")) \in Hashes
    OBVIOUS
  <2>1. "signed" \in Kinds \cup {"signed", "none"}
    OBVIOUS
  <2>2. hash_leaf(<<i, "signed">>) \in ItemHashes
    BY <2>1 DEF ItemHashes
  <2> QED BY <2>2, HashesAre DEF Bytes
<1>2. \A i \in Nat : Bytes(i, "signed") \in Nat \X {"signed"}
  BY DEF Bytes
<1>3. \A k \in Nat : SignedLeaves(k) \in Seq(Hashes) /\ Len(SignedLeaves(k)) = k
  <2> SUFFICES ASSUME NEW k \in Nat PROVE SignedLeaves(k) \in Seq(Hashes) /\ Len(SignedLeaves(k)) = k
    OBVIOUS
  <2>1. SignedLeaves(k) \in [1 .. k -> Hashes]
    BY <1>1 DEF SignedLeaves
  <2> QED BY <2>1, FunctionIsSequence
<1>4. \A k \in Nat : SignedBytes(k) \in Seq(Nat \X {"signed"}) /\ Len(SignedBytes(k)) = k
  <2> SUFFICES ASSUME NEW k \in Nat PROVE SignedBytes(k) \in Seq(Nat \X {"signed"}) /\ Len(SignedBytes(k)) = k
    OBVIOUS
  <2> DEFINE V == Nat \X {"signed"}
  <2>1. SignedBytes(k) \in [1 .. k -> V]
    BY <1>2 DEF SignedBytes
  <2> HIDE DEF V
  <2>2. SignedBytes(k) \in Seq(V) /\ Len(SignedBytes(k)) = k
    BY <2>1, FunctionIsSequence
  <2> QED BY <2>2 DEF V
<1>5. Append(SignedLeaves(n), hash_leaf(Bytes(n + 1, "signed"))) = SignedLeaves(n + 1)
  <2> DEFINE s == SignedLeaves(n)
             e == hash_leaf(Bytes(n + 1, "signed"))
             t == SignedLeaves(n + 1)
  <2>1. /\ s \in Seq(Hashes) /\ Len(s) = n /\ t \in Seq(Hashes) /\ Len(t) = n + 1 /\ e \in Hashes
        /\ t[n + 1] = e /\ \A i \in 1 .. n : t[i] = s[i]
    <3>1. s \in Seq(Hashes) /\ Len(s) = n /\ t \in Seq(Hashes) /\ Len(t) = n + 1
      BY <1>3
    <3>2. e \in Hashes
      BY <1>1
    <3>3. t[n + 1] = e /\ \A i \in 1 .. n : t[i] = s[i]
      BY DEF SignedLeaves
    <3> QED BY <3>1, <3>2, <3>3
  <2> HIDE DEF s, e, t
  <2>2. Append(s, e) \in Seq(Hashes) /\ Len(Append(s, e)) = n + 1 /\ Append(s, e)[n + 1] = e
        /\ \A i \in 1 .. n : Append(s, e)[i] = s[i]
    BY <2>1, AppendProperties
  <2>3. \A i \in 1 .. n + 1 : Append(s, e)[i] = t[i]
    BY <2>1, <2>2
  <2> DEFINE a == Append(s, e)
  <2> HIDE DEF a
  <2>4. a \in Seq(Hashes) /\ Len(a) = Len(t) /\ \A i \in 1 .. Len(t) : a[i] = t[i]
    BY <2>1, <2>2, <2>3 DEF a
  <2>5. a = t
    BY <2>1, <2>4, SeqEqual
  <2> QED BY <2>5 DEF s, e, t, a
<1>6. Append(SignedBytes(n), Bytes(n + 1, "signed")) = SignedBytes(n + 1)
  <2> DEFINE V == Nat \X {"signed"}
             s == SignedBytes(n)
             e == Bytes(n + 1, "signed")
             t == SignedBytes(n + 1)
  <2>1. /\ s \in Seq(V) /\ Len(s) = n /\ t \in Seq(V) /\ Len(t) = n + 1 /\ e \in V
        /\ t[n + 1] = e /\ \A i \in 1 .. n : t[i] = s[i]
    <3>1. s \in Seq(V) /\ Len(s) = n /\ t \in Seq(V) /\ Len(t) = n + 1
      BY <1>4
    <3>2. e \in V
      BY <1>2
    <3>3. t[n + 1] = e /\ \A i \in 1 .. n : t[i] = s[i]
      BY DEF SignedBytes
    <3> QED BY <3>1, <3>2, <3>3
  <2> HIDE DEF s, e, t, V
  <2>2. Append(s, e) \in Seq(V) /\ Len(Append(s, e)) = n + 1 /\ Append(s, e)[n + 1] = e
        /\ \A i \in 1 .. n : Append(s, e)[i] = s[i]
    BY <2>1, AppendProperties
  <2>3. \A i \in 1 .. n + 1 : Append(s, e)[i] = t[i]
    BY <2>1, <2>2
  <2> DEFINE a == Append(s, e)
  <2> HIDE DEF a
  <2>4. a \in Seq(V) /\ Len(a) = Len(t) /\ \A i \in 1 .. Len(t) : a[i] = t[i]
    BY <2>1, <2>2, <2>3 DEF a
  <2>5. a = t
    BY <2>1, <2>4, SeqEqual
  <2> QED BY <2>5 DEF s, e, t, a
<1>7. n + 1 \in Nat
  OBVIOUS
<1>8. hash_leaf(Bytes(n + 1, "signed")) \in Hashes
  BY <1>1, <1>7
<1> QED BY <1>3, <1>4, <1>5, <1>6, <1>8

(* Every hasher is that of some leaves, no more than there are items.      *)
Streamed(h, n) == \E leaves \in Seq(Hashes) : Len(leaves) <= n /\ h = HasherOf(leaves)

Kept ==
  /\ items \in [all : 0 .. MaxItems, plain : 0 .. MaxPlain]
  /\ fed \in [Trees -> Nat] /\ \A t \in Trees : fed[t] <= items.all
  /\ DOMAIN trees = Trees /\ \A t \in Trees : Streamed(trees[t], items.all)
  /\ DOMAIN w_trees = Trees \ {"input"} /\ \A t \in DOMAIN w_trees : Streamed(w_trees[t], items.all)
  /\ failed = "no" => w_failed = "no"

(* The witness has kept the transactions fed to the input tree, and the    *)
(* scan's hasher is theirs.                                                *)
KeptInput ==
  /\ \E n \in Nat : /\ input_leaves = SignedLeaves(n) /\ input_item_bytes = SignedBytes(n)
                    /\ w_failed = "no" => n = fed["input"]
  /\ failed = "no" /\ w_failed = "no" => trees["input"] = HasherOf(input_leaves)

Values ==
  /\ {header, w_header} \subseteq {TimestampBytes, NoBytes, None}
  /\ {footer, w_footer} \subseteq Footers \cup {None}
  /\ block_signature \in Signatures \cup {None}
  /\ bootstrap \in {None} \cup {Bytes(n, "signed") : n \in 1 .. MaxItems}
  /\ {failed, w_failed} \subseteq {"no", "rejected", "undecodable"}

(* The bootstrap is the first of the publications the scan has read.       *)
Anchored ==
  /\ published \subseteq 1 .. fed["input"]
  /\ failed = "no" =>
       \/ published = {} /\ bootstrap = None
       \/ \E place \in published : /\ bootstrap = Bytes(place, "signed")
                                   /\ \A other \in published : place <= other

(* The tree of an item and its bytes.                                      *)
TreeOf(item)  == IF item.kind \in DOMAIN ScanTree THEN ScanTree[item.kind] ELSE None
BytesOf(item) == IF TreeOf(item) = None THEN NoBytes ELSE Bytes(fed[TreeOf(item)] + 1, item.kind)

(* A step reads one item, and a pass that has failed reads nothing.        *)
LEMMA OneItem ==
  ASSUME NEW item \in Item, NextItem(item)
  PROVE  /\ items.all < MaxItems /\ (item \in Transaction \/ items.plain < MaxPlain)
         /\ items' = [all   |-> items.all + 1,
                      plain |-> items.plain + (IF item \in Transaction THEN 0 ELSE 1)]
         /\ published' = IF item \in Publication /\ failed = "no"
                         THEN published \cup {fed["input"] + 1} ELSE published
         /\ fed' = IF TreeOf(item) = None THEN fed ELSE [fed EXCEPT ![TreeOf(item)] = @ + 1]
         /\ IF failed = "no" THEN ScanItem(item, BytesOf(item)) ELSE UNCHANGED scan
         /\ IF w_failed = "no" THEN WitnessItem(item, BytesOf(item)) ELSE UNCHANGED witness
<1>1. item \in Publication => item.kind = "signed"
  BY DEF Publication
<1>2. "signed" \in DOMAIN ScanTree /\ ScanTree["signed"] = "input"
  BY DEF ScanTree
<1>3. published' = IF item \in Publication /\ failed = "no"
                   THEN published \cup {fed["input"] + 1} ELSE published
  BY <1>1, <1>2 DEF NextItem
<1> QED BY <1>3 DEF NextItem, TreeOf, BytesOf

(* What is known of an item from its kind; only transactions go to the     *)
(* input tree.                                                             *)
LEMMA ItemsAre ==
  ASSUME NEW item \in Item
  PROVE  /\ item.kind \in Kinds
         /\ item.kind = "header" => item.view \in {TimestampBytes, NoBytes}
         /\ item.kind = "footer" => item.view \in Footers
         /\ item.kind = "proof"  => item.view \in Signatures \cup {None}
         /\ TreeOf(item) \in Trees \cup {None}
         /\ TreeOf(item) = "input" <=> item.kind = "signed"
<1>1. item.kind \in Kinds
  BY DEF Item, Plain
<1>2. /\ item.kind = "header" => item.view \in {TimestampBytes, NoBytes}
      /\ item.kind = "footer" => item.view \in Footers
      /\ item.kind = "proof"  => item.view \in Signatures \cup {None}
  <2>1. CASE item \in {Plain(k) : k \in Kinds \ {"header", "footer", "proof", "signed"}}
    BY <2>1 DEF Plain
  <2>2. CASE item \in HeaderItem
    BY <2>2 DEF HeaderItem
  <2>3. CASE item \in FooterItem
    BY <2>3 DEF FooterItem
  <2>4. CASE item \in ProofItem
    BY <2>4 DEF ProofItem
  <2>5. CASE item \in SignedItem
    BY <2>5 DEF SignedItem, Transaction, Publication
  <2> QED BY <2>1, <2>2, <2>3, <2>4, <2>5 DEF Item
<1>3. TreeOf(item) \in Trees \cup {None}
  BY TreeOfKind DEF TreeOf
<1>4. TreeOf(item) = "input" <=> item.kind = "signed"
  BY MaterialConstants DEF TreeOf, ScanTree, Trees
<1> QED BY <1>1, <1>2, <1>3, <1>4

(* Of the transactions that decode only a publication has that view.       *)
LEMMA SignedViews ==
  ASSUME NEW item \in Item, item.kind = "signed", item.decodes, item \notin Publication
  PROVE  item.view # "publication"
<1>1. item \in SignedItem
  BY DEF Item, Plain, HeaderItem, FooterItem, ProofItem
<1>2. item \in [kind : {"signed"}, decodes : {TRUE}, view : {"other"}]
  BY <1>1 DEF SignedItem, Transaction
<1> QED BY <1>2

(* An item leaves the locals of both passes with values they may have.     *)
LEMMA ValuesStep ==
  ASSUME Values, Kept, NEW item \in Item, NextItem(item)
  PROVE  Values'
<1>1. ASSUME failed = "no", ScanItem(item, BytesOf(item))
      PROVE  /\ header' \in {TimestampBytes, NoBytes, None} /\ footer' \in Footers \cup {None}
             /\ block_signature' \in Signatures \cup {None}
             /\ bootstrap' \in {None} \cup {Bytes(n, "signed") : n \in 1 .. MaxItems}
             /\ failed' \in {"no", "rejected", "undecodable"}
  <2>1. header' \in {TimestampBytes, NoBytes, None} /\ footer' \in Footers \cup {None}
    BY <1>1, ItemsAre DEF ScanItem, Values
  <2>2. block_signature' \in Signatures \cup {None} /\ failed' \in {"no", "rejected", "undecodable"}
    BY <1>1, ItemsAre DEF ScanItem, Values
  <2>3. bootstrap' \in {None} \cup {Bytes(n, "signed") : n \in 1 .. MaxItems}
    <3>1. CASE item.kind = "signed"
      <4>1. TreeOf(item) = "input" /\ "input" # None /\ "input" \in Trees
        BY <3>1, ItemsAre, MaterialConstants DEF Trees
      <4>2. fed["input"] \in Nat /\ fed["input"] <= items.all /\ items.all \in 0 .. MaxItems /\ items.all < MaxItems
        BY <4>1, OneItem DEF Kept
      <4>3. fed["input"] + 1 \in 1 .. MaxItems
        BY <4>2, MaterialConstants
      <4>4. BytesOf(item) = Bytes(fed["input"] + 1, "signed")
        BY <3>1, <4>1 DEF BytesOf
      <4> QED BY <1>1, <3>1, <4>3, <4>4 DEF ScanItem, NextBootstrap, Values
    <3>2. CASE item.kind # "signed"
      BY <1>1, <3>2 DEF ScanItem, Values
    <3> QED BY <3>1, <3>2
  <2> QED BY <2>1, <2>2, <2>3
<1>2. ASSUME w_failed = "no", WitnessItem(item, BytesOf(item))
      PROVE  /\ w_header' \in {TimestampBytes, NoBytes, None} /\ w_footer' \in Footers \cup {None}
             /\ w_failed' \in {"no", "rejected", "undecodable"}
  BY <1>2, ItemsAre DEF WitnessItem, Values
<1>3. /\ header' \in {TimestampBytes, NoBytes, None} /\ footer' \in Footers \cup {None}
      /\ block_signature' \in Signatures \cup {None}
      /\ bootstrap' \in {None} \cup {Bytes(n, "signed") : n \in 1 .. MaxItems}
      /\ failed' \in {"no", "rejected", "undecodable"}
  <2>1. CASE failed = "no"
    BY <1>1, <2>1, OneItem
  <2>2. CASE failed # "no"
    <3>1. UNCHANGED scan
      BY <2>2, OneItem
    <3> QED BY <3>1 DEF scan, Values
  <2> QED BY <2>1, <2>2
<1>4. /\ w_header' \in {TimestampBytes, NoBytes, None} /\ w_footer' \in Footers \cup {None}
      /\ w_failed' \in {"no", "rejected", "undecodable"}
  <2>1. CASE w_failed = "no"
    BY <1>2, <2>1, OneItem
  <2>2. CASE w_failed # "no"
    <3>1. UNCHANGED witness
      BY <2>2, OneItem
    <3> QED BY <3>1 DEF witness, Values
  <2> QED BY <2>1, <2>2
<1> QED BY <1>3, <1>4 DEF Values

(* A hasher stays one that has streamed some leaves.                       *)
LEMMA StreamedOn ==
  ASSUME NEW h, NEW n \in Nat, Streamed(h, n)
  PROVE  /\ Streamed(h, n + 1)
         /\ n + 1 < Size[UsizeBits] => \A x \in Hashes : Streamed(add_leaf(h, x), n + 1)
<1>1. PICK leaves \in Seq(Hashes) : Len(leaves) <= n /\ h = HasherOf(leaves)
  BY DEF Streamed
<1>2. Len(leaves) \in Nat /\ Len(leaves) <= n + 1
  BY <1>1
<1>3. Streamed(h, n + 1)
  BY <1>1, <1>2 DEF Streamed
<1>4. ASSUME n + 1 < Size[UsizeBits], NEW x \in Hashes PROVE Streamed(add_leaf(h, x), n + 1)
  <2>1. Len(leaves) + 1 < Size[UsizeBits]
    BY <1>1, <1>2, <1>4, UsizeBitsIsNat, SizeGrows
  <2>2. /\ Append(leaves, x) \in Seq(Hashes) /\ Len(Append(leaves, x)) = Len(leaves) + 1
        /\ add_leaf(HasherOf(leaves), x) = HasherOf(Append(leaves, x))
    BY <2>1, HashesAre, AddLeaf
  <2>3. Len(Append(leaves, x)) <= n + 1
    BY <1>1, <1>2, <2>2
  <2> QED BY <1>1, <2>2, <2>3 DEF Streamed
<1> QED BY <1>3, <1>4

(* The hash of what a step feeds to a tree is one of the items' hashes.    *)
LEMMA BytesAreItems ==
  ASSUME Kept, NEW item \in Item
  PROVE  hash_leaf(BytesOf(item)) \in Hashes
<1>1. \A n \in Nat : \A k \in Kinds \cup {"signed", "none"} : hash_leaf(<<n, k>>) \in Hashes
  <2> SUFFICES ASSUME NEW n \in Nat, NEW k \in Kinds \cup {"signed", "none"}
               PROVE  hash_leaf(<<n, k>>) \in Hashes
    OBVIOUS
  <2>1. hash_leaf(<<n, k>>) \in ItemHashes
    BY DEF ItemHashes
  <2> QED BY <2>1, HashesAre
<1>2. CASE TreeOf(item) = None
  <2>1. "none" \in Kinds \cup {"signed", "none"} /\ 0 \in Nat
    OBVIOUS
  <2>2. hash_leaf(<<0, "none">>) \in Hashes
    BY <1>1, <2>1
  <2> QED BY <1>2, <2>2 DEF BytesOf, NoBytes
<1>3. CASE TreeOf(item) # None
  <2>1. TreeOf(item) \in Trees /\ item.kind \in Kinds
    BY <1>3, ItemsAre
  <2>2. fed[TreeOf(item)] + 1 \in Nat
    BY <2>1 DEF Kept
  <2>3. hash_leaf(<<fed[TreeOf(item)] + 1, item.kind>>) \in Hashes
    BY <1>1, <2>1, <2>2
  <2> QED BY <1>3, <2>3 DEF BytesOf, Bytes
<1> QED BY <1>2, <1>3

(* An item leaves every tree, of both passes, the hasher of the leaves it  *)
(* was fed.                                                                *)
LEMMA KeptStep ==
  ASSUME Kept, NEW item \in Item, NextItem(item)
  PROVE  Kept'
<1> DEFINE n == items.all
           x == hash_leaf(BytesOf(item))
           tree == TreeOf(item)
<1>0. /\ n \in Nat /\ n < MaxItems /\ n + 1 \in 0 .. MaxItems /\ n + 1 < Size[UsizeBits]
      /\ items'.all = n + 1
  <2>1. MaxItems \in Nat /\ MaxItems < Size[UsizeBits] /\ Size[UsizeBits] \in Nat
    BY MaterialConstants, UsizeBitsIsNat, SizeGrows
  <2>2. items.all \in 0 .. MaxItems /\ items.all < MaxItems /\ items'.all = items.all + 1
    BY OneItem DEF Kept
  <2> QED BY <2>1, <2>2
<1>1. x \in Hashes /\ tree \in Trees \cup {None} /\ None \notin Trees
  BY BytesAreItems, ItemsAre, MaterialConstants
<1>2. items' \in [all : 0 .. MaxItems, plain : 0 .. MaxPlain]
  <2>1. /\ items.plain \in 0 .. MaxPlain /\ (item \in Transaction \/ items.plain < MaxPlain)
        /\ MaxPlain \in Nat
        /\ items' = [all |-> items.all + 1, plain |-> items.plain + (IF item \in Transaction THEN 0 ELSE 1)]
    BY OneItem, MaterialConstants DEF Kept
  <2>2. items.plain + (IF item \in Transaction THEN 0 ELSE 1) \in 0 .. MaxPlain
    BY <2>1
  <2> QED BY <1>0, <2>1, <2>2
<1>3. fed' \in [Trees -> Nat] /\ \A t \in Trees : fed'[t] <= items'.all
  <2>1. /\ fed \in [Trees -> Nat] /\ \A t \in Trees : fed[t] <= n
        /\ fed' = IF tree = None THEN fed ELSE [fed EXCEPT ![tree] = @ + 1]
    BY OneItem DEF Kept
  <2>2. ASSUME NEW t \in Trees PROVE fed'[t] \in Nat /\ fed'[t] <= n + 1
    BY <1>0, <1>1, <2>1
  <2>3. DOMAIN fed' = Trees /\ fed' = [t \in Trees |-> fed'[t]]
    BY <2>1
  <2> QED BY <1>0, <2>2, <2>3
<1> HIDE DEF x, tree, n
<1>4. /\ \A t \in Trees : Streamed(trees[t], n) /\ Streamed(trees[t], n + 1) /\ Streamed(add_leaf(trees[t], x), n + 1)
      /\ DOMAIN trees = Trees
  BY <1>0, <1>1, StreamedOn DEF Kept, n
<1>5. /\ \A t \in DOMAIN w_trees : Streamed(w_trees[t], n) /\ Streamed(w_trees[t], n + 1) /\ Streamed(add_leaf(w_trees[t], x), n + 1)
      /\ DOMAIN w_trees = Trees \ {"input"}
  BY <1>0, <1>1, StreamedOn DEF Kept, n
<1>6. DOMAIN trees' = Trees /\ \A t \in Trees : Streamed(trees'[t], items'.all)
  <2>1. CASE failed = "no"
    <3>1. trees' = IF item.kind \in DOMAIN ScanTree
                   THEN [trees EXCEPT ![tree] = add_leaf(@, x)] ELSE trees
      BY <2>1, OneItem DEF ScanItem, TreeOf, x, tree
    <3>2. CASE item.kind \in DOMAIN ScanTree
      <4>1. \A t \in Trees : trees'[t] = IF t = tree THEN add_leaf(trees[t], x) ELSE trees[t]
        BY <1>4, <3>1, <3>2
      <4> QED BY <1>0, <1>4, <3>1, <3>2, <4>1
    <3>3. CASE item.kind \notin DOMAIN ScanTree
      BY <1>0, <1>4, <3>1, <3>3
    <3> QED BY <3>2, <3>3
  <2>2. CASE failed # "no"
    <3>1. trees' = trees
      BY <2>2, OneItem DEF scan
    <3> QED BY <1>0, <1>4, <3>1
  <2> QED BY <2>1, <2>2
<1>7. DOMAIN w_trees' = Trees \ {"input"} /\ \A t \in DOMAIN w_trees' : Streamed(w_trees'[t], items'.all)
  <2>1. CASE w_failed = "no"
    <3>1. w_trees' = IF tree \in DOMAIN w_trees THEN [w_trees EXCEPT ![tree] = add_leaf(@, x)] ELSE w_trees
      BY <2>1, OneItem, SameMatch DEF WitnessItem, TreeOf, x, tree
    <3>2. CASE tree \in DOMAIN w_trees
      <4>1. DOMAIN w_trees' = DOMAIN w_trees
            /\ \A t \in DOMAIN w_trees : w_trees'[t] = IF t = tree THEN add_leaf(w_trees[t], x) ELSE w_trees[t]
        BY <3>1, <3>2
      <4> QED BY <1>0, <1>5, <4>1
    <3>3. CASE tree \notin DOMAIN w_trees
      BY <1>0, <1>5, <3>1, <3>3
    <3> QED BY <3>2, <3>3
  <2>2. CASE w_failed # "no"
    <3>1. w_trees' = w_trees
      BY <2>2, OneItem DEF witness
    <3> QED BY <1>0, <1>5, <3>1
  <2> QED BY <2>1, <2>2
<1>8. failed' = "no" => w_failed' = "no"
  <2>1. CASE failed = "no"
    <3>1. ScanItem(item, BytesOf(item)) /\ WitnessItem(item, BytesOf(item))
      BY <2>1, OneItem DEF Kept
    <3> QED BY <3>1, SameMatch DEF ScanItem, WitnessItem
  <2>2. CASE failed # "no"
    <3>1. failed' = failed
      BY <2>2, OneItem DEF scan
    <3> QED BY <2>2, <3>1
  <2> QED BY <2>1, <2>2
<1> QED BY <1>2, <1>3, <1>6, <1>7, <1>8 DEF Kept

(* A transaction goes to the witness's leaves and to the scan's hasher     *)
(* alike (material.rs:296-298 and 430-434).                                *)
LEMMA KeptInputStep ==
  ASSUME Kept, KeptInput, NEW item \in Item, NextItem(item)
  PROVE  KeptInput'
<1>1. PICK n \in Nat : /\ input_leaves = SignedLeaves(n) /\ input_item_bytes = SignedBytes(n)
                       /\ w_failed = "no" => n = fed["input"]
  BY DEF KeptInput
<1>2. CASE w_failed # "no"
  <2>1. input_leaves' = input_leaves /\ input_item_bytes' = input_item_bytes /\ w_failed' = w_failed
    BY <1>2, OneItem DEF witness
  <2> QED BY <1>1, <1>2, <2>1 DEF KeptInput
<1>3. CASE w_failed = "no" /\ item.kind = "signed"
  <2> DEFINE x == hash_leaf(Bytes(n + 1, "signed"))
  <2>1. n = fed["input"] /\ TreeOf(item) = "input" /\ "input" # None /\ "input" \in Trees
    BY <1>1, <1>3, ItemsAre, MaterialConstants DEF Trees
  <2>2. fed'["input"] = n + 1 /\ BytesOf(item) = Bytes(n + 1, "signed")
    BY <1>3, <2>1, OneItem DEF BytesOf, Kept
  <2>3. /\ input_leaves' = Append(input_leaves, x)
        /\ input_item_bytes' = Append(input_item_bytes, Bytes(n + 1, "signed"))
    BY <1>3, <2>1, <2>2, OneItem, SameMatch DEF WitnessItem, TreeOf
  <2>4. input_leaves' = SignedLeaves(n + 1) /\ input_item_bytes' = SignedBytes(n + 1)
    BY <1>1, <2>3, SignedAre
  <2>5. ASSUME failed' = "no" PROVE trees'["input"] = HasherOf(input_leaves')
    <3>1. failed = "no"
      BY <2>5, OneItem DEF scan
    <3>2. trees["input"] = HasherOf(input_leaves) /\ DOMAIN trees = Trees
      BY <1>3, <3>1 DEF KeptInput, Kept
    <3>3. trees'["input"] = add_leaf(trees["input"], x)
      BY <1>3, <2>1, <2>2, <3>1, <3>2, OneItem DEF ScanItem, TreeOf
    <3>4. /\ input_leaves \in Seq(Hashes) /\ x \in Hashes /\ Len(input_leaves) + 1 < Size[UsizeBits]
      <4>1. n + 1 < Size[UsizeBits]
        <5>1. n <= items.all /\ items.all \in 0 .. MaxItems /\ items.all < MaxItems
          BY <2>1, OneItem DEF Kept
        <5>2. MaxItems \in Nat /\ MaxItems < Size[UsizeBits] /\ Size[UsizeBits] \in Nat
          BY MaterialConstants, UsizeBitsIsNat, SizeGrows
        <5> QED BY <5>1, <5>2
      <4> QED BY <1>1, <4>1, SignedAre
    <3> HIDE DEF x
    <3>5. add_leaf(HasherOf(input_leaves), x) = HasherOf(Append(input_leaves, x))
      BY <3>4, HashesAre, AddLeaf
    <3> QED BY <2>3, <3>2, <3>3, <3>5
  <2>6. n + 1 \in Nat
    OBVIOUS
  <2> HIDE DEF x
  <2> QED BY <2>2, <2>4, <2>5, <2>6 DEF KeptInput
<1>4. CASE w_failed = "no" /\ item.kind # "signed"
  <2>1. n = fed["input"] /\ TreeOf(item) # "input" /\ TreeOf(item) \in Trees \cup {None} /\ "input" \in Trees
    BY <1>1, <1>4, ItemsAre DEF Trees
  <2>2. fed'["input"] = fed["input"]
    BY <2>1, OneItem DEF Kept
  <2>3. input_leaves' = input_leaves /\ input_item_bytes' = input_item_bytes
    BY <1>4, <2>1, OneItem, SameMatch DEF WitnessItem, TreeOf
  <2>4. ASSUME failed' = "no" PROVE trees'["input"] = HasherOf(input_leaves')
    <3>1. failed = "no"
      BY <2>4, OneItem DEF scan
    <3>2. trees["input"] = HasherOf(input_leaves) /\ DOMAIN trees = Trees
      BY <1>4, <3>1 DEF KeptInput, Kept
    <3>3. trees'["input"] = trees["input"]
      BY <2>1, <3>1, <3>2, OneItem DEF ScanItem, TreeOf
    <3> QED BY <2>3, <3>2, <3>3
  <2> QED BY <1>1, <2>1, <2>2, <2>3, <2>4 DEF KeptInput
<1> QED BY <1>2, <1>3, <1>4

(* A later transaction takes a place behind those of the publications.     *)
LEMMA AnchoredStep ==
  ASSUME Kept, Anchored, NEW item \in Item, NextItem(item)
  PROVE  Anchored'
<1> DEFINE n == fed["input"]
<1>1. n \in Nat /\ n < MaxItems /\ MaxItems \in Nat
  <2>1. n \in Nat /\ n <= items.all /\ items.all \in 0 .. MaxItems /\ items.all < MaxItems
    BY OneItem DEF Kept, Trees
  <2> QED BY <2>1, MaterialConstants
<1>2. fed'["input"] = IF item.kind = "signed" THEN n + 1 ELSE n
  <2>1. "input" \in Trees /\ "input" # None /\ fed \in [Trees -> Nat]
    BY MaterialConstants DEF Trees, Kept
  <2>2. CASE item.kind = "signed"
    BY <2>1, <2>2, OneItem, ItemsAre
  <2>3. CASE item.kind # "signed"
    <3>1. TreeOf(item) # "input"
      BY <2>3, ItemsAre
    <3> QED BY <2>1, <2>3, <3>1, OneItem
  <2> QED BY <2>2, <2>3
<1>3. item \in Publication => item.kind = "signed" /\ item.decodes /\ item.view = "publication"
  BY DEF Publication
<1>4. published' = IF item \in Publication /\ failed = "no" THEN published \cup {n + 1} ELSE published
  BY OneItem
<1>5. published \subseteq 1 .. n
  BY DEF Anchored
<1>6. published' \subseteq 1 .. fed'["input"]
  <2>1. published \subseteq 1 .. n + 1 /\ n + 1 \in 1 .. n + 1
    BY <1>1, <1>5
  <2>2. CASE item.kind = "signed"
    <3>1. fed'["input"] = n + 1
      BY <1>2, <2>2
    <3> HIDE DEF n
    <3> QED BY <1>4, <2>1, <3>1
  <2>3. CASE item.kind # "signed"
    <3>1. fed'["input"] = n /\ published' = published
      BY <1>2, <1>3, <1>4, <2>3
    <3> HIDE DEF n
    <3> QED BY <1>5, <3>1
  <2> QED BY <2>2, <2>3
<1>7. ASSUME failed' = "no"
      PROVE  \/ published' = {} /\ bootstrap' = None
             \/ \E place \in published' : /\ bootstrap' = Bytes(place, "signed")
                                          /\ \A other \in published' : place <= other
  <2>1. failed = "no" /\ ScanItem(item, BytesOf(item))
    <3>1. failed = "no"
      BY <1>7, OneItem DEF scan
    <3> QED BY <3>1, OneItem
  <2>2. CASE item.kind # "signed"
    <3>1. bootstrap' = bootstrap /\ published' = published
      BY <1>3, <1>4, <2>1, <2>2 DEF ScanItem
    <3> QED BY <2>1, <3>1 DEF Anchored
  <2>3. CASE item.kind = "signed"
    <3>1. item.decodes
      BY <1>7, <2>1, <2>3 DEF ScanItem, ScanRejects
    <3>2. BytesOf(item) = Bytes(n + 1, "signed")
      BY <2>3, ItemsAre, MaterialConstants DEF BytesOf, Trees
    <3>3. bootstrap' = NextBootstrap(item.view, Bytes(n + 1, "signed"))
      BY <2>1, <2>3, <3>1, <3>2 DEF ScanItem
    <3>4. CASE published # {}
      <4>1. PICK place \in published : /\ bootstrap = Bytes(place, "signed")
                                       /\ \A other \in published : place <= other
        BY <2>1, <3>4 DEF Anchored
      <4>2. place \in 1 .. MaxItems /\ place <= n + 1
        BY <1>1, <1>5, <4>1
      <4>3. bootstrap' = bootstrap
        BY <3>3, <4>1, <4>2, MaterialConstants DEF NextBootstrap
      <4>4. place \in published' /\ \A other \in published' : place <= other
        BY <1>4, <4>1, <4>2
      <4> QED BY <4>1, <4>3, <4>4
    <3>5. CASE published = {}
      <4>1. bootstrap = None
        BY <2>1, <3>5 DEF Anchored
      <4>2. CASE item \in Publication
        <5>1. published' = {n + 1} /\ bootstrap' = Bytes(n + 1, "signed")
          BY <1>3, <1>4, <2>1, <3>3, <3>5, <4>1, <4>2 DEF NextBootstrap
        <5> QED BY <1>1, <5>1
      <4>3. CASE item \notin Publication
        <5>1. item.view # "publication"
          BY <2>3, <3>1, <4>3, SignedViews
        <5> QED BY <1>4, <3>3, <3>5, <4>1, <4>3, <5>1 DEF NextBootstrap
      <4> QED BY <4>2, <4>3
    <3> QED BY <3>4, <3>5
  <2> QED BY <2>2, <2>3
<1> QED BY <1>6, <1>7 DEF Anchored
----------------------------------------------------------------------------
MaterialInv == Kept /\ KeptInput /\ Anchored /\ Values

(* The invariant holds at every item of every block.                       *)
LEMMA MaterialInvForever == Spec => []MaterialInv
<1>1. Init => MaterialInv
  <2> SUFFICES ASSUME Init PROVE MaterialInv
    OBVIOUS
  <2>1. Streamed(Hasher, 0)
    <3>1. Hasher = HasherOf(<< >>) /\ << >> \in Seq(Hashes) /\ Len(<< >>) <= 0
      BY HashesAre, HasherOfNone
    <3> QED BY <3>1 DEF Streamed
  <2>2. SignedLeaves(0) = << >> /\ SignedBytes(0) = << >>
    BY DEF SignedLeaves, SignedBytes
  <2>3. Kept
    BY <2>1, MaterialConstants DEF Init, Kept
  <2>4. KeptInput
    <3>1. trees["input"] = HasherOf(input_leaves)
      BY HashesAre, HasherOfNone DEF Init, Trees
    <3>2. 0 \in Nat /\ fed["input"] = 0
      BY DEF Init, Trees
    <3> QED BY <2>2, <3>1, <3>2 DEF Init, KeptInput
  <2>5. Values /\ Anchored
    BY DEF Init, Values, Anchored
  <2> QED BY <2>3, <2>4, <2>5 DEF MaterialInv
<1>2. MaterialInv /\ [Next]_vars => MaterialInv'
  <2> SUFFICES ASSUME MaterialInv, [Next]_vars PROVE MaterialInv'
    OBVIOUS
  <2>1. CASE Next
    <3>1. PICK item \in Item : NextItem(item)
      BY <2>1 DEF Next
    <3> QED BY <3>1, KeptStep, KeptInputStep, AnchoredStep, ValuesStep DEF MaterialInv
  <2>2. CASE UNCHANGED vars
    BY <2>2 DEF vars, MaterialInv, Kept, KeptInput, Anchored, Values
  <2> QED BY <2>1, <2>2
<1> QED BY <1>1, <1>2, PTL DEF Spec

(* In every state of both passes the locals have their types, and each     *)
(* hasher's stack one root per set bit of its count of leaves              *)
(* (merkle.rs:36-37).                                                      *)
THEOREM MaterialTypes == Spec => []TypeOK
<1>1. MaterialInv => TypeOK
  <2> SUFFICES ASSUME MaterialInv PROVE TypeOK
    OBVIOUS
  <2>1. items.all \in 0 .. MaxItems /\ MaxItems \in Nat /\ MaxItems < Size[UsizeBits] /\ Size[UsizeBits] \in Nat
    BY MaterialConstants, UsizeBitsIsNat, SizeGrows DEF MaterialInv, Kept
  <2>2. ASSUME NEW h, Streamed(h, items.all) PROVE HasherOK(h)
    <3>1. PICK leaves \in Seq(Hashes) : Len(leaves) <= items.all /\ h = HasherOf(leaves)
      BY <2>2 DEF Streamed
    <3>2. Len(leaves) \in 0 .. MaxItems /\ Len(leaves) < Size[UsizeBits]
      BY <2>1, <3>1
    <3>3. Len(Roots(leaves, 0)) = Cardinality({k \in 0 .. Len(leaves) : Bit(Len(leaves), k)})
      BY <3>2, HashesAre, StackSize
    <3> QED BY <3>1, <3>2, <3>3 DEF HasherOK, HasherOf
  <2>3. fed \in [Trees -> 0 .. MaxItems]
    <3>1. \A t \in Trees : fed[t] \in 0 .. MaxItems
      BY <2>1 DEF MaterialInv, Kept
    <3> QED BY <3>1 DEF MaterialInv, Kept
  <2>4. Len(input_leaves) = Len(input_item_bytes)
    BY SignedAre DEF MaterialInv, KeptInput
  <2>5. published \subseteq 1 .. MaxItems
    <3>1. published \subseteq 1 .. fed["input"] /\ fed["input"] \in 0 .. MaxItems
      BY <2>3 DEF MaterialInv, Anchored, Trees
    <3> QED BY <2>1, <3>1
  <2> QED BY <2>2, <2>3, <2>4, <2>5 DEF MaterialInv, Kept, Values, TypeOK
<1> QED BY <1>1, MaterialInvForever, PTL

(* What the witness has kept, and the root over it.                        *)
LEMMA InputRoot ==
  ASSUME MaterialInv, w_failed = "no"
  PROVE  /\ input_leaves \in Seq(Hashes) /\ Len(input_leaves) < Size[UsizeBits]
         /\ Len(input_leaves) \in Nat /\ Len(input_item_bytes) = Len(input_leaves)
         /\ \A i \in 1 .. Len(input_leaves) :
              input_leaves[i] = hash_leaf(Bytes(i, "signed")) /\ input_item_bytes[i] = Bytes(i, "signed")
         /\ failed = "no" => root(trees["input"]) = merkle_root(input_leaves)
<1>1. PICK n \in Nat : /\ input_leaves = SignedLeaves(n) /\ input_item_bytes = SignedBytes(n)
                       /\ n = fed["input"]
  BY DEF MaterialInv, KeptInput
<1>2. n < Size[UsizeBits]
  <2>1. n <= items.all /\ items.all \in 0 .. MaxItems
    BY <1>1 DEF MaterialInv, Kept, Trees
  <2>2. MaxItems \in Nat /\ MaxItems < Size[UsizeBits] /\ Size[UsizeBits] \in Nat
    BY MaterialConstants, UsizeBitsIsNat, SizeGrows
  <2> QED BY <2>1, <2>2
<1>3. /\ input_leaves \in Seq(Hashes) /\ Len(input_leaves) = n /\ Len(input_item_bytes) = n
  BY <1>1, SignedAre
<1>4. \A i \in 1 .. n : input_leaves[i] = hash_leaf(Bytes(i, "signed")) /\ input_item_bytes[i] = Bytes(i, "signed")
  BY <1>1 DEF SignedLeaves, SignedBytes
<1>5. failed = "no" => root(trees["input"]) = merkle_root(input_leaves)
  BY <1>2, <1>3, HashesAre, RootIs DEF MaterialInv, KeptInput
<1> QED BY <1>2, <1>3, <1>4, <1>5

(* For blocks of any number of transactions the root of the streaming      *)
(* hasher is merkle_root of the leaves the witness keeps                   *)
(* (merkle.rs:151-152).                                                    *)
THEOREM StreamIsBatchForever == Spec => []StreamIsBatch
<1>1. MaterialInv => StreamIsBatch
  BY InputRoot DEF StreamIsBatch
<1> QED BY <1>1, MaterialInvForever, PTL

(* The transaction a witness was made for folds to the block's root.       *)
LEMMA OwnWitness ==
  ASSUME InStep, MaterialInv, ~ ScanFails, NEW i \in Indices, ~ WitnessFails(i)
  PROVE  /\ recompute_block_root(input_item_bytes[i + 1], block_inclusion_witness(i)) = block_root
         /\ IsWitness(block_inclusion_witness(i).input_witness, Hashes)
         /\ input_item_bytes[i + 1] = Bytes(i + 1, "signed")
<1>1. failed = "no" /\ w_failed = "no"
  BY DEF ScanFails, WitnessFails
<1>2. /\ header = w_header /\ footer = w_footer
      /\ w_trees = [t \in Trees \ {"input"} |-> trees[t]]
  BY <1>1 DEF InStep
<1>3. /\ input_leaves \in Seq(Hashes) /\ Len(input_leaves) < Size[UsizeBits]
      /\ Len(input_leaves) \in Nat /\ Len(input_item_bytes) = Len(input_leaves)
      /\ \A k \in 1 .. Len(input_leaves) :
           input_leaves[k] = hash_leaf(Bytes(k, "signed")) /\ input_item_bytes[k] = Bytes(k, "signed")
      /\ root(trees["input"]) = merkle_root(input_leaves)
  BY <1>1, InputRoot
<1>4. i \in 0 .. Len(input_leaves) - 1 /\ i + 1 \in 1 .. Len(input_leaves)
  BY <1>3 DEF Indices
<1> DEFINE wit == witness_for(input_leaves, i)
           w == block_inclusion_witness(i)
<1>5. IsWitness(wit, Hashes) /\ fold_witness(input_leaves[i + 1], wit) = merkle_root(input_leaves)
  BY <1>3, <1>4, HashesAre, WitnessOfLeaf
<1>6. /\ w.input_witness = wit /\ w.roots = [t \in DOMAIN w_trees |-> root(w_trees[t])]
      /\ w.state_root = state_root(w_footer) /\ w.timestamp = w_header
      /\ w.chain = [prev |-> Raw(w_footer.prev), all |-> Raw(w_footer.all)]
  BY DEF block_inclusion_witness
<1> HIDE DEF wit, w
<1>7. fold_witness(hash_leaf(input_item_bytes[i + 1]), w.input_witness) = root(trees["input"])
  BY <1>3, <1>4, <1>5, <1>6
<1>8. [t \in Trees |-> IF t = "input" THEN root(trees["input"]) ELSE w.roots[t]] = [t \in Trees |-> root(trees[t])]
  <2>1. ASSUME NEW t \in Trees, t # "input" PROVE w.roots[t] = root(trees[t])
    BY <1>2, <1>6, <2>1
  <2> QED BY <2>1
<1>9. recompute_block_root(input_item_bytes[i + 1], w) = block_root
  BY <1>2, <1>6, <1>7, <1>8 DEF recompute_block_root, block_root
<1> QED BY <1>3, <1>4, <1>5, <1>6, <1>9 DEF w

(* For blocks of any length and content: a block with a root and 48-byte   *)
(* footer hashes gives a witness for each of its transactions, and a       *)
(* witness recomputes exactly the root (block_inclusion_witness and        *)
(* recompute_block_root, material.rs:401-529).                             *)
THEOREM WitnessReachesRootForever == Spec => []WitnessReachesRoot
<1>1. InStep /\ MaterialInv => WitnessReachesRoot
  <2> SUFFICES ASSUME InStep, MaterialInv, ~ ScanFails, NEW i \in Indices
               PROVE  /\ (footer.prev = "full" /\ footer.all = "full" /\ footer.state # "odd") => ~ WitnessFails(i)
                      /\ ~ WitnessFails(i) =>
                           recompute_block_root(input_item_bytes[i + 1], block_inclusion_witness(i)) = block_root
    BY DEF WitnessReachesRoot
  <2>1. ASSUME footer.prev = "full", footer.all = "full", footer.state # "odd"
        PROVE  ~ WitnessFails(i)
    <3>1. failed = "no" /\ w_failed = "no" /\ None \notin {header, footer}
      BY DEF ScanFails, MaterialInv, Kept
    <3>2. header = w_header /\ footer = w_footer
      BY <3>1 DEF InStep
    <3>3. ~ (i >= Len(input_item_bytes))
      BY <3>1, InputRoot DEF Indices
    <3> QED BY <2>1, <3>1, <3>2, <3>3 DEF WitnessFails
  <2> QED BY <2>1, OwnWitness
<1> QED BY <1>1, InStepForever, MaterialInvForever, PTL

(* And no other transaction of the block, nor the empty bytes, recomputes  *)
(* that root with it (verify_inclusion's comparison, proof/mod.rs:103).    *)
THEOREM WitnessIsForOneItemForever == Spec => []WitnessIsForOneItem
<1>1. InStep /\ MaterialInv => WitnessIsForOneItem
  <2> SUFFICES ASSUME InStep, MaterialInv, NEW i \in Indices, ~ ScanFails, ~ WitnessFails(i),
                      NEW bytes \in {input_item_bytes[j + 1] : j \in Indices \ {i}} \cup {NoBytes}
               PROVE  recompute_block_root(bytes, block_inclusion_witness(i)) # block_root
    BY DEF WitnessIsForOneItem
  <2> DEFINE w == block_inclusion_witness(i)
             own == input_item_bytes[i + 1]
  <2>1. /\ recompute_block_root(own, w) = block_root /\ IsWitness(w.input_witness, Hashes)
        /\ own = Bytes(i + 1, "signed")
    BY OwnWitness
  <2> HIDE DEF w, own
  <2>2. bytes # own /\ hash_leaf(bytes) \in Hashes /\ hash_leaf(own) \in Hashes
    <3>1. \A n \in Nat : \A k \in {"signed", "none"} : hash_leaf(<<n, k>>) \in Hashes
      <4> SUFFICES ASSUME NEW n \in Nat, NEW k \in {"signed", "none"}
                   PROVE  hash_leaf(<<n, k>>) \in Hashes
        OBVIOUS
      <4>1. hash_leaf(<<n, k>>) \in ItemHashes
        BY DEF ItemHashes
      <4> QED BY <4>1, HashesAre
    <3>2. w_failed = "no"
      BY DEF WitnessFails
    <3>3. /\ Len(input_item_bytes) \in Nat
          /\ \A k \in 1 .. Len(input_item_bytes) : input_item_bytes[k] = Bytes(k, "signed")
      BY <3>2, InputRoot
    <3>4. i \in Nat /\ i + 1 \in Nat
      BY <3>3 DEF Indices
    <3>5. hash_leaf(own) \in Hashes
      BY <2>1, <3>1, <3>4 DEF Bytes
    <3>6. CASE bytes = NoBytes
      <4>1. own # NoBytes
        BY <2>1 DEF Bytes, NoBytes
      <4>2. hash_leaf(NoBytes) \in Hashes
        BY <3>1 DEF NoBytes
      <4> QED BY <3>5, <3>6, <4>1, <4>2
    <3>7. CASE bytes # NoBytes
      <4>1. PICK j \in Indices \ {i} : bytes = input_item_bytes[j + 1]
        BY <3>7
      <4>2. j \in Nat /\ j # i /\ j + 1 \in 1 .. Len(input_item_bytes)
        BY <3>3, <4>1 DEF Indices
      <4>3. bytes = Bytes(j + 1, "signed")
        BY <3>3, <4>1, <4>2
      <4>4. bytes # own
        BY <2>1, <3>4, <4>2, <4>3 DEF Bytes
      <4>5. hash_leaf(bytes) \in Hashes
        <5>1. j + 1 \in Nat /\ "signed" \in {"signed", "none"}
          BY <4>2
        <5>2. hash_leaf(<<j + 1, "signed">>) \in Hashes
          BY <3>1, <5>1
        <5> QED BY <4>3, <5>2 DEF Bytes
      <4> QED BY <3>5, <4>4, <4>5
    <3> QED BY <3>6, <3>7
  <2>3. hash_leaf(bytes) # hash_leaf(own)
    BY <2>2 DEF hash_leaf
  <2> DEFINE x == fold_witness(hash_leaf(bytes), w.input_witness)
             y == fold_witness(hash_leaf(own), w.input_witness)
  <2>4. x # y
    BY <2>1, <2>2, <2>3, HashesAre, WitnessInjective
  <2> DEFINE Roots5(input_root) == [t \in Trees |-> IF t = "input" THEN input_root ELSE w.roots[t]]
             Block(input_root) == hash_internal(hash_leaf(w.timestamp), fixed_root(w.chain, w.state_root, Roots5(input_root)))
  <2>5. recompute_block_root(bytes, w) = Block(x) /\ recompute_block_root(own, w) = Block(y)
    BY DEF recompute_block_root
  <2> HIDE DEF x, y
  <2>6. Block(x) # Block(y)
    <3>1. Roots5(x)["input"] = x /\ Roots5(y)["input"] = y
      BY DEF Trees
    <3> HIDE DEF Roots5
    <3>2. fixed_root(w.chain, w.state_root, Roots5(x)) # fixed_root(w.chain, w.state_root, Roots5(y))
      BY <2>4, <3>1, HashInjective DEF fixed_root, hash_internal_single_child
    <3> QED BY <3>2, HashInjective
  <2> HIDE DEF Block
  <2> QED BY <2>1, <2>5, <2>6 DEF w
<1> QED BY <1>1, InStepForever, MaterialInvForever, PTL

(* For blocks of any length and content: the bootstrap of a block is the   *)
(* first publication it holds, the other pass keeps those very bytes at    *)
(* that place, and the witness of that place recomputes the block's root   *)
(* from them (scan_block, material.rs:337-339, against                     *)
(* block_inclusion_witness, 430-434).                                      *)
THEOREM BootstrapForever == Spec => []BootstrapIsFirstPublication
<1>1. InStep /\ MaterialInv => BootstrapIsFirstPublication
  <2> SUFFICES ASSUME InStep, MaterialInv, ~ ScanFails, published # {}
               PROVE  \E i \in Indices :
                        /\ bootstrap = input_item_bytes[i + 1]
                        /\ i + 1 \in published /\ \A place \in published : i + 1 <= place
                        /\ ~ WitnessFails(i) =>
                             recompute_block_root(bootstrap, block_inclusion_witness(i)) = block_root
    BY DEF BootstrapIsFirstPublication, MaterialInv, Anchored, ScanFails
  <2>1. failed = "no" /\ w_failed = "no"
    BY DEF ScanFails, MaterialInv, Kept
  <2>2. PICK place \in published : /\ bootstrap = Bytes(place, "signed")
                                   /\ \A other \in published : place <= other
    BY <2>1 DEF MaterialInv, Anchored
  <2>3. PICK n \in Nat : input_item_bytes = SignedBytes(n) /\ n = fed["input"]
    BY <2>1 DEF MaterialInv, KeptInput
  <2>4. place \in 1 .. n
    BY <2>3 DEF MaterialInv, Anchored
  <2>5. Len(input_item_bytes) = n /\ input_item_bytes[place] = Bytes(place, "signed")
    BY <2>3, <2>4, SignedAre DEF SignedBytes
  <2> DEFINE i == place - 1
  <2>6. i \in Indices /\ i + 1 = place
    BY <2>3, <2>4, <2>5 DEF Indices
  <2>7. ~ WitnessFails(i) =>
          recompute_block_root(input_item_bytes[i + 1], block_inclusion_witness(i)) = block_root
    BY <2>6, OwnWitness
  <2> HIDE DEF i
  <2>8. bootstrap = input_item_bytes[i + 1]
    BY <2>2, <2>5, <2>6
  <2>9. i + 1 \in published /\ \A other \in published : i + 1 <= other
    BY <2>2, <2>6
  <2>10. ~ WitnessFails(i) => recompute_block_root(bootstrap, block_inclusion_witness(i)) = block_root
    BY <2>7, <2>8
  <2> QED BY <2>6, <2>8, <2>9, <2>10
<1> QED BY <1>1, InStepForever, MaterialInvForever, PTL
=============================================================================
