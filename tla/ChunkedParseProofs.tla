-------------------------- MODULE ChunkedParseProofs -------------------------
(***************************************************************************)
(* The threaded parse, for every number of files and of threads and every  *)
(* interleaving of them: when the workers are joined, all the files parsed *)
(* or the error reported is that of the first file that fails.             *)
(***************************************************************************)
EXTENDS ChunkedParse, NaturalsInduction, WellFoundedInduction, TLAPS

(* A set of natural numbers that is not empty has a least member.          *)
LEMMA LeastExists ==
  ASSUME NEW S \in SUBSET Nat, S # {}
  PROVE  \E n \in S : \A m \in S : n <= m
<1> DEFINE R == OpToRel(<, Nat)
<1>1. IsWellFoundedOn(R, Nat)
  BY NatLessThanWellFounded
<1>2. PICK n \in S : \A m \in S : <<m, n>> \notin R
  <2> HIDE DEF R
  <2> QED
    BY <1>1, WFMin
<1>3. ASSUME NEW m \in S
      PROVE  n <= m
  <2>1. <<m, n>> \in Nat \X Nat
    OBVIOUS
  <2>2. ~ (m < n)
    BY <1>2, <2>1 DEF OpToRel
  <2>3. QED
    BY <2>2
<1>4. QED
  BY <1>3

(* So has a bounded one a greatest.                                        *)
LEMMA GreatestExists ==
  ASSUME NEW b \in Nat, NEW S \in SUBSET (0 .. b), S # {}
  PROVE  \E n \in S : \A m \in S : m <= n
<1> DEFINE T == {b - n : n \in S}
<1>1. T \in SUBSET Nat /\ T # {}
  <2>1. PICK n \in S : TRUE
    OBVIOUS
  <2>2. b - n \in T
    OBVIOUS
  <2>3. \A m \in S : b - m \in Nat
    OBVIOUS
  <2>4. QED
    BY <2>2, <2>3
<1>2. PICK t \in T : \A u \in T : t <= u
  <2> HIDE DEF T
  <2> QED
    BY <1>1, LeastExists
<1>3. PICK n \in S : t = b - n
  BY <1>2
<1>4. \A m \in S : m <= n
  <2> TAKE m \in S
  <2>1. b - m \in T
    OBVIOUS
  <2>2. b - n <= b - m
    BY <1>2, <1>3, <2>1
  <2>3. QED
    BY <2>2
<1>5. QED
  BY <1>4
----------------------------------------------------------------------------
(* The chunks                                                              *)

(* A chunk is never empty.                                                 *)
LEMMA ChunkSizePositive ==
  ASSUME count \in Nat, threads \in Nat \ {0}
  PROVE  ChunkSize \in Nat \ {0}
BY DEF ChunkSize, CeilDiv

(* Every file belongs to the chunk of some worker, and the files of a      *)
(* worker come before those of the next ones.                              *)
LEMMA ChunksAreOrdered ==
  ASSUME NEW c \in Nat \ {0}, NEW v \in Nat, NEW w \in Nat, v < w
  PROVE  v * c <= (w - 1) * c
<1>1. w - 1 - v \in Nat
  OBVIOUS
<1>2. (w - 1 - v) * c \in Nat
  BY <1>1
<1>3. QED
  BY <1>2

LEMMA ChunkOf ==
  ASSUME NEW c \in Nat \ {0}, NEW n \in Nat, NEW i \in 1 .. n
  PROVE  LET w == (i - 1) \div c + 1
         IN  /\ w \in 1 .. (n + c - 1) \div c
             /\ (w - 1) * c + 1 <= i
             /\ i <= w * c
<1> DEFINE q == (i - 1) \div c
<1>1. q \in Nat /\ q * c <= i - 1 /\ i - 1 < q * c + c
  OBVIOUS
<1>2. (q + 1) * c = q * c + c
  BY <1>1
<1>3. q + 1 <= (n + c - 1) \div c
  <2>1. (q + 1) * c <= n + c - 1
    BY <1>1, <1>2
  <2> DEFINE m == (n + c - 1) \div c
  <2>2. m \in Nat /\ n + c - 1 < m * c + c
    OBVIOUS
  <2>3. q + 1 < m + 1
    <3>1. (q + 1) * c < (m + 1) * c
      BY <2>1, <2>2, <1>1
    <3>2. CASE q + 1 >= m + 1
      <4>1. (q + 1 - (m + 1)) \in Nat
        BY <3>2, <1>1, <2>2
      <4>2. (q + 1 - (m + 1)) * c \in Nat
        BY <4>1
      <4>3. QED
        BY <4>2, <3>1, <1>1, <2>2
    <3>3. QED
      BY <3>2, <1>1, <2>2
  <2>4. QED
    BY <2>2, <2>3, <1>1
<1>4. QED
  BY <1>1, <1>2, <1>3

LEMMA ChunkStarts ==
  ASSUME NEW c \in Nat \ {0}, NEW n \in Nat, NEW w \in 1 .. (n + c - 1) \div c
  PROVE  (w - 1) * c \in 0 .. n - 1
<1> DEFINE m == (n + c - 1) \div c
<1>1. m \in Nat /\ m * c <= n + c - 1
  OBVIOUS
<1>2. (m - w) \in Nat /\ (m - w) * c \in Nat
  BY <1>1
<1>3. w * c <= n + c - 1
  BY <1>1, <1>2
<1>4. (w - 1) * c = w * c - c /\ (w - 1) * c \in Nat
  OBVIOUS
<1>5. QED
  BY <1>3, <1>4

(* Each worker has passed over files that parse only, within its chunk; a  *)
(* worker that failed stands on the file that failed it.                   *)
ParseInv ==
  /\ count \in Nat /\ threads \in Nat \ {0}
  /\ bad \subseteq 1 .. count
  /\ DOMAIN at = Workers /\ failed \subseteq Workers
  /\ \A w \in Workers :
       /\ at[w] \in ChunkFirst(w) .. ChunkLast(w) + 1
       /\ \A i \in ChunkFirst(w) .. at[w] - 1 : i \notin bad
  /\ \A w \in failed : at[w] \in bad /\ at[w] <= ChunkLast(w)

LEMMA ChunkBounds ==
  ASSUME count \in Nat, threads \in Nat \ {0}, NEW w \in Workers
  PROVE  /\ ChunkFirst(w) \in 1 .. count
         /\ ChunkLast(w) \in ChunkFirst(w) .. count
         /\ ChunkLast(w) <= w * ChunkSize
<1>1. ChunkSize \in Nat \ {0}
  BY ChunkSizePositive
<1>2. (w - 1) * ChunkSize \in 0 .. count - 1
  BY <1>1, ChunkStarts DEF Workers, CeilDiv
<1>3. w \in Nat \ {0} /\ w * ChunkSize = (w - 1) * ChunkSize + ChunkSize
  <2>1. w \in Nat \ {0}
    BY <1>1 DEF Workers, CeilDiv
  <2> HIDE DEF ChunkSize
  <2>2. QED
    BY <1>1, <2>1
<1>4. QED
  BY <1>1, <1>2, <1>3 DEF ChunkFirst, ChunkLast

(* The chunk a file is in.                                                 *)
LEMMA WorkerOf ==
  ASSUME count \in Nat, threads \in Nat \ {0}, NEW i \in 1 .. count
  PROVE  \E w \in Workers : i \in ChunkFirst(w) .. ChunkLast(w)
<1>1. ChunkSize \in Nat \ {0}
  BY ChunkSizePositive
<1> DEFINE w == (i - 1) \div ChunkSize + 1
<1>2. /\ w \in 1 .. (count + ChunkSize - 1) \div ChunkSize
      /\ (w - 1) * ChunkSize + 1 <= i
      /\ i <= w * ChunkSize
  BY <1>1, ChunkOf
<1>3. w \in Workers
  BY <1>2 DEF Workers, CeilDiv
<1> HIDE DEF w
<1>4. i \in ChunkFirst(w) .. ChunkLast(w)
  <2>1. ChunkFirst(w) <= i /\ i <= ChunkLast(w)
    BY <1>1, <1>2, <1>3 DEF ChunkFirst, ChunkLast
  <2>2. ChunkFirst(w) \in Int /\ ChunkLast(w) \in Int
    BY <1>3, ChunkBounds
  <2>3. QED
    BY <2>1, <2>2
<1>5. QED
  BY <1>3, <1>4

(* When all workers are back and none failed, every file parsed.           *)
LEMMA JoinedMeansAllParsed ==
  ASSUME ParseInv, Joined, failed = {}
  PROVE  bad = {}
<1> SUFFICES ASSUME NEW i \in bad PROVE FALSE
  OBVIOUS
<1>1. PICK w \in Workers : i \in ChunkFirst(w) .. ChunkLast(w)
  BY WorkerOf DEF ParseInv
<1>2. at[w] > ChunkLast(w)
  BY ChunkBounds DEF Joined, Busy, ParseInv
<1>3. i \in ChunkFirst(w) .. at[w] - 1
  BY <1>1, <1>2, ChunkBounds DEF ParseInv
<1>4. QED
  BY <1>3 DEF ParseInv

(* The error reported is that of the first file, in the order of the list, *)
(* that fails.                                                             *)
LEMMA FirstErrorIsFirst ==
  ASSUME ParseInv, Joined, failed # {}
  PROVE  FirstError \in bad /\ \A i \in bad : FirstError <= i
<1>1. failed \in SUBSET Nat
  <2>1. ChunkSize \in Nat \ {0}
    BY ChunkSizePositive DEF ParseInv
  <2>2. QED
    BY <2>1 DEF ParseInv, Workers, CeilDiv
<1>2. \E v \in failed : \A u \in failed : v <= u
  BY <1>1, LeastExists
<1> DEFINE w == CHOOSE v \in failed : \A u \in failed : v <= u
<1>3. w \in failed /\ \A u \in failed : w <= u
  BY <1>2
<1>4. FirstError = at[w]
  BY DEF FirstError
<1> HIDE DEF w
<1>5. at[w] \in bad /\ at[w] \in 1 .. count /\ w \in Workers /\ at[w] <= ChunkLast(w)
  BY <1>3 DEF ParseInv
<1>6. ASSUME NEW i \in bad, i < at[w]
      PROVE  FALSE
  <2>1. i \in 1 .. count
    BY DEF ParseInv
  <2>2. PICK v \in Workers : i \in ChunkFirst(v) .. ChunkLast(v)
    BY <2>1, WorkerOf DEF ParseInv
  <2>3. v \in Nat /\ w \in Nat
    <3>1. ChunkSize \in Nat \ {0}
      BY ChunkSizePositive DEF ParseInv
    <3>2. QED
      BY <3>1, <1>5 DEF Workers, CeilDiv
  <2>4. CASE v \notin failed
    <3>1. at[v] > ChunkLast(v)
      BY <2>4, ChunkBounds DEF Joined, Busy, ParseInv
    <3>2. i \in ChunkFirst(v) .. at[v] - 1
      BY <2>2, <3>1, ChunkBounds DEF ParseInv
    <3>3. QED
      BY <3>2 DEF ParseInv
  <2>5. CASE v = w
    <3>1. i \in ChunkFirst(w) .. at[w] - 1
      BY <2>2, <2>5, <1>5, <1>6, ChunkBounds DEF ParseInv
    <3>2. QED
      BY <3>1, <1>5 DEF ParseInv
  <2>6. CASE v \in failed /\ v # w
    <3>1. w < v
      BY <2>3, <2>6, <1>3
    <3>2. ChunkSize \in Nat \ {0}
      BY ChunkSizePositive DEF ParseInv
    <3>3. w * ChunkSize <= (v - 1) * ChunkSize
      BY <2>3, <3>1, <3>2, ChunksAreOrdered
    <3>4. ChunkLast(w) <= w * ChunkSize
      BY <1>5, ChunkBounds DEF ParseInv
    <3>5. ChunkFirst(v) = (v - 1) * ChunkSize + 1 /\ ChunkFirst(v) <= i
      BY <2>2 DEF ChunkFirst
    <3>6. w * ChunkSize \in Int /\ (v - 1) * ChunkSize \in Int /\ ChunkLast(w) \in Int
      BY <2>3, <3>2, <1>5, ChunkBounds DEF ParseInv
    <3>7. QED
      BY <1>5, <1>6, <2>1, <3>3, <3>4, <3>5, <3>6
  <2>7. QED
    BY <2>4, <2>5, <2>6
<1>7. QED
  BY <1>4, <1>5, <1>6 DEF ParseInv

LEMMA SpawnStarts ==
  ASSUME NEW n \in Nat, NEW B \in SUBSET (1 .. n), Spawn(n, B),
         threads' \in Nat \ {0}
  PROVE  ParseInv'
<1>1. count' \in Nat /\ threads' \in Nat \ {0} /\ bad' \subseteq 1 .. count'
  BY DEF Spawn
<1>2. DOMAIN at' = Workers' /\ failed' = {}
  BY DEF Spawn
<1>3. ASSUME NEW w \in Workers'
      PROVE  /\ at'[w] \in ChunkFirst(w)' .. (ChunkLast(w) + 1)'
             /\ \A i \in ChunkFirst(w)' .. at'[w] - 1 : i \notin bad'
  <2>1. at'[w] = ChunkFirst(w)'
    BY DEF Spawn
  <2>2. (ChunkFirst(w) \in 1 .. count /\ ChunkLast(w) \in ChunkFirst(w) .. count)'
    <3>1. (count \in Nat /\ threads \in Nat \ {0} /\ w \in Workers)'
      BY <1>1, <1>3
    <3>2. QED
      BY <3>1, ChunkBounds, PTL
  <2>3. QED
    BY <1>1, <2>1, <2>2
<1>4. QED
  BY <1>1, <1>2, <1>3 DEF ParseInv

LEMMA ParseKeeps ==
  ASSUME ParseInv, NEW w \in Workers, ParseNext(w), threads' = threads
  PROVE  ParseInv'
<1>1. count' = count /\ bad' = bad /\ Busy(w)
  BY DEF ParseNext
<1>2. ChunkSize' = ChunkSize
  BY <1>1 DEF ChunkSize
<1>3. Workers' = Workers
  BY <1>1, <1>2 DEF Workers
<1>4. \A v : ChunkFirst(v)' = ChunkFirst(v) /\ ChunkLast(v)' = ChunkLast(v)
  BY <1>1, <1>2 DEF ChunkFirst, ChunkLast
<1>5. w \notin failed /\ at[w] <= ChunkLast(w)
  BY <1>1 DEF Busy
<1>6. \A v \in Workers :
        ChunkFirst(v) \in 1 .. count /\ ChunkLast(v) \in ChunkFirst(v) .. count
  BY ChunkBounds DEF ParseInv
<1>7. CASE at[w] \in bad
  <2>1. failed' = failed \cup {w} /\ at' = at
    BY <1>7 DEF ParseNext
  <2>2. QED
    BY <1>1, <1>3, <1>4, <1>5, <1>7, <2>1 DEF ParseInv
<1>8. CASE at[w] \notin bad
  <2>1. failed' = failed /\ at' = [at EXCEPT ![w] = @ + 1]
    BY <1>8 DEF ParseNext
  <2>2. DOMAIN at' = Workers /\ at'[w] = at[w] + 1 /\ \A v \in Workers \ {w} : at'[v] = at[v]
    BY <2>1 DEF ParseInv
  <2>3. at'[w] \in ChunkFirst(w) .. ChunkLast(w) + 1
    BY <1>5, <1>6, <2>2 DEF ParseInv
  <2>4. ASSUME NEW i \in ChunkFirst(w) .. at'[w] - 1
        PROVE  i \notin bad
    <3>1. at[w] \in Int /\ ChunkFirst(w) \in Int
      BY <1>6 DEF ParseInv
    <3>2. i \in ChunkFirst(w) .. at[w] - 1 \/ i = at[w]
      BY <2>2, <3>1
    <3>3. QED
      BY <1>8, <3>2 DEF ParseInv
  <2>5. \A v \in failed : v # w /\ v \in Workers
    BY <1>5 DEF ParseInv
  <2>6. \A v \in Workers :
          /\ at'[v] \in ChunkFirst(v) .. ChunkLast(v) + 1
          /\ \A i \in ChunkFirst(v) .. at'[v] - 1 : i \notin bad
    BY <2>2, <2>3, <2>4 DEF ParseInv
  <2>7. \A v \in failed : at'[v] \in bad /\ at'[v] <= ChunkLast(v)
    BY <2>2, <2>5 DEF ParseInv
  <2>8. QED
    BY <1>1, <1>3, <1>4, <2>1, <2>2, <2>6, <2>7 DEF ParseInv
<1>9. QED
  BY <1>7, <1>8

LEMMA ParseUnchanged ==
  ASSUME ParseInv, UNCHANGED parse, threads' = threads
  PROVE  ParseInv'
<1>1. count' = count /\ bad' = bad /\ at' = at /\ failed' = failed
  BY DEF parse
<1>2. ChunkSize' = ChunkSize
  BY <1>1 DEF ChunkSize
<1>3. Workers' = Workers /\ \A v : ChunkFirst(v)' = ChunkFirst(v) /\ ChunkLast(v)' = ChunkLast(v)
  BY <1>1, <1>2 DEF Workers, ChunkFirst, ChunkLast
<1>4. QED
  BY <1>1, <1>3 DEF ParseInv

AtIsFunction == at = [w \in DOMAIN at |-> at[w]]

(* The threaded parse's part of the type invariant.                        *)
ParseTypeOK ==
  /\ count \in Nat /\ bad \subseteq 1 .. count
  /\ DOMAIN at \subseteq Nat /\ at \in [DOMAIN at -> 1 .. count + 1]
  /\ failed \subseteq DOMAIN at

LEMMA ParseTypes == ASSUME ParseInv, AtIsFunction PROVE ParseTypeOK
<1>1. ChunkSize \in Nat \ {0}
  BY ChunkSizePositive DEF ParseInv
<1>2. Workers \subseteq Nat
  BY <1>1 DEF Workers, CeilDiv
<1>3. ASSUME NEW w \in Workers
      PROVE  at[w] \in 1 .. count + 1
  <2>1. ChunkFirst(w) \in 1 .. count /\ ChunkLast(w) \in ChunkFirst(w) .. count
    BY ChunkBounds DEF ParseInv
  <2>2. at[w] \in ChunkFirst(w) .. ChunkLast(w) + 1 /\ count \in Nat
    BY DEF ParseInv
  <2>3. QED
    BY <2>1, <2>2
<1>4. QED
  BY <1>2, <1>3 DEF ParseInv, ParseTypeOK, AtIsFunction
=============================================================================
