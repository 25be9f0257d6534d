------------------------------- MODULE Merkle -------------------------------
(***************************************************************************)
(* The block merkle tree (src/block/merkle.rs): the streaming hasher, the  *)
(* root over a batch of leaves, and inclusion witnesses.                   *)
(*                                                                         *)
(* A hash is the term that was hashed: SHA-384 with a prefix byte per kind *)
(* of node is taken to be injective on 48-byte children.                   *)
(***************************************************************************)
EXTENDS Naturals, Sequences, SequencesExt

CONSTANT UsizeBits   \* usize::BITS

ASSUME UsizeBitsIsNat == UsizeBits \in Nat

hash_leaf(bytes) == <<"leaf", bytes>>
hash_internal(left, right) == <<"internal", left, right>>
hash_internal_single_child(child) == <<"single", child>>

(* hash_leaf(&[]): the root of a tree without leaves.                      *)
NoBytes == <<0, "none">>

(* 1usize << k, and n & size != 0.                                         *)
Size[k \in Nat] == IF k = 0 THEN 1 ELSE 2 * Size[k - 1]
Bit(n, k) == (n \div Size[k]) % 2 = 1

(* Broken variant: one pair collapses per leaf, not a whole carry.         *)
OneCarry(n) == n % 2

(* How often the loop of add_leaf turns.                                   *)
TrailingOnes(n) == CHOOSE t \in 0 .. n : ~ Bit(n, t) /\ \A k \in 0 .. t - 1 : Bit(n, k)

(* A hasher is its stack and its count of leaves.                          *)
Hasher == [stack |-> << >>, leaf_count |-> 0]

add_leaf(hasher, hash) ==
  LET turns == TrailingOnes(hasher.leaf_count)
      Pair(stack) == Append(Front(Front(stack)),
                            hash_internal(Last(Front(stack)), Last(stack)))
      Folded[k \in 0 .. turns] == IF k = 0 THEN Append(hasher.stack, hash)
                                           ELSE Pair(Folded[k - 1])
  IN  [stack |-> Folded[turns], leaf_count |-> hasher.leaf_count + 1]

(* From the last of the roots on, each becomes the left child of what is   *)
(* folded so far.                                                          *)
fold_left_children(roots, seed) ==
  LET acc[k \in 0 .. Len(roots)] ==
        IF k = 0 THEN seed ELSE hash_internal(roots[Len(roots) + 1 - k], acc[k - 1])
  IN  acc[Len(roots)]

fold_peaks(roots) == fold_left_children(Front(roots), Last(roots))

root(hasher) ==
  IF hasher.stack = << >> THEN hash_leaf(NoBytes) ELSE fold_peaks(hasher.stack)
----------------------------------------------------------------------------
(* The peak of a bit starts after those of the bits above it. Starts count *)
(* from 0.                                                                 *)
Peak(n, bit) == [start |-> (n \div Size[bit + 1]) * Size[bit + 1], size |-> Size[bit]]

(* Broken variant: the bits are taken from the lowest up.                  *)
SmallestFirst(n) ==
  LET Down[bit \in 0 .. UsizeBits] ==
        IF bit = 0 THEN << >>
        ELSE IF Bit(n, bit - 1) THEN Append(Down[bit - 1], Peak(n, bit - 1)) ELSE Down[bit - 1]
  IN  [bit \in 0 .. UsizeBits |-> Down[UsizeBits - bit]]

(* The peaks of n leaves, one per set bit of n, the largest first: what    *)
(* the loop has collected when it is through with a bit.                   *)
PeaksDownTo(n) ==
  LET Down[bit \in 0 .. UsizeBits] ==
        IF bit = UsizeBits THEN << >>
        ELSE IF Bit(n, bit) THEN Append(Down[bit + 1], Peak(n, bit)) ELSE Down[bit + 1]
  IN  Down

peak_bounds(n) == PeaksDownTo(n)[0]

Slice(leaves, peak) == SubSeq(leaves, peak.start + 1, peak.start + peak.size)

Height(size) == CHOOSE k \in 0 .. size : Size[k] = size

(* A level of nodes from the one below; a node without a sibling, which a  *)
(* perfect tree does not have, is left out.                                *)
Pairs(below) ==
  [i \in 1 .. Len(below) \div 2 |-> hash_internal(below[2 * i - 1], below[2 * i])]

(* Level by level from the leaves up.                                      *)
Levels(leaves) ==
  LET Level[k \in Nat] == IF k = 0 THEN leaves ELSE Pairs(Level[k - 1])
  IN  Level

perfect_root(leaves) == Levels(leaves)[Height(Len(leaves))][1]

PeakRoots(leaves, peaks) == [p \in DOMAIN peaks |-> perfect_root(Slice(leaves, peaks[p]))]

merkle_root(leaves) ==
  IF leaves = << >> THEN hash_leaf(NoBytes)
                    ELSE fold_peaks(PeakRoots(leaves, peak_bounds(Len(leaves))))

(* Broken variant: the node itself in the place of its sibling.            *)
OwnPath(peak_leaves, pos) ==
  [k \in 1 .. Height(Len(peak_leaves)) |->
     LET level == Levels(peak_leaves)[k - 1]
         here  == pos \div Size[k - 1]
     IN  IF here % 2 = 0 THEN [side |-> "Left",  hash |-> level[here + 1]]
                         ELSE [side |-> "Right", hash |-> level[here + 1]]]

(* The siblings on the way up; pos counts from 0.                          *)
peak_path(peak_leaves, pos) ==
  [k \in 1 .. Height(Len(peak_leaves)) |->
     LET level == Levels(peak_leaves)[k - 1]
         here  == pos \div Size[k - 1]
     IN  IF here % 2 = 0 THEN [side |-> "Right", hash |-> level[here + 2]]
                         ELSE [side |-> "Left",  hash |-> level[here]]]

(* rposition(start <= index).                                              *)
PeakOf(peaks, index) ==
  CHOOSE p \in DOMAIN peaks :
    peaks[p].start <= index /\ \A q \in p + 1 .. Len(peaks) : peaks[q].start > index

(* For index < Len(leaves); right_root is a sequence of at most one hash.  *)
witness_for(leaves, index) ==
  LET peaks == peak_bounds(Len(leaves))
      p     == PeakOf(peaks, index)
      right == SubSeq(peaks, p + 1, Len(peaks))
  IN  [siblings   |-> peak_path(Slice(leaves, peaks[p]), index - peaks[p].start),
       left_peaks |-> PeakRoots(leaves, SubSeq(peaks, 1, p - 1)),
       right_root |-> IF right = << >> THEN << >> ELSE <<fold_peaks(PeakRoots(leaves, right))>>]

fold_witness(leaf, w) ==
  LET climb(acc, s) == IF s.side = "Left" THEN hash_internal(s.hash, acc)
                                          ELSE hash_internal(acc, s.hash)
      up[k \in 0 .. Len(w.siblings)] == IF k = 0 THEN leaf ELSE climb(up[k - 1], w.siblings[k])
      peak  == up[Len(w.siblings)]
      right == IF w.right_root = << >> THEN peak ELSE hash_internal(peak, w.right_root[1])
  IN  fold_left_children(w.left_peaks, right)
=============================================================================
