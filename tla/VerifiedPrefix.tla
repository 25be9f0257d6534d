--------------------------- MODULE VerifiedPrefix ---------------------------
(***************************************************************************)
(* What the sentinel promises about its committed state, with no process,  *)
(* bucket or file in sight: a tip that is carried over a stream only along *)
(* an unbroken run of acceptable, linked blocks, that stops being          *)
(* trustworthy in one way only (a save that was cut short), and that moves *)
(* in any other way only by hand.                                          *)
(***************************************************************************)
EXTENDS Integers

CONSTANTS
  None,         \* an unset field
  Absent,       \* the stream holds no block of this number
  Top,          \* the highest block number of the stream
  BlockProofs   \* TRUE when threshold signatures can be checked

Blocks == 0 .. Top

VARIABLES
  stream,   \* the published stream: block number -> block, or Absent
  tip,      \* [anchored, last, root, path, bytes], or None once unreadable
  edits     \* how many times a human has rewritten the tip

(***************************************************************************)
(* A block that may be trusted as number n under a known proof format.     *)
(* A None format is not known yet and constrains nothing.                  *)
(***************************************************************************)
Tss(o) == o.path # "unknown"

Acceptable(n, o, path, bytes) ==
  /\ o.readable
  /\ o.number = n
  /\ path  \in {None, o.path}
  /\ bytes \in {None, o.bytes}
  /\ ~ o.bootstrap
  /\ Tss(o) => BlockProofs /\ o.hints

(***************************************************************************)
(* Blocks k..m may be trusted in one go after a block whose root is `root`: *)
(* all there, all acceptable under the format of the last one, each one    *)
(* claiming the root of the one before it.                                 *)
(***************************************************************************)
Linked(k, m, root) ==
  /\ stream[m] # Absent
  /\ \A i \in k .. m :
       /\ stream[i] # Absent
       /\ Acceptable(i, stream[i], stream[m].path, stream[m].bytes)
       /\ IF i = k THEN root \in {None, stream[i].prev}
                   ELSE stream[i].prev = stream[i-1].root

Init ==
  /\ tip = [anchored |-> FALSE, last |-> None, root |-> None,
            path |-> None, bytes |-> None]
  /\ edits = 0

(* The tip moves forward along the stream; an anchored tip by the very next *)
(* block, one that was never anchored from any block.                      *)
Advance ==
  \E k, m \in Blocks :
    /\ tip # None
    /\ k <= m
    /\ tip.anchored => tip.last # None /\ k = tip.last + 1
    /\ Linked(k, m, tip.root)
    /\ tip.path  \in {None, stream[m].path}
    /\ tip.bytes \in {None, stream[m].bytes}
    /\ tip' = [anchored |-> TRUE, last |-> m, root |-> stream[m].root,
               path |-> stream[m].path, bytes |-> stream[m].bytes]
    /\ UNCHANGED <<stream, edits>>

(* An interrupted save reaches the committed copy: nothing is claimed.      *)
Lose ==
  /\ tip' = None
  /\ UNCHANGED <<stream, edits>>

(* A human rewrites the tip.                                               *)
Intervene ==
  /\ edits' = edits + 1
  /\ UNCHANGED stream

Next == Advance \/ Lose \/ Intervene

Spec == Init /\ [][Next]_<<stream, tip, edits>>
=============================================================================
