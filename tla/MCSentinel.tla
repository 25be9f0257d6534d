----------------------------- MODULE MCSentinel -----------------------------
(***************************************************************************)
(* The sentinel on streams of a few blocks: one clean stream, and one for  *)
(* each way a stream can break its promise, from a given block on.         *)
(***************************************************************************)
EXTENDS Sentinel

MCRoot  == 0 .. Top + 2
MCBytes == {48, 2920}

(* Block n of the pre-TSS preview: its root is n + 1, it claims root n.     *)
Preview(n) ==
  [readable |-> TRUE, number |-> n, root |-> n + 1, prev |-> n,
   path |-> "unknown", bytes |-> 48, bootstrap |-> FALSE, hints |-> FALSE]

Signed(n) ==
  [Preview(n) EXCEPT !.path = "aggregateSchnorr", !.bytes = 2920, !.hints = TRUE]

CleanStream  == [b \in Blocks |-> Preview(b)]
SignedStream == [b \in Blocks |-> Signed(b)]
Cutover(n)   == [b \in Blocks |-> IF b < n THEN Preview(b) ELSE Signed(b)]
Holes(N)     == [b \in Blocks |-> IF b \in N THEN Absent ELSE Preview(b)]

With(base, n, o) == [base EXCEPT ![n] = o]

Broken(n) ==
  {With(CleanStream, n, [Preview(n) EXCEPT !.readable = FALSE]),
   With(CleanStream, n, [Preview(n) EXCEPT !.number = n + 1]),
   With(CleanStream, n, [Preview(n) EXCEPT !.prev = Top + 2]),
   With(CleanStream, n, [Preview(n) EXCEPT !.bytes = 2920]),
   With(CleanStream, n, [Preview(n) EXCEPT !.path = "wraps", !.hints = TRUE]),
   With(CleanStream, n, [Preview(n) EXCEPT !.bootstrap = TRUE]),
   With(SignedStream, n, [Signed(n) EXCEPT !.hints = FALSE])}

SafetyStreams ==
  {CleanStream, SignedStream, Cutover(1), Holes({2}), Holes({1, 2})} \cup Broken(2)

LiveStreams == {CleanStream, Cutover(1), Cutover(2), Holes({1})} \cup Broken(1) \cup Broken(2)

(* The stream that goes on once the human has accepted its new format.     *)
QueueStreams == {Cutover(1)}

GapStreams == {Holes({1, 2})}
=============================================================================
