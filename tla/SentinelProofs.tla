--------------------------- MODULE SentinelProofs ---------------------------
(***************************************************************************)
(* What the sentinel's runs check on streams of a few blocks, proved for   *)
(* every stream, every batch size, every stride, and any number of faults, *)
(* hand edits and interleavings with the bucket.                           *)
(***************************************************************************)
EXTENDS Sentinel, TLAPS

(* The operators keep the types of what they are given.                    *)
LEMMA StateOperators ==
  ASSUME NEW s \in State
  PROVE  /\ OrZero(s.verifiedTotal) \in Nat
         /\ \A v \in Nat : Accounted(s, v) \in State
         /\ \A n \in Nat, o \in Object : AdvancedThrough(s, n, o) \in State
         /\ Trusted(s) \in State
<1>1. OrZero(s.verifiedTotal) \in Nat
  BY DEF OrZero, State
<1>2. ASSUME NEW v \in Nat
      PROVE  Accounted(s, v) \in State
  <2>1. OrZero(s.verifiedTotal) + v \in Nat
    BY <1>1
  <2>2. ASSUME NEW total \in Nat
        PROVE  [s EXCEPT !.initialized = TRUE, !.verifiedTotal = total] \in State
    BY DEF State
  <2>3. QED
    BY <2>1, <2>2 DEF Accounted
<1>3. \A n \in Nat, o \in Object : AdvancedThrough(s, n, o) \in State
  <2> SUFFICES ASSUME NEW n \in Nat, NEW o \in Object
               PROVE  AdvancedThrough(s, n, o) \in State
    OBVIOUS
  <2>1. o.root \in Root /\ o.path \in Path /\ o.bytes \in Bytes
    BY DEF Object
  <2>2. (IF s.anchor = None THEN n ELSE s.anchor) \in Nat \cup {None}
    BY DEF State
  <2>3. QED
    BY <2>1, <2>2 DEF AdvancedThrough, State
<1>4. Trusted(s) \in State
  BY <1>1 DEF Trusted, State
<1>5. QED
  BY <1>1, <1>2, <1>3, <1>4

LEMMA FreshStateIsState == FreshState \in State
  BY DEF FreshState, State

(* A hand edit of a state is a state.                                      *)
LEMMA HandEditsAreStates ==
  ASSUME NEW c \in State \cup Torn, stream \in [Blocks -> Object \cup {Absent}],
         NEW s \in HandEdits(c)
  PROVE  s \in State
<1>1. CASE c \in Torn
  BY <1>1, FreshStateIsState DEF HandEdits
<1>2. CASE c \notin Torn
  <2>1. c \in State
    BY <1>2
  <2>2. CASE s = [c EXCEPT !.proofPath = None, !.signatureBytes = None]
    BY <2>1, <2>2 DEF State
  <2>3. CASE s = [c EXCEPT !.initialized = FALSE]
    BY <2>1, <2>3 DEF State
  <2>4. ASSUME NEW n \in Blocks, stream[n] # Absent,
               s = [c EXCEPT !.initialized = TRUE, !.lastBlock = n, !.lastRoot = stream[n].root]
        PROVE  s \in State
    <3>1. stream[n] \in Object /\ n \in Nat
      BY <2>4, BoundsAreNatural DEF Blocks
    <3>2. stream[n].root \in Root
      BY <3>1 DEF Object
    <3>3. QED
      BY <2>1, <2>4, <3>1, <3>2 DEF State
  <2>5. QED
    BY <1>2, <2>2, <2>3, <2>4 DEF HandEdits
<1>3. QED
  BY <1>1, <1>2
----------------------------------------------------------------------------
(* Type correctness rests on two facts about where the run is: the batch   *)
(* in hand holds the block that comes next, and the probe's bracket is not *)
(* empty.                                                                  *)
BatchHoldsNext ==
  /\ pc = "fetch" => from + verified = start /\ start <= to
  /\ pc = "check" => DOMAIN fetched = Batch /\ from + verified \in Batch

BracketIsOrdered ==
  /\ pc \in {"expand", "bisect"} => lo < hi
  /\ pc = "expand" => step > 0

TypeInv == TypeOK /\ BatchHoldsNext /\ BracketIsOrdered

LEMMA TypeInit == Init => TypeInv
<1> SUFFICES ASSUME Init PROVE TypeInv
  OBVIOUS
<1>1. FreshState \in State
  BY FreshStateIsState
<1>2. fetched \in [DOMAIN fetched -> Object \cup {Absent}] /\ DOMAIN fetched \subseteq Nat
  BY DEF Init, NothingFetched
<1>3. stream \in [Blocks -> Object \cup {Absent}]
  BY StreamsAreStreams DEF Init
<1>4. 0 \in Blocks /\ 0 \in 0 .. MaxEdits /\ 0 \in 0 .. MaxFaults
  BY BoundsAreNatural DEF Blocks
<1>5. args \in [local : BOOLEAN, init : Nat \cup {None}, max : Nat]
  BY DEF Init, NoFlags
<1>6. TypeOK
  BY <1>1, <1>2, <1>3, <1>4, <1>5 DEF Init, TypeOK
<1>7. QED
  BY <1>6 DEF Init, TypeInv, BatchHoldsNext, BracketIsOrdered

LEMMA TypeDiscard ==
  ASSUME Discard
  PROVE  /\ pc' = "idle"
         /\ args' \in [local : BOOLEAN, init : Nat \cup {None}, max : Nat]
         /\ file' \in State /\ mem' \in State /\ dirty' \in BOOLEAN
         /\ seen' \subseteq Blocks
         /\ lo' \in Nat /\ hi' \in Nat /\ step' \in Nat
         /\ from' \in Nat /\ to' \in Nat /\ start' \in Nat /\ verified' \in Nat
         /\ DOMAIN fetched' \subseteq Nat
         /\ fetched' \in [DOMAIN fetched' -> Object \cup {Absent}]
  BY FreshStateIsState DEF Discard, NoFlags, NothingFetched

(* One worker's answer keeps `fetched` a function on block numbers.         *)
LEMMA TypeFetched ==
  ASSUME TypeOK, NEW n \in Nat, NEW o \in Object \cup {Absent},
         fetched' = [b \in DOMAIN fetched \cup {n} |-> IF b = n THEN o ELSE fetched[b]]
  PROVE  /\ DOMAIN fetched' \subseteq Nat
         /\ fetched' \in [DOMAIN fetched' -> Object \cup {Absent}]
  BY DEF TypeOK

LEMMA BatchIsNatural ==
  ASSUME TypeOK
  PROVE  /\ BatchEnd \in Int /\ Batch \subseteq Nat
         /\ BatchEnd <= to
  BY BoundsAreNatural DEF TypeOK, Batch, BatchEnd

LEMMA FaultsCounted ==
  ASSUME TypeOK, Fault
  PROVE  faults' \in 0 .. MaxFaults
  BY BoundsAreNatural DEF TypeOK, Fault

(* A step that leaves the run where it is keeps what depends on where it is. *)
LEMMA PositionKept ==
  ASSUME BatchHoldsNext, BracketIsOrdered,
         UNCHANGED <<pc, lo, hi, step, from, to, start, verified, DOMAIN fetched>>
  PROVE  BatchHoldsNext' /\ BracketIsOrdered'
  BY DEF BatchHoldsNext, BracketIsOrdered, Batch, BatchEnd

(* Whoever is overtaken keeps the file it is to check out.                 *)
LEMMA OvertakenKeepsFile ==
  ASSUME TypeOK
  PROVE  /\ Overtaken \in Checked \cup {None}
         /\ Overtaken # None =>
              waiting # None /\ Overtaken.file = waiting.file /\ Overtaken.behind
  BY DEF TypeOK, Checked, Overtaken

(* A job checks out the head, or what a waiting run took for the head.      *)
LEMMA CheckedOut ==
  ASSUME NEW local, NEW init, NEW max, NEW waited \in BOOLEAN,
         Checkout(local, init, max, waited)
  PROVE  /\ waiting' \in {waiting, None}
         /\ \/ file' = committed /\ stale' = FALSE
            \/ waiting # None /\ file' = waiting.file /\ stale' = waiting.behind
  BY DEF Checkout, AtHead

LEMMA TypeNext == TypeInv /\ [Next]_vars => TypeInv'
<1> SUFFICES ASSUME TypeInv, [Next]_vars PROVE TypeInv'
  OBVIOUS
<1> USE DEF TypeInv
<1>a. Blocks \subseteq Nat
  BY BoundsAreNatural DEF Blocks
<1>1. ASSUME NEW local \in LocalModes, NEW init \in InitBlocks, NEW max \in MaxBlocks,
             NEW waited \in BOOLEAN, Checkout(local, init, max, waited)
      PROVE  TypeInv'
  <2>1. waiting \in Checked \cup {None} /\ committed \in State \cup Torn
    BY DEF TypeOK
  <2>2. waiting # None => waiting.file \in State \cup Torn /\ waiting.behind \in BOOLEAN
    BY <2>1 DEF Checked
  <2>3. /\ waiting' \in {waiting, None}
        /\ \/ file' = committed /\ stale' = FALSE
           \/ waiting # None /\ file' = waiting.file /\ stale' = waiting.behind
    BY <1>1, CheckedOut
  <2>4. /\ waiting' \in Checked \cup {None}
        /\ file' \in State \cup Torn /\ stale' \in BOOLEAN
    BY <2>1, <2>2, <2>3
  <2>5. args' = [local |-> local, init |-> init, max |-> max]
    BY <1>1 DEF Checkout
  <2>6. local \in BOOLEAN /\ init \in Nat \cup {None} /\ max \in Nat
    BY FlagsAreLegal
  <2>7. args' \in [local : BOOLEAN, init : Nat \cup {None}, max : Nat]
    BY <2>5, <2>6
  <2>8. QED
    BY <1>1, <2>4, <2>7
    DEF TypeOK, BatchHoldsNext, BracketIsOrdered, Checkout, bucket, run, Running
<1>2. CASE Load
  <2> USE <1>2 DEF Load
  <2>1. CASE file \in Torn \/ FirstBlock(file, args.init) = None
    BY <2>1 DEF TypeOK, BatchHoldsNext, BracketIsOrdered, Exit, outside, bucket, run
  <2>2. CASE ~ (file \in Torn \/ FirstBlock(file, args.init) = None)
    <3>1. file \in State /\ args \in [local : BOOLEAN, init : Nat \cup {None}, max : Nat]
      BY <2>2 DEF TypeOK
    <3>2. FirstBlock(file, args.init) \in Nat /\ SearchFloor(file, args.init) \in Nat
      BY <2>2, <3>1 DEF FirstBlock, SearchFloor, State
    <3>3. QED
      BY <2>2, <3>1, <3>2 DEF TypeOK, BatchHoldsNext, BracketIsOrdered, outside, bucket, Running
  <2>3. QED
    BY <2>1, <2>2
<1>3. CASE NewestLocal
  BY <1>3, <1>a
  DEF NewestLocal, TypeOK, BatchHoldsNext, BracketIsOrdered, Exit, outside, bucket, run, Running
<1>4. CASE ProbeFloor
  BY <1>4, BoundsAreNatural
  DEF ProbeFloor, TypeOK, BatchHoldsNext, BracketIsOrdered, Exit, outside, bucket, run, Running
<1>5. CASE ProbeExpand
  BY <1>5, BoundsAreNatural
  DEF ProbeExpand, TypeOK, BatchHoldsNext, BracketIsOrdered, outside, bucket, probe, Running
<1>6. CASE ProbeBisect
  <2> USE <1>6 DEF ProbeBisect
  <2>1. CASE BracketClosed
    BY <2>1 DEF TypeOK, BatchHoldsNext, BracketIsOrdered, outside, bucket, probe, Running
  <2>2. CASE ~ BracketClosed
    <3>1. Midpoint \in Nat /\ lo < Midpoint /\ Midpoint < hi
      BY <2>2 DEF BracketClosed, BracketIsOrdered, Midpoint, TypeOK
    <3>2. lo' \in Nat /\ hi' \in Nat /\ lo' < hi'
      BY <2>2, <3>1 DEF Narrowed, TypeOK, BracketIsOrdered
    <3>3. QED
      BY <2>2, <3>2 DEF TypeOK, BatchHoldsNext, BracketIsOrdered, outside, bucket
  <2>3. QED
    BY <2>1, <2>2
<1>7. CASE Window
  <2> USE <1>7 DEF Window
  <2>1. CASE lo < from
    BY <2>1 DEF TypeOK, BatchHoldsNext, BracketIsOrdered, Exit, outside, bucket, Running
  <2>2. CASE ~ (lo < from)
    <3>1. to' \in Nat
      BY <2>2, BoundsAreNatural DEF TypeOK, WindowEnd
    <3>2. DOMAIN fetched' \subseteq Nat /\ fetched' \in [DOMAIN fetched' -> Object \cup {Absent}]
      BY <2>2 DEF NothingFetched
    <3>3. QED
      BY <2>2, <3>1, <3>2
      DEF TypeOK, BatchHoldsNext, BracketIsOrdered, outside, bucket, Running
  <2>3. QED
    BY <2>1, <2>2
<1>8. ASSUME NEW n \in Batch, Fetch(n)
      PROVE  TypeInv'
  <2>1. n \in Nat /\ Fetched(n) \in Object \cup {Absent}
    BY <1>8, <1>a, BatchIsNatural DEF TypeOK, Fetched
  <2>2. DOMAIN fetched' \subseteq Nat /\ fetched' \in [DOMAIN fetched' -> Object \cup {Absent}]
    BY <1>8, <2>1, TypeFetched DEF Fetch
  <2>3. QED
    BY <1>8, <2>2
    DEF Fetch, TypeOK, BatchHoldsNext, BracketIsOrdered, Batch, BatchEnd, outside, bucket, job, probe
<1>9. CASE Join
  <2>1. from + verified = start /\ start <= to
    BY <1>9 DEF Join, BatchHoldsNext
  <2>2. start <= BatchEnd /\ BatchEnd \in Int
    BY <2>1, BoundsAreNatural DEF TypeOK, BatchEnd
  <2>3. from + verified \in Batch
    BY <2>1, <2>2 DEF Batch, TypeOK
  <2>4. QED
    BY <1>9, <2>3
    DEF Join, TypeOK, BatchHoldsNext, BracketIsOrdered, Batch, BatchEnd, outside, bucket, run, Running
<1>10. CASE CheckNext
  <2> DEFINE n == from + verified
             o == fetched[n]
  <2> USE <1>10 DEF CheckNext
  <2>1. n \in Batch /\ n \in Nat /\ o \in Object \cup {Absent}
    BY BatchIsNatural DEF TypeOK, BatchHoldsNext
  <2>2. CASE o = Absent \/ ~ Passes(n, o, mem)
    <3>1. DOMAIN fetched' \subseteq Nat /\ fetched' \in [DOMAIN fetched' -> Object \cup {Absent}]
      BY <2>2 DEF NothingFetched
    <3>2. QED
      BY <2>2, <3>1
      DEF TypeOK, BatchHoldsNext, BracketIsOrdered, outside, bucket, probe, Running
  <2>3. CASE ~ (o = Absent \/ ~ Passes(n, o, mem))
    <3>1. mem' \in State /\ verified' \in Nat
      <4>1. mem' = AdvancedThrough(mem, n, o) /\ verified' = verified + 1
        BY <2>3
      <4>2. o \in Object /\ mem \in State /\ verified \in Nat
        BY <2>1, <2>3 DEF TypeOK
      <4>3. AdvancedThrough(mem, n, o) \in State
        BY <2>1, <4>2, StateOperators
      <4>4. QED
        BY <4>1, <4>2, <4>3
    <3>2. CASE n < BatchEnd
      <4>1. from' + verified' = n + 1
        BY <2>3 DEF TypeOK
      <4>2. n + 1 \in Batch
        BY <2>1, <3>2, BatchIsNatural DEF TypeOK, Batch
      <4>3. QED
        BY <2>3, <3>1, <3>2, <4>1, <4>2
        DEF TypeOK, BatchHoldsNext, BracketIsOrdered, Batch, BatchEnd, outside, bucket, probe
    <3>3. CASE ~ (n < BatchEnd)
      <4>1. n = BatchEnd /\ n <= to
        BY <2>1, <3>3, BatchIsNatural DEF Batch
      <4>2. DOMAIN fetched' \subseteq Nat /\ fetched' \in [DOMAIN fetched' -> Object \cup {Absent}]
        BY <2>3, <3>3 DEF NothingFetched
      <4>3. start' = from' + verified' /\ (n # to => start' <= to')
        BY <2>1, <2>3, <3>3, <4>1 DEF TypeOK
      <4>4. QED
        BY <2>1, <2>3, <3>1, <3>3, <4>2, <4>3
        DEF TypeOK, BatchHoldsNext, BracketIsOrdered, outside, bucket, probe, Running
    <3>4. QED
      BY <3>2, <3>3
  <2>4. QED
    BY <2>2, <2>3
<1>11. CASE Save
  <2>1. mem' \in State
    BY <1>11, StateOperators DEF Save, TypeOK
  <2>2. QED
    BY <1>11, <2>1
    DEF Save, TypeOK, BatchHoldsNext, BracketIsOrdered, Torn, outside, bucket, probe, Running
<1>12. CASE Write
  BY <1>12
  DEF Write, TypeOK, BatchHoldsNext, BracketIsOrdered, Exit, outside, bucket, run
<1>13. CASE Commit
  <2>1. committed' \in State \cup Torn /\ waiting' \in Checked \cup {None}
    BY <1>13, OvertakenKeepsFile DEF Commit, TypeOK, head
  <2>2. QED
    BY <1>13, <2>1, TypeDiscard
    DEF Commit, TypeOK, BatchHoldsNext, BracketIsOrdered, bucket
<1>14. CASE ProbeFails
  BY <1>14, FaultsCounted
  DEF ProbeFails, TypeOK, BatchHoldsNext, BracketIsOrdered, Exit, bucket, head, run
<1>15. ASSUME NEW n \in Batch, FetchFails(n)
       PROVE  TypeInv'
  <2>1. n \in Nat
    BY BatchIsNatural
  <2>2. DOMAIN fetched' \subseteq Nat /\ fetched' \in [DOMAIN fetched' -> Object \cup {Absent}]
    BY <1>15, <2>1, TypeFetched DEF FetchFails
  <2>3. QED
    BY <1>15, <2>2, FaultsCounted
    DEF FetchFails, TypeOK, BatchHoldsNext, BracketIsOrdered, Batch, BatchEnd, bucket, head, job, probe
<1>16. CASE SaveFails
  BY <1>16, FaultsCounted
  DEF SaveFails, TypeOK, BatchHoldsNext, BracketIsOrdered, Exit, bucket, head, run
<1>17. CASE Crash
  BY <1>17, FaultsCounted
  DEF Crash, TypeOK, BatchHoldsNext, BracketIsOrdered, Exit, bucket, head, run
<1>18. CASE JobLost
  BY <1>18, TypeDiscard, FaultsCounted
  DEF JobLost, TypeOK, BatchHoldsNext, BracketIsOrdered, bucket, head
<1>19. CASE OtherPush
  BY <1>19, FaultsCounted, PositionKept, OvertakenKeepsFile
  DEF OtherPush, TypeOK, bucket, job, run
<1>20. CASE HandEdit
  <2>1. PICK s \in HandEdits(committed) : committed' = Trusted(s)
    BY <1>20 DEF HandEdit
  <2>2. committed' \in State
    BY <2>1, HandEditsAreStates, StateOperators DEF TypeOK
  <2>3. edits' \in 0 .. MaxEdits
    BY <1>20, BoundsAreNatural DEF HandEdit, TypeOK
  <2>4. QED
    BY <1>20, <2>2, <2>3, PositionKept, OvertakenKeepsFile
    DEF HandEdit, TypeOK, bucket, job, run
<1>21. ASSUME NEW n \in Blocks, Publish(n)
       PROVE  TypeInv'
  BY <1>21, PositionKept DEF Publish, TypeOK, head, job, run
<1>22. CASE Expire
  <2>1. oldest' \in Blocks
    <3>1. oldest \in Nat
      BY BoundsAreNatural DEF TypeOK, Blocks
    <3>2. oldest < MaxExpired /\ oldest' = oldest + 1
      BY <1>22 DEF Expire
    <3>3. QED
      BY <3>1, <3>2, BoundsAreNatural DEF Blocks
  <2>2. QED
    BY <1>22, <2>1, PositionKept DEF Expire, TypeOK, head, job, run
<1>23. CASE UNCHANGED vars
  BY <1>23, PositionKept DEF vars, TypeOK
<1>24. CASE Dispatch
  BY <1>24, PositionKept DEF Dispatch, AtHead, Checked, TypeOK, bucket, job, run
<1>25. ASSUME NEW configured \in Secrets, Gate(configured)
       PROVE  TypeInv'
  <2>1. CASE configured
    BY <1>25, <2>1
    DEF Gate, TypeOK, BatchHoldsNext, BracketIsOrdered, bucket, head, run, Running
  <2>2. CASE ~ configured
    BY <1>25, <2>2, TypeDiscard
    DEF Gate, TypeOK, BatchHoldsNext, BracketIsOrdered, bucket, head
  <2>3. QED
    BY <2>1, <2>2
<1>26. QED
  BY <1>1, <1>2, <1>3, <1>4, <1>5, <1>6, <1>7, <1>8, <1>9, <1>10, <1>11, <1>12, <1>13,
     <1>14, <1>15, <1>16, <1>17, <1>18, <1>19, <1>20, <1>21, <1>22, <1>23,
     <1>24, <1>25
  DEF Next, Start, JobStep, RunStep, Failure

(* Every variable keeps its type, whatever fails and in whatever order.     *)
THEOREM TypeCorrect == Spec => []TypeOK
<1>1. TypeInv => TypeOK
  BY DEF TypeInv
<1>2. QED
  BY TypeInit, TypeNext, <1>1, PTL DEF Spec
----------------------------------------------------------------------------
(* StateIsEarned and TotalIsExact are not inductive: they say nothing of   *)
(* the state in memory while a window is worked through, nor of what the   *)
(* batch in hand contains. The strengthening speaks of a state s over a    *)
(* stream f in three stages of a run.                                      *)

LinkedOn(f, k, m, root) ==
  /\ f[m] # Absent
  /\ \A i \in k .. m :
       /\ f[i] # Absent
       /\ VP!Acceptable(i, f[i], f[m].path, f[m].bytes)
       /\ IF i = k THEN root \in {None, f[i].prev} ELSE f[i].prev = f[i-1].root

EarnedOn(f, s) ==
  s.anchor # None =>
    /\ s.lastBlock \in Blocks /\ s.anchor \in 0 .. s.lastBlock
    /\ LinkedOn(f, s.anchor, s.lastBlock, s.seam)
    /\ s.lastRoot = f[s.lastBlock].root
    /\ s.proofPath = f[s.lastBlock].path
    /\ s.signatureBytes = f[s.lastBlock].bytes

Untouched(s) == s.seam = s.lastRoot /\ s.base = OrZero(s.verifiedTotal)

(* A state fit to be saved or pushed.                                      *)
Settled(f, s) ==
  /\ EarnedOn(f, s)
  /\ IF s.anchor = None THEN Untouched(s)
     ELSE s.initialized /\ s.verifiedTotal = s.base + (s.lastBlock - s.anchor + 1)

(* A state in memory, v blocks into a window that starts at `first`.       *)
InHand(f, s, v, first) ==
  /\ EarnedOn(f, s)
  /\ IF s.anchor = None THEN v = 0 /\ Untouched(s)
     ELSE /\ OrZero(s.verifiedTotal) + v = s.base + (s.lastBlock - s.anchor + 1)
          /\ first + v = s.lastBlock + 1
          /\ v = 0 => s.initialized

(* What the workers brought is what the stream holds under that number.    *)
FetchedOn(f, g) ==
  \A b \in DOMAIN g : g[b] # Absent => b \in Blocks /\ g[b] = f[b]

IInv ==
  /\ TypeInv
  /\ committed \notin Torn => Settled(stream, committed)
  /\ waiting # None /\ waiting.file \notin Torn => Settled(stream, waiting.file)
  /\ file \notin Torn => Settled(stream, file)
  /\ EarnedOn(stream, mem)
  /\ pc \in {"idle", "gate", "load", "probe", "expand", "bisect", "window"} => verified = 0
  /\ pc \in {"probe", "expand", "bisect", "window", "fetch", "check", "save"}
       => InHand(stream, mem, verified, from)
  /\ pc = "write" => Settled(stream, mem)
  /\ FetchedOn(stream, fetched)

LEMMA FreshIsSettled ==
  ASSUME NEW f
  PROVE  Settled(f, FreshState) /\ EarnedOn(f, FreshState)
  BY DEF Settled, EarnedOn, FreshState, Untouched, OrZero

LEMMA EditIsSettled ==
  ASSUME NEW f, NEW s \in State
  PROVE  Settled(f, Trusted(s))
  BY DEF Settled, EarnedOn, Untouched, Trusted, OrZero, State

(* The window of a settled state starts right after what was earned.       *)
LEMMA LoadTakesInHand ==
  ASSUME NEW f, NEW s \in State, Settled(f, s), NEW first \in Nat,
         s.initialized => s.lastBlock # None /\ first = s.lastBlock + 1
  PROVE  InHand(f, s, 0, first)
<1>1. CASE s.anchor = None
  BY <1>1 DEF Settled, InHand
<1>2. CASE s.anchor # None
  <2>1. s.anchor \in Nat /\ s.lastBlock \in Nat /\ s.base \in Nat
    BY <1>2, BoundsAreNatural DEF Settled, EarnedOn, Blocks, State
  <2>2. s.verifiedTotal # None
    BY <1>2, <2>1, NamesAreDistinct DEF Settled
  <2>3. QED
    BY <1>2, <2>1, <2>2 DEF Settled, InHand, OrZero
<1>3. QED
  BY <1>1, <1>2

(* A block that passes check_block extends what was earned by one.         *)
LEMMA CheckExtends ==
  ASSUME NEW f \in [Blocks -> Object \cup {Absent}], NEW s \in State,
         NEW v \in Nat, NEW first \in Nat, InHand(f, s, v, first),
         first + v \in Blocks, f[first + v] # Absent,
         Passes(first + v, f[first + v], s)
  PROVE  InHand(f, AdvancedThrough(s, first + v, f[first + v]), v + 1, first)
<1> DEFINE n == first + v
           o == f[n]
           t == AdvancedThrough(s, n, o)
<1>1. n \in Nat /\ o \in Object /\ Blocks = 0 .. Top /\ Top \in Nat
  BY BoundsAreNatural DEF Blocks
<1>2. /\ t.lastBlock = n /\ t.lastRoot = o.root /\ t.proofPath = o.path
      /\ t.signatureBytes = o.bytes /\ t.seam = s.seam /\ t.base = s.base
      /\ t.verifiedTotal = s.verifiedTotal /\ t.initialized = s.initialized
      /\ t.anchor = IF s.anchor = None THEN n ELSE s.anchor
  BY DEF AdvancedThrough, State
<1>3. VP!Acceptable(n, o, o.path, o.bytes)
  BY DEF Passes, VP!Acceptable, VP!Tss, Tss
<1>4. CASE s.anchor = None
  <2>1. t.anchor = n /\ t.seam \in {None, o.prev} /\ v = 0
    BY <1>2, <1>4 DEF InHand, Untouched, Passes
  <2>2. LinkedOn(f, n, n, t.seam)
    BY <1>1, <1>3, <2>1 DEF LinkedOn
  <2>3. EarnedOn(f, t)
    BY <1>1, <1>2, <2>1, <2>2 DEF EarnedOn
  <2>4. OrZero(t.verifiedTotal) = t.base /\ t.base \in Nat
    BY <1>2, <1>4 DEF InHand, Untouched, State
  <2>5. n \notin {None}
    BY <1>1, NamesAreDistinct
  <2>6. QED
    BY <1>1, <1>2, <2>1, <2>3, <2>4, <2>5 DEF InHand
<1>5. CASE s.anchor # None
  <2> DEFINE m == s.lastBlock
  <2>1. /\ m \in Blocks /\ s.anchor \in 0 .. m /\ n = m + 1
        /\ LinkedOn(f, s.anchor, m, s.seam) /\ s.lastRoot = f[m].root
        /\ s.proofPath = f[m].path /\ s.signatureBytes = f[m].bytes
    BY <1>1, <1>5 DEF InHand, EarnedOn
  <2>2. f[m] \in Object
    BY <2>1 DEF LinkedOn
  <2>3. /\ f[m].path = o.path /\ f[m].bytes = o.bytes /\ o.prev = f[m].root
    BY <2>1, <2>2, NamesAreDistinct DEF Passes, Object
  <2>4. ASSUME NEW i \in s.anchor .. n
        PROVE  /\ f[i] # Absent
               /\ VP!Acceptable(i, f[i], o.path, o.bytes)
               /\ IF i = s.anchor THEN s.seam \in {None, f[i].prev}
                                  ELSE f[i].prev = f[i-1].root
    <3>1. CASE i = n
      <4>1. i # s.anchor /\ i - 1 = m
        BY <1>1, <2>1, <3>1
      <4>2. QED
        BY <1>3, <2>3, <3>1, <4>1
    <3>2. CASE i # n
      <4>1. i \in s.anchor .. m
        BY <1>1, <2>1, <3>2
      <4>2. QED
        BY <2>1, <2>3, <4>1 DEF LinkedOn
    <3>3. QED
      BY <3>1, <3>2
  <2>5. LinkedOn(f, s.anchor, n, s.seam)
    BY <2>4 DEF LinkedOn
  <2>6. EarnedOn(f, t)
    BY <1>1, <1>2, <1>5, <2>1, <2>5 DEF EarnedOn
  <2>7. /\ OrZero(s.verifiedTotal) \in Nat /\ s.base \in Nat
        /\ s.anchor \in Nat /\ m \in Nat
        /\ OrZero(s.verifiedTotal) + v = s.base + (m - s.anchor + 1)
    BY <1>1, <1>5, <2>1, StateOperators DEF InHand, State
  <2>8. OrZero(s.verifiedTotal) + (v + 1) = s.base + (n - s.anchor + 1)
    <3>1. n = m + 1
      BY <2>1
    <3>2. QED
      BY <2>7, <3>1
  <2>9. t.anchor = s.anchor /\ first + (v + 1) = n + 1 /\ v + 1 # 0
    BY <1>2, <1>5
  <2>10. QED
    BY <1>2, <1>5, <2>6, <2>8, <2>9 DEF InHand
<1>6. QED
  BY <1>4, <1>5

(* What is written at the end of a run is settled again.                   *)
LEMMA AccountSettles ==
  ASSUME NEW f, NEW s \in State, NEW v \in Nat, NEW first \in Nat,
         InHand(f, s, v, first)
  PROVE  Settled(f, Accounted(s, v)) /\ EarnedOn(f, Accounted(s, v))
<1>1. CASE v = 0
  <2>1. Accounted(s, v) = s
    BY <1>1 DEF Accounted
  <2>2. CASE s.anchor = None
    BY <2>1, <2>2 DEF InHand, Settled
  <2>3. CASE s.anchor # None
    <3>1. s.anchor \in Nat /\ s.lastBlock \in Nat /\ s.base \in Nat
      BY <2>3, BoundsAreNatural DEF InHand, EarnedOn, Blocks, State
    <3>2. s.verifiedTotal = s.base + (s.lastBlock - s.anchor + 1)
      <4>1. s.base + (s.lastBlock - s.anchor + 1) > 0
        BY <2>3, <3>1 DEF InHand, EarnedOn
      <4>2. QED
        BY <1>1, <2>3, <3>1, <4>1, StateOperators DEF InHand, OrZero
    <3>3. QED
      BY <1>1, <2>1, <2>3, <3>2 DEF InHand, Settled
  <2>4. QED
    BY <2>2, <2>3
<1>2. CASE v # 0
  <2>1. s.anchor # None
    BY <1>2 DEF InHand
  <2>2. /\ Accounted(s, v).initialized = TRUE
        /\ Accounted(s, v).verifiedTotal = OrZero(s.verifiedTotal) + v
        /\ Accounted(s, v).anchor = s.anchor /\ Accounted(s, v).seam = s.seam
        /\ Accounted(s, v).base = s.base /\ Accounted(s, v).lastBlock = s.lastBlock
        /\ Accounted(s, v).lastRoot = s.lastRoot /\ Accounted(s, v).proofPath = s.proofPath
        /\ Accounted(s, v).signatureBytes = s.signatureBytes
    BY <1>2 DEF Accounted, State
  <2>3. EarnedOn(f, Accounted(s, v))
    BY <2>2 DEF InHand, EarnedOn
  <2>4. QED
    BY <2>1, <2>2, <2>3 DEF InHand, Settled
<1>3. QED
  BY <1>1, <1>2
----------------------------------------------------------------------------
LEMMA EarnedIsEarnedOn ==
  ASSUME NEW s
  PROVE  Earned(s) <=> EarnedOn(stream, s)
  BY DEF Earned, EarnedOn, VP!Linked, LinkedOn

LEMMA EarnedInit == Init => IInv
<1> SUFFICES ASSUME Init PROVE IInv
  OBVIOUS
<1>1. TypeInv
  BY TypeInit
<1>2. Settled(stream, FreshState) /\ EarnedOn(stream, FreshState)
  BY FreshIsSettled
<1>3. FetchedOn(stream, fetched)
  BY DEF Init, NothingFetched, FetchedOn
<1>4. QED
  BY <1>1, <1>2, <1>3 DEF Init, IInv

LEMMA DiscardedIsEarned ==
  ASSUME NEW f, Discard
  PROVE  /\ verified' = 0 /\ Settled(f, file') /\ EarnedOn(f, mem') /\ FetchedOn(f, fetched')
  BY FreshIsSettled DEF Discard, NothingFetched, FetchedOn

LEMMA EarnedNext == IInv /\ [Next]_vars => IInv'
<1> SUFFICES ASSUME IInv, [Next]_vars PROVE IInv'
  OBVIOUS
<1>a. TypeInv /\ TypeOK /\ TypeInv'
  BY TypeNext DEF IInv, TypeInv
<1> DEFINE Searching == {"probe", "expand", "bisect", "window", "fetch", "check", "save"}
<1>1. ASSUME NEW local \in LocalModes, NEW init \in InitBlocks, NEW max \in MaxBlocks,
             NEW waited \in BOOLEAN, Checkout(local, init, max, waited)
      PROVE  IInv'
  <2>1. file' \notin Torn => Settled(stream, file')
    BY <1>1, <1>a, CheckedOut DEF IInv
  <2>2. waiting' \in {waiting, None}
    BY <1>1, <1>a, CheckedOut
  <2>3. QED
    BY <1>1, <1>a, <2>1, <2>2 DEF IInv, Checkout, bucket, run
<1>2. CASE Load
  <2> USE <1>2 DEF Load
  <2>1. CASE file \in Torn \/ FirstBlock(file, args.init) = None
    BY <2>1, <1>a DEF IInv, Exit, outside, bucket, run
  <2>2. CASE ~ (file \in Torn \/ FirstBlock(file, args.init) = None)
    <3>1. file \in State /\ Settled(stream, file) /\ from' = FirstBlock(file, args.init)
      BY <2>2, <1>a DEF IInv, TypeOK
    <3>2. from' \in Nat
      BY <1>a DEF TypeInv, TypeOK
    <3>3. file.initialized => file.lastBlock # None /\ from' = file.lastBlock + 1
      BY <2>2, <3>1 DEF FirstBlock
    <3>4. InHand(stream, file, 0, from')
      BY <3>1, <3>2, <3>3, LoadTakesInHand
    <3>5. verified' = 0
      BY <2>2 DEF IInv
    <3>6. EarnedOn(stream, file)
      BY <3>1 DEF Settled
    <3>7. QED
      BY <2>2, <1>a, <3>1, <3>4, <3>5, <3>6 DEF IInv, outside, bucket
  <2>3. QED
    BY <2>1, <2>2
<1>3. CASE NewestLocal
  BY <1>3, <1>a DEF IInv, NewestLocal, Exit, outside, bucket, run
<1>4. CASE ProbeFloor
  BY <1>4, <1>a DEF IInv, ProbeFloor, Exit, outside, bucket, run
<1>5. CASE ProbeExpand
  BY <1>5, <1>a DEF IInv, ProbeExpand, outside, bucket, probe
<1>6. CASE ProbeBisect
  BY <1>6, <1>a DEF IInv, ProbeBisect, outside, bucket, probe
<1>7. CASE Window
  <2> USE <1>7 DEF Window
  <2>1. CASE lo < from
    BY <2>1, <1>a DEF IInv, Exit, outside, bucket
  <2>2. CASE ~ (lo < from)
    <3>1. FetchedOn(stream, fetched')
      BY <2>2 DEF FetchedOn, NothingFetched
    <3>2. InHand(stream, mem, 0, from)
      BY DEF IInv
    <3>3. QED
      BY <2>2, <1>a, <3>1, <3>2 DEF IInv, outside, bucket
  <2>3. QED
    BY <2>1, <2>2
<1>8. ASSUME NEW n \in Batch, Fetch(n)
      PROVE  IInv'
  <2>1. FetchedOn(stream, fetched')
    BY <1>8, <1>a DEF Fetch, Fetched, IInv, FetchedOn, TypeOK
  <2>2. QED
    BY <1>8, <1>a, <2>1 DEF IInv, Fetch, outside, bucket, job, probe
<1>9. CASE Join
  BY <1>9, <1>a DEF IInv, Join, outside, bucket, run
<1>10. CASE CheckNext
  <2> DEFINE n == from + verified
             o == fetched[n]
  <2> USE <1>10 DEF CheckNext
  <2>1. InHand(stream, mem, verified, from)
    BY DEF IInv
  <2>2. CASE o = Absent \/ ~ Passes(n, o, mem)
    <3>1. FetchedOn(stream, fetched')
      BY <2>2 DEF FetchedOn, NothingFetched
    <3>2. QED
      BY <2>1, <2>2, <1>a, <3>1 DEF IInv, outside, bucket, probe
  <2>3. CASE ~ (o = Absent \/ ~ Passes(n, o, mem))
    <3>1. n \in DOMAIN fetched
      BY <1>a DEF TypeInv, BatchHoldsNext
    <3>2. n \in Blocks /\ o = stream[n]
      BY <2>3, <3>1 DEF IInv, FetchedOn
    <3>3. InHand(stream, AdvancedThrough(mem, n, stream[n]), verified + 1, from)
      BY <2>1, <2>3, <3>2, <1>a, CheckExtends DEF TypeOK
    <3>4. InHand(stream, mem', verified', from)
      BY <2>3, <3>2, <3>3
    <3>5. FetchedOn(stream, fetched')
      BY <2>3 DEF IInv, FetchedOn, NothingFetched
    <3>6. EarnedOn(stream, mem')
      BY <3>4 DEF InHand
    <3>7. pc' \in {"check", "save", "fetch"}
      BY <2>3
    <3>8. QED
      BY <1>a, <3>4, <3>5, <3>6, <3>7 DEF IInv, outside, bucket
  <2>4. QED
    BY <2>2, <2>3
<1>11. CASE Save
  <2>1. Settled(stream, Accounted(mem, verified)) /\ EarnedOn(stream, Accounted(mem, verified))
    BY <1>11, <1>a, AccountSettles DEF IInv, Save, TypeOK
  <2>2. QED
    BY <1>11, <1>a, <2>1 DEF IInv, Save, Torn, outside, bucket, probe
<1>12. CASE Write
  BY <1>12, <1>a DEF IInv, Write, Exit, outside, bucket, run
<1>13. CASE Commit
  <2>1. committed' \notin Torn => Settled(stream, committed')
    BY <1>13 DEF Commit, IInv, head
  <2>2. waiting' \in {waiting, Overtaken}
    BY <1>13 DEF Commit, head
  <2>3. waiting' # None /\ waiting'.file \notin Torn => Settled(stream, waiting'.file)
    BY <1>a, <2>2, OvertakenKeepsFile DEF IInv
  <2>4. QED
    BY <1>13, <1>a, <2>1, <2>3, DiscardedIsEarned DEF IInv, Commit, Discard, bucket
<1>14. CASE ProbeFails
  BY <1>14, <1>a DEF IInv, ProbeFails, Exit, bucket, head, run
<1>15. ASSUME NEW n \in Batch, FetchFails(n)
       PROVE  IInv'
  <2>1. FetchedOn(stream, fetched')
    BY <1>15, <1>a DEF FetchFails, IInv, FetchedOn, TypeOK
  <2>2. QED
    BY <1>15, <1>a, <2>1 DEF IInv, FetchFails, bucket, head, job, probe
<1>16. CASE SaveFails
  BY <1>16, <1>a DEF IInv, SaveFails, Exit, bucket, head, run
<1>17. CASE Crash
  BY <1>17, <1>a DEF IInv, Crash, Exit, bucket, head, run
<1>18. CASE JobLost
  BY <1>18, <1>a, DiscardedIsEarned DEF IInv, JobLost, Discard, bucket, head
<1>19. CASE OtherPush
  BY <1>19, <1>a, OvertakenKeepsFile DEF IInv, OtherPush, bucket, job, run
<1>20. CASE HandEdit
  <2>1. PICK s \in HandEdits(committed) : committed' = Trusted(s)
    BY <1>20 DEF HandEdit
  <2>2. s \in State
    BY <1>a, <2>1, HandEditsAreStates DEF TypeOK
  <2>3. Settled(stream, committed')
    BY <2>1, <2>2, EditIsSettled
  <2>4. QED
    BY <1>20, <1>a, <2>3, OvertakenKeepsFile DEF IInv, HandEdit, bucket, job, run
<1>21. ASSUME NEW n \in Blocks, Publish(n)
       PROVE  IInv'
  BY <1>21, <1>a DEF IInv, Publish, head, job, run
<1>22. CASE Expire
  BY <1>22, <1>a DEF IInv, Expire, head, job, run
<1>23. CASE UNCHANGED vars
  BY <1>23, <1>a DEF IInv, vars
<1>24. CASE Dispatch
  BY <1>24, <1>a DEF IInv, Dispatch, AtHead, bucket, job, run
<1>25. ASSUME NEW configured \in Secrets, Gate(configured)
       PROVE  IInv'
  <2>1. CASE configured
    BY <1>25, <1>a, <2>1 DEF IInv, Gate, bucket, head, run
  <2>2. CASE ~ configured
    BY <1>25, <1>a, <2>2, DiscardedIsEarned DEF IInv, Gate, Discard, bucket, head
  <2>3. QED
    BY <2>1, <2>2
<1>26. QED
  BY <1>1, <1>2, <1>3, <1>4, <1>5, <1>6, <1>7, <1>8, <1>9, <1>10, <1>11, <1>12, <1>13,
     <1>14, <1>15, <1>16, <1>17, <1>18, <1>19, <1>20, <1>21, <1>22, <1>23,
     <1>24, <1>25
  DEF Next, Start, JobStep, RunStep, Failure

LEMMA EarnedInvariant == Spec => []IInv
  BY EarnedInit, EarnedNext, PTL DEF Spec

(* No run, batch, crash, lost job or rejected push makes any copy of the   *)
(* state claim a block that was not there, not acceptable or not linked to *)
(* its predecessor.                                                        *)
THEOREM EarnedForever == Spec => []StateIsEarned
<1>1. IInv => StateIsEarned
  BY EarnedIsEarnedOn DEF IInv, StateIsEarned, Settled
<1>2. QED
  BY EarnedInvariant, <1>1, PTL

(* Every block of the chain is counted once.                               *)
THEOREM TotalForever == Spec => []TotalIsExact
<1>1. IInv => TotalIsExact
  BY DEF IInv, TotalIsExact, Settled
<1>2. QED
  BY EarnedInvariant, <1>1, PTL
----------------------------------------------------------------------------
(* Refinement. While the head has not moved since the checkout, what the   *)
(* run holds descends from the committed state: it is that state, or a     *)
(* linked walk along the stream from where that state stands.              *)

(* s is c moved along f from block k to block m.                           *)
Walked(f, c, s, k, m) ==
  /\ k \in Blocks /\ m \in Blocks /\ k <= m
  /\ c.initialized => c.lastBlock # None /\ k = c.lastBlock + 1
  /\ LinkedOn(f, k, m, c.lastRoot)
  /\ c.proofPath \in {None, f[m].path} /\ c.signatureBytes \in {None, f[m].bytes}
  /\ s.lastBlock = m /\ s.lastRoot = f[m].root
  /\ s.proofPath = f[m].path /\ s.signatureBytes = f[m].bytes

Descends(f, c, s) ==
  /\ c \notin Torn
  /\ s # c => s.initialized /\ \E k, m \in Blocks : Walked(f, c, s, k, m)

OnTheWay(f, c, s, v, first) ==
  /\ c \notin Torn
  /\ c.initialized => c.lastBlock # None /\ first = c.lastBlock + 1
  /\ v = 0 => s = c
  /\ v > 0 => Walked(f, c, s, first, first + v - 1)

RInv ==
  /\ waiting # None /\ ~ waiting.behind => waiting.file = committed
  /\ ~ stale =>
    /\ pc \in {"gate", "load", "probe", "expand", "bisect", "window", "fetch", "check", "save"}
         => file = committed
    /\ pc \in {"probe", "expand", "bisect", "window", "fetch", "check", "save"}
         => OnTheWay(stream, committed, mem, verified, from)
    /\ pc = "write" => Descends(stream, committed, mem)
    /\ pc = "commit" /\ file \notin Torn /\ file # committed
         => Descends(stream, committed, file)

LEMMA WalkExtends ==
  ASSUME NEW f \in [Blocks -> Object \cup {Absent}], NEW c \in State, NEW s \in State,
         NEW v \in Nat, NEW first \in Nat, OnTheWay(f, c, s, v, first),
         first + v \in Blocks, f[first + v] # Absent,
         Passes(first + v, f[first + v], s)
  PROVE  OnTheWay(f, c, AdvancedThrough(s, first + v, f[first + v]), v + 1, first)
<1> DEFINE n == first + v
           o == f[n]
           t == AdvancedThrough(s, n, o)
<1>1. n \in Nat /\ o \in Object /\ Blocks = 0 .. Top /\ Top \in Nat
  BY BoundsAreNatural DEF Blocks
<1>2. /\ t.lastBlock = n /\ t.lastRoot = o.root /\ t.proofPath = o.path
      /\ t.signatureBytes = o.bytes
  BY DEF AdvancedThrough, State
<1>3. VP!Acceptable(n, o, o.path, o.bytes)
  BY DEF Passes, VP!Acceptable, VP!Tss, Tss
<1>4. LinkedOn(f, first, n, c.lastRoot)
      /\ c.proofPath \in {None, o.path} /\ c.signatureBytes \in {None, o.bytes}
  <2>1. CASE v = 0
    <3>1. n = first /\ s = c
      BY <2>1 DEF OnTheWay
    <3>2. QED
      BY <1>1, <1>3, <3>1 DEF LinkedOn, Passes
  <2>2. CASE v > 0
    <3> DEFINE m == first + v - 1
    <3>1. Walked(f, c, s, first, m) /\ n = m + 1
      BY <2>2 DEF OnTheWay
    <3>2. f[m] \in Object /\ m \in Nat
      BY <1>1, <3>1 DEF Walked, LinkedOn
    <3>3. f[m].path = o.path /\ f[m].bytes = o.bytes /\ o.prev = f[m].root
      BY <3>1, <3>2, NamesAreDistinct DEF Walked, Passes, Object
    <3>4. ASSUME NEW i \in first .. n
          PROVE  /\ f[i] # Absent
                 /\ VP!Acceptable(i, f[i], o.path, o.bytes)
                 /\ IF i = first THEN c.lastRoot \in {None, f[i].prev}
                                  ELSE f[i].prev = f[i-1].root
      <4>1. CASE i = n
        <5>1. i # first /\ i - 1 = m
          BY <1>1, <2>2, <3>1, <4>1
        <5>2. QED
          BY <1>3, <3>3, <4>1, <5>1
      <4>2. CASE i # n
        <5>1. i \in first .. m
          BY <1>1, <4>2
        <5>2. QED
          BY <3>1, <3>3, <5>1 DEF LinkedOn, Walked
      <4>3. QED
        BY <4>1, <4>2
    <3>5. LinkedOn(f, first, n, c.lastRoot)
      BY <3>4 DEF LinkedOn
    <3>6. QED
      BY <3>1, <3>3, <3>5 DEF Walked
  <2>3. QED
    BY <2>1, <2>2
<1>5. Walked(f, c, t, first, n)
  <2>1. first \in Blocks /\ first <= n
    BY <1>1
  <2>2. QED
    BY <1>2, <1>4, <2>1 DEF Walked, OnTheWay
<1>6. first + (v + 1) - 1 = n /\ v + 1 > 0
  OBVIOUS
<1>7. QED
  BY <1>5, <1>6 DEF OnTheWay

LEMMA SaveDescends ==
  ASSUME NEW f, NEW c \in State, NEW s \in State, NEW v \in Nat, NEW first \in Nat,
         OnTheWay(f, c, s, v, first)
  PROVE  Descends(f, c, Accounted(s, v))
<1>1. CASE v = 0
  BY <1>1 DEF OnTheWay, Descends, Accounted
<1>2. CASE v # 0
  <2> DEFINE m == first + v - 1
  <2>1. Walked(f, c, s, first, m)
    BY <1>2 DEF OnTheWay
  <2>2. /\ Accounted(s, v).initialized = TRUE
        /\ Accounted(s, v).lastBlock = s.lastBlock
        /\ Accounted(s, v).lastRoot = s.lastRoot /\ Accounted(s, v).proofPath = s.proofPath
        /\ Accounted(s, v).signatureBytes = s.signatureBytes
    BY <1>2 DEF Accounted, State
  <2>3. Walked(f, c, Accounted(s, v), first, m)
    BY <2>1, <2>2 DEF Walked
  <2>4. QED
    BY <2>2, <2>3 DEF Descends, Walked, OnTheWay
<1>3. QED
  BY <1>1, <1>2

LEMMA DescentInit == Init => RInv
  BY DEF Init, RInv

LEMMA DescentNext == IInv /\ RInv /\ [Next]_vars => RInv'
<1> SUFFICES ASSUME IInv, RInv, [Next]_vars PROVE RInv'
  OBVIOUS
<1>a. TypeInv /\ TypeOK
  BY DEF IInv, TypeInv
<1>1. ASSUME NEW local \in LocalModes, NEW init \in InitBlocks, NEW max \in MaxBlocks,
             NEW waited \in BOOLEAN, Checkout(local, init, max, waited)
      PROVE  RInv'
  <2>1. waiting' \in {waiting, None} /\ (~ stale' => file' = committed)
    BY <1>1, <1>a, CheckedOut DEF RInv
  <2>2. pc' = "gate" /\ committed' = committed
    BY <1>1 DEF Checkout
  <2>3. QED
    BY <2>1, <2>2 DEF RInv
<1>2. CASE Load
  <2> USE <1>2 DEF Load
  <2>1. CASE file \in Torn \/ FirstBlock(file, args.init) = None
    BY <2>1 DEF RInv, Exit, outside, bucket, run
  <2>2. CASE ~ (file \in Torn \/ FirstBlock(file, args.init) = None)
    <3>1. file.initialized => file.lastBlock # None /\ from' = file.lastBlock + 1
      BY <2>2 DEF FirstBlock
    <3>2. verified = 0 /\ verified' = verified /\ mem' = file
      BY <2>2 DEF IInv
    <3>3. OnTheWay(stream, file, mem', verified', from')
      BY <2>2, <3>1, <3>2 DEF OnTheWay
    <3>4. QED
      BY <2>2, <3>3 DEF RInv, outside, bucket
  <2>3. QED
    BY <2>1, <2>2
<1>3. CASE NewestLocal
  BY <1>3 DEF RInv, NewestLocal, Exit, outside, bucket, run
<1>4. CASE ProbeFloor
  BY <1>4 DEF RInv, ProbeFloor, Exit, outside, bucket, run
<1>5. CASE ProbeExpand
  BY <1>5 DEF RInv, ProbeExpand, outside, bucket, probe
<1>6. CASE ProbeBisect
  BY <1>6 DEF RInv, ProbeBisect, outside, bucket, probe
<1>7. CASE Window
  <2>1. verified = 0
    BY <1>7 DEF IInv, Window
  <2>2. QED
    BY <1>7, <2>1 DEF RInv, Window, Exit, outside, bucket
<1>8. ASSUME NEW n \in Batch, Fetch(n)
      PROVE  RInv'
  BY <1>8 DEF RInv, Fetch, outside, bucket, job, probe
<1>9. CASE Join
  BY <1>9 DEF RInv, Join, outside, bucket, run
<1>10. CASE CheckNext
  <2> DEFINE n == from + verified
             o == fetched[n]
  <2> USE <1>10 DEF CheckNext
  <2>1. CASE o = Absent \/ ~ Passes(n, o, mem)
    BY <2>1 DEF RInv, outside, bucket, probe
  <2>2. CASE ~ (o = Absent \/ ~ Passes(n, o, mem))
    <3>1. n \in DOMAIN fetched
      BY <1>a DEF TypeInv, BatchHoldsNext
    <3>2. n \in Blocks /\ o = stream[n]
      BY <2>2, <3>1 DEF IInv, FetchedOn
    <3>3. ASSUME ~ stale
          PROVE  OnTheWay(stream, committed, AdvancedThrough(mem, n, stream[n]), verified + 1, from)
      <4>1. OnTheWay(stream, committed, mem, verified, from)
        BY <3>3 DEF RInv
      <4>2. committed \in State
        BY <1>a, <4>1 DEF TypeOK, OnTheWay
      <4>3. QED
        BY <2>2, <3>2, <4>1, <4>2, <1>a, WalkExtends DEF TypeOK
    <3>4. ~ stale => OnTheWay(stream, committed, mem', verified', from)
      BY <2>2, <3>2, <3>3
    <3>5. pc' \in {"check", "save", "fetch"}
      BY <2>2
    <3>6. QED
      BY <3>4, <3>5 DEF RInv, outside, bucket, probe
  <2>3. QED
    BY <2>1, <2>2
<1>11. CASE Save
  <2>1. ASSUME ~ stale
        PROVE  Descends(stream, committed, Accounted(mem, verified))
    <3>1. OnTheWay(stream, committed, mem, verified, from)
      BY <1>11, <2>1 DEF RInv, Save
    <3>2. committed \in State
      BY <1>a, <3>1 DEF TypeOK, OnTheWay
    <3>3. QED
      BY <3>1, <3>2, <1>a, SaveDescends DEF TypeOK
  <2>2. QED
    BY <1>11, <2>1 DEF RInv, Save, outside, bucket
<1>12. CASE Write
  BY <1>12 DEF RInv, Write, Exit, outside, bucket, run
<1>13. CASE Commit
  <2>1. pc' = "idle"
    BY <1>13 DEF Commit, Discard
  <2>2. waiting' # None /\ ~ waiting'.behind => waiting'.file = committed'
    BY <1>13, <1>a, OvertakenKeepsFile DEF RInv, Commit, head
  <2>3. QED
    BY <2>1, <2>2 DEF RInv
<1>14. CASE ProbeFails
  BY <1>14 DEF RInv, ProbeFails, Exit, bucket, head, run
<1>15. ASSUME NEW n \in Batch, FetchFails(n)
       PROVE  RInv'
  BY <1>15 DEF RInv, FetchFails, bucket, head, job, probe
<1>16. CASE SaveFails
  BY <1>16 DEF RInv, SaveFails, Exit, bucket, head, run
<1>17. CASE Crash
  BY <1>17 DEF RInv, Crash, Running, Exit, bucket, head, run
<1>18. CASE JobLost
  BY <1>18 DEF RInv, JobLost, Discard, head
<1>19. CASE OtherPush
  <2>1. waiting' = Overtaken /\ stale' = (pc # "idle") /\ pc' = pc
    BY <1>19 DEF OtherPush, job
  <2>2. QED
    BY <1>a, <2>1, OvertakenKeepsFile DEF RInv
<1>20. CASE HandEdit
  <2>1. waiting' = Overtaken /\ stale' = (pc # "idle") /\ pc' = pc
    BY <1>20 DEF HandEdit, job
  <2>2. QED
    BY <1>a, <2>1, OvertakenKeepsFile DEF RInv
<1>21. ASSUME NEW n \in Blocks, Publish(n)
       PROVE  RInv'
  BY <1>21 DEF RInv, Publish, head, job, run
<1>22. CASE Expire
  BY <1>22 DEF RInv, Expire, head, job, run
<1>23. CASE UNCHANGED vars
  BY <1>23 DEF RInv, vars
<1>24. CASE Dispatch
  BY <1>24 DEF RInv, Dispatch, AtHead, bucket, job, run
<1>25. ASSUME NEW configured \in Secrets, Gate(configured)
       PROVE  RInv'
  BY <1>25 DEF RInv, Gate, Discard, bucket, head, run
<1>26. QED
  BY <1>1, <1>2, <1>3, <1>4, <1>5, <1>6, <1>7, <1>8, <1>9, <1>10, <1>11, <1>12, <1>13,
     <1>14, <1>15, <1>16, <1>17, <1>18, <1>19, <1>20, <1>21, <1>22, <1>23,
     <1>24, <1>25
  DEF Next, Start, JobStep, RunStep, Failure

(* A pushed state that descends from the head moves the abstract tip.       *)
LEMMA PushAdvances ==
  ASSUME stream \in [Blocks -> Object \cup {Absent}], stream' = stream, edits' = edits,
         committed \in State, committed' \in State, committed' # committed,
         Torn \cap State = {}, Descends(stream, committed, committed')
  PROVE  VP!Advance
<1>1. PICK k \in Blocks, m \in Blocks : Walked(stream, committed, committed', k, m)
  BY DEF Descends
<1>2. /\ TipOf(committed) =
           [anchored |-> committed.initialized, last |-> committed.lastBlock,
            root |-> committed.lastRoot, path |-> committed.proofPath,
            bytes |-> committed.signatureBytes]
      /\ TipOf(committed)' =
           [anchored |-> committed'.initialized, last |-> committed'.lastBlock,
            root |-> committed'.lastRoot, path |-> committed'.proofPath,
            bytes |-> committed'.signatureBytes]
  BY DEF TipOf
<1>3. TipOf(committed) # None
  <2>1. TipOf(committed) \in Tip
    BY <1>2 DEF Tip, State
  <2>2. QED
    BY <2>1, TornIsNoState
<1>4. TipOf(committed)' = [anchored |-> TRUE, last |-> m, root |-> stream[m].root,
                           path |-> stream[m].path, bytes |-> stream[m].bytes]
  BY <1>1, <1>2 DEF Walked, Descends, State
<1>5. VP!Linked(k, m, committed.lastRoot)
  BY <1>1 DEF Walked, LinkedOn, VP!Linked
<1>6. /\ k <= m
      /\ committed.initialized => committed.lastBlock # None /\ k = committed.lastBlock + 1
      /\ committed.proofPath \in {None, stream[m].path}
      /\ committed.signatureBytes \in {None, stream[m].bytes}
  BY <1>1 DEF Walked
<1>7. /\ TipOf(committed).anchored = committed.initialized
      /\ TipOf(committed).last = committed.lastBlock
      /\ TipOf(committed).root = committed.lastRoot
      /\ TipOf(committed).path = committed.proofPath
      /\ TipOf(committed).bytes = committed.signatureBytes
  BY <1>2
<1>8. k \in VP!Blocks /\ m \in VP!Blocks
  BY DEF VP!Blocks, Blocks
<1>9. QED
  BY <1>3, <1>4, <1>5, <1>6, <1>7, <1>8 DEF VP!Advance

LEMMA StepRefines == IInv /\ RInv /\ [Next]_vars => [VP!Next]_<<stream, TipOf(committed), edits>>
<1> SUFFICES ASSUME IInv, RInv, [Next]_vars
             PROVE  [VP!Next]_<<stream, TipOf(committed), edits>>
  OBVIOUS
<1>a. TypeOK /\ TypeOK'
  BY TypeNext DEF IInv, TypeInv
<1>1. CASE Commit
  <2>1. stream' = stream /\ edits' = edits
    BY <1>1 DEF Commit, bucket, head
  <2>2. CASE committed' = committed
    BY <2>1, <2>2 DEF TipOf
  <2>3. CASE committed' # committed /\ file \in Torn
    <3>1. committed' \in Torn
      BY <1>1, <2>3 DEF Commit, head
    <3>2. TipOf(committed)' = None
      BY <3>1 DEF TipOf, Torn
    <3>3. QED
      BY <2>1, <3>2 DEF VP!Next, VP!Lose
  <2>4. CASE committed' # committed /\ file \notin Torn
    <3>1. committed' = file /\ Descends(stream, committed, file)
      BY <1>1, <2>4 DEF Commit, PushAccepted, RInv, head
    <3>2. committed \in State /\ committed' \in State
      BY <1>a, <2>4, <3>1 DEF TypeOK, Descends
    <3>3. VP!Advance
      BY <1>a, <2>1, <2>4, <3>1, <3>2, TornIsNoState, PushAdvances DEF TypeOK
    <3>4. QED
      BY <3>3 DEF VP!Next
  <2>5. QED
    BY <2>2, <2>3, <2>4
<1>2. CASE HandEdit
  BY <1>2 DEF HandEdit, bucket, VP!Next, VP!Intervene
<1>3. CASE ~ Commit /\ ~ HandEdit
  <2>1. UNCHANGED <<stream, committed, edits>>
    BY <1>3
    DEF Next, Start, Checkout, Dispatch, JobStep, Gate, RunStep, Load, NewestLocal,
        ProbeFloor, ProbeExpand, ProbeBisect,
        Window, Fetch, Join, CheckNext, Save, Write, Failure, ProbeFails, FetchFails, SaveFails,
        Crash, JobLost, OtherPush, Publish, Expire, vars, outside, bucket, head
  <2>2. QED
    BY <2>1 DEF TipOf
<1>4. QED
  BY <1>1, <1>2, <1>3

(* The committed state is carried over the stream only along unbroken runs *)
(* of acceptable, linked blocks, is lost only to a torn save, and is moved *)
(* otherwise only by hand.                                                 *)
THEOREM Implementation == Spec => ImplementsVerifiedPrefix
<1>1. Init => VP!Init
  <2> SUFFICES ASSUME Init PROVE VP!Init
    OBVIOUS
  <2>1. FreshState \notin Torn
    BY FreshStateIsState, TornIsNoState
  <2>2. committed = FreshState /\ edits = 0
    BY DEF Init
  <2>3. TipOf(committed) =
          [anchored |-> FALSE, last |-> None, root |-> None, path |-> None, bytes |-> None]
    BY <2>1, <2>2 DEF TipOf, FreshState
  <2>4. QED
    BY <2>2, <2>3 DEF VP!Init
<1>2. Spec => [](IInv /\ RInv)
  BY EarnedInit, EarnedNext, DescentInit, DescentNext, PTL DEF Spec
<1>3. QED
  BY <1>1, <1>2, StepRefines, PTL DEF Spec, VP!Spec, ImplementsVerifiedPrefix
----------------------------------------------------------------------------
(* LoudFailureKeepsWork speaks of the job's last step; what makes it true  *)
(* is where the run has got to in every step before it: the state in hand  *)
(* ends at the last verified block, and a run is on its way to the file    *)
(* with a success only from the end of its window.                         *)
Loud == {"verified", "gap", "alarm"}

WorkInv ==
  /\ pc \in {"fetch", "check", "save", "write"} /\ verified > 0
       => mem.lastBlock = from + verified - 1
  /\ pc \in {"save", "write"}
       => result \in Loud /\ (result = "verified" => from + verified = to + 1)
  /\ pc = "write" /\ verified > 0 => mem.initialized
  /\ LoudFailureKeepsWork

LEMMA WorkKept ==
  ASSUME WorkInv, UNCHANGED <<pc, result, file, mem, from, to, verified>>
  PROVE  WorkInv'
  BY DEF WorkInv, LoudFailureKeepsWork

(* A run that ends without a save, or has yet to begin, owes nothing.      *)
LEMMA NoWorkOwed ==
  ASSUME \/ pc' \in {"idle", "gate", "load", "probe", "expand", "bisect", "window"}
         \/ pc' = "commit" /\ result' \in {"error", "died", "caughtUp"}
  PROVE  WorkInv'
  BY DEF WorkInv, LoudFailureKeepsWork, Loud

LEMMA WorkInit == Init => WorkInv
  BY DEF Init, WorkInv, LoudFailureKeepsWork

LEMMA WorkNext == TypeInv /\ WorkInv /\ [Next]_vars => WorkInv'
<1> SUFFICES ASSUME TypeInv, WorkInv, [Next]_vars PROVE WorkInv'
  OBVIOUS
<1>a. TypeOK
  BY DEF TypeInv
<1>n. from \in Nat /\ to \in Nat /\ verified \in Nat /\ lo \in Nat /\ mem \in State
  BY <1>a DEF TypeOK
<1>1. ASSUME NEW local \in LocalModes, NEW init \in InitBlocks, NEW max \in MaxBlocks,
             NEW waited \in BOOLEAN, Checkout(local, init, max, waited)
      PROVE  WorkInv'
  BY <1>1, NoWorkOwed DEF Checkout
<1>2. CASE Load
  BY <1>2, NoWorkOwed DEF Load, Exit
<1>3. CASE NewestLocal
  BY <1>3, NoWorkOwed DEF NewestLocal, Exit
<1>4. CASE ProbeFloor
  BY <1>4, NoWorkOwed DEF ProbeFloor, Exit
<1>5. CASE ProbeExpand
  BY <1>5, NoWorkOwed DEF ProbeExpand
<1>6. CASE ProbeBisect
  BY <1>6, NoWorkOwed DEF ProbeBisect
<1>7. CASE Window
  <2>1. CASE lo < from
    BY <1>7, <2>1, NoWorkOwed DEF Window, Exit
  <2>2. CASE ~ (lo < from)
    <3>1. verified' = 0 /\ from' = from /\ to' = WindowEnd(from, lo, args.max)
      BY <1>7, <2>2 DEF Window
    <3>2. args.max \in Nat
      BY <1>a DEF TypeOK
    <3>3. to' < from => to' + 1 = from
      BY <2>2, <3>1, <3>2, <1>n, BoundsAreNatural DEF WindowEnd
    <3>4. CASE to' < from
      <4>1. pc' = "save" /\ result' = "verified"
        BY <1>7, <2>2, <3>4 DEF Window
      <4>2. QED
        BY <3>1, <3>3, <3>4, <4>1, <1>n DEF WorkInv, LoudFailureKeepsWork, Loud
    <3>5. CASE ~ (to' < from)
      <4>1. pc' = "fetch"
        BY <1>7, <2>2, <3>5 DEF Window
      <4>2. QED
        BY <3>1, <4>1 DEF WorkInv, LoudFailureKeepsWork
    <3>6. QED
      BY <3>4, <3>5
  <2>3. QED
    BY <2>1, <2>2
<1>8. ASSUME NEW n \in Batch, Fetch(n)
      PROVE  WorkInv'
  BY <1>8, WorkKept DEF Fetch, job
<1>9. CASE Join
  BY <1>9 DEF Join, run, WorkInv, LoudFailureKeepsWork
<1>10. CASE CheckNext
  <2> DEFINE n == from + verified
             o == fetched[n]
  <2>p. pc = "check" /\ UNCHANGED <<from, to>>
    BY <1>10 DEF CheckNext
  <2>1. CASE o = Absent \/ ~ Passes(n, o, mem)
    <3>1. pc' = "save" /\ result' \in {"gap", "alarm"} /\ UNCHANGED <<mem, verified>>
      BY <1>10, <2>1 DEF CheckNext
    <3>2. QED
      BY <2>p, <3>1 DEF WorkInv, LoudFailureKeepsWork, Loud
  <2>2. CASE ~ (o = Absent \/ ~ Passes(n, o, mem))
    <3>1. mem' = AdvancedThrough(mem, n, o) /\ verified' = verified + 1
      BY <1>10, <2>2 DEF CheckNext
    <3>2. mem'.lastBlock = n /\ n = from' + verified' - 1
      <4>1. mem'.lastBlock = n
        BY <3>1, <1>n DEF AdvancedThrough, State
      <4>2. n = from' + verified' - 1
        BY <2>p, <3>1, <1>n
      <4>3. QED
        BY <4>1, <4>2
    <3>3. CASE n < BatchEnd
      <4>1. pc' = "check"
        BY <1>10, <2>2, <3>3, <2>p DEF CheckNext
      <4>2. QED
        BY <3>2, <4>1 DEF WorkInv, LoudFailureKeepsWork
    <3>4. CASE ~ (n < BatchEnd)
      <4>1. CASE n = to
        <5>1. pc' = "save" /\ result' = "verified"
          BY <1>10, <2>2, <3>4, <4>1 DEF CheckNext
        <5>2. from' + verified' = to' + 1
          BY <2>p, <3>1, <4>1, <1>n
        <5>3. QED
          BY <3>2, <5>1, <5>2 DEF WorkInv, LoudFailureKeepsWork, Loud
      <4>2. CASE n # to
        <5>1. pc' = "fetch"
          BY <1>10, <2>2, <3>4, <4>2 DEF CheckNext
        <5>2. QED
          BY <3>2, <5>1 DEF WorkInv, LoudFailureKeepsWork
      <4>3. QED
        BY <4>1, <4>2
    <3>5. QED
      BY <3>3, <3>4
  <2>3. QED
    BY <2>1, <2>2
<1>11. CASE Save
  <2>1. /\ pc = "save" /\ pc' = "write" /\ mem' = Accounted(mem, verified)
        /\ UNCHANGED <<result, from, to, verified>>
    BY <1>11 DEF Save
  <2>2. verified > 0 => mem'.initialized /\ mem'.lastBlock = mem.lastBlock
    BY <2>1, <1>n DEF Accounted, State
  <2>3. QED
    BY <2>1, <2>2 DEF WorkInv, LoudFailureKeepsWork
<1>12. CASE Write
  <2>1. /\ pc = "write" /\ pc' = "commit" /\ file' = mem
        /\ UNCHANGED <<result, mem, from, to, verified>>
    BY <1>12 DEF Write, Exit, run
  <2>2. mem \notin Torn
    BY <1>n, TornIsNoState
  <2>3. file' \notin Torn
    BY <2>1, <2>2 DEF Torn
  <2>4. QED
    BY <2>1, <2>3 DEF WorkInv, LoudFailureKeepsWork, Loud
<1>13. CASE Commit
  BY <1>13, NoWorkOwed DEF Commit, Discard
<1>14. CASE ProbeFails
  BY <1>14, NoWorkOwed DEF ProbeFails, Exit
<1>15. ASSUME NEW n \in Batch, FetchFails(n)
       PROVE  WorkInv'
  BY <1>15, WorkKept DEF FetchFails, job
<1>16. CASE SaveFails
  BY <1>16, NoWorkOwed DEF SaveFails, Exit
<1>17. CASE Crash
  BY <1>17, NoWorkOwed DEF Crash, Exit
<1>18. CASE JobLost
  BY <1>18, NoWorkOwed DEF JobLost, Discard
<1>19. CASE OtherPush
  BY <1>19, WorkKept DEF OtherPush, job, run
<1>20. CASE HandEdit
  BY <1>20, WorkKept DEF HandEdit, job, run
<1>21. ASSUME NEW n \in Blocks, Publish(n)
       PROVE  WorkInv'
  BY <1>21, WorkKept DEF Publish, job, run
<1>22. CASE Expire
  BY <1>22, WorkKept DEF Expire, job, run
<1>23. CASE UNCHANGED vars
  BY <1>23, WorkKept DEF vars
<1>24. CASE Dispatch
  BY <1>24, WorkKept DEF Dispatch, job, run
<1>25. ASSUME NEW configured \in Secrets, Gate(configured)
       PROVE  WorkInv'
  BY <1>25, NoWorkOwed DEF Gate, Discard
<1>26. QED
  BY <1>1, <1>2, <1>3, <1>4, <1>5, <1>6, <1>7, <1>8, <1>9, <1>10, <1>11, <1>12, <1>13,
     <1>14, <1>15, <1>16, <1>17, <1>18, <1>19, <1>20, <1>21, <1>22, <1>23,
     <1>24, <1>25
  DEF Next, Start, JobStep, RunStep, Failure

(* Whatever stops a run after its first verified block, short of a crash   *)
(* or a write that fails, the file it leaves ends at that block (sentinel's *)
(* save after the checks); and a run that reports success reached the end  *)
(* of its window.                                                          *)
THEOREM LoudFailureForever == Spec => []LoudFailureKeepsWork
<1>1. WorkInv => LoudFailureKeepsWork
  BY DEF WorkInv
<1>2. QED
  BY TypeInit, TypeNext, WorkInit, WorkNext, <1>1, PTL DEF Spec
----------------------------------------------------------------------------
(* NoFalseAlarm speaks of the job's last step; the alarm is raised at the  *)
(* check, where IInv says what the state in hand rests on, and what it     *)
(* said there survives the save and the write.                             *)
ContinuesOn(f, s, b) ==
  /\ b \in Blocks /\ f[b] # Absent
  /\ LinkedOn(f, IF s.anchor = None THEN b ELSE s.anchor, b, s.seam)
  /\ s.proofPath \in {None, f[b].path}
  /\ s.signatureBytes \in {None, f[b].bytes}

(* Block b of the stream f is rightly refused by a run that holds s.       *)
Refused(f, s, b) == b \in Blocks /\ f[b] # Absent /\ ~ ContinuesOn(f, s, b)

AlarmInv ==
  pc \in {"save", "write", "commit"} /\ result = "alarm"
    => Refused(stream, mem, from + verified)

(* A block that continues the state in hand passes every check.            *)
LEMMA ContinuationPasses ==
  ASSUME NEW f \in [Blocks -> Object \cup {Absent}], NEW s \in State,
         NEW v \in Nat, NEW first \in Nat, InHand(f, s, v, first),
         ContinuesOn(f, s, first + v)
  PROVE  Passes(first + v, f[first + v], s)
<1> DEFINE n == first + v
           o == f[n]
           k == IF s.anchor = None THEN n ELSE s.anchor
<1>1. n \in Nat /\ n \in Blocks /\ o # Absent /\ o \in Object /\ LinkedOn(f, k, n, s.seam)
  BY DEF ContinuesOn
<1>2. k \in Nat /\ k <= n
  <2>1. CASE s.anchor = None
    BY <1>1, <2>1
  <2>2. CASE s.anchor # None
    <3>1. s.lastBlock \in Nat /\ s.anchor \in 0 .. s.lastBlock /\ n = s.lastBlock + 1
      BY <2>2, BoundsAreNatural DEF InHand, EarnedOn, Blocks
    <3>2. QED
      BY <2>2, <3>1
  <2>3. QED
    BY <2>1, <2>2
<1>3. n \in k .. n
  BY <1>1, <1>2
<1>4. /\ VP!Acceptable(n, o, o.path, o.bytes)
      /\ IF n = k THEN s.seam \in {None, o.prev} ELSE o.prev = f[n-1].root
  BY <1>1, <1>3 DEF LinkedOn
<1>5. s.lastRoot \in {None, o.prev}
  <2>1. CASE s.anchor = None
    BY <1>4, <2>1 DEF InHand, Untouched
  <2>2. CASE s.anchor # None
    <3>1. /\ s.lastBlock \in Nat /\ s.anchor \in 0 .. s.lastBlock /\ n = s.lastBlock + 1
          /\ s.lastRoot = f[s.lastBlock].root
      BY <2>2, BoundsAreNatural DEF InHand, EarnedOn, Blocks
    <3>2. n # k /\ n - 1 = s.lastBlock
      BY <2>2, <3>1
    <3>3. QED
      BY <1>4, <3>1, <3>2
  <2>3. QED
    BY <2>1, <2>2
<1>6. s.proofPath \in {None, o.path} /\ s.signatureBytes \in {None, o.bytes}
  BY DEF ContinuesOn
<1>7. QED
  BY <1>4, <1>5, <1>6 DEF Passes, VP!Acceptable, VP!Tss, Tss

(* Saving counts the blocks verified; it moves nothing an alarm rests on.  *)
LEMMA RefusedIsSaved ==
  ASSUME NEW f, NEW s \in State, NEW v, NEW b, Refused(f, s, b)
  PROVE  Refused(f, Accounted(s, v), b)
<1>1. /\ Accounted(s, v).anchor = s.anchor /\ Accounted(s, v).seam = s.seam
      /\ Accounted(s, v).proofPath = s.proofPath
      /\ Accounted(s, v).signatureBytes = s.signatureBytes
  BY DEF Accounted, State
<1>2. QED
  BY <1>1 DEF Refused, ContinuesOn

LEMMA AlarmKept ==
  ASSUME AlarmInv, UNCHANGED <<stream, pc, result, mem, from, verified>>
  PROVE  AlarmInv'
  BY DEF AlarmInv

LEMMA NoAlarm ==
  ASSUME pc' \notin {"save", "write", "commit"} \/ result' # "alarm"
  PROVE  AlarmInv'
  BY DEF AlarmInv

LEMMA AlarmInit == Init => AlarmInv
  BY DEF Init, AlarmInv

LEMMA AlarmNext == IInv /\ AlarmInv /\ [Next]_vars => AlarmInv'
<1> SUFFICES ASSUME IInv, AlarmInv, [Next]_vars PROVE AlarmInv'
  OBVIOUS
<1>a. TypeInv /\ TypeOK
  BY DEF IInv, TypeInv
<1>1. ASSUME NEW local \in LocalModes, NEW init \in InitBlocks, NEW max \in MaxBlocks,
             NEW waited \in BOOLEAN, Checkout(local, init, max, waited)
      PROVE  AlarmInv'
  BY <1>1, NoAlarm DEF Checkout
<1>2. CASE Load
  BY <1>2, NoAlarm DEF Load, Exit
<1>3. CASE NewestLocal
  BY <1>3, NoAlarm DEF NewestLocal, Exit
<1>4. CASE ProbeFloor
  BY <1>4, NoAlarm DEF ProbeFloor, Exit
<1>5. CASE ProbeExpand
  BY <1>5, NoAlarm DEF ProbeExpand
<1>6. CASE ProbeBisect
  BY <1>6, NoAlarm DEF ProbeBisect
<1>7. CASE Window
  <2>1. pc' = "fetch" \/ result' \in {"caughtUp", "verified"}
    BY <1>7 DEF Window, Exit
  <2>2. QED
    BY <2>1, NoAlarm
<1>8. ASSUME NEW n \in Batch, Fetch(n)
      PROVE  AlarmInv'
  BY <1>8, NoAlarm DEF Fetch, job
<1>9. CASE Join
  BY <1>9, NoAlarm DEF Join
<1>10. CASE CheckNext
  <2> DEFINE n == from + verified
             o == fetched[n]
  <2>1. CASE o = Absent \/ Passes(n, o, mem)
    <3>1. pc' \in {"check", "fetch"} \/ result' \in {"gap", "verified"}
      BY <1>10, <2>1 DEF CheckNext
    <3>2. QED
      BY <3>1, NoAlarm
  <2>2. CASE ~ (o = Absent \/ Passes(n, o, mem))
    <3>1. UNCHANGED <<stream, mem, from, verified>>
      BY <1>10, <2>2 DEF CheckNext, outside
    <3>2. n \in DOMAIN fetched
      BY <1>10, <1>a DEF CheckNext, TypeInv, BatchHoldsNext
    <3>3. n \in Blocks /\ o = stream[n]
      BY <2>2, <3>2 DEF IInv, FetchedOn
    <3>4. InHand(stream, mem, verified, from)
      BY <1>10 DEF IInv, CheckNext
    <3>5. ~ ContinuesOn(stream, mem, n)
      BY <2>2, <3>3, <3>4, <1>a, ContinuationPasses DEF TypeOK
    <3>6. Refused(stream, mem, n)
      BY <2>2, <3>3, <3>5 DEF Refused
    <3>7. QED
      BY <3>1, <3>6 DEF AlarmInv
  <2>3. QED
    BY <2>1, <2>2
<1>11. CASE Save
  <2>1. /\ pc = "save" /\ mem' = Accounted(mem, verified)
        /\ UNCHANGED <<stream, result, from, verified>>
    BY <1>11 DEF Save, outside
  <2>2. CASE result = "alarm"
    <3>1. Refused(stream, mem', from + verified)
      BY <1>a, <2>1, <2>2, RefusedIsSaved DEF AlarmInv, TypeOK
    <3>2. QED
      BY <2>1, <3>1 DEF AlarmInv
  <2>3. CASE result # "alarm"
    BY <2>1, <2>3, NoAlarm
  <2>4. QED
    BY <2>2, <2>3
<1>12. CASE Write
  BY <1>12 DEF AlarmInv, Write, Exit, outside, run
<1>13. CASE Commit
  BY <1>13, NoAlarm DEF Commit, Discard
<1>14. CASE ProbeFails
  BY <1>14, NoAlarm DEF ProbeFails, Exit
<1>15. ASSUME NEW n \in Batch, FetchFails(n)
       PROVE  AlarmInv'
  BY <1>15, NoAlarm DEF FetchFails, job
<1>16. CASE SaveFails
  BY <1>16, NoAlarm DEF SaveFails, Exit
<1>17. CASE Crash
  BY <1>17, NoAlarm DEF Crash, Exit
<1>18. CASE JobLost
  BY <1>18, NoAlarm DEF JobLost, Discard
<1>19. CASE OtherPush
  BY <1>19, AlarmKept DEF OtherPush, bucket, job, run
<1>20. CASE HandEdit
  BY <1>20, AlarmKept DEF HandEdit, bucket, job, run
<1>21. ASSUME NEW n \in Blocks, Publish(n)
       PROVE  AlarmInv'
  BY <1>21, AlarmKept DEF Publish, job, run
<1>22. CASE Expire
  BY <1>22, AlarmKept DEF Expire, job, run
<1>23. CASE UNCHANGED vars
  BY <1>23, AlarmKept DEF vars
<1>24. CASE Dispatch
  BY <1>24, AlarmKept DEF Dispatch, bucket, job, run
<1>25. ASSUME NEW configured \in Secrets, Gate(configured)
       PROVE  AlarmInv'
  BY <1>25, NoAlarm DEF Gate, Discard
<1>26. QED
  BY <1>1, <1>2, <1>3, <1>4, <1>5, <1>6, <1>7, <1>8, <1>9, <1>10, <1>11, <1>12, <1>13,
     <1>14, <1>15, <1>16, <1>17, <1>18, <1>19, <1>20, <1>21, <1>22, <1>23,
     <1>24, <1>25
  DEF Next, Start, JobStep, RunStep, Failure

(* Whenever check_block's refusal is announced, the block announced is in  *)
(* the stream and does not continue the state the run holds.               *)
THEOREM NoFalseAlarmForever == Spec => []NoFalseAlarm
<1>1. AlarmInv => NoFalseAlarm
  BY DEF AlarmInv, NoFalseAlarm, Refused, ContinuesOn, Continues, VP!Linked, LinkedOn
<1>2. QED
  BY EarnedInvariant, AlarmInit, AlarmNext, <1>1, PTL DEF Spec
----------------------------------------------------------------------------
(* What the search relies on. Retention only takes the oldest, so a number *)
(* that was in the bucket when the run began is there or below `oldest`;   *)
(* hence, as long as the floor is in reach, a probe that finds nothing     *)
(* bounds every number that was in one piece with the floor.               *)
Floor    == SearchFloor(mem, args.init)
InReach(b) == Floor .. b \subseteq seen /\ oldest <= Floor
Searching == {"probe", "expand", "bisect", "window"}

SearchInv ==
  /\ \A b \in live : oldest <= b
  /\ pc \in Searching =>
       /\ Floor \in Nat
       /\ \A b \in seen : oldest <= b => b \in live
  /\ pc = "probe" => lo = Floor
  /\ pc \in {"expand", "bisect"} => Floor <= lo /\ ~ args.local
  /\ pc = "bisect" => \A b \in seen : InReach(b) => b < hi
  /\ NewestCoversPrefix
  /\ pc = "window" /\ args.local => \A b \in seen : b <= lo
  /\ pc \in {"save", "write"} => result \in Loud
  /\ LocalCaughtUpIsCaughtUp

LEMMA SearchInit == Init => SearchInv
  BY BoundsAreNatural
  DEF Init, SearchInv, Searching, NewestCoversPrefix, LocalCaughtUpIsCaughtUp,
      CaughtUpMeansNothingNewer

(* Past the search only the outcome counts.                                *)
LEMMA SearchOver ==
  ASSUME \A b \in live' : oldest' <= b,
         pc' \notin Searching,
         pc' \in {"save", "write"} => result' \in Loud,
         pc' = "commit" => result' # "caughtUp"
  PROVE  SearchInv'
  BY DEF SearchInv, Searching, NewestCoversPrefix, LocalCaughtUpIsCaughtUp,
         CaughtUpMeansNothingNewer

LEMMA SearchKept ==
  ASSUME SearchInv,
         UNCHANGED <<live, oldest, pc, result, args, mem, seen, lo, hi, from>>
  PROVE  SearchInv'
  BY DEF SearchInv, Searching, InReach, Floor, NewestCoversPrefix,
         LocalCaughtUpIsCaughtUp, CaughtUpMeansNothingNewer

(* A number that is not there now bounds what was in reach.                *)
LEMMA MissingBounds ==
  ASSUME TypeOK, SearchInv, pc \in Searching, NEW h \in Nat, h \notin live, Floor <= h,
         NEW b \in seen, InReach(b)
  PROVE  b < h
<1>1. b \in Nat /\ oldest \in Nat /\ Floor \in Nat
  BY BoundsAreNatural DEF TypeOK, Blocks, SearchInv
<1>2. CASE h <= b
  <2>1. h \in Floor .. b
    BY <1>1, <1>2
  <2>2. h \in seen /\ oldest <= h
    BY <1>1, <2>1 DEF InReach
  <2>3. h \in live
    BY <2>2 DEF SearchInv
  <2>4. QED
    BY <2>3
<1>3. QED
  BY <1>1, <1>2

(* Publication and retention move the bucket under a search without        *)
(* disturbing what it relies on.                                           *)
LEMMA SearchBucket ==
  ASSUME TypeOK, SearchInv,
         UNCHANGED <<pc, result, args, mem, seen, lo, hi, from>>,
         oldest \in Nat, oldest' \in Nat, oldest <= oldest',
         \A b \in live' : oldest' <= b,
         \A b \in live : oldest' <= b => b \in live'
  PROVE  SearchInv'
<1>1. Floor' = Floor
  BY DEF Floor
<1>2. ASSUME pc \in Searching
      PROVE  \A b \in seen' : oldest' <= b => b \in live'
  <2> SUFFICES ASSUME NEW b \in seen, oldest' <= b PROVE b \in live'
    OBVIOUS
  <2>1. b \in Nat
    BY BoundsAreNatural DEF TypeOK, Blocks
  <2>2. oldest <= b
    BY <2>1
  <2>3. b \in live
    BY <1>2, <2>2 DEF SearchInv
  <2>4. QED
    BY <2>3
<1>3. pc \in Searching => \A b \in seen : InReach(b)' => InReach(b)
  BY <1>1 DEF InReach, SearchInv
<1>4. pc = "bisect" => \A b \in seen' : InReach(b)' => b < hi'
  BY <1>3 DEF SearchInv, Searching
<1>5. NewestCoversPrefix'
  <2> SUFFICES ASSUME pc = "window", NEW b \in seen,
                      (Floor .. b)' \subseteq seen, oldest' <= Floor'
               PROVE  b <= lo
    BY DEF NewestCoversPrefix, Floor
  <2>1. InReach(b)
    BY <1>1, <1>3 DEF InReach, SearchInv, Searching
  <2>2. QED
    BY <2>1 DEF SearchInv, NewestCoversPrefix, InReach, Floor
<1>6. LocalCaughtUpIsCaughtUp'
  BY DEF SearchInv, LocalCaughtUpIsCaughtUp, CaughtUpMeansNothingNewer
<1>7. (pc \in Searching)' =>
        /\ (Floor \in Nat)'
        /\ \A b \in seen' : oldest' <= b => b \in live'
  BY <1>1, <1>2 DEF SearchInv, Searching
<1>8. /\ (pc = "probe" => lo = Floor)'
      /\ (pc \in {"expand", "bisect"} => Floor <= lo /\ ~ args.local)'
      /\ (pc = "window" /\ args.local => \A b \in seen : b <= lo)'
      /\ (pc \in {"save", "write"} => result \in Loud)'
  BY <1>1 DEF SearchInv
<1>9. QED
  BY <1>4, <1>5, <1>6, <1>7, <1>8 DEF SearchInv

LEMMA SearchNext == TypeInv /\ SearchInv /\ [Next]_vars => SearchInv'
<1> SUFFICES ASSUME TypeInv, SearchInv, [Next]_vars PROVE SearchInv'
  OBVIOUS
<1>a. TypeOK /\ BracketIsOrdered
  BY DEF TypeInv
<1>b. Blocks \subseteq Nat
  BY BoundsAreNatural DEF Blocks
<1>n. /\ from \in Nat /\ lo \in Nat /\ hi \in Nat /\ step \in Nat /\ oldest \in Nat
      /\ live \subseteq Nat /\ seen \subseteq Nat
  BY <1>a, <1>b DEF TypeOK
<1>l. \A b \in live : oldest <= b
  BY DEF SearchInv
<1>1. ASSUME NEW local \in LocalModes, NEW init \in InitBlocks, NEW max \in MaxBlocks,
             NEW waited \in BOOLEAN, Checkout(local, init, max, waited)
      PROVE  SearchInv'
  BY <1>1, <1>l, SearchOver DEF Checkout, bucket, Searching
<1>2. CASE Load
  <2>1. CASE file \in Torn \/ FirstBlock(file, args.init) = None
    BY <1>2, <2>1, <1>l, SearchOver DEF Load, Exit, outside, Searching
  <2>2. CASE ~ (file \in Torn \/ FirstBlock(file, args.init) = None)
    <3>1. /\ pc' = "probe" /\ mem' = file /\ seen' = live
          /\ lo' = SearchFloor(file, args.init)
          /\ UNCHANGED <<args, live, oldest>>
      BY <1>2, <2>2 DEF Load, outside, bucket
    <3>2. file \in State /\ args \in [local : BOOLEAN, init : Nat \cup {None}, max : Nat]
      BY <2>2, <1>a DEF TypeOK
    <3>3. SearchFloor(file, args.init) \in Nat
      BY <2>2, <3>2 DEF FirstBlock, SearchFloor, State
    <3>4. Floor' = SearchFloor(file, args.init)
      BY <3>1 DEF Floor
    <3>5. QED
      BY <3>1, <3>3, <3>4, <1>l
      DEF SearchInv, Searching, NewestCoversPrefix, LocalCaughtUpIsCaughtUp,
          CaughtUpMeansNothingNewer
  <2>3. QED
    BY <2>1, <2>2
<1>3. CASE NewestLocal
  <2>1. CASE live = {}
    BY <1>3, <2>1, <1>l, SearchOver DEF NewestLocal, Exit, outside, Searching
  <2>2. CASE live # {}
    <3>1. PICK n \in live : HighestName(n) /\ lo' = n
      BY <1>3, <2>2 DEF NewestLocal
    <3>2. /\ pc = "probe" /\ pc' = "window"
          /\ UNCHANGED <<args, mem, seen, live, oldest>>
      BY <1>3, <2>2 DEF NewestLocal, outside, bucket
    <3>3. \A b \in seen : oldest <= b => b \in live
      BY <3>2 DEF SearchInv, Searching
    <3>4. \A b \in seen : b <= lo'
      BY <3>1, <3>3, <1>l, <1>n DEF HighestName
    <3>5. Floor' = Floor /\ Floor \in Nat
      BY <3>2 DEF Floor, SearchInv, Searching
    <3>6. QED
      BY <3>2, <3>3, <3>4, <3>5, <1>l
      DEF SearchInv, Searching, NewestCoversPrefix, LocalCaughtUpIsCaughtUp,
          CaughtUpMeansNothingNewer
  <2>3. QED
    BY <2>1, <2>2
<1>4. CASE ProbeFloor
  <2>1. CASE lo \notin live
    BY <1>4, <2>1, <1>l, SearchOver DEF ProbeFloor, Exit, outside, Searching
  <2>2. CASE lo \in live
    <3>1. /\ pc = "probe" /\ pc' = "expand" /\ ~ args.local
          /\ UNCHANGED <<args, mem, seen, live, oldest, lo>>
      BY <1>4, <2>2 DEF ProbeFloor, outside, bucket
    <3>2. Floor' = Floor
      BY <3>1 DEF Floor
    <3>3. QED
      BY <3>1, <3>2, <1>n
      DEF SearchInv, Searching, NewestCoversPrefix, LocalCaughtUpIsCaughtUp,
          CaughtUpMeansNothingNewer
  <2>3. QED
    BY <2>1, <2>2
<1>5. CASE ProbeExpand
  <2>1. /\ pc = "expand" /\ ~ args.local /\ Floor <= lo /\ Floor \in Nat /\ lo < hi
        /\ UNCHANGED <<args, mem, seen, live, oldest>>
    BY <1>5, <1>a DEF ProbeExpand, SearchInv, Searching, BracketIsOrdered, outside, bucket
  <2>2. Floor' = Floor
    BY <2>1 DEF Floor
  <2>3. CASE hi \in live
    <3>1. pc' = "expand" /\ lo' = hi
      BY <1>5, <2>1, <2>3 DEF ProbeExpand
    <3>2. Floor <= lo'
      BY <2>1, <3>1, <1>n
    <3>3. QED
      BY <2>1, <2>2, <3>1, <3>2
      DEF SearchInv, Searching, NewestCoversPrefix, LocalCaughtUpIsCaughtUp,
          CaughtUpMeansNothingNewer
  <2>4. CASE hi \notin live
    <3>1. pc' = "bisect" /\ lo' = lo /\ hi' = hi
      BY <1>5, <2>4 DEF ProbeExpand, probe
    <3>2. Floor <= hi
      BY <2>1, <1>n
    <3>3. \A b \in seen : InReach(b) => b < hi
      BY <2>1, <2>4, <3>2, <1>a, <1>n, MissingBounds DEF Searching
    <3>4. \A b \in seen' : InReach(b)' => b < hi'
      BY <2>1, <2>2, <3>1, <3>3 DEF InReach
    <3>5. QED
      BY <2>1, <2>2, <3>1, <3>4
      DEF SearchInv, Searching, NewestCoversPrefix, LocalCaughtUpIsCaughtUp,
          CaughtUpMeansNothingNewer
  <2>5. QED
    BY <2>3, <2>4
<1>6. CASE ProbeBisect
  <2>1. /\ pc = "bisect" /\ ~ args.local /\ Floor <= lo /\ Floor \in Nat /\ lo < hi
        /\ UNCHANGED <<args, mem, seen, live, oldest>>
    BY <1>6, <1>a DEF ProbeBisect, SearchInv, Searching, BracketIsOrdered, outside, bucket
  <2>2. Floor' = Floor
    BY <2>1 DEF Floor
  <2>3. \A b \in seen : InReach(b) => b < hi
    BY <2>1 DEF SearchInv
  <2>4. CASE BracketClosed
    <3>1. pc' = "window" /\ lo' = lo /\ hi <= lo + 1
      BY <1>6, <2>4, <1>n DEF ProbeBisect, BracketClosed, probe
    <3>2. \A b \in seen : InReach(b) => b <= lo
      BY <2>3, <3>1, <1>n
    <3>3. NewestCoversPrefix'
      BY <2>1, <3>1, <3>2 DEF NewestCoversPrefix, InReach, Floor
    <3>4. QED
      BY <2>1, <2>2, <3>1, <3>3
      DEF SearchInv, Searching, LocalCaughtUpIsCaughtUp, CaughtUpMeansNothingNewer
  <2>5. CASE ~ BracketClosed
    <3>1. Midpoint \in Nat /\ lo < Midpoint /\ Midpoint < hi
      BY <2>1, <2>5, <1>n DEF BracketClosed, Midpoint
    <3>2. lo' = Narrowed[1] /\ hi' = Narrowed[2] /\ pc' = "bisect"
      BY <1>6, <2>1, <2>5 DEF ProbeBisect
    <3>3. CASE Midpoint \in live
      <4>1. lo' = Midpoint /\ hi' = hi
        BY <3>2, <3>3 DEF Narrowed
      <4>2. Floor' <= lo'
        BY <2>1, <2>2, <3>1, <4>1, <1>n
      <4>3. \A b \in seen' : InReach(b)' => b < hi'
        BY <2>1, <2>2, <2>3, <4>1 DEF InReach
      <4>4. QED
        BY <2>1, <2>2, <3>2, <4>2, <4>3
        DEF SearchInv, Searching, NewestCoversPrefix, LocalCaughtUpIsCaughtUp,
            CaughtUpMeansNothingNewer
    <3>4. CASE Midpoint \notin live
      <4>1. lo' = lo /\ hi' = Midpoint
        BY <3>2, <3>4 DEF Narrowed
      <4>2. Floor <= Midpoint
        BY <2>1, <3>1, <1>n
      <4>3. \A b \in seen : InReach(b) => b < Midpoint
        BY <2>1, <3>1, <3>4, <4>2, <1>a, MissingBounds DEF Searching
      <4>4. \A b \in seen' : InReach(b)' => b < hi'
        BY <2>1, <2>2, <4>1, <4>3 DEF InReach
      <4>5. QED
        BY <2>1, <2>2, <3>2, <4>1, <4>4
        DEF SearchInv, Searching, NewestCoversPrefix, LocalCaughtUpIsCaughtUp,
            CaughtUpMeansNothingNewer
    <3>5. QED
      BY <3>3, <3>4
  <2>6. QED
    BY <2>4, <2>5
<1>7. CASE Window
  <2>1. CASE lo < from
    <3>1. /\ pc = "window" /\ pc' = "commit" /\ result' = "caughtUp"
          /\ UNCHANGED <<seen, from, args, live, oldest>>
      BY <1>7, <2>1 DEF Window, Exit, outside, bucket
    <3>2. LocalCaughtUpIsCaughtUp'
      BY <2>1, <3>1, <1>n DEF SearchInv, LocalCaughtUpIsCaughtUp, CaughtUpMeansNothingNewer
    <3>3. QED
      BY <3>1, <3>2, <1>l DEF SearchInv, Searching, NewestCoversPrefix
  <2>2. CASE ~ (lo < from)
    <3>1. /\ \/ pc' = "save" /\ result' = "verified"
             \/ pc' = "fetch"
          /\ UNCHANGED <<live, oldest>>
      BY <1>7, <2>2 DEF Window, outside, bucket
    <3>2. QED
      BY <3>1, <1>l, SearchOver DEF Searching, Loud
  <2>3. QED
    BY <2>1, <2>2
<1>8. ASSUME NEW n \in Batch, Fetch(n)
      PROVE  SearchInv'
  BY <1>8, SearchKept DEF Fetch, job, outside, bucket, probe
<1>9. CASE Join
  BY <1>9, <1>l, SearchOver DEF Join, outside, bucket, Searching
<1>10. CASE CheckNext
  <2>1. /\ \/ pc' = "save" /\ result' \in Loud
           \/ pc' \in {"check", "fetch"}
        /\ UNCHANGED <<live, oldest>>
    BY <1>10 DEF CheckNext, outside, bucket, Loud
  <2>2. QED
    BY <2>1, <1>l, SearchOver DEF Searching
<1>11. CASE Save
  <2>1. pc = "save" /\ pc' = "write" /\ UNCHANGED <<result, live, oldest>>
    BY <1>11 DEF Save, outside, bucket
  <2>2. result' \in Loud
    BY <2>1 DEF SearchInv
  <2>3. QED
    BY <2>1, <2>2, <1>l, SearchOver DEF Searching
<1>12. CASE Write
  <2>1. pc = "write" /\ pc' = "commit" /\ UNCHANGED <<result, live, oldest>>
    BY <1>12 DEF Write, Exit, outside, bucket
  <2>2. result' # "caughtUp"
    BY <2>1 DEF SearchInv, Loud
  <2>3. QED
    BY <2>1, <2>2, <1>l, SearchOver DEF Searching
<1>13. CASE Commit
  BY <1>13, <1>l, SearchOver DEF Commit, Discard, bucket, Searching
<1>14. CASE ProbeFails
  BY <1>14, <1>l, SearchOver DEF ProbeFails, Exit, bucket, Searching
<1>15. ASSUME NEW n \in Batch, FetchFails(n)
       PROVE  SearchInv'
  BY <1>15, SearchKept DEF FetchFails, job, bucket, probe
<1>16. CASE SaveFails
  BY <1>16, <1>l, SearchOver DEF SaveFails, Exit, bucket, Searching
<1>17. CASE Crash
  BY <1>17, <1>l, SearchOver DEF Crash, Exit, bucket, Searching
<1>18. CASE JobLost
  BY <1>18, <1>l, SearchOver DEF JobLost, Discard, bucket, Searching
<1>19. CASE OtherPush
  BY <1>19, SearchKept DEF OtherPush, job, run, bucket
<1>20. CASE HandEdit
  BY <1>20, SearchKept DEF HandEdit, job, run, bucket
<1>21. ASSUME NEW n \in Blocks, Publish(n)
       PROVE  SearchInv'
  BY <1>21, <1>a, <1>n, <1>l, SearchBucket DEF Publish, job, run
<1>22. CASE Expire
  <2>1. /\ oldest' = oldest + 1 /\ live' = live \ {oldest}
        /\ UNCHANGED <<pc, result, args, mem, seen, lo, hi, from>>
    BY <1>22 DEF Expire, job, run
  <2>2. \A b \in live' : oldest' <= b
    BY <2>1, <1>n, <1>l
  <2>3. \A b \in live : oldest' <= b => b \in live'
    BY <2>1, <1>n
  <2>4. QED
    BY <2>1, <2>2, <2>3, <1>a, <1>n, SearchBucket
<1>23. CASE UNCHANGED vars
  BY <1>23, SearchKept DEF vars
<1>24. CASE Dispatch
  BY <1>24, SearchKept DEF Dispatch, bucket, job, run
<1>25. ASSUME NEW configured \in Secrets, Gate(configured)
       PROVE  SearchInv'
  BY <1>25, <1>l, SearchOver DEF Gate, Discard, bucket, Searching
<1>26. QED
  BY <1>1, <1>2, <1>3, <1>4, <1>5, <1>6, <1>7, <1>8, <1>9, <1>10, <1>11, <1>12, <1>13,
     <1>14, <1>15, <1>16, <1>17, <1>18, <1>19, <1>20, <1>21, <1>22, <1>23,
     <1>24, <1>25
  DEF Next, Start, JobStep, RunStep, Failure

LEMMA SearchInvariant == Spec => []SearchInv
  BY TypeInit, TypeNext, SearchInit, SearchNext, PTL DEF Spec

(* For every stride of the probe and whatever is published meanwhile: what *)
(* was in the bucket in one piece with the floor is at or below the block  *)
(* the probe takes for the newest (Source::newest).                        *)
THEOREM NewestForever == Spec => []NewestCoversPrefix
<1>1. SearchInv => NewestCoversPrefix
  BY DEF SearchInv
<1>2. QED
  BY SearchInvariant, <1>1, PTL

(* Over a directory, holes or not, "caught up" means that nothing newer    *)
(* was there when the run began.                                           *)
THEOREM LocalCaughtUpForever == Spec => []LocalCaughtUpIsCaughtUp
<1>1. SearchInv => LocalCaughtUpIsCaughtUp
  BY DEF SearchInv
<1>2. QED
  BY SearchInvariant, <1>1, PTL
=============================================================================
