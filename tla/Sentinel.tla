------------------------------ MODULE Sentinel ------------------------------
(***************************************************************************)
(* The sentinel: a dispatched job that checks out a state file, looks for  *)
(* blocks newer than the last one it verified, fetches them in parallel    *)
(* batches, checks them in order, saves the advanced state and pushes it   *)
(* back (src/cli/sentinel.rs, .github/workflows/sentinel.yml). Its cron    *)
(* line is commented out: nobody is bound to dispatch it.                  *)
(*                                                                         *)
(* Around it, nondeterministic: the bucket it reads, which other people    *)
(* fill and expire; the runner, which can die; the network; and the human  *)
(* who rewrites the state file by hand after a loud failure.               *)
(***************************************************************************)
EXTENDS Integers, FiniteSets

CONSTANTS
  None,         \* Option::None: a JSON null, a flag that was not given
  Absent,       \* the stream never has an object of this name
  Empty,        \* a state file truncated and not written
  Partial,      \* a state file written in part
  Top,          \* highest block number of the streams considered
  Streams,      \* those streams: functions from 0..Top to objects or Absent
  Root,         \* block roots, as hex strings
  Bytes,        \* signature lengths
  BlockProofs,  \* built with the feature that checks threshold signatures
  ProbeStep,    \* first stride of the expanding probe: 1024 in the code
  FetchBatch,   \* FETCH_BATCH: 32 in the code
  U64Max,       \* u64::MAX, far beyond every block number
  Secrets,      \* whether the bucket's key is configured: a subset of BOOLEAN
  LocalModes,   \* values of "--local-dir is given": a subset of BOOLEAN
  InitBlocks,   \* values of --init-block, None among them when it may be omitted
  MaxBlocks,    \* values of --max-blocks
  Queued,       \* bound: the streams during which a run may wait before it starts
  Skew,         \* bound: how far ahead of a missing block one may be uploaded
  MaxExpired,   \* bound: how many of the oldest objects retention removes
  MaxEdits,     \* bound: hand edits of the state file
  MaxFaults     \* bound: crashes, failed requests, failed writes, lost pushes

Blocks == 0 .. Top

Path == {"unknown", "aggregateSchnorr", "wraps"}

(***************************************************************************)
(* An object of the bucket is what check_block can tell about it: whether  *)
(* its proof material extracts, the number, root and previous-root claim   *)
(* it carries, the proof layout, whether it publishes a ledger id, and     *)
(* whether its threshold signature verifies.                               *)
(***************************************************************************)
Object == [readable : BOOLEAN, number : Nat, root : Root, prev : Root,
           path : Path, bytes : Bytes, bootstrap : BOOLEAN, hints : BOOLEAN]

ASSUME NamesAreDistinct ==
  /\ None \notin Int \cup Root \cup Path \cup Bytes
  /\ Absent \notin Object
  /\ Empty # Partial

ASSUME BoundsAreNatural ==
  /\ Top \in Nat
  /\ U64Max \in Nat /\ U64Max > Top + 1
  /\ ProbeStep \in Nat \ {0}
  /\ FetchBatch \in Nat \ {0}
  /\ Skew \in Nat /\ MaxExpired \in 0 .. Top /\ MaxEdits \in Nat /\ MaxFaults \in Nat

ASSUME FlagsAreLegal ==
  /\ Secrets \subseteq BOOLEAN
  /\ LocalModes \subseteq BOOLEAN
  /\ InitBlocks \subseteq Nat \cup {None}
  /\ MaxBlocks \subseteq Nat
  /\ BlockProofs \in BOOLEAN

ASSUME StreamsAreStreams ==
  Streams \subseteq [Blocks -> Object \cup {Absent}] /\ Queued \subseteq Streams

VARIABLES
  (* outside *)
  stream,     \* what is ever published under each number
  live,       \* the numbers whose object is in the bucket now
  oldest,     \* retention has passed every number below this one
  committed,  \* the state file at the head of the main branch
  waiting,    \* the checkout of a run that is yet to start, or None
  stale,      \* the head has moved since the running job checked it out
  edits,      \* hand edits so far
  faults,     \* faults so far
  (* the job *)
  pc,         \* where the job is
  result,     \* how its run of the sentinel ended, kept until the next one
  args,       \* the flags of the run
  file,       \* the state file in the job's working tree
  dirty,      \* it was rewritten since the checkout: git diff is not quiet
  (* the run *)
  mem,        \* the State in memory
  seen,       \* (history) the bucket's numbers when the run began
  lo, hi, step,    \* Source::newest: the probe's bracket and stride
  from, to,        \* the window
  start,           \* first block of the batch in flight
  fetched,         \* block of the batch -> its object, Absent for an error
  verified         \* blocks verified by this run

bucket  == <<stream, live, oldest>>
head    == <<committed, waiting>>
outside == <<stream, live, oldest, committed, waiting, stale, edits, faults>>
job     == <<pc, result, args, file, dirty>>
probe   == <<lo, hi, step>>
run     == <<mem, seen, lo, hi, step, from, to, start, fetched, verified>>
vars    == <<stream, live, oldest, committed, waiting, stale, edits, faults, pc, result, args,
             file, dirty, mem, seen, lo, hi, step, from, to, start, fetched, verified>>

(***************************************************************************)
(* The State struct. _comment, since and checked are left out: no decision *)
(* reads them (checked makes every save a change, see dirty). The last     *)
(* three fields are not in the file; they record what the last human edit  *)
(* left behind, and no action reads them:                                  *)
(*   anchor  the first block verified since that edit, None before it      *)
(*   seam    the lastRoot the edit left                                    *)
(*   base    the verifiedTotal the edit left                               *)
(***************************************************************************)
State == [initialized : BOOLEAN,
          lastBlock : Nat \cup {None}, lastRoot : Root \cup {None},
          proofPath : Path \cup {None}, signatureBytes : Bytes \cup {None},
          verifiedTotal : Nat \cup {None},
          anchor : Nat \cup {None}, seam : Root \cup {None}, base : Nat]

Torn == {Empty, Partial}

(* What a run checks out: the head when it was dispatched, and whether the *)
(* head has moved since.                                                   *)
Checked == [file : State \cup Torn, behind : BOOLEAN]

(* What of a state the abstract specification sees.                        *)
Tip == [anchored : BOOLEAN, last : Nat \cup {None}, root : Root \cup {None},
        path : Path \cup {None}, bytes : Bytes \cup {None}]

ASSUME TornIsNoState == Torn \cap State = {} /\ None \notin Tip

FreshState ==
  [initialized |-> FALSE, lastBlock |-> None, lastRoot |-> None,
   proofPath |-> None, signatureBytes |-> None, verifiedTotal |-> None,
   anchor |-> None, seam |-> None, base |-> 0]

OrZero(n) == IF n = None THEN 0 ELSE n
----------------------------------------------------------------------------
(* check_block                                                             *)

Tss(o) == o.path # "unknown"

(* Broken variant for mutation testing: the chain is not checked.          *)
PassesUnlinked(n, o, s) ==
  /\ o.readable /\ o.number = n
  /\ s.proofPath \in {None, o.path} /\ s.signatureBytes \in {None, o.bytes}
  /\ ~ o.bootstrap
  /\ Tss(o) => BlockProofs /\ o.hints

(* Broken variant: a ledger-id publication goes by in silence.            *)
PassesPublication(n, o, s) ==
  /\ o.readable /\ o.number = n
  /\ s.lastRoot \in {None, o.prev}
  /\ s.proofPath \in {None, o.path} /\ s.signatureBytes \in {None, o.bytes}
  /\ Tss(o) => BlockProofs /\ o.hints

(* Every check that can end the run; which of them failed only picks the   *)
(* text of the alarm.                                                      *)
Passes(n, o, s) ==
  /\ o.readable
  /\ o.number = n
  /\ s.lastRoot \in {None, o.prev}
  /\ s.proofPath \in {None, o.path}
  /\ s.signatureBytes \in {None, o.bytes}
  /\ ~ o.bootstrap
  /\ Tss(o) => BlockProofs /\ o.hints

(* The fields a block that passed leaves in the state.                     *)
AdvancedThrough(s, n, o) ==
  [s EXCEPT !.lastBlock = n, !.lastRoot = o.root, !.proofPath = o.path,
            !.signatureBytes = o.bytes,
            !.anchor = IF @ = None THEN n ELSE @]

(* Broken variant: the block that failed is counted too.                   *)
AccountedWithFailure(s, v) ==
  [s EXCEPT !.initialized = TRUE, !.verifiedTotal = OrZero(@) + v + 1]

(* Broken variant: `initialized` is left to a step that never comes.       *)
AccountedAtTheEnd(s, v) ==
  [s EXCEPT !.verifiedTotal = OrZero(@) + v]

(* The state as it is saved: counted once per run, and only if it moved.   *)
Accounted(s, v) ==
  IF v = 0 THEN s
  ELSE [s EXCEPT !.initialized = TRUE,
                 !.verifiedTotal = OrZero(@) + v]
----------------------------------------------------------------------------
(* The window                                                              *)

(* Broken variant: the last verified block is verified again.              *)
FirstBlockAgain(s, init) == IF s.initialized THEN s.lastBlock ELSE init

(* None when the state cannot say where to start.                          *)
FirstBlock(s, init) ==
  IF s.initialized
  THEN IF s.lastBlock = None THEN None ELSE s.lastBlock + 1
  ELSE init

SearchFloor(s, init) == IF s.initialized THEN s.lastBlock ELSE init

(* Broken variant: the cap computed in a signed type.                      *)
WindowEndSigned(first, newest, max) ==
  IF newest - first + 1 <= max THEN newest ELSE first + max - 1

(* `from + max_blocks - 1` in u64: a cap of 0 at block 0 wraps around.     *)
WindowEnd(first, newest, max) ==
  IF newest - first + 1 <= max THEN newest
  ELSE IF first + max = 0 THEN U64Max
  ELSE first + max - 1

BatchEnd == IF start + FetchBatch - 1 < to THEN start + FetchBatch - 1 ELSE to
Batch    == start .. BatchEnd

NoFlags == [local |-> FALSE, init |-> None, max |-> 0]
NothingFetched == [b \in {} |-> Absent]

Init ==
  /\ stream \in Streams
  /\ live = {} /\ oldest = 0
  /\ committed = FreshState /\ waiting = None
  /\ stale = FALSE
  /\ edits = 0 /\ faults = 0
  /\ pc = "idle" /\ result = "none"
  /\ args = NoFlags
  /\ file = FreshState /\ dirty = FALSE
  /\ mem = FreshState /\ seen = {}
  /\ lo = 0 /\ hi = 0 /\ step = 0
  /\ from = 0 /\ to = 0 /\ start = 0
  /\ fetched = NothingFetched /\ verified = 0
----------------------------------------------------------------------------
(* The workflow                                                            *)

AtHead == [file |-> committed, behind |-> FALSE]

(* Whoever moves the head leaves a run that waits behind it.               *)
Overtaken == IF waiting = None THEN None ELSE [waiting EXCEPT !.behind = TRUE]

(* A dispatch that does not start at once: the concurrency group is taken, *)
(* or the run will be run again. It is to check out the head of now; the   *)
(* group keeps the latest one that waits.                                  *)
Dispatch ==
  /\ stream \in Queued
  /\ waiting' = AtHead
  /\ UNCHANGED <<bucket, committed, stale, edits, faults, job, run>>

(* A job starts; the concurrency group admits one. It has waited, or was   *)
(* dispatched just now.                                                    *)
Checkout(local, init, max, waited) ==
  /\ pc = "idle"
  /\ waited => waiting # None
  /\ pc' = "gate"
  /\ args' = [local |-> local, init |-> init, max |-> max]
  /\ LET checked == IF waited THEN waiting ELSE AtHead
     IN  file' = checked.file /\ stale' = checked.behind
  /\ waiting' = IF waited THEN None ELSE waiting
  /\ dirty' = FALSE
  /\ UNCHANGED <<bucket, committed, edits, faults, result, run>>

(* The run of the sentinel is over; the job goes on to its last step.       *)
Exit(how) ==
  /\ pc' = "commit"
  /\ result' = how

(* The job is over: its working tree and its process are gone.             *)
Discard ==
  /\ pc' = "idle"
  /\ args' = NoFlags
  /\ file' = FreshState /\ dirty' = FALSE
  /\ mem' = FreshState /\ seen' = {}
  /\ lo' = 0 /\ hi' = 0 /\ step' = 0
  /\ from' = 0 /\ to' = 0 /\ start' = 0
  /\ fetched' = NothingFetched /\ verified' = 0

(* "Check secrets": without the key every later step is skipped, and the   *)
(* run ends green.                                                         *)
Gate(configured) ==
  /\ pc = "gate"
  /\ IF configured
     THEN pc' = "load" /\ UNCHANGED <<stale, args, file, dirty, run>>
     ELSE Discard /\ stale' = FALSE
  /\ UNCHANGED <<bucket, head, edits, faults, result>>

(* Broken variant: git push --force.                                       *)
PushForced   == dirty /\ file # Partial
PushAccepted == dirty /\ file # Partial /\ ~ stale

(* "Commit advanced state", whatever the run's exit code. jq stops the     *)
(* step on a partial file and accepts an empty one; git refuses a push     *)
(* onto a head that is not the one checked out.                            *)
Commit ==
  /\ pc = "commit"
  /\ Discard
  /\ IF PushAccepted THEN committed' = file /\ waiting' = Overtaken ELSE UNCHANGED head
  /\ stale' = FALSE
  /\ UNCHANGED <<bucket, edits, faults, result>>
----------------------------------------------------------------------------
(* One run of the sentinel                                                 *)

Load ==
  /\ pc = "load"
  /\ IF file \in Torn \/ FirstBlock(file, args.init) = None
     THEN /\ Exit("error")
          /\ UNCHANGED run
     ELSE /\ pc' = "probe"
          /\ mem' = file /\ seen' = live
          /\ from' = FirstBlock(file, args.init)
          /\ lo' = SearchFloor(file, args.init)
          /\ UNCHANGED <<result, hi, step, to, start, fetched, verified>>
  /\ UNCHANGED <<outside, args, file, dirty>>

(* Broken variant: the lowest name.                                        *)
LowestName(n)  == \A b \in live : n <= b
HighestName(n) == \A b \in live : b <= n

(* --local-dir: the highest name in the directory.                         *)
NewestLocal ==
  /\ pc = "probe" /\ args.local
  /\ IF live = {}
     THEN Exit("error") /\ UNCHANGED run
     ELSE /\ pc' = "window"
          /\ \E n \in live : HighestName(n) /\ lo' = n
          /\ UNCHANGED <<result, mem, seen, hi, step, from, to, start, fetched, verified>>
  /\ UNCHANGED <<outside, args, file, dirty>>

(* The bucket: the floor must be there.                                    *)
ProbeFloor ==
  /\ pc = "probe" /\ ~ args.local
  /\ IF lo \notin live
     THEN Exit("error") /\ UNCHANGED run
     ELSE /\ pc' = "expand"
          /\ step' = ProbeStep
          /\ hi' = lo + ProbeStep
          /\ UNCHANGED <<result, mem, seen, lo, from, to, start, fetched, verified>>
  /\ UNCHANGED <<outside, args, file, dirty>>

ProbeExpand ==
  /\ pc = "expand"
  /\ IF hi \in live
     THEN /\ lo' = hi
          /\ step' = step * 4
          /\ hi' = hi + step * 4
          /\ UNCHANGED pc
     ELSE /\ pc' = "bisect"
          /\ UNCHANGED probe
  /\ UNCHANGED <<outside, result, args, file, dirty, mem, seen, from, to, start, fetched, verified>>

(* Broken variant: an off-by-one in the search's stop condition.           *)
BracketEmpty  == hi - lo < 1
BracketClosed == hi - lo <= 1

Midpoint == lo + (hi - lo) \div 2

(* Broken variant: the halves swapped.                                     *)
NarrowedDown == IF Midpoint \in live THEN <<lo, Midpoint>> ELSE <<Midpoint, hi>>
Narrowed     == IF Midpoint \in live THEN <<Midpoint, hi>> ELSE <<lo, Midpoint>>

ProbeBisect ==
  /\ pc = "bisect"
  /\ IF BracketClosed
     THEN pc' = "window" /\ UNCHANGED probe
     ELSE lo' = Narrowed[1] /\ hi' = Narrowed[2] /\ UNCHANGED <<pc, step>>
  /\ UNCHANGED <<outside, result, args, file, dirty, mem, seen, from, to, start, fetched, verified>>

(* newest is lo. Nothing newer: done, and nothing is saved. The bracket    *)
(* goes out of scope with the search.                                      *)
Window ==
  /\ pc = "window"
  /\ lo' = 0 /\ hi' = 0 /\ step' = 0
  /\ IF lo < from
     THEN /\ Exit("caughtUp")
          /\ UNCHANGED <<seen, to, start, fetched, verified>>
     ELSE /\ seen' = {}
          /\ to' = WindowEnd(from, lo, args.max)
          /\ start' = from
          /\ fetched' = NothingFetched
          /\ verified' = 0
          /\ IF to' < from THEN pc' = "save" /\ result' = "verified"
                           ELSE pc' = "fetch" /\ UNCHANGED result
  /\ UNCHANGED <<outside, args, file, dirty, mem, from>>

(* One worker's fetch; the batch's workers finish in any order.            *)
Fetched(n) == IF n \in live THEN stream[n] ELSE Absent

Fetch(n) ==
  /\ pc = "fetch"
  /\ n \notin DOMAIN fetched
  /\ fetched' = [b \in DOMAIN fetched \cup {n} |->
                   IF b = n THEN Fetched(n) ELSE fetched[b]]
  /\ UNCHANGED <<outside, job, mem, seen, probe, from, to, start, verified>>

(* Every worker joined.                                                    *)
Join ==
  /\ pc = "fetch"
  /\ Batch = DOMAIN fetched
  /\ pc' = "check"
  /\ UNCHANGED <<outside, result, args, file, dirty, run>>

(* The next block of the batch, in number order. The first failure ends    *)
(* the run's verification; it still saves.                                 *)
CheckNext ==
  /\ pc = "check"
  /\ LET n == from + verified
         o == fetched[n]
     IN  IF o = Absent \/ ~ Passes(n, o, mem)
         THEN /\ pc' = "save"
              /\ result' = IF o = Absent THEN "gap" ELSE "alarm"
              /\ fetched' = NothingFetched
              /\ UNCHANGED <<mem, verified, start>>
         ELSE /\ mem' = AdvancedThrough(mem, n, o)
              /\ verified' = verified + 1
              /\ IF n < BatchEnd
                 THEN UNCHANGED <<pc, result, start, fetched>>
                 ELSE /\ start' = n + 1
                      /\ fetched' = NothingFetched
                      /\ IF n = to THEN pc' = "save" /\ result' = "verified"
                                   ELSE pc' = "fetch" /\ UNCHANGED result
  /\ UNCHANGED <<outside, args, file, dirty, seen, probe, from, to>>

(* State::save opens the file with truncation, then writes it.             *)
Save ==
  /\ pc = "save"
  /\ pc' = "write"
  /\ mem' = Accounted(mem, verified)
  /\ file' = Empty
  /\ dirty' = TRUE
  /\ UNCHANGED <<outside, result, args, seen, probe, from, to, start, fetched, verified>>

Write ==
  /\ pc = "write"
  /\ file' = mem
  /\ Exit(result)
  /\ UNCHANGED <<outside, args, dirty, run>>

----------------------------------------------------------------------------
(* What goes wrong                                                         *)

Fault == faults < MaxFaults /\ faults' = faults + 1

Running == {"load", "probe", "expand", "bisect", "window", "fetch", "check",
            "save", "write"}

(* A probe answered by anything but 200 or 404.                            *)
ProbeFails ==
  /\ Fault
  /\ pc \in {"probe", "expand", "bisect"} /\ ~ args.local
  /\ Exit("error")
  /\ UNCHANGED <<bucket, head, stale, edits, args, file, dirty, run>>

(* A fetch that fails for any reason is reported as a gap.                 *)
FetchFails(n) ==
  /\ Fault
  /\ pc = "fetch"
  /\ n \notin DOMAIN fetched
  /\ fetched' = [b \in DOMAIN fetched \cup {n} |->
                   IF b = n THEN Absent ELSE fetched[b]]
  /\ UNCHANGED <<bucket, head, stale, edits, job, mem, seen, probe, from, to, start, verified>>

(* The save's error replaces the outcome of the run.                       *)
SaveFails ==
  /\ Fault
  /\ \/ pc = "save" /\ UNCHANGED file
     \/ pc = "write" /\ file' \in Torn
  /\ Exit("error")
  /\ UNCHANGED <<bucket, head, stale, edits, args, dirty, run>>

(* The process dies; the job's last step still runs.                       *)
Crash ==
  /\ Fault
  /\ pc \in Running
  /\ Exit("died")
  /\ IF pc = "write" THEN file' \in Torn ELSE UNCHANGED file
  /\ UNCHANGED <<bucket, head, stale, edits, args, dirty, run>>

(* The runner dies, or the push does not get through.                      *)
JobLost ==
  /\ Fault
  /\ pc # "idle"
  /\ Discard
  /\ stale' = FALSE
  /\ result' = IF pc = "commit" THEN result ELSE "died"
  /\ UNCHANGED <<bucket, head, edits>>

(* Somebody pushes something else to the main branch.                      *)
OtherPush ==
  /\ Fault
  /\ \/ pc # "idle" /\ ~ stale
     \/ waiting # None /\ ~ waiting.behind
  /\ stale' = (pc # "idle") /\ waiting' = Overtaken
  /\ UNCHANGED <<bucket, committed, edits, job, run>>
----------------------------------------------------------------------------
(* The human                                                               *)

Trusted(s) == [s EXCEPT !.anchor = None, !.seam = s.lastRoot,
                        !.base = OrZero(s.verifiedTotal)]

(* The edits a loud failure calls for: accept a new proof format, vouch    *)
(* for the next block, start again elsewhere with --init-block; and, for a *)
(* file that no longer loads, put the initial one back.                    *)
HandEdits(s) ==
  IF s \in Torn THEN {FreshState}
  ELSE {[s EXCEPT !.proofPath = None, !.signatureBytes = None],
        [s EXCEPT !.initialized = FALSE]} \cup
       {[s EXCEPT !.initialized = TRUE, !.lastBlock = n, !.lastRoot = stream[n].root] :
          n \in {b \in Blocks : stream[b] # Absent /\ s.lastBlock # None /\ b = s.lastBlock + 1}}

HandEdit ==
  /\ result \in {"gap", "alarm", "error"}
  /\ edits < MaxEdits
  /\ edits' = edits + 1
  /\ \E s \in HandEdits(committed) : committed' = Trusted(s)
  /\ stale' = (pc # "idle") /\ waiting' = Overtaken
  /\ UNCHANGED <<bucket, faults, job, run>>
----------------------------------------------------------------------------
(* The bucket                                                              *)

(* Objects appear under their numbers, a little out of order.              *)
Publish(n) ==
  /\ n >= oldest /\ n \notin live /\ stream[n] # Absent
  /\ \A b \in Blocks : b >= oldest /\ b + Skew < n /\ stream[b] # Absent => b \in live
  /\ live' = live \cup {n}
  /\ UNCHANGED <<stream, oldest, head, stale, edits, faults, job, run>>

(* Retention removes the oldest.                                           *)
Expire ==
  /\ oldest < MaxExpired
  /\ stream[oldest] # Absent => oldest \in live
  /\ oldest' = oldest + 1
  /\ live' = live \ {oldest}
  /\ UNCHANGED <<stream, head, stale, edits, faults, job, run>>
----------------------------------------------------------------------------
Start ==
  \E local \in LocalModes, init \in InitBlocks, max \in MaxBlocks, waited \in BOOLEAN :
    Checkout(local, init, max, waited)

RunStep ==
  \/ Load \/ NewestLocal \/ ProbeFloor \/ ProbeExpand \/ ProbeBisect
  \/ Window \/ (\E n \in Batch : Fetch(n)) \/ Join \/ CheckNext
  \/ Save \/ Write

JobStep == (\E configured \in Secrets : Gate(configured)) \/ RunStep \/ Commit

Failure ==
  \/ ProbeFails \/ (\E n \in Batch : FetchFails(n)) \/ SaveFails
  \/ Crash \/ JobLost \/ OtherPush

Next ==
  \/ Start \/ Dispatch \/ JobStep \/ Failure \/ HandEdit
  \/ (\E n \in Blocks : Publish(n)) \/ Expire

Spec == Init /\ [][Next]_vars

(* A job that was started is run to its end. Nothing is assumed of whoever *)
(* dispatches jobs, uploads blocks or edits the state.                     *)
FairSpec == Spec /\ WF_vars(JobStep)
----------------------------------------------------------------------------
TipOf(s) ==
  IF s \in Torn THEN None
  ELSE [anchored |-> s.initialized, last |-> s.lastBlock, root |-> s.lastRoot,
        path |-> s.proofPath, bytes |-> s.signatureBytes]

VP == INSTANCE VerifiedPrefix WITH tip <- TipOf(committed)

TypeOK ==
  /\ stream \in [Blocks -> Object \cup {Absent}]
  /\ live \subseteq Blocks /\ oldest \in Blocks
  /\ committed \in State \cup Torn /\ waiting \in Checked \cup {None} /\ file \in State \cup Torn /\ mem \in State
  /\ stale \in BOOLEAN /\ dirty \in BOOLEAN
  /\ edits \in 0 .. MaxEdits /\ faults \in 0 .. MaxFaults
  /\ pc \in Running \cup {"idle", "gate", "commit"}
  /\ result \in {"none", "caughtUp", "verified", "gap", "alarm", "error", "died"}
  /\ args \in [local : BOOLEAN, init : Nat \cup {None}, max : Nat]
  /\ seen \subseteq Blocks
  /\ lo \in Nat /\ hi \in Nat /\ step \in Nat
  /\ from \in Nat /\ to \in Nat /\ start \in Nat /\ verified \in Nat
  /\ DOMAIN fetched \subseteq Nat
  /\ fetched \in [DOMAIN fetched -> Object \cup {Absent}]

(* A state says "verified through lastBlock" and means it: since the last  *)
(* hand edit every block from the first to lastBlock exists, was           *)
(* acceptable under the one proof format recorded, and claims the root of  *)
(* the block before it, the first one the root the edit left. So no run,   *)
(* batch, crash or rejected push skips a block or loses the seam.          *)
Earned(s) ==
  s.anchor # None =>
    /\ s.lastBlock \in Blocks /\ s.anchor \in 0 .. s.lastBlock
    /\ VP!Linked(s.anchor, s.lastBlock, s.seam)
    /\ s.lastRoot = stream[s.lastBlock].root
    /\ s.proofPath = stream[s.lastBlock].path
    /\ s.signatureBytes = stream[s.lastBlock].bytes

StateIsEarned == \A s \in {committed, file, mem} \ Torn : Earned(s)

(* verifiedTotal counts every block once, however the work was cut into    *)
(* runs and however often a run was lost and repeated.                     *)
TotalIsExact ==
  \A s \in {committed, file} \ Torn :
    s.anchor # None => s.verifiedTotal = s.base + (s.lastBlock - s.anchor + 1)

(* Work done before a loud failure is in the file the job will push, and a *)
(* run that reports success did its whole window.                          *)
LoudFailureKeepsWork ==
  pc = "commit" /\ result \in {"verified", "gap", "alarm"} =>
    /\ file \notin Torn
    /\ verified > 0 => file.initialized /\ file.lastBlock = from + verified - 1
    /\ result = "verified" => from + verified = to + 1

(* A stretch of blocks to b continues what the state claims since the last *)
(* hand edit, or claims nothing yet and starts at `first`: all there,      *)
(* acceptable and linked, in the format the state knows.                   *)
Continues(s, first, b) ==
  /\ b \in Blocks /\ stream[b] # Absent
  /\ VP!Linked(IF s.anchor = None THEN first ELSE s.anchor, b, s.seam)
  /\ s.proofPath \in {None, stream[b].path}
  /\ s.signatureBytes \in {None, stream[b].bytes}

(* No alarm is false: the block announced is in the stream and could not   *)
(* have been verified, wherever windows and batches were cut, whatever was *)
(* retried, and even where the state in memory lags behind the head. So    *)
(* an alarm is never about a block that was verified before, about a fetch *)
(* that failed, or about the seam of another run.                          *)
NoFalseAlarm ==
  pc = "commit" /\ result = "alarm" =>
    LET b == from + verified
    IN  b \in Blocks /\ stream[b] # Absent /\ ~ Continues(mem, b, b)

(* The probe never stops short of blocks it could reach: every block that  *)
(* was in the bucket in one piece with the floor when the run began is at  *)
(* or below what it takes for the newest, unless retention cut in.         *)
NewestCoversPrefix ==
  pc = "window" =>
    LET floor == SearchFloor(mem, args.init)
    IN  \A b \in seen : floor .. b \subseteq seen /\ oldest <= floor => b <= lo

(* "Caught up" means nothing newer was there when the run began.           *)
CaughtUpMeansNothingNewer ==
  pc = "commit" /\ result = "caughtUp" => \A b \in seen : b < from

(* Of a directory that is true, holes or not: its newest block is the      *)
(* highest name, whatever appears or is removed while the run lists it.    *)
LocalCaughtUpIsCaughtUp == args.local => CaughtUpMeansNothingNewer

(* The committed state moves only as the abstract tip may.                 *)
ImplementsVerifiedPrefix == VP!Spec

(* A job that starts ends, whatever fails.                                 *)
EveryJobEnds == (pc # "idle") ~> (pc = "idle")

(* What can come between a job and its outcome: a fault, a hand edit,      *)
(* retention. Each of them is counted.                                     *)
Disturbances    == faults + edits + oldest
MaxDisturbances == MaxFaults + MaxEdits + MaxExpired

(* A job is about to run from the head, block b is in the window it may    *)
(* take, and everything it needs to get there is in the bucket.            *)
InWindow(b) ==
  /\ pc = "load" /\ ~ stale /\ file \notin Torn
  /\ LET first == FirstBlock(file, args.init)
     IN  /\ first # None /\ first <= b /\ b < first + args.max
         /\ SearchFloor(file, args.init) .. b \subseteq live

StateContinues(b) == Continues(file, FirstBlock(file, args.init), b)

StateStopsAt(b) ==
  /\ ~ StateContinues(b)
  /\ \A c \in FirstBlock(file, args.init) .. b - 1 : StateContinues(c)

Covers(s, b) == s \notin Torn /\ s.anchor # None /\ b \in s.anchor .. s.lastBlock

Announced(b) == pc = "commit" /\ result = "alarm" /\ from + verified = b

(* Every job, by itself, does all it was started for: blocks that continue *)
(* the state are covered by the head before the job is over (or sooner, by *)
(* nobody's doing but its own), unless something breaks or interferes.     *)
JobVerifies ==
  \A b \in Blocks, n \in 0 .. MaxDisturbances :
    InWindow(b) /\ StateContinues(b) /\ Disturbances = n
      ~> Covers(committed, b) \/ Disturbances > n

(* And the first block in its window that does not continue the state is   *)
(* announced at its number by this very job, however the window falls into *)
(* batches and whatever is uploaded meanwhile (sentinel.rs:277-306).       *)
JobAnnounces ==
  \A b \in Blocks, n \in 0 .. MaxDisturbances :
    InWindow(b) /\ StateStopsAt(b) /\ Disturbances = n
      ~> Announced(b) \/ Disturbances > n
=============================================================================
