----------------------------- MODULE RecordEtl ------------------------------
(***************************************************************************)
(* The record-era ETL (src/cli/etl/record.rs, write_day in parquet.rs): the *)
(* files of a directory, grouped by the day in their names, are taken day  *)
(* by day: parsed by threads, chain-verified with the seam to the day      *)
(* before, and written as the day's partition before the next day is read. *)
(* The dataset outlives the process, which may fail or die anywhere and be *)
(* run again over another set of files.                                    *)
(***************************************************************************)
EXTENDS ChunkedParse, DayWriter, Sequences

CONSTANTS
  None,        \* no ten-byte prefix; no previous day
  Prefixes,    \* ten-byte prefixes of names, numbered in their order
  Dates,       \* those of them that are a YYYY-MM-DD
  Hashes,      \* running hashes
  I64Max,      \* i64::MAX
  Inputs,      \* directories: sequences of record files in name order
  Transfers, Verifies, ThreadCounts,   \* values of the flags
  Absent,      \* no parquet file
  MaxRuns      \* bound: runs over the one dataset

(* A file is what the pipeline can tell about it. Its rows are determined  *)
(* by it, so a partition is the sequence of files its rows come from.      *)
File == [prefix : Prefixes \cup {None}, ok : BOOLEAN,
         start : Hashes, end : Hashes, number : 0 .. I64Max]

ASSUME EtlConstants ==
  /\ Prefixes \subseteq Nat /\ Dates \subseteq Prefixes /\ None \notin Prefixes
  /\ None \notin File
  /\ I64Max \in Nat /\ MaxRuns \in Nat
  /\ Inputs \subseteq Seq(File)
  /\ Transfers \subseteq BOOLEAN /\ Verifies \subseteq BOOLEAN /\ ThreadCounts \subseteq Nat
  /\ Absent # Torn /\ {Absent, Torn} \cap Seq(File) = {}

(* Names are sorted, so their prefixes are.                                *)
ASSUME InputsAreSorted ==
  \A input \in Inputs : \A i, j \in 1 .. Len(input) :
    i < j /\ input[i].prefix # None /\ input[j].prefix # None
      => input[i].prefix <= input[j].prefix

VARIABLES
  files,      \* the directory of this run
  verify,     \* --verify-chain
  outcome,    \* how the last run ended, and the file it names
  base,       \* files of the days already written by this run
  upto,       \* last file of the day at hand
  boundary,   \* the last file of the day before, when the chain is verified
  before,     \* (history) the dataset when this run began
  runs

flags   == <<files, threads, transfers, verify, before, runs>>
cursor  == <<base, upto>>
vars    == <<count, threads, bad, at, failed, files, transfers, verify, phase, outcome,
             base, upto, boundary, rows, legs, before, runs>>

Nothing == [p \in Prefixes |-> Absent]

Init ==
  /\ NoParse /\ threads = 1
  /\ files = << >> /\ transfers = FALSE /\ verify = FALSE
  /\ phase = "idle" /\ outcome = [how |-> "none", file |-> 0]
  /\ base = 0 /\ upto = 0 /\ boundary = None
  /\ rows = Nothing /\ legs = Nothing
  /\ before = [rows |-> Nothing, legs |-> Nothing]
  /\ runs = 0

End(how, file) ==
  /\ phase' = "idle"
  /\ outcome' = [how |-> how, file |-> file]

Begin(input, t, v, n) ==
  /\ phase = "idle" /\ runs < MaxRuns
  /\ phase' = "group"
  /\ files' = input /\ transfers' = t /\ verify' = v /\ threads' = n
  /\ before' = [rows |-> rows, legs |-> legs]
  /\ runs' = runs + 1
  /\ base' = 0 /\ upto' = 0 /\ boundary' = None
  /\ count' = 0 /\ bad' = {} /\ at' = [w \in {} |-> 0] /\ failed' = {}
  /\ outcome' = [how |-> "none", file |-> 0]
  /\ UNCHANGED dataset

Nameless == {i \in 1 .. Len(files) : files[i].prefix = None}

(* A name shorter than ten bytes ends the run before anything is read.     *)
Group ==
  /\ phase = "group"
  /\ IF Nameless # {}
     THEN \E i \in Nameless : (\A j \in Nameless : i <= j) /\ End("name", i)
     ELSE phase' = "day" /\ UNCHANGED outcome
  /\ UNCHANGED <<parse, flags, cursor, boundary, dataset>>

(* The files of the next day have the prefix of the next file.             *)
SameDay == {i \in base + 1 .. Len(files) : files[i].prefix = files[base + 1].prefix}
DayEnd  == CHOOSE e \in SameDay : \A i \in SameDay : i <= e

(* The next day's workers. div_ceil panics on --threads 0.                 *)
NextDay ==
  /\ phase = "day"
  /\ UNCHANGED <<flags, boundary, dataset>>
  /\ IF base = Len(files) THEN End("ok", 0) /\ UNCHANGED <<parse, cursor>>
     ELSE IF threads = 0 THEN End("died", 0) /\ UNCHANGED <<parse, cursor>>
     ELSE /\ phase' = "parse"
          /\ upto' = DayEnd
          /\ Spawn(upto' - base, {i \in 1 .. upto' - base : ~ files[base + i].ok})
          /\ UNCHANGED <<base, outcome>>

Parse(w) ==
  /\ phase = "parse"
  /\ ParseNext(w)
  /\ UNCHANGED <<flags, phase, outcome, cursor, boundary, dataset>>

Join ==
  /\ phase = "parse" /\ Joined
  /\ IF failed # {} THEN End("parse", base + FirstError)
                    ELSE phase' = "verify" /\ UNCHANGED outcome
  /\ UNCHANGED <<parse, flags, cursor, boundary, dataset>>

(* Broken variant: start hashes only.                                      *)
FollowsUncounted(prev, next) == next.start = prev.end

(* verify_running_hash_chain on one pair; checked_add makes the successor  *)
(* of i64::MAX a gap.                                                      *)
Follows(prev, next) ==
  /\ next.start = prev.end
  /\ prev.number < I64Max /\ next.number = prev.number + 1

(* Broken variant: the boundary is the day's first file.                   *)
SeamFromFirst == files[base + 1]

(* What the next day is held against.                                      *)
Seam == files[upto]

Breaks == {i \in base + 1 .. upto :
             IF i = base + 1 THEN boundary # None /\ ~ Follows(boundary, files[i])
                             ELSE ~ Follows(files[i - 1], files[i])}

(* The seam to the day before, then the pairs within the day.              *)
VerifyChain ==
  /\ phase = "verify"
  /\ IF ~ verify THEN phase' = "rows" /\ UNCHANGED <<outcome, boundary>>
     ELSE IF Breaks # {}
     THEN /\ \E i \in Breaks : (\A j \in Breaks : i <= j) /\ End("chain", i)
          /\ UNCHANGED boundary
     ELSE /\ phase' = "rows"
          /\ boundary' = Seam
          /\ UNCHANGED outcome
  /\ UNCHANGED <<parse, flags, cursor, dataset>>
----------------------------------------------------------------------------
(* The day's partition                                                     *)

Day == files[upto].prefix

(* Broken variant: the buffer of rows is not emptied between days.         *)
FilesSoFar == SubSeq(files, 1, upto)

DayFiles == SubSeq(files, base + 1, upto)

Write ==
  /\ WriteDay(Day, DayFiles)
  /\ base' = IF phase' = "day" THEN upto ELSE base
  /\ UNCHANGED <<parse, flags, outcome, upto, boundary>>

(* A full disk, a missing permission.                                      *)
WriteFails ==
  /\ phase \in Writing
  /\ End("write", 0)
  /\ UNCHANGED <<parse, flags, cursor, boundary, dataset>>

(* The process dies.                                                       *)
Crash ==
  /\ phase # "idle"
  /\ End("died", 0)
  /\ UNCHANGED <<parse, flags, cursor, boundary, dataset>>

Run ==
  \/ Group \/ NextDay \/ (\E w \in Workers : Parse(w)) \/ Join \/ VerifyChain
  \/ Write

Next ==
  \/ \E input \in Inputs, t \in Transfers, v \in Verifies, n \in ThreadCounts :
       Begin(input, t, v, n)
  \/ Run \/ WriteFails \/ Crash

Spec == Init /\ [][Next]_vars

(* A process that was started runs; every worker is a thread.              *)
FairSpec == Spec /\ WF_vars(Run)
----------------------------------------------------------------------------
Table == [Prefixes -> Seq(File) \cup {Absent, Torn}]

TypeOK ==
  /\ count \in Nat /\ bad \subseteq 1 .. count
  /\ DOMAIN at \subseteq Nat /\ at \in [DOMAIN at -> 1 .. count + 1] /\ failed \subseteq DOMAIN at
  /\ threads \in Nat /\ transfers \in BOOLEAN /\ verify \in BOOLEAN
  /\ files \in Seq(File) /\ runs \in 0 .. MaxRuns
  /\ phase \in Writing \cup {"idle", "group", "day", "parse", "verify"}
  /\ outcome \in [how : {"none", "ok", "name", "parse", "chain", "write", "died"},
                  file : 0 .. Len(files)]
  /\ base \in 0 .. Len(files) /\ upto \in base .. Len(files)
  /\ boundary \in File \cup {None}
  /\ rows \in Table /\ legs \in Table /\ before \in [rows : Table, legs : Table]

(* With --verify-chain, the files behind everything a run has touched so   *)
(* far, across all its days, are one unbroken chain: no seam between two   *)
(* days goes unchecked, and no partition is opened before its day passed.  *)
Touched == IF phase \in Writing THEN upto ELSE base

WrittenIsOneChain ==
  verify => \A i \in 2 .. Touched : Follows(files[i - 1], files[i])

(* A parse error names the first failing file in name order, a chain error *)
(* the first file that does not follow, on any number of threads and under *)
(* any interleaving of them.                                               *)
ErrorNamesFirstFile ==
  LET f == outcome.file
  IN  /\ outcome.how = "parse" => ~ files[f].ok /\ \A i \in 1 .. f - 1 : files[i].ok
      /\ outcome.how = "chain" =>
           /\ f > 1 /\ ~ Follows(files[f - 1], files[f])
           /\ \A i \in 2 .. f - 1 : Follows(files[i - 1], files[i])

(* The files of a day, whole: names are sorted, so they stand together.    *)
IsDay(content, p) ==
  \E a, b \in 1 .. Len(files) :
    /\ {i \in 1 .. Len(files) : files[i].prefix = p} = a .. b
    /\ content = SubSeq(files, a, b)

PrefixesOf(n) == {files[i].prefix : i \in 1 .. n}

(* Days are written whole and in order: the days behind the run hold all   *)
(* their files and nothing else, in both tables; the days ahead of it, the *)
(* days it has no file of, and transfers that were not asked for, are as   *)
(* they were when it began. So at most one day is half written.            *)
DaysAreWrittenInOrder ==
  \A p \in Prefixes :
    /\ p \in PrefixesOf(base) =>
         /\ IsDay(rows[p], p)
         /\ IF transfers THEN IsDay(legs[p], p) ELSE legs[p] = before.legs[p]
    /\ p \notin PrefixesOf(upto) =>
         rows[p] = before.rows[p] /\ legs[p] = before.legs[p]
    /\ outcome.how \in {"name", "parse", "chain"} /\ p \notin PrefixesOf(base) =>
         rows[p] = before.rows[p] /\ legs[p] = before.legs[p]

(* A run that starts ends, however its threads are scheduled.              *)
RunEnds == (phase # "idle") ~> (phase = "idle")

(* A file whose name is no timestamp fails the run by name.                *)
StrayNamesFail == outcome.how = "ok" => PrefixesOf(Len(files)) \subseteq Dates
=============================================================================
