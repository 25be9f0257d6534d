------------------------------ MODULE BlockEtl ------------------------------
(***************************************************************************)
(* The block-era ETL (src/cli/etl/block.rs): all block files are parsed by *)
(* threads, put in the order of their block numbers, chain-verified, and   *)
(* only then are their transactions written, each into the partition of    *)
(* its own consensus day.                                                  *)
(***************************************************************************)
EXTENDS ChunkedParse, DayWriter, Sequences

CONSTANTS
  Days,      \* consensus days, in order
  Roots,     \* block roots
  Ids,       \* what tells two transactions apart
  U64Max,    \* u64::MAX
  Inputs,    \* directories: sequences of block files in name order
  Transfers, Verifies, ThreadCounts,   \* values of the flags
  Absent,    \* no parquet file
  MaxRuns    \* bound: runs over the one dataset

Row == [id : Ids, day : Days]

(* A file is what parse_block and block_chain_info tell about it.          *)
File == [ok : BOOLEAN, number : 0 .. U64Max, root : Roots, prev : Roots, txs : SUBSET Row]

ASSUME BlockEtlConstants ==
  /\ Days \subseteq Nat /\ U64Max \in Nat /\ MaxRuns \in Nat
  /\ Inputs \subseteq Seq(File)
  /\ Transfers \subseteq BOOLEAN /\ Verifies \subseteq BOOLEAN /\ ThreadCounts \subseteq Nat
  /\ Absent # Torn

VARIABLES
  files,    \* the directory of this run
  verify,   \* --verify-chain
  outcome,  \* how the last run ended, and the file it names
  order,    \* the files by block number
  left,     \* the days still to write
  before,   \* (history) the dataset when this run began
  runs

flags == <<files, threads, transfers, verify, before, runs>>
vars  == <<count, threads, bad, at, failed, files, transfers, verify, phase, outcome,
           order, left, rows, legs, before, runs>>

Nothing == [d \in Days |-> Absent]

Init ==
  /\ NoParse /\ threads = 1
  /\ files = << >> /\ transfers = FALSE /\ verify = FALSE
  /\ phase = "idle" /\ outcome = [how |-> "none", file |-> 0]
  /\ order = << >> /\ left = {}
  /\ rows = Nothing /\ legs = Nothing
  /\ before = [rows |-> Nothing, legs |-> Nothing]
  /\ runs = 0

End(how, file) ==
  /\ phase' = "idle"
  /\ outcome' = [how |-> how, file |-> file]

(* The workers are spawned at once. div_ceil panics on --threads 0.        *)
Begin(input, t, v, n) ==
  /\ phase = "idle" /\ runs < MaxRuns
  /\ files' = input /\ transfers' = t /\ verify' = v /\ threads' = n
  /\ before' = [rows |-> rows, legs |-> legs]
  /\ runs' = runs + 1
  /\ order' = << >> /\ left' = {}
  /\ IF n = 0
     THEN /\ End("died", 0)
          /\ count' = 0 /\ bad' = {} /\ at' = [w \in {} |-> 0] /\ failed' = {}
     ELSE /\ phase' = "parse" /\ outcome' = [how |-> "none", file |-> 0]
          /\ Spawn(Len(input), {i \in 1 .. Len(input) : ~ input[i].ok})
  /\ UNCHANGED dataset

Parse(w) ==
  /\ phase = "parse"
  /\ ParseNext(w)
  /\ UNCHANGED <<flags, phase, outcome, order, left, dataset>>

(* i before j: by block number, and by name where two numbers are equal.   *)
Before(i, j) ==
  \/ files[i].number < files[j].number
  \/ files[i].number = files[j].number /\ i < j

(* Broken variant: the files in the order of their names.                  *)
NameOrder == {[k \in 1 .. Len(files) |-> k]}

(* sort_by_key is stable: one order has every file once and each before    *)
(* those that are to come after it.                                        *)
NumberOrder ==
  {p \in [1 .. Len(files) -> 1 .. Len(files)] :
     /\ \A i \in 1 .. Len(files) : \E k \in 1 .. Len(files) : p[k] = i
     /\ \A k, l \in 1 .. Len(files) : k < l => Before(p[k], p[l])}

Join ==
  /\ phase = "parse" /\ Joined
  /\ IF failed # {} THEN End("parse", FirstError) /\ UNCHANGED order
                    ELSE /\ phase' = "verify" /\ order' \in NumberOrder
                         /\ UNCHANGED outcome
  /\ UNCHANGED <<parse, flags, left, dataset>>

(* Broken variant: numbers may repeat.                                     *)
FollowsLoosely(prev, next) ==
  /\ next.number \in {prev.number, prev.number + 1}
  /\ next.prev = prev.root

(* One window; checked_add makes the successor of u64::MAX a gap.          *)
FollowsBlock(prev, next) ==
  /\ prev.number < U64Max /\ next.number = prev.number + 1
  /\ next.prev = prev.root

Breaks == {i \in 2 .. Len(order) : ~ FollowsBlock(files[order[i - 1]], files[order[i]])}

AllRows == UNION {{<<i, tx>> : tx \in files[i].txs} : i \in 1 .. Len(files)}

(* The windows in order, then the rows by their day.                       *)
VerifyAndGroup ==
  /\ phase = "verify"
  /\ IF verify /\ Breaks # {}
     THEN /\ \E i \in Breaks : (\A j \in Breaks : i <= j) /\ End("chain", order[i])
          /\ UNCHANGED left
     ELSE /\ phase' = "day"
          /\ left' = {row[2].day : row \in AllRows}
          /\ UNCHANGED outcome
  /\ UNCHANGED <<parse, flags, order, dataset>>

Day == CHOOSE d \in left : \A e \in left : d <= e

(* Broken variant: the rows of the whole input.                            *)
EveryRow == {row[2] : row \in AllRows}

DayRows == {row[2] : row \in {r \in AllRows : r[2].day = Day}}

NextDay ==
  /\ phase = "day"
  /\ IF left = {} THEN End("ok", 0) ELSE phase' = "rows" /\ UNCHANGED outcome
  /\ UNCHANGED <<parse, flags, order, left, dataset>>

Write ==
  /\ WriteDay(Day, DayRows)
  /\ left' = IF phase' = "day" THEN left \ {Day} ELSE left
  /\ UNCHANGED <<parse, flags, outcome, order>>

(* A full disk, a missing permission.                                      *)
WriteFails ==
  /\ phase \in Writing
  /\ End("write", 0)
  /\ UNCHANGED <<parse, flags, order, left, dataset>>

(* The process dies.                                                       *)
Crash ==
  /\ phase # "idle"
  /\ End("died", 0)
  /\ UNCHANGED <<parse, flags, order, left, dataset>>

Run ==
  (\E w \in Workers : Parse(w)) \/ Join \/ VerifyAndGroup \/ NextDay \/ Write

Next ==
  \/ \E input \in Inputs, t \in Transfers, v \in Verifies, n \in ThreadCounts :
       Begin(input, t, v, n)
  \/ Run \/ WriteFails \/ Crash

Spec == Init /\ [][Next]_vars
----------------------------------------------------------------------------
Table == [Days -> {Absent, Torn} \cup SUBSET Row]

TypeOK ==
  /\ count \in Nat /\ bad \subseteq 1 .. count
  /\ DOMAIN at \subseteq Nat /\ at \in [DOMAIN at -> 1 .. count + 1]
  /\ failed \subseteq DOMAIN at
  /\ threads \in Nat /\ transfers \in BOOLEAN /\ verify \in BOOLEAN
  /\ files \in Seq(File) /\ runs \in 0 .. MaxRuns
  /\ phase \in Writing \cup {"idle", "parse", "verify", "day"}
  /\ outcome \in [how : {"none", "ok", "parse", "chain", "write", "died"},
                  file : 0 .. Len(files)]
  /\ order \in Seq(1 .. Len(files)) /\ left \subseteq Days
  /\ rows \in Table /\ legs \in Table /\ before \in [rows : Table, legs : Table]

(* What --verify-chain promises of a directory, with no order of files in  *)
(* sight: no block number twice, none missing between two that are there,  *)
(* and each block claims the root of the one numbered before it.           *)
OneHistory ==
  /\ \A i, j \in 1 .. Len(files) : files[i].number = files[j].number => i = j
  /\ \A i \in 1 .. Len(files) :
       \/ \A j \in 1 .. Len(files) : files[i].number <= files[j].number
       \/ \E j \in 1 .. Len(files) :
            files[i].number = files[j].number + 1 /\ files[i].prev = files[j].root

(* Nothing is written before every file is parsed and, if asked, the whole *)
(* directory is one history, in whatever order the names put the files.    *)
NothingIsWrittenUnverified ==
  (rows # before.rows \/ legs # before.legs \/ outcome.how = "ok")
    => (\A i \in 1 .. Len(files) : files[i].ok) /\ (verify => OneHistory)

(* A parse error names the first failing file in name order, on any number *)
(* of threads; a chain error is raised only where there is no one history. *)
ErrorNamesFirstFile ==
  LET f == outcome.file
  IN  /\ outcome.how = "parse" => ~ files[f].ok /\ \A i \in 1 .. f - 1 : files[i].ok
      /\ outcome.how = "chain" => ~ OneHistory

RowsOn(d) == {tx \in UNION {files[i].txs : i \in 1 .. Len(files)} : tx.day = d}

(* Every transaction lands in the partition of its own day, whichever file *)
(* carried it; the days behind the run are complete in both tables, those  *)
(* ahead of it as they were: at most one day is half written.              *)
RowsLandOnTheirDay ==
  \A d \in Days :
    LET behind == /\ d \notin left /\ RowsOn(d) # {}
                  /\ phase \in Writing \cup {"day"} \/ outcome.how \in {"ok", "write"}
        ahead  == RowsOn(d) = {} \/ \E e \in left : e < d
    IN  /\ behind => /\ rows[d] = RowsOn(d)
                     /\ legs[d] = IF transfers THEN RowsOn(d) ELSE before.legs[d]
        /\ ahead => rows[d] = before.rows[d] /\ legs[d] = before.legs[d]
=============================================================================
