---------------------------- MODULE ChunkedParse ----------------------------
(***************************************************************************)
(* The threaded parse both ETL pipelines share (src/cli/etl/record.rs and  *)
(* block.rs): a list of files in name order is cut into contiguous chunks, *)
(* one worker parses each chunk from its first file to its first failure,  *)
(* and the results are joined in chunk order, whatever order the workers   *)
(* finish in.                                                              *)
(***************************************************************************)
EXTENDS Integers

VARIABLES
  count,    \* files in the list, numbered from 1
  threads,  \* --threads
  bad,      \* the files that fail to read or to parse
  at,       \* worker -> the file it parses next, or has failed on
  failed    \* workers that returned an error

parse == <<count, bad, at, failed>>

CeilDiv(a, b) == (a + b - 1) \div b

ChunkSize == IF count = 0 THEN 1 ELSE CeilDiv(count, threads)

Workers == 1 .. CeilDiv(count, ChunkSize)

ChunkFirst(w) == (w - 1) * ChunkSize + 1

(* Broken variant for mutation testing: the last chunk is taken for full.  *)
ChunkLastFull(w) == w * ChunkSize

ChunkLast(w) == IF w * ChunkSize < count THEN w * ChunkSize ELSE count

(* No worker, no file.                                                     *)
NoParse == count = 0 /\ bad = {} /\ at = [w \in {} |-> 0] /\ failed = {}

(* The workers are spawned on a list of n files.                           *)
Spawn(n, failing) ==
  /\ count' = n
  /\ bad' = failing
  /\ at' = [w \in Workers' |-> ChunkFirst(w)']
  /\ failed' = {}

Busy(w) == w \notin failed /\ at[w] <= ChunkLast(w)

(* A worker's next file. collect() stops it at the first error.            *)
ParseNext(w) ==
  /\ Busy(w)
  /\ IF at[w] \in bad
     THEN failed' = failed \cup {w} /\ UNCHANGED at
     ELSE at' = [at EXCEPT ![w] = @ + 1] /\ UNCHANGED failed
  /\ UNCHANGED <<count, bad>>

(* Broken variant: a worker that failed is waited for.                     *)
JoinedWhole == \A w \in Workers : at[w] > ChunkLast(w)

Joined == \A w \in Workers : ~ Busy(w)

(* Broken variant: the error of the last chunk that has one.               *)
ErrorOfLastChunk == CHOOSE i \in {at[w] : w \in failed} : \A w \in failed : at[w] <= i

(* The error that is reported: that of the first chunk that has one.       *)
FirstError ==
  LET w == CHOOSE v \in failed : \A u \in failed : v <= u
  IN  at[w]
=============================================================================
