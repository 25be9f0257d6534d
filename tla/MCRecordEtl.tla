---------------------------- MODULE MCRecordEtl -----------------------------
(***************************************************************************)
(* The record-era ETL over directories of four files in three days: every  *)
(* pattern of unreadable files, a break of each kind at each place, files  *)
(* that start and end the number range, and names that are no timestamps.  *)
(***************************************************************************)
EXTENDS RecordEtl

MCI64Max == 9
MCHashes == 0 .. 6

(* Prefix 1 is no date and sorts before the dates 2 to 4.                  *)
MCPrefixes == 1 .. 4
MCDates    == 2 .. 4

Rcd(p, i) == [prefix |-> p, ok |-> TRUE, start |-> i, end |-> i + 1, number |-> i]

Clean == <<Rcd(2, 1), Rcd(2, 2), Rcd(3, 3), Rcd(4, 4)>>
Short == <<Rcd(2, 1), Rcd(3, 2), Rcd(3, 3)>>
OneDay == <<Rcd(3, 1), Rcd(3, 2), Rcd(3, 3), Rcd(3, 4)>>

Unreadable(s, B) == [i \in 1 .. Len(s) |-> [s[i] EXCEPT !.ok = i \notin B]]

MCInputs ==
  {Clean, Short, << >>, SubSeq(OneDay, 1, 3)}
  \cup {Unreadable(Clean, B) : B \in {{2}, {3}, {1, 4}}}
  \cup {Unreadable(OneDay, B) : B \in {{2, 3}, {1, 4}, {3}}}
  \cup {[Clean EXCEPT ![i].start = 0] : i \in 2 .. 4}
  \cup {[Short EXCEPT ![2].number = 3], [Clean EXCEPT ![3].start = 2, ![3].number = 2],
        [OneDay EXCEPT ![2].number = 7, ![4].start = 0],
        [Short EXCEPT ![2].prefix = None],
        [Short EXCEPT ![1].number = 8, ![2].number = 9, ![3].number = 0]}

StrayInputs == {<<Rcd(1, 1)>> \o [i \in 1 .. 3 |-> Rcd(i + 1, i + 1)]}
=============================================================================
