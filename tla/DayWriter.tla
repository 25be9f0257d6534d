----------------------------- MODULE DayWriter ------------------------------
(***************************************************************************)
(* write_day (src/cli/etl/parquet.rs): the partition of one day, its       *)
(* transactions and then, if they are asked for, its transfers. Each is a  *)
(* parquet file that is created, which empties the one that was there, and *)
(* then written.                                                           *)
(***************************************************************************)
CONSTANT Torn   \* a parquet file created and not finished

VARIABLES
  phase,      \* where the run is
  transfers,  \* --transfers
  rows, legs  \* the dataset: day -> its transactions, its transfers

dataset == <<rows, legs>>

Writing == {"rows", "rowsOpen", "legs", "legsOpen"}

OpenRows(day) ==
  /\ phase = "rows"
  /\ phase' = "rowsOpen"
  /\ rows' = [rows EXCEPT ![day] = Torn]
  /\ UNCHANGED legs

CloseRows(day, content) ==
  /\ phase = "rowsOpen"
  /\ phase' = IF transfers THEN "legs" ELSE "day"
  /\ rows' = [rows EXCEPT ![day] = content]
  /\ UNCHANGED legs

OpenLegs(day) ==
  /\ phase = "legs"
  /\ phase' = "legsOpen"
  /\ legs' = [legs EXCEPT ![day] = Torn]
  /\ UNCHANGED rows

CloseLegs(day, content) ==
  /\ phase = "legsOpen"
  /\ phase' = "day"
  /\ legs' = [legs EXCEPT ![day] = content]
  /\ UNCHANGED rows

WriteDay(day, content) ==
  \/ OpenRows(day) \/ CloseRows(day, content)
  \/ OpenLegs(day) \/ CloseLegs(day, content)
=============================================================================
