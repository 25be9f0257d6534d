------------------------------ MODULE Parsers ------------------------------
(***************************************************************************)
(* The parsing side of the library: the scan of a block's bytes, the       *)
(* pairing of its items, the row of a transaction, and the day of a row.   *)
(* They call one another but share no state (every one of them is a pure   *)
(* function of its bytes), so they are explored one at a time: a machine   *)
(* moves while the others stand where they started.                        *)
(***************************************************************************)
EXTENDS BlockItems, Wire, Rows

ParsersInit == Init /\ WireInit /\ RowsInit /\ CalendarInit

PairItems ==
  /\ WireInit /\ RowsInit /\ CalendarInit
  /\ Next /\ UNCHANGED <<wire, rows, calendar>>

ScanBytes ==
  /\ Init /\ RowsInit /\ CalendarInit
  /\ WireNext /\ UNCHANGED <<vars, rows, calendar>>

MakeRows ==
  /\ Init /\ WireInit /\ CalendarInit
  /\ RowsNext /\ UNCHANGED <<vars, wire, calendar>>

TurnCalendar ==
  /\ Init /\ WireInit /\ RowsInit
  /\ CalendarNext /\ UNCHANGED <<vars, wire, rows>>

ParsersNext == PairItems \/ ScanBytes \/ MakeRows \/ TurnCalendar

ParsersSpec == ParsersInit /\ [][ParsersNext]_<<vars, wire, rows, calendar>>
=============================================================================
