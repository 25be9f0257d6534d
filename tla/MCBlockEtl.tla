----------------------------- MODULE MCBlockEtl -----------------------------
(***************************************************************************)
(* The block-era ETL over directories of up to four block files whose name *)
(* order is not their number order, with rows on three days.               *)
(***************************************************************************)
EXTENDS BlockEtl

MCDays   == 1 .. 3
MCRoots  == 0 .. 6
MCU64Max == 9

Tx(n, d) == [id |-> n, day |-> d]

(* Block n: its root is n + 1, it claims root n, its rows are on day d and, *)
(* when it spans midnight, on the next one.                                *)
Blk(n, D) == [ok |-> TRUE, number |-> n, root |-> n + 1, prev |-> n,
              txs |-> {Tx(n, d) : d \in D}]

(* "10" sorts before "2": the last block's name comes first.               *)
History == <<Blk(4, {3}), Blk(1, {1}), Blk(2, {1, 2}), Blk(3, {3})>>
Late    == <<Blk(2, {}), Blk(1, {2}), Blk(3, {1})>>

(* The last number a u64 has: behind its predecessor, and twice.          *)
Last      == <<[Blk(2, {2}) EXCEPT !.number = MCU64Max], [Blk(1, {1}) EXCEPT !.number = MCU64Max - 1]>>
LastTwice == [Last EXCEPT ![2].number = MCU64Max]

Unreadable(s, B) == [i \in 1 .. Len(s) |-> [s[i] EXCEPT !.ok = i \notin B]]

MCInputs ==
  {History, Late, << >>, Last, LastTwice}
  \cup {Unreadable(History, B) : B \in {{1}, {2, 3}, {4}}}
  \cup {[History EXCEPT ![1].number = 5], [History EXCEPT ![1].number = 3],
        [History EXCEPT ![2].prev = 0], [History EXCEPT ![3].prev = 5],
        [Late EXCEPT ![1].number = 9, ![2].number = 8, ![3].number = 0],
        [Late EXCEPT ![3] = [Blk(2, {1}) EXCEPT !.prev = 3]]}
=============================================================================
