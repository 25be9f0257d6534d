------------------------------ MODULE MCAttest ------------------------------
(***************************************************************************)
(* Books of up to four nodes: one node is a third and one is not, two are. *)
(***************************************************************************)
EXTENDS Attest

CONSTANTS k, l

MCNodes == 1 .. 4

Signed(parses, claim, over, by) == [parses |-> parses, claim |-> claim, over |-> over, by |-> by]

\* Good; over another file, which it claims; not a signature file; by another key.
MCFiles ==
  {Signed(TRUE, "this", "this", k), Signed(TRUE, "other", "other", k),
   Signed(FALSE, "this", "this", k), Signed(TRUE, "this", "this", l)}

\* One node changes its key, one has a key that does not decode, one has none.
KeysOf == <<{k}, {k, NoKey}, {k, l}, {k, BadKey}>>

MCPages ==
  {p \in UNION {[S -> Keys \cup {NoKey}] : S \in SUBSET MCNodes} :
     \A n \in DOMAIN p : p[n] \in KeysOf[n]}

Listed(id, key) == [id |-> id, key |-> key]

MCBookFiles ==
  {<< >>,
   <<Listed(1, k), Listed(2, NoKey), Listed(3, l), Listed(NoAccount, k)>>,
   <<Listed(3, k), Listed(1, k), Listed(4, BadKey), Listed(3, l), Listed(2, k)>>}

\* A node twice, nodes out of order, a node that is in no book.
MCGiven ==
  UNION {[1 .. m -> [node : {1, 2, 3}, file : MCFiles]] : m \in 0 .. 2}
    \cup {<<[node |-> 4, file |-> f], [node |-> 1, file |-> g], [node |-> 3, file |-> f]>> :
            f \in MCFiles, g \in MCFiles}
=============================================================================
