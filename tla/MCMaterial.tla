----------------------------- MODULE MCMaterial -----------------------------
(***************************************************************************)
(* Blocks of up to ten items, up to four of which are not signed           *)
(* transactions: with a header and a footer, up to eight leaves in the     *)
(* input tree, which is every shape of peaks below four levels. A count of *)
(* leaves has four bits, enough for every item.                            *)
(***************************************************************************)
EXTENDS Material

MCKinds == {"header", "result", "event", "round", "signed", "state_changes", "trace",
            "proof", "footer", "record", "filtered", "redacted", "unknown", "output"}

F(p, a, s) == [prev |-> p, all |-> a, state |-> s]
MCFooters  == {F("full", "full", "full"), F("full", "full", "empty"), F("empty", "full", "full"),
               F("full", "odd", "full"), F("full", "full", "odd")}
=============================================================================
