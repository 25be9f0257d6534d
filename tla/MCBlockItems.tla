---------------------------- MODULE MCBlockItems ----------------------------
(***************************************************************************)
(* Blocks of up to five signed transactions and five results.              *)
(***************************************************************************)
EXTENDS BlockItems

MCNumbers == {7}
MCRounds  == {3}
=============================================================================
