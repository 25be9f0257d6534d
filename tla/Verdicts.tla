------------------------------ MODULE Verdicts ------------------------------
(***************************************************************************)
(* The verdict on a block's proof, and beside it the arithmetic on which   *)
(* it takes a hinTS signature for what it says. They share no state and    *)
(* are explored one at a time.                                             *)
(***************************************************************************)
EXTENDS ProofVerdict, Hints

VerdictsInit == Init /\ HintsInit

Judge == HintsInit /\ Next /\ UNCHANGED argument

CheckArgument == Init /\ HintsNext /\ UNCHANGED vars

VerdictsNext == Judge \/ CheckArgument

VerdictsSpec == VerdictsInit /\ [][VerdictsNext]_<<vars, argument>>
=============================================================================
