----------------------------- MODULE MCParsers -----------------------------
(***************************************************************************)
(* Blocks of up to five signed transactions and five results; bytes of     *)
(* four bits in integers of five (the second and last group of a varint    *)
(* has one bit too many), files of up to ten of them; rows of every        *)
(* kind of name, id, time and leg; eighty years back and ahead.            *)
(***************************************************************************)
EXTENDS Parsers, TLC

MCNumbers == {7}
MCRounds  == {3}
----------------------------------------------------------------------------
MCKnownFields   == {1, 2}
MCFieldNumbers  == {1, 2}
MCRareNumbers   == {0, 3, 4}
MCFieldPayloads == {<< >>, <<6>>}
----------------------------------------------------------------------------
(* Names as the two trees of definitions have them: alike, renamed between *)
(* the two, and in the newer one only.                                     *)
MCRecordNames == 0 :> "OK" @@ 22 :> "SUCCESS" @@ 511 :> "HOOK_IS_NOT_A_LAMBDA"
MCBlockNames  == 0 :> "OK" @@ 22 :> "SUCCESS" @@ 511 :> "HOOK_IS_NOT_AN_EVM_HOOK" @@ 527 :> "ADDED_LATER"
MCRecordTypes == 14 :> "cryptoTransfer" @@ 75 :> "lambdaSstore"
MCBlockTypes  == 14 :> "cryptoTransfer" @@ 75 :> "hookStore" @@ 77 :> "ledgerIdPublication"
MCCodes == {0, 22, 511, 527, 9999}
MCTypes == {14, 75, 77}

Payer5  == [account |-> 5]
ByAlias == [account |-> Absent]
Start   == [seconds |-> 4, nanos |-> 1]

MCIds == {Absent} \cup [account : {Absent, Payer5, ByAlias}, start : {Absent, Start}]

MCTimes == {Absent, [seconds |-> 0, nanos |-> 2], [seconds |-> 7, nanos |-> 0]}

Leg(account, amount)          == [account |-> account, amount |-> amount]
NftLeg(sender, receiver, nr, approval) ==
  [sender |-> sender, receiver |-> receiver, serial |-> nr, is_approval |-> approval]

(* No legs at all; a minted, a burnt and a sold token among fungible ones. *)
MCMovements ==
  {[hbar |-> Absent, tokens |-> << >>],
   [hbar   |-> <<Leg(Payer5, 3), Leg(Absent, 4)>>,
    tokens |-> <<[token |-> Absent, transfers |-> <<Leg(ByAlias, 2)>>,
                  nfts |-> <<NftLeg(Absent, Payer5, 1, FALSE)>>],
                 [token |-> [token |-> 8], transfers |-> << >>,
                  nfts |-> <<NftLeg(Payer5, ByAlias, 2, TRUE), NftLeg(Payer5, Absent, 3, FALSE)>>]>>]}
=============================================================================
