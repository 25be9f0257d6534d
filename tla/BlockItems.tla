----------------------------- MODULE BlockItems -----------------------------
(***************************************************************************)
(* How parse_block (src/block/mod.rs) pairs the items of one block: a user *)
(* transaction is a SignedTransaction item, its outcome the next           *)
(* TransactionResult item. The network, which is not in this repository,   *)
(* is what the comment at 262-272 says of it: a state-signature            *)
(* transaction never gets a result, and a node-created transaction has a   *)
(* result and no SignedTransaction item. Where that result may stand among *)
(* the others is OrphanPlaces.                                             *)
(***************************************************************************)
EXTENDS Naturals, Sequences

CONSTANTS
  OrphanPlaces,    \* where a result without a signed transaction may stand
  Numbers, Rounds, \* block and round numbers
  None,            \* no body, no transaction
  MaxSigned, MaxResults, MaxRounds   \* bounds: items of each kind in a block

ASSUME BlockItemsConstants ==
  /\ OrphanPlaces \subseteq {"following", "preceding", "afterSignature"}
  /\ Numbers \subseteq Nat /\ Rounds \subseteq Nat
  /\ None \notin Nat
  /\ MaxSigned \in Nat /\ MaxResults \in Nat /\ MaxRounds \in Nat

VARIABLES
  \* the network's side
  signed,       \* the signed transactions so far: their kind, and if they decode
  open,         \* the user transaction whose result comes next, or None
  results,      \* the results so far: the transaction each is of, or None
  \* the locals of parse_block
  block_number, rounds, pending,
  transactions  \* the rows: the result, and the body it was paired with

network == <<signed, open, results>>
parser  == <<block_number, rounds, pending, transactions>>
vars    == <<signed, open, results, block_number, rounds, pending, transactions>>

Init ==
  /\ signed = << >> /\ open = None /\ results = << >>
  /\ block_number = 0 /\ rounds = << >> /\ pending = None /\ transactions = << >>
----------------------------------------------------------------------------
(* The arms of the match, one per kind of item.                            *)

BlockHeader(n) ==
  /\ block_number' = n
  /\ UNCHANGED <<rounds, pending, transactions>>

RoundHeader(r) ==
  /\ rounds' = Append(rounds, r)
  /\ UNCHANGED <<block_number, pending, transactions>>

(* Broken variant: what does not decode leaves the body before it pending. *)
LastDecoded(t, decodes) == IF decodes THEN t ELSE pending

(* A body is named by the place of its signed transaction in the block.    *)
body_of(t, decodes) == IF decodes THEN t ELSE None

SignedTransaction(t, decodes) ==
  /\ pending' = body_of(t, decodes)
  /\ UNCHANGED <<block_number, rounds, transactions>>

(* A row; a body that is None is the type "unknown" and the empty payer.   *)
Paired(body, result) == [result |-> result, body |-> body]

(* Broken variant: a result does not use its body up.                      *)
KeptPending(r) ==
  /\ transactions' = Append(transactions, Paired(pending, r))
  /\ UNCHANGED <<block_number, rounds, pending>>

TransactionResult(r) ==
  /\ transactions' = Append(transactions, Paired(pending, r))
  /\ pending' = None
  /\ UNCHANGED <<block_number, rounds>>
----------------------------------------------------------------------------
(* The network's items, each read as it comes.                             *)

SendHeader(n) == BlockHeader(n) /\ UNCHANGED network

SendRound(r) ==
  /\ Len(rounds) < MaxRounds
  /\ RoundHeader(r) /\ UNCHANGED network

SendSigned(kind, decodes) ==
  LET t == Len(signed) + 1
  IN  /\ Len(signed) < MaxSigned /\ open = None
      /\ signed' = Append(signed, [kind |-> kind, decodes |-> decodes])
      /\ open' = IF kind = "user" THEN t ELSE None
      /\ SignedTransaction(t, decodes)
      /\ UNCHANGED results

SendResult ==
  /\ open # None /\ Len(results) < MaxResults
  /\ results' = Append(results, open) /\ open' = None
  /\ TransactionResult(Len(results) + 1)
  /\ UNCHANGED signed

(* The place a result would have that stood here.                          *)
Here == IF open # None THEN "preceding"
        ELSE IF signed # << >> /\ signed[Len(signed)].kind = "signature" THEN "afterSignature"
        ELSE "following"

SendOrphan ==
  /\ Here \in OrphanPlaces /\ Len(results) < MaxResults
  /\ results' = Append(results, None)
  /\ TransactionResult(Len(results) + 1)
  /\ UNCHANGED <<signed, open>>

Next ==
  \/ \E n \in Numbers : SendHeader(n)
  \/ \E r \in Rounds : SendRound(r)
  \/ \E kind \in {"user", "signature"}, decodes \in BOOLEAN : SendSigned(kind, decodes)
  \/ SendResult
  \/ SendOrphan

Spec == Init /\ [][Next]_vars
----------------------------------------------------------------------------
Txs == 1 .. Len(signed)

(* The values of the variables. A body that is pending is that of the      *)
(* latest signed transaction (it is superseded by the next one).           *)
TypeOK ==
  /\ signed \in Seq([kind : {"user", "signature"}, decodes : BOOLEAN])
  /\ open \in Txs \cup {None}
  /\ results \in Seq(Txs \cup {None})
  /\ block_number \in Numbers \cup {0} /\ rounds \in Seq(Rounds)
  /\ pending \in Txs \cup {None} /\ (pending # None => pending = Len(signed))
  /\ transactions \in Seq([result : 1 .. Len(results), body : Txs \cup {None}])

(* The body result r should be shown with: its own transaction's, if there *)
(* is one and it decodes.                                                  *)
Own(r) ==
  IF results[r] # None /\ signed[results[r]].decodes THEN results[r] ELSE None

(* Every result is one row, in the order of the block, and its row has the *)
(* body of its own transaction: never another's, never a state             *)
(* signature's, and never none where there is one.                         *)
RowsHaveTheirOwnBody ==
  /\ Len(transactions) = Len(results)
  /\ \A r \in 1 .. Len(transactions) :
       transactions[r] = [result |-> r, body |-> Own(r)]

(* mod.rs:267-270: a result with no SignedTransaction item of its own is   *)
(* kept as a row of type "unknown" with an empty payer.                    *)
OrphansAreUnknown ==
  \A r \in 1 .. Len(transactions) : results[r] = None => transactions[r].body = None
=============================================================================
