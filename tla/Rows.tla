-------------------------------- MODULE Rows --------------------------------
(***************************************************************************)
(* A transaction as a row, twice: parse_item (src/record/mod.rs) reads it  *)
(* from an item of a record file, transaction_from (src/block/mod.rs) from *)
(* a signed transaction and its result in a block. The two are separate    *)
(* code over separately vendored message definitions, and downstream the   *)
(* rows are one table.                                                     *)
(*                                                                         *)
(* The network, which writes a transaction in either form, is not in this  *)
(* repository. An id or a message that may be absent is Absent; an entity    *)
(* written out ("0.0.n", or "" for none) is <<n>> or << >>.                *)
(***************************************************************************)
EXTENDS Calendar, Sequences, SequencesExt, TLC

CONSTANTS
  Absent,
  RecordNames, BlockNames,  \* the response codes each era's definitions name
  RecordTypes, BlockTypes,  \* the transaction types each era's definitions name
  Codes, Types,             \* the codes and types the network uses; some unnamed
  Ids, Times, Movements     \* transaction ids, times and transfer lists it uses

(* What a body and the messages around it may hold; and Absent is none of  *)
(* the messages.                                                           *)
Maybe(S) == S \cup {Absent}
Body     == [transaction_id : Ids, data : Maybe(Types)]
Holder   == [body : Maybe(Body)]

ASSUME AbsentIsNoMessage ==
  /\ Absent \notin Body /\ Absent \notin Holder /\ Absent \notin [status : Codes]
  /\ Absent \notin [signed : Maybe(Holder), body_bytes : Maybe(Holder), body : Maybe(Body)]

VARIABLES
  shown,       \* the transaction and the form its record file has it in
  record_row,  \* its row from the record file
  block_row    \* its row from the block

rows == <<shown, record_row, block_row>>
----------------------------------------------------------------------------
(* Helpers that both parsers have a copy of (record/mod.rs:39-108 and      *)
(* 173-213, block/mod.rs:55-125 and 163-202). The copies differ only in    *)
(* the definitions they name and stand here once; from which message a     *)
(* column is taken, and how a body is found and named, is each parser's    *)
(* own and stands twice. An account named by an alias has number 0.        *)

Number(account) == IF account = Absent THEN 0 ELSE account

account_entity_id(id) == IF id = Absent THEN << >> ELSE <<Number(id.account)>>

account_id(id) == IF id = Absent THEN Absent ELSE Number(id.account)

token_entity_id(id) == IF id = Absent THEN << >> ELSE <<id.token>>

token_id(id) == IF id = Absent THEN 0 ELSE id.token

consensus_string(ts) == IF ts = Absent THEN <<0, 0>> ELSE <<ts.seconds, ts.nanos>>

transaction_id_string(id) ==
  IF id = Absent THEN << >>
  ELSE IF id.account = Absent \/ id.start = Absent THEN << >>
  ELSE <<account_entity_id(id.account), consensus_string(id.start)>>

Payer(id) == IF id = Absent THEN << >> ELSE account_entity_id(id.account)

Seconds(ts) == IF ts = Absent THEN 0 ELSE ts.seconds

(* Transfers one after another, and the legs of the lists in their order:  *)
(* the list's token goes with each of them.                                *)
Hbar(list) == IF list = Absent THEN << >>
              ELSE [i \in DOMAIN list |->
                      [account |-> account_entity_id(list[i].account), amount |-> list[i].amount]]

Fungible(lists) ==
  FlattenSeq([n \in DOMAIN lists |-> [i \in DOMAIN lists[n].transfers |->
    [token   |-> token_entity_id(lists[n].token),
     account |-> account_entity_id(lists[n].transfers[i].account),
     amount  |-> lists[n].transfers[i].amount]]])

Nft(lists) ==
  FlattenSeq([n \in DOMAIN lists |-> [i \in DOMAIN lists[n].nfts |->
    [sender   |-> account_id(lists[n].nfts[i].sender),
     receiver |-> account_id(lists[n].nfts[i].receiver),
     token    |-> token_id(lists[n].token),
     serial   |-> lists[n].nfts[i].serial,
     is_approval |-> lists[n].nfts[i].is_approval]]])
----------------------------------------------------------------------------
(* record/mod.rs. Bytes that may hold a body: Absent when there are none,    *)
(* else what they decode to, which is Absent when they do not decode.        *)

(* Broken variant: bytes that do not decode fall through to the next form. *)
FirstThatDecodes(transaction) ==
  IF transaction = Absent THEN Absent
  ELSE IF transaction.signed # Absent /\ transaction.signed.body # Absent
       THEN transaction.signed.body
  ELSE IF transaction.body_bytes # Absent /\ transaction.body_bytes.body # Absent
       THEN transaction.body_bytes.body
  ELSE transaction.body

(* Of the three forms the first that is there counts, decodable or not.    *)
decode_body(transaction) ==
  IF transaction = Absent THEN Absent
  ELSE IF transaction.signed # Absent THEN transaction.signed.body
  ELSE IF transaction.body_bytes # Absent THEN transaction.body_bytes.body
  ELSE transaction.body

(* The case name of the body's oneof; a type that is not among an era's    *)
(* definitions is a field its decoder skips, and no case is set.           *)
CaseName(types, body) ==
  IF body = Absent THEN "unknown"
  ELSE IF body.data \in DOMAIN types THEN types[body.data] ELSE "unknown"

(* A code's name in the newer definitions, or its number.                  *)
BlockName(code) == IF code \in DOMAIN BlockNames THEN BlockNames[code] ELSE ToString(code)

response_code_name(code) ==
  IF code \in DOMAIN RecordNames THEN RecordNames[code] ELSE BlockName(code)

parse_item(item) ==
  IF item.record = Absent THEN Absent
  ELSE LET record == item.record
           status == IF record.receipt = Absent THEN 0 ELSE record.receipt.status
       IN  [day            |-> day_from_seconds(Seconds(record.consensus_timestamp)),
            timestamp      |-> consensus_string(record.consensus_timestamp),
            payer          |-> Payer(record.transaction_id),
            transaction_id |-> transaction_id_string(record.transaction_id),
            tx_type        |-> CaseName(RecordTypes, decode_body(item.transaction)),
            result_code    |-> status,
            result         |-> response_code_name(status),
            fee            |-> record.transaction_fee,
            transfers      |-> Hbar(record.transfer_list),
            token          |-> Fungible(record.token_transfer_lists),
            nft            |-> Nft(record.token_transfer_lists)]
----------------------------------------------------------------------------
(* block/mod.rs. The body is what body_of makes of the signed transaction  *)
(* before the result; which one that is, BlockItems says.                  *)

transaction_from(body, result) ==
  LET id == IF body = Absent THEN Absent ELSE body.transaction_id
  IN  [day            |-> day_from_seconds(Seconds(result.consensus_timestamp)),
       timestamp      |-> consensus_string(result.consensus_timestamp),
       payer          |-> Payer(id),
       transaction_id |-> transaction_id_string(id),
       tx_type        |-> CaseName(BlockTypes, body),
       result_code    |-> result.status,
       result         |-> BlockName(result.status),
       fee            |-> result.transaction_fee_charged,
       transfers      |-> Hbar(result.transfer_list),
       token          |-> Fungible(result.token_transfer_lists),
       nft            |-> Nft(result.token_transfer_lists)]
----------------------------------------------------------------------------
(* The network (external) puts one transaction into an item of a record    *)
(* file and into a block. Its id is in the record and in the body.         *)

Readable == {"signed", "bytes", "body"}
Readings   == Readable \cup {"garbled", "missing", "recordless"}

Held(body) == [body |-> body]

Envelope(body, form) ==
  IF form = "missing" THEN Absent
  ELSE [signed     |-> IF form = "signed" THEN Held(body)
                       ELSE IF form = "garbled" THEN Held(Absent) ELSE Absent,
        body_bytes |-> IF form = "bytes" THEN Held(body) ELSE Absent,
        body       |-> IF form \in {"body", "garbled"} THEN body ELSE Absent]

RecordItem(tx, form) ==
  [transaction |-> Envelope(tx.body, form),
   record |-> IF form = "recordless" THEN Absent
              ELSE [transaction_id       |-> tx.body.transaction_id,
                    receipt              |-> IF tx.status = Absent THEN Absent ELSE [status |-> tx.status],
                    consensus_timestamp  |-> tx.time,
                    transaction_fee      |-> tx.fee,
                    transfer_list        |-> tx.moves.hbar,
                    token_transfer_lists |-> tx.moves.tokens]]

ResultItem(tx) ==
  [status                  |-> IF tx.status = Absent THEN 0 ELSE tx.status,
   consensus_timestamp     |-> tx.time,
   transaction_fee_charged |-> tx.fee,
   transfer_list           |-> tx.moves.hbar,
   token_transfer_lists    |-> tx.moves.tokens]

Show(tx, form) ==
  /\ shown = Absent
  /\ shown' = [tx |-> tx, form |-> form]
  /\ record_row' = parse_item(RecordItem(tx, form))
  /\ block_row' = transaction_from(IF form \in Readable THEN tx.body ELSE Absent,
                                   ResultItem(tx))

RowsInit == shown = Absent /\ record_row = Absent /\ block_row = Absent

RowsNext ==
  \E body \in Body, status \in Maybe(Codes), time \in Times, moves \in Movements,
     form \in Readings :
    Show([body |-> body, status |-> status, time |-> time, fee |-> 1, moves |-> moves], form)

RowsSpec == RowsInit /\ [][RowsNext]_rows
----------------------------------------------------------------------------
(* Whether the two eras' definitions agree on a name, or neither has one.  *)
SameName(a, b, x) ==
  (x \in DOMAIN a \/ x \in DOMAIN b) => x \in DOMAIN a \cap DOMAIN b /\ a[x] = b[x]

(* A code only the newer definitions name has that name in both eras.      *)
SharedCode(code) == code \in DOMAIN RecordNames => SameName(RecordNames, BlockNames, code)

(* A transaction is the same row in both eras, column by column: the same  *)
(* day, payer, id, result, fee and legs, in the same order, from whichever *)
(* of its three forms the record file has it in, and with absent ids,      *)
(* receipts and timestamps turned into the same defaults. Left out are the *)
(* names the two sets of definitions disagree on, and, when the body does  *)
(* not decode, the payer and the id, which a block has nowhere else.       *)
RowsAgree ==
  record_row # Absent =>
    LET body == shown.tx.body
        but  == (IF shown.form \in Readable THEN {} ELSE {"payer", "transaction_id"})
                \cup (IF SharedCode(record_row.result_code) THEN {} ELSE {"result"})
                \cup (IF SameName(RecordTypes, BlockTypes, body.data) THEN {} ELSE {"tx_type"})
    IN  \A column \in DOMAIN block_row \ but : record_row[column] = block_row[column]

(* record/mod.rs:139-144 calls the two enums of response codes the same    *)
(* append-only one, and lib.rs:266-268 has equivalent transaction types    *)
(* map to the same case name in both eras: a transaction whose code and    *)
(* type both sets of definitions know has the same names in both rows.     *)
SameNameInBothEras ==
  record_row # Absent =>
    /\ shown.tx.status \in DOMAIN RecordNames \cap DOMAIN BlockNames =>
         record_row.result = block_row.result
    /\ shown.form \in Readable /\ shown.tx.body.data \in DOMAIN RecordTypes \cap DOMAIN BlockTypes =>
         record_row.tx_type = block_row.tx_type
=============================================================================
