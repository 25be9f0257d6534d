------------------------------ MODULE Material ------------------------------
(***************************************************************************)
(* The two passes over the wire items of one block                         *)
(* (src/block/material.rs): scan_block computes the block root, and        *)
(* block_inclusion_witness, a second copy of the same walk, what proves a  *)
(* transaction to be under it. The items are the file's and come one by    *)
(* one; every prefix is a block of its own, so what either pass returns is *)
(* defined in every state.                                                 *)
(***************************************************************************)
EXTENDS Merkle, FiniteSets

CONSTANTS
  Kinds,       \* kinds of items: the oneof fields of BlockItem
  Footers,     \* block footers
  Signatures,  \* block signatures
  None,        \* an absent value
  MaxItems, MaxPlain,  \* bounds: items, and items that are no readable transactions
  MaxPublications      \* bound: publications among the signed ones

(* The bytes of an item, told apart by its place among the items of its    *)
(* tree; those of the timestamp; and a hash read from the footer, which    *)
(* the wire lets have any length.                                          *)
Bytes(n, kind) == <<n, kind>>
TimestampBytes == <<1, "timestamp">>
Raw(hash)      == <<"raw", hash>>
Zeros          == Raw("zeros")
Lengths        == {"full", "empty", "odd"}   \* 48 bytes, none, any other number

Trees == {"input", "output", "consensus", "state_changes", "trace"}

ASSUME MaterialConstants ==
  /\ None \notin Trees /\ \A n \in 1 .. MaxItems : Bytes(n, "signed") # None
  /\ Footers \subseteq [prev : Lengths, all : Lengths, state : Lengths]
  /\ MaxItems \in Nat /\ MaxPlain \in Nat /\ MaxPublications \in Nat
  /\ MaxItems < Size[UsizeBits]

(* Which tree scan_block feeds with an item, and which the witness does.   *)
ScanTree ==
  [header |-> "output", result |-> "output", output |-> "output",
   event |-> "consensus", round |-> "consensus", signed |-> "input",
   state_changes |-> "state_changes", trace |-> "trace"]

(* Broken variant: round headers are missing from one copy of the match.   *)
WithoutRounds ==
  [header |-> "output", result |-> "output", output |-> "output",
   event |-> "consensus", signed |-> "input",
   state_changes |-> "state_changes", trace |-> "trace"]

WitnessTree ==
  [header |-> "output", result |-> "output", output |-> "output",
   event |-> "consensus", round |-> "consensus", signed |-> "input",
   state_changes |-> "state_changes", trace |-> "trace"]

(* Broken variant: one copy lets a redacted item pass.                     *)
OnlyFiltered == {"filtered", "unknown"}

WitnessRejects == {"filtered", "redacted", "unknown"}
ScanRejects == {"filtered", "redacted", "unknown"}

ASSUME KindsAreTheWires ==
  Kinds \subseteq DOMAIN ScanTree \cup ScanRejects \cup {"proof", "footer", "record"}

VARIABLES
  fed,               \* (the file) how many items each tree has got
  published,         \* (history) places of the publications the scan has read
  \* the locals of scan_block
  trees, header, footer, block_signature, bootstrap, failed,
  \* the locals of block_inclusion_witness
  input_leaves, input_item_bytes, w_trees, w_header, w_footer, w_failed,
  items              \* how many items there are, and how many plain ones

scan    == <<trees, header, footer, block_signature, bootstrap, failed>>
witness == <<input_leaves, input_item_bytes, w_trees, w_header, w_footer, w_failed>>
vars    == <<fed, published, trees, header, footer, block_signature, bootstrap, failed,
             input_leaves, input_item_bytes, w_trees, w_header, w_footer, w_failed, items>>

Init ==
  /\ fed = [t \in Trees |-> 0] /\ published = {} /\ items = [all |-> 0, plain |-> 0]
  /\ trees = [t \in Trees |-> Hasher]
  /\ header = None /\ footer = None /\ block_signature = None /\ bootstrap = None
  /\ failed = "no"
  /\ input_leaves = << >> /\ input_item_bytes = << >>
  /\ w_trees = [t \in Trees \ {"input"} |-> Hasher]
  /\ w_header = None /\ w_footer = None /\ w_failed = "no"
----------------------------------------------------------------------------
(* The items a file may hold: what a typed view tells of each, and whether *)
(* there is one.                                                           *)
Plain(kind)  == [kind |-> kind, decodes |-> TRUE, view |-> None]
HeaderItem   == [kind : {"header"}, decodes : BOOLEAN, view : {TimestampBytes, NoBytes}]
FooterItem   == [kind : {"footer"}, decodes : BOOLEAN, view : Footers]
ProofItem    == [kind : {"proof"}, decodes : BOOLEAN, view : Signatures \cup {None}]
Publication  == [kind : {"signed"}, decodes : {TRUE}, view : {"publication"}]
Transaction  == Publication \cup [kind : {"signed"}, decodes : {TRUE}, view : {"other"}]
SignedItem   == Transaction \cup [kind : {"signed"}, decodes : {FALSE}, view : {None}]

Item ==
  {i \in HeaderItem \cup FooterItem \cup ProofItem \cup SignedItem : i.kind \in Kinds}
  \cup {Plain(k) : k \in Kinds \ {"header", "footer", "proof", "signed"}}

(* Broken variant: a later transaction that is no publication erases it.   *)
LastBootstrap(view, bytes) == IF view = "publication" THEN bytes ELSE None

(* A publication is named by the bytes of its item; the first one stays.   *)
NextBootstrap(view, bytes) ==
  IF bootstrap # None THEN bootstrap ELSE IF view = "publication" THEN bytes ELSE None

(* scan_block's turn of the loop: the leaf is hashed before the item is    *)
(* decoded, and a proof of another scheme leaves the signature as it is.   *)
ScanItem(item, bytes) ==
  /\ trees' = IF item.kind \in DOMAIN ScanTree
              THEN [trees EXCEPT ![ScanTree[item.kind]] = add_leaf(@, hash_leaf(bytes))]
              ELSE trees
  /\ failed' = CASE item.kind \in ScanRejects -> "rejected"
                 [] ~ item.decodes            -> "undecodable"
                 [] OTHER                     -> "no"
  /\ header' = IF item.kind = "header" /\ item.decodes THEN item.view ELSE header
  /\ footer' = IF item.kind = "footer" /\ item.decodes THEN item.view ELSE footer
  /\ block_signature' = IF item.kind = "proof" /\ item.decodes /\ item.view # None
                        THEN item.view ELSE block_signature
  /\ bootstrap' = IF item.kind = "signed" /\ item.decodes THEN NextBootstrap(item.view, bytes) ELSE bootstrap

(* The other copy: it only decodes the header and the footer.              *)
WitnessItem(item, bytes) ==
  LET tree == IF item.kind \in DOMAIN WitnessTree THEN WitnessTree[item.kind] ELSE None
  IN  /\ IF tree = "input"
         THEN /\ input_leaves' = Append(input_leaves, hash_leaf(bytes))
              /\ input_item_bytes' = Append(input_item_bytes, bytes)
         ELSE UNCHANGED <<input_leaves, input_item_bytes>>
      /\ w_trees' = IF tree \in DOMAIN w_trees
                    THEN [w_trees EXCEPT ![tree] = add_leaf(@, hash_leaf(bytes))]
                    ELSE w_trees
      /\ w_failed' = CASE item.kind \in WitnessRejects -> "rejected"
                       [] item.kind \in {"header", "footer"} /\ ~ item.decodes -> "undecodable"
                       [] OTHER -> "no"
      /\ w_header' = IF item.kind = "header" /\ item.decodes THEN item.view ELSE w_header
      /\ w_footer' = IF item.kind = "footer" /\ item.decodes THEN item.view ELSE w_footer

(* One more item of the file; a pass that failed has returned.             *)
NextItem(item) ==
  LET tree  == IF item.kind \in DOMAIN ScanTree THEN ScanTree[item.kind] ELSE None
      bytes == IF tree = None THEN NoBytes ELSE Bytes(fed[tree] + 1, item.kind)
  IN  /\ "no" \in {failed, w_failed}
      /\ items.all < MaxItems /\ (item \in Transaction \/ items.plain < MaxPlain)
      /\ items' = [all   |-> items.all + 1,
                   plain |-> items.plain + (IF item \in Transaction THEN 0 ELSE 1)]
      /\ fed' = IF tree = None THEN fed ELSE [fed EXCEPT ![tree] = @ + 1]
      /\ IF item \in Publication /\ failed = "no"
         THEN /\ Cardinality(published) < MaxPublications
              /\ published' = published \cup {fed[tree] + 1}
         ELSE UNCHANGED published
      /\ IF failed = "no" THEN ScanItem(item, bytes) ELSE UNCHANGED scan
      /\ IF w_failed = "no" THEN WitnessItem(item, bytes) ELSE UNCHANGED witness

Next == \E item \in Item : NextItem(item)

Spec == Init /\ [][Next]_vars
----------------------------------------------------------------------------
(* What the passes return, were the file to end here.                      *)

ScanFails == failed # "no" \/ None \in {header, footer}

fixed_root(f, state, roots) ==
  LET depth5_1 == hash_internal(f.prev, f.all)
      depth5_2 == hash_internal(state, roots["consensus"])
      depth5_3 == hash_internal(roots["input"], roots["output"])
      depth5_4 == hash_internal(roots["state_changes"], roots["trace"])
  IN  hash_internal_single_child(hash_internal(hash_internal(depth5_1, depth5_2),
                                               hash_internal(depth5_3, depth5_4)))

state_root(f) == IF f.state = "empty" THEN Zeros ELSE Raw(f.state)

block_root ==
  hash_internal(hash_leaf(header),
                fixed_root([prev |-> Raw(footer.prev), all |-> Raw(footer.all)],
                           state_root(footer), [t \in Trees |-> root(trees[t])]))

(* to_hash48 fails on any other length; an empty state root is zeros.      *)
WitnessFails(index) ==
  \/ w_failed # "no" \/ None \in {w_header, w_footer}
  \/ index >= Len(input_item_bytes)
  \/ w_footer.state = "odd" \/ w_footer.prev # "full" \/ w_footer.all # "full"

block_inclusion_witness(index) ==
  [input_witness |-> witness_for(input_leaves, index),
   roots         |-> [t \in DOMAIN w_trees |-> root(w_trees[t])],
   state_root    |-> state_root(w_footer),
   chain         |-> [prev |-> Raw(w_footer.prev), all |-> Raw(w_footer.all)],
   timestamp     |-> w_header]

recompute_block_root(bytes, w) ==
  LET input_root == fold_witness(hash_leaf(bytes), w.input_witness)
  IN  hash_internal(hash_leaf(w.timestamp),
        fixed_root(w.chain, w.state_root,
          [t \in Trees |-> IF t = "input" THEN input_root ELSE w.roots[t]]))
----------------------------------------------------------------------------
Indices == 0 .. Len(input_item_bytes) - 1
HasherOK(h) == /\ h.leaf_count \in 0 .. MaxItems
               /\ Len(h.stack) = Cardinality({k \in 0 .. h.leaf_count : Bit(h.leaf_count, k)})

(* The values of the variables; a hasher's stack has one root per set bit  *)
(* of its count of leaves (merkle.rs:36-37).                               *)
TypeOK ==
  /\ fed \in [Trees -> 0 .. MaxItems] /\ items \in [all : 0 .. MaxItems, plain : 0 .. MaxPlain]
  /\ DOMAIN trees = Trees /\ \A t \in Trees : HasherOK(trees[t])
  /\ DOMAIN w_trees = Trees \ {"input"} /\ \A t \in DOMAIN w_trees : HasherOK(w_trees[t])
  /\ {header, w_header} \subseteq {TimestampBytes, NoBytes, None}
  /\ {footer, w_footer} \subseteq Footers \cup {None}
  /\ block_signature \in Signatures \cup {None}
  /\ bootstrap \in {None} \cup {Bytes(n, "signed") : n \in 1 .. MaxItems}
  /\ published \subseteq 1 .. MaxItems
  /\ {failed, w_failed} \subseteq {"no", "rejected", "undecodable"}
  /\ Len(input_leaves) = Len(input_item_bytes)

(* merkle.rs:151-152: the root over the leaves kept by the witness is what *)
(* the streaming hasher got from the same leaves one by one.               *)
StreamIsBatch ==
  "no" = failed /\ "no" = w_failed => root(trees["input"]) = merkle_root(input_leaves)

(* Each signed transaction of a block that has a root and 48-byte hashes   *)
(* has a witness, and every witness recomputes exactly that root           *)
(* (material.rs:401-408).                                                  *)
WitnessReachesRoot ==
  ~ ScanFails =>
    \A i \in Indices :
      /\ (footer.prev = "full" /\ footer.all = "full" /\ footer.state # "odd") => ~ WitnessFails(i)
      /\ ~ WitnessFails(i) =>
           recompute_block_root(input_item_bytes[i + 1], block_inclusion_witness(i)) = block_root

(* No other item, nor nothing at all, passes for the transaction a witness *)
(* was made for (verify_inclusion's root comparison, proof/mod.rs:103).    *)
WitnessIsForOneItem ==
  \A i \in Indices : ~ ScanFails /\ ~ WitnessFails(i) =>
    \A bytes \in {input_item_bytes[j + 1] : j \in Indices \ {i}} \cup {NoBytes} :
      recompute_block_root(bytes, block_inclusion_witness(i)) # block_root

(* The two copies of the walk accept the same blocks: a witness is given   *)
(* only where there is a root to reach, unless the scan stopped at a proof *)
(* or a transaction that does not decode: the witness looks into neither.  *)
PassesAgree ==
  (\E i \in Indices : ~ WitnessFails(i)) => ~ ScanFails \/ failed = "undecodable"

(* What a block announces as its bootstrap (material.rs:337) is its first  *)
(* publication, wherever publications and other transactions fall; it is   *)
(* the transaction the other pass keeps at that place, so what witnesses   *)
(* that place proves the anchor itself to be under the block's root.       *)
BootstrapIsFirstPublication ==
  ~ ScanFails =>
    IF published = {} THEN bootstrap = None
    ELSE \E i \in Indices :
           /\ bootstrap = input_item_bytes[i + 1]
           /\ i + 1 \in published /\ \A place \in published : i + 1 <= place
           /\ ~ WitnessFails(i) =>
                recompute_block_root(bootstrap, block_inclusion_witness(i)) = block_root
=============================================================================
