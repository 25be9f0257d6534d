---------------------------- MODULE ProofVerdict ----------------------------
(***************************************************************************)
(* The verdict on one block's in-band proof (src/block/proof over          *)
(* src/block/material.rs): resolve the bootstrap, check the hinTS          *)
(* signature over the root, then the suffix its scheme has; by way of      *)
(* `verify`, of verify_inclusion and of `chain-info --check-hints`.        *)
(*                                                                         *)
(* Signatures are terms that say what they sign and for whom; a pairing    *)
(* check compares terms. A curve's points are integers under addition. The *)
(* networks that make the parts are external.                              *)
(***************************************************************************)
EXTENDS Integers, Sequences, FiniteSets, FiniteSetsExt

CONSTANTS
  None,            \* nothing there
  Garbage,         \* a file that is no block, or has no signed proof
  Unopened,        \* a path that cannot be read
  Nets,            \* networks: real ones, test ones
  Heights,         \* the heights their blocks may have
  EpochOf,         \* the address-book epoch of each height
  SettledFrom,     \* the first epoch whose blocks carry a WRAPS proof
  Book,            \* each network's history proof keys, in publication order
  BadKey,          \* a key of another length or off the curve
  LedgerId,        \* each network's ledger id: a sequence of bytes
  Total,           \* each network's total weight
  LedgerLength,    \* 32
  BitvectorLength, \* 128
  U128,            \* 2^128
  Materials,       \* what extract_proof_material may make of the files judged
  Givens,          \* and of the genesis files given with them
  Recomputed       \* the roots that witnesses recompute

ASSUME ProofConstants ==
  /\ Heights \subseteq Nat /\ EpochOf \in [Heights -> Nat]
  (* iteration_guard takes for granted that history settles after two steps *)
  /\ SettledFrom \in Nat /\ SettledFrom > 1
  /\ \A n \in Nets : Book[n] \in Seq(Int \cup {BadKey}) /\ LedgerId[n] \in Seq(Nat)
  /\ Total \in [Nets -> Nat] /\ U128 \in Nat
  /\ LedgerLength \in Nat /\ BitvectorLength \in Nat
  /\ Garbage \in Materials /\ Unopened \notin Materials /\ None \notin Materials \cup Givens
----------------------------------------------------------------------------
(* What a network publishes and signs.                                     *)

(* The sum of some nodes' keys.                                            *)
Aggregate(book, nodes) == MapThenSumSet(LAMBDA i : book[i], nodes)

Blocks == [net : Nets, height : Heights]

(* The hinTS key of a block's epoch; readable: its points and its size n   *)
(* decode (deserialize_vk, get_root_of_unity).                             *)
KeyOf(b) == [net |-> b.net, epoch |-> EpochOf[b.height]]

VerificationKeyOf(b) == [of |-> KeyOf(b), total |-> Total[b.net], readable |-> TRUE]

SignatureOf(b, weight) == [over |-> b, by |-> KeyOf(b), weight |-> weight, readable |-> TRUE]

PublicationOf(n) ==
  [ledger_id |-> LedgerId[n], history_proof_verification_key |-> n, node_contributions |-> Book[n]]

(* message.extend(ledger_id[..32.min(len)]); message.resize(32, 0).        *)
Padded(id) == [i \in 1 .. LedgerLength |-> IF i <= Len(id) THEN id[i] ELSE 0]

(* The nodes in bits endorse the epoch's key with the aggregate key by; a  *)
(* settled network proves the whole history instead.                       *)
SuffixOf(b, bits, by) ==
  IF EpochOf[b.height] < SettledFrom
  THEN [kind |-> "schnorr", bits |-> bits, by |-> by,
        over |-> <<Padded(LedgerId[b.net]), KeyOf(b)>>]
  ELSE [kind |-> "wraps", param |-> b.net, z_0 |-> LedgerId[b.net], z_i |-> KeyOf(b),
        steps |-> EpochOf[b.height], readable |-> TRUE]
----------------------------------------------------------------------------
(* The layout of a block signature: a short one is all suffix, any other   *)
(* is two fixed parts and a suffix whose length names the scheme.          *)
ShortLayout == [path |-> "unknown", hints_verification_key |-> None, hints_signature |-> None, suffix |-> None]

classify_layout(vk, sig, suffix) ==
  [path |-> suffix.kind, hints_verification_key |-> vk, hints_signature |-> sig, suffix |-> suffix]

(* A suffix of any other length.                                           *)
OtherSuffix == [kind |-> "unknown"]

IsTss(material) == material.layout.path \in {"schnorr", "wraps"}

(* Broken variant: a third is enough.                                      *)
ThresholdReached(weight, total) == (3 * weight) % U128 >= total

(* A plain comparison of u128 products: debug builds panic on overflow,    *)
(* release builds wrap.                                                    *)
ThresholdMet(weight, total) == (3 * weight) % U128 > total

(* Structural problems are "error", a well-formed signature passes or      *)
(* fails. The eight KZG and field identities tie the aggregate key and its *)
(* weight to the verification key and hold or fail together: sig.by.       *)
verify_hints(layout, root, build) ==
  LET vk == layout.hints_verification_key  sig == layout.hints_signature
  IN  IF vk = None THEN "error"
      ELSE IF ~ vk.readable \/ ~ sig.readable \/ sig.weight >= U128 THEN "error"
      ELSE IF build = "debug" /\ 3 * sig.weight >= U128 THEN "panic"
      ELSE IF vk.total >= U128 THEN "error"
      ELSE IF ThresholdMet(sig.weight, vk.total) /\ sig.over = root /\ sig.by = vk.of
      THEN "passed" ELSE "failed"

(* The contributions whose bit is set; a book may be longer than the bits. *)
Selected(book, bits) == {i \in bits \cap DOMAIN book : i <= BitvectorLength}

verify_schnorr(layout, bootstrap) ==
  LET book     == bootstrap.node_contributions
      selected == Selected(book, layout.suffix.bits)
      agg_pk   == Aggregate(book, selected)
  IN  IF book = << >> \/ \E i \in selected : book[i] = BadKey THEN "error"
      ELSE IF /\ selected # {} /\ agg_pk # 0
              /\ layout.suffix.by = agg_pk
              /\ layout.suffix.over = <<Padded(bootstrap.ledger_id), layout.hints_verification_key.of>>
      THEN "passed" ELSE "failed"

verify_wraps(layout, bootstrap) ==
  IF bootstrap.history_proof_verification_key = None \/ ~ layout.suffix.readable THEN "error"
  ELSE IF /\ Len(bootstrap.ledger_id) = LedgerLength /\ layout.suffix.z_0 = bootstrap.ledger_id
          /\ layout.suffix.z_i = layout.hints_verification_key.of
          /\ layout.suffix.steps > 1
          /\ layout.suffix.param = bootstrap.history_proof_verification_key
  THEN "passed" ELSE "failed"

(* Broken variant: the genesis block given comes first.                    *)
resolve_genesis_first(material, genesis) ==
  IF genesis \notin {None, Garbage, Unopened} THEN genesis.bootstrap
  ELSE IF material.bootstrap # None THEN material.bootstrap ELSE None

(* The block's own publication, else that of the genesis block given; None *)
(* is the error.                                                           *)
resolve_bootstrap(material, genesis) ==
  IF material.bootstrap # None THEN material.bootstrap
  ELSE IF genesis \in {None, Garbage, Unopened} THEN None ELSE genesis.bootstrap
----------------------------------------------------------------------------
(* Every part of a file was made by some network for some block of its     *)
(* own; the parts of one file need not belong together.                    *)
MadeVerificationKey(vk) ==
  vk # None /\ vk \in [of : {KeyOf(b) : b \in Blocks}, total : Nat, readable : BOOLEAN]

MadeSignature(sig) ==
  /\ sig \in [over : Blocks, by : {KeyOf(b) : b \in Blocks}, weight : Nat, readable : BOOLEAN]
  /\ sig.by = KeyOf(sig.over)

MadeSuffix(suffix) ==
  \/ suffix = OtherSuffix
  \/ /\ suffix.kind = "schnorr" /\ suffix.by \in Int
     /\ \E b \in Blocks : EpochOf[b.height] < SettledFrom /\ suffix = SuffixOf(b, suffix.bits, suffix.by)
  \/ /\ suffix.kind = "wraps"
     /\ \E b \in Blocks : EpochOf[b.height] >= SettledFrom /\ suffix = SuffixOf(b, {}, 0)

MadeByNetworks(m) ==
  /\ m.root \in Blocks
  /\ m.bootstrap \in {None} \cup {PublicationOf(n) : n \in Nets}
  /\ \/ m.layout = ShortLayout
     \/ LET vk == m.layout.hints_verification_key  sig == m.layout.hints_signature
            suffix == m.layout.suffix
        IN  /\ m.layout = classify_layout(vk, sig, suffix)
            /\ MadeVerificationKey(vk) /\ MadeSignature(sig) /\ MadeSuffix(suffix)

ASSUME FilesAreMade ==
  /\ \A m \in (Materials \cup Givens) \ {Garbage, Unopened} : MadeByNetworks(m)
  /\ Recomputed \subseteq Blocks
  /\ \A n \in Nets : n # None /\ PublicationOf(n) # None

(* Ledger ids are told apart by what the message has of them.              *)
ASSUME LedgersDiffer == \A n, o \in Nets : Padded(LedgerId[n]) = Padded(LedgerId[o]) => n = o
----------------------------------------------------------------------------
VARIABLES
  command,  \* "none", "verify", "inclusion" or "info"
  pc,       \* "idle", "resolve", "hints", "suffix", "info", "done"
  block,    \* the material of the file being judged
  genesis,  \* the genesis file given with it
  root,     \* the root the proof is checked over
  anchor,   \* the bootstrap resolved
  hints,    \* the hinTS checks
  outcome,  \* "none", "success", "failure", "error" or "panic"
  all_ok,   \* chain-info: no TSS block has failed its hints
  judged    \* history: what the TSS files chain-info has read are (Judgement)

vars == <<command, pc, block, genesis, root, anchor, hints, outcome, all_ok, judged>>

Init ==
  /\ command = "none" /\ pc = "idle" /\ block = None /\ genesis = None /\ root = None
  /\ anchor = None /\ hints = None /\ outcome = "none" /\ all_ok = TRUE /\ judged = {}

Ends(result) == pc' = "done" /\ outcome' = result

(* cmd_verify on a block file, with or without --bootstrap, which is read  *)
(* whether it is needed or not.                                            *)
Verify(material, given) ==
  /\ pc = "idle"
  /\ command' = "verify" /\ block' = material /\ genesis' = given
  /\ IF material = Garbage \/ given = Unopened
     THEN Ends("error") /\ UNCHANGED root
     ELSE pc' = "resolve" /\ root' = material.root /\ UNCHANGED outcome
  /\ UNCHANGED <<anchor, hints, all_ok, judged>>

(* verify_inclusion, with a witness and transaction bytes that recompute   *)
(* some root, and the bootstrap its callers resolve.                       *)
VerifyInclusion(material, given, recomputed) ==
  /\ pc = "idle" /\ material # Garbage /\ given # Unopened
  /\ command' = "inclusion" /\ block' = material /\ genesis' = given /\ root' = recomputed
  /\ pc' = "resolve"
  /\ UNCHANGED <<anchor, hints, outcome, all_ok, judged>>

Resolve ==
  /\ pc = "resolve"
  /\ anchor' = resolve_bootstrap(block, genesis)
  /\ IF anchor' = None \/ root # block.root THEN Ends("error") ELSE pc' = "hints" /\ UNCHANGED outcome
  /\ UNCHANGED <<command, block, genesis, root, hints, all_ok, judged>>

(* Broken variant: a structural problem is a check that failed.            *)
CheckHintsOn(build) ==
  /\ pc = "hints"
  /\ hints' = verify_hints(block.layout, root, build)
  /\ pc' = "suffix"
  /\ UNCHANGED <<command, block, genesis, root, anchor, outcome, all_ok, judged>>

CheckHints(build) ==
  /\ pc = "hints"
  /\ hints' = verify_hints(block.layout, root, build)
  /\ IF hints' \in {"error", "panic"} THEN Ends(hints') ELSE pc' = "suffix" /\ UNCHANGED outcome
  /\ UNCHANGED <<command, block, genesis, root, anchor, all_ok, judged>>

(* The suffix, then BlockProofVerification::valid over both.               *)
CheckSuffix ==
  /\ pc = "suffix"
  /\ LET suffix == CASE block.layout.path = "schnorr" -> verify_schnorr(block.layout, anchor)
                     [] block.layout.path = "wraps" -> verify_wraps(block.layout, anchor)
                     [] OTHER -> "error"
     IN  Ends(CASE suffix = "error" -> "error"
                [] suffix # "error" /\ hints = "passed" /\ suffix = "passed" -> "success"
                [] OTHER -> "failure")
  /\ UNCHANGED <<command, block, genesis, root, anchor, hints, all_ok, judged>>

(* What the networks meant of a TSS file's hinTS signature, against what   *)
(* the code computes of it: genuine, not, or genuine but too heavy for a   *)
(* u128 product.                                                           *)
Judgement(material) ==
  LET vk == material.layout.hints_verification_key  sig == material.layout.hints_signature
      sound == /\ vk.readable /\ sig.readable /\ sig.weight < U128 /\ vk.total < U128
               /\ sig.over = material.root /\ sig.by = vk.of
  IN  IF ~ sound \/ 3 * sig.weight <= vk.total THEN "broken"
      ELSE IF 3 * sig.weight >= U128 THEN "heavy" ELSE "genuine"

(* Broken variant: the last file decides.                                  *)
InfoFileLast(material, build) ==
  /\ pc \in {"idle", "info"} /\ material # Garbage
  /\ command' = "info" /\ pc' = "info"
  /\ all_ok' = (IsTss(material) => verify_hints(material.layout, material.root, build) = "passed")
  /\ judged' = IF IsTss(material) THEN judged \cup {Judgement(material)} ELSE judged
  /\ UNCHANGED <<block, genesis, root, anchor, hints, outcome>>

(* chain-info --check-hints, one file: the first that cannot be read ends  *)
(* the run; a layout that is not TSS is reported, not failed.              *)
InfoFile(material, build) ==
  /\ pc \in {"idle", "info"}
  /\ command' = "info"
  /\ IF material = Garbage
     THEN Ends("error") /\ UNCHANGED <<all_ok, judged>>
     ELSE LET passed == verify_hints(material.layout, material.root, build)
          IN  /\ IF IsTss(material) /\ passed = "panic"
                 THEN Ends("panic") ELSE pc' = "info" /\ UNCHANGED outcome
              /\ all_ok' = (all_ok /\ (IsTss(material) => passed = "passed"))
              /\ judged' = IF IsTss(material) THEN judged \cup {Judgement(material)} ELSE judged
  /\ UNCHANGED <<block, genesis, root, anchor, hints>>

InfoEnd ==
  /\ pc = "info"
  /\ Ends(IF all_ok THEN "success" ELSE "failure")
  /\ UNCHANGED <<command, block, genesis, root, anchor, hints, all_ok, judged>>

Next ==
  \/ /\ pc = "idle"
     /\ \E m \in Materials, g \in Givens \cup {None} :
          Verify(m, g) \/ \E b \in Recomputed : VerifyInclusion(m, g, b)
  \/ /\ pc \in {"idle", "info"}
     /\ \E m \in Materials, build \in {"debug", "release"} : InfoFile(m, build)
  \/ Resolve \/ CheckSuffix \/ InfoEnd
  \/ \E build \in {"debug", "release"} : CheckHints(build)

Spec == Init /\ [][Next]_vars
----------------------------------------------------------------------------
TypeOK ==
  /\ command \in {"none", "verify", "inclusion", "info"}
  /\ pc \in {"idle", "resolve", "hints", "suffix", "info", "done"}
  /\ \A file \in {block, genesis} : file \in {None, Garbage, Unopened} \/ MadeByNetworks(file)
  /\ root \in Blocks \cup {None}
  /\ anchor \in {None} \cup {PublicationOf(n) : n \in Nets}
  /\ hints \in {None, "passed", "failed", "error", "panic"}
  /\ pc = "suffix" => hints \in {"passed", "failed"}
  /\ outcome \in {"none", "success", "failure", "error", "panic"}
  /\ all_ok \in BOOLEAN /\ judged \subseteq {"genuine", "heavy", "broken"}

(* A block, or a transaction in it, is called verified only if the root    *)
(* recomputed for it is one that a network signed, with more than a third  *)
(* of its weight and the key of that block's epoch, and the bootstrap the  *)
(* run rests on is the publication of that very network: mixing up files   *)
(* of two blocks, epochs or networks is always noticed (mod.rs:62-126).    *)
ValidIsAnchored ==
  outcome = "success" /\ command \in {"verify", "inclusion"} =>
    LET layout == block.layout
    IN  /\ root = block.root
        /\ layout.hints_signature.over = root
        /\ layout.hints_verification_key.of = KeyOf(root)
        /\ 3 * layout.hints_signature.weight > layout.hints_verification_key.total
        /\ anchor = PublicationOf(root.net)

(* The bits of a suffix that the network may set: nodes it has, with keys  *)
(* in order, whose sum is a key.                                           *)
SigningSets(n) ==
  {bits \in SUBSET (DOMAIN Book[n] \cap 1 .. BitvectorLength) :
     /\ bits # {} /\ \A i \in bits : Book[n][i] # BadKey
     /\ Aggregate(Book[n], bits) # 0}

(* A file as its network made it, every part for the same block.           *)
Genuine(m) ==
  LET b == m.root  sig == m.layout.hints_signature
  IN  /\ m.layout.path # "unknown" /\ m.layout.hints_verification_key = VerificationKeyOf(b)
      /\ sig = SignatureOf(b, sig.weight) /\ 3 * sig.weight > Total[b.net] /\ 3 * sig.weight < U128
      /\ \E bits \in SigningSets(b.net) : m.layout.suffix = SuffixOf(b, bits, Aggregate(Book[b.net], bits))
      /\ EpochOf[b.height] >= SettledFrom => Len(LedgerId[b.net]) = LedgerLength

(* A genuine block verifies, in every epoch and under both schemes, with   *)
(* its own publication whatever genesis file is given, or with that of its *)
(* network's genesis block (material.rs:238-264); and so does a witness of *)
(* a transaction in it.                                                    *)
GenuineVerifies ==
  LET published == PublicationOf(block.root.net)
  IN  /\ pc = "done" /\ command \in {"verify", "inclusion"} /\ block # Garbage /\ genesis # Unopened
      /\ root = block.root /\ Genuine(block)
      /\ \/ block.bootstrap = published
         \/ block.bootstrap = None /\ genesis \notin {None, Garbage} /\ genesis.bootstrap = published
      => outcome = "success"

(* chain-info --check-hints fails exactly if some TSS file it was given    *)
(* has no genuine hinTS signature over its own root, wherever in the list  *)
(* it stands; a layout that is not TSS never fails it (cli/mod.rs:150-160).*)
InfoIsEveryHints ==
  command = "info" =>
    /\ outcome = "success" => "broken" \notin judged
    /\ outcome = "failure" => judged \cap {"broken", "heavy"} # {}
=============================================================================
