--------------------------- MODULE VerdictsProofs ---------------------------
(***************************************************************************)
(* For all networks, books, ledger ids, epochs, bounds and files put       *)
(* together from parts the networks made: a verdict of verified is         *)
(* anchored in the network that made the block, a genuine block verifies,  *)
(* and chain-info answers for every file of its list. And for every group  *)
(* order, committee and claim: the identities of a hinTS signature decide  *)
(* what is claimed.                                                        *)
(***************************************************************************)
EXTENDS Verdicts, FiniteSetTheorems, WellFoundedInduction, TLAPS

(***************************************************************************)
(* The verdict. An invariant ties the program counter to what has been     *)
(* established so far about the file: the bootstrap and the root after     *)
(* Resolve, the hinTS result after CheckHints, both results at the end.    *)
(***************************************************************************)
USE DEF Ends

(* The u128 product is the true one where it fits and less where it wraps. *)
LEMMA Tripled ==
  ASSUME NEW w \in Nat, NEW u \in Nat, u > 0
  PROVE  /\ (3 * w) % u <= 3 * w
         /\ 3 * w < u => (3 * w) % u = 3 * w
<1> DEFINE x == 3 * w
<1>1. x \in Nat
  OBVIOUS
<1>2. \A y \in Nat : y % u <= y /\ (y < u => y % u = y)
  OBVIOUS
<1> QED BY <1>1, <1>2

Judged == command \in {"verify", "inclusion"}

SuffixResult(layout, bootstrap) ==
  CASE layout.path = "schnorr" -> verify_schnorr(layout, bootstrap)
    [] layout.path = "wraps" -> verify_wraps(layout, bootstrap)
    [] OTHER -> "error"

(* What Resolve has established.                                           *)
Resolved ==
  /\ MadeByNetworks(block) /\ root = block.root
  /\ anchor # None /\ anchor = resolve_bootstrap(block, genesis)

(* What CheckHints has established.                                        *)
Hinted == hints \in {verify_hints(block.layout, root, build) : build \in {"debug", "release"}}

AInv ==
  /\ pc \in {"resolve", "hints", "suffix"} => Judged /\ MadeByNetworks(block) /\ block # Garbage
  /\ pc = "idle" => command = "none"
  /\ pc = "info" => command = "info"
  /\ pc \in {"idle", "resolve", "hints", "suffix", "info"} <=> outcome = "none"
  /\ pc \in {"hints", "suffix"} => Resolved
  /\ pc = "suffix" => Hinted
  /\ outcome = "success" /\ Judged =>
       Resolved /\ Hinted /\ hints = "passed" /\ SuffixResult(block.layout, anchor) = "passed"

VInv == TypeOK /\ AInv

LEMMA FileIsMade ==
  ASSUME NEW m \in Materials, m # Garbage
  PROVE  MadeByNetworks(m) /\ m # None /\ m # Unopened /\ m.root \in Blocks
BY FilesAreMade, ProofConstants DEF MadeByNetworks

LEMMA GivenIsMade ==
  ASSUME NEW g \in Givens \cup {None}
  PROVE  g \in {None, Garbage, Unopened} \/ MadeByNetworks(g)
BY FilesAreMade

LEMMA HintResults ==
  ASSUME NEW l, NEW r, NEW build
  PROVE  verify_hints(l, r, build) \in {"passed", "failed", "error", "panic"}
BY DEF verify_hints

LEMMA SuffixResults ==
  ASSUME NEW l, NEW b
  PROVE  SuffixResult(l, b) \in {"passed", "failed", "error"}
BY DEF SuffixResult, verify_schnorr, verify_wraps

LEMMA InitVInv == Init => VInv
BY DEF Init, VInv, TypeOK, AInv, Judged, Resolved, Hinted

LEMMA StepVInv == VInv /\ [Next]_vars => VInv'
<1> SUFFICES ASSUME VInv, [Next]_vars PROVE VInv'
  OBVIOUS
<1> USE DEF VInv
<1>1. ASSUME NEW m \in Materials, NEW g \in Givens \cup {None}, Verify(m, g) PROVE VInv'
  <2> USE <1>1 DEF Verify
  <2>1. TypeOK'
    BY FileIsMade, GivenIsMade DEF TypeOK
  <2>2. AInv'
    BY FileIsMade DEF AInv, Judged, TypeOK
  <2> QED BY <2>1, <2>2
<1>2. ASSUME NEW m \in Materials, NEW g \in Givens \cup {None}, NEW b \in Recomputed, VerifyInclusion(m, g, b)
      PROVE  VInv'
  <2> USE <1>2 DEF VerifyInclusion
  <2>1. TypeOK'
    BY FileIsMade, GivenIsMade, FilesAreMade DEF TypeOK
  <2>2. AInv'
    BY FileIsMade DEF AInv, Judged, TypeOK
  <2> QED BY <2>1, <2>2
<1>3. CASE Resolve
  <2> USE <1>3 DEF Resolve
  <2>1. MadeByNetworks(block) /\ Judged /\ block # Garbage /\ outcome = "none"
    BY DEF AInv
  <2>2. anchor' \in {None} \cup {PublicationOf(n) : n \in Nets}
    BY <2>1 DEF TypeOK, resolve_bootstrap, MadeByNetworks
  <2>3. TypeOK'
    BY <2>2 DEF TypeOK
  <2>4. CASE pc' = "hints"
    <3>1. Resolved' /\ outcome' = "none" /\ Judged'
      BY <2>1, <2>4 DEF Resolved, Judged
    <3> QED BY <3>1, <2>1, <2>3, <2>4 DEF AInv
  <2>5. CASE pc' = "done"
    BY <2>3, <2>5 DEF AInv
  <2> QED BY <2>4, <2>5
<1>4. ASSUME NEW build \in {"debug", "release"}, CheckHints(build) PROVE VInv'
  <2> USE <1>4 DEF CheckHints
  <2>1. Resolved /\ Judged /\ block # Garbage /\ outcome = "none"
    BY DEF AInv
  <2>2. hints' \in {"passed", "failed", "error", "panic"}
    BY HintResults
  <2>3. TypeOK'
    BY <2>2 DEF TypeOK
  <2>4. Resolved' /\ Hinted'
    BY <2>1 DEF Resolved, Hinted
  <2> QED BY <2>1, <2>2, <2>3, <2>4 DEF AInv, Judged, Resolved
<1>5. CASE CheckSuffix
  <2> USE <1>5 DEF CheckSuffix
  <2>1. Resolved /\ Hinted /\ Judged /\ outcome = "none"
    BY DEF AInv
  <2>2. SuffixResult(block.layout, anchor) \in {"passed", "failed", "error"}
    BY SuffixResults
  <2>3. /\ pc' = "done" /\ outcome' \in {"success", "failure", "error"}
        /\ outcome' = "success" => hints = "passed" /\ SuffixResult(block.layout, anchor) = "passed"
    BY <2>2 DEF SuffixResult
  <2>4. TypeOK'
    BY <2>3 DEF TypeOK
  <2>5. Resolved' /\ Hinted'
    BY <2>1 DEF Resolved, Hinted
  <2> QED BY <2>3, <2>4, <2>5 DEF AInv, Judged
<1>6. ASSUME NEW m \in Materials, NEW build \in {"debug", "release"}, InfoFile(m, build) PROVE VInv'
  <2> USE <1>6 DEF InfoFile
  <2>1. TypeOK'
    BY DEF TypeOK, Judgement
  <2>2. AInv'
    BY DEF AInv, Judged
  <2> QED BY <2>1, <2>2
<1>7. CASE InfoEnd
  BY <1>7 DEF InfoEnd, TypeOK, AInv, Judged
<1>8. CASE UNCHANGED vars
  BY <1>8 DEF vars, TypeOK, AInv, Judged, Resolved, Hinted
<1> QED BY <1>1, <1>2, <1>3, <1>4, <1>5, <1>6, <1>7, <1>8 DEF Next

THEOREM Invariance == Spec => []VInv
<1> QED BY InitVInv, StepVInv, PTL DEF Spec

(* Every variable keeps its type.                                          *)
THEOREM TypeCorrect == Spec => []TypeOK
<1>1. VInv => TypeOK
  BY DEF VInv
<1> QED BY <1>1, Invariance, PTL

(* A file's hinTS part passes only over the signed root, with the epoch's  *)
(* own key and more than a third.                                          *)
LEMMA PassedHints ==
  ASSUME NEW m, MadeByNetworks(m), NEW r, NEW build,
         verify_hints(m.layout, r, build) = "passed"
  PROVE  LET sig == m.layout.hints_signature  vk == m.layout.hints_verification_key
         IN  /\ MadeVerificationKey(vk) /\ MadeSignature(sig) /\ MadeSuffix(m.layout.suffix)
             /\ sig.over = r /\ vk.of = KeyOf(r) /\ 3 * sig.weight > vk.total
<1> DEFINE sig == m.layout.hints_signature
           vk == m.layout.hints_verification_key
<1>1. vk # None
  BY DEF verify_hints
<1>2. MadeVerificationKey(vk) /\ MadeSignature(sig) /\ MadeSuffix(m.layout.suffix)
  BY <1>1 DEF MadeByNetworks, ShortLayout
<1>3. /\ sig.weight \in Nat /\ vk.total \in Nat /\ sig.by = KeyOf(sig.over)
      /\ vk.readable \in BOOLEAN /\ sig.readable \in BOOLEAN
  BY <1>2 DEF MadeVerificationKey, MadeSignature
<1>5. ~ (sig.weight >= U128) /\ ThresholdMet(sig.weight, vk.total) /\ sig.over = r /\ sig.by = vk.of
  BY <1>1, <1>3 DEF verify_hints
<1>4. 3 * sig.weight > vk.total
  <2>1. U128 \in Nat /\ U128 > 0
    BY <1>3, <1>5, ProofConstants
  <2>2. (3 * sig.weight) % U128 \in Nat /\ (3 * sig.weight) % U128 <= 3 * sig.weight
    BY <1>3, <2>1, Tripled
  <2> QED BY <1>3, <1>5, <2>2 DEF ThresholdMet
<1> QED BY <1>2, <1>3, <1>4, <1>5

(* A suffix passes only against the publication of the network whose key   *)
(* it endorses.                                                            *)
LEMMA PassedSuffix ==
  ASSUME NEW m, MadeByNetworks(m), NEW n \in Nets, MadeSuffix(m.layout.suffix),
         m.layout.path = m.layout.suffix.kind,
         NEW b \in Blocks, m.layout.hints_verification_key.of = KeyOf(b),
         SuffixResult(m.layout, PublicationOf(n)) = "passed"
  PROVE  n = b.net
<1> DEFINE suffix == m.layout.suffix
           p == PublicationOf(n)
<1>1. p.ledger_id = LedgerId[n]
  BY DEF PublicationOf
<1>2. b.net \in Nets
  BY DEF Blocks
<1>3. CASE m.layout.path = "schnorr"
  <2>1. verify_schnorr(m.layout, p) = "passed"
    BY <1>3 DEF SuffixResult
  <2>2. suffix.over = <<Padded(LedgerId[n]), KeyOf(b)>>
    BY <2>1, <1>1 DEF verify_schnorr
  <2>3. PICK o \in Blocks : EpochOf[o.height] < SettledFrom /\ suffix = SuffixOf(o, suffix.bits, suffix.by)
    <3>1. suffix.kind = "schnorr"
      BY <1>3
    <3>2. suffix # OtherSuffix /\ suffix.kind # "wraps"
      BY <3>1 DEF OtherSuffix
    <3> QED BY <3>2 DEF MadeSuffix
  <2>4. suffix.over = <<Padded(LedgerId[o.net]), KeyOf(o)>>
    BY <2>3 DEF SuffixOf
  <2>5. Padded(LedgerId[n]) = Padded(LedgerId[o.net]) /\ KeyOf(b) = KeyOf(o)
    BY <2>2, <2>4
  <2>6. o.net = b.net
    BY <2>5 DEF KeyOf
  <2> QED BY <2>5, <2>6, <1>2, LedgersDiffer
<1>4. CASE m.layout.path = "wraps"
  <2>1. verify_wraps(m.layout, p) = "passed"
    BY <1>4 DEF SuffixResult
  <2>2. suffix.z_0 = LedgerId[n] /\ suffix.z_i = KeyOf(b)
    BY <2>1, <1>1 DEF verify_wraps
  <2>3. PICK o \in Blocks : EpochOf[o.height] >= SettledFrom /\ suffix = SuffixOf(o, {}, 0)
    <3>1. suffix.kind = "wraps"
      BY <1>4
    <3>2. suffix # OtherSuffix /\ suffix.kind # "schnorr"
      BY <3>1 DEF OtherSuffix
    <3> QED BY <3>2 DEF MadeSuffix
  <2>4. o.height \in Heights /\ EpochOf[o.height] \in Nat /\ SettledFrom \in Nat
    BY ProofConstants DEF Blocks
  <2>5. suffix.z_0 = LedgerId[o.net] /\ suffix.z_i = KeyOf(o)
    BY <2>3, <2>4 DEF SuffixOf
  <2>6. o.net = b.net /\ LedgerId[n] = LedgerId[o.net]
    BY <2>2, <2>5 DEF KeyOf
  <2> QED BY <2>6, <1>2, LedgersDiffer
<1>5. CASE m.layout.path \notin {"schnorr", "wraps"}
  BY <1>5 DEF SuffixResult
<1> QED BY <1>3, <1>4, <1>5

(* Whatever parts a file is put together from, verified means anchored in  *)
(* the publication of the network that signed its root.                    *)
THEOREM AnchoredForever == Spec => []ValidIsAnchored
<1>1. VInv => ValidIsAnchored
  <2> SUFFICES ASSUME VInv, outcome = "success", Judged
               PROVE  /\ root = block.root
                      /\ block.layout.hints_signature.over = root
                      /\ block.layout.hints_verification_key.of = KeyOf(root)
                      /\ 3 * block.layout.hints_signature.weight > block.layout.hints_verification_key.total
                      /\ anchor = PublicationOf(root.net)
    BY DEF ValidIsAnchored, Judged
  <2>1. /\ MadeByNetworks(block) /\ root = block.root /\ anchor # None
        /\ Hinted /\ hints = "passed" /\ SuffixResult(block.layout, anchor) = "passed"
    BY DEF VInv, AInv, Resolved
  <2>2. PICK build \in {"debug", "release"} : verify_hints(block.layout, root, build) = "passed"
    BY <2>1 DEF Hinted
  <2>3. /\ MadeSuffix(block.layout.suffix) /\ block.layout.hints_signature.over = root
        /\ block.layout.hints_verification_key.of = KeyOf(root)
        /\ 3 * block.layout.hints_signature.weight > block.layout.hints_verification_key.total
    BY <2>1, <2>2, PassedHints
  <2>4. PICK n \in Nets : anchor = PublicationOf(n)
    BY <2>1 DEF VInv, TypeOK
  <2>5. root \in Blocks
    BY <2>1 DEF MadeByNetworks
  <2>6. block.layout.path = block.layout.suffix.kind
    <3>1. block.layout # ShortLayout
      BY <2>2 DEF verify_hints, ShortLayout
    <3> QED BY <2>1, <3>1 DEF MadeByNetworks, classify_layout
  <2>7. n = root.net
    BY <2>1, <2>3, <2>4, <2>5, <2>6, PassedSuffix
  <2> QED BY <2>1, <2>3, <2>4, <2>7
<1> QED BY <1>1, Invariance, PTL
----------------------------------------------------------------------------
(* verify_hints over a file's own root says what the networks meant, short *)
(* of weights too heavy to triple.                                         *)
LEMMA HintsAreJudged ==
  ASSUME NEW m, MadeByNetworks(m), IsTss(m), NEW build \in {"debug", "release"}
  PROVE  /\ verify_hints(m.layout, m.root, build) = "passed" => Judgement(m) # "broken"
         /\ verify_hints(m.layout, m.root, build) # "passed" => Judgement(m) # "genuine"
<1> DEFINE sig == m.layout.hints_signature
           vk == m.layout.hints_verification_key
<1>1. m.layout # ShortLayout
  BY DEF IsTss, ShortLayout
<1>2. MadeVerificationKey(vk) /\ MadeSignature(sig)
  BY <1>1 DEF MadeByNetworks
<1>3. /\ sig.weight \in Nat /\ vk.total \in Nat /\ sig.by = KeyOf(sig.over)
      /\ vk.readable \in BOOLEAN /\ sig.readable \in BOOLEAN
  BY <1>2 DEF MadeVerificationKey, MadeSignature
<1>4. U128 \in Nat
  BY ProofConstants
<1> DEFINE sound == /\ vk.readable /\ sig.readable /\ sig.weight < U128 /\ vk.total < U128
                    /\ sig.over = m.root /\ sig.by = vk.of
<1>5. ASSUME verify_hints(m.layout, m.root, build) = "passed" PROVE Judgement(m) # "broken"
  <2>1. vk # None
    BY <1>5 DEF verify_hints
  <2>2. sound
    BY <1>3, <1>4, <1>5, <2>1 DEF verify_hints
  <2>3. 3 * sig.weight > vk.total
    BY <1>5, PassedHints
  <2>4. ~ (3 * sig.weight <= vk.total)
    BY <1>3, <2>3
  <2> QED BY <2>2, <2>4 DEF Judgement
<1>6. ASSUME Judgement(m) = "genuine" PROVE verify_hints(m.layout, m.root, build) = "passed"
  <2>1. sound /\ 3 * sig.weight > vk.total /\ 3 * sig.weight < U128
    BY <1>3, <1>4, <1>6 DEF Judgement
  <2>2. ThresholdMet(sig.weight, vk.total)
    <3>1. (3 * sig.weight) % U128 = 3 * sig.weight
      BY <1>3, <1>4, <2>1, Tripled
    <3> QED BY <2>1, <3>1 DEF ThresholdMet
  <2>3. vk # None
    BY <1>2 DEF MadeVerificationKey
  <2> QED BY <1>3, <1>4, <2>1, <2>2, <2>3 DEF verify_hints
<1> QED BY <1>5, <1>6

(* all_ok against the files read so far, and the exit against all_ok.      *)
JInv ==
  /\ all_ok => "broken" \notin judged
  /\ ~ all_ok => judged \cap {"broken", "heavy"} # {}
  /\ command = "info" /\ outcome = "success" => all_ok
  /\ command = "info" /\ outcome = "failure" => ~ all_ok

LEMMA StepJInv == VInv /\ JInv /\ [Next]_vars => JInv'
<1> SUFFICES ASSUME VInv, JInv, [Next]_vars PROVE JInv'
  OBVIOUS
<1>0. all_ok \in BOOLEAN /\ judged \subseteq {"genuine", "heavy", "broken"}
  BY DEF VInv, TypeOK
<1>1. ASSUME NEW m \in Materials, NEW build \in {"debug", "release"}, InfoFile(m, build) PROVE JInv'
  <2> USE <1>1 DEF InfoFile
  <2>1. outcome = "none"
    BY DEF VInv, AInv
  <2>2. CASE m = Garbage
    BY <2>1, <2>2 DEF JInv
  <2>3. CASE m # Garbage /\ ~ IsTss(m)
    BY <2>1, <2>3, <1>0 DEF JInv
  <2>4. CASE m # Garbage /\ IsTss(m)
    <3> DEFINE passed == verify_hints(m.layout, m.root, build)
    <3>1. /\ passed = "passed" => Judgement(m) # "broken"
          /\ passed # "passed" => Judgement(m) # "genuine"
      BY <2>4, FileIsMade, HintsAreJudged
    <3>2. Judgement(m) \in {"genuine", "heavy", "broken"}
      BY DEF Judgement
    <3>3. judged' = judged \cup {Judgement(m)} /\ all_ok' = (all_ok /\ passed = "passed")
      BY <2>4, <1>0
    <3>4. outcome' \in {"none", "panic"}
      BY <2>1, <2>4
    <3> HIDE DEF passed
    <3> QED BY <3>1, <3>2, <3>3, <3>4, <1>0 DEF JInv
  <2> QED BY <2>2, <2>3, <2>4
<1>2. CASE InfoEnd
  BY <1>0, <1>2 DEF InfoEnd, JInv
<1>3. CASE Resolve
  BY <1>3 DEF Resolve, JInv, VInv, AInv, Judged
<1>4. ASSUME NEW build \in {"debug", "release"}, CheckHints(build) PROVE JInv'
  BY <1>4 DEF CheckHints, JInv, VInv, AInv, Judged
<1>5. CASE CheckSuffix
  BY <1>5 DEF CheckSuffix, JInv, VInv, AInv, Judged
<1>6. ASSUME NEW m \in Materials, NEW g \in Givens \cup {None},
             Verify(m, g) \/ \E b \in Recomputed : VerifyInclusion(m, g, b)
      PROVE  JInv'
  BY <1>6 DEF Verify, VerifyInclusion, JInv
<1>7. CASE UNCHANGED vars
  BY <1>7 DEF vars, JInv
<1> QED BY <1>1, <1>2, <1>3, <1>4, <1>5, <1>6, <1>7 DEF Next

(* However long the list, chain-info's exit speaks for every file in it.   *)
THEOREM InfoForever == Spec => []InfoIsEveryHints
<1>1. Init => JInv
  BY DEF Init, JInv
<1>2. JInv => InfoIsEveryHints
  BY DEF JInv, InfoIsEveryHints
<1> QED BY <1>1, <1>2, StepJInv, Invariance, PTL DEF Spec
----------------------------------------------------------------------------
(* A genuine file, with the anchor of its own network within reach.        *)
GoodCase ==
  LET published == PublicationOf(block.root.net)
  IN  /\ Judged /\ block # Garbage /\ genesis # Unopened
      /\ root = block.root /\ Genuine(block)
      /\ \/ block.bootstrap = published
         \/ block.bootstrap = None /\ genesis \notin {None, Garbage} /\ genesis.bootstrap = published

GInv ==
  /\ pc = "suffix" /\ GoodCase => hints = "passed"
  /\ pc = "done" /\ GoodCase => outcome = "success"

LEMMA GoodAnchor ==
  ASSUME GoodCase, MadeByNetworks(block)
  PROVE  /\ resolve_bootstrap(block, genesis) = PublicationOf(block.root.net)
         /\ PublicationOf(block.root.net) # None
<1>1. block.root.net \in Nets
  BY DEF MadeByNetworks, Blocks
<1>2. PublicationOf(block.root.net) # None
  BY <1>1, FilesAreMade
<1> QED BY <1>2 DEF GoodCase, resolve_bootstrap

LEMMA GoodHints ==
  ASSUME GoodCase, MadeByNetworks(block), NEW build \in {"debug", "release"}
  PROVE  verify_hints(block.layout, block.root, build) = "passed"
<1> DEFINE sig == block.layout.hints_signature
           vk == block.layout.hints_verification_key
<1>1. Genuine(block) /\ block.layout.path # "unknown"
  BY DEF GoodCase, Genuine
<1>2. block.layout # ShortLayout
  BY <1>1 DEF ShortLayout
<1>3. MadeVerificationKey(vk) /\ MadeSignature(sig)
  BY <1>2 DEF MadeByNetworks
<1>4. sig.weight \in Nat /\ vk # None /\ block.root.net \in Nets
  BY <1>3 DEF MadeVerificationKey, MadeSignature, MadeByNetworks, Blocks
<1>5. /\ vk.of = KeyOf(block.root) /\ vk.total = Total[block.root.net] /\ vk.readable
  BY <1>1 DEF Genuine, VerificationKeyOf
<1>6. sig = SignatureOf(block.root, sig.weight)
  BY <1>1 DEF Genuine
<1>7. sig.over = block.root /\ sig.by = KeyOf(block.root) /\ sig.readable
  BY <1>6 DEF SignatureOf
<1>8. 3 * sig.weight > vk.total /\ 3 * sig.weight < U128
  BY <1>1, <1>5 DEF Genuine
<1>9. U128 \in Nat /\ vk.total \in Nat
  BY <1>4, <1>5, ProofConstants
<1>10. ThresholdMet(sig.weight, vk.total) /\ sig.weight < U128 /\ vk.total < U128
  <2>1. (3 * sig.weight) % U128 = 3 * sig.weight
    BY <1>4, <1>8, <1>9, Tripled
  <2> QED BY <1>4, <1>8, <1>9, <2>1 DEF ThresholdMet
<1> QED BY <1>4, <1>5, <1>7, <1>8, <1>9, <1>10 DEF verify_hints

LEMMA GoodSuffix ==
  ASSUME GoodCase, MadeByNetworks(block)
  PROVE  SuffixResult(block.layout, PublicationOf(block.root.net)) = "passed"
<1> DEFINE b == block.root
           n == b.net
           p == PublicationOf(n)
           suffix == block.layout.suffix
<1>1. Genuine(block) /\ block.layout.path # "unknown"
  BY DEF GoodCase, Genuine
<1>2. b \in Blocks /\ n \in Nets /\ b.height \in Heights
  BY DEF MadeByNetworks, Blocks
<1>3. block.layout.path = suffix.kind
  BY <1>1 DEF MadeByNetworks, ShortLayout, classify_layout
<1>4. block.layout.hints_verification_key.of = KeyOf(b)
  BY <1>1 DEF Genuine, VerificationKeyOf
<1>5. p.ledger_id = LedgerId[n] /\ p.node_contributions = Book[n] /\ p.history_proof_verification_key = n
  BY DEF PublicationOf
<1>6. PICK bits \in SigningSets(n) : suffix = SuffixOf(b, bits, Aggregate(Book[n], bits))
  BY <1>1 DEF Genuine
<1>7. EpochOf[b.height] \in Nat /\ SettledFrom \in Nat /\ SettledFrom > 1
  BY <1>2, ProofConstants
<1>8. CASE EpochOf[b.height] < SettledFrom
  <2>1. /\ suffix.kind = "schnorr" /\ suffix.bits = bits /\ suffix.by = Aggregate(Book[n], bits)
        /\ suffix.over = <<Padded(LedgerId[n]), KeyOf(b)>>
    BY <1>6, <1>8 DEF SuffixOf
  <2>2. /\ bits \subseteq DOMAIN Book[n] /\ bits \subseteq 1 .. BitvectorLength /\ bits # {}
        /\ \A i \in bits : Book[n][i] # BadKey
        /\ Aggregate(Book[n], bits) # 0
    BY <1>6 DEF SigningSets
  <2>3. Selected(Book[n], bits) = bits
    <3>1. BitvectorLength \in Nat
      BY ProofConstants
    <3>2. \A i \in bits : i \in DOMAIN Book[n] /\ i <= BitvectorLength
      BY <2>2, <3>1
    <3> QED BY <3>2 DEF Selected
  <2>4. Book[n] # << >>
    <3>1. Book[n] \in Seq(Int \cup {BadKey})
      BY <1>2, ProofConstants
    <3>2. DOMAIN Book[n] = 1 .. Len(Book[n]) /\ Len(Book[n]) \in Nat
      BY <3>1
    <3>3. DOMAIN Book[n] # {}
      BY <2>2
    <3>4. Len(Book[n]) # 0
      BY <3>2, <3>3
    <3> QED BY <3>4
  <2>5. verify_schnorr(block.layout, p) = "passed"
    BY <1>4, <1>5, <2>1, <2>2, <2>3, <2>4 DEF verify_schnorr
  <2> QED BY <1>3, <2>1, <2>5 DEF SuffixResult
<1>9. CASE EpochOf[b.height] >= SettledFrom
  <2>1. /\ suffix.kind = "wraps" /\ suffix.param = n /\ suffix.z_0 = LedgerId[n] /\ suffix.z_i = KeyOf(b)
        /\ suffix.steps = EpochOf[b.height] /\ suffix.readable
    BY <1>6, <1>7, <1>9 DEF SuffixOf
  <2>2. Len(LedgerId[n]) = LedgerLength /\ suffix.steps > 1
    BY <1>1, <1>7, <1>9, <2>1 DEF Genuine
  <2>3. n # None
    BY <1>2, FilesAreMade
  <2>4. verify_wraps(block.layout, p) = "passed"
    BY <1>4, <1>5, <2>1, <2>2, <2>3 DEF verify_wraps
  <2> QED BY <1>3, <2>1, <2>4 DEF SuffixResult
<1> QED BY <1>7, <1>8, <1>9

LEMMA StepGInv == VInv /\ VInv' /\ GInv /\ [Next]_vars => GInv'
<1> SUFFICES ASSUME VInv, VInv', GInv, [Next]_vars PROVE GInv'
  OBVIOUS
<1>1. ASSUME NEW m \in Materials, NEW g \in Givens \cup {None},
             Verify(m, g) \/ \E b \in Recomputed : VerifyInclusion(m, g, b)
      PROVE  GInv'
  BY <1>1 DEF Verify, VerifyInclusion, GInv, GoodCase
<1>2. CASE Resolve
  <2>1. GoodCase' => GoodCase
    BY <1>2 DEF Resolve, GoodCase, Judged
  <2>2. GoodCase => pc' = "hints"
    <3> SUFFICES ASSUME GoodCase PROVE pc' = "hints"
      OBVIOUS
    <3>1. MadeByNetworks(block)
      BY <1>2 DEF Resolve, VInv, AInv
    <3>2. anchor' # None /\ root = block.root
      BY <1>2, <3>1, GoodAnchor DEF Resolve, GoodCase
    <3> QED BY <1>2, <3>2 DEF Resolve
  <2> QED BY <2>1, <2>2 DEF GInv
<1>3. ASSUME NEW build \in {"debug", "release"}, CheckHints(build) PROVE GInv'
  <2>1. GoodCase' => GoodCase
    BY <1>3 DEF CheckHints, GoodCase, Judged
  <2>2. GoodCase => hints' = "passed" /\ pc' = "suffix"
    <3> SUFFICES ASSUME GoodCase PROVE hints' = "passed" /\ pc' = "suffix"
      OBVIOUS
    <3>1. MadeByNetworks(block) /\ root = block.root
      BY <1>3 DEF CheckHints, VInv, AInv, GoodCase
    <3>2. hints' = "passed"
      BY <1>3, <3>1, GoodHints DEF CheckHints
    <3> QED BY <1>3, <3>2 DEF CheckHints
  <2> QED BY <2>1, <2>2 DEF GInv
<1>4. CASE CheckSuffix
  <2>1. GoodCase' => GoodCase
    BY <1>4 DEF CheckSuffix, GoodCase, Judged
  <2>2. GoodCase => outcome' = "success"
    <3> SUFFICES ASSUME GoodCase PROVE outcome' = "success"
      OBVIOUS
    <3>1. hints = "passed" /\ MadeByNetworks(block) /\ anchor = resolve_bootstrap(block, genesis)
      BY <1>4 DEF CheckSuffix, GInv, VInv, AInv, Resolved
    <3>2. SuffixResult(block.layout, anchor) = "passed"
      BY <3>1, GoodAnchor, GoodSuffix
    <3> QED BY <1>4, <3>1, <3>2 DEF CheckSuffix, SuffixResult
  <2>3. pc' = "done"
    BY <1>4 DEF CheckSuffix
  <2> QED BY <2>1, <2>2, <2>3 DEF GInv
<1>5. ASSUME NEW m \in Materials, NEW build \in {"debug", "release"}, InfoFile(m, build) PROVE GInv'
  BY <1>5 DEF InfoFile, GInv, GoodCase, Judged
<1>6. CASE InfoEnd
  BY <1>6 DEF InfoEnd, GInv, GoodCase, Judged, VInv, AInv
<1>7. CASE UNCHANGED vars
  BY <1>7 DEF vars, GInv, GoodCase, Judged
<1> QED BY <1>1, <1>2, <1>3, <1>4, <1>5, <1>6, <1>7 DEF Next

(* Every genuine block, and every witness of its transactions, verifies    *)
(* against its network's publication, in every epoch.                      *)
THEOREM GenuineForever == Spec => []GenuineVerifies
<1>1. Init => GInv
  BY DEF Init, GInv
<1>2. GInv => GenuineVerifies
  BY DEF GInv, GenuineVerifies, GoodCase, Judged
<1> QED BY <1>1, <1>2, StepGInv, Invariance, PTL DEF Spec
----------------------------------------------------------------------------
(***************************************************************************)
(* The arithmetic of hinTS. Numbers congruent modulo the order are a field:*)
(* they are added, multiplied and divided as such, and sums and powers are *)
(* what they say. Every part of a signature is then the one of its claim   *)
(* and what was added to it, and every identity is equivalent to what is   *)
(* off in it being zero: nothing for a true claim; a product of things     *)
(* that are not zero for an altered part; and for a false claim what it    *)
(* leaves at the seats, a list that is zero at fewer points than it has    *)
(* seats.                                                                  *)
(***************************************************************************)

(* Congruence.                                                             *)
LEMMA OrderIs == P \in Nat /\ P > 1 /\ P \in Int /\ P # 0
BY HintsConstants

LEMMA Division ==
  ASSUME NEW z \in Int, NEW p \in Int, p > 0
  PROVE  \E q \in Int, m \in 0 .. p - 1 : q = z \div p /\ m = z % p /\ z = p * q + m /\ z - m = q * p
<1> DEFINE q == z \div p
           m == z % p
<1>1. q \in Int /\ m \in 0 .. p - 1 /\ z = p * q + m
  OBVIOUS
<1> HIDE DEF q, m
<1>2. z - m = q * p
  BY <1>1
<1> QED BY <1>1, <1>2 DEF q, m

LEMMA ModIs ==
  ASSUME NEW z \in Int
  PROVE  \E q \in Int, m \in Scalar : m \in Int /\ m = z % P /\ z - m = q * P
<1>1. PICK q \in Int, m \in 0 .. P - 1 : m = z % P /\ z - m = q * P
  BY OrderIs, Division
<1>2. m \in Scalar /\ m \in Int
  BY <1>1, OrderIs DEF Scalar
<1> QED BY <1>1, <1>2

(* Congruent is what differs by a multiple of the order.                   *)
LEMMA EqualBy ==
  ASSUME NEW x \in Int, NEW y \in Int, NEW k \in Int, x - y = k * P
  PROVE  Equal(x, y)
<1>1. \A p \in Nat \ {0} : (k * p) % p = 0
  OBVIOUS
<1> QED BY <1>1, OrderIs DEF Equal

LEMMA EqualHas ==
  ASSUME NEW x \in Int, NEW y \in Int, Equal(x, y)
  PROVE  \E k \in Int : x = y + k * P
<1>1. PICK k \in Int, m \in Scalar : m \in Int /\ m = (x - y) % P /\ (x - y) - m = k * P
  BY ModIs
<1>2. m = 0
  BY <1>1 DEF Equal
<1>3. x = y + k * P
  BY <1>1, <1>2, OrderIs
<1> QED BY <1>3

LEMMA ModEqual ==
  ASSUME NEW z \in Int
  PROVE  z % P \in Scalar /\ z % P \in Int /\ Equal(z % P, z)
<1>1. PICK q \in Int, m \in Scalar : m \in Int /\ m = z % P /\ z - m = q * P
  BY ModIs
<1>2. m - z = (-q) * P /\ -q \in Int
  BY <1>1, OrderIs
<1> QED BY <1>1, <1>2, EqualBy

(* It is an equivalence that sums, differences and products respect.       *)
LEMMA EqualSelf ==
  ASSUME NEW x \in Int
  PROVE  Equal(x, x)
<1>1. x - x = 0 * P /\ 0 \in Int
  BY OrderIs
<1> QED BY <1>1, EqualBy

LEMMA EqualTurned ==
  ASSUME NEW x \in Int, NEW y \in Int, Equal(x, y)
  PROVE  Equal(y, x)
<1>1. PICK k \in Int : x = y + k * P
  BY EqualHas
<1>2. y - x = (-k) * P /\ -k \in Int
  BY <1>1, OrderIs
<1> QED BY <1>2, EqualBy

LEMMA EqualThrough ==
  ASSUME NEW x \in Int, NEW y \in Int, NEW z \in Int, Equal(x, y), Equal(y, z)
  PROVE  Equal(x, z)
<1>1. PICK k \in Int : x = y + k * P
  BY EqualHas
<1>2. PICK l \in Int : y = z + l * P
  BY EqualHas
<1>3. x - z = (k + l) * P /\ k + l \in Int
  BY <1>1, <1>2, OrderIs
<1> QED BY <1>3, EqualBy

LEMMA EqualSums ==
  ASSUME NEW x \in Int, NEW y \in Int, NEW u \in Int, NEW v \in Int, Equal(x, y), Equal(u, v)
  PROVE  Equal(x + u, y + v) /\ Equal(x - u, y - v)
<1>1. PICK k \in Int : x = y + k * P
  BY EqualHas
<1>2. PICK l \in Int : u = v + l * P
  BY EqualHas
<1>3. (x + u) - (y + v) = (k + l) * P /\ k + l \in Int
  BY <1>1, <1>2, OrderIs
<1>4. (x - u) - (y - v) = (k - l) * P /\ k - l \in Int
  BY <1>1, <1>2, OrderIs
<1> QED BY <1>3, <1>4, EqualBy

LEMMA EqualProducts ==
  ASSUME NEW x \in Int, NEW y \in Int, NEW u \in Int, NEW v \in Int, Equal(x, y), Equal(u, v)
  PROVE  Equal(x * u, y * v)
<1>1. PICK k \in Int : x = y + k * P
  BY EqualHas
<1>2. PICK l \in Int : u = v + l * P
  BY EqualHas
<1> DEFINE m == k * v + y * l + k * l * P
<1>3. x * u - y * v = m * P /\ m \in Int
  BY <1>1, <1>2, OrderIs
<1> HIDE DEF m
<1> QED BY <1>3, EqualBy

(* Of the scalars only the same are congruent.                             *)
LEMMA ScalarsEqual ==
  ASSUME NEW x \in Scalar, NEW y \in Scalar, Equal(x, y)
  PROVE  x = y
<1>1. x \in Int /\ y \in Int
  BY OrderIs DEF Scalar
<1>2. PICK k \in Int : x = y + k * P
  BY <1>1, EqualHas
<1>3. x < P /\ y < P /\ x >= 0 /\ y >= 0
  BY OrderIs DEF Scalar
<1>4. CASE k > 0
  <2>1. \A p \in Nat : k * p >= p
    BY <1>4
  <2> QED BY <1>1, <1>2, <1>3, <2>1, OrderIs
<1>5. CASE k < 0
  <2>1. \A p \in Nat : k * p <= -p
    BY <1>5
  <2> QED BY <1>1, <1>2, <1>3, <2>1, OrderIs
<1>6. CASE k = 0
  BY <1>1, <1>2, <1>6, OrderIs
<1> QED BY <1>4, <1>5, <1>6

(* A field: no product of what is not zero is zero.                        *)
LEMMA NotZero ==
  ASSUME NEW x \in Int
  PROVE  ~ Equal(x, 0) <=> x % P \in Scalar \ {0}
<1>1. x - 0 = x
  OBVIOUS
<1> QED BY <1>1, ModIs DEF Equal

LEMMA HasInverse ==
  ASSUME NEW y \in Int, ~ Equal(y, 0)
  PROVE  \E v \in Scalar : v = Reciprocal[y % P] /\ v \in Int /\ Equal(y * v, 1)
<1> DEFINE u == y % P
           v == Reciprocal[u]
<1>1. u \in Scalar \ {0} /\ Equal(u, y) /\ u \in Int
  BY NotZero, ModEqual
<1> HIDE DEF u
<1>2. v = CHOOSE w \in Scalar : (u * w) % P = 1
  BY <1>1 DEF Reciprocal
<1>3. v \in Scalar /\ (u * v) % P = 1
  BY <1>1, <1>2, HintsConstants
<1> HIDE DEF v
<1>4. v \in Int /\ u * v \in Int
  BY <1>1, <1>3, OrderIs DEF Scalar
<1>5. Equal(u * v, 1)
  <2>1. Equal((u * v) % P, u * v)
    BY <1>4, ModEqual
  <2> QED BY <1>3, <1>4, <2>1, EqualTurned
<1>6. Equal(y * v, u * v)
  BY <1>1, <1>4, EqualTurned, EqualSelf, EqualProducts
<1>7. Equal(y * v, 1)
  <2>1. y * v \in Int
    BY <1>4
  <2> QED BY <1>4, <1>5, <1>6, <2>1, EqualThrough
<1> QED BY <1>3, <1>4, <1>7 DEF v, u

LEMMA NoZeroDivisors ==
  ASSUME NEW x \in Int, NEW y \in Int, Equal(x * y, 0), ~ Equal(x, 0)
  PROVE  Equal(y, 0)
<1>1. PICK v \in Scalar : v \in Int /\ Equal(x * v, 1)
  BY HasInverse
<1>2. PICK k \in Int : x * y = 0 + k * P
  <2>1. x * y \in Int
    OBVIOUS
  <2> HIDE DEF Equal
  <2> QED BY <2>1, EqualHas
<1>3. PICK l \in Int : x * v = 1 + l * P
  <2>1. x * v \in Int
    BY <1>1
  <2> QED BY <1>1, <2>1, EqualHas
<1>4. y = (x * v) * y - l * P * y
  BY <1>1, <1>3, OrderIs
<1>5. (x * v) * y = v * (x * y)
  BY <1>1
<1>6. y - 0 = (v * k - l * y) * P /\ v * k - l * y \in Int
  BY <1>1, <1>2, <1>4, <1>5, OrderIs
<1> QED BY <1>6, EqualBy

(* Division.                                                               *)
LEMMA OverIs ==
  ASSUME NEW x \in Int, NEW y \in Int, ~ Equal(y, 0)
  PROVE  Over(x, y) \in Scalar /\ Over(x, y) \in Int /\ Equal(Over(x, y) * y, x)
<1>1. PICK v \in Scalar : v = Reciprocal[y % P] /\ v \in Int /\ Equal(y * v, 1)
  BY HasInverse
<1> DEFINE q == Over(x, y)
<1>2. q = (x * v) % P
  BY <1>1 DEF Over
<1>3. x * v \in Int /\ y * v \in Int
  BY <1>1
<1>4. q \in Scalar /\ q \in Int /\ Equal(q, x * v)
  BY <1>2, <1>3, ModEqual
<1> HIDE DEF q
<1>5. PICK k \in Int : q = x * v + k * P
  BY <1>3, <1>4, EqualHas
<1>6. PICK l \in Int : y * v = 1 + l * P
  BY <1>1, <1>3, EqualHas
<1>7. q * y = x * (y * v) + k * y * P
  BY <1>1, <1>4, <1>5, OrderIs
<1>8. q * y - x = (x * l + k * y) * P /\ x * l + k * y \in Int /\ q * y \in Int
  BY <1>4, <1>6, <1>7, OrderIs
<1> QED BY <1>4, <1>8, EqualBy DEF q
----------------------------------------------------------------------------
(* The least-number principle and induction, on sets.                      *)
LEMMA LeastNumber ==
  ASSUME NEW T, T \subseteq Nat, T # {}
  PROVE  \E x \in T : \A y \in T : ~ (y < x)
<1>1. IsWellFoundedOn(OpToRel(<, Nat), Nat)
  BY NatLessThanWellFounded
<1>2. \E x \in T : \A y \in T : ~ (<<y, x>> \in OpToRel(<, Nat))
  BY <1>1, WFMin
<1>3. QED
  BY <1>2 DEF OpToRel

(* Induction, with a set in the place of the formula.                      *)
LEMMA Induction ==
  ASSUME NEW S, 0 \in S, \A n \in Nat : n \in S => n + 1 \in S
  PROVE  \A n \in Nat : n \in S
<1> DEFINE Others == {n \in Nat : n \notin S}
<1> SUFFICES ASSUME Others # {} PROVE FALSE
  OBVIOUS
<1>1. PICK x \in Others : \A y \in Others : ~ (y < x)
  BY LeastNumber
<1>2. x - 1 \in Nat /\ x - 1 \notin Others
  BY <1>1
<1> QED
  BY <1>1, <1>2

(* A function defined by recursion over the numbers up to a bound, with    *)
(* values in a set that its step does not leave, exists.                   *)
IsUpto(g, n, V, c, step) ==
  /\ g \in [0 .. n -> V] /\ g[0] = c
  /\ \A i \in 0 .. n - 1 : g[i + 1] = step[i][g[i]]

(* One more value of a function defined by recursion.                      *)
LEMMA UptoStep ==
  ASSUME NEW V, NEW c \in V, NEW step \in [Nat -> [V -> V]], NEW n \in Nat,
         NEW g, IsUpto(g, n, V, c, step)
  PROVE  \E h : IsUpto(h, n + 1, V, c, step)
<1> DEFINE h == [i \in 0 .. n + 1 |-> IF i = n + 1 THEN step[n][g[n]] ELSE g[i]]
<1>1. /\ g \in [0 .. n -> V] /\ g[0] = c
      /\ \A i \in 0 .. n - 1 : g[i + 1] = step[i][g[i]]
  BY DEF IsUpto
<1>2. step[n][g[n]] \in V
  BY <1>1
<1>3. h \in [0 .. n + 1 -> V]
  BY <1>1, <1>2
<1>4. h[0] = c
  BY <1>1
<1>5. ASSUME NEW i \in 0 .. n PROVE h[i + 1] = step[i][h[i]]
  <2>1. CASE i = n
    BY <2>1
  <2>2. CASE i # n
    <3>1. i \in 0 .. n - 1 /\ i + 1 \in 0 .. n
      BY <2>2
    <3> QED BY <1>1, <3>1
  <2> QED BY <2>1, <2>2
<1> HIDE DEF h
<1>6. IsUpto(h, n + 1, V, c, step)
  BY <1>3, <1>4, <1>5 DEF IsUpto
<1> QED BY <1>6

LEMMA BoundedRecursion ==
  ASSUME NEW V, NEW c \in V, NEW m \in Nat, NEW step \in [0 .. m - 1 -> [V -> V]]
  PROVE  \E f : IsUpto(f, m, V, c, step)
<1> DEFINE all == [n \in Nat |-> IF n < m THEN step[n] ELSE [v \in V |-> v]]
<1>1. all \in [Nat -> [V -> V]]
  BY DEF all
<1>2. ASSUME NEW n \in 0 .. m - 1 PROVE all[n] = step[n]
  OBVIOUS
<1> HIDE DEF all
<1> DEFINE S == {n \in Nat : \E g : IsUpto(g, n, V, c, all)}
<1>3. 0 \in S
  <2>1. IsUpto([i \in 0 .. 0 |-> c], 0, V, c, all)
    BY DEF IsUpto
  <2> QED BY <2>1
<1>4. ASSUME NEW n \in Nat, n \in S PROVE n + 1 \in S
  BY <1>1, <1>4, UptoStep
<1> HIDE DEF S
<1>5. m \in S
  BY <1>3, <1>4, Induction
<1>6. PICK f : IsUpto(f, m, V, c, all)
  BY <1>5 DEF S
<1>7. IsUpto(f, m, V, c, step)
  BY <1>2, <1>6 DEF IsUpto
<1> QED BY <1>7

(* Induction up to a bound.                                                *)
LEMMA BoundedInduction ==
  ASSUME NEW S, NEW m \in Nat, 0 \in S, \A k \in 0 .. m - 1 : k \in S => k + 1 \in S
  PROVE  \A k \in 0 .. m : k \in S
<1> DEFINE T == {k \in Nat : k <= m => k \in S}
<1>1. 0 \in T
  OBVIOUS
<1>2. ASSUME NEW k \in Nat, k \in T PROVE k + 1 \in T
  BY <1>2
<1> HIDE DEF T
<1>3. \A k \in Nat : k \in T
  BY <1>1, <1>2, Induction
<1> QED BY <1>3 DEF T

(* Sums.                                                                   *)
IsSum(f, values, n) ==
  f = [k \in 0 .. n |-> IF k = 0 THEN 0 ELSE f[k - 1] + values[k - 1]]

(* What the sum chooses exists, and whatever is one is the same one.       *)
LEMMA SumExists ==
  ASSUME NEW n \in Nat, NEW values, \A k \in 0 .. n - 1 : values[k] \in Int
  PROVE  \E f : f \in [0 .. n -> Int] /\ IsSum(f, values, n)
<1> DEFINE V == Int
           step == [k \in 0 .. n - 1 |-> [v \in V |-> v + values[k]]]
<1>1. step \in [0 .. n - 1 -> [V -> V]] /\ 0 \in V
  OBVIOUS
<1>2. \A k \in 0 .. n - 1 : \A v \in V : step[k][v] = v + values[k]
  OBVIOUS
<1> HIDE DEF step, V
<1>3. PICK f : IsUpto(f, n, V, 0, step)
  BY <1>1, BoundedRecursion
<1>4. f \in [0 .. n -> V] /\ f[0] = 0 /\ \A k \in 0 .. n - 1 : f[k + 1] = step[k][f[k]]
  BY <1>3 DEF IsUpto
<1>5. \A k \in 0 .. n - 1 : f[k + 1] = f[k] + values[k]
  BY <1>2, <1>4
<1> USE DEF V
<1>6. ASSUME NEW k \in 0 .. n PROVE f[k] = IF k = 0 THEN 0 ELSE f[k - 1] + values[k - 1]
  <2>1. CASE k # 0
    <3>1. k - 1 \in 0 .. n - 1 /\ (k - 1) + 1 = k
      BY <2>1
    <3>2. f[(k - 1) + 1] = f[k - 1] + values[k - 1]
      BY <1>5, <3>1
    <3> QED BY <2>1, <3>1, <3>2
  <2> QED BY <1>4, <2>1
<1>7. f = [k \in 0 .. n |-> IF k = 0 THEN 0 ELSE f[k - 1] + values[k - 1]]
  BY <1>4, <1>6
<1> QED BY <1>4, <1>7 DEF IsSum

LEMMA SumUnique ==
  ASSUME NEW n \in Nat, NEW values, NEW f, IsSum(f, values, n),
         NEW m \in 0 .. n, NEW g, IsSum(g, values, m)
  PROVE  g[m] = f[m]
<1> DEFINE S == {k \in 0 .. m : g[k] = f[k]}
<1>1. \A k \in 0 .. n : f[k] = IF k = 0 THEN 0 ELSE f[k - 1] + values[k - 1]
  BY DEF IsSum
<1>2. \A k \in 0 .. m : g[k] = IF k = 0 THEN 0 ELSE g[k - 1] + values[k - 1]
  BY DEF IsSum
<1>3. 0 \in S
  BY <1>1, <1>2
<1>4. ASSUME NEW k \in 0 .. m - 1, k \in S PROVE k + 1 \in S
  <2>1. k + 1 \in 0 .. m /\ k + 1 \in 0 .. n /\ k + 1 # 0 /\ (k + 1) - 1 = k
    OBVIOUS
  <2>2. g[k + 1] = g[k] + values[k] /\ f[k + 1] = f[k] + values[k]
    BY <1>1, <1>2, <2>1
  <2> QED BY <1>4, <2>1, <2>2
<1> HIDE DEF S
<1>5. m \in S
  BY <1>3, <1>4, BoundedInduction
<1> QED BY <1>5 DEF S

LEMMA SumTo ==
  ASSUME NEW n \in Nat, NEW values, \A k \in 0 .. n - 1 : values[k] \in Int
  PROVE  \E f : f \in [0 .. n -> Int] /\ IsSum(f, values, n) /\ \A k \in 0 .. n : Sum(values, k) = f[k]
<1>1. PICK f : f \in [0 .. n -> Int] /\ IsSum(f, values, n)
  BY SumExists
<1>2. ASSUME NEW m \in 0 .. n PROVE Sum(values, m) = f[m]
  <2> DEFINE sum == CHOOSE g : IsSum(g, values, m)
  <2>1. \E g : IsSum(g, values, m)
    <3>1. m \in Nat /\ \A k \in 0 .. m - 1 : values[k] \in Int
      OBVIOUS
    <3> QED BY <3>1, SumExists
  <2>2. IsSum(sum, values, m)
    BY <2>1
  <2>3. Sum(values, m) = sum[m]
    BY DEF Sum, IsSum
  <2> HIDE DEF sum
  <2> QED BY <1>1, <2>2, <2>3, SumUnique
<1> QED BY <1>1, <1>2

(* What Sum computes.                                                      *)
LEMMA SumIs ==
  ASSUME NEW n \in Nat, NEW values, \A k \in 0 .. n - 1 : values[k] \in Int
  PROVE  /\ Sum(values, 0) = 0
         /\ \A k \in 0 .. n : Sum(values, k) \in Int
         /\ \A k \in 0 .. n - 1 : Sum(values, k + 1) = Sum(values, k) + values[k]
<1>1. PICK f : f \in [0 .. n -> Int] /\ IsSum(f, values, n) /\ \A k \in 0 .. n : Sum(values, k) = f[k]
  BY SumTo
<1>2. \A k \in 0 .. n : f[k] = IF k = 0 THEN 0 ELSE f[k - 1] + values[k - 1]
  BY <1>1 DEF IsSum
<1>3. ASSUME NEW k \in 0 .. n - 1 PROVE Sum(values, k + 1) = Sum(values, k) + values[k]
  <2>1. k + 1 \in 0 .. n /\ k \in 0 .. n /\ k + 1 # 0 /\ (k + 1) - 1 = k
    OBVIOUS
  <2> QED BY <1>1, <1>2, <2>1
<1> QED BY <1>1, <1>2, <1>3

(* Of sums term by term congruent to a combination of others.              *)
LEMMA SumCombined ==
  ASSUME NEW n \in Nat, NEW u, NEW v, NEW w, NEW a \in Int, NEW b \in Int,
         \A k \in 0 .. n - 1 : u[k] \in Int /\ v[k] \in Int /\ w[k] \in Int,
         \A k \in 0 .. n - 1 : Equal(u[k], a * v[k] + b * w[k])
  PROVE  /\ Sum(u, n) \in Int /\ Sum(v, n) \in Int /\ Sum(w, n) \in Int
         /\ Equal(Sum(u, n), a * Sum(v, n) + b * Sum(w, n))
<1> DEFINE S == {k \in 0 .. n : Equal(Sum(u, k), a * Sum(v, k) + b * Sum(w, k))}
<1>1. /\ Sum(u, 0) = 0 /\ \A k \in 0 .. n : Sum(u, k) \in Int
      /\ \A k \in 0 .. n - 1 : Sum(u, k + 1) = Sum(u, k) + u[k]
  BY SumIs
<1>2. /\ Sum(v, 0) = 0 /\ \A k \in 0 .. n : Sum(v, k) \in Int
      /\ \A k \in 0 .. n - 1 : Sum(v, k + 1) = Sum(v, k) + v[k]
  BY SumIs
<1>3. /\ Sum(w, 0) = 0 /\ \A k \in 0 .. n : Sum(w, k) \in Int
      /\ \A k \in 0 .. n - 1 : Sum(w, k + 1) = Sum(w, k) + w[k]
  BY SumIs
<1>4. 0 \in S
  <2>1. a * 0 + b * 0 = 0
    OBVIOUS
  <2> QED BY <1>1, <1>2, <1>3, <2>1, EqualSelf
<1>5. ASSUME NEW k \in 0 .. n - 1, k \in S PROVE k + 1 \in S
  <2> DEFINE x == Sum(u, k)
             y == Sum(v, k)
             z == Sum(w, k)
             p == u[k]
             q == v[k]
             t == w[k]
  <2>1. x \in Int /\ y \in Int /\ z \in Int /\ p \in Int /\ q \in Int /\ t \in Int
    BY <1>1, <1>2, <1>3
  <2>2. Equal(x, a * y + b * z) /\ Equal(p, a * q + b * t)
    BY <1>5
  <2>3. k + 1 \in 0 .. n /\ Sum(u, k + 1) = x + p /\ Sum(v, k + 1) = y + q /\ Sum(w, k + 1) = z + t
    BY <1>1, <1>2, <1>3
  <2> HIDE DEF x, y, z, p, q, t
  <2>4. a * y + b * z \in Int /\ a * q + b * t \in Int
    BY <2>1
  <2>5. Equal(x + p, (a * y + b * z) + (a * q + b * t))
    BY <2>1, <2>2, <2>4, EqualSums
  <2>6. (a * y + b * z) + (a * q + b * t) = a * (y + q) + b * (z + t)
    BY <2>1
  <2> QED BY <2>3, <2>5, <2>6
<1> HIDE DEF S
<1>6. \A k \in 0 .. n - 1 : k \in S => k + 1 \in S
  BY <1>5
<1>7. \A k \in 0 .. n : k \in S
  BY <1>4, <1>6, BoundedInduction, Zenon
<1>8. n \in S
  BY <1>7
<1> QED BY <1>1, <1>2, <1>3, <1>8 DEF S

(* One term that is not zero.                                              *)
LEMMA SumOfOne ==
  ASSUME NEW n \in Nat, NEW values, NEW j \in 0 .. n - 1,
         \A k \in 0 .. n - 1 : values[k] \in Int /\ (k # j => Equal(values[k], 0))
  PROVE  Sum(values, n) \in Int /\ Equal(Sum(values, n), values[j])
<1> DEFINE S == {k \in 0 .. n : Equal(Sum(values, k), IF k <= j THEN 0 ELSE values[j])}
<1>1. /\ Sum(values, 0) = 0 /\ \A k \in 0 .. n : Sum(values, k) \in Int
      /\ \A k \in 0 .. n - 1 : Sum(values, k + 1) = Sum(values, k) + values[k]
  BY SumIs
<1>2. 0 \in S
  BY <1>1, EqualSelf
<1>3. ASSUME NEW k \in 0 .. n - 1, k \in S PROVE k + 1 \in S
  <2> DEFINE x == Sum(values, k)
             p == values[k]
             t == values[j]
  <2>1. x \in Int /\ p \in Int /\ k + 1 \in 0 .. n /\ Sum(values, k + 1) = x + p
    BY <1>1
  <2>2. (k <= j => Equal(x, 0)) /\ (~ (k <= j) => Equal(x, t))
    BY <1>3
  <2>3. (k # j => Equal(p, 0)) /\ (k = j => p = t) /\ t \in Int
    OBVIOUS
  <2>4. (k + 1 <= j => Equal(x + p, 0)) /\ (~ (k + 1 <= j) => Equal(x + p, t)) => k + 1 \in S
    BY <2>1
  <2> HIDE DEF x, p, t, S
  <2>5. CASE k < j
    <3>1. Equal(x + p, 0 + 0)
      BY <2>1, <2>2, <2>3, <2>5, EqualSums
    <3> QED BY <2>4, <2>5, <3>1
  <2>6. CASE k = j
    <3>1. Equal(p, p)
      BY <2>1, EqualSelf
    <3>2. Equal(x + p, 0 + p)
      BY <2>1, <2>2, <2>6, <3>1, EqualSums
    <3>3. 0 + p = t /\ ~ (k + 1 <= j)
      BY <2>1, <2>3, <2>6
    <3> QED BY <2>4, <3>2, <3>3
  <2>7. CASE k > j
    <3>1. ~ (k <= j) /\ k # j /\ ~ (k + 1 <= j) /\ t + 0 = t
      BY <2>3, <2>7
    <3>2. Equal(x + p, t + 0)
      BY <2>1, <2>2, <2>3, <3>1, EqualSums
    <3> QED BY <2>4, <3>1, <3>2
  <2> QED BY <2>5, <2>6, <2>7
<1> HIDE DEF S
<1>4. n \in S
  BY <1>2, <1>3, BoundedInduction
<1>5. ~ (n <= j)
  OBVIOUS
<1> QED BY <1>1, <1>4, <1>5 DEF S

(* Products of pairings.                                                   *)
LEMMA TwoPairings ==
  ASSUME NEW a \in Int, NEW b \in Int, NEW c \in Int, NEW d \in Int
  PROVE  pairing_product_is_one(<<a, b>>, <<c, d>>) <=> Equal(a * c + b * d, 0)
<1> DEFINE f == [i \in 0 .. 1 |-> <<a, b>>[i + 1] * <<c, d>>[i + 1]]
<1>1. f[0] = a * c /\ f[1] = b * d /\ \A k \in 0 .. 1 : f[k] \in Int
  OBVIOUS
<1>2. pairing_product_is_one(<<a, b>>, <<c, d>>) <=> Equal(Sum(f, 2), 0)
  BY DEF pairing_product_is_one
<1> HIDE DEF f
<1>3. Sum(f, 0) = 0 /\ \A k \in 0 .. 1 : Sum(f, k + 1) = Sum(f, k) + f[k]
  BY <1>1, SumIs, 2 \in Nat, 2 - 1 = 1
<1>4. Sum(f, 1) = Sum(f, 0) + f[0] /\ Sum(f, 2) = Sum(f, 1) + f[1]
  BY <1>3, 0 + 1 = 1, 1 + 1 = 2
<1>5. Sum(f, 2) = a * c + b * d
  BY <1>1, <1>3, <1>4
<1> QED BY <1>2, <1>5

LEMMA FourPairings ==
  ASSUME NEW a \in Int, NEW b \in Int, NEW c \in Int, NEW d \in Int,
         NEW p \in Int, NEW q \in Int, NEW s \in Int, NEW t \in Int
  PROVE  pairing_product_is_one(<<a, b, c, d>>, <<p, q, s, t>>) <=>
           Equal(a * p + b * q + c * s + d * t, 0)
<1> DEFINE f == [i \in 0 .. 3 |-> <<a, b, c, d>>[i + 1] * <<p, q, s, t>>[i + 1]]
<1>1. /\ f[0] = a * p /\ f[1] = b * q /\ f[2] = c * s /\ f[3] = d * t
      /\ \A k \in 0 .. 3 : f[k] \in Int
  OBVIOUS
<1>2. pairing_product_is_one(<<a, b, c, d>>, <<p, q, s, t>>) <=> Equal(Sum(f, 4), 0)
  BY DEF pairing_product_is_one
<1> HIDE DEF f
<1>3. Sum(f, 0) = 0 /\ \A k \in 0 .. 3 : Sum(f, k + 1) = Sum(f, k) + f[k]
  BY <1>1, SumIs, 4 \in Nat, 4 - 1 = 3
<1>4. /\ Sum(f, 1) = Sum(f, 0) + f[0] /\ Sum(f, 2) = Sum(f, 1) + f[1]
      /\ Sum(f, 3) = Sum(f, 2) + f[2] /\ Sum(f, 4) = Sum(f, 3) + f[3]
  BY <1>3, 0 + 1 = 1, 1 + 1 = 2, 2 + 1 = 3, 3 + 1 = 4
<1>5. Sum(f, 4) = a * p + b * q + c * s + d * t
  BY <1>1, <1>3, <1>4
<1> QED BY <1>2, <1>5

(* Powers.                                                                 *)
IsPower(f, x, n) == f = [k \in 0 .. n |-> IF k = 0 THEN 1 ELSE (x * f[k - 1]) % P]

(* What the power chooses exists, and is the same one for every bound.     *)
LEMMA PowerExists ==
  ASSUME NEW n \in Nat, NEW x \in Int
  PROVE  \E f : f \in [0 .. n -> Scalar] /\ IsPower(f, x, n)
<1> DEFINE step == [k \in 0 .. n - 1 |-> [v \in Scalar |-> (x * v) % P]]
<1>1. step \in [0 .. n - 1 -> [Scalar -> Scalar]]
  <2>1. ASSUME NEW v \in Scalar PROVE (x * v) % P \in Scalar
    <3>1. x * v \in Int
      BY OrderIs DEF Scalar
    <3> QED BY <3>1, ModEqual
  <2> QED BY <2>1
<1>2. \A k \in 0 .. n - 1 : \A v \in Scalar : step[k][v] = (x * v) % P
  OBVIOUS
<1> HIDE DEF step
<1>3. PICK f : IsUpto(f, n, Scalar, 1, step)
  <2>1. 1 \in Scalar
    BY OrderIs DEF Scalar
  <2> QED BY <1>1, <2>1, BoundedRecursion
<1>4. /\ f \in [0 .. n -> Scalar] /\ f[0] = 1
      /\ \A k \in 0 .. n - 1 : f[k + 1] = (x * f[k]) % P
  BY <1>2, <1>3 DEF IsUpto
<1>5. ASSUME NEW k \in 0 .. n PROVE f[k] = IF k = 0 THEN 1 ELSE (x * f[k - 1]) % P
  <2>1. CASE k # 0
    <3>1. k - 1 \in 0 .. n - 1 /\ (k - 1) + 1 = k
      BY <2>1
    <3>2. f[(k - 1) + 1] = (x * f[k - 1]) % P
      BY <1>4, <3>1
    <3> QED BY <2>1, <3>1, <3>2
  <2> QED BY <1>4, <2>1
<1>6. f = [k \in 0 .. n |-> IF k = 0 THEN 1 ELSE (x * f[k - 1]) % P]
  BY <1>4, <1>5
<1> QED BY <1>4, <1>6 DEF IsPower

LEMMA PowerUnique ==
  ASSUME NEW n \in Nat, NEW x, NEW f, IsPower(f, x, n),
         NEW m \in 0 .. n, NEW g, IsPower(g, x, m)
  PROVE  g[m] = f[m]
<1> DEFINE S == {k \in 0 .. m : g[k] = f[k]}
<1>1. \A k \in 0 .. n : f[k] = IF k = 0 THEN 1 ELSE (x * f[k - 1]) % P
  BY DEF IsPower
<1>2. \A k \in 0 .. m : g[k] = IF k = 0 THEN 1 ELSE (x * g[k - 1]) % P
  BY DEF IsPower
<1>3. 0 \in S
  BY <1>1, <1>2
<1>4. ASSUME NEW k \in 0 .. m - 1, k \in S PROVE k + 1 \in S
  <2>1. k + 1 \in 0 .. m /\ k + 1 \in 0 .. n /\ k + 1 # 0 /\ (k + 1) - 1 = k
    OBVIOUS
  <2>2. g[k + 1] = (x * g[k]) % P /\ f[k + 1] = (x * f[k]) % P
    BY <1>1, <1>2, <2>1
  <2> QED BY <1>4, <2>1, <2>2
<1> HIDE DEF S
<1>5. m \in S
  BY <1>3, <1>4, BoundedInduction
<1> QED BY <1>5 DEF S

(* What Power computes.                                                    *)
LEMMA PowerIs ==
  ASSUME NEW n \in Nat, NEW x \in Int
  PROVE  /\ Power(x, 0) = 1
         /\ Power(x, n) \in Scalar /\ Power(x, n + 1) \in Scalar
         /\ Power(x, n + 1) = (x * Power(x, n)) % P
<1>1. PICK f : f \in [0 .. n + 1 -> Scalar] /\ IsPower(f, x, n + 1)
  BY PowerExists, n + 1 \in Nat
<1>2. ASSUME NEW m \in 0 .. n + 1 PROVE Power(x, m) = f[m]
  <2> DEFINE power == CHOOSE g : IsPower(g, x, m)
  <2>1. \E g : IsPower(g, x, m)
    <3>1. m \in Nat
      OBVIOUS
    <3> QED BY <3>1, PowerExists
  <2>2. IsPower(power, x, m)
    BY <2>1
  <2>3. Power(x, m) = power[m]
    BY DEF Power, IsPower
  <2> HIDE DEF power
  <2> QED BY <1>1, <2>2, <2>3, PowerUnique
<1>3. \A k \in 0 .. n + 1 : f[k] = IF k = 0 THEN 1 ELSE (x * f[k - 1]) % P
  BY <1>1 DEF IsPower
<1>4. n \in 0 .. n + 1 /\ n + 1 \in 0 .. n + 1 /\ 0 \in 0 .. n + 1 /\ n + 1 # 0 /\ (n + 1) - 1 = n
  OBVIOUS
<1> QED BY <1>1, <1>2, <1>3, <1>4

----------------------------------------------------------------------------
(* What can be cancelled.                                                  *)
LEMMA EqualZero ==
  ASSUME NEW x \in Int, NEW y \in Int
  PROVE  Equal(x, y) <=> Equal(x - y, 0)
<1>1. (x - y) - 0 = x - y
  OBVIOUS
<1> QED BY <1>1 DEF Equal

LEMMA EqualCancelled ==
  ASSUME NEW x \in Int, NEW y \in Int, NEW z \in Int, ~ Equal(z, 0), Equal(x * z, y * z)
  PROVE  Equal(x, y)
<1>1. x * z \in Int /\ y * z \in Int /\ x - y \in Int
  OBVIOUS
<1>2. Equal(x * z - y * z, 0)
  BY <1>1, EqualZero
<1>3. x * z - y * z = z * (x - y)
  OBVIOUS
<1>4. Equal(x - y, 0)
  BY <1>1, <1>2, <1>3, NoZeroDivisors
<1> QED BY <1>4, EqualZero

LEMMA ProductNotZero ==
  ASSUME NEW x \in Int, NEW y \in Int, ~ Equal(x, 0), ~ Equal(y, 0)
  PROVE  ~ Equal(x * y, 0)
BY NoZeroDivisors

LEMMA ScalarNotZero ==
  ASSUME NEW x \in Scalar
  PROVE  x \in Int /\ 0 \in Scalar /\ 1 \in Scalar /\ (x # 0 <=> ~ Equal(x, 0))
<1>1. x \in Int /\ 0 \in Scalar /\ 1 \in Scalar
  BY OrderIs DEF Scalar
<1>2. 0 \in Int
  OBVIOUS
<1> QED BY <1>1, <1>2, ScalarsEqual, EqualSelf

LEMMA ScalarsDiffer ==
  ASSUME NEW x \in Scalar, NEW y \in Scalar, x # y
  PROVE  ~ Equal(x, y) /\ ~ Equal(x - y, 0)
<1>1. x \in Int /\ y \in Int
  BY ScalarNotZero
<1> QED BY <1>1, ScalarsEqual, EqualZero

(* The seats and their points.                                             *)
LEMMA SeatsAre ==
  /\ Parties \in Nat /\ Parties \in Int /\ Parties > 1 /\ Parties # 0 /\ Last = Parties - 1
  /\ Last \in Nat /\ Last > 0 /\ Parties = Last + 1
  /\ Last \in Seats /\ 0 \in Seats /\ 1 \in Seats /\ Seats \subseteq Nat
  /\ Seats = 0 .. Parties - 1
  /\ ~ Equal(Parties, 0)
<1>1. Parties \in Scalar /\ Parties # 0
  BY HintsConstants, OrderIs DEF Scalar
<1>2. ~ Equal(Parties, 0)
  BY <1>1, ScalarNotZero
<1> QED BY <1>2, HintsConstants DEF Last, Seats

LEMMA PointsAre ==
  /\ Omega \in Scalar /\ Omega \in Int /\ Omega = Point[1] /\ ~ Equal(Omega, 0)
  /\ Point[0] = 1
  /\ \A i \in Seats : Point[i] = Power(Omega, i) /\ Point[i] \in Scalar /\ Point[i] \in Int
  /\ \A i \in Seats : Point[i] # 0 /\ ~ Equal(Point[i], 0)
  /\ \A i \in Seats : Power(Point[i], Parties) = 1
  /\ \A i \in Seats : i # Last => i + 1 \in Seats /\ Point[i + 1] = (Omega * Point[i]) % P
  /\ Power(Omega, Parties) = 1 /\ (Omega * Point[Last]) % P = 1
<1>1. Omega \in Scalar /\ Omega \in Int
  BY HintsConstants, ScalarNotZero
<1>2. \A i \in Seats : Point[i] = Power(Omega, i)
  BY DEF Point
<1>3. \A i \in Nat : Power(Omega, i) \in Scalar /\ Power(Omega, i + 1) = (Omega * Power(Omega, i)) % P
  BY <1>1, PowerIs
<1>4. \A i \in Seats : Point[i] \in Scalar /\ Point[i] \in Int
  BY <1>2, <1>3, SeatsAre, ScalarNotZero
<1>5. Power(Omega, 0) = 1 /\ Point[0] = 1
  BY <1>1, <1>2, PowerIs, SeatsAre, 0 \in Nat
<1>6. Omega = Point[1]
  <2>1. Power(Omega, 0 + 1) = (Omega * 1) % P
    BY <1>3, <1>5
  <2>2. (Omega * 1) % P = Omega
    BY <1>1, OrderIs DEF Scalar
  <2> QED BY <1>2, <2>1, <2>2, SeatsAre, 0 + 1 = 1
<1>7. \A i \in Seats : Power(Point[i], Parties) = 1
  BY HintsConstants
<1>8. ASSUME NEW i \in Seats PROVE Point[i] # 0
  <2>1. Power(0, Last + 1) = (0 * Power(0, Last)) % P /\ Power(0, Last) \in Scalar
    BY PowerIs, SeatsAre, 0 \in Int
  <2>2. (0 * Power(0, Last)) % P = 0
    BY <2>1, OrderIs DEF Scalar
  <2> QED BY <1>7, <2>1, <2>2, SeatsAre
<1>9. ASSUME NEW i \in Seats, i # Last PROVE i + 1 \in Seats /\ Point[i + 1] = (Omega * Point[i]) % P
  <2>1. i + 1 \in Seats /\ i \in Nat
    BY <1>9, SeatsAre
  <2> QED BY <1>2, <1>3, <2>1
<1>10. Power(Omega, Parties) = 1
  BY <1>6, <1>7, SeatsAre
<1>11. (Omega * Point[Last]) % P = 1
  BY <1>2, <1>3, <1>10, SeatsAre
<1> QED BY <1>1, <1>2, <1>4, <1>5, <1>6, <1>7, <1>8, <1>9, <1>10, <1>11, SeatsAre, ScalarNotZero

(* The vanishing polynomial is zero at no other point.                     *)
LEMMA VanishingIs ==
  ASSUME NEW x \in Elsewhere
  PROVE  /\ x \in Scalar /\ x \in Int
         /\ Vanishing(x) \in Int /\ ~ Equal(Vanishing(x), 0)
         /\ \A i \in Seats : x - Point[i] \in Int /\ ~ Equal(x - Point[i], 0)
<1>1. x \in Scalar /\ x \in Int /\ \A i \in Seats : x # Point[i]
  BY ScalarNotZero DEF Elsewhere
<1>2. Power(x, Parties) \in Scalar /\ 1 \in Scalar
  BY <1>1, PowerIs, SeatsAre, ScalarNotZero
<1>3. Power(x, Parties) # 1
  BY <1>1, HintsConstants
<1>4. Vanishing(x) \in Int /\ ~ Equal(Vanishing(x), 0)
  BY <1>2, <1>3, ScalarNotZero, ScalarsDiffer DEF Vanishing
<1> QED BY <1>1, <1>4, PointsAre, ScalarsDiffer

(* What the polynomials of the seats are, up to congruence.                *)
LEMMA LagrangeIs ==
  ASSUME NEW x \in Elsewhere, NEW i \in Seats
  PROVE  /\ Lagrange[i][x] \in Scalar /\ Lagrange[i][x] \in Int
         /\ Equal(Lagrange[i][x] * (Parties * (x - Point[i])), Point[i] * Vanishing(x))
         /\ ~ Equal(Lagrange[i][x], 0)
<1> DEFINE a == Point[i]
           v == Vanishing(x)
           l == Lagrange[i][x]
<1>1. a \in Int /\ v \in Int /\ x - a \in Int /\ ~ Equal(a, 0) /\ ~ Equal(v, 0) /\ ~ Equal(x - a, 0)
  BY PointsAre, VanishingIs
<1>2. l = Over(a * v, Parties * (x - a))
  BY DEF Lagrange
<1> HIDE DEF a, v, l
<1>3. /\ x \in Int /\ a * v \in Int /\ Parties * (x - a) \in Int
      /\ ~ Equal(Parties * (x - a), 0) /\ ~ Equal(a * v, 0)
  <2> DEFINE d == x - a
  <2>1. x \in Int /\ d \in Int /\ ~ Equal(d, 0) /\ Parties \in Int /\ ~ Equal(Parties, 0)
    BY <1>1, VanishingIs, SeatsAre
  <2> HIDE DEF d
  <2>2. ~ Equal(Parties * d, 0) /\ ~ Equal(a * v, 0)
    BY <1>1, <2>1, ProductNotZero
  <2>3. Parties * d \in Int /\ a * v \in Int
    BY <1>1, <2>1
  <2> QED BY <2>1, <2>2, <2>3 DEF d
<1>4. l \in Scalar /\ l \in Int /\ Equal(l * (Parties * (x - a)), a * v)
  BY <1>2, <1>3, OverIs
<1>5. ASSUME Equal(l, 0) PROVE FALSE
  <2> DEFINE d == Parties * (x - a)
             n == a * v
  <2>1. d \in Int /\ n \in Int /\ Equal(l * d, n) /\ ~ Equal(n, 0)
    BY <1>3, <1>4
  <2> HIDE DEF d, n
  <2>2. 0 * d = 0 /\ l * d \in Int /\ 0 \in Int
    BY <1>4, <2>1
  <2>3. Equal(l * d, 0 * d)
    BY <1>4, <1>5, <2>1, <2>2, EqualProducts, EqualSelf
  <2>4. Equal(n, l * d)
    BY <2>1, <2>2, EqualTurned
  <2>5. Equal(n, 0)
    BY <2>1, <2>2, <2>3, <2>4, EqualThrough
  <2> QED BY <2>1, <2>5
<1> QED BY <1>4, <1>5 DEF a, v, l

LEMMA ZeroIsElsewhere == 0 \in Elsewhere /\ Vanishing(0) = -1
<1>1. 0 \in Elsewhere
  BY PointsAre, ScalarNotZero DEF Elsewhere
<1>2. Power(0, Last + 1) = (0 * Power(0, Last)) % P /\ Power(0, Last) \in Scalar
  BY PowerIs, SeatsAre, 0 \in Int
<1>3. (0 * Power(0, Last)) % P = 0
  BY <1>2, OrderIs DEF Scalar
<1> QED BY <1>1, <1>2, <1>3, SeatsAre DEF Vanishing

LEMMA TauIs == Tau \in Elsewhere /\ Tau \in Scalar /\ Tau \in Int /\ Tau # 0 /\ ~ Equal(Tau, 0)
BY HintsConstants, ScalarNotZero DEF Elsewhere

LEMMA GeneratorsAre ==
  /\ G0 \in Int /\ H0 \in Int /\ HMsg \in Int /\ HMsg \in Scalar
  /\ ~ Equal(G0, 0) /\ ~ Equal(H0, 0) /\ ~ Equal(HMsg, 0)
BY HintsConstants, ScalarNotZero

(* The point of the seat before one that is none is none.                  *)
LEMMA BeforeIs ==
  ASSUME NEW r \in Elsewhere
  PROVE  /\ Over(r, Omega) \in Elsewhere /\ Over(r, Omega) \in Int
         /\ \A y \in Scalar : Over(r, Omega) = y => (Omega * y) % P = r
<1> DEFINE b == Over(r, Omega)
<1>1. r \in Scalar /\ r \in Int
  BY VanishingIs
<1>2. b \in Scalar /\ b \in Int /\ Equal(b * Omega, r)
  BY <1>1, PointsAre, OverIs
<1> HIDE DEF b
<1>3. ASSUME NEW y \in Scalar, b = y PROVE (Omega * y) % P = r
  <2>1. y \in Int /\ Omega \in Int
    BY ScalarNotZero, PointsAre
  <2>2. Omega * y \in Int /\ Omega * y = b * Omega
    BY <1>3, <2>1
  <2>3. (Omega * y) % P \in Scalar /\ (Omega * y) % P \in Int /\ Equal((Omega * y) % P, Omega * y)
    BY <2>2, ModEqual
  <2>4. Equal((Omega * y) % P, r)
    BY <1>1, <1>2, <2>2, <2>3, EqualThrough
  <2> QED BY <1>1, <2>3, <2>4, ScalarsEqual
<1>4. ASSUME NEW i \in Seats, b = Point[i] PROVE FALSE
  <2>1. (Omega * Point[i]) % P = r
    BY <1>3, <1>4, PointsAre
  <2>2. \E j \in Seats : r = Point[j]
    <3>1. CASE i = Last
      BY <2>1, <3>1, PointsAre, SeatsAre
    <3>2. CASE i # Last
      BY <2>1, <3>2, PointsAre
    <3> QED BY <3>1, <3>2
  <2> QED BY <1>1, <2>2 DEF Elsewhere
<1>5. b \in Elsewhere
  BY <1>2, <1>4 DEF Elsewhere
<1> QED BY <1>2, <1>3, <1>5 DEF b

(* A challenge, and the point of the seat before it.                       *)
LEMMA ChallengeIs ==
  ASSUME NEW r \in Challenges
  PROVE  /\ r \in Elsewhere /\ r \in Int /\ ~ Equal(r, 0) /\ Tau - r \in Int /\ ~ Equal(Tau - r, 0)
         /\ Over(r, Omega) \in Elsewhere /\ Over(r, Omega) \in Int
         /\ Tau - Over(r, Omega) \in Int /\ ~ Equal(Tau - Over(r, Omega), 0)
<1> DEFINE b == Over(r, Omega)
<1>1. r \in Elsewhere /\ r \in Scalar /\ r # 0 /\ r # Tau /\ r # (Tau * Omega) % P /\ r \in Int
  BY VanishingIs DEF Challenges
<1>2. b \in Elsewhere /\ b \in Scalar /\ b \in Int /\ \A y \in Scalar : b = y => (Omega * y) % P = r
  BY <1>1, BeforeIs, VanishingIs
<1> HIDE DEF b
<1>3. b # Tau
  <2>1. Tau * Omega = Omega * Tau
    BY TauIs, PointsAre
  <2> QED BY <1>1, <1>2, <2>1, TauIs
<1>4. ~ Equal(r, 0) /\ ~ Equal(Tau - r, 0) /\ ~ Equal(Tau - b, 0) /\ Tau - r \in Int /\ Tau - b \in Int
  BY <1>1, <1>2, <1>3, TauIs, ScalarNotZero, ScalarsDiffer
<1> QED BY <1>1, <1>2, <1>4 DEF b

(* ln_minus_1_of_r is the last seat's polynomial.                          *)
LEMMA LnMinusOne ==
  ASSUME NEW r \in Challenges
  PROVE  /\ ln_minus_1_of_r(r) \in Int /\ Equal(ln_minus_1_of_r(r), Lagrange[Last][r])
<1> DEFINE a == Point[Last]
           v == Vanishing(r)
           l == Lagrange[Last][r]
           d == r - a
           p == Over(a, Parties)
           q == Over(v, d)
<1>1. r \in Elsewhere /\ Last \in Seats
  BY ChallengeIs, SeatsAre
<1>2. a \in Int /\ v \in Int /\ d \in Int /\ ~ Equal(d, 0)
  BY <1>1, PointsAre, VanishingIs
<1>3. l \in Int /\ Equal(l * (Parties * d), a * v)
  BY <1>1, LagrangeIs
<1>4. ln_minus_1_of_r(r) = p * q
  BY <1>1, PointsAre DEF ln_minus_1_of_r
<1> HIDE DEF a, v, l, d
<1>5. p \in Int /\ Equal(p * Parties, a) /\ q \in Int /\ Equal(q * d, v)
  BY <1>2, SeatsAre, OverIs
<1> HIDE DEF p, q
<1>6. p * Parties \in Int /\ q * d \in Int /\ p * q \in Int /\ Parties * d \in Int /\ a * v \in Int
  BY <1>2, <1>5, SeatsAre
<1>7. Equal((p * Parties) * (q * d), a * v)
  BY <1>2, <1>5, <1>6, EqualProducts
<1>8. (p * Parties) * (q * d) = (p * q) * (Parties * d)
  BY <1>2, <1>5, SeatsAre
<1>9. Equal(a * v, l * (Parties * d)) /\ l * (Parties * d) \in Int /\ (p * q) * (Parties * d) \in Int
  BY <1>3, <1>6, EqualTurned
<1>10. Equal((p * q) * (Parties * d), l * (Parties * d))
  BY <1>6, <1>7, <1>8, <1>9, EqualThrough
<1>11. ~ Equal(Parties * d, 0)
  BY <1>2, SeatsAre, ProductNotZero
<1>12. Equal(p * q, l)
  BY <1>3, <1>6, <1>10, <1>11, EqualCancelled
<1> QED BY <1>4, <1>6, <1>12 DEF l

(* A list of one value per seat, and the terms of what goes through it.    *)
IsList(values) == \A i \in Seats : values[i] \in Int
Terms(values, x) == [i \in Seats |-> values[i] * Lagrange[i][x]]

LEMMA ThroughIs ==
  ASSUME NEW v, IsList(v), NEW x \in Elsewhere
  PROVE  /\ \A k \in 0 .. Parties - 1 : Terms(v, x)[k] \in Int /\ v[k] \in Int
         /\ Sum(Terms(v, x), Parties) \in Int /\ Sum(v, Parties) \in Int
         /\ Through(v, x) \in Scalar /\ Through(v, x) \in Int
         /\ Equal(Through(v, x), Sum(Terms(v, x), Parties))
<1>1. Parties \in Nat /\ Seats = 0 .. Parties - 1
  BY SeatsAre
<1>2. \A k \in 0 .. Parties - 1 : Terms(v, x)[k] \in Int /\ v[k] \in Int
  <2>1. \A k \in Seats : v[k] \in Int /\ Lagrange[k][x] \in Int
    BY LagrangeIs DEF IsList
  <2>2. \A k \in Seats : Terms(v, x)[k] = v[k] * Lagrange[k][x]
    BY DEF Terms
  <2> QED BY <1>1, <2>1, <2>2
<1>3. Sum(Terms(v, x), Parties) \in Int /\ Sum(v, Parties) \in Int
  BY <1>1, <1>2, SumIs, Parties \in 0 .. Parties
<1>4. Through(v, x) = Sum(Terms(v, x), Parties) % P
  BY DEF Through, Terms
<1> QED BY <1>2, <1>3, <1>4, ModEqual

(* Interpolation is linear.                                                *)
LEMMA ThroughCombined ==
  ASSUME NEW u, NEW v, NEW w, IsList(u), IsList(v), IsList(w), NEW x \in Elsewhere,
         NEW a \in Int, NEW b \in Int, \A i \in Seats : Equal(u[i], a * v[i] + b * w[i])
  PROVE  Equal(Through(u, x), a * Through(v, x) + b * Through(w, x))
<1> DEFINE tu == Terms(u, x)
           tv == Terms(v, x)
           tw == Terms(w, x)
<1>1. \A k \in 0 .. Parties - 1 : tu[k] \in Int /\ tv[k] \in Int /\ tw[k] \in Int
  BY ThroughIs
<1>2. ASSUME NEW k \in 0 .. Parties - 1 PROVE Equal(tu[k], a * tv[k] + b * tw[k])
  <2> DEFINE p == u[k]
             q == v[k]
             s == w[k]
             l == Lagrange[k][x]
  <2>1. k \in Seats
    BY SeatsAre
  <2>2. tu[k] = p * l /\ tv[k] = q * l /\ tw[k] = s * l
    BY <2>1 DEF Terms
  <2>3. p \in Int /\ q \in Int /\ s \in Int /\ l \in Int /\ Equal(p, a * q + b * s)
    BY <2>1, LagrangeIs DEF IsList
  <2> HIDE DEF p, q, s, l, tu, tv, tw
  <2>4. a * q + b * s \in Int
    BY <2>3
  <2>5. Equal(p * l, (a * q + b * s) * l)
    BY <2>3, <2>4, EqualProducts, EqualSelf
  <2>6. (a * q + b * s) * l = a * (q * l) + b * (s * l)
    BY <2>3
  <2> QED BY <2>2, <2>5, <2>6
<1> DEFINE su == Sum(tu, Parties)
           sv == Sum(tv, Parties)
           sw == Sum(tw, Parties)
           yu == Through(u, x)
           yv == Through(v, x)
           yw == Through(w, x)
<1> HIDE DEF tu, tv, tw
<1>3. su \in Int /\ sv \in Int /\ sw \in Int /\ Equal(su, a * sv + b * sw)
  BY <1>1, <1>2, SeatsAre, SumCombined
<1>4. /\ yu \in Int /\ yv \in Int /\ yw \in Int
      /\ Equal(yu, su) /\ Equal(yv, sv) /\ Equal(yw, sw)
  BY ThroughIs DEF tu, tv, tw
<1> HIDE DEF su, sv, sw, yu, yv, yw
<1>5. PICK k \in Int, l \in Int, m \in Int, n \in Int :
        su = a * sv + b * sw + k * P /\ yu = su + l * P /\ yv = sv + m * P /\ yw = sw + n * P
  <2>1. a * sv + b * sw \in Int
    BY <1>3
  <2>2. PICK k \in Int : su = a * sv + b * sw + k * P
    BY <1>3, <2>1, EqualHas
  <2>3. PICK l \in Int : yu = su + l * P
    BY <1>3, <1>4, EqualHas
  <2>4. PICK m \in Int : yv = sv + m * P
    BY <1>3, <1>4, EqualHas
  <2>5. PICK n \in Int : yw = sw + n * P
    BY <1>3, <1>4, EqualHas
  <2> QED BY <2>2, <2>3, <2>4, <2>5
<1> DEFINE z == k + l - a * m - b * n
<1>6. z \in Int /\ yu - (a * yv + b * yw) = z * P /\ a * yv + b * yw \in Int
  BY <1>3, <1>4, <1>5, OrderIs
<1> HIDE DEF z
<1>7. Equal(yu, a * yv + b * yw)
  BY <1>4, <1>6, EqualBy
<1> QED BY <1>7 DEF yu, yv, yw

LEMMA ThroughNothing ==
  ASSUME NEW v, IsList(v), \A i \in Seats : Equal(v[i], 0), NEW x \in Elsewhere
  PROVE  Through(v, x) \in Int /\ Equal(Through(v, x), 0)
<1>1. \A i \in Seats : 0 * v[i] + 0 * v[i] = 0
  BY DEF IsList
<1>2. Equal(Through(v, x), 0 * Through(v, x) + 0 * Through(v, x))
  <2>1. \A i \in Seats : Equal(v[i], 0 * v[i] + 0 * v[i])
    BY <1>1
  <2> QED BY <2>1, ThroughCombined, 0 \in Int
<1>3. Through(v, x) \in Int
  BY ThroughIs
<1>4. 0 * Through(v, x) + 0 * Through(v, x) = 0
  BY <1>3
<1> QED BY <1>2, <1>3, <1>4

(* The list that has 1 at the last seat alone.                             *)
AtLast == [i \in Seats |-> IF i = Last THEN 1 ELSE 0]

LEMMA ThroughAtLast ==
  ASSUME NEW x \in Elsewhere
  PROVE  IsList(AtLast) /\ Equal(Through(AtLast, x), Lagrange[Last][x])
<1> DEFINE t == Terms(AtLast, x)
<1>1. IsList(AtLast)
  BY DEF IsList, AtLast
<1>2. \A k \in 0 .. Parties - 1 : t[k] \in Int
  BY <1>1, ThroughIs
<1>3. ASSUME NEW k \in 0 .. Parties - 1, k # Last PROVE Equal(t[k], 0)
  <2>1. k \in Seats /\ Lagrange[k][x] \in Int
    BY SeatsAre, LagrangeIs
  <2>2. t[k] = 0
    BY <1>3, <2>1 DEF Terms, AtLast
  <2> QED BY <2>2, EqualSelf, 0 \in Int
<1>4. t[Last] = Lagrange[Last][x] /\ Lagrange[Last][x] \in Int
  <2>1. Last \in Seats /\ Lagrange[Last][x] \in Int
    BY SeatsAre, LagrangeIs
  <2>2. t[Last] = 1 * Lagrange[Last][x]
    BY <2>1 DEF Terms, AtLast
  <2> QED BY <2>1, <2>2
<1> HIDE DEF t
<1>5. Sum(t, Parties) \in Int /\ Equal(Sum(t, Parties), t[Last])
  <2>1. Parties \in Nat /\ Last \in 0 .. Parties - 1
    BY SeatsAre
  <2> QED BY <1>2, <1>3, <2>1, SumOfOne
<1>6. Through(AtLast, x) \in Int /\ Equal(Through(AtLast, x), Sum(t, Parties))
  BY <1>1, ThroughIs DEF t
<1> QED BY <1>1, <1>4, <1>5, <1>6, EqualThrough

(* At zero a list goes through the mean of its values.                     *)
LEMMA ThroughZero ==
  ASSUME NEW v, IsList(v)
  PROVE  Through(v, 0) \in Int /\ Equal(Through(v, 0), Over(Sum(v, Parties), Parties))
         /\ Over(Sum(v, Parties), Parties) \in Scalar
<1> DEFINE t == Terms(v, 0)
           s == Sum(v, Parties)
           y == Sum(t, Parties)
           z == Through(v, 0)
           m == Over(s, Parties)
<1>1. 0 \in Elsewhere
  BY ZeroIsElsewhere
<1>2. \A k \in 0 .. Parties - 1 : t[k] \in Int /\ v[k] \in Int
  BY <1>1, ThroughIs
<1>3. ASSUME NEW k \in 0 .. Parties - 1 PROVE Equal(v[k], Parties * t[k] + 0 * t[k])
  <2> DEFINE l == Lagrange[k][0]
             a == Point[k]
             q == v[k]
  <2>1. k \in Seats /\ a \in Int /\ ~ Equal(a, 0) /\ q \in Int
    BY <1>2, SeatsAre, PointsAre
  <2>2. l \in Int /\ Equal(l * (Parties * (0 - a)), a * (-1))
    BY <1>1, <2>1, LagrangeIs, ZeroIsElsewhere
  <2>3. t[k] = q * l
    BY <2>1 DEF Terms
  <2> HIDE DEF l, a, q, t
  <2>4. PICK i \in Int : l * (Parties * (0 - a)) = a * (-1) + i * P
    <3>1. l * (Parties * (0 - a)) \in Int /\ a * (-1) \in Int
      BY <2>1, <2>2, SeatsAre
    <3> QED BY <2>2, <3>1, EqualHas
  <2>5. 1 * a - (Parties * l) * a = i * P /\ 1 * a \in Int /\ Parties * l \in Int /\ (Parties * l) * a \in Int
    BY <2>1, <2>2, <2>4, SeatsAre, OrderIs
  <2>6. Equal(1 * a, (Parties * l) * a)
    BY <2>5, EqualBy
  <2>7. Equal(1, Parties * l)
    BY <2>1, <2>5, <2>6, EqualCancelled, 1 \in Int
  <2>8. Equal(q * 1, q * (Parties * l))
    BY <2>1, <2>5, <2>7, EqualProducts, EqualSelf, 1 \in Int
  <2>9. q * 1 = q /\ q * (Parties * l) = Parties * (q * l) + 0 * (q * l)
    BY <2>1, <2>2, SeatsAre
  <2> QED BY <2>3, <2>8, <2>9 DEF q
<1>4. z \in Int /\ y \in Int /\ s \in Int /\ Equal(z, y)
  BY <1>1, ThroughIs
<1> HIDE DEF t
<1>5. Equal(s, Parties * y + 0 * y)
  BY <1>2, <1>3, SeatsAre, SumCombined, 0 \in Int
<1>6. m \in Int /\ m \in Scalar /\ Equal(m * Parties, s)
  BY <1>4, SeatsAre, OverIs
<1> HIDE DEF s, y, z, m
<1>7. PICK i \in Int, j \in Int, k \in Int :
        z = y + i * P /\ s = Parties * y + 0 * y + j * P /\ m * Parties = s + k * P
  <2>1. PICK i \in Int : z = y + i * P
    BY <1>4, EqualHas
  <2>2. Parties * y + 0 * y \in Int /\ m * Parties \in Int
    BY <1>4, <1>6, SeatsAre
  <2>3. PICK j \in Int : s = Parties * y + 0 * y + j * P
    BY <1>4, <1>5, <2>2, EqualHas
  <2>4. PICK k \in Int : m * Parties = s + k * P
    BY <1>4, <1>6, <2>2, EqualHas
  <2> QED BY <2>1, <2>3, <2>4
<1> DEFINE n == i * Parties - j - k
<1>8. z * Parties - m * Parties = n * P /\ n \in Int /\ z * Parties \in Int /\ m * Parties \in Int
  BY <1>4, <1>6, <1>7, SeatsAre, OrderIs
<1> HIDE DEF n
<1>9. Equal(z * Parties, m * Parties)
  BY <1>8, EqualBy
<1>10. Equal(z, m)
  BY <1>4, <1>6, <1>9, SeatsAre, EqualCancelled
<1> QED BY <1>4, <1>6, <1>10 DEF z, m, s

(* A quotient times what it was divided by.                                *)
LEMMA QuotientIs ==
  ASSUME NEW value \in Int, NEW v, IsList(v), NEW x \in Elsewhere
  PROVE  /\ Quotient(value, v, x) \in Int
         /\ Equal(Quotient(value, v, x) * Vanishing(x), value - Through(v, x))
<1>1. Through(v, x) \in Int
  BY ThroughIs
<1>2. value - Through(v, x) \in Int /\ Vanishing(x) \in Int /\ ~ Equal(Vanishing(x), 0)
  BY <1>1, VanishingIs
<1> QED BY <1>2, OverIs DEF Quotient

----------------------------------------------------------------------------
(* How many zeros a sum of c[i] / (z - Point[i]) can have: fewer than it   *)
(* has terms, unless it has nothing but zeros in it.                       *)
OneOver(z, i) == Over(1, z - Point[i])
Fractions(c, z) == [i \in Seats |-> c[i] * OneOver(z, i)]

LEMMA OneOverIs ==
  ASSUME NEW z \in Elsewhere, NEW i \in Seats
  PROVE  /\ OneOver(z, i) \in Int /\ z - Point[i] \in Int
         /\ Equal(OneOver(z, i) * (z - Point[i]), 1) /\ ~ Equal(OneOver(z, i), 0)
<1> DEFINE d == z - Point[i]
           v == Over(1, d)
<1>1. d \in Int /\ ~ Equal(d, 0)
  BY VanishingIs
<1> HIDE DEF d
<1>2. v \in Int /\ Equal(v * d, 1)
  BY <1>1, OverIs, 1 \in Int
<1> HIDE DEF v
<1>3. ASSUME Equal(v, 0) PROVE FALSE
  <2>1. v * d \in Int /\ 0 * d = 0 /\ 1 \in Int /\ 0 \in Int
    BY <1>1, <1>2
  <2>2. Equal(v * d, 0 * d)
    BY <1>1, <1>2, <1>3, <2>1, EqualProducts, EqualSelf
  <2>3. Equal(1, v * d)
    BY <1>2, <2>1, EqualTurned
  <2>4. Equal(1, 0)
    BY <2>1, <2>2, <2>3, EqualThrough
  <2>5. 1 \in Scalar
    BY OrderIs DEF Scalar
  <2> QED BY <2>4, <2>5, ScalarNotZero, 1 # 0
<1> QED BY <1>1, <1>2, <1>3 DEF v, d, OneOver

LEMMA FractionsAre ==
  ASSUME NEW c \in [Seats -> Int], NEW z \in Elsewhere
  PROVE  /\ \A k \in Seats : Fractions(c, z)[k] = c[k] * OneOver(z, k)
         /\ \A k \in Seats : Fractions(c, z)[k] \in Int /\ c[k] \in Int
         /\ \A m \in 0 .. Parties : Sum(Fractions(c, z), m) \in Int
         /\ \A m \in 0 .. Parties - 1 :
              Sum(Fractions(c, z), m + 1) = Sum(Fractions(c, z), m) + Fractions(c, z)[m]
<1>1. \A k \in Seats : Fractions(c, z)[k] = c[k] * OneOver(z, k) /\ c[k] \in Int /\ OneOver(z, k) \in Int
  BY OneOverIs DEF Fractions
<1>2. \A k \in Seats : Fractions(c, z)[k] \in Int
  BY <1>1
<1>3. Parties \in Nat /\ \A k \in 0 .. Parties - 1 : Fractions(c, z)[k] \in Int
  BY <1>2, SeatsAre
<1>4. /\ \A m \in 0 .. Parties : Sum(Fractions(c, z), m) \in Int
      /\ \A m \in 0 .. Parties - 1 :
           Sum(Fractions(c, z), m + 1) = Sum(Fractions(c, z), m) + Fractions(c, z)[m]
  BY <1>3, SumIs
<1> QED BY <1>1, <1>2, <1>4

(* One fraction at two places.                                             *)
LEMMA TwoFractions ==
  ASSUME NEW y \in Int, NEW z \in Int, NEW a \in Int, NEW b \in Int, NEW c \in Int,
         NEW p \in Int, NEW q \in Int, Equal(p * (z - a), 1), Equal(q * (y - a), 1)
  PROVE  Equal((y - z) * ((c * ((a - b) * q)) * p), (z - b) * (c * p) + (b - y) * (c * q))
<1>1. PICK k \in Int : p * (z - a) = 1 + k * P
  <2>1. p * (z - a) \in Int /\ 1 \in Int
    OBVIOUS
  <2> QED BY <2>1, EqualHas
<1>2. PICK l \in Int : q * (y - a) = 1 + l * P
  <2>1. q * (y - a) \in Int /\ 1 \in Int
    OBVIOUS
  <2> QED BY <2>1, EqualHas
<1>3. (y - z) * (q * p) = (1 + l * P) * p - (1 + k * P) * q
  <2>1. (y - z) * (q * p) = (q * (y - a)) * p - (p * (z - a)) * q
    OBVIOUS
  <2> QED BY <1>1, <1>2, <2>1
<1>4. (z - b) * p = (1 + k * P) + (a - b) * p
  <2>1. (z - b) * p = p * (z - a) + (a - b) * p
    OBVIOUS
  <2> QED BY <1>1, <2>1
<1>5. (b - y) * q = - (1 + l * P) - (a - b) * q
  <2>1. (b - y) * q = - (q * (y - a)) - (a - b) * q
    OBVIOUS
  <2> QED BY <1>2, <2>1
<1> DEFINE left == (y - z) * ((c * ((a - b) * q)) * p)
           right == (z - b) * (c * p) + (b - y) * (c * q)
           s == (a - b) * (l * p - k * q) - (k - l)
<1>6. left = (c * (a - b)) * ((y - z) * (q * p))
  OBVIOUS
<1>7. right = c * ((z - b) * p + (b - y) * q)
  OBVIOUS
<1>8. left \in Int /\ right \in Int /\ s \in Int /\ c * s \in Int
  OBVIOUS
<1> HIDE DEF left, right
<1>9. left = (c * (a - b)) * ((1 + l * P) * p - (1 + k * P) * q)
  BY <1>3, <1>6
<1>10. right = c * ((1 + k * P) + (a - b) * p - (1 + l * P) - (a - b) * q)
  <2>1. (z - b) * p + (b - y) * q = (1 + k * P) + (a - b) * p - (1 + l * P) - (a - b) * q
    BY <1>4, <1>5, OrderIs
  <2> QED BY <1>7, <2>1
<1>11. left - right = (c * s) * P
  BY <1>9, <1>10, OrderIs
<1> HIDE DEF s
<1> QED BY <1>8, <1>11, EqualBy DEF left, right

FewZeros(m) ==
  \A c \in [Seats -> Int] : \A Z \in SUBSET Elsewhere :
    /\ IsFiniteSet(Z) /\ Cardinality(Z) >= m
    /\ \A z \in Z : Equal(Sum(Fractions(c, z), m), 0)
    => \A i \in 0 .. m - 1 : Equal(c[i], 0)

(* One term more: a zero of it takes the term away from all the others.    *)
LEMMA FewZerosStep ==
  ASSUME NEW m \in 0 .. Parties - 1, FewZeros(m)
  PROVE  FewZeros(m + 1)
<1> SUFFICES ASSUME NEW c \in [Seats -> Int], NEW Z \in SUBSET Elsewhere,
                    IsFiniteSet(Z), Cardinality(Z) >= m + 1,
                    \A z \in Z : Equal(Sum(Fractions(c, z), m + 1), 0)
             PROVE  \A i \in 0 .. m : Equal(c[i], 0)
  <2>1. (m + 1) - 1 = m
    OBVIOUS
  <2> QED BY <2>1 DEF FewZeros
<1>1. m \in Nat /\ m \in Seats /\ m \in 0 .. Parties /\ \A i \in 0 .. m - 1 : i \in Seats /\ i # m
  BY SeatsAre
<1>2. PICK y \in Z : TRUE
  <2>1. Z # {}
    BY <1>1, FS_EmptySet
  <2> QED BY <2>1
<1> DEFINE b == Point[m]
           d == [i \in Seats |-> c[i] * ((Point[i] - b) * OneOver(y, i))]
           Others == Z \ {y}
<1>3. d \in [Seats -> Int] /\ \A i \in Seats : d[i] = c[i] * ((Point[i] - b) * OneOver(y, i))
  <2>1. \A i \in Seats : c[i] \in Int /\ Point[i] \in Int /\ OneOver(y, i) \in Int
    BY <1>2, OneOverIs, PointsAre
  <2> QED BY <1>1, <2>1
<1>4. IsFiniteSet(Others) /\ Cardinality(Others) >= m /\ Others \in SUBSET Elsewhere
  <2>1. IsFiniteSet(Others) /\ Cardinality(Others) = Cardinality(Z) - 1
    BY <1>2, FS_RemoveElement
  <2>2. Cardinality(Z) \in Nat
    BY FS_CardinalityType
  <2> QED BY <1>1, <2>1, <2>2
<1> HIDE DEF d
<1>5. ASSUME NEW z \in Z
      PROVE  /\ z \in Elsewhere /\ z \in Int /\ z - b \in Int
             /\ Equal((z - b) * Sum(Fractions(c, z), m), - c[m]) /\ c[m] \in Int
             /\ Sum(Fractions(c, z), m) \in Int
  <2> DEFINE s == Sum(Fractions(c, z), m)
             t == c[m]
             v == OneOver(z, m)
             e == z - b
  <2>1. z \in Elsewhere /\ z \in Int
    BY VanishingIs
  <2>2. s \in Int /\ t \in Int /\ Sum(Fractions(c, z), m + 1) = s + t * v
    BY <1>1, <2>1, FractionsAre
  <2>3. v \in Int /\ e \in Int /\ Equal(v * e, 1)
    BY <1>1, <2>1, OneOverIs
  <2>4. Equal(s + t * v, 0)
    BY <2>2
  <2> HIDE DEF s, t, v, e
  <2>5. PICK k \in Int : s + t * v = 0 + k * P
    <3>1. s + t * v \in Int
      BY <2>2, <2>3
    <3> QED BY <2>4, <3>1, EqualHas
  <2>6. PICK l \in Int : v * e = 1 + l * P
    <3>1. v * e \in Int
      BY <2>3
    <3> QED BY <2>3, <3>1, EqualHas, 1 \in Int
  <2>7. e * s - (- t) = (k * e - t * l) * P
    <3>1. s = k * P - t * v
      BY <2>2, <2>3, <2>5, OrderIs
    <3>2. e * s = (k * e) * P - t * (v * e)
      BY <2>2, <2>3, <3>1, OrderIs
    <3>3. t * (v * e) = t + (t * l) * P
      BY <2>2, <2>3, <2>6, OrderIs
    <3>4. (k * e - t * l) * P = (k * e) * P - (t * l) * P
      BY <2>2, <2>3, OrderIs
    <3> DEFINE p == (k * e) * P
               q == (t * l) * P
    <3>5. p \in Int /\ q \in Int /\ e * s \in Int /\ t * (v * e) \in Int
      BY <2>2, <2>3, OrderIs
    <3> HIDE DEF p, q
    <3> QED BY <2>2, <3>2, <3>3, <3>4, <3>5 DEF p, q
  <2>8. e * s \in Int /\ - t \in Int /\ k * e - t * l \in Int
    BY <2>2, <2>3
  <2>9. Equal(e * s, - t)
    BY <2>7, <2>8, EqualBy
  <2> QED BY <2>1, <2>2, <2>3, <2>9 DEF s, t, e
<1>6. ASSUME NEW z \in Others PROVE Equal(Sum(Fractions(d, z), m), 0)
  <2> DEFINE u == [i \in Seats |-> (y - z) * Fractions(d, z)[i]]
             fd == Fractions(d, z)
             fz == Fractions(c, z)
             fy == Fractions(c, y)
             sd == Sum(fd, m)
             sz == Sum(fz, m)
             sy == Sum(fy, m)
  <2>1. /\ z \in Elsewhere /\ z \in Int /\ y \in Elsewhere /\ y \in Int /\ b \in Int
        /\ y - z \in Int /\ ~ Equal(y - z, 0)
    <3>1. y \in Scalar /\ z \in Scalar /\ y # z
      BY <1>2, VanishingIs
    <3> QED BY <1>1, <1>2, <1>5, <3>1, PointsAre, ScalarsDiffer
  <2>2. \A i \in Seats : fd[i] \in Int /\ fz[i] \in Int /\ fy[i] \in Int
    BY <1>3, <2>1, FractionsAre
  <2>3. \A i \in Seats : u[i] = (y - z) * fd[i] /\ u[i] \in Int
    BY <2>1, <2>2
  <2>4. ASSUME NEW i \in Seats PROVE Equal(u[i], (z - b) * fz[i] + (b - y) * fy[i])
    <3> DEFINE p == OneOver(z, i)
               q == OneOver(y, i)
               a == Point[i]
               e == c[i]
    <3>1. fd[i] = (e * ((a - b) * q)) * p /\ fz[i] = e * p /\ fy[i] = e * q
      BY <1>3, <2>1, FractionsAre
    <3>2. /\ p \in Int /\ q \in Int /\ a \in Int /\ e \in Int
          /\ Equal(p * (z - a), 1) /\ Equal(q * (y - a), 1)
      BY <2>1, OneOverIs, PointsAre
    <3> HIDE DEF p, q, a, e, fd, fz, fy, b
    <3>3. Equal((y - z) * ((e * ((a - b) * q)) * p), (z - b) * (e * p) + (b - y) * (e * q))
      BY <2>1, <3>2, TwoFractions
    <3> QED BY <2>3, <3>1, <3>3
  <2> HIDE DEF u, fd, fz, fy, b
  <2>5. ASSUME NEW i \in Seats PROVE Equal(u[i], (y - z) * fd[i] + 0 * fd[i])
    <3>1. u[i] = (y - z) * fd[i] + 0 * fd[i]
      BY <2>1, <2>2, <2>3
    <3> QED BY <2>3, <3>1, EqualSelf
  <2>6. \A k \in 0 .. m - 1 : u[k] \in Int /\ fd[k] \in Int /\ fz[k] \in Int /\ fy[k] \in Int
    BY <1>1, <2>2, <2>3
  <2>7. z - b \in Int /\ b - y \in Int
    BY <2>1
  <2>8. Equal(Sum(u, m), (z - b) * sz + (b - y) * sy) /\ Sum(u, m) \in Int /\ sz \in Int /\ sy \in Int
    <3>1. \A k \in 0 .. m - 1 : Equal(u[k], (z - b) * fz[k] + (b - y) * fy[k])
      BY <1>1, <2>4
    <3> QED BY <1>1, <2>6, <2>7, <3>1, SumCombined
  <2>9. Equal(Sum(u, m), (y - z) * sd + 0 * sd) /\ sd \in Int
    <3>1. \A k \in 0 .. m - 1 : Equal(u[k], (y - z) * fd[k] + 0 * fd[k])
      BY <1>1, <2>5
    <3> QED BY <1>1, <2>1, <2>6, <3>1, SumCombined, 0 \in Int
  <2> DEFINE s == Sum(u, m)
             g == y - z
             t == c[m]
             x == (z - b) * sz
             w == (y - b) * sy
  <2>10. Equal(x, - t) /\ Equal(w, - t) /\ t \in Int
    BY <1>2, <1>5 DEF sz, sy, fz, fy
  <2> HIDE DEF sd, sz, sy, t
  <2>11. /\ x \in Int /\ w \in Int /\ (z - b) * sz + (b - y) * sy = x - w
         /\ g \in Int /\ g * sd + 0 * sd = g * sd /\ g * sd \in Int /\ ~ Equal(g, 0)
    BY <2>1, <2>8, <2>9
  <2> HIDE DEF s, g, x, w
  <2>12. s \in Int /\ Equal(s, x - w) /\ Equal(s, g * sd)
    BY <2>8, <2>9, <2>11 DEF s, g
  <2>13. Equal(x - w, 0)
    <3>1. - t \in Int /\ (- t) - (- t) = 0
      BY <2>10
    <3>2. Equal(x - w, (- t) - (- t))
      BY <2>10, <2>11, <3>1, EqualSums
    <3> QED BY <3>1, <3>2
  <2>14. Equal(g * sd, 0)
    <3>1. x - w \in Int
      BY <2>11
    <3>2. Equal(g * sd, s) /\ Equal(s, 0)
      BY <2>11, <2>12, <2>13, <3>1, EqualTurned, EqualThrough
    <3> QED BY <2>11, <2>12, <3>2, EqualThrough
  <2> QED BY <2>9, <2>11, <2>14, NoZeroDivisors DEF sd, fd
<1>7. \A i \in 0 .. m - 1 : Equal(d[i], 0)
  BY <1>3, <1>4, <1>6 DEF FewZeros
<1>8. ASSUME NEW i \in 0 .. m - 1 PROVE Equal(c[i], 0)
  <2> DEFINE e == c[i]
             f == Point[i] - b
             g == OneOver(y, i)
  <2>1. i \in Seats /\ Equal(d[i], 0) /\ d[i] = e * (f * g) /\ e \in Int
    BY <1>1, <1>3, <1>7
  <2>2. f \in Int /\ ~ Equal(f, 0)
    <3>1. Point[i] # Point[m]
      BY <1>1, <2>1, HintsConstants
    <3> QED BY <1>1, <2>1, <3>1, PointsAre, ScalarsDiffer
  <2>3. g \in Int /\ ~ Equal(g, 0)
    BY <1>2, <2>1, OneOverIs
  <2> HIDE DEF e, f, g
  <2>4. f * g \in Int /\ ~ Equal(f * g, 0)
    BY <2>2, <2>3, ProductNotZero
  <2>5. e * (f * g) = (f * g) * e
    BY <2>1, <2>4
  <2>6. Equal(e, 0)
    BY <2>1, <2>4, <2>5, NoZeroDivisors
  <2> QED BY <2>6 DEF e
<1>9. Equal(c[m], 0)
  <2> DEFINE f == Fractions(c, y)
  <2>1. y \in Elsewhere
    BY <1>2
  <2>2. /\ \A k \in Seats : f[k] = c[k] * OneOver(y, k) /\ f[k] \in Int /\ c[k] \in Int
        /\ Sum(f, m + 1) \in Int /\ Equal(Sum(f, m + 1), 0)
    <3>1. m + 1 \in 0 .. Parties /\ m \in 0 .. Parties - 1
      BY SeatsAre
    <3>2. Equal(Sum(f, m + 1), 0)
      BY <1>2
    <3>3. \A k \in 0 .. Parties : Sum(f, k) \in Int
      BY <2>1, FractionsAre
    <3>4. \A k \in Seats : f[k] = c[k] * OneOver(y, k) /\ f[k] \in Int /\ c[k] \in Int
      BY <2>1, FractionsAre
    <3> QED BY <3>1, <3>2, <3>3, <3>4
  <2>3. ASSUME NEW k \in 0 .. m, k # m PROVE Equal(f[k], 0)
    <3>1. k \in 0 .. m - 1 /\ k \in Seats
      BY <1>1, <2>3
    <3>2. Equal(c[k], 0) /\ OneOver(y, k) \in Int /\ c[k] \in Int
      BY <1>8, <2>1, <2>2, <3>1, OneOverIs
    <3>3. 0 * OneOver(y, k) = 0
      BY <3>2
    <3>4. Equal(c[k] * OneOver(y, k), 0 * OneOver(y, k))
      BY <3>2, EqualProducts, EqualSelf, 0 \in Int
    <3> QED BY <2>2, <3>1, <3>3, <3>4
  <2> HIDE DEF f
  <2>4. Equal(Sum(f, m + 1), f[m])
    <3>1. m + 1 \in Nat /\ m \in 0 .. (m + 1) - 1 /\ (m + 1) - 1 = m /\ \A k \in 0 .. m : f[k] \in Int
      BY <1>1, <2>2, SeatsAre
    <3> QED BY <2>3, <3>1, SumOfOne
  <2>5. f[m] \in Int /\ Equal(f[m], 0)
    BY <1>1, <2>2, <2>4, EqualTurned, EqualThrough, 0 \in Int
  <2>6. OneOver(y, m) \in Int /\ ~ Equal(OneOver(y, m), 0) /\ c[m] \in Int
    BY <1>1, <2>1, <2>2, OneOverIs
  <2>7. f[m] = OneOver(y, m) * c[m]
    BY <1>1, <2>2, <2>6
  <2> QED BY <2>5, <2>6, <2>7, NoZeroDivisors
<1> QED
  <2>1. \A i \in 0 .. m : i = m \/ i \in 0 .. m - 1
    BY <1>1
  <2> QED BY <1>8, <1>9, <2>1

LEMMA FewZerosAlways == FewZeros(Parties)
<1> DEFINE S == {m \in 0 .. Parties : FewZeros(m)}
<1>1. 0 \in S
  BY SeatsAre DEF FewZeros
<1>2. \A m \in 0 .. Parties - 1 : m \in S => m + 1 \in S
  BY SeatsAre, FewZerosStep
<1> HIDE DEF S
<1>3. \A m \in 0 .. Parties : m \in S
  BY <1>1, <1>2, SeatsAre, BoundedInduction
<1> QED BY <1>3, SeatsAre DEF S

(* A list that is not nothing goes through zero at fewer points than there *)
(* are seats.                                                              *)
LEMMA ZerosOfAList ==
  ASSUME NEW v, IsList(v), NEW j \in Seats, ~ Equal(v[j], 0),
         NEW Z \in SUBSET Elsewhere, \A z \in Z : Equal(Through(v, z), 0)
  PROVE  IsFiniteSet(Z) /\ Cardinality(Z) < Parties
<1> DEFINE c == [i \in Seats |-> v[i] * Point[i]]
<1>1. IsFiniteSet(Z)
  <2>1. IsFiniteSet(0 .. P - 1)
    BY OrderIs, FS_Interval, 0 \in Int, P - 1 \in Int
  <2>2. Z \subseteq 0 .. P - 1
    BY DEF Elsewhere, Scalar
  <2> QED BY <2>1, <2>2, FS_Subset
<1>2. c \in [Seats -> Int] /\ \A i \in Seats : c[i] = v[i] * Point[i] /\ v[i] \in Int
  BY PointsAre DEF IsList
<1> HIDE DEF c
<1>3. ASSUME NEW z \in Z PROVE Equal(Sum(Fractions(c, z), Parties), 0)
  <2> DEFINE t == Terms(v, z)
             f == Fractions(c, z)
             w == Vanishing(z)
  <2>1. z \in Elsewhere /\ z \in Int /\ w \in Int /\ ~ Equal(w, 0)
    BY VanishingIs
  <2>2. \A k \in Seats : t[k] \in Int /\ f[k] \in Int
    BY <1>2, <2>1, ThroughIs, FractionsAre, SeatsAre
  <2>3. ASSUME NEW k \in Seats PROVE Equal(w * f[k], Parties * t[k] + 0 * t[k])
    <3> DEFINE l == Lagrange[k][z]
               q == v[k]
               a == Point[k]
               i == OneOver(z, k)
               d == z - a
    <3>1. t[k] = q * l /\ f[k] = (q * a) * i
      BY <1>2, <2>1, FractionsAre DEF Terms
    <3>2. /\ l \in Int /\ q \in Int /\ a \in Int /\ i \in Int /\ d \in Int
          /\ Equal(l * (Parties * d), a * w) /\ Equal(i * d, 1)
      BY <1>2, <2>1, LagrangeIs, PointsAre, OneOverIs
    <3> HIDE DEF l, q, a, i, d, t, f, w
    <3>3. PICK n \in Int : l * (Parties * d) = a * w + n * P
      <4>1. l * (Parties * d) \in Int /\ a * w \in Int
        BY <2>1, <3>2, SeatsAre
      <4> QED BY <3>2, <4>1, EqualHas
    <3>4. PICK m \in Int : i * d = 1 + m * P
      <4>1. i * d \in Int
        BY <3>2
      <4> QED BY <3>2, <4>1, EqualHas, 1 \in Int
    <3> DEFINE x == a * w
               y == Parties * l
    <3>5. x \in Int /\ y \in Int /\ y * d = x + n * P
      BY <2>1, <3>2, <3>3, SeatsAre, OrderIs
    <3>6. w * ((q * a) * i) = (q * i) * x /\ Parties * (q * l) + 0 * (q * l) = q * y
      BY <2>1, <3>2, SeatsAre
    <3> HIDE DEF x, y
    <3>7. (q * i) * x = q * (y * (i * d)) - (q * i * n) * P
      <4>1. x = y * d - n * P
        BY <3>2, <3>5, OrderIs
      <4> QED BY <3>2, <3>5, <4>1, OrderIs
    <3>8. (q * i) * x - q * y = (q * y * m - q * i * n) * P
      <4>1. q * (y * (i * d)) = q * y + (q * y * m) * P
        BY <3>2, <3>4, <3>5, OrderIs
      <4>2. (q * y * m - q * i * n) * P = (q * y * m) * P - (q * i * n) * P
        BY <3>2, <3>5, OrderIs
      <4> DEFINE A1 == (q * y * m) * P
                 A2 == (q * i * n) * P
                 A3 == q * y
                 A4 == (q * i) * x
                 A5 == q * (y * (i * d))
      <4>3. A1 \in Int /\ A2 \in Int /\ A3 \in Int /\ A4 \in Int /\ A5 \in Int
        BY <3>2, <3>5, OrderIs
      <4>4. A4 = A5 - A2 /\ A5 = A3 + A1 /\ (q * y * m - q * i * n) * P = A1 - A2
        BY <3>7, <4>1, <4>2
      <4> HIDE DEF A1, A2, A3, A4, A5
      <4>5. A4 - A3 = A1 - A2
        BY <4>3, <4>4
      <4> QED BY <4>4, <4>5 DEF A3, A4
    <3>9. (q * i) * x \in Int /\ q * y \in Int /\ q * y * m - q * i * n \in Int
      BY <3>2, <3>5
    <3>10. Equal((q * i) * x, q * y)
      BY <3>8, <3>9, EqualBy
    <3> QED BY <3>1, <3>6, <3>10
  <2> DEFINE u == [k \in Seats |-> w * f[k]]
             s == Sum(t, Parties)
             g == Sum(f, Parties)
  <2>4. \A k \in Seats : u[k] = w * f[k] /\ u[k] \in Int
    BY <2>1, <2>2
  <2> HIDE DEF u, t, f, w
  <2>5. \A k \in 0 .. Parties - 1 : u[k] \in Int /\ t[k] \in Int /\ f[k] \in Int
    BY <2>2, <2>4, SeatsAre
  <2>6. \A k \in 0 .. Parties - 1 : Equal(u[k], Parties * t[k] + 0 * t[k])
    BY <2>3, <2>4, SeatsAre
  <2>7. \A k \in 0 .. Parties - 1 : Equal(u[k], w * f[k] + 0 * f[k])
    <3>1. \A k \in Seats : w * f[k] + 0 * f[k] = u[k]
      BY <2>1, <2>2, <2>4
    <3> QED BY <2>5, <3>1, SeatsAre, EqualSelf
  <2>8. Equal(Sum(u, Parties), Parties * s + 0 * s) /\ s \in Int /\ Sum(u, Parties) \in Int
    BY <2>5, <2>6, SeatsAre, SumCombined, 0 \in Int
  <2>9. Equal(Sum(u, Parties), w * g + 0 * g) /\ g \in Int
    BY <2>1, <2>5, <2>7, SeatsAre, SumCombined, 0 \in Int
  <2>10. Equal(s, 0)
    <3>1. Through(v, z) \in Int /\ Equal(Through(v, z), s) /\ Equal(Through(v, z), 0)
      BY <2>1, ThroughIs DEF t
    <3> QED BY <2>8, <3>1, EqualTurned, EqualThrough, 0 \in Int
  <2> DEFINE h == Sum(u, Parties)
  <2>11. h \in Int /\ Equal(h, Parties * s + 0 * s) /\ Equal(h, w * g + 0 * g)
    BY <2>8, <2>9
  <2> HIDE DEF s, g, h
  <2>12. Parties * s + 0 * s = Parties * s /\ w * g + 0 * g = w * g /\ Parties * 0 = 0
         /\ Parties * s \in Int /\ w * g \in Int
    BY <2>1, <2>8, <2>9, SeatsAre
  <2>13. Equal(Parties * s, Parties * 0)
    BY <2>8, <2>10, SeatsAre, EqualProducts, EqualSelf, 0 \in Int
  <2>14. Equal(h, Parties * s) /\ Equal(h, w * g) /\ Equal(Parties * s, 0)
    BY <2>11, <2>12, <2>13
  <2>15. Equal(h, 0) /\ Equal(w * g, h)
    BY <2>11, <2>12, <2>14, EqualTurned, EqualThrough, 0 \in Int
  <2>16. Equal(w * g, 0)
    BY <2>11, <2>12, <2>15, EqualThrough, 0 \in Int
  <2> QED BY <2>1, <2>9, <2>16, NoZeroDivisors DEF g, f
<1>4. ASSUME Cardinality(Z) >= Parties PROVE FALSE
  <2>1. Equal(c[j], 0)
    <3>1. \A i \in 0 .. Parties - 1 : Equal(c[i], 0)
      BY <1>1, <1>2, <1>3, <1>4, FewZerosAlways DEF FewZeros
    <3> QED BY <3>1, SeatsAre
  <2>2. v[j] \in Int /\ Point[j] \in Int /\ ~ Equal(Point[j], 0)
    BY <1>2, PointsAre
  <2> QED BY <1>2, <2>1, <2>2, ProductNotZero
<1>5. Cardinality(Z) \in Nat
  BY <1>1, FS_CardinalityType
<1> QED BY <1>1, <1>4, <1>5, SeatsAre

----------------------------------------------------------------------------
LEMMA EqualAlike ==
  ASSUME NEW x \in Int, NEW y \in Int, NEW z \in Int, Equal(x, y)
  PROVE  Equal(x, z) <=> Equal(y, z)
BY EqualTurned, EqualThrough

LEMMA PowerNotZero ==
  ASSUME NEW x \in Int, ~ Equal(x, 0)
  PROVE  \A n \in Nat : Power(x, n) \in Int /\ ~ Equal(Power(x, n), 0)
<1> DEFINE S == {n \in Nat : Power(x, n) \in Int /\ ~ Equal(Power(x, n), 0)}
<1>1. 0 \in S
  <2>1. Power(x, 0) = 1 /\ 1 \in Scalar
    BY PowerIs, OrderIs, 0 \in Nat DEF Scalar
  <2> QED BY <2>1, ScalarNotZero
<1>2. ASSUME NEW n \in Nat, n \in S PROVE n + 1 \in S
  <2> DEFINE y == Power(x, n)
  <2>1. y \in Int /\ ~ Equal(y, 0) /\ Power(x, n + 1) = (x * y) % P
    BY <1>2, PowerIs
  <2> HIDE DEF y
  <2>2. x * y \in Int /\ ~ Equal(x * y, 0)
    BY <2>1, ProductNotZero
  <2>3. (x * y) % P \in Int /\ Equal((x * y) % P, x * y)
    BY <2>2, ModEqual
  <2>4. ~ Equal((x * y) % P, 0)
    BY <2>2, <2>3, EqualAlike, 0 \in Int
  <2> QED BY <2>1, <2>3, <2>4
<1> HIDE DEF S
<1>3. \A n \in Nat : n \in S
  BY <1>1, <1>2, Induction
<1> QED BY <1>3 DEF S

(* A claim's lists.                                                        *)
LEMMA ClaimIs ==
  ASSUME NEW claim \in Claims
  PROVE  /\ claim.by \in Committees /\ claim.verifier \in Committees
         /\ IsList(claim.by.weight) /\ IsList(claim.by.sk)
         /\ IsList(claim.verifier.weight) /\ IsList(claim.verifier.sk) /\ IsList(claim.bits)
         /\ claim.start \in Scalar /\ claim.weight \in Scalar
         /\ claim.key \in Scalar /\ claim.over \in Scalar /\ \A i \in Seats : claim.bits[i] \in Scalar
         /\ claim.start \in Int /\ claim.weight \in Int /\ claim.key \in Int /\ claim.over \in Int
         /\ claim.by.weight[Last] = 0 /\ claim.by.sk[Last] = 0
<1>1. /\ claim.by \in Committees /\ claim.verifier \in Committees
      /\ claim.bits \in [Seats -> Scalar]
      /\ claim.start \in Scalar /\ claim.weight \in Scalar
      /\ claim.key \in Scalar /\ claim.over \in Scalar
  BY HintsConstants
<1>2. /\ \A c \in Committees : c.weight \in [Seats -> Scalar] /\ c.sk \in [Seats -> Scalar]
      /\ \A c \in Committees : c.weight[Last] = 0 /\ c.sk[Last] = 0
  BY HintsConstants
<1>3. \A x \in Scalar : x \in Int
  BY ScalarNotZero
<1> QED BY <1>1, <1>2, <1>3 DEF IsList

(* The sum a claim makes from seat to seat.                                *)
Steps(claim) == [j \in Seats |-> Adjusted(claim)[j] * claim.bits[j]]

LEMMA SummedUp ==
  ASSUME NEW claim \in Claims
  PROVE  /\ IsList(Adjusted(claim)) /\ IsList(ParSum(claim)) /\ IsList(Signed(claim))
         /\ \A i \in Seats : Equal(Adjusted(claim)[i], 1 * claim.by.weight[i] + (- claim.weight) * AtLast[i])
         /\ \A i \in Seats : Steps(claim)[i] = Adjusted(claim)[i] * claim.bits[i] /\ Steps(claim)[i] \in Int
         /\ \A i \in Seats : ParSum(claim)[i] = (claim.start + Sum(Steps(claim), i + 1)) % P
         /\ \A i \in Seats : /\ Sum(Steps(claim), i) \in Int /\ Sum(Steps(claim), i + 1) \in Int
                             /\ Sum(Steps(claim), i + 1) = Sum(Steps(claim), i) + Steps(claim)[i]
         /\ Sum(Steps(claim), 0) = 0
<1> DEFINE w == claim.by.weight
           a == Adjusted(claim)
           s == Steps(claim)
<1>1. /\ claim.weight \in Int /\ claim.start \in Int
      /\ \A i \in Seats : w[i] \in Int /\ claim.bits[i] \in Int /\ claim.by.sk[i] \in Int
      /\ w \in [Seats -> Scalar]
  BY ClaimIs, HintsConstants DEF IsList
<1>2. \A i \in Seats : a[i] = IF i = Last THEN (w[Last] - claim.weight) % P ELSE w[i]
  BY <1>1 DEF Adjusted
<1>3. ASSUME NEW i \in Seats PROVE a[i] \in Int /\ Equal(a[i], 1 * w[i] + (- claim.weight) * AtLast[i])
  <2>1. CASE i = Last
    <3>1. w[i] - claim.weight \in Int /\ AtLast[i] = 1
      BY <1>1, <2>1 DEF AtLast
    <3>2. 1 * w[i] + (- claim.weight) * AtLast[i] = w[i] - claim.weight
      BY <1>1, <3>1
    <3> QED BY <1>2, <2>1, <3>1, <3>2, ModEqual
  <2>2. CASE i # Last
    <3>1. AtLast[i] = 0
      BY <2>2 DEF AtLast
    <3>2. 1 * w[i] + (- claim.weight) * AtLast[i] = w[i]
      BY <1>1, <3>1
    <3> QED BY <1>1, <1>2, <2>2, <3>2, EqualSelf
  <2> QED BY <2>1, <2>2
<1> HIDE DEF a, w
<1>4. \A i \in Seats : s[i] = a[i] * claim.bits[i] /\ s[i] \in Int
  BY <1>1, <1>3 DEF Steps, a
<1>5. \A i \in Seats : ParSum(claim)[i] = (claim.start + Sum(s, i + 1)) % P
  BY DEF ParSum, Steps
<1> HIDE DEF s
<1>6. /\ Sum(s, 0) = 0 /\ \A k \in 0 .. Parties : Sum(s, k) \in Int
      /\ \A k \in 0 .. Parties - 1 : Sum(s, k + 1) = Sum(s, k) + s[k]
  BY <1>4, SeatsAre, SumIs
<1>7. \A i \in Seats : Sum(s, i) \in Int /\ Sum(s, i + 1) \in Int /\ Sum(s, i + 1) = Sum(s, i) + s[i]
  BY <1>6, SeatsAre
<1>8. IsList(ParSum(claim))
  <2>1. \A i \in Seats : claim.start + Sum(s, i + 1) \in Int
    BY <1>1, <1>7
  <2> QED BY <1>5, <2>1, ModEqual DEF IsList
<1>9. IsList(Signed(claim))
  BY <1>1 DEF IsList, Signed
<1> QED BY <1>3, <1>4, <1>5, <1>6, <1>7, <1>8, <1>9 DEF IsList, a, s, w

(* Where the sum ends.                                                     *)
LEMMA SumEnds ==
  ASSUME NEW claim \in Claims
  PROVE  Equal(ParSum(claim)[Last], claim.start + WeightOfSeats(claim) - claim.weight * claim.bits[Last])
         /\ WeightOfSeats(claim) \in Scalar /\ WeightOfSeats(claim) \in Int
<1> DEFINE s == Steps(claim)
           t == [i \in Seats |-> claim.by.weight[i] * claim.bits[i]]
           w == WeightOfSeats(claim)
           b == claim.bits[Last]
           p == ParSum(claim)[Last]
<1>1. /\ \A i \in Seats : claim.by.weight[i] \in Int /\ claim.bits[i] \in Int
      /\ claim.start \in Int /\ claim.weight \in Int /\ claim.by.weight[Last] = 0
  BY ClaimIs DEF IsList
<1>2. /\ \A i \in Seats : s[i] = Adjusted(claim)[i] * claim.bits[i] /\ s[i] \in Int
      /\ \A i \in Seats : Adjusted(claim)[i] \in Int
      /\ p = (claim.start + Sum(s, Parties)) % P
      /\ Sum(s, Parties) = Sum(s, Last) + s[Last] /\ Sum(s, Last) \in Int
  BY SummedUp, SeatsAre DEF IsList
<1>3. \A i \in Seats : t[i] = claim.by.weight[i] * claim.bits[i] /\ t[i] \in Int
  BY <1>1
<1>4. w = Sum(t, Last) % P
  BY DEF WeightOfSeats
<1> HIDE DEF s, t, w, p
<1>5. ASSUME NEW i \in 0 .. Last - 1 PROVE Equal(s[i], 1 * t[i] + 0 * t[i])
  <2>1. i \in Seats /\ i # Last
    BY SeatsAre
  <2>2. Adjusted(claim)[i] = claim.by.weight[i]
    BY <2>1, HintsConstants, ClaimIs DEF Adjusted
  <2>3. s[i] = 1 * t[i] + 0 * t[i]
    BY <1>2, <1>3, <2>1, <2>2
  <2> QED BY <1>2, <2>1, <2>3, EqualSelf
<1>6. Sum(t, Last) \in Int /\ Equal(Sum(s, Last), 1 * Sum(t, Last) + 0 * Sum(t, Last))
  <2>1. \A i \in 0 .. Last - 1 : s[i] \in Int /\ t[i] \in Int
    BY <1>2, <1>3, SeatsAre
  <2> QED BY <1>5, <2>1, SeatsAre, SumCombined, 0 \in Int, 1 \in Int
<1> DEFINE x == Sum(s, Last)
           y == Sum(t, Last)
           a == Adjusted(claim)[Last]
           m == claim.weight
<1>7. Equal(x, y) /\ x \in Int /\ y \in Int
  <2>1. 1 * y + 0 * y = y
    BY <1>6
  <2> QED BY <1>2, <1>6, <2>1
<1>8. w \in Scalar /\ w \in Int /\ Equal(w, y)
  BY <1>4, <1>6, ModEqual
<1>9. a \in Int /\ Equal(a, - m) /\ m \in Int /\ b \in Int
  <2>1. Equal(a, 1 * 0 + (- m) * 1)
    BY <1>1, SummedUp, SeatsAre DEF AtLast
  <2>2. 1 * 0 + (- m) * 1 = - m
    BY <1>1
  <2> QED BY <1>1, <1>2, <2>1, <2>2, SeatsAre
<1> DEFINE z == claim.start + (x + a * b)
           n == claim.start
<1>10. p = z % P /\ z \in Int /\ n \in Int
  BY <1>1, <1>2, <1>7, <1>9, SeatsAre
<1> HIDE DEF x, y, a, m, b, n
<1>11. Equal(x, w)
  BY <1>7, <1>8, EqualTurned, EqualThrough
<1>12. PICK i \in Int : x = w + i * P
  BY <1>7, <1>8, <1>11, EqualHas
<1>13. PICK j \in Int : a = - m + j * P
  BY <1>9, EqualHas, - m \in Int
<1>14. p \in Int /\ Equal(p, z)
  BY <1>10, ModEqual
<1> DEFINE e == n + w - m * b
<1>15. e \in Int /\ z - e = (i + j * b) * P /\ i + j * b \in Int
  <2>1. z = n + (x + a * b)
    BY DEF z, n
  <2>2. a * b = - (m * b) + (j * b) * P
    BY <1>9, <1>13, OrderIs
  <2>3. (i + j * b) * P = i * P + (j * b) * P
    BY <1>9, OrderIs
  <2>4. i * P \in Int /\ (j * b) * P \in Int /\ m * b \in Int /\ i + j * b \in Int
    BY <1>9, OrderIs
  <2> HIDE DEF z
  <2> QED BY <1>8, <1>10, <1>12, <2>1, <2>2, <2>3, <2>4
<1>16. Equal(z, e)
  BY <1>10, <1>15, EqualBy
<1>17. Equal(p, e)
  BY <1>10, <1>14, <1>15, <1>16, EqualThrough
<1> QED BY <1>8, <1>17 DEF p, e, n, w, m, b

(* What a claim leaves at the seats.                                       *)
LEMMA RemainsAre ==
  ASSUME NEW claim \in Claims
  PROVE  /\ \A n \in 1 .. 4 : IsList(Remains(claim)[n])
         /\ \A i \in Seats : Remains(claim)[1][i] =
              ParSum(claim)[i] - ParSum(claim)[(i + Last) % Parties] - Steps(claim)[i]
         /\ \A i \in Seats : Remains(claim)[2][i] = claim.bits[i] * claim.bits[i] - claim.bits[i]
         /\ \A i \in Seats : Remains(claim)[3][i] = IF i = Last THEN ParSum(claim)[i] ELSE 0
         /\ \A i \in Seats : Remains(claim)[4][i] = IF i = Last THEN claim.bits[i] - 1 ELSE 0
<1>1. \A i \in Seats : Remains(claim)[1][i] =
        ParSum(claim)[i] - ParSum(claim)[(i + Last) % Parties] - Adjusted(claim)[i] * claim.bits[i]
  BY DEF Remains
<1>2. /\ \A i \in Seats : Remains(claim)[2][i] = claim.bits[i] * claim.bits[i] - claim.bits[i]
      /\ \A i \in Seats : Remains(claim)[3][i] = IF i = Last THEN ParSum(claim)[i] ELSE 0
      /\ \A i \in Seats : Remains(claim)[4][i] = IF i = Last THEN claim.bits[i] - 1 ELSE 0
  BY DEF Remains
<1>3. \A i \in Seats : Remains(claim)[1][i] =
        ParSum(claim)[i] - ParSum(claim)[(i + Last) % Parties] - Steps(claim)[i]
  BY <1>1, SummedUp
<1>4. /\ \A i \in Seats : claim.bits[i] \in Int /\ ParSum(claim)[i] \in Int /\ Steps(claim)[i] \in Int
  BY ClaimIs, SummedUp DEF IsList
<1>5. \A i \in Seats : (i + Last) % Parties \in Seats
  BY SeatsAre
<1>6. /\ IsList(Remains(claim)[1]) /\ IsList(Remains(claim)[2])
      /\ IsList(Remains(claim)[3]) /\ IsList(Remains(claim)[4])
  BY <1>2, <1>3, <1>4, <1>5 DEF IsList
<1> QED BY <1>2, <1>3, <1>6

(* From seat to seat nothing is left but at the first, where the sum has   *)
(* to start where it ends.                                                 *)
LEMMA SumsAccumulate ==
  ASSUME NEW claim \in Claims
  PROVE  /\ \A i \in Seats \ {0} : Equal(Remains(claim)[1][i], 0)
         /\ Equal(Remains(claim)[1][0], claim.start - ParSum(claim)[Last])
<1> DEFINE p == ParSum(claim)
           s == Steps(claim)
           n == claim.start
           q == Remains(claim)[1]
<1>1. /\ n \in Int /\ Sum(s, 0) = 0
      /\ \A i \in Seats : p[i] \in Int /\ s[i] \in Int
      /\ \A i \in Seats : p[i] = (n + Sum(s, i + 1)) % P
      /\ \A i \in Seats : /\ Sum(s, i) \in Int /\ Sum(s, i + 1) \in Int
                          /\ Sum(s, i + 1) = Sum(s, i) + s[i]
      /\ \A i \in Seats : q[i] = p[i] - p[(i + Last) % Parties] - s[i]
  BY ClaimIs, SummedUp, RemainsAre DEF IsList
<1> HIDE DEF p, s, n, q
<1>2. \A i \in Seats : Equal(p[i], n + Sum(s, i + 1))
  <2>1. \A i \in Seats : n + Sum(s, i + 1) \in Int
    BY <1>1
  <2> QED BY <1>1, <2>1, ModEqual
<1>3. ASSUME NEW i \in Seats \ {0} PROVE Equal(q[i], 0)
  <2> DEFINE j == i - 1
             S == Sum(s, i)
  <2>1. j \in Seats /\ j + 1 = i /\ (i + Last) % Parties = j
    <3>1. i \in Nat /\ i > 0 /\ i <= Last
      BY SeatsAre
    <3>2. i + Last = Parties + j /\ j \in 0 .. Parties - 1
      BY <3>1, SeatsAre
    <3>3. (Parties + j) % Parties = j
      BY <3>2, SeatsAre
    <3> QED BY <3>1, <3>2, <3>3, SeatsAre
  <2>2. q[i] = p[i] - p[j] - s[i]
    BY <1>1, <2>1
  <2>3. Equal(p[i], n + (S + s[i])) /\ Equal(p[j], n + S)
    BY <1>1, <1>2, <2>1
  <2>4. S \in Int /\ p[i] \in Int /\ p[j] \in Int /\ s[i] \in Int
    BY <1>1, <2>1
  <2> HIDE DEF j, S
  <2> DEFINE a == p[i]
             b == p[j]
             c == s[i]
  <2>5. a \in Int /\ b \in Int /\ c \in Int /\ q[i] = a - b - c
        /\ Equal(a, n + (S + c)) /\ Equal(b, n + S) /\ n + (S + c) \in Int /\ n + S \in Int
    BY <1>1, <2>2, <2>3, <2>4
  <2> HIDE DEF a, b, c
  <2>6. Equal(a - b, (n + (S + c)) - (n + S))
    BY <2>5, EqualSums
  <2>7. (n + (S + c)) - (n + S) = c /\ a - b \in Int
    BY <1>1, <2>4, <2>5
  <2> QED BY <2>5, <2>6, <2>7, EqualZero
<1>4. Equal(q[0], n - p[Last])
  <2> DEFINE a == p[0]
             b == p[Last]
             c == s[0]
  <2>1. (0 + Last) % Parties = Last
    BY SeatsAre
  <2>2. Sum(s, 0 + 1) = 0 + c /\ q[0] = a - b - c /\ a \in Int /\ b \in Int /\ c \in Int
    BY <1>1, <2>1, SeatsAre
  <2>3. Equal(a, n + (0 + c))
    BY <1>2, <2>2, SeatsAre
  <2> HIDE DEF a, b, c
  <2>4. n + (0 + c) \in Int /\ b + c \in Int /\ (n + (0 + c)) - (b + c) = n - b /\ a - (b + c) = q[0]
    BY <1>1, <2>2
  <2>5. Equal(a - (b + c), (n + (0 + c)) - (b + c))
    BY <2>2, <2>3, <2>4, EqualSums, EqualSelf
  <2> QED BY <2>4, <2>5 DEF b
<1> QED BY <1>3, <1>4 DEF p, q, n

(* A claim is counted when it leaves nothing.                              *)
LEMMA NothingRemains ==
  ASSUME NEW claim \in Claims, IsCounted(claim)
  PROVE  \A n \in 1 .. 4 : \A i \in Seats : Equal(Remains(claim)[n][i], 0)
<1>1. /\ \A i \in Seats : claim.bits[i] \in {0, 1}
      /\ claim.bits[Last] = 1 /\ claim.start = 0 /\ claim.weight = WeightOfSeats(claim)
  BY DEF IsCounted
<1>2. Equal(0, 0)
  BY EqualSelf, 0 \in Int
<1>3. Equal(ParSum(claim)[Last], 0) /\ ParSum(claim)[Last] \in Int
  <2>1. WeightOfSeats(claim) \in Int /\ ParSum(claim)[Last] \in Int
    BY SumEnds, SummedUp, SeatsAre DEF IsList
  <2>2. claim.start + WeightOfSeats(claim) - claim.weight * claim.bits[Last] = 0
    BY <1>1, <2>1
  <2> QED BY <2>1, <2>2, SumEnds
<1>4. \A i \in Seats : Equal(Remains(claim)[1][i], 0)
  <2>1. Equal(claim.start - ParSum(claim)[Last], 0)
    <3>1. Equal(0 - ParSum(claim)[Last], 0 - 0)
      BY <1>2, <1>3, EqualSums, 0 \in Int
    <3> QED BY <1>1, <3>1, 0 - 0 = 0
  <2>2. Remains(claim)[1][0] \in Int /\ claim.start - ParSum(claim)[Last] \in Int
    <3>1. 1 \in 1 .. 4 /\ 0 \in Seats
      BY SeatsAre
    <3>2. IsList(Remains(claim)[1])
      BY <3>1, RemainsAre
    <3>3. Remains(claim)[1][0] \in Int
      BY <3>1, <3>2 DEF IsList
    <3> QED BY <1>1, <1>3, <3>3
  <2>3. Equal(Remains(claim)[1][0], 0)
    BY <2>1, <2>2, SumsAccumulate, EqualThrough, 0 \in Int
  <2> QED BY <2>3, SumsAccumulate
<1>5. \A i \in Seats : Equal(Remains(claim)[2][i], 0)
  <2>1. \A i \in Seats : Remains(claim)[2][i] = 0
    BY <1>1, RemainsAre
  <2> QED BY <1>2, <2>1
<1>6. \A i \in Seats : Equal(Remains(claim)[3][i], 0)
  BY <1>2, <1>3, RemainsAre
<1>7. \A i \in Seats : Equal(Remains(claim)[4][i], 0)
  <2>1. \A i \in Seats : Remains(claim)[4][i] = 0
    BY <1>1, RemainsAre
  <2> QED BY <1>2, <2>1
<1> QED BY <1>4, <1>5, <1>6, <1>7

(* And only then.                                                          *)
LEMMA SomethingRemains ==
  ASSUME NEW claim \in Claims, ~ IsCounted(claim)
  PROVE  \E n \in 1 .. 4 : \E i \in Seats : ~ Equal(Remains(claim)[n][i], 0)
<1> SUFFICES ASSUME \A n \in 1 .. 4 : \A i \in Seats : Equal(Remains(claim)[n][i], 0)
             PROVE  FALSE
  OBVIOUS
<1>1. ASSUME NEW i \in Seats PROVE claim.bits[i] \in {0, 1}
  <2> DEFINE b == claim.bits[i]
  <2>1. b \in Scalar /\ b \in Int /\ Equal(b * b - b, 0)
    BY ClaimIs, RemainsAre, ScalarNotZero
  <2> HIDE DEF b
  <2>2. b * b - b = b * (b - 1) /\ b - 1 \in Int
    BY <2>1
  <2>3. Equal(b, 0) \/ Equal(b - 1, 0)
    BY <2>1, <2>2, NoZeroDivisors
  <2>4. b = 0 \/ b = 1
    BY <2>1, <2>3, ScalarNotZero, ScalarsDiffer
  <2> QED BY <2>4 DEF b
<1>2. claim.bits[Last] = 1
  <2>1. Equal(claim.bits[Last] - 1, 0) /\ claim.bits[Last] \in Scalar
    BY RemainsAre, SeatsAre, ClaimIs
  <2> QED BY <2>1, ScalarNotZero, ScalarsDiffer
<1> DEFINE p == ParSum(claim)[Last]
           n == claim.start
           m == claim.weight
           w == WeightOfSeats(claim)
<1>3. Equal(p, 0) /\ p \in Int
  BY RemainsAre, SummedUp, SeatsAre DEF IsList
<1>4. n \in Scalar /\ n \in Int /\ m \in Scalar /\ m \in Int /\ w \in Scalar /\ w \in Int
  BY ClaimIs, SumEnds
<1>5. Equal(n - p, 0)
  <2>1. Remains(claim)[1][0] \in Int /\ Equal(Remains(claim)[1][0], 0)
        /\ Equal(Remains(claim)[1][0], n - p) /\ n - p \in Int
    BY <1>3, <1>4, RemainsAre, SumsAccumulate, SeatsAre DEF IsList
  <2> QED BY <2>1, EqualTurned, EqualThrough, 0 \in Int
<1>6. Equal(p, n + w - m)
  <2>1. m * claim.bits[Last] = m
    BY <1>2, <1>4
  <2> QED BY <2>1, SumEnds
<1> HIDE DEF p, n, m, w
<1>7. n = 0
  <2>1. Equal((n - p) + p, 0 + 0) /\ (n - p) + p = n /\ n - p \in Int
    <3>1. n - p \in Int /\ (n - p) + p = n
      BY <1>3, <1>4
    <3> QED BY <1>3, <1>5, <3>1, EqualSums, 0 \in Int
  <2> QED BY <1>4, <2>1, ScalarNotZero, 0 + 0 = 0
<1>8. m = w
  <2>1. n + w - m = w - m /\ w - m \in Int
    BY <1>4, <1>7
  <2>2. Equal(w - m, 0)
    BY <1>3, <1>6, <2>1, EqualTurned, EqualThrough, 0 \in Int
  <2> QED BY <1>4, <2>2, ScalarsDiffer
<1> QED BY <1>1, <1>2, <1>7, <1>8 DEF IsCounted, n, m, w

----------------------------------------------------------------------------
(* What is opened of a claim.                                              *)
LEMMA OpenedIs ==
  ASSUME NEW claim \in Claims, NEW x \in Elsewhere
  PROVE  LET o == Opened(claim, x)
             l == Lagrange[Last][x]
             v == Vanishing(x)
             left(n) == Through(Remains(claim)[n], x)
         IN  /\ \A k \in 1 .. 7 : o[k] \in Int
             /\ \A n \in 1 .. 4 : left(n) \in Int
             /\ o[1] = Through(ParSum(claim), x) /\ o[2] = Through(Adjusted(claim), x)
             /\ o[3] = Through(claim.bits, x)
             /\ Through(ParSum(claim), Over(x, Omega)) \in Int
             /\ Equal(o[4] * v, (o[1] - Through(ParSum(claim), Over(x, Omega)) - o[2] * o[3]) - left(1))
             /\ Equal(o[5] * v, l * o[1] - left(3))
             /\ Equal(o[6] * v, (o[3] * o[3] - o[3]) - left(2))
             /\ Equal(o[7] * v, l * (o[3] - 1) - left(4))
<1> DEFINE o == Opened(claim, x)
           l == Lagrange[Last][x]
           v == Vanishing(x)
           p == Through(ParSum(claim), x)
           w == Through(Adjusted(claim), x)
           b == Through(claim.bits, x)
           a == Through(ParSum(claim), Over(x, Omega))
           rem(n) == Remains(claim)[n]
<1>1. /\ IsList(ParSum(claim)) /\ IsList(Adjusted(claim)) /\ IsList(claim.bits)
      /\ \A n \in 1 .. 4 : IsList(Remains(claim)[n])
  BY SummedUp, ClaimIs, RemainsAre
<1>2. Over(x, Omega) \in Elsewhere
  BY BeforeIs
<1>3. p \in Int /\ w \in Int /\ b \in Int /\ a \in Int /\ l \in Int
  BY <1>1, <1>2, ThroughIs, LagrangeIs, SeatsAre
<1>4. /\ o[1] = p /\ o[2] = w /\ o[3] = b
      /\ o[4] = Quotient(p - a - w * b, rem(1), x) /\ o[5] = Quotient(l * p, rem(3), x)
      /\ o[6] = Quotient(b * b - b, rem(2), x) /\ o[7] = Quotient(l * (b - 1), rem(4), x)
  BY DEF Opened
<1>5. \A n \in 1 .. 4 : Through(rem(n), x) \in Int
  BY <1>1, ThroughIs
<1> HIDE DEF o, p, w, b, a, l, v
<1>6. p - a - w * b \in Int /\ l * p \in Int /\ b * b - b \in Int /\ l * (b - 1) \in Int
  BY <1>3
<1>7. IsList(rem(1)) /\ IsList(rem(2)) /\ IsList(rem(3)) /\ IsList(rem(4))
  BY <1>1
<1> HIDE DEF rem
<1>8. o[4] \in Int /\ Equal(o[4] * v, (p - a - w * b) - Through(rem(1), x))
  BY <1>4, <1>6, <1>7, QuotientIs DEF v
<1>9. o[5] \in Int /\ Equal(o[5] * v, l * p - Through(rem(3), x))
  BY <1>4, <1>6, <1>7, QuotientIs DEF v
<1>10. o[6] \in Int /\ Equal(o[6] * v, (b * b - b) - Through(rem(2), x))
  BY <1>4, <1>6, <1>7, QuotientIs DEF v
<1>11. o[7] \in Int /\ Equal(o[7] * v, l * (b - 1) - Through(rem(4), x))
  BY <1>4, <1>6, <1>7, QuotientIs DEF v
<1>12. \A k \in 1 .. 7 : o[k] \in Int
  <2>1. \A k \in 1 .. 7 : k = 1 \/ k = 2 \/ k = 3 \/ k = 4 \/ k = 5 \/ k = 6 \/ k = 7
    OBVIOUS
  <2> QED BY <1>3, <1>4, <1>8, <1>9, <1>10, <1>11, <2>1
<1> QED BY <1>3, <1>4, <1>5, <1>8, <1>9, <1>10, <1>11, <1>12 DEF o, p, w, b, a, l, v, rem

(* The list of what is adjusted, between the committees' weights.          *)
LEMMA AdjustedAtTau ==
  ASSUME NEW claim \in Claims
  PROVE  LET t == Through(claim.by.weight, Tau)
             l == Lagrange[Last][Tau]
             a == Through(Adjusted(claim), Tau)
         IN  /\ t \in Int /\ l \in Int /\ a \in Int /\ Through(claim.verifier.weight, Tau) \in Int
             /\ Equal(a, t - l * claim.weight)
<1> DEFINE t == Through(claim.by.weight, Tau)
           l == Lagrange[Last][Tau]
           a == Through(Adjusted(claim), Tau)
           u == Through(AtLast, Tau)
           m == claim.weight
<1>1. /\ IsList(claim.by.weight) /\ IsList(claim.verifier.weight) /\ IsList(Adjusted(claim))
      /\ IsList(AtLast) /\ m \in Int /\ - m \in Int /\ Tau \in Elsewhere /\ Last \in Seats
  BY ClaimIs, SummedUp, ThroughAtLast, TauIs, SeatsAre
<1>2. t \in Int /\ a \in Int /\ u \in Int /\ Through(claim.verifier.weight, Tau) \in Int /\ l \in Int
  BY <1>1, ThroughIs, LagrangeIs
<1>3. Equal(a, 1 * t + (- m) * u)
  BY <1>1, SummedUp, ThroughCombined, 1 \in Int
<1>4. Equal(u, l)
  BY <1>1, ThroughAtLast
<1> HIDE DEF t, l, a, u, m
<1>5. PICK i \in Int : u = l + i * P
  BY <1>2, <1>4, EqualHas
<1>6. PICK j \in Int : a = (1 * t + (- m) * u) + j * P
  <2>1. 1 * t + (- m) * u \in Int
    BY <1>1, <1>2
  <2> QED BY <1>2, <1>3, <2>1, EqualHas
<1>7. t - l * m \in Int /\ j - m * i \in Int /\ a - (t - l * m) = (j - m * i) * P
  BY <1>1, <1>2, <1>5, <1>6, OrderIs
<1>8. Equal(a, t - l * m)
  BY <1>2, <1>7, EqualBy
<1> QED BY <1>1, <1>2, <1>8 DEF t, l, a, m

(* The parts of a signature.                                               *)
PartNames ==
  {"agg_pk", "agg_weight", "agg_sig", "b_of_tau_com", "qx_of_tau_com", "qx_of_tau_mul_tau_com",
   "qz_of_tau_com", "parsum_of_tau_com", "q1_of_tau_com", "q3_of_tau_com", "q2_of_tau_com",
   "q4_of_tau_com", "opening_proof_r", "opening_proof_r_div_omega", "parsum_of_r",
   "parsum_of_r_div_omega", "w_of_r", "b_of_r", "q1_of_r", "q3_of_r", "q2_of_r", "q4_of_r"}

LEMMA PartsAre == Parts = PartNames
BY DEF Parts, PartNames, HintsSignature

(* The seven differences that are opened, and their sum.                   *)
Differences(claim, r) ==
  [k \in 0 .. 6 |-> (Opened(claim, Tau)[k + 1] - Opened(claim, r)[k + 1]) * Power(r, k)]

(* What a signer makes of a claim, part by part.                           *)
LEMMA MadeIs ==
  ASSUME NEW claim \in Claims, NEW r \in Challenges
  PROVE  LET made == HintsSignature(claim, r)
             t == Opened(claim, Tau)
             o == Opened(claim, r)
             a == Through(ParSum(claim), Over(r, Omega))
         IN  /\ made.agg_pk = G0 * claim.key /\ made.agg_weight = claim.weight
             /\ made.agg_sig = claim.key * claim.over
             /\ made.b_of_tau_com = G0 * t[3] /\ made.parsum_of_tau_com = G0 * t[1]
             /\ made.q1_of_tau_com = G0 * t[4] /\ made.q3_of_tau_com = G0 * t[5]
             /\ made.q2_of_tau_com = G0 * t[6] /\ made.q4_of_tau_com = G0 * t[7]
             /\ made.parsum_of_r = o[1] /\ made.w_of_r = o[2] /\ made.b_of_r = o[3]
             /\ made.q1_of_r = o[4] /\ made.q3_of_r = o[5] /\ made.q2_of_r = o[6] /\ made.q4_of_r = o[7]
             /\ made.parsum_of_r_div_omega = a
             /\ made.qx_of_tau_mul_tau_com = made.qx_of_tau_com * Tau
             /\ made.qx_of_tau_com =
                  G0 * Over(Through(Signed(claim), Tau) - Through(Signed(claim), 0), Tau)
             /\ made.qz_of_tau_com =
                  G0 * Quotient(Through(claim.bits, Tau) * Through(claim.by.sk, Tau), Signed(claim), Tau)
             /\ made.opening_proof_r = G0 * Over(Sum(Differences(claim, r), 7), Tau - r)
             /\ made.opening_proof_r_div_omega = G0 * Over(t[1] - a, Tau - Over(r, Omega))
BY DEF HintsSignature, Differences

(* And what its quotients are quotients of.                                *)
LEMMA QuotientsMade ==
  ASSUME NEW claim \in Claims, NEW r \in Challenges
  PROVE  LET made == HintsSignature(claim, r)
             t == Opened(claim, Tau)
             b == Through(claim.bits, Tau)
             k == Through(claim.by.sk, Tau)
             s == Through(Signed(claim), Tau)
             a == Through(ParSum(claim), Over(r, Omega))
         IN  /\ b \in Int /\ k \in Int /\ s \in Int /\ KeyOfSeats(claim) \in Int
             /\ KeyOfSeats(claim) \in Scalar /\ a \in Int
             /\ \A j \in 1 .. 7 : t[j] \in Int /\ Opened(claim, r)[j] \in Int
             /\ Sum(Differences(claim, r), 7) \in Int
             /\ made.qx_of_tau_com \in Int /\ made.qz_of_tau_com \in Int
             /\ made.opening_proof_r \in Int /\ made.opening_proof_r_div_omega \in Int
             /\ Equal(made.qx_of_tau_com * Tau, G0 * (s - KeyOfSeats(claim)))
             /\ Equal(made.qz_of_tau_com * Vanishing(Tau), G0 * (b * k - s))
             /\ Equal(made.opening_proof_r * (Tau - r), G0 * Sum(Differences(claim, r), 7))
             /\ Equal(made.opening_proof_r_div_omega * (Tau - Over(r, Omega)), G0 * (t[1] - a))
<1> DEFINE made == HintsSignature(claim, r)
           t == Opened(claim, Tau)
           o == Opened(claim, r)
           b == Through(claim.bits, Tau)
           k == Through(claim.by.sk, Tau)
           s == Through(Signed(claim), Tau)
           z == Through(Signed(claim), 0)
           a == Through(ParSum(claim), Over(r, Omega))
           d == Sum(Differences(claim, r), 7)
<1>1. /\ r \in Elsewhere /\ r \in Int /\ Tau - r \in Int /\ ~ Equal(Tau - r, 0)
      /\ Tau - Over(r, Omega) \in Int /\ ~ Equal(Tau - Over(r, Omega), 0)
      /\ Tau \in Elsewhere /\ Tau \in Int /\ ~ Equal(Tau, 0) /\ G0 \in Int
  BY ChallengeIs, TauIs, GeneratorsAre
<1>2. IsList(claim.bits) /\ IsList(claim.by.sk) /\ IsList(Signed(claim))
  BY ClaimIs, SummedUp
<1>3. b \in Int /\ k \in Int /\ s \in Int
  BY <1>1, <1>2, ThroughIs
<1>4. z \in Int /\ KeyOfSeats(claim) \in Scalar /\ KeyOfSeats(claim) \in Int /\ Equal(z, KeyOfSeats(claim))
  BY <1>2, ThroughZero, ScalarNotZero DEF KeyOfSeats
<1>5. a \in Int /\ \A j \in 1 .. 7 : t[j] \in Int /\ o[j] \in Int
  BY <1>1, OpenedIs
<1>6. d \in Int
  <2>1. \A j \in 0 .. 6 : j \in Nat /\ j + 1 \in 1 .. 7
    OBVIOUS
  <2>2. \A j \in Nat : Power(r, j) \in Int
    BY <1>1, PowerIs, ScalarNotZero
  <2>3. \A j \in 0 .. 6 : t[j + 1] \in Int /\ o[j + 1] \in Int /\ Power(r, j) \in Int
    BY <1>5, <2>1, <2>2
  <2>4. \A j \in 0 .. 6 : Differences(claim, r)[j] = (t[j + 1] - o[j + 1]) * Power(r, j)
    BY DEF Differences
  <2> HIDE DEF t, o
  <2>5. \A j \in 0 .. 6 : Differences(claim, r)[j] \in Int
    BY <2>3, <2>4
  <2> QED BY <2>5, SumIs, 7 \in Nat, 7 - 1 = 6, 7 \in 0 .. 7
<1> DEFINE qx == Over(s - z, Tau)
           qz == Quotient(b * k, Signed(claim), Tau)
           op == Over(d, Tau - r)
           ob == Over(t[1] - a, Tau - Over(r, Omega))
<1>7. /\ made.qx_of_tau_com = G0 * qx /\ made.qz_of_tau_com = G0 * qz
      /\ made.opening_proof_r = G0 * op /\ made.opening_proof_r_div_omega = G0 * ob
  BY MadeIs
<1>8. t[1] \in Int
  BY <1>5
<1> HIDE DEF made, b, k, s, z, a, d, t
<1>9. s - z \in Int /\ b * k \in Int /\ t[1] - a \in Int
  BY <1>3, <1>4, <1>5, <1>8
<1>10. qx \in Int /\ Equal(qx * Tau, s - z)
  BY <1>1, <1>9, OverIs
<1>11. op \in Int /\ Equal(op * (Tau - r), d)
  BY <1>1, <1>6, OverIs
<1>12. ob \in Int /\ Equal(ob * (Tau - Over(r, Omega)), t[1] - a)
  BY <1>1, <1>9, OverIs
<1>13. qz \in Int /\ Equal(qz * Vanishing(Tau), b * k - s)
  BY <1>1, <1>2, <1>9, QuotientIs DEF s
<1> HIDE DEF qx, qz, op, ob
<1>14. ASSUME NEW x \in Int, NEW y \in Int, NEW c \in Int, Equal(x * y, c)
       PROVE  Equal((G0 * x) * y, G0 * c)
  <2>1. x * y \in Int /\ (G0 * x) * y = G0 * (x * y)
    BY <1>1
  <2> QED BY <1>1, <1>14, <2>1, EqualProducts, EqualSelf
<1>15. Equal(qx * Tau, s - KeyOfSeats(claim))
  <2>1. s - KeyOfSeats(claim) \in Int /\ qx * Tau \in Int
    BY <1>1, <1>3, <1>4, <1>10
  <2>2. Equal(s, s)
    BY <1>3, EqualSelf
  <2>3. Equal(s - z, s - KeyOfSeats(claim))
    BY <1>3, <1>4, <2>2, EqualSums
  <2> QED BY <1>9, <1>10, <2>1, <2>3, EqualThrough
<1>16. Equal((G0 * qx) * Tau, G0 * (s - KeyOfSeats(claim)))
  <2>1. s - KeyOfSeats(claim) \in Int
    BY <1>3, <1>4
  <2> QED BY <1>1, <1>10, <1>14, <1>15, <2>1
<1>17. Equal((G0 * qz) * Vanishing(Tau), G0 * (b * k - s))
  <2>1. b * k - s \in Int /\ Vanishing(Tau) \in Int
    BY <1>1, <1>3, VanishingIs
  <2> QED BY <1>13, <1>14, <2>1
<1>18. Equal((G0 * op) * (Tau - r), G0 * d)
  BY <1>1, <1>6, <1>11, <1>14
<1>19. Equal((G0 * ob) * (Tau - Over(r, Omega)), G0 * (t[1] - a))
  BY <1>1, <1>9, <1>12, <1>14
<1>20. G0 * qx \in Int /\ G0 * qz \in Int /\ G0 * op \in Int /\ G0 * ob \in Int
  BY <1>1, <1>10, <1>11, <1>12, <1>13
<1> QED BY <1>3, <1>4, <1>5, <1>6, <1>7, <1>16, <1>17, <1>18, <1>19, <1>20
        DEF made, b, k, s, a, d, t, o

(* What the code is given: what was made, but for the part that is altered.*)
Added(altered, part) == IF part = altered THEN 1 ELSE 0
Given(claim, altered, r) ==
  [part \in Parts |-> (HintsSignature(claim, r)[part] + Added(altered, part)) % P]

LEMMA MadeIsInt ==
  ASSUME NEW claim \in Claims, NEW r \in Challenges
  PROVE  \A part \in Parts : HintsSignature(claim, r)[part] \in Int
<1> DEFINE made == HintsSignature(claim, r)
<1>1. claim.key \in Int /\ claim.over \in Int /\ claim.weight \in Int /\ G0 \in Int /\ Tau \in Int
  BY ClaimIs, GeneratorsAre, TauIs
<1>2. /\ \A j \in 1 .. 7 : Opened(claim, Tau)[j] \in Int /\ Opened(claim, r)[j] \in Int
      /\ Through(ParSum(claim), Over(r, Omega)) \in Int
      /\ made.qx_of_tau_com \in Int /\ made.qz_of_tau_com \in Int
      /\ made.opening_proof_r \in Int /\ made.opening_proof_r_div_omega \in Int
  BY QuotientsMade
<1>3. \A j \in 1 .. 7 : G0 * Opened(claim, Tau)[j] \in Int
  BY <1>1, <1>2
<1>4. made.agg_pk \in Int /\ made.agg_weight \in Int /\ made.agg_sig \in Int /\ made.qx_of_tau_mul_tau_com \in Int
  BY <1>1, <1>2, MadeIs
<1>5. /\ made.b_of_tau_com \in Int /\ made.parsum_of_tau_com \in Int /\ made.q1_of_tau_com \in Int
      /\ made.q3_of_tau_com \in Int /\ made.q2_of_tau_com \in Int /\ made.q4_of_tau_com \in Int
  BY <1>3, MadeIs
<1>6. /\ made.parsum_of_r \in Int /\ made.parsum_of_r_div_omega \in Int /\ made.w_of_r \in Int
      /\ made.b_of_r \in Int /\ made.q1_of_r \in Int /\ made.q3_of_r \in Int
      /\ made.q2_of_r \in Int /\ made.q4_of_r \in Int
  BY <1>2, MadeIs
<1> HIDE DEF made
<1>7. \A part \in PartNames : made[part] \in Int
  BY <1>2, <1>4, <1>5, <1>6 DEF PartNames
<1> QED BY <1>7, PartsAre DEF made

LEMMA GivenIs ==
  ASSUME NEW claim \in Claims, NEW r \in Challenges, NEW altered, NEW part \in Parts
  PROVE  /\ Given(claim, altered, r)[part] \in Int /\ Added(altered, part) \in Int
         /\ HintsSignature(claim, r)[part] \in Int
         /\ Equal(Given(claim, altered, r)[part], HintsSignature(claim, r)[part] + Added(altered, part))
<1>1. HintsSignature(claim, r)[part] \in Int /\ Added(altered, part) \in Int
  BY MadeIsInt DEF Added
<1>2. HintsSignature(claim, r)[part] + Added(altered, part) \in Int
  BY <1>1
<1>3. Given(claim, altered, r)[part] = (HintsSignature(claim, r)[part] + Added(altered, part)) % P
  BY DEF Given
<1> QED BY <1>1, <1>2, <1>3, ModEqual

----------------------------------------------------------------------------
LEMMA KeyIs ==
  ASSUME NEW c \in Committees
  PROVE  LET vk == HintsVk(c)
         IN  /\ vk.g0 = G0 /\ vk.h0 = H0 /\ vk.h1 = H0 * Tau
             /\ vk.ln_minus_1_of_tau_com = G0 * Lagrange[Last][Tau]
             /\ vk.w_of_tau_com = G0 * Through(c.weight, Tau)
             /\ vk.sk_of_tau_com = H0 * Through(c.sk, Tau)
             /\ vk.z_of_tau_com = H0 * Vanishing(Tau)
BY DEF HintsVk

(* A factor that is not zero decides nothing.                              *)
LEMMA FactorIsNothing ==
  ASSUME NEW x \in Int, NEW f \in Int, NEW y \in Int, ~ Equal(f, 0), Equal(x, f * y)
  PROVE  Equal(x, 0) <=> Equal(y, 0)
<1>1. f * y \in Int
  OBVIOUS
<1>2. Equal(x, 0) <=> Equal(f * y, 0)
  BY <1>1, EqualAlike, 0 \in Int
<1>3. ASSUME Equal(y, 0) PROVE Equal(f * y, 0)
  <2>1. Equal(f * y, f * 0) /\ f * 0 = 0
    BY <1>3, EqualProducts, EqualSelf, 0 \in Int
  <2> QED BY <2>1
<1> QED BY <1>2, <1>3, NoZeroDivisors

(* Each check comes down to one remainder.                                 *)
LEMMA BlsIs ==
  ASSUME NEW claim \in Claims, NEW r \in Challenges, NEW altered
  PROVE  bls_signature_valid(HintsVk(claim.verifier), Given(claim, altered, r)) <=>
           Equal(G0 * claim.key * (HMsg - claim.over)
                   + Added(altered, "agg_pk") * HMsg - G0 * Added(altered, "agg_sig"), 0)
<1> DEFINE sig == Given(claim, altered, r)
           x == sig.agg_pk
           y == sig.agg_sig
           a == Added(altered, "agg_pk")
           b == Added(altered, "agg_sig")
           k == claim.key
           o == claim.over
           rest == G0 * k * (HMsg - o) + a * HMsg - G0 * b
<1>1. k \in Int /\ o \in Int /\ G0 \in Int /\ HMsg \in Int
  BY ClaimIs, GeneratorsAre
<1>2. "agg_pk" \in Parts /\ "agg_sig" \in Parts
  BY PartsAre DEF PartNames
<1>3. /\ x \in Int /\ y \in Int /\ a \in Int /\ b \in Int
      /\ Equal(x, G0 * k + a) /\ Equal(y, k * o + b)
  BY <1>2, GivenIs, MadeIs
<1>4. bls_signature_valid(HintsVk(claim.verifier), sig) <=>
        pairing_product_is_one(<<x, - G0>>, <<HMsg, y>>)
  BY KeyIs, ClaimIs DEF bls_signature_valid
<1> HIDE DEF sig, x, y, a, b, k, o
<1>5. pairing_product_is_one(<<x, - G0>>, <<HMsg, y>>) <=> Equal(x * HMsg + (- G0) * y, 0)
  BY <1>1, <1>3, TwoPairings, - G0 \in Int
<1>6. PICK i \in Int : x = G0 * k + a + i * P
  <2>1. G0 * k + a \in Int
    BY <1>1, <1>3
  <2> QED BY <1>3, <2>1, EqualHas
<1>7. PICK j \in Int : y = k * o + b + j * P
  <2>1. k * o + b \in Int
    BY <1>1, <1>3
  <2> QED BY <1>3, <2>1, EqualHas
<1>8. (x * HMsg + (- G0) * y) - rest = (i * HMsg - j * G0) * P
  BY <1>1, <1>3, <1>6, <1>7, OrderIs
<1>9. x * HMsg + (- G0) * y \in Int /\ rest \in Int /\ i * HMsg - j * G0 \in Int
  BY <1>1, <1>3
<1>10. Equal(x * HMsg + (- G0) * y, rest)
  BY <1>8, <1>9, EqualBy
<1>11. Equal(x * HMsg + (- G0) * y, 0) <=> Equal(rest, 0)
  BY <1>9, <1>10, EqualAlike, 0 \in Int
<1> QED BY <1>4, <1>5, <1>11 DEF sig, a, b, k, o

LEMMA ParSumKzgIs ==
  ASSUME NEW claim \in Claims, NEW r \in Challenges, NEW altered
  PROVE  parsum_kzg_valid(HintsVk(claim.verifier), Given(claim, altered, r), r) <=>
           Equal(Added(altered, "parsum_of_tau_com") - G0 * Added(altered, "parsum_of_r_div_omega")
                   - Added(altered, "opening_proof_r_div_omega") * (Tau - Over(r, Omega)), 0)
<1> DEFINE sig == Given(claim, altered, r)
           before == Over(r, Omega)
           x == sig.parsum_of_tau_com
           y == sig.parsum_of_r_div_omega
           z == sig.opening_proof_r_div_omega
           a == Added(altered, "parsum_of_tau_com")
           b == Added(altered, "parsum_of_r_div_omega")
           c == Added(altered, "opening_proof_r_div_omega")
           t == Opened(claim, Tau)[1]
           p == Through(ParSum(claim), before)
           m == HintsSignature(claim, r).opening_proof_r_div_omega
           e == Tau - before
           rest == a - G0 * b - c * e
<1>1. G0 \in Int /\ H0 \in Int /\ ~ Equal(H0, 0) /\ Tau \in Int /\ before \in Int /\ e \in Int
  BY GeneratorsAre, TauIs, ChallengeIs
<1>2. "parsum_of_tau_com" \in Parts /\ "parsum_of_r_div_omega" \in Parts /\ "opening_proof_r_div_omega" \in Parts
  BY PartsAre DEF PartNames
<1>3. /\ x \in Int /\ y \in Int /\ z \in Int /\ a \in Int /\ b \in Int /\ c \in Int
      /\ Equal(x, G0 * t + a) /\ Equal(y, p + b) /\ Equal(z, m + c)
  BY <1>2, GivenIs, MadeIs
<1>4. t \in Int /\ p \in Int /\ m \in Int /\ Equal(m * e, G0 * (t - p))
  BY QuotientsMade
<1> DEFINE h == H0 * Tau - H0 * before
<1>5. parsum_kzg_valid(HintsVk(claim.verifier), sig, r) <=>
        pairing_product_is_one(<<x - G0 * y, - z>>, <<H0, h>>)
  BY KeyIs, ClaimIs DEF parsum_kzg_valid
<1>6. h = H0 * e /\ h \in Int
  BY <1>1
<1> HIDE DEF sig, before, x, y, z, a, b, c, t, p, m, h, e
<1>7. x - G0 * y \in Int /\ - z \in Int
  BY <1>1, <1>3
<1> DEFINE value == (x - G0 * y) * H0 + (- z) * h
<1>8. pairing_product_is_one(<<x - G0 * y, - z>>, <<H0, h>>) <=> Equal(value, 0)
  BY <1>1, <1>6, <1>7, TwoPairings
<1>9. PICK i \in Int : x = G0 * t + a + i * P
  <2>1. G0 * t + a \in Int
    BY <1>1, <1>3, <1>4
  <2> QED BY <1>3, <2>1, EqualHas
<1>10. PICK j \in Int : y = p + b + j * P
  <2>1. p + b \in Int
    BY <1>3, <1>4
  <2> QED BY <1>3, <2>1, EqualHas
<1>11. PICK k \in Int : z = m + c + k * P
  <2>1. m + c \in Int
    BY <1>3, <1>4
  <2> QED BY <1>3, <2>1, EqualHas
<1>12. PICK l \in Int : m * e = G0 * (t - p) + l * P
  <2>1. m * e \in Int /\ G0 * (t - p) \in Int
    BY <1>1, <1>4
  <2> QED BY <1>4, <2>1, EqualHas
<1> DEFINE n == i - G0 * j - k * e - l
           q == (x - G0 * y) - z * e
<1>13. n \in Int /\ q - rest = n * P
  <2>1. z * e = m * e + c * e + (k * e) * P
    BY <1>1, <1>3, <1>4, <1>11, OrderIs
  <2>2. x - G0 * y = G0 * (t - p) + a - G0 * b + (i - G0 * j) * P
    BY <1>1, <1>3, <1>4, <1>9, <1>10, OrderIs
  <2>3. n * P = (i - G0 * j) * P - (k * e) * P - l * P
    BY <1>1, OrderIs
  <2> DEFINE A1 == z * e
             A2 == m * e
             A3 == c * e
             A4 == (k * e) * P
             A5 == x - G0 * y
             A6 == G0 * (t - p)
             A7 == G0 * b
             A8 == (i - G0 * j) * P
             A9 == l * P
  <2>4. /\ A1 \in Int /\ A2 \in Int /\ A3 \in Int /\ A4 \in Int /\ A5 \in Int
        /\ A6 \in Int /\ A7 \in Int /\ A8 \in Int /\ A9 \in Int
    BY <1>1, <1>3, <1>4, OrderIs
  <2>5. A1 = A2 + A3 + A4 /\ A5 = A6 + a - A7 + A8 /\ A2 = A6 + A9 /\ n * P = A8 - A4 - A9
    BY <1>12, <2>1, <2>2, <2>3
  <2>6. rest = a - A7 - A3 /\ q = A5 - A1
    OBVIOUS
  <2> HIDE DEF A1, A2, A3, A4, A5, A6, A7, A8, A9, q, rest
  <2>7. q - rest = n * P
    BY <1>3, <2>4, <2>5, <2>6
  <2>8. n \in Int
    BY <1>1
  <2> QED BY <2>7, <2>8
<1>14. q \in Int /\ rest \in Int /\ value = H0 * q /\ value \in Int
  BY <1>1, <1>3, <1>6
<1> HIDE DEF n, q, rest, value
<1>15. Equal(q, rest)
  BY <1>13, <1>14, EqualBy
<1>16. Equal(value, 0) <=> Equal(q, 0)
  BY <1>1, <1>14, EqualSelf, FactorIsNothing
<1>17. Equal(q, 0) <=> Equal(rest, 0)
  BY <1>14, <1>15, EqualAlike, 0 \in Int
<1> QED BY <1>5, <1>8, <1>16, <1>17 DEF sig, rest, a, b, c, e, before

LEMMA DegreeIs ==
  ASSUME NEW claim \in Claims, NEW r \in Challenges, NEW altered
  PROVE  degree_check_valid(HintsVk(claim.verifier), Given(claim, altered, r)) <=>
           Equal(Added(altered, "qx_of_tau_com") * Tau - Added(altered, "qx_of_tau_mul_tau_com"), 0)
<1> DEFINE sig == Given(claim, altered, r)
           x == sig.qx_of_tau_com
           y == sig.qx_of_tau_mul_tau_com
           a == Added(altered, "qx_of_tau_com")
           b == Added(altered, "qx_of_tau_mul_tau_com")
           m == HintsSignature(claim, r).qx_of_tau_com
           rest == a * Tau - b
           value == x * (H0 * Tau) + (- y) * H0
           q == x * Tau - y
<1>1. H0 \in Int /\ ~ Equal(H0, 0) /\ Tau \in Int /\ H0 * Tau \in Int
  BY GeneratorsAre, TauIs
<1>2. "qx_of_tau_com" \in Parts /\ "qx_of_tau_mul_tau_com" \in Parts
  BY PartsAre DEF PartNames
<1>3. /\ x \in Int /\ y \in Int /\ a \in Int /\ b \in Int /\ m \in Int
      /\ Equal(x, m + a) /\ Equal(y, m * Tau + b)
  BY <1>2, GivenIs, MadeIs
<1>4. degree_check_valid(HintsVk(claim.verifier), sig) <=>
        pairing_product_is_one(<<x, - y>>, <<H0 * Tau, H0>>)
  BY KeyIs, ClaimIs DEF degree_check_valid
<1> HIDE DEF sig, x, y, a, b, m
<1>5. pairing_product_is_one(<<x, - y>>, <<H0 * Tau, H0>>) <=> Equal(value, 0)
  BY <1>1, <1>3, TwoPairings, - y \in Int
<1>6. PICK i \in Int : x = m + a + i * P
  <2>1. m + a \in Int
    BY <1>3
  <2> QED BY <1>3, <2>1, EqualHas
<1>7. PICK j \in Int : y = m * Tau + b + j * P
  <2>1. m * Tau + b \in Int
    BY <1>1, <1>3
  <2> QED BY <1>3, <2>1, EqualHas
<1>8. q - rest = (i * Tau - j) * P /\ i * Tau - j \in Int /\ q \in Int /\ rest \in Int
  BY <1>1, <1>3, <1>6, <1>7, OrderIs
<1>9. value = H0 * q /\ value \in Int
  BY <1>1, <1>3
<1> HIDE DEF value, q, rest
<1>10. Equal(q, rest)
  BY <1>8, EqualBy
<1>11. Equal(value, 0) <=> Equal(q, 0)
  BY <1>1, <1>8, <1>9, EqualSelf, FactorIsNothing
<1>12. Equal(q, 0) <=> Equal(rest, 0)
  BY <1>8, <1>10, EqualAlike, 0 \in Int
<1> QED BY <1>4, <1>5, <1>11, <1>12 DEF sig, rest, a, b

LEMMA KeyIdentityIs ==
  ASSUME NEW claim \in Claims, NEW r \in Challenges, NEW altered
  PROVE  b_sk_identity_valid(HintsVk(claim.verifier), Given(claim, altered, r)) <=>
           Equal(G0 * (Through(claim.bits, Tau)
                         * (Through(claim.verifier.sk, Tau) - Through(claim.by.sk, Tau))
                       - (claim.key - KeyOfSeats(claim)))
                 + Added(altered, "b_of_tau_com") * Through(claim.verifier.sk, Tau)
                 - Added(altered, "qz_of_tau_com") * Vanishing(Tau)
                 - Added(altered, "qx_of_tau_com") * Tau - Added(altered, "agg_pk"), 0)
<1> DEFINE sig == Given(claim, altered, r)
           made == HintsSignature(claim, r)
           x == sig.b_of_tau_com
           y == sig.qz_of_tau_com
           z == sig.qx_of_tau_com
           w == sig.agg_pk
           a == Added(altered, "b_of_tau_com")
           b == Added(altered, "qz_of_tau_com")
           c == Added(altered, "qx_of_tau_com")
           d == Added(altered, "agg_pk")
           t == Through(claim.bits, Tau)
           u == Through(claim.by.sk, Tau)
           v == Through(claim.verifier.sk, Tau)
           s == Through(Signed(claim), Tau)
           k == KeyOfSeats(claim)
           n == claim.key
           g == Vanishing(Tau)
           my == made.qz_of_tau_com
           mz == made.qx_of_tau_com
           rest == G0 * (t * (v - u) - (n - k)) + a * v - b * g - c * Tau - d
           value == x * (H0 * v) + (- y) * (H0 * g) + (- z) * (H0 * Tau) + (- w) * H0
           q == x * v - y * g - z * Tau - w
<1>1. G0 \in Int /\ H0 \in Int /\ ~ Equal(H0, 0) /\ Tau \in Int /\ g \in Int /\ n \in Int
  BY GeneratorsAre, TauIs, VanishingIs, ClaimIs
<1>2. "b_of_tau_com" \in Parts /\ "qz_of_tau_com" \in Parts /\ "qx_of_tau_com" \in Parts /\ "agg_pk" \in Parts
  BY PartsAre DEF PartNames
<1>3. /\ x \in Int /\ y \in Int /\ z \in Int /\ w \in Int
      /\ a \in Int /\ b \in Int /\ c \in Int /\ d \in Int /\ my \in Int /\ mz \in Int
      /\ Equal(x, G0 * t + a) /\ Equal(y, my + b) /\ Equal(z, mz + c) /\ Equal(w, G0 * n + d)
  <2>1. made.b_of_tau_com = G0 * t /\ made.agg_pk = G0 * n
    <3>1. Opened(claim, Tau)[3] = t
      BY TauIs, OpenedIs
    <3> QED BY <3>1, MadeIs
  <2> QED BY <1>2, <2>1, GivenIs
<1>4. /\ t \in Int /\ u \in Int /\ s \in Int /\ k \in Int
      /\ Equal(mz * Tau, G0 * (s - k)) /\ Equal(my * g, G0 * (t * u - s))
  BY QuotientsMade
<1>5. v \in Int
  BY ClaimIs, TauIs, ThroughIs
<1>6. b_sk_identity_valid(HintsVk(claim.verifier), sig) <=>
        pairing_product_is_one(<<x, - y, - z, - w>>, <<H0 * v, H0 * g, H0 * Tau, H0>>)
  BY KeyIs, ClaimIs DEF b_sk_identity_valid
<1> HIDE DEF sig, made, x, y, z, w, a, b, c, d, t, u, v, s, k, n, g, my, mz
<1>7. pairing_product_is_one(<<x, - y, - z, - w>>, <<H0 * v, H0 * g, H0 * Tau, H0>>) <=> Equal(value, 0)
  <2>1. /\ - y \in Int /\ - z \in Int /\ - w \in Int
        /\ H0 * v \in Int /\ H0 * g \in Int /\ H0 * Tau \in Int
    BY <1>1, <1>3, <1>5
  <2> QED BY <1>1, <1>3, <2>1, FourPairings
<1>8. PICK i1 \in Int : x = G0 * t + a + i1 * P
  <2>1. G0 * t + a \in Int
    BY <1>1, <1>3, <1>4
  <2> QED BY <1>3, <2>1, EqualHas
<1>9. PICK i2 \in Int : y = my + b + i2 * P
  <2>1. my + b \in Int
    BY <1>3
  <2> QED BY <1>3, <2>1, EqualHas
<1>10. PICK i3 \in Int : z = mz + c + i3 * P
  <2>1. mz + c \in Int
    BY <1>3
  <2> QED BY <1>3, <2>1, EqualHas
<1>11. PICK i4 \in Int : w = G0 * n + d + i4 * P
  <2>1. G0 * n + d \in Int
    BY <1>1, <1>3
  <2> QED BY <1>3, <2>1, EqualHas
<1>12. PICK i5 \in Int : mz * Tau = G0 * (s - k) + i5 * P
  <2>1. mz * Tau \in Int /\ G0 * (s - k) \in Int
    BY <1>1, <1>3, <1>4
  <2> QED BY <1>4, <2>1, EqualHas
<1>13. PICK i6 \in Int : my * g = G0 * (t * u - s) + i6 * P
  <2>1. my * g \in Int /\ G0 * (t * u - s) \in Int
    BY <1>1, <1>3, <1>4
  <2> QED BY <1>4, <2>1, EqualHas
<1> DEFINE m == i1 * v - i2 * g - i3 * Tau - i4 - i5 - i6
<1>14. m \in Int /\ q - rest = m * P
  <2>1. x * v = G0 * (t * v) + a * v + (i1 * v) * P
    BY <1>1, <1>3, <1>4, <1>5, <1>8, OrderIs
  <2>2. y * g = my * g + b * g + (i2 * g) * P
    BY <1>1, <1>3, <1>9, OrderIs
  <2>3. z * Tau = mz * Tau + c * Tau + (i3 * Tau) * P
    BY <1>1, <1>3, <1>10, OrderIs
  <2>4. m * P = (i1 * v) * P - (i2 * g) * P - (i3 * Tau) * P - i4 * P - i5 * P - i6 * P
    BY <1>1, <1>5, OrderIs
  <2>5. /\ G0 * (t * (v - u) - (n - k)) = G0 * (t * v) - G0 * (t * u) - G0 * n + G0 * k
        /\ G0 * (s - k) = G0 * s - G0 * k /\ G0 * (t * u - s) = G0 * (t * u) - G0 * s
    BY <1>1, <1>4, <1>5
  <2> DEFINE A1 == x * v
             A2 == y * g
             A3 == z * Tau
             B1 == G0 * (t * v)
             B2 == G0 * (t * u)
             B3 == G0 * n
             B4 == G0 * k
             B5 == G0 * s
             C1 == (i1 * v) * P
             C2 == (i2 * g) * P
             C3 == (i3 * Tau) * P
             C4 == i4 * P
             C5 == i5 * P
             C6 == i6 * P
             D1 == a * v
             D2 == b * g
             D3 == c * Tau
             E1 == my * g
             E2 == mz * Tau
             M1 == m * P
  <2>6. /\ A1 \in Int /\ A2 \in Int /\ A3 \in Int
        /\ B1 \in Int /\ B2 \in Int /\ B3 \in Int /\ B4 \in Int /\ B5 \in Int
        /\ C1 \in Int /\ C2 \in Int /\ C3 \in Int /\ C4 \in Int /\ C5 \in Int /\ C6 \in Int
        /\ D1 \in Int /\ D2 \in Int /\ D3 \in Int /\ E1 \in Int /\ E2 \in Int
    BY <1>1, <1>3, <1>4, <1>5, OrderIs
  <2>7. /\ A1 = B1 + D1 + C1 /\ A2 = E1 + D2 + C2 /\ A3 = E2 + D3 + C3
        /\ w = B3 + d + C4 /\ E2 = (B5 - B4) + C5 /\ E1 = (B2 - B5) + C6
        /\ M1 = C1 - C2 - C3 - C4 - C5 - C6
    BY <1>11, <1>12, <1>13, <2>1, <2>2, <2>3, <2>4, <2>5
  <2>8. rest = (B1 - B2 - B3 + B4) + D1 - D2 - D3 - d /\ q = A1 - A2 - A3 - w
    BY <2>5
  <2> HIDE DEF A1, A2, A3, B1, B2, B3, B4, B5, C1, C2, C3, C4, C5, C6, D1, D2, D3, E1, E2, M1, q, rest
  <2>9. q - rest = M1
    BY <1>3, <2>6, <2>7, <2>8
  <2>10. m \in Int
    BY <1>1, <1>5
  <2> QED BY <2>9, <2>10 DEF M1
<1>15. q \in Int /\ rest \in Int
  BY <1>1, <1>3, <1>4, <1>5
<1>16. value = H0 * q /\ value \in Int
  BY <1>1, <1>3, <1>4, <1>5
<1> HIDE DEF m, q, rest, value
<1>17. Equal(q, rest)
  BY <1>14, <1>15, EqualBy
<1>18. Equal(value, 0) <=> Equal(q, 0)
  BY <1>1, <1>15, <1>16, EqualSelf, FactorIsNothing
<1>19. Equal(q, 0) <=> Equal(rest, 0)
  BY <1>15, <1>17, EqualAlike, 0 \in Int
<1> QED BY <1>6, <1>7, <1>18, <1>19 DEF sig, rest, a, b, c, d, t, u, v, k, n, g

(* What the seven openings are off by.                                     *)
OffBy(claim, altered) ==
  LET l == Lagrange[Last][Tau]
      d(part) == Added(altered, part)
  IN  <<d("parsum_of_tau_com") - G0 * d("parsum_of_r"),
        G0 * (Through(claim.verifier.weight, Tau) - Through(claim.by.weight, Tau))
          - (G0 * l) * d("agg_weight") - G0 * d("w_of_r"),
        d("b_of_tau_com") - G0 * d("b_of_r"), d("q1_of_tau_com") - G0 * d("q1_of_r"),
        d("q3_of_tau_com") - G0 * d("q3_of_r"), d("q2_of_tau_com") - G0 * d("q2_of_r"),
        d("q4_of_tau_com") - G0 * d("q4_of_r")>>

OffTerms(claim, altered, r) == [k \in 0 .. 6 |-> OffBy(claim, altered)[k + 1] * Power(r, k)]

(* What is opened, minus what it is said to be worth at the challenge.     *)
LEMMA OpeningOff ==
  ASSUME NEW x \in Int, NEW y \in Int, NEW t \in Int, NEW o \in Int, NEW a \in Int, NEW b \in Int,
         Equal(x, G0 * t + a), Equal(y, o + b)
  PROVE  (x - G0 * y) % P \in Int /\ Equal((x - G0 * y) % P, G0 * (t - o) + (a - G0 * b))
<1>1. G0 \in Int
  BY GeneratorsAre
<1>2. PICK i \in Int : x = G0 * t + a + i * P
  <2>1. G0 * t + a \in Int
    BY <1>1
  <2> QED BY <2>1, EqualHas
<1>3. PICK j \in Int : y = o + b + j * P
  <2>1. o + b \in Int
    OBVIOUS
  <2> QED BY <2>1, EqualHas
<1> DEFINE z == x - G0 * y
           e == G0 * (t - o) + (a - G0 * b)
<1>4. z - e = (i - G0 * j) * P /\ i - G0 * j \in Int /\ z \in Int /\ e \in Int
  BY <1>1, <1>2, <1>3, OrderIs
<1> HIDE DEF z, e
<1>5. Equal(z, e)
  BY <1>4, EqualBy
<1>6. z % P \in Int /\ Equal(z % P, z)
  BY <1>4, ModEqual
<1> QED BY <1>4, <1>5, <1>6, EqualThrough DEF z, e

(* The seven arguments of the code.                                        *)
Arguments(vk, sig) ==
  LET mk_arg(com, eval_at_r) == (com - vk.g0 * eval_at_r) % P
      w_adjusted == vk.w_of_tau_com - vk.ln_minus_1_of_tau_com * sig.agg_weight
  IN  <<mk_arg(sig.parsum_of_tau_com, sig.parsum_of_r), mk_arg(w_adjusted, sig.w_of_r),
        mk_arg(sig.b_of_tau_com, sig.b_of_r), mk_arg(sig.q1_of_tau_com, sig.q1_of_r),
        mk_arg(sig.q3_of_tau_com, sig.q3_of_r), mk_arg(sig.q2_of_tau_com, sig.q2_of_r),
        mk_arg(sig.q4_of_tau_com, sig.q4_of_r)>>

LEMMA ArgumentsAre ==
  ASSUME NEW claim \in Claims, NEW r \in Challenges, NEW altered, NEW k \in 1 .. 7
  PROVE  LET arg == Arguments(HintsVk(claim.verifier), Given(claim, altered, r))[k]
             off == OffBy(claim, altered)[k]
             t == Opened(claim, Tau)[k]
             o == Opened(claim, r)[k]
         IN  /\ arg \in Int /\ off \in Int /\ t \in Int /\ o \in Int
             /\ Equal(arg, G0 * (t - o) + off)
<1> DEFINE vk == HintsVk(claim.verifier)
           sig == Given(claim, altered, r)
           made == HintsSignature(claim, r)
           arg(n) == Arguments(vk, sig)[n]
           off(n) == OffBy(claim, altered)[n]
           t(n) == Opened(claim, Tau)[n]
           o(n) == Opened(claim, r)[n]
           d(part) == Added(altered, part)
           l == Lagrange[Last][Tau]
           tv == Through(claim.verifier.weight, Tau)
           tb == Through(claim.by.weight, Tau)
           w == tv * G0 - (G0 * l) * sig.agg_weight
           m == claim.weight
<1>1. \A n \in 1 .. 7 : t(n) \in Int /\ o(n) \in Int
  BY QuotientsMade
<1>2. G0 \in Int /\ tv \in Int /\ tb \in Int /\ l \in Int /\ Equal(t(2), tb - l * m) /\ m \in Int
  <2>1. t(2) = Through(Adjusted(claim), Tau)
    BY TauIs, OpenedIs
  <2> QED BY <2>1, GeneratorsAre, AdjustedAtTau, ClaimIs
<1>3. /\ \A part \in Parts : sig[part] \in Int /\ d(part) \in Int
      /\ \A part \in Parts : Equal(sig[part], made[part] + d(part))
  BY GivenIs
<1>4. /\ arg(1) = (sig.parsum_of_tau_com - G0 * sig.parsum_of_r) % P
      /\ arg(2) = ((G0 * tv - (G0 * l) * sig.agg_weight) - G0 * sig.w_of_r) % P
      /\ arg(3) = (sig.b_of_tau_com - G0 * sig.b_of_r) % P
      /\ arg(4) = (sig.q1_of_tau_com - G0 * sig.q1_of_r) % P
      /\ arg(5) = (sig.q3_of_tau_com - G0 * sig.q3_of_r) % P
      /\ arg(6) = (sig.q2_of_tau_com - G0 * sig.q2_of_r) % P
      /\ arg(7) = (sig.q4_of_tau_com - G0 * sig.q4_of_r) % P
  BY KeyIs, ClaimIs DEF Arguments
<1>5. /\ off(1) = d("parsum_of_tau_com") - G0 * d("parsum_of_r")
      /\ off(2) = G0 * (tv - tb) - (G0 * l) * d("agg_weight") - G0 * d("w_of_r")
      /\ off(3) = d("b_of_tau_com") - G0 * d("b_of_r") /\ off(4) = d("q1_of_tau_com") - G0 * d("q1_of_r")
      /\ off(5) = d("q3_of_tau_com") - G0 * d("q3_of_r") /\ off(6) = d("q2_of_tau_com") - G0 * d("q2_of_r")
      /\ off(7) = d("q4_of_tau_com") - G0 * d("q4_of_r")
  BY DEF OffBy
<1>6. /\ made.parsum_of_tau_com = G0 * t(1) /\ made.parsum_of_r = o(1)
      /\ made.agg_weight = m /\ made.w_of_r = o(2)
      /\ made.b_of_tau_com = G0 * t(3) /\ made.b_of_r = o(3)
      /\ made.q1_of_tau_com = G0 * t(4) /\ made.q1_of_r = o(4)
      /\ made.q3_of_tau_com = G0 * t(5) /\ made.q3_of_r = o(5)
      /\ made.q2_of_tau_com = G0 * t(6) /\ made.q2_of_r = o(6)
      /\ made.q4_of_tau_com = G0 * t(7) /\ made.q4_of_r = o(7)
  BY MadeIs
<1>7. /\ "parsum_of_tau_com" \in Parts /\ "parsum_of_r" \in Parts /\ "agg_weight" \in Parts
      /\ "w_of_r" \in Parts /\ "b_of_tau_com" \in Parts /\ "b_of_r" \in Parts
      /\ "q1_of_tau_com" \in Parts /\ "q1_of_r" \in Parts /\ "q3_of_tau_com" \in Parts
      /\ "q3_of_r" \in Parts /\ "q2_of_tau_com" \in Parts /\ "q2_of_r" \in Parts
      /\ "q4_of_tau_com" \in Parts /\ "q4_of_r" \in Parts
  BY PartsAre DEF PartNames
<1> HIDE DEF vk, sig, made, arg, off, t, o, d, l, tv, tb, m
<1> DEFINE Right(n) == arg(n) \in Int /\ off(n) \in Int /\ Equal(arg(n), G0 * (t(n) - o(n)) + off(n))
<1>8. ASSUME NEW n \in 1 .. 7, NEW p \in Parts, NEW q \in Parts,
              made[p] = G0 * t(n), made[q] = o(n),
              arg(n) = (sig[p] - G0 * sig[q]) % P, off(n) = d(p) - G0 * d(q)
       PROVE  Right(n)
  <2> DEFINE x == sig[p]
             y == sig[q]
             e == d(p)
             f == d(q)
             u == t(n)
             v == o(n)
  <2>1. /\ x \in Int /\ y \in Int /\ e \in Int /\ f \in Int /\ u \in Int /\ v \in Int
        /\ Equal(x, G0 * u + e) /\ Equal(y, v + f)
    BY <1>1, <1>3, <1>8
  <2>2. arg(n) = (x - G0 * y) % P /\ off(n) = e - G0 * f
    BY <1>8
  <2>3. Right(n) <=> arg(n) \in Int /\ off(n) \in Int /\ Equal(arg(n), G0 * (u - v) + off(n))
    OBVIOUS
  <2> HIDE DEF x, y, e, f, u, v, Right
  <2>4. (x - G0 * y) % P \in Int /\ Equal((x - G0 * y) % P, G0 * (u - v) + (e - G0 * f))
    BY <2>1, OpeningOff
  <2>5. e - G0 * f \in Int
    BY <1>2, <2>1
  <2> QED BY <2>2, <2>3, <2>4, <2>5
<1> HIDE DEF Right
<1>9. Right(1)
  BY <1>4, <1>5, <1>6, <1>7, <1>8
<1>10. Right(3)
  BY <1>4, <1>5, <1>6, <1>7, <1>8
<1>11. Right(4)
  BY <1>4, <1>5, <1>6, <1>7, <1>8
<1>12. Right(5)
  BY <1>4, <1>5, <1>6, <1>7, <1>8
<1>13. Right(6)
  BY <1>4, <1>5, <1>6, <1>7, <1>8
<1>14. Right(7)
  BY <1>4, <1>5, <1>6, <1>7, <1>8
<1>15. Right(2)
  <2> USE DEF Right
  <2> DEFINE x == G0 * tv - (G0 * l) * sig.agg_weight
             a == G0 * (tv - tb) - (G0 * l) * d("agg_weight")
             g == sig.agg_weight
             e == d("agg_weight")
             u == t(2)
  <2>1. g \in Int /\ e \in Int /\ Equal(g, m + e) /\ sig.w_of_r \in Int /\ d("w_of_r") \in Int
        /\ Equal(sig.w_of_r, o(2) + d("w_of_r"))
    BY <1>3, <1>6, <1>7
  <2>2. u \in Int /\ o(2) \in Int /\ Equal(u, tb - l * m)
    BY <1>1, <1>2
  <2>3. x = G0 * tv - (G0 * l) * g /\ a = G0 * (tv - tb) - (G0 * l) * e
    OBVIOUS
  <2> HIDE DEF g, e, u, x, a
  <2>4. PICK i \in Int : g = m + e + i * P
    <3>1. m + e \in Int
      BY <1>2, <2>1
    <3> QED BY <2>1, <3>1, EqualHas
  <2>5. PICK j \in Int : u = (tb - l * m) + j * P
    <3>1. tb - l * m \in Int
      BY <1>2
    <3> QED BY <2>2, <3>1, EqualHas
  <2> DEFINE n == - (G0 * l * i) - G0 * j
  <2>6. x \in Int /\ a \in Int /\ n \in Int /\ G0 * u + a \in Int
    BY <1>2, <2>1, <2>2, <2>3
  <2>7. x - (G0 * u + a) = n * P
    BY <1>2, <2>1, <2>2, <2>3, <2>4, <2>5, OrderIs
  <2> HIDE DEF n
  <2>8. Equal(x, G0 * u + a)
    BY <2>6, <2>7, EqualBy
  <2>9. /\ (x - G0 * sig.w_of_r) % P \in Int
        /\ Equal((x - G0 * sig.w_of_r) % P, G0 * (u - o(2)) + (a - G0 * d("w_of_r")))
    BY <2>1, <2>2, <2>6, <2>8, OpeningOff
  <2>10. arg(2) = (x - G0 * sig.w_of_r) % P /\ off(2) = a - G0 * d("w_of_r")
    BY <1>4, <1>5 DEF x, a, g, e
  <2>11. off(2) \in Int
    BY <1>2, <2>1, <2>6, <2>10
  <2> QED BY <2>9, <2>10, <2>11 DEF u
<1>16. Right(k)
  <2>1. k = 1 \/ k = 2 \/ k = 3 \/ k = 4 \/ k = 5 \/ k = 6 \/ k = 7
    OBVIOUS
  <2> QED BY <1>9, <1>10, <1>11, <1>12, <1>13, <1>14, <1>15, <2>1
<1> QED BY <1>1, <1>16 DEF Right, vk, sig, arg, off, t, o

(* The openings batched with the challenge's powers.                       *)
LEMMA MergedIs ==
  ASSUME NEW claim \in Claims, NEW r \in Challenges, NEW altered
  PROVE  /\ \A k \in 0 .. 6 : OffBy(claim, altered)[k + 1] \in Int /\ OffTerms(claim, altered, r)[k] \in Int
         /\ Sum(OffTerms(claim, altered, r), 7) \in Int
         /\ merged_kzg_valid(HintsVk(claim.verifier), Given(claim, altered, r), r) <=>
              Equal(Sum(OffTerms(claim, altered, r), 7) - Added(altered, "opening_proof_r") * (Tau - r), 0)
<1> DEFINE vk == HintsVk(claim.verifier)
           sig == Given(claim, altered, r)
           args == Arguments(vk, sig)
           f == [k \in 0 .. 6 |-> args[k + 1] * Power(r, k)]
           D == Differences(claim, r)
           E == OffTerms(claim, altered, r)
           m == HintsSignature(claim, r).opening_proof_r
           x == sig.opening_proof_r
           a == Added(altered, "opening_proof_r")
           e == Tau - r
           h == H0 * Tau - H0 * r
<1>1. /\ G0 \in Int /\ H0 \in Int /\ ~ Equal(H0, 0) /\ Tau \in Int /\ r \in Int /\ e \in Int
      /\ h = H0 * e /\ h \in Int
  BY GeneratorsAre, TauIs, ChallengeIs
<1>2. ASSUME NEW k \in 0 .. 6
      PROVE  /\ f[k] \in Int /\ D[k] \in Int /\ E[k] \in Int /\ OffBy(claim, altered)[k + 1] \in Int
             /\ Equal(f[k], G0 * D[k] + 1 * E[k])
  <2> DEFINE p == Power(r, k)
             arg == args[k + 1]
             off == OffBy(claim, altered)[k + 1]
             t == Opened(claim, Tau)[k + 1]
             o == Opened(claim, r)[k + 1]
  <2>1. p \in Int
    BY <1>1, PowerIs, ScalarNotZero, k \in Nat
  <2>2. /\ arg \in Int /\ off \in Int /\ t \in Int /\ o \in Int
        /\ Equal(arg, G0 * (t - o) + off)
    BY ArgumentsAre, k + 1 \in 1 .. 7
  <2>3. f[k] = arg * p /\ D[k] = (t - o) * p /\ E[k] = off * p
    BY DEF Differences, OffTerms
  <2> HIDE DEF p, arg, off, t, o, f, D, E
  <2>4. G0 * (t - o) + off \in Int
    BY <1>1, <2>2
  <2>5. Equal(arg * p, (G0 * (t - o) + off) * p)
    BY <2>1, <2>2, <2>4, EqualProducts, EqualSelf
  <2>6. (G0 * (t - o) + off) * p = G0 * ((t - o) * p) + 1 * (off * p)
    BY <1>1, <2>1, <2>2
  <2> QED BY <2>1, <2>2, <2>3, <2>5, <2>6 DEF off
<1>3. merged_kzg_valid(vk, sig, r) <=>
        pairing_product_is_one(<<Sum(f, 7), - x>>, <<H0, h>>)
  BY KeyIs, ClaimIs DEF merged_kzg_valid, Arguments
<1>4. "opening_proof_r" \in Parts
  BY PartsAre DEF PartNames
<1>5. x \in Int /\ a \in Int /\ m \in Int /\ Equal(x, m + a)
  BY <1>4, GivenIs
<1> HIDE DEF vk, sig, args, f
<1>6. /\ Sum(f, 7) \in Int /\ Sum(D, 7) \in Int /\ Sum(E, 7) \in Int
      /\ Equal(Sum(f, 7), G0 * Sum(D, 7) + 1 * Sum(E, 7))
  <2> HIDE DEF D, E
  <2>1. /\ \A k \in 0 .. 7 - 1 : f[k] \in Int /\ D[k] \in Int /\ E[k] \in Int
        /\ \A k \in 0 .. 7 - 1 : Equal(f[k], G0 * D[k] + 1 * E[k])
    BY <1>2, 7 - 1 = 6
  <2> QED BY <1>1, <2>1, SumCombined, 7 \in Nat, 1 \in Int
<1>7. Equal(m * e, G0 * Sum(D, 7))
  BY QuotientsMade
<1> DEFINE F == Sum(f, 7)
           S == Sum(D, 7)
           T == Sum(E, 7)
           rest == T - a * e
           q == F - x * e
           value == F * H0 + (- x) * h
<1>8. /\ F \in Int /\ S \in Int /\ T \in Int /\ Equal(F, G0 * S + 1 * T) /\ Equal(m * e, G0 * S)
  BY <1>6, <1>7
<1> HIDE DEF F, S, T, D, E, m, x, a, e, h
<1>9. pairing_product_is_one(<<F, - x>>, <<H0, h>>) <=> Equal(value, 0)
  BY <1>1, <1>5, <1>8, TwoPairings, - x \in Int
<1>10. PICK i \in Int : F = G0 * S + 1 * T + i * P
  <2>1. G0 * S + 1 * T \in Int
    BY <1>1, <1>8
  <2> QED BY <1>8, <2>1, EqualHas
<1>11. PICK j \in Int : m * e = G0 * S + j * P
  <2>1. m * e \in Int /\ G0 * S \in Int
    BY <1>1, <1>5, <1>8
  <2> QED BY <1>8, <2>1, EqualHas
<1>12. PICK k \in Int : x = m + a + k * P
  <2>1. m + a \in Int
    BY <1>5
  <2> QED BY <1>5, <2>1, EqualHas
<1>13. q - rest = (i - j - k * e) * P
  <2>1. x * e = m * e + a * e + (k * e) * P
    BY <1>1, <1>5, <1>12, OrderIs
  <2>2. (i - j - k * e) * P = i * P - j * P - (k * e) * P
    BY <1>1, OrderIs
  <2> DEFINE A1 == x * e
             A2 == m * e
             A3 == a * e
             A4 == (k * e) * P
             A5 == i * P
             A6 == j * P
             A7 == G0 * S
  <2>3. A1 \in Int /\ A2 \in Int /\ A3 \in Int /\ A4 \in Int /\ A5 \in Int /\ A6 \in Int /\ A7 \in Int
    BY <1>1, <1>5, <1>8, OrderIs
  <2>4. /\ A1 = A2 + A3 + A4 /\ F = A7 + T + A5 /\ A2 = A7 + A6
        /\ (i - j - k * e) * P = A5 - A6 - A4 /\ q = F - A1 /\ rest = T - A3
    BY <1>8, <1>10, <1>11, <2>1, <2>2
  <2> HIDE DEF A1, A2, A3, A4, A5, A6, A7, q, rest
  <2>5. q - rest = A5 - A6 - A4
    BY <1>8, <2>3, <2>4
  <2> QED BY <2>4, <2>5
<1>14. q \in Int /\ rest \in Int /\ i - j - k * e \in Int /\ value = H0 * q /\ value \in Int
  BY <1>1, <1>5, <1>8
<1> HIDE DEF q, rest, value
<1>15. Equal(q, rest)
  BY <1>13, <1>14, EqualBy
<1>16. Equal(value, 0) <=> Equal(q, 0)
  BY <1>1, <1>14, EqualSelf, FactorIsNothing
<1>17. Equal(q, 0) <=> Equal(rest, 0)
  BY <1>14, <1>15, EqualAlike, 0 \in Int
<1> QED BY <1>2, <1>6, <1>3, <1>9, <1>16, <1>17 DEF vk, sig, F, T, rest, a, e, E

(* The four identities over the field, when nothing is altered.            *)
IsQuotient(q, s, v, value, left, given) ==
  Equal(s, q) /\ Equal(q * v, value - left) /\ Equal(given, value)

LEMMA QuotientDecides ==
  ASSUME NEW q \in Int, NEW s \in Int, NEW v \in Int, NEW value \in Int, NEW left \in Int, NEW given \in Int,
         IsQuotient(q, s, v, value, left, given)
  PROVE  Equal(given, s * v) <=> Equal(left, 0)
<1>1. Equal(s, q) /\ Equal(q * v, value - left) /\ Equal(given, value)
  BY DEF IsQuotient
<1>2. q * v \in Int /\ s * v \in Int /\ value - left \in Int
  OBVIOUS
<1>3. PICK i \in Int : s = q + i * P
  BY <1>1, EqualHas
<1>4. PICK j \in Int : q * v = (value - left) + j * P
  BY <1>1, <1>2, EqualHas
<1>5. PICK k \in Int : given = value + k * P
  BY <1>1, EqualHas
<1> DEFINE d == given - s * v
<1>6. d - left = (k - j - i * v) * P /\ d \in Int /\ k - j - i * v \in Int
  <2>1. s * v = q * v + (i * v) * P
    BY <1>3, OrderIs
  <2>2. (k - j - i * v) * P = k * P - j * P - (i * v) * P
    BY OrderIs
  <2> DEFINE A1 == s * v
             A2 == q * v
             A3 == (i * v) * P
             A4 == k * P
             A5 == j * P
  <2>3. A1 \in Int /\ A2 \in Int /\ A3 \in Int /\ A4 \in Int /\ A5 \in Int
    BY OrderIs
  <2>4. A1 = A2 + A3 /\ A2 = value - left + A5 /\ given = value + A4 /\ d = given - A1
        /\ (k - j - i * v) * P = A4 - A5 - A3
    BY <1>4, <1>5, <2>1, <2>2
  <2>5. k - j - i * v \in Int
    OBVIOUS
  <2> HIDE DEF A1, A2, A3, A4, A5, d
  <2>6. d - left = A4 - A5 - A3 /\ d \in Int
    BY <2>3, <2>4
  <2> QED BY <2>4, <2>5, <2>6
<1> HIDE DEF d
<1>7. Equal(d, left)
  BY <1>6, EqualBy
<1>8. Equal(d, 0) <=> Equal(left, 0)
  BY <1>6, <1>7, EqualAlike, 0 \in Int
<1>9. Equal(given, s * v) <=> Equal(d, 0)
  BY <1>2, EqualZero DEF d
<1> QED BY <1>8, <1>9

----------------------------------------------------------------------------
Accepts(claim, altered, r) == identities_hold(HintsVk(claim.verifier), Given(claim, altered, r), r)

LEMMA FieldIdentities ==
  ASSUME NEW claim \in Claims, NEW r \in Challenges
  PROVE  LET sig == Given(claim, "nothing", r)
         IN  /\ parsum_accumulation_valid(sig, r) /\ parsum_constraint_valid(sig, r)
             /\ bitmap_well_formedness_valid(sig, r) /\ bitmap_constraint_valid(sig, r)
             <=> \A n \in 1 .. 4 : Equal(Through(Remains(claim)[n], r), 0)
<1> DEFINE sig == Given(claim, "nothing", r)
           made == HintsSignature(claim, r)
           o(n) == Opened(claim, r)[n]
           a == Through(ParSum(claim), Over(r, Omega))
           v == Vanishing(r)
           l == Lagrange[Last][r]
           ln == ln_minus_1_of_r(r)
           left(n) == Through(Remains(claim)[n], r)
           sp == sig.parsum_of_r
           sa == sig.parsum_of_r_div_omega
           sw == sig.w_of_r
           sb == sig.b_of_r
           s1 == sig.q1_of_r
           s2 == sig.q2_of_r
           s3 == sig.q3_of_r
           s4 == sig.q4_of_r
<1>1. \A part \in Parts : sig[part] \in Int /\ Equal(sig[part], made[part])
  <2>1. \A part \in Parts : Added("nothing", part) = 0
    BY PartsAre DEF Added, PartNames
  <2>2. ASSUME NEW part \in Parts PROVE sig[part] \in Int /\ Equal(sig[part], made[part])
    <3> DEFINE x == sig[part]
               y == made[part]
    <3>1. x \in Int /\ y \in Int /\ Equal(x, y + 0)
      BY <2>1, GivenIs
    <3> HIDE DEF x, y
    <3>2. y + 0 = y
      BY <3>1
    <3> QED BY <3>1, <3>2 DEF x, y
  <2> QED BY <2>2
<1>2. /\ made.parsum_of_r = o(1) /\ made.w_of_r = o(2) /\ made.b_of_r = o(3)
      /\ made.q1_of_r = o(4) /\ made.q3_of_r = o(5) /\ made.q2_of_r = o(6) /\ made.q4_of_r = o(7)
      /\ made.parsum_of_r_div_omega = a
  BY MadeIs
<1>3. /\ "parsum_of_r" \in Parts /\ "parsum_of_r_div_omega" \in Parts /\ "w_of_r" \in Parts
      /\ "b_of_r" \in Parts /\ "q1_of_r" \in Parts /\ "q2_of_r" \in Parts
      /\ "q3_of_r" \in Parts /\ "q4_of_r" \in Parts
  BY PartsAre DEF PartNames
<1>4. /\ sp \in Int /\ sa \in Int /\ sw \in Int /\ sb \in Int
      /\ s1 \in Int /\ s2 \in Int /\ s3 \in Int /\ s4 \in Int
      /\ Equal(sp, o(1)) /\ Equal(sa, a) /\ Equal(sw, o(2)) /\ Equal(sb, o(3))
      /\ Equal(s1, o(4)) /\ Equal(s3, o(5)) /\ Equal(s2, o(6)) /\ Equal(s4, o(7))
  BY <1>1, <1>2, <1>3
<1>5. r \in Elsewhere /\ Last \in Seats
  BY ChallengeIs, SeatsAre
<1>6. v \in Int /\ l \in Int /\ ln \in Int /\ Equal(ln, l)
  BY <1>5, VanishingIs, LagrangeIs, LnMinusOne
<1>7. /\ \A n \in 1 .. 7 : o(n) \in Int
      /\ \A n \in 1 .. 4 : left(n) \in Int
      /\ a \in Int
      /\ Equal(o(4) * v, (o(1) - a - o(2) * o(3)) - left(1))
      /\ Equal(o(5) * v, l * o(1) - left(3))
      /\ Equal(o(6) * v, (o(3) * o(3) - o(3)) - left(2))
      /\ Equal(o(7) * v, l * (o(3) - 1) - left(4))
  BY <1>5, OpenedIs
<1>8. /\ parsum_accumulation_valid(sig, r) <=> Equal(sp - sa - sw * sb, s1 * v)
      /\ parsum_constraint_valid(sig, r) <=> Equal(ln * sp, v * s3)
      /\ bitmap_well_formedness_valid(sig, r) <=> Equal(sb * sb - sb, s2 * v)
      /\ bitmap_constraint_valid(sig, r) <=> Equal(ln * (sb - 1), v * s4)
  BY DEF parsum_accumulation_valid, parsum_constraint_valid,
         bitmap_well_formedness_valid, bitmap_constraint_valid
<1> DEFINE o1 == o(1)
           o2 == o(2)
           o3 == o(3)
           o4 == o(4)
           o5 == o(5)
           o6 == o(6)
           o7 == o(7)
           r1 == left(1)
           r2 == left(2)
           r3 == left(3)
           r4 == left(4)
<1>9. /\ o1 \in Int /\ o2 \in Int /\ o3 \in Int /\ o4 \in Int /\ o5 \in Int /\ o6 \in Int /\ o7 \in Int
      /\ r1 \in Int /\ r2 \in Int /\ r3 \in Int /\ r4 \in Int
      /\ Equal(o4 * v, (o1 - a - o2 * o3) - r1)
      /\ Equal(o5 * v, l * o1 - r3)
      /\ Equal(o6 * v, (o3 * o3 - o3) - r2)
      /\ Equal(o7 * v, l * (o3 - 1) - r4)
      /\ Equal(sp, o1) /\ Equal(sa, a) /\ Equal(sw, o2) /\ Equal(sb, o3)
      /\ Equal(s1, o4) /\ Equal(s3, o5) /\ Equal(s2, o6) /\ Equal(s4, o7)
  BY <1>4, <1>7
<1>10. (\A n \in 1 .. 4 : Equal(left(n), 0)) <=> Equal(r1, 0) /\ Equal(r2, 0) /\ Equal(r3, 0) /\ Equal(r4, 0)
  <2>1. \A n \in 1 .. 4 : n = 1 \/ n = 2 \/ n = 3 \/ n = 4
    OBVIOUS
  <2> QED BY <2>1
<1> HIDE DEF sig, made, o1, o2, o3, o4, o5, o6, o7, o, left, r1, r2, r3, r4, a, v, l, ln, sp, sa, sw, sb, s1, s2, s3, s4
<1>11. Equal(sp - sa - sw * sb, s1 * v) <=> Equal(r1, 0)
  <2>1. Equal(sp - sa, o1 - a)
    BY <1>4, <1>7, <1>9, EqualSums
  <2>2. Equal(sw * sb, o2 * o3)
    BY <1>4, <1>9, EqualProducts
  <2>3. sp - sa \in Int /\ o1 - a \in Int /\ sw * sb \in Int /\ o2 * o3 \in Int
    BY <1>4, <1>7, <1>9
  <2>4. sp - sa - sw * sb \in Int /\ o1 - a - o2 * o3 \in Int
    BY <2>3
  <2>5. Equal(sp - sa - sw * sb, o1 - a - o2 * o3)
    <3> DEFINE x == sp - sa
               y == o1 - a
               u == sw * sb
               t == o2 * o3
    <3>1. x \in Int /\ y \in Int /\ u \in Int /\ t \in Int /\ Equal(x, y) /\ Equal(u, t)
      BY <2>1, <2>2, <2>3
    <3> HIDE DEF x, y, u, t
    <3>2. Equal(x - u, y - t)
      BY <3>1, EqualSums
    <3> QED BY <3>2 DEF x, y, u, t
  <2> DEFINE given == sp - sa - sw * sb
             value == o1 - a - o2 * o3
             product == s1 * v
  <2>6. /\ given \in Int /\ value \in Int /\ o4 \in Int /\ s1 \in Int /\ v \in Int /\ r1 \in Int
        /\ product \in Int /\ product = s1 * v /\ IsQuotient(o4, s1, v, value, r1, given)
    BY <1>4, <1>6, <1>9, <2>4, <2>5 DEF IsQuotient
  <2> HIDE DEF given, value, product
  <2>7. Equal(given, product) <=> Equal(r1, 0)
    BY <2>6, QuotientDecides
  <2> QED BY <2>7 DEF given, product
<1>12. Equal(ln * sp, v * s3) <=> Equal(r3, 0)
  <2>1. Equal(ln * sp, l * o1) /\ ln * sp \in Int /\ l * o1 \in Int
    BY <1>4, <1>6, <1>9, EqualProducts
  <2> DEFINE given == ln * sp
             value == l * o1
             product == s3 * v
  <2>2. /\ given \in Int /\ value \in Int /\ o5 \in Int /\ s3 \in Int /\ v \in Int /\ r3 \in Int
        /\ product \in Int /\ product = s3 * v /\ IsQuotient(o5, s3, v, value, r3, given)
    BY <1>4, <1>6, <1>9, <2>1 DEF IsQuotient
  <2> HIDE DEF given, value, product
  <2>3. Equal(given, product) <=> Equal(r3, 0)
    BY <2>2, QuotientDecides
  <2>4. product = v * s3
    BY <2>2
  <2> QED BY <2>3, <2>4 DEF given
<1>13. Equal(sb * sb - sb, s2 * v) <=> Equal(r2, 0)
  <2>1. Equal(sb * sb, o3 * o3) /\ sb * sb \in Int /\ o3 * o3 \in Int
    BY <1>4, <1>9, EqualProducts
  <2>2. Equal(sb * sb - sb, o3 * o3 - o3) /\ sb * sb - sb \in Int /\ o3 * o3 - o3 \in Int
    BY <1>4, <1>9, <2>1, EqualSums
  <2> DEFINE given == sb * sb - sb
             value == o3 * o3 - o3
             product == s2 * v
  <2>3. /\ given \in Int /\ value \in Int /\ o6 \in Int /\ s2 \in Int /\ v \in Int /\ r2 \in Int
        /\ product \in Int /\ product = s2 * v /\ IsQuotient(o6, s2, v, value, r2, given)
    BY <1>4, <1>6, <1>9, <2>2 DEF IsQuotient
  <2> HIDE DEF given, value, product
  <2>4. Equal(given, product) <=> Equal(r2, 0)
    BY <2>3, QuotientDecides
  <2> QED BY <2>4 DEF given, product
<1>14. Equal(ln * (sb - 1), v * s4) <=> Equal(r4, 0)
  <2>1. Equal(1, 1) /\ sb - 1 \in Int /\ o3 - 1 \in Int
    BY <1>4, <1>9, EqualSelf, 1 \in Int
  <2>2. Equal(sb - 1, o3 - 1)
    BY <1>4, <1>9, <2>1, EqualSums, 1 \in Int
  <2>3. ln * (sb - 1) \in Int /\ l * (o3 - 1) \in Int
    BY <1>6, <2>1
  <2>4. Equal(ln * (sb - 1), l * (o3 - 1))
    <3> DEFINE x == sb - 1
               y == o3 - 1
    <3>1. x \in Int /\ y \in Int /\ Equal(x, y)
      BY <2>1, <2>2
    <3> HIDE DEF x, y
    <3>2. Equal(ln * x, l * y)
      BY <1>6, <3>1, EqualProducts
    <3> QED BY <3>2 DEF x, y
  <2> DEFINE given == ln * (sb - 1)
             value == l * (o3 - 1)
             product == s4 * v
  <2>5. /\ given \in Int /\ value \in Int /\ o7 \in Int /\ s4 \in Int /\ v \in Int /\ r4 \in Int
        /\ product \in Int /\ product = s4 * v /\ IsQuotient(o7, s4, v, value, r4, given)
    BY <1>4, <1>6, <1>9, <2>3, <2>4 DEF IsQuotient
  <2> HIDE DEF given, value, product
  <2>6. Equal(given, product) <=> Equal(r4, 0)
    BY <2>5, QuotientDecides
  <2>7. product = v * s4
    BY <2>5
  <2> QED BY <2>6, <2>7 DEF given
<1> QED BY <1>8, <1>10, <1>11, <1>12, <1>13, <1>14 DEF sig, left

(* What an unaltered signature is accepted for.                            *)
LEMMA UnalteredIs ==
  ASSUME NEW claim \in Claims, NEW r \in Challenges
  PROVE  Accepts(claim, "nothing", r) <=>
           /\ claim.key = 0 \/ claim.over = HMsg
           /\ Through(claim.by.weight, Tau) = Through(claim.verifier.weight, Tau)
           /\ Equal(Through(claim.bits, Tau) * (Through(claim.verifier.sk, Tau) - Through(claim.by.sk, Tau)),
                    claim.key - KeyOfSeats(claim))
           /\ \A n \in 1 .. 4 : Equal(Through(Remains(claim)[n], r), 0)
<1> DEFINE vk == HintsVk(claim.verifier)
           sig == Given(claim, "nothing", r)
           n == claim.key
           m == claim.over
           tv == Through(claim.verifier.weight, Tau)
           tb == Through(claim.by.weight, Tau)
           kv == Through(claim.verifier.sk, Tau)
           kb == Through(claim.by.sk, Tau)
           b == Through(claim.bits, Tau)
           k == KeyOfSeats(claim)
<1>1. \A part \in PartNames : Added("nothing", part) = 0
  BY DEF Added, PartNames
<1>2. /\ G0 \in Int /\ ~ Equal(G0, 0) /\ H0 \in Int /\ HMsg \in Int /\ HMsg \in Scalar /\ Tau \in Int
      /\ Tau \in Elsewhere /\ n \in Int /\ n \in Scalar /\ m \in Int /\ m \in Scalar
      /\ r \in Int /\ ~ Equal(r, 0) /\ Tau - r \in Int /\ Tau - Over(r, Omega) \in Int
  BY GeneratorsAre, TauIs, ClaimIs, ChallengeIs
<1>3. /\ tv \in Int /\ tb \in Int /\ tv \in Scalar /\ tb \in Scalar
      /\ kv \in Int /\ kb \in Int /\ b \in Int /\ k \in Int /\ Vanishing(Tau) \in Int
  BY <1>2, ClaimIs, ThroughIs, QuotientsMade, VanishingIs
<1>4. bls_signature_valid(vk, sig) <=> n = 0 \/ m = HMsg
  <2>1. bls_signature_valid(vk, sig) <=> Equal(G0 * n * (HMsg - m) + 0 * HMsg - G0 * 0, 0)
    BY <1>1, BlsIs DEF PartNames
  <2> HIDE DEF n, m
  <2> DEFINE y == n * (HMsg - m)
             e == HMsg - m
  <2>2. G0 * n * (HMsg - m) + 0 * HMsg - G0 * 0 = G0 * y /\ G0 * y \in Int /\ y \in Int /\ e \in Int
    BY <1>2
  <2>3. Equal(G0 * y, 0) <=> Equal(y, 0)
    <3> HIDE DEF y
    <3> QED BY <1>2, <2>2, EqualSelf, FactorIsNothing
  <2>4. Equal(y, 0) <=> Equal(n, 0) \/ Equal(e, 0)
    <3>1. y = n * e /\ n * e = e * n
      BY <1>2
    <3>2. Equal(n, 0) => Equal(n * e, 0)
      <4>1. 0 * e = 0
        BY <2>2
      <4> HIDE DEF e
      <4> QED BY <1>2, <2>2, <4>1, EqualProducts, EqualSelf, 0 \in Int
    <3>3. Equal(e, 0) => Equal(n * e, 0)
      <4>1. n * 0 = 0
        BY <1>2
      <4> HIDE DEF e
      <4> QED BY <1>2, <2>2, <4>1, EqualProducts, EqualSelf, 0 \in Int
    <3> HIDE DEF e, y
    <3> QED BY <1>2, <2>2, <3>1, <3>2, <3>3, NoZeroDivisors
  <2>5. Equal(n, 0) <=> n = 0
    BY <1>2, ScalarNotZero
  <2>6. Equal(e, 0) <=> m = HMsg
    <3>1. m = HMsg => e = 0
      BY <1>2
    <3> QED BY <1>2, <3>1, ScalarsDiffer, EqualSelf, 0 \in Int
  <2> HIDE DEF y, e
  <2> QED BY <2>1, <2>2, <2>3, <2>4, <2>5, <2>6
<1>5. merged_kzg_valid(vk, sig, r) <=> tb = tv
  <2> DEFINE E == OffTerms(claim, "nothing", r)
             o(j) == OffBy(claim, "nothing")[j + 1]
             p == Power(r, 1)
             l == Lagrange[Last][Tau]
  <2>1. /\ \A j \in 0 .. 6 : o(j) \in Int /\ E[j] \in Int
        /\ Sum(E, 7) \in Int
        /\ merged_kzg_valid(vk, sig, r) <=> Equal(Sum(E, 7) - 0 * (Tau - r), 0)
    BY <1>1, MergedIs DEF PartNames
  <2>2. l \in Int
    BY <1>2, LagrangeIs, SeatsAre
  <2>3. /\ o(0) = 0 - G0 * 0 /\ o(1) = G0 * (tv - tb) - (G0 * l) * 0 - G0 * 0
        /\ o(2) = 0 - G0 * 0 /\ o(3) = 0 - G0 * 0 /\ o(4) = 0 - G0 * 0
        /\ o(5) = 0 - G0 * 0 /\ o(6) = 0 - G0 * 0
    BY <1>1 DEF OffBy, PartNames
  <2>4. \A j \in 0 .. 6 : E[j] = o(j) * Power(r, j)
    BY DEF OffTerms
  <2>5. \A j \in 0 .. 6 : Power(r, j) \in Int /\ ~ Equal(Power(r, j), 0)
    BY <1>2, PowerNotZero
  <2> HIDE DEF E, o, l, tv, tb
  <2>6. o(1) = G0 * (tv - tb) /\ \A j \in 0 .. 6 : j # 1 => o(j) = 0
    <3>1. \A j \in 0 .. 6 : j # 1 => j = 0 \/ j = 2 \/ j = 3 \/ j = 4 \/ j = 5 \/ j = 6
      OBVIOUS
    <3>2. 0 - G0 * 0 = 0 /\ G0 * (tv - tb) - (G0 * l) * 0 - G0 * 0 = G0 * (tv - tb)
      BY <1>2, <1>3, <2>2
    <3> QED BY <2>3, <3>1, <3>2
  <2>7. \A j \in 0 .. 6 : j # 1 => Equal(E[j], 0)
    <3>1. \A j \in 0 .. 6 : j # 1 => E[j] = 0
      BY <2>4, <2>5, <2>6
    <3> QED BY <3>1, EqualSelf, 0 \in Int
  <2>8. Equal(Sum(E, 7), E[1])
    <3>1. \A j \in 0 .. 7 - 1 : E[j] \in Int /\ (j # 1 => Equal(E[j], 0))
      BY <2>1, <2>7, 7 - 1 = 6
    <3> QED BY <3>1, SumOfOne, 7 \in Nat, 1 \in 0 .. 7 - 1
  <2> DEFINE e == tv - tb
             S == Sum(E, 7)
  <2>9. e \in Int /\ S \in Int /\ S - 0 * (Tau - r) = S /\ p \in Int /\ ~ Equal(p, 0)
        /\ Equal(S, E[1]) /\ E[1] \in Int
    <3>1. S - 0 * (Tau - r) = S
      BY <1>2, <2>1
    <3> QED BY <1>3, <2>1, <2>5, <2>8, <3>1
  <2>10. E[1] = (G0 * e) * p
    BY <2>4, <2>6
  <2>11. merged_kzg_valid(vk, sig, r) <=> Equal(S, 0)
    BY <2>1, <2>9
  <2> HIDE DEF S, e, p
  <2> DEFINE g == G0 * p
  <2>12. g \in Int /\ ~ Equal(g, 0)
    BY <1>2, <2>9, ProductNotZero
  <2>13. E[1] = g * e
    BY <1>2, <2>9, <2>10
  <2> HIDE DEF g
  <2>14. Equal(S, 0) <=> Equal(e, 0)
    <3>1. Equal(S, g * e)
      BY <2>9, <2>13
    <3> QED BY <2>9, <2>12, <3>1, FactorIsNothing
  <2>15. Equal(e, 0) <=> tb = tv
    <3>1. tb = tv => e = 0
      BY <1>3 DEF e
    <3>2. tb # tv => ~ Equal(e, 0)
      BY <1>3, ScalarsDiffer DEF e, tb, tv
    <3> QED BY <3>1, <3>2, EqualSelf, 0 \in Int
  <2> QED BY <2>11, <2>14, <2>15 DEF tb, tv
<1>6. parsum_kzg_valid(vk, sig, r)
  <2>1. parsum_kzg_valid(vk, sig, r) <=> Equal(0 - G0 * 0 - 0 * (Tau - Over(r, Omega)), 0)
    BY <1>1, ParSumKzgIs DEF PartNames
  <2>2. 0 - G0 * 0 - 0 * (Tau - Over(r, Omega)) = 0
    BY <1>2
  <2> QED BY <2>1, <2>2, EqualSelf, 0 \in Int
<1>7. b_sk_identity_valid(vk, sig) <=> Equal(b * (kv - kb), n - k)
  <2> DEFINE y == b * (kv - kb) - (n - k)
             g == Vanishing(Tau)
  <2>1. b_sk_identity_valid(vk, sig) <=>
          Equal(G0 * (b * (kv - kb) - (n - k)) + 0 * kv - 0 * g - 0 * Tau - 0, 0)
    BY <1>1, KeyIdentityIs DEF PartNames
  <2>2. y \in Int /\ n - k \in Int /\ b * (kv - kb) \in Int
    BY <1>2, <1>3
  <2>3. G0 * y + 0 * kv - 0 * g - 0 * Tau - 0 = G0 * y /\ G0 * y \in Int
    <3>1. G0 * y \in Int /\ 0 * kv = 0 /\ 0 * g = 0 /\ 0 * Tau = 0
      BY <1>2, <1>3, <2>2
    <3> QED BY <3>1
  <2>4. Equal(y, 0) <=> Equal(b * (kv - kb), n - k)
    BY <2>2, EqualZero
  <2> HIDE DEF y, g
  <2>5. Equal(G0 * y, 0) <=> Equal(y, 0)
    BY <1>2, <2>2, <2>3, EqualSelf, FactorIsNothing
  <2> QED BY <2>1, <2>3, <2>4, <2>5 DEF y
<1>8. degree_check_valid(vk, sig)
  <2>1. degree_check_valid(vk, sig) <=> Equal(0 * Tau - 0, 0)
    BY <1>1, DegreeIs DEF PartNames
  <2>2. 0 * Tau - 0 = 0
    BY <1>2
  <2> QED BY <2>1, <2>2, EqualSelf, 0 \in Int
<1>9. Accepts(claim, "nothing", r) <=>
        /\ bls_signature_valid(vk, sig) /\ merged_kzg_valid(vk, sig, r) /\ parsum_kzg_valid(vk, sig, r)
        /\ b_sk_identity_valid(vk, sig)
        /\ parsum_accumulation_valid(sig, r) /\ parsum_constraint_valid(sig, r)
        /\ bitmap_well_formedness_valid(sig, r) /\ bitmap_constraint_valid(sig, r)
        /\ degree_check_valid(vk, sig)
  BY DEF Accepts, identities_hold
<1> HIDE DEF vk
<1> QED BY <1>4, <1>5, <1>6, <1>7, <1>8, <1>9, FieldIdentities

(* A true claim is accepted.                                               *)
LEMMA TrueIsAccepted ==
  ASSUME NEW claim \in Claims, IsTrue(claim), NEW r \in Challenges
  PROVE  Accepts(claim, "nothing", r)
<1>1. IsCounted(claim) /\ claim.by = claim.verifier /\ claim.key = KeyOfSeats(claim)
      /\ (claim.over = HMsg \/ claim.key = 0)
  BY DEF IsTrue
<1>2. \A n \in 1 .. 4 : Equal(Through(Remains(claim)[n], r), 0)
  BY <1>1, NothingRemains, RemainsAre, ChallengeIs, ThroughNothing
<1> DEFINE x == Through(claim.bits, Tau) * (Through(claim.verifier.sk, Tau) - Through(claim.by.sk, Tau))
           y == claim.key - KeyOfSeats(claim)
<1>3. x = 0 /\ y = 0
  <2>1. /\ Through(claim.bits, Tau) \in Int /\ Through(claim.by.sk, Tau) \in Int
        /\ KeyOfSeats(claim) \in Int
    BY QuotientsMade
  <2> QED BY <1>1, <2>1
<1>4. Equal(x, y)
  BY <1>3, EqualSelf, 0 \in Int
<1> QED BY <1>1, <1>2, <1>4, UnalteredIs

(* A false one but where a list has a zero.                                *)
LEMMA FalseIsRefused ==
  ASSUME NEW claim \in Claims, ~ IsTrue(claim),
         NEW Z, Z \subseteq Challenges, \A r \in Z : Accepts(claim, "nothing", r)
  PROVE  Cardinality(Z) < Parties
<1>1. CASE ~ IsCounted(claim)
  <2>1. PICK n \in 1 .. 4, i \in Seats : ~ Equal(Remains(claim)[n][i], 0)
    BY <1>1, SomethingRemains
  <2>2. \A r \in Z : Equal(Through(Remains(claim)[n], r), 0)
    BY UnalteredIs
  <2>3. Z \in SUBSET Elsewhere
    BY DEF Challenges
  <2>4. IsList(Remains(claim)[n])
    BY RemainsAre
  <2> QED BY <2>1, <2>2, <2>3, <2>4, ZerosOfAList
<1>2. CASE IsCounted(claim)
  <2>1. ASSUME NEW r \in Z PROVE FALSE
    <3>1. r \in Challenges
      OBVIOUS
    <3>2. /\ claim.key = 0 \/ claim.over = HMsg
          /\ Through(claim.by.weight, Tau) = Through(claim.verifier.weight, Tau)
          /\ Equal(Through(claim.bits, Tau) * (Through(claim.verifier.sk, Tau) - Through(claim.by.sk, Tau)),
                   claim.key - KeyOfSeats(claim))
      BY <3>1, UnalteredIs
    <3>3. claim.by = claim.verifier
      BY <1>2, <3>2, TauIsSecret
    <3>4. claim.key = KeyOfSeats(claim)
      <4> DEFINE b == Through(claim.bits, Tau)
                 k == Through(claim.by.sk, Tau)
                 n == claim.key
                 m == KeyOfSeats(claim)
      <4>1. b \in Int /\ k \in Int /\ m \in Int /\ m \in Scalar /\ n \in Scalar /\ n \in Int
        BY <3>1, QuotientsMade, ClaimIs
      <4>2. Equal(b * (k - k), n - m)
        BY <3>2, <3>3
      <4> HIDE DEF b, k, n, m
      <4>3. b * (k - k) = 0 /\ n - m \in Int
        BY <4>1
      <4>4. Equal(n - m, 0)
        BY <4>2, <4>3, EqualTurned, 0 \in Int
      <4>5. n = m
        BY <4>1, <4>4, ScalarsDiffer
      <4> QED BY <4>5 DEF n, m
    <3> QED BY <1>2, <3>2, <3>3, <3>4 DEF IsTrue
  <2>2. Z = {}
    BY <2>1
  <2> QED BY <2>2, FS_EmptySet, SeatsAre
<1> QED BY <1>1, <1>2

(* What is not zero.                                                       *)
LEMMA TurnedNotZero ==
  ASSUME NEW x \in Int, ~ Equal(x, 0)
  PROVE  ~ Equal(- x, 0)
<1>1. ASSUME Equal(- x, 0) PROVE FALSE
  <2>1. - x \in Int /\ 0 - (- x) = x /\ 0 - 0 = 0
    OBVIOUS
  <2>2. Equal(0, 0)
    BY EqualSelf, 0 \in Int
  <2> DEFINE y == - x
  <2>3. y \in Int /\ Equal(y, 0) /\ 0 - y = x
    BY <1>1, <2>1
  <2> HIDE DEF y
  <2>4. Equal(0 - y, 0 - 0)
    BY <2>2, <2>3, EqualSums, 0 \in Int
  <2> QED BY <2>1, <2>3, <2>4
<1> QED BY <1>1

LEMMA OneNotZero == ~ Equal(1, 0) /\ ~ Equal(-1, 0)
<1>1. 1 \in Scalar /\ 1 # 0 /\ 1 \in Int
  BY OrderIs DEF Scalar
<1>2. ~ Equal(1, 0)
  BY <1>1, ScalarNotZero
<1> QED BY <1>1, <1>2, TurnedNotZero

(* Which of the seven is off when one part is altered.                     *)
Opens(altered, j) ==
  \/ j = 1 /\ altered \in {"parsum_of_tau_com", "parsum_of_r"}
  \/ j = 2 /\ altered \in {"agg_weight", "w_of_r"}
  \/ j = 3 /\ altered \in {"b_of_tau_com", "b_of_r"}
  \/ j = 4 /\ altered \in {"q1_of_tau_com", "q1_of_r"}
  \/ j = 5 /\ altered \in {"q3_of_tau_com", "q3_of_r"}
  \/ j = 6 /\ altered \in {"q2_of_tau_com", "q2_of_r"}
  \/ j = 7 /\ altered \in {"q4_of_tau_com", "q4_of_r"}

LEMMA OneIsOff ==
  ASSUME NEW claim \in Claims, claim.by = claim.verifier, NEW altered, NEW j \in 1 .. 7, Opens(altered, j)
  PROVE  /\ ~ Equal(OffBy(claim, altered)[j], 0)
         /\ \A k \in 1 .. 7 : k # j => OffBy(claim, altered)[k] = 0
         /\ Added(altered, "opening_proof_r") = 0
<1> DEFINE l == Lagrange[Last][Tau]
           d(part) == Added(altered, part)
           t == Through(claim.by.weight, Tau)
           off(n) == OffBy(claim, altered)[n]
<1>1. G0 \in Int /\ l \in Int /\ t \in Int /\ ~ Equal(G0, 0) /\ ~ Equal(l, 0)
  BY GeneratorsAre, TauIs, SeatsAre, LagrangeIs, AdjustedAtTau
<1>2. off(1) = d("parsum_of_tau_com") - G0 * d("parsum_of_r")
  BY DEF OffBy
<1>3. off(2) = G0 * (t - t) - (G0 * l) * d("agg_weight") - G0 * d("w_of_r")
  BY DEF OffBy
<1>4. off(3) = d("b_of_tau_com") - G0 * d("b_of_r") /\ off(4) = d("q1_of_tau_com") - G0 * d("q1_of_r")
  BY DEF OffBy
<1>5. off(5) = d("q3_of_tau_com") - G0 * d("q3_of_r") /\ off(6) = d("q2_of_tau_com") - G0 * d("q2_of_r")
  BY DEF OffBy
<1>6. off(7) = d("q4_of_tau_com") - G0 * d("q4_of_r")
  BY DEF OffBy
<1>7. ~ Equal(1, 0) /\ ~ Equal(- G0, 0) /\ ~ Equal(- (G0 * l), 0)
  <2> HIDE DEF l
  <2>1. ~ Equal(G0 * l, 0)
    BY <1>1, ProductNotZero
  <2>2. G0 * l \in Int
    BY <1>1
  <2> DEFINE y == G0 * l
  <2> HIDE DEF y
  <2>3. ~ Equal(- y, 0)
    BY <2>1, <2>2, TurnedNotZero DEF y
  <2> QED BY <1>1, <2>3, OneNotZero, TurnedNotZero DEF y
<1>8. 0 - G0 * 0 = 0 /\ 1 - G0 * 0 = 1 /\ 0 - G0 * 1 = - G0
  BY <1>1
<1>9. /\ G0 * (t - t) - (G0 * l) * 0 - G0 * 0 = 0
      /\ G0 * (t - t) - (G0 * l) * 1 - G0 * 0 = - (G0 * l)
      /\ G0 * (t - t) - (G0 * l) * 0 - G0 * 1 = - G0
  BY <1>1
<1>10. \A k \in 1 .. 7 : k = 1 \/ k = 2 \/ k = 3 \/ k = 4 \/ k = 5 \/ k = 6 \/ k = 7
  OBVIOUS
<1> HIDE DEF l, t, off
<1>11. CASE j = 1 /\ altered = "parsum_of_tau_com"
  <2>1. off(1) = 1 /\ off(2) = 0 /\ off(3) = 0 /\ off(4) = 0 /\ off(5) = 0 /\ off(6) = 0 /\ off(7) = 0
    BY <1>2, <1>3, <1>4, <1>5, <1>6, <1>8, <1>9, <1>11 DEF Added
  <2> QED BY <1>7, <1>10, <1>11, <2>1 DEF Added, off
<1>12. CASE j = 1 /\ altered = "parsum_of_r"
  <2>1. off(1) = - G0 /\ off(2) = 0 /\ off(3) = 0 /\ off(4) = 0 /\ off(5) = 0 /\ off(6) = 0 /\ off(7) = 0
    BY <1>2, <1>3, <1>4, <1>5, <1>6, <1>8, <1>9, <1>12 DEF Added
  <2> QED BY <1>7, <1>10, <1>12, <2>1 DEF Added, off
<1>13. CASE j = 2 /\ altered = "agg_weight"
  <2>1. off(2) = - (G0 * l) /\ off(1) = 0 /\ off(3) = 0 /\ off(4) = 0 /\ off(5) = 0 /\ off(6) = 0 /\ off(7) = 0
    BY <1>2, <1>3, <1>4, <1>5, <1>6, <1>8, <1>9, <1>13 DEF Added
  <2> QED BY <1>7, <1>10, <1>13, <2>1 DEF Added, off
<1>14. CASE j = 2 /\ altered = "w_of_r"
  <2>1. off(2) = - G0 /\ off(1) = 0 /\ off(3) = 0 /\ off(4) = 0 /\ off(5) = 0 /\ off(6) = 0 /\ off(7) = 0
    BY <1>2, <1>3, <1>4, <1>5, <1>6, <1>8, <1>9, <1>14 DEF Added
  <2> QED BY <1>7, <1>10, <1>14, <2>1 DEF Added, off
<1>15. CASE j = 3 /\ altered = "b_of_tau_com"
  <2>1. off(3) = 1 /\ off(1) = 0 /\ off(2) = 0 /\ off(4) = 0 /\ off(5) = 0 /\ off(6) = 0 /\ off(7) = 0
    BY <1>2, <1>3, <1>4, <1>5, <1>6, <1>8, <1>9, <1>15 DEF Added
  <2> QED BY <1>7, <1>10, <1>15, <2>1 DEF Added, off
<1>16. CASE j = 3 /\ altered = "b_of_r"
  <2>1. off(3) = - G0 /\ off(1) = 0 /\ off(2) = 0 /\ off(4) = 0 /\ off(5) = 0 /\ off(6) = 0 /\ off(7) = 0
    BY <1>2, <1>3, <1>4, <1>5, <1>6, <1>8, <1>9, <1>16 DEF Added
  <2> QED BY <1>7, <1>10, <1>16, <2>1 DEF Added, off
<1>17. CASE j = 4 /\ altered = "q1_of_tau_com"
  <2>1. off(4) = 1 /\ off(1) = 0 /\ off(2) = 0 /\ off(3) = 0 /\ off(5) = 0 /\ off(6) = 0 /\ off(7) = 0
    BY <1>2, <1>3, <1>4, <1>5, <1>6, <1>8, <1>9, <1>17 DEF Added
  <2> QED BY <1>7, <1>10, <1>17, <2>1 DEF Added, off
<1>18. CASE j = 4 /\ altered = "q1_of_r"
  <2>1. off(4) = - G0 /\ off(1) = 0 /\ off(2) = 0 /\ off(3) = 0 /\ off(5) = 0 /\ off(6) = 0 /\ off(7) = 0
    BY <1>2, <1>3, <1>4, <1>5, <1>6, <1>8, <1>9, <1>18 DEF Added
  <2> QED BY <1>7, <1>10, <1>18, <2>1 DEF Added, off
<1>19. CASE j = 5 /\ altered = "q3_of_tau_com"
  <2>1. off(5) = 1 /\ off(1) = 0 /\ off(2) = 0 /\ off(3) = 0 /\ off(4) = 0 /\ off(6) = 0 /\ off(7) = 0
    BY <1>2, <1>3, <1>4, <1>5, <1>6, <1>8, <1>9, <1>19 DEF Added
  <2> QED BY <1>7, <1>10, <1>19, <2>1 DEF Added, off
<1>20. CASE j = 5 /\ altered = "q3_of_r"
  <2>1. off(5) = - G0 /\ off(1) = 0 /\ off(2) = 0 /\ off(3) = 0 /\ off(4) = 0 /\ off(6) = 0 /\ off(7) = 0
    BY <1>2, <1>3, <1>4, <1>5, <1>6, <1>8, <1>9, <1>20 DEF Added
  <2> QED BY <1>7, <1>10, <1>20, <2>1 DEF Added, off
<1>21. CASE j = 6 /\ altered = "q2_of_tau_com"
  <2>1. off(6) = 1 /\ off(1) = 0 /\ off(2) = 0 /\ off(3) = 0 /\ off(4) = 0 /\ off(5) = 0 /\ off(7) = 0
    BY <1>2, <1>3, <1>4, <1>5, <1>6, <1>8, <1>9, <1>21 DEF Added
  <2> QED BY <1>7, <1>10, <1>21, <2>1 DEF Added, off
<1>22. CASE j = 6 /\ altered = "q2_of_r"
  <2>1. off(6) = - G0 /\ off(1) = 0 /\ off(2) = 0 /\ off(3) = 0 /\ off(4) = 0 /\ off(5) = 0 /\ off(7) = 0
    BY <1>2, <1>3, <1>4, <1>5, <1>6, <1>8, <1>9, <1>22 DEF Added
  <2> QED BY <1>7, <1>10, <1>22, <2>1 DEF Added, off
<1>23. CASE j = 7 /\ altered = "q4_of_tau_com"
  <2>1. off(7) = 1 /\ off(1) = 0 /\ off(2) = 0 /\ off(3) = 0 /\ off(4) = 0 /\ off(5) = 0 /\ off(6) = 0
    BY <1>2, <1>3, <1>4, <1>5, <1>6, <1>8, <1>9, <1>23 DEF Added
  <2> QED BY <1>7, <1>10, <1>23, <2>1 DEF Added, off
<1>24. CASE j = 7 /\ altered = "q4_of_r"
  <2>1. off(7) = - G0 /\ off(1) = 0 /\ off(2) = 0 /\ off(3) = 0 /\ off(4) = 0 /\ off(5) = 0 /\ off(6) = 0
    BY <1>2, <1>3, <1>4, <1>5, <1>6, <1>8, <1>9, <1>24 DEF Added
  <2> QED BY <1>7, <1>10, <1>24, <2>1 DEF Added, off
<1> QED BY <1>11, <1>12, <1>13, <1>14, <1>15, <1>16, <1>17, <1>18, <1>19, <1>20, <1>21, <1>22, <1>23, <1>24 DEF Opens

LEMMA MergedCatches ==
  ASSUME NEW claim \in Claims, claim.by = claim.verifier, NEW r \in Challenges,
         NEW altered, NEW j \in 1 .. 7, Opens(altered, j)
  PROVE  ~ merged_kzg_valid(HintsVk(claim.verifier), Given(claim, altered, r), r)
<1> DEFINE E == OffTerms(claim, altered, r)
           o(k) == OffBy(claim, altered)[k]
           i == j - 1
           p == Power(r, i)
           S == Sum(E, 7)
           e == Tau - r
<1>1. ~ Equal(o(j), 0) /\ \A k \in 1 .. 7 : k # j => o(k) = 0
  BY OneIsOff
<1>2. Added(altered, "opening_proof_r") = 0
  BY OneIsOff
<1>3. /\ \A k \in 0 .. 6 : o(k + 1) \in Int /\ E[k] \in Int
      /\ S \in Int /\ e \in Int
      /\ merged_kzg_valid(HintsVk(claim.verifier), Given(claim, altered, r), r) <=> Equal(S - 0 * e, 0)
  BY <1>2, MergedIs, ChallengeIs
<1>4. \A k \in 0 .. 6 : E[k] = o(k + 1) * Power(r, k)
  BY DEF OffTerms
<1>5. \A k \in 0 .. 6 : Power(r, k) \in Int /\ ~ Equal(Power(r, k), 0)
  BY ChallengeIs, PowerNotZero
<1>6. i \in 0 .. 6 /\ i + 1 = j /\ \A k \in 0 .. 6 : k # i => k + 1 \in 1 .. 7 /\ k + 1 # j
  OBVIOUS
<1> HIDE DEF o, E, e, i
<1>7. \A k \in 0 .. 6 : k # i => Equal(E[k], 0)
  <2>1. \A k \in 0 .. 6 : k # i => E[k] = 0
    BY <1>1, <1>4, <1>5, <1>6
  <2> QED BY <2>1, EqualSelf, 0 \in Int
<1>8. Equal(S, E[i])
  <2>1. \A k \in 0 .. 7 - 1 : E[k] \in Int /\ (k # i => Equal(E[k], 0))
    BY <1>3, <1>7, 7 - 1 = 6
  <2> QED BY <1>6, <2>1, SumOfOne, 7 \in Nat, 7 - 1 = 6
<1>9. E[i] \in Int /\ ~ Equal(E[i], 0)
  <2>1. E[i] = o(j) * p /\ o(j) \in Int /\ p \in Int /\ ~ Equal(p, 0) /\ E[i] \in Int
    BY <1>3, <1>4, <1>5, <1>6
  <2> HIDE DEF p
  <2> QED BY <1>1, <2>1, ProductNotZero
<1>10. S - 0 * e = S
  BY <1>3
<1>11. ~ Equal(S, 0)
  BY <1>3, <1>8, <1>9, EqualAlike, 0 \in Int
<1> QED BY <1>3, <1>10, <1>11

(* No part of a true claim's signature can be another one.                 *)
LEMMA AlteredIsRefused ==
  ASSUME NEW claim \in Claims, IsTrue(claim), NEW r \in Challenges, NEW altered \in Parts
  PROVE  ~ Accepts(claim, altered, r)
<1> DEFINE vk == HintsVk(claim.verifier)
           sig == Given(claim, altered, r)
           n == claim.key
           m == claim.over
           b == Through(claim.bits, Tau)
           kv == Through(claim.verifier.sk, Tau)
           kb == Through(claim.by.sk, Tau)
           k == KeyOfSeats(claim)
           e == Tau - Over(r, Omega)
           g == Vanishing(Tau)
           d(part) == Added(altered, part)
<1>1. claim.by = claim.verifier /\ n = k /\ (m = HMsg \/ n = 0)
  BY DEF IsTrue
<1>2. /\ G0 \in Int /\ HMsg \in Int /\ Tau \in Int /\ n \in Int /\ m \in Int /\ r \in Int
      /\ ~ Equal(G0, 0) /\ ~ Equal(HMsg, 0) /\ ~ Equal(Tau, 0)
      /\ e \in Int /\ ~ Equal(e, 0) /\ g \in Int /\ ~ Equal(g, 0)
      /\ Tau - r \in Int /\ ~ Equal(Tau - r, 0)
  BY GeneratorsAre, TauIs, ClaimIs, ChallengeIs, VanishingIs
<1>3. b \in Int /\ kb \in Int /\ k \in Int /\ kv = kb
  BY <1>1, QuotientsMade
<1>4. Accepts(claim, altered, r) =>
        /\ bls_signature_valid(vk, sig) /\ merged_kzg_valid(vk, sig, r) /\ parsum_kzg_valid(vk, sig, r)
        /\ b_sk_identity_valid(vk, sig) /\ degree_check_valid(vk, sig)
  BY DEF Accepts, identities_hold
<1>5. bls_signature_valid(vk, sig) <=>
        Equal(G0 * n * (HMsg - m) + d("agg_pk") * HMsg - G0 * d("agg_sig"), 0)
  BY BlsIs
<1>6. parsum_kzg_valid(vk, sig, r) <=>
        Equal(d("parsum_of_tau_com") - G0 * d("parsum_of_r_div_omega")
                - d("opening_proof_r_div_omega") * e, 0)
  BY ParSumKzgIs
<1>7. b_sk_identity_valid(vk, sig) <=>
        Equal(G0 * (b * (kv - kb) - (n - k)) + d("b_of_tau_com") * kv
                - d("qz_of_tau_com") * g - d("qx_of_tau_com") * Tau - d("agg_pk"), 0)
  BY KeyIdentityIs
<1>8. degree_check_valid(vk, sig) <=> Equal(d("qx_of_tau_com") * Tau - d("qx_of_tau_mul_tau_com"), 0)
  BY DegreeIs
<1>9. G0 * n * (HMsg - m) = 0
  BY <1>1, <1>2
<1> HIDE DEF vk, sig, n, m, b, kv, kb, k, e, g
<1>10. CASE altered = "agg_pk"
  <2>1. d("agg_pk") = 1 /\ d("agg_sig") = 0
    BY <1>10 DEF Added
  <2>2. 0 + 1 * HMsg - G0 * 0 = HMsg
    BY <1>2
  <2> QED BY <1>2, <1>4, <1>5, <1>9, <2>1, <2>2
<1>11. CASE altered = "agg_sig"
  <2>1. d("agg_pk") = 0 /\ d("agg_sig") = 1
    BY <1>11 DEF Added
  <2>2. 0 + 0 * HMsg - G0 * 1 = - G0 /\ ~ Equal(- G0, 0)
    BY <1>2, TurnedNotZero
  <2> QED BY <1>4, <1>5, <1>9, <2>1, <2>2
<1>12. CASE altered = "qz_of_tau_com"
  <2>1. d("b_of_tau_com") = 0 /\ d("qz_of_tau_com") = 1 /\ d("qx_of_tau_com") = 0 /\ d("agg_pk") = 0
    BY <1>12 DEF Added
  <2>2. G0 * (b * (kv - kb) - (n - k)) + 0 * kv - 1 * g - 0 * Tau - 0 = - g /\ ~ Equal(- g, 0)
    <3>1. b * (kv - kb) - (n - k) = 0
      BY <1>1, <1>2, <1>3
    <3>2. G0 * 0 + 0 * kv - 1 * g - 0 * Tau - 0 = - g
      BY <1>2, <1>3
    <3> QED BY <1>2, <3>1, <3>2, TurnedNotZero
  <2> QED BY <1>4, <1>7, <2>1, <2>2
<1>13. CASE altered = "qx_of_tau_com"
  <2>1. d("qx_of_tau_com") = 1 /\ d("qx_of_tau_mul_tau_com") = 0
    BY <1>13 DEF Added
  <2>2. 1 * Tau - 0 = Tau
    BY <1>2
  <2> QED BY <1>2, <1>4, <1>8, <2>1, <2>2
<1>14. CASE altered = "qx_of_tau_mul_tau_com"
  <2>1. d("qx_of_tau_com") = 0 /\ d("qx_of_tau_mul_tau_com") = 1
    BY <1>14 DEF Added
  <2>2. 0 * Tau - 1 = -1
    BY <1>2
  <2> QED BY <1>4, <1>8, <2>1, <2>2, OneNotZero
<1>15. CASE altered = "parsum_of_r_div_omega"
  <2>1. /\ d("parsum_of_tau_com") = 0 /\ d("parsum_of_r_div_omega") = 1
        /\ d("opening_proof_r_div_omega") = 0
    BY <1>15 DEF Added
  <2>2. 0 - G0 * 1 - 0 * e = - G0 /\ ~ Equal(- G0, 0)
    BY <1>2, TurnedNotZero
  <2> QED BY <1>4, <1>6, <2>1, <2>2
<1>16. CASE altered = "opening_proof_r_div_omega"
  <2>1. /\ d("parsum_of_tau_com") = 0 /\ d("parsum_of_r_div_omega") = 0
        /\ d("opening_proof_r_div_omega") = 1
    BY <1>16 DEF Added
  <2>2. 0 - G0 * 0 - 1 * e = - e /\ ~ Equal(- e, 0)
    BY <1>2, TurnedNotZero
  <2> QED BY <1>4, <1>6, <2>1, <2>2
<1>17. CASE altered = "opening_proof_r"
  <2> DEFINE E == OffTerms(claim, altered, r)
             S == Sum(E, 7)
             f == Tau - r
             o(i) == OffBy(claim, altered)[i]
  <2>1. /\ \A i \in 0 .. 6 : E[i] \in Int
        /\ S \in Int
        /\ merged_kzg_valid(vk, sig, r) <=> Equal(S - d("opening_proof_r") * f, 0)
    BY MergedIs DEF vk, sig
  <2>2. d("opening_proof_r") = 1 /\ f \in Int /\ ~ Equal(f, 0)
    BY <1>2, <1>17 DEF Added
  <2>3. \A i \in 0 .. 6 : E[i] = o(i + 1) * Power(r, i)
    BY DEF OffTerms
  <2>4. \A i \in 0 .. 6 : o(i + 1) = 0
    <3> DEFINE t == Through(claim.by.weight, Tau)
               l == Lagrange[Last][Tau]
    <3>1. /\ o(1) = 0 - G0 * 0 /\ o(2) = G0 * (t - t) - (G0 * l) * 0 - G0 * 0
          /\ o(3) = 0 - G0 * 0 /\ o(4) = 0 - G0 * 0 /\ o(5) = 0 - G0 * 0
          /\ o(6) = 0 - G0 * 0 /\ o(7) = 0 - G0 * 0
      BY <1>1, <1>17 DEF OffBy, Added
    <3>2. t \in Int /\ l \in Int
      BY AdjustedAtTau
    <3> HIDE DEF t, l, o
    <3>3. 0 - G0 * 0 = 0 /\ G0 * (t - t) - (G0 * l) * 0 - G0 * 0 = 0
      BY <1>2, <3>2
    <3>4. \A i \in 0 .. 6 : i = 0 \/ i = 1 \/ i = 2 \/ i = 3 \/ i = 4 \/ i = 5 \/ i = 6
      OBVIOUS
    <3> QED BY <3>1, <3>3, <3>4
  <2>5. \A i \in 0 .. 6 : Power(r, i) \in Int
    BY ChallengeIs, PowerNotZero
  <2> HIDE DEF E, o, f
  <2>6. \A i \in 0 .. 6 : E[i] = 0
    BY <2>3, <2>4, <2>5
  <2>7. Equal(S, 0)
    <3>1. \A i \in 0 .. 7 - 1 : E[i] \in Int /\ (i # 0 => Equal(E[i], 0))
      BY <2>6, 7 - 1 = 6, EqualSelf, 0 \in Int
    <3>2. Equal(S, E[0])
      BY <3>1, SumOfOne, 7 \in Nat, 0 \in 0 .. 7 - 1
    <3> QED BY <2>6, <3>2
  <2>8. ~ Equal(S - f, 0)
    <3> HIDE DEF S
    <3>1. Equal(S - f, 0 - f)
      BY <2>1, <2>2, <2>7, EqualSums, EqualSelf, 0 \in Int
    <3>2. 0 - f = - f /\ - f \in Int /\ S - f \in Int /\ ~ Equal(- f, 0)
      BY <2>1, <2>2, TurnedNotZero
    <3> QED BY <3>1, <3>2, EqualAlike, 0 \in Int
  <2>9. S - 1 * f = S - f
    BY <2>1, <2>2
  <2> QED BY <1>4, <2>1, <2>2, <2>8, <2>9
<1>18. CASE \E j \in 1 .. 7 : Opens(altered, j)
  BY <1>1, <1>4, <1>18, MergedCatches DEF vk, sig
<1>19. \/ altered \in {"agg_pk", "agg_sig", "qz_of_tau_com", "qx_of_tau_com", "qx_of_tau_mul_tau_com",
                       "parsum_of_r_div_omega", "opening_proof_r_div_omega", "opening_proof_r"}
       \/ \E j \in 1 .. 7 : Opens(altered, j)
  <2>1. altered \in PartNames
    BY PartsAre
  <2>2. 1 \in 1 .. 7 /\ 2 \in 1 .. 7 /\ 3 \in 1 .. 7 /\ 4 \in 1 .. 7 /\ 5 \in 1 .. 7 /\ 6 \in 1 .. 7 /\ 7 \in 1 .. 7
    OBVIOUS
  <2>3. /\ altered \in {"parsum_of_tau_com", "parsum_of_r"} => Opens(altered, 1)
        /\ altered \in {"agg_weight", "w_of_r"} => Opens(altered, 2)
        /\ altered \in {"b_of_tau_com", "b_of_r"} => Opens(altered, 3)
        /\ altered \in {"q1_of_tau_com", "q1_of_r"} => Opens(altered, 4)
        /\ altered \in {"q3_of_tau_com", "q3_of_r"} => Opens(altered, 5)
        /\ altered \in {"q2_of_tau_com", "q2_of_r"} => Opens(altered, 6)
        /\ altered \in {"q4_of_tau_com", "q4_of_r"} => Opens(altered, 7)
    BY DEF Opens
  <2>4. \/ altered \in {"agg_pk", "agg_sig", "qz_of_tau_com", "qx_of_tau_com", "qx_of_tau_mul_tau_com",
                        "parsum_of_r_div_omega", "opening_proof_r_div_omega", "opening_proof_r"}
        \/ altered \in {"parsum_of_tau_com", "parsum_of_r"} \/ altered \in {"agg_weight", "w_of_r"}
        \/ altered \in {"b_of_tau_com", "b_of_r"} \/ altered \in {"q1_of_tau_com", "q1_of_r"}
        \/ altered \in {"q3_of_tau_com", "q3_of_r"} \/ altered \in {"q2_of_tau_com", "q2_of_r"}
        \/ altered \in {"q4_of_tau_com", "q4_of_r"}
    BY <2>1 DEF PartNames
  <2> QED BY <2>2, <2>3, <2>4
<1> QED BY <1>10, <1>11, <1>12, <1>13, <1>14, <1>15, <1>16, <1>17, <1>18, <1>19

----------------------------------------------------------------------------
(* What an argument has been through.                                      *)
IsMade(claim, altered) ==
  /\ claim \in Claims
  /\ altered = "nothing" \/ (altered \in Parts /\ IsTrue(claim))

ArgumentInv ==
  \/ argument = NoArgument
  \/ \E claim \in Claims, altered \in Parts \cup {"nothing"} :
       /\ IsMade(claim, altered)
       /\ argument = [phase |-> "claimed", claim |-> claim, altered |-> altered]
  \/ \E claim \in Claims, altered \in Parts \cup {"nothing"} :
       /\ IsMade(claim, altered)
       /\ argument = [phase |-> "checked", claim |-> claim, altered |-> altered,
                      accepted |-> {r \in Challenges : Accepts(claim, altered, r)}]

LEMMA ClaimKeeps ==
  ASSUME NEW claim \in Claims, Claim(claim)
  PROVE  ArgumentInv'
<1>1. argument' = [phase |-> "claimed", claim |-> claim, altered |-> "nothing"]
  BY DEF Claim
<1>2. IsMade(claim, "nothing")
  BY DEF IsMade
<1> QED BY <1>1, <1>2 DEF ArgumentInv

LEMMA AlterKeeps ==
  ASSUME ArgumentInv, argument.phase = "claimed", NEW part \in Parts, Alter(part)
  PROVE  ArgumentInv'
<1>1. PICK claim \in Claims, altered \in Parts \cup {"nothing"} :
        argument = [phase |-> "claimed", claim |-> claim, altered |-> altered]
  BY DEF ArgumentInv, NoArgument
<1>2. IsTrue(claim) /\ argument' = [phase |-> "claimed", claim |-> claim, altered |-> part]
  BY <1>1 DEF Alter
<1>3. IsMade(claim, part)
  BY <1>2 DEF IsMade
<1> QED BY <1>2, <1>3 DEF ArgumentInv

LEMMA CheckKeeps ==
  ASSUME ArgumentInv, CheckIdentities
  PROVE  ArgumentInv'
<1>1. PICK claim \in Claims, altered \in Parts \cup {"nothing"} :
        /\ IsMade(claim, altered)
        /\ argument = [phase |-> "claimed", claim |-> claim, altered |-> altered]
  BY DEF ArgumentInv, NoArgument, CheckIdentities
<1>2. argument.claim = claim /\ argument.altered = altered
  BY <1>1
<1> DEFINE given(r) == [part \in Parts |->
               (HintsSignature(claim, r)[part] + IF part = altered THEN 1 ELSE 0) % P]
<1>3. argument' = [phase |-> "checked", claim |-> claim, altered |-> altered,
                   accepted |-> {r \in Challenges :
                                   identities_hold(HintsVk(claim.verifier), given(r), r)}]
  BY <1>2 DEF CheckIdentities
<1>4. \A r : given(r) = Given(claim, altered, r)
  BY DEF Given, Added
<1>5. \A r : identities_hold(HintsVk(claim.verifier), given(r), r) <=> Accepts(claim, altered, r)
  BY <1>4 DEF Accepts
<1> HIDE DEF given
<1>6. {r \in Challenges : identities_hold(HintsVk(claim.verifier), given(r), r)}
        = {r \in Challenges : Accepts(claim, altered, r)}
  BY <1>5
<1> QED BY <1>1, <1>3, <1>6 DEF ArgumentInv

LEMMA HintsStep ==
  ASSUME ArgumentInv, [HintsNext]_argument
  PROVE  ArgumentInv'
<1>1. CASE UNCHANGED argument
  BY <1>1 DEF ArgumentInv
<1>2. ASSUME NEW claim \in Claims, Claim(claim) PROVE ArgumentInv'
  BY <1>2, ClaimKeeps
<1>3. ASSUME argument.phase = "claimed", NEW part \in Parts, Alter(part) PROVE ArgumentInv'
  BY <1>3, AlterKeeps
<1>4. CASE CheckIdentities
  BY <1>4, CheckKeeps
<1> QED BY <1>1, <1>2, <1>3, <1>4 DEF HintsNext

LEMMA ArgumentIsDecided ==
  ASSUME ArgumentInv
  PROVE  IdentitiesDecideTheClaim
<1> SUFFICES ASSUME argument.phase = "checked"
             PROVE  IF ~ IsTrue(argument.claim) THEN Cardinality(argument.accepted) < Parties
                    ELSE argument.accepted = IF argument.altered = "nothing" THEN Challenges ELSE {}
  BY DEF IdentitiesDecideTheClaim
<1>1. PICK claim \in Claims, altered \in Parts \cup {"nothing"} :
        /\ IsMade(claim, altered)
        /\ argument = [phase |-> "checked", claim |-> claim, altered |-> altered,
                       accepted |-> {r \in Challenges : Accepts(claim, altered, r)}]
  BY DEF ArgumentInv, NoArgument
<1> DEFINE Z == {r \in Challenges : Accepts(claim, altered, r)}
<1>2. argument.claim = claim /\ argument.altered = altered /\ argument.accepted = Z
  BY <1>1
<1>3. CASE ~ IsTrue(claim)
  <2>1. altered = "nothing"
    BY <1>1, <1>3 DEF IsMade
  <2>2. Z \subseteq Challenges /\ \A r \in Z : Accepts(claim, "nothing", r)
    BY <2>1
  <2> HIDE DEF Z
  <2>3. Cardinality(Z) < Parties
    BY <1>3, <2>2, FalseIsRefused
  <2> QED BY <1>2, <1>3, <2>3
<1>4. CASE IsTrue(claim) /\ altered = "nothing"
  <2>1. Z = Challenges
    BY <1>4, TrueIsAccepted
  <2> QED BY <1>2, <1>4, <2>1
<1>5. CASE IsTrue(claim) /\ altered # "nothing"
  <2>1. Z = {}
    BY <1>5, AlteredIsRefused
  <2> QED BY <1>2, <1>5, <2>1
<1> QED BY <1>3, <1>4, <1>5

(* The nine identities of verify_hints, with the challenge its openings    *)
(* are taken at, accept a true claim wherever the challenge falls, none of *)
(* its 22 parts altered, and a false claim at fewer challenges than the    *)
(* committee has seats (hints.rs:369-491).                                 *)
THEOREM IdentitiesDecideForever == HintsSpec => []IdentitiesDecideTheClaim
<1>1. HintsInit => ArgumentInv
  BY DEF HintsInit, ArgumentInv
<1>2. ArgumentInv /\ [HintsNext]_argument => ArgumentInv'
  BY HintsStep
<1>3. ArgumentInv => IdentitiesDecideTheClaim
  BY ArgumentIsDecided
<1> QED BY <1>1, <1>2, <1>3, PTL DEF HintsSpec

----------------------------------------------------------------------------
(* What is proved of the verdict and of the arithmetic holds of them side  *)
(* by side: they share no state (verify_hints, hints.rs:369-491, is a      *)
(* function of its arguments).                                             *)
LEMMA EachIsItsOwn == VerdictsSpec => Spec /\ HintsSpec
<1>1. VerdictsInit => Init /\ HintsInit
  BY DEF VerdictsInit
<1>2. [VerdictsNext]_<<vars, argument>> => [Next]_vars /\ [HintsNext]_argument
  BY DEF VerdictsNext, Judge, CheckArgument
<1> QED BY <1>1, <1>2, PTL DEF VerdictsSpec, Spec, HintsSpec

(* So a verdict is anchored, a genuine block verifies, chain-info answers  *)
(* for every file, and the identities that the hinTS check rests on decide *)
(* the claim (material.rs:252-268, mod.rs:93-138, cli/mod.rs:174-219,      *)
(* hints.rs:369-491).                                                      *)
THEOREM VerdictsSafe ==
  VerdictsSpec => [](/\ TypeOK /\ ValidIsAnchored /\ GenuineVerifies
                     /\ InfoIsEveryHints /\ IdentitiesDecideTheClaim)
BY EachIsItsOwn, TypeCorrect, AnchoredForever, GenuineForever, InfoForever, IdentitiesDecideForever, PTL
=============================================================================
