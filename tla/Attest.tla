------------------------------- MODULE Attest -------------------------------
(***************************************************************************)
(* Signatures over one record file (src/record/verify.rs). The attest      *)
(* command (src/cli/attest.rs) pages the address book from the mirror,     *)
(* fetches each node's signature file, verifies each over the hash         *)
(* computed here, and calls the file attested at a third of the book. A    *)
(* caller of the library gives verify_record_file a book and files of its  *)
(* own, and the verify command checks one file of one node. The mirror,    *)
(* the bucket and the nodes' keys are external: each call may fail, and    *)
(* what the mirror says of a node may change from page to page.            *)
(***************************************************************************)
EXTENDS Naturals, Sequences, FiniteSets, SequencesExt

CONSTANTS
  Nodes,     \* account ids, in the order of the book's keys
  Keys,      \* RSA keys
  NoKey,     \* a null or missing public_key
  BadKey,    \* a key that is not hex DER
  Files,     \* signature files
  None,      \* no file
  Pages,     \* pages of the mirror: nodes to keys
  BookFiles, \* address-book files: sequences of Entry
  Given,     \* signatures a caller of the library may give
  NoAccount, \* an id that is missing or is not an account number
  MaxPages   \* bound: pages of the address book

(* Hashes of this record file and of another one.                          *)
Hashes == {"this", "other"}

(* A signature file: whether it parses (parse_signature_file), the hash it *)
(* claims the record file has, the one its signature is really over, and   *)
(* the key that made the signature.                                        *)
SignatureFile == [parses : BOOLEAN, claim : Hashes, over : Hashes, by : Keys \ {BadKey}]

NodeSignature == [node : Nodes, file : Files]

(* One node of a NodeAddressBook file.                                     *)
Entry == [id : Nodes \cup {NoAccount}, key : Keys \cup {NoKey}]

ASSUME AttestConstants ==
  /\ Nodes \subseteq Nat /\ IsFiniteSet(Nodes) /\ 0 \notin Nodes
  /\ BadKey \in Keys /\ NoKey \notin Keys
  /\ Files \subseteq SignatureFile /\ None \notin Files /\ NoAccount \notin Nodes
  /\ Pages \subseteq UNION {[S -> Keys \cup {NoKey}] : S \in SUBSET Nodes}
  /\ BookFiles \subseteq Seq(Entry) /\ Given \subseteq Seq(NodeSignature)
  /\ MaxPages \in Nat \ {0}

VARIABLES
  command,     \* "attest", or "call" for a caller of verify_record_file
  phase,       \* "book", "fetch", "verify", "done"
  page,        \* pages read
  book,        \* the address book: node to key
  todo,        \* nodes whose signature file is still to fetch
  signatures,  \* the signature files fetched, in order
  missing,     \* nodes that gave none
  at,          \* the next signature file to verify
  valid, invalid, unknown,
  exit,        \* "none", "attested", "unattested" or "error"
  single       \* what the verify command was given and how it ended

report == <<valid, invalid, unknown>>
vars == <<command, phase, page, book, todo, signatures, missing, at, report, exit, single>>

NotRun == [node |-> 0, key |-> NoKey, file |-> None, exit |-> "none"]

Init ==
  /\ command = "attest" /\ phase = "book" /\ page = 0 /\ book = << >>
  /\ todo = {} /\ signatures = << >> /\ missing = << >>
  /\ at = 1 /\ valid = << >> /\ invalid = << >> /\ unknown = << >>
  /\ exit = "none" /\ single = NotRun

(* The mirror's call, then token(), then record_file_hash: where a failed  *)
(* call ends the run.                                                      *)
Fail ==
  /\ \/ phase = "book"
     \/ phase = "fetch" /\ (todo = DOMAIN book \/ todo = {})
  /\ phase' = "done" /\ exit' = "error"
  /\ UNCHANGED <<command, page, book, todo, signatures, missing, at, report, single>>

(* Broken variant: a node with no key is in the book.                      *)
WithKeyless(entries) ==
  [n \in DOMAIN book \cup DOMAIN entries |-> IF n \in DOMAIN entries THEN entries[n] ELSE book[n]]

(* A node with no key is left out; a node seen again is overwritten.       *)
Inserted(entries) ==
  LET keyed == {n \in DOMAIN entries : entries[n] # NoKey}
  IN  [n \in DOMAIN book \cup keyed |-> IF n \in keyed THEN entries[n] ELSE book[n]]

(* One page of the mirror; next is its link to another.                    *)
ReadPage(entries, next) ==
  /\ phase = "book" /\ (next => page + 1 < MaxPages)
  /\ page' = page + 1
  /\ book' = Inserted(entries)
  /\ IF next THEN UNCHANGED <<phase, todo>>
             ELSE phase' = "fetch" /\ todo' = DOMAIN book'
  /\ UNCHANGED <<command, signatures, missing, at, report, exit, single>>

(* The nodes of the file that have an account number and a key; one that   *)
(* is there twice has the later key.                                       *)
parse_address_book(entries) ==
  LET keyed == {i \in DOMAIN entries : entries[i].id # NoAccount /\ entries[i].key # NoKey}
      last(n) == CHOOSE i \in keyed :
                   entries[i].id = n /\ \A j \in keyed : entries[j].id = n => j <= i
  IN  [n \in {entries[i].id : i \in keyed} |-> entries[last(n)].key]

(* verify_record_file called with a book and signatures of the caller's.   *)
Call(entries, sigs) ==
  /\ phase = "book" /\ page = 0
  /\ command' = "call" /\ phase' = "fetch"
  /\ book' = parse_address_book(entries) /\ signatures' = sigs
  /\ UNCHANGED <<page, todo, missing, at, report, exit, single>>

(* fetch_sig for the next key of the book; every error is a missing file.  *)
FetchSig(file) ==
  /\ phase = "fetch" /\ todo # {}
  /\ \E node \in todo :
       /\ \A n \in todo : node <= n
       /\ todo' = todo \ {node}
       /\ IF file = None
          THEN missing' = Append(missing, node) /\ UNCHANGED signatures
          ELSE signatures' = Append(signatures, [node |-> node, file |-> file]) /\ UNCHANGED missing
  /\ UNCHANGED <<command, phase, page, book, at, report, exit, single>>

(* record_file_hash, the first thing verify_record_file does.              *)
HashFile ==
  /\ phase = "fetch" /\ todo = {}
  /\ phase' = "verify"
  /\ UNCHANGED <<command, page, book, todo, signatures, missing, at, report, exit, single>>

(* A key that does not decode is an error, and made no signature.          *)
verify_node_signature(hash, file, key) == file.over = hash /\ file.by = key

(* Broken variant: a file that does not parse is passed over.              *)
SkipUnparsed ==
  /\ phase = "verify" /\ at <= Len(signatures)
  /\ LET sig == signatures[at]
         ok  == sig.node \in DOMAIN book /\ sig.file.parses /\ verify_node_signature("this", sig.file, book[sig.node])
     IN  /\ valid' = IF ok THEN Append(valid, sig.node) ELSE valid
         /\ unknown' = IF sig.node \in DOMAIN book THEN unknown ELSE Append(unknown, sig.node)
         /\ invalid' = IF sig.node \in DOMAIN book /\ sig.file.parses /\ ~ ok
                     THEN Append(invalid, sig.node) ELSE invalid
  /\ at' = at + 1
  /\ UNCHANGED <<command, phase, page, book, todo, signatures, missing, exit, single>>

VerifyOne ==
  /\ phase = "verify" /\ at <= Len(signatures)
  /\ LET sig   == signatures[at]
         known == sig.node \in DOMAIN book
         ok    == known /\ sig.file.parses /\ verify_node_signature("this", sig.file, book[sig.node])
     IN  /\ unknown' = IF known THEN unknown ELSE Append(unknown, sig.node)
         /\ valid' = IF ok THEN Append(valid, sig.node) ELSE valid
         /\ invalid' = IF known /\ ~ ok THEN Append(invalid, sig.node) ELSE invalid
  /\ at' = at + 1
  /\ UNCHANGED <<command, phase, page, book, todo, signatures, missing, exit, single>>

(* Broken variant: a third of the files that were there to be checked.     *)
ThirdOfFetched == signatures # << >> /\ Len(valid) * 3 >= Len(signatures)

attested ==
  LET node_count == Cardinality(DOMAIN book)
  IN  node_count > 0 /\ Len(valid) * 3 >= node_count

Report ==
  /\ phase = "verify" /\ at > Len(signatures)
  /\ phase' = "done"
  /\ exit' = IF attested THEN "attested" ELSE "unattested"
  /\ UNCHANGED <<command, page, book, todo, signatures, missing, at, report, single>>

(* Broken variant: the hash the file claims is the one that is checked.    *)
ClaimIsTheHash(file, key) ==
  IF key = NoKey THEN "invalid"
  ELSE IF ~ file.parses \/ key = BadKey THEN "error"
  ELSE IF verify_node_signature(file.claim, file, key) THEN "valid" ELSE "invalid"

(* cmd_verify of a record file: a node that is not in the book is reported *)
(* like an invalid signature; a file or a key that does not decode is an   *)
(* error. The hash the file claims is only printed.                        *)
VerifyExit(file, key) ==
  IF key = NoKey THEN "invalid"
  ELSE IF ~ file.parses \/ key = BadKey THEN "error"
  ELSE IF verify_node_signature("this", file, key) THEN "valid" ELSE "invalid"

(* The verify command, after the report: with --public-key, or with the    *)
(* key of --node in the file given as --address-book.                      *)
CmdVerify(node, key, file) ==
  /\ phase = "done" /\ single = NotRun
  /\ single' = [node |-> node, key |-> key, file |-> file, exit |-> VerifyExit(file, key)]
  /\ UNCHANGED <<command, phase, page, book, todo, signatures, missing, at, report, exit>>

KeyOf(node, entries) ==
  LET b == parse_address_book(entries)
  IN  IF node \in DOMAIN b THEN b[node] ELSE NoKey

Next ==
  \/ \E entries \in Pages, next \in BOOLEAN : ReadPage(entries, next)
  \/ \E entries \in BookFiles, sigs \in Given : Call(entries, sigs)
  \/ \E file \in Files \cup {None} : FetchSig(file)
  \/ HashFile \/ VerifyOne \/ Report \/ Fail
  \/ \E node \in Nodes, file \in Files :
       \/ \E key \in Keys : CmdVerify(node, key, file)
       \/ \E entries \in BookFiles : CmdVerify(node, KeyOf(node, entries), file)

Spec == Init /\ [][Next]_vars
----------------------------------------------------------------------------
Book == UNION {[S -> Keys] : S \in SUBSET Nodes}

TypeOK ==
  /\ command \in {"attest", "call"} /\ phase \in {"book", "fetch", "verify", "done"}
  /\ exit \in {"none", "attested", "unattested", "error"}
  /\ page \in 0 .. MaxPages /\ book \in Book
  /\ todo \subseteq DOMAIN book
  /\ signatures \in Seq(NodeSignature)
  /\ missing \in Seq(Nodes) /\ valid \in Seq(Nodes) /\ invalid \in Seq(Nodes)
  /\ unknown \in Seq(Nodes) /\ (command = "attest" => unknown = << >>)
  /\ at \in 1 .. Len(signatures) + 1
  /\ \/ single = NotRun
     \/ single \in [node : Nodes, key : Keys \cup {NoKey}, file : Files,
                    exit : {"valid", "invalid", "error"}]

Reported == exit \in {"attested", "unattested"}

GivenNodes == {s.node : s \in ToSet(signatures)}

(* The nodes of the book whose own key, as the book has it, signed exactly *)
(* this file.                                                              *)
Signers ==
  {n \in DOMAIN book :
     \E s \in ToSet(signatures) :
       s.node = n /\ s.file.parses /\ s.file.over = "this" /\ s.file.by = book[n]}

OneFileEach == \A i, j \in DOMAIN signatures : signatures[i].node = signatures[j].node => i = j

(* A file is reported attested exactly if at least a third of all nodes of *)
(* the book, those that gave no file included, and at least one, signed it *)
(* (verify.rs:232-234 and attest.rs:133-134): no node counts twice, none   *)
(* is left out of the third, and a node outside the book adds nothing. A   *)
(* caller of the library is held to one file of each node; the command     *)
(* fetches one.                                                            *)
AttestedIsAThird ==
  Reported /\ (command = "attest" \/ OneFileEach) =>
    (exit = "attested" <=> DOMAIN book # {} /\ 3 * Cardinality(Signers) >= Cardinality(DOMAIN book))

(* The report accounts for every file once, as valid, invalid or of a node *)
(* that is not in the book; what the command reports, with the nodes whose *)
(* file is missing, is the whole book with every node in it once.          *)
EveryNodeOnce ==
  Reported =>
    /\ Len(valid) + Len(invalid) + Len(unknown) = Len(signatures)
    /\ ToSet(valid) \cup ToSet(invalid) = GivenNodes \cap DOMAIN book
    /\ ToSet(unknown) = GivenNodes \ DOMAIN book
    /\ command = "attest" =>
         LET all == valid \o invalid \o missing
         IN  IsInjective(all) /\ ToSet(all) = DOMAIN book

(* Two commands, one verdict: the verify command, given a node's file and  *)
(* the key the report had for it, calls the signature valid exactly if the *)
(* report does (cli/mod.rs:119-122 and verify.rs:252-259).                 *)
VerifyAgreesWithReport ==
  LET same == /\ [node |-> single.node, file |-> single.file] \in ToSet(signatures)
              /\ single.node \in DOMAIN book /\ single.key = book[single.node]
  IN  Reported /\ OneFileEach /\ single.exit # "none" /\ same =>
        (single.exit = "valid" <=> single.node \in ToSet(valid))
=============================================================================
