---------------------------- MODULE AttestProofs ----------------------------
(***************************************************************************)
(* Theorems about attestation, for books of any size, files and keys of    *)
(* any kind, and any number of pages: the report counts every node once,   *)
(* and a file is attested exactly at a third of the book.                  *)
(***************************************************************************)
EXTENDS Attest, FiniteSetTheorems, SequenceTheorems, NaturalsInduction,
        WellFoundedInduction, TLAPS

(* Appending to a sequence adds to what is in it.                          *)
LEMMA AppendToSet ==
  ASSUME NEW S, NEW s \in Seq(S), NEW x \in S
  PROVE  /\ Append(s, x) \in Seq(S) /\ Len(Append(s, x)) = Len(s) + 1
         /\ ToSet(Append(s, x)) = ToSet(s) \cup {x}
<1>1. /\ Append(s, x) \in Seq(S) /\ Len(Append(s, x)) = Len(s) + 1 /\ Len(s) \in Nat
      /\ \A i \in 1 .. Len(s) : Append(s, x)[i] = s[i]
      /\ Append(s, x)[Len(s) + 1] = x
      /\ DOMAIN s = 1 .. Len(s) /\ DOMAIN Append(s, x) = 1 .. Len(s) + 1
  BY LenProperties
<1>2. ToSet(s) \cup {x} \subseteq ToSet(Append(s, x))
  BY <1>1 DEF ToSet
<1>3. ToSet(Append(s, x)) \subseteq ToSet(s) \cup {x}
  <2> SUFFICES ASSUME NEW i \in 1 .. Len(s) + 1
               PROVE  Append(s, x)[i] \in ToSet(s) \cup {x}
    BY <1>1 DEF ToSet
  <2>1. CASE i = Len(s) + 1
    BY <1>1, <2>1
  <2>2. CASE i \in 1 .. Len(s)
    BY <1>1, <2>2 DEF ToSet
  <2> QED BY <1>1, <2>1, <2>2
<1> QED BY <1>1, <1>2, <1>3

(* What is new can be appended without a repetition.                       *)
LEMMA AppendNew ==
  ASSUME NEW S, NEW s \in Seq(S), NEW x \in S, IsInjective(s), x \notin ToSet(s)
  PROVE  IsInjective(Append(s, x))
<1>1. /\ Len(Append(s, x)) = Len(s) + 1 /\ Len(s) \in Nat
      /\ \A i \in 1 .. Len(s) : Append(s, x)[i] = s[i]
      /\ Append(s, x)[Len(s) + 1] = x
      /\ DOMAIN s = 1 .. Len(s) /\ DOMAIN Append(s, x) = 1 .. Len(s) + 1
  BY LenProperties
<1>2. \A i \in 1 .. Len(s) : s[i] # x
  BY <1>1 DEF ToSet
<1> SUFFICES ASSUME NEW i \in 1 .. Len(s) + 1, NEW j \in 1 .. Len(s) + 1,
                    Append(s, x)[i] = Append(s, x)[j]
             PROVE  i = j
  BY <1>1 DEF IsInjective
<1>3. CASE i \in 1 .. Len(s) /\ j \in 1 .. Len(s)
  BY <1>1, <1>3 DEF IsInjective
<1>4. CASE i = Len(s) + 1 \/ j = Len(s) + 1
  BY <1>1, <1>2, <1>4
<1> QED BY <1>1, <1>3, <1>4

(* Two sequences one behind the other hold what either of them holds, and  *)
(* no repetition if neither has one and they share nothing.                *)
LEMMA ConcatToSet ==
  ASSUME NEW S, NEW s \in Seq(S), NEW t \in Seq(S)
  PROVE  /\ s \o t \in Seq(S)
         /\ ToSet(s \o t) = ToSet(s) \cup ToSet(t)
         /\ IsInjective(s) /\ IsInjective(t) /\ ToSet(s) \cap ToSet(t) = {}
              => IsInjective(s \o t)
<1> DEFINE m == Len(s)  n == Len(t)  u == s \o t
<1>1. /\ u \in Seq(S) /\ Len(u) = m + n
      /\ \A i \in 1 .. m + n : u[i] = IF i <= m THEN s[i] ELSE t[i - m]
  BY ConcatProperties
<1>2. m \in Nat /\ n \in Nat /\ DOMAIN s = 1 .. m /\ DOMAIN t = 1 .. n /\ DOMAIN u = 1 .. m + n
  BY <1>1, LenProperties
<1> HIDE DEF m, n, u
<1>3. \A i \in 1 .. m : i \in 1 .. m + n /\ u[i] = s[i]
  BY <1>1, <1>2
<1>4. \A j \in 1 .. n : m + j \in 1 .. m + n /\ u[m + j] = t[j]
  <2> SUFFICES ASSUME NEW j \in 1 .. n PROVE m + j \in 1 .. m + n /\ u[m + j] = t[j]
    OBVIOUS
  <2>1. m + j \in 1 .. m + n /\ ~ (m + j <= m) /\ (m + j) - m = j
    BY <1>2
  <2> QED BY <1>1, <2>1
<1>5. \A i \in 1 .. m + n : i \in 1 .. m \/ \E j \in 1 .. n : i = m + j
  <2> SUFFICES ASSUME NEW i \in 1 .. m + n, i \notin 1 .. m PROVE \E j \in 1 .. n : i = m + j
    OBVIOUS
  <2>1. i - m \in 1 .. n /\ i = m + (i - m)
    BY <1>2
  <2> QED BY <2>1
<1>6. ToSet(s) \cup ToSet(t) \subseteq ToSet(u)
  BY <1>2, <1>3, <1>4 DEF ToSet
<1>7. ToSet(u) \subseteq ToSet(s) \cup ToSet(t)
  <2> SUFFICES ASSUME NEW i \in 1 .. m + n PROVE u[i] \in ToSet(s) \cup ToSet(t)
    BY <1>2 DEF ToSet
  <2>1. CASE i \in 1 .. m
    BY <1>2, <1>3, <2>1 DEF ToSet
  <2>2. CASE \E j \in 1 .. n : i = m + j
    BY <1>2, <1>4, <2>2 DEF ToSet
  <2> QED BY <1>5, <2>1, <2>2
<1>8. ASSUME IsInjective(s), IsInjective(t), ToSet(s) \cap ToSet(t) = {}
      PROVE  IsInjective(u)
  <2>1. \A i \in 1 .. m, j \in 1 .. n : s[i] # t[j]
    BY <1>2, <1>8 DEF ToSet
  <2> SUFFICES ASSUME NEW i \in 1 .. m + n, NEW j \in 1 .. m + n, u[i] = u[j] PROVE i = j
    BY <1>2 DEF IsInjective
  <2>2. CASE i \in 1 .. m /\ j \in 1 .. m
    BY <1>2, <1>3, <1>8, <2>2 DEF IsInjective
  <2>3. CASE i \in 1 .. m /\ j \notin 1 .. m
    BY <1>3, <1>4, <1>5, <2>1, <2>3
  <2>4. CASE i \notin 1 .. m /\ j \in 1 .. m
    BY <1>3, <1>4, <1>5, <2>1, <2>4
  <2>5. CASE i \notin 1 .. m /\ j \notin 1 .. m
    <3>1. PICK a \in 1 .. n, b \in 1 .. n : i = m + a /\ j = m + b
      BY <1>5, <2>5
    <3>2. t[a] = t[b]
      BY <1>4, <3>1
    <3> QED BY <1>2, <1>8, <3>1, <3>2 DEF IsInjective
  <2> QED BY <2>2, <2>3, <2>4, <2>5
<1> QED BY <1>1, <1>6, <1>7, <1>8 DEF u

(* A sequence without repetitions is as long as the set of what it holds.  *)
LEMMA LenIsCardinality ==
  ASSUME NEW S, NEW s \in Seq(S), IsInjective(s)
  PROVE  Cardinality(ToSet(s)) = Len(s)
<1>1. Len(s) \in Nat /\ s \in [1 .. Len(s) -> S] /\ DOMAIN s = 1 .. Len(s)
  BY LenProperties
<1>2. s \in [1 .. Len(s) -> ToSet(s)]
  BY <1>1 DEF ToSet
<1>3. s \in Injection(1 .. Len(s), ToSet(s)) /\ s \in Surjection(1 .. Len(s), ToSet(s))
  BY <1>1, <1>2 DEF Injection, Surjection, ToSet
<1>4. ExistsBijection(1 .. Len(s), ToSet(s))
  BY <1>3 DEF ExistsBijection, Bijection
<1> QED BY <1>1, <1>4, FS_CountingElements

----------------------------------------------------------------------------
(* The signature file at i is of a node of the book, and that node's.      *)
Known(i) == signatures[i].node \in DOMAIN book
Good(i)  ==
  /\ Known(i) /\ signatures[i].file.parses
  /\ verify_node_signature("this", signatures[i].file, book[signatures[i].node])

Passed    == {i \in 1 .. at - 1 : Good(i)}
Refused   == {i \in 1 .. at - 1 : Known(i) /\ ~ Good(i)}
Strangers == {i \in 1 .. at - 1 : ~ Known(i)}

NodesAt(I) == {signatures[i].node : i \in I}

(* What each phase has left behind or not begun.                           *)
Phases ==
  /\ phase = "book" =>
       /\ command = "attest" /\ page < MaxPages
       /\ todo = {} /\ signatures = << >> /\ missing = << >>
  /\ phase \in {"book", "fetch"} =>
       at = 1 /\ valid = << >> /\ invalid = << >> /\ unknown = << >> /\ exit = "none"
  /\ phase = "verify" => exit = "none" /\ todo = {}
  /\ Reported => phase = "done" /\ todo = {} /\ at = Len(signatures) + 1

(* The command has asked every node of the book that is not still to do,   *)
(* once, for its file.                                                     *)
Fetching ==
  command = "attest" =>
    /\ OneFileEach /\ IsInjective(missing)
    /\ GivenNodes \cap ToSet(missing) = {}
    /\ GivenNodes \cap todo = {} /\ ToSet(missing) \cap todo = {}
    /\ phase # "book" /\ exit # "error" =>
         DOMAIN book = GivenNodes \cup ToSet(missing) \cup todo

(* The three lists sort the files looked at so far.                        *)
Tally ==
  /\ ToSet(valid) = NodesAt(Passed) /\ ToSet(invalid) = NodesAt(Refused)
  /\ ToSet(unknown) = NodesAt(Strangers)
  /\ Len(valid) + Len(invalid) + Len(unknown) = at - 1
  /\ OneFileEach => IsInjective(valid) /\ IsInjective(invalid)

(* What has been said follows from what was found.                         *)
Verdict ==
  /\ Reported => (exit = "attested" <=> attested)
  /\ single = NotRun \/ single.exit = VerifyExit(single.file, single.key)

AttestInv == TypeOK /\ Phases /\ Fetching /\ Tally /\ Verdict

LEMMA EmptyLists ==
  /\ \A S : << >> \in Seq(S)
  /\ Len(<< >>) = 0 /\ ToSet(<< >>) = {} /\ IsInjective(<< >>) /\ DOMAIN << >> = {}
<1>1. << >> \in Seq({}) /\ Len(<< >>) = 0 /\ \A S : << >> \in Seq(S)
  BY EmptySeq
<1>2. DOMAIN << >> = {}
  BY <1>1, LenProperties
<1> QED BY <1>1, <1>2 DEF ToSet, IsInjective

LEMMA EmptyBook == << >> \in Book
<1>1. << >> \in [{} -> Keys]
  BY EmptyLists, LenProperties
<1> QED BY <1>1 DEF Book

LEMMA InitInv == Init => AttestInv
<1> SUFFICES ASSUME Init PROVE AttestInv
  OBVIOUS
<1>1. TypeOK
  BY AttestConstants, EmptyLists, EmptyBook DEF Init, TypeOK
<1>2. Phases
  BY AttestConstants DEF Init, Phases, Reported
<1>3. OneFileEach /\ GivenNodes = {} /\ DOMAIN signatures = {}
  BY EmptyLists DEF Init, OneFileEach, GivenNodes
<1>4. Fetching
  BY <1>3, EmptyLists DEF Init, Fetching
<1>5. Tally
  <2>1. 1 .. at - 1 = {}
    BY DEF Init
  <2>2. \A I : NodesAt({i \in {} : i \in I}) = {} /\ NodesAt({}) = {}
    BY DEF NodesAt
  <2> QED BY <2>1, EmptyLists DEF Init, Tally, NodesAt, Passed, Refused, Strangers
<1>6. Verdict
  BY DEF Init, Verdict, Reported
<1> QED BY <1>1, <1>2, <1>4, <1>5, <1>6 DEF AttestInv

(* Of the places of a sequence, any that are there have a last one.        *)
LEMMA FirstIndex ==
  ASSUME NEW S \in SUBSET Nat, S # {}
  PROVE  \E n \in S : \A m \in S : n <= m
<1> DEFINE R == OpToRel(<, Nat)
<1>1. IsWellFoundedOn(R, Nat)
  BY NatLessThanWellFounded
<1>2. PICK n \in S : \A m \in S : <<m, n>> \notin R
  <2> HIDE DEF R
  <2> QED BY <1>1, WFMin
<1>3. ASSUME NEW m \in S PROVE n <= m
  <2>1. <<m, n>> \in Nat \X Nat
    OBVIOUS
  <2>2. ~ (m < n)
    BY <1>2, <2>1 DEF OpToRel
  <2> QED BY <2>2
<1> QED BY <1>3

LEMMA LastIndex ==
  ASSUME NEW n \in Nat, NEW I, I \subseteq 1 .. n, I # {}
  PROVE  \E i \in I : \A j \in I : j <= i
<1> DEFINE B == {d \in 0 .. n : n - d \in I}
<1>1. ASSUME NEW i \in I PROVE n - i \in B /\ n - (n - i) = i
  <2>1. i \in 1 .. n
    OBVIOUS
  <2>2. n - i \in 0 .. n /\ n - (n - i) = i
    BY <2>1
  <2> QED BY <2>2
<1>2. B \in SUBSET Nat /\ B # {}
  <2>1. PICK i \in I : n - i \in B
    BY <1>1
  <2>2. B \subseteq Nat
    OBVIOUS
  <2> HIDE DEF B
  <2> QED BY <2>1, <2>2
<1>3. PICK d \in B : \A e \in B : d <= e
  <2> HIDE DEF B
  <2> QED BY <1>2, FirstIndex
<1>4. ASSUME NEW j \in I PROVE j <= n - d
  <2>1. d <= n - j
    BY <1>1, <1>3, <1>4
  <2> QED BY <1>2, <2>1
<1> QED BY <1>4

(* A book file gives a book: of nodes that have an account and a key.      *)
LEMMA BookOfFile ==
  ASSUME NEW entries \in BookFiles
  PROVE  parse_address_book(entries) \in Book
<1> DEFINE keyed == {i \in DOMAIN entries : entries[i].id # NoAccount /\ entries[i].key # NoKey}
           last(n) == CHOOSE i \in keyed :
                        entries[i].id = n /\ \A j \in keyed : entries[j].id = n => j <= i
           ids == {entries[i].id : i \in keyed}
<1>1. entries \in Seq(Entry)
  BY AttestConstants
<1>2. Len(entries) \in Nat /\ DOMAIN entries = 1 .. Len(entries)
      /\ \A i \in 1 .. Len(entries) : entries[i] \in Entry
  BY <1>1, LenProperties
<1>3. \A i \in keyed : entries[i].id \in Nodes /\ entries[i].key \in Keys
  BY <1>2 DEF Entry
<1>4. ASSUME NEW n \in ids PROVE last(n) \in keyed
  <2> DEFINE I == {i \in keyed : entries[i].id = n}
  <2>1. I \subseteq 1 .. Len(entries) /\ I # {}
    BY <1>2, <1>4
  <2>2. PICK i \in I : \A j \in I : j <= i
    <3> HIDE DEF I
    <3> QED BY <1>2, <2>1, LastIndex
  <2>3. \E k \in keyed : entries[k].id = n /\ \A j \in keyed : entries[j].id = n => j <= k
    BY <2>2
  <2> HIDE DEF keyed
  <2> QED BY <2>3
<1>5. parse_address_book(entries) = [n \in ids |-> entries[last(n)].key]
  BY DEF parse_address_book
<1> HIDE DEF keyed, last
<1>6. ids \in SUBSET Nodes /\ \A n \in ids : entries[last(n)].key \in Keys
  BY <1>3, <1>4
<1> HIDE DEF ids
<1>7. parse_address_book(entries) \in [ids -> Keys]
  BY <1>5, <1>6
<1> QED BY <1>6, <1>7 DEF Book

(* A page adds nodes with a key to the book.                               *)
LEMMA BookOfPage ==
  ASSUME book \in Book, NEW entries \in Pages
  PROVE  Inserted(entries) \in Book
<1>1. PICK S \in SUBSET Nodes : entries \in [S -> Keys \cup {NoKey}]
  BY AttestConstants
<1>2. PICK D \in SUBSET Nodes : book \in [D -> Keys]
  BY DEF Book
<1> DEFINE keyed == {n \in DOMAIN entries : entries[n] # NoKey}
<1>3. Inserted(entries)
        = [n \in D \cup keyed |-> IF n \in keyed THEN entries[n] ELSE book[n]]
  BY <1>2 DEF Inserted
<1>4. keyed \subseteq S /\ \A n \in keyed : entries[n] \in Keys
  BY <1>1
<1> HIDE DEF keyed
<1>5. Inserted(entries) \in [D \cup keyed -> Keys]
  BY <1>2, <1>3, <1>4
<1> QED BY <1>2, <1>4, <1>5 DEF Book

(* What only --verify or a failed call changes leaves the lists alone.     *)
LEMMA SameLists ==
  ASSUME AttestInv, UNCHANGED <<command, book, todo, signatures, missing, at, report>>,
         phase' # "book" /\ exit' # "error" => phase # "book" /\ exit # "error"
  PROVE  Fetching' /\ Tally'
<1>1. OneFileEach' = OneFileEach /\ GivenNodes' = GivenNodes
  BY DEF OneFileEach, GivenNodes
<1>2. valid' = valid /\ invalid' = invalid /\ unknown' = unknown
  BY DEF report
<1>3. \A i : Good(i)' = Good(i) /\ Known(i)' = Known(i)
  BY DEF Good, Known
<1>4. \A I : NodesAt(I)' = NodesAt(I)
  BY DEF NodesAt
<1>5. Tally'
  BY <1>1, <1>2, <1>3, <1>4 DEF AttestInv, Tally, NodesAt, Passed, Refused, Strangers
<1>6. Fetching'
  BY <1>1 DEF AttestInv, Fetching
<1> QED BY <1>5, <1>6

LEMMA VerdictKept ==
  ASSUME AttestInv, single' = single, exit' \in {"none", "error"}
  PROVE  Verdict'
<1>1. single = NotRun \/ single.exit = VerifyExit(single.file, single.key)
  BY DEF AttestInv, Verdict
<1>2. NotRun' = NotRun /\ VerifyExit(single.file, single.key)' = VerifyExit(single.file, single.key)
  BY DEF NotRun, VerifyExit, verify_node_signature
<1> QED BY <1>1, <1>2 DEF Verdict, Reported

LEMMA FailInv == AttestInv /\ Fail => AttestInv'
<1> SUFFICES ASSUME AttestInv, Fail PROVE AttestInv'
  OBVIOUS
<1>1. TypeOK'
  BY DEF AttestInv, TypeOK, Fail, report
<1>2. Phases'
  BY DEF Fail, Phases, Reported, AttestInv
<1>3. Fetching' /\ Tally'
  BY SameLists DEF Fail
<1>4. Verdict'
  BY VerdictKept DEF Fail, report
<1> QED BY <1>1, <1>2, <1>3, <1>4 DEF AttestInv

LEMMA CmdVerifyInv ==
  ASSUME AttestInv, NEW node \in Nodes, NEW key \in Keys \cup {NoKey}, NEW file \in Files,
         CmdVerify(node, key, file)
  PROVE  AttestInv'
<1>1. TypeOK'
  <2>1. VerifyExit(file, key) \in {"valid", "invalid", "error"}
    BY DEF VerifyExit
  <2>2. single' \in [node : Nodes, key : Keys \cup {NoKey}, file : Files,
                      exit : {"valid", "invalid", "error"}]
    BY <2>1 DEF CmdVerify
  <2> QED BY <2>2 DEF AttestInv, TypeOK, CmdVerify, report
<1>2. Phases'
  BY DEF CmdVerify, Phases, Reported, AttestInv, report
<1>3. Fetching' /\ Tally'
  BY SameLists DEF CmdVerify
<1>4. Verdict'
  BY DEF CmdVerify, AttestInv, Verdict, Reported, attested, VerifyExit, report,
            verify_node_signature
<1> QED BY <1>1, <1>2, <1>3, <1>4 DEF AttestInv

LEMMA HashFileInv == AttestInv /\ HashFile => AttestInv'
<1> SUFFICES ASSUME AttestInv, HashFile PROVE AttestInv'
  OBVIOUS
<1>1. TypeOK'
  BY DEF AttestInv, TypeOK, HashFile, report
<1>2. Phases'
  BY DEF HashFile, Phases, Reported, AttestInv, report
<1>3. Fetching' /\ Tally'
  BY SameLists DEF HashFile
<1>4. Verdict'
  BY VerdictKept DEF HashFile, AttestInv, Phases, report
<1> QED BY <1>1, <1>2, <1>3, <1>4 DEF AttestInv

LEMMA ReportInv == AttestInv /\ Report => AttestInv'
<1> SUFFICES ASSUME AttestInv, Report PROVE AttestInv'
  OBVIOUS
<1>1. TypeOK'
  BY DEF AttestInv, TypeOK, Report, report
<1>2. Phases'
  <2>1. at \in 1 .. Len(signatures) + 1 /\ Len(signatures) \in Nat
    BY LenProperties DEF AttestInv, TypeOK
  <2>2. at = Len(signatures) + 1
    BY <2>1 DEF Report
  <2> QED BY <2>2 DEF Report, Phases, Reported, AttestInv, report
<1>3. Fetching' /\ Tally'
  BY SameLists DEF Report, AttestInv, Phases
<1>4. Verdict'
  BY DEF Report, AttestInv, Verdict, Reported, attested, VerifyExit, report,
            verify_node_signature
<1> QED BY <1>1, <1>2, <1>3, <1>4 DEF AttestInv

(* A page changes the book while nobody has been asked for a file.         *)
LEMMA ReadPageInv ==
  ASSUME AttestInv, NEW entries \in Pages, NEW next \in BOOLEAN, ReadPage(entries, next)
  PROVE  AttestInv'
<1>0. /\ phase = "book" /\ command = "attest" /\ todo = {} /\ at = 1 /\ exit = "none"
      /\ signatures = << >> /\ missing = << >>
      /\ valid = << >> /\ invalid = << >> /\ unknown = << >>
  BY DEF AttestInv, Phases, ReadPage
<1>1. /\ signatures' = << >> /\ missing' = << >> /\ at' = 1 /\ exit' = "none"
      /\ valid' = << >> /\ invalid' = << >> /\ unknown' = << >>
      /\ command' = "attest" /\ single' = single
  BY <1>0 DEF ReadPage, report
<1>2. \/ phase' = "book" /\ todo' = {} /\ page' < MaxPages
      \/ phase' = "fetch" /\ todo' = DOMAIN book'
  BY <1>0 DEF ReadPage
<1>3. TypeOK'
  <2>1. book' \in Book
    BY BookOfPage DEF ReadPage, AttestInv, TypeOK
  <2>2. page' \in 0 .. MaxPages
    BY AttestConstants DEF ReadPage, AttestInv, TypeOK, Phases
  <2>3. single = NotRun \/ single \in [node : Nodes, key : Keys \cup {NoKey}, file : Files,
                                      exit : {"valid", "invalid", "error"}]
    BY DEF AttestInv, TypeOK
  <2>4. NotRun' = NotRun
    BY DEF NotRun
  <2>5. Book' = Book
    BY DEF Book
  <2> HIDE DEF Book
  <2>6. at' \in 1 .. Len(signatures') + 1
    BY <1>1, EmptyLists
  <2>7. signatures' \in Seq(NodeSignature) /\ missing' \in Seq(Nodes) /\ valid' \in Seq(Nodes)
        /\ invalid' \in Seq(Nodes) /\ unknown' \in Seq(Nodes)
    BY <1>1, EmptyLists
  <2> QED BY <1>1, <1>2, <2>1, <2>2, <2>3, <2>4, <2>6, <2>7 DEF TypeOK
<1>4. Phases'
  BY <1>1, <1>2 DEF Phases, Reported
<1>5. OneFileEach' /\ GivenNodes' = {}
  BY <1>1, EmptyLists DEF OneFileEach, GivenNodes
<1>6. Fetching'
  BY <1>1, <1>2, <1>5, EmptyLists DEF Fetching
<1>7. Tally'
  <2>1. at' - 1 = 0 /\ 1 .. at' - 1 = {}
    BY <1>1
  <2> QED BY <1>1, <2>1, EmptyLists DEF Tally, NodesAt, Passed, Refused, Strangers
<1>8. Verdict'
  BY <1>1, VerdictKept
<1> QED BY <1>3, <1>4, <1>6, <1>7, <1>8 DEF AttestInv

(* A caller's files are all there before the first is looked at.           *)
LEMMA CallInv ==
  ASSUME AttestInv, NEW entries \in BookFiles, NEW sigs \in Given, Call(entries, sigs)
  PROVE  AttestInv'
<1>0. /\ phase = "book" /\ todo = {} /\ at = 1 /\ exit = "none" /\ missing = << >>
      /\ valid = << >> /\ invalid = << >> /\ unknown = << >>
  BY DEF AttestInv, Phases, Call
<1>1. /\ missing' = << >> /\ at' = 1 /\ exit' = "none" /\ todo' = {} /\ phase' = "fetch"
      /\ valid' = << >> /\ invalid' = << >> /\ unknown' = << >>
      /\ command' = "call" /\ single' = single /\ page' = page /\ signatures' = sigs
  BY <1>0 DEF Call, report
<1>2. sigs \in Seq(NodeSignature) /\ Len(sigs) \in Nat
  BY AttestConstants, LenProperties
<1>3. TypeOK'
  <2>1. book' \in Book
    BY BookOfFile DEF Call
  <2>2. at' \in 1 .. Len(signatures') + 1
    BY <1>1, <1>2
  <2>3. missing' \in Seq(Nodes) /\ valid' \in Seq(Nodes)
        /\ invalid' \in Seq(Nodes) /\ unknown' \in Seq(Nodes)
    BY <1>1, EmptyLists
  <2> QED BY <1>1, <1>2, <2>1, <2>2, <2>3 DEF AttestInv, TypeOK
<1>4. Phases'
  BY <1>1 DEF Phases, Reported
<1>5. Fetching'
  BY <1>1 DEF Fetching
<1>6. Tally'
  <2>1. at' - 1 = 0 /\ 1 .. at' - 1 = {}
    BY <1>1
  <2> QED BY <1>1, <2>1, EmptyLists DEF Tally, NodesAt, Passed, Refused, Strangers
<1>7. Verdict'
  BY <1>1, VerdictKept
<1> QED BY <1>3, <1>4, <1>5, <1>6, <1>7 DEF AttestInv

(* The node that is asked moves from those to do to one of the two lists.  *)
LEMMA FetchSigInv ==
  ASSUME AttestInv, NEW file \in Files \cup {None}, FetchSig(file)
  PROVE  AttestInv'
<1>0. /\ phase = "fetch" /\ at = 1 /\ exit = "none" /\ todo \subseteq DOMAIN book
      /\ valid = << >> /\ invalid = << >> /\ unknown = << >>
      /\ signatures \in Seq(NodeSignature) /\ missing \in Seq(Nodes)
      /\ DOMAIN book \subseteq Nodes
  BY DEF AttestInv, TypeOK, Phases, FetchSig, Book
<1>1. PICK node \in todo :
        /\ todo' = todo \ {node}
        /\ IF file = None
           THEN missing' = Append(missing, node) /\ UNCHANGED signatures
           ELSE signatures' = Append(signatures, [node |-> node, file |-> file]) /\ UNCHANGED missing
  BY DEF FetchSig
<1>2. /\ at' = 1 /\ exit' = "none" /\ phase' = "fetch" /\ command' = command /\ single' = single
      /\ book' = book /\ page' = page
      /\ valid' = << >> /\ invalid' = << >> /\ unknown' = << >>
  BY <1>0 DEF FetchSig, report
<1> DEFINE sig == [node |-> node, file |-> file]
<1>3. node \in Nodes
  BY <1>0
<1>4. \/ /\ file = None /\ signatures' = signatures /\ missing' = Append(missing, node)
         /\ missing' \in Seq(Nodes) /\ ToSet(missing') = ToSet(missing) \cup {node}
      \/ /\ file \in Files /\ sig \in NodeSignature /\ missing' = missing
         /\ signatures' = Append(signatures, sig)
         /\ signatures' \in Seq(NodeSignature) /\ Len(signatures') = Len(signatures) + 1
         /\ ToSet(signatures') = ToSet(signatures) \cup {sig}
  <2>1. CASE file = None
    <3>1. Append(missing, node) \in Seq(Nodes) /\ ToSet(Append(missing, node)) = ToSet(missing) \cup {node}
      BY <1>0, <1>3, AppendToSet
    <3>2. signatures' = signatures /\ missing' = Append(missing, node)
      BY <1>1, <2>1
    <3> QED BY <2>1, <3>1, <3>2
  <2>2. CASE file # None
    <3>1. sig \in NodeSignature /\ file \in Files
      BY <1>3, <2>2 DEF NodeSignature
    <3> HIDE DEF sig
    <3>2. signatures' = Append(signatures, sig) /\ missing' = missing
      BY <1>1, <2>2 DEF sig
    <3> QED BY <1>0, <3>1, <3>2, AppendToSet
  <2> QED BY <2>1, <2>2
<1>5. TypeOK'
  <2>1. Len(signatures') \in Nat
    BY <1>0, <1>4, LenProperties
  <2>2. signatures' \in Seq(NodeSignature) /\ missing' \in Seq(Nodes)
    BY <1>0, <1>4
  <2>3. valid' \in Seq(Nodes) /\ invalid' \in Seq(Nodes) /\ unknown' \in Seq(Nodes)
    BY <1>2, EmptyLists
  <2>4. at' \in 1 .. Len(signatures') + 1
    BY <1>2, <2>1
  <2> QED BY <1>0, <1>1, <1>2, <2>2, <2>3, <2>4 DEF AttestInv, TypeOK
<1>6. Phases'
  BY <1>2 DEF Phases, Reported
<1>7. Tally'
  <2>1. at' - 1 = 0 /\ 1 .. at' - 1 = {}
    BY <1>2
  <2> QED BY <1>2, <2>1, EmptyLists DEF Tally, NodesAt, Passed, Refused, Strangers
<1>8. Fetching'
  <2> SUFFICES ASSUME command = "attest" PROVE Fetching'
    BY <1>2 DEF Fetching
  <2>1. /\ OneFileEach /\ IsInjective(missing)
        /\ GivenNodes \cap ToSet(missing) = {}
        /\ GivenNodes \cap todo = {} /\ ToSet(missing) \cap todo = {}
        /\ DOMAIN book = GivenNodes \cup ToSet(missing) \cup todo
    BY <1>0 DEF AttestInv, Fetching
  <2>2. CASE file = None
    <3>1. OneFileEach' /\ GivenNodes' = GivenNodes
      BY <1>0, <1>1, <2>1, <2>2 DEF OneFileEach, GivenNodes
    <3>2. missing' = Append(missing, node) /\ ToSet(missing') = ToSet(missing) \cup {node}
      BY <1>4, <2>2, AttestConstants
    <3>3. IsInjective(missing')
      BY <1>0, <1>3, <2>1, <3>2, AppendNew
    <3> QED BY <1>1, <1>2, <2>1, <3>1, <3>2, <3>3 DEF Fetching
  <2>3. CASE file # None
    <3>1. /\ signatures' = Append(signatures, sig) /\ missing' = missing
          /\ ToSet(signatures') = ToSet(signatures) \cup {sig}
      BY <1>1, <1>4, <2>3
    <3>2. GivenNodes' = GivenNodes \cup {node}
      BY <3>1 DEF GivenNodes
    <3>3. OneFileEach'
      <4>1. /\ Len(signatures) \in Nat /\ DOMAIN signatures = 1 .. Len(signatures)
            /\ DOMAIN signatures' = 1 .. Len(signatures) + 1
            /\ \A i \in 1 .. Len(signatures) : signatures'[i] = signatures[i]
            /\ signatures'[Len(signatures) + 1] = sig
        BY <1>0, <3>1, <1>4, <2>3, LenProperties
      <4>2. \A i \in 1 .. Len(signatures) : signatures[i].node # node
        BY <1>1, <2>1, <4>1 DEF GivenNodes, ToSet
      <4> SUFFICES ASSUME NEW i \in 1 .. Len(signatures) + 1, NEW j \in 1 .. Len(signatures) + 1,
                          signatures'[i].node = signatures'[j].node
                   PROVE  i = j
        BY <4>1 DEF OneFileEach
      <4>3. CASE i \in 1 .. Len(signatures) /\ j \in 1 .. Len(signatures)
        BY <2>1, <4>1, <4>3 DEF OneFileEach
      <4>4. CASE i = Len(signatures) + 1 \/ j = Len(signatures) + 1
        BY <4>1, <4>2, <4>4
      <4> QED BY <4>1, <4>3, <4>4
    <3> QED BY <1>1, <1>2, <2>1, <3>1, <3>2, <3>3 DEF Fetching
  <2> QED BY <2>2, <2>3
<1>9. Verdict'
  BY <1>2, VerdictKept
<1> QED BY <1>5, <1>6, <1>7, <1>8, <1>9 DEF AttestInv

(* The file looked at goes to exactly one list.                            *)
LEMMA VerifyOneInv == AttestInv /\ VerifyOne => AttestInv'
<1> SUFFICES ASSUME AttestInv, VerifyOne PROVE AttestInv'
  OBVIOUS
<1> DEFINE n == signatures[at].node
<1>0. /\ phase = "verify" /\ exit = "none" /\ todo = {} /\ at \in 1 .. Len(signatures)
      /\ signatures \in Seq(NodeSignature) /\ Len(signatures) \in Nat
      /\ DOMAIN signatures = 1 .. Len(signatures)
      /\ valid \in Seq(Nodes) /\ invalid \in Seq(Nodes) /\ unknown \in Seq(Nodes)
      /\ book \in Book /\ n \in Nodes
  <2>1. /\ phase = "verify" /\ exit = "none" /\ todo = {} /\ at \in 1 .. Len(signatures)
        /\ signatures \in Seq(NodeSignature) /\ Len(signatures) \in Nat
        /\ DOMAIN signatures = 1 .. Len(signatures)
    BY LenProperties DEF AttestInv, TypeOK, Phases, VerifyOne
  <2>2. signatures[at] \in NodeSignature
    BY <2>1, ElementOfSeq
  <2> QED BY <2>1, <2>2 DEF AttestInv, TypeOK, NodeSignature
<1>1. /\ valid' = IF Good(at) THEN Append(valid, n) ELSE valid
      /\ invalid' = IF Known(at) /\ ~ Good(at) THEN Append(invalid, n) ELSE invalid
      /\ unknown' = IF Known(at) THEN unknown ELSE Append(unknown, n)
  BY DEF VerifyOne, Good, Known
<1>2. /\ at' = at + 1 /\ command' = command /\ phase' = phase /\ page' = page /\ book' = book
      /\ todo' = todo /\ signatures' = signatures /\ missing' = missing /\ exit' = exit
      /\ single' = single
  BY DEF VerifyOne
<1>3. Good(at) => Known(at)
  BY DEF Good
<1>4. /\ valid' \in Seq(Nodes) /\ invalid' \in Seq(Nodes) /\ unknown' \in Seq(Nodes)
      /\ ToSet(valid') = IF Good(at) THEN ToSet(valid) \cup {n} ELSE ToSet(valid)
      /\ ToSet(invalid') = IF Known(at) /\ ~ Good(at) THEN ToSet(invalid) \cup {n} ELSE ToSet(invalid)
      /\ ToSet(unknown') = IF Known(at) THEN ToSet(unknown) ELSE ToSet(unknown) \cup {n}
      /\ Len(valid') = IF Good(at) THEN Len(valid) + 1 ELSE Len(valid)
      /\ Len(invalid') = IF Known(at) /\ ~ Good(at) THEN Len(invalid) + 1 ELSE Len(invalid)
      /\ Len(unknown') = IF Known(at) THEN Len(unknown) ELSE Len(unknown) + 1
  <2> HIDE DEF n
  <2>1. CASE Good(at)
    BY <1>0, <1>1, <1>3, <2>1, AppendToSet
  <2>2. CASE Known(at) /\ ~ Good(at)
    BY <1>0, <1>1, <2>2, AppendToSet
  <2>3. CASE ~ Known(at)
    BY <1>0, <1>1, <1>3, <2>3, AppendToSet
  <2> QED BY <2>1, <2>2, <2>3
<1>5. command = "attest" => Known(at)
  <2> SUFFICES ASSUME command = "attest" PROVE Known(at)
    OBVIOUS
  <2>1. DOMAIN book = GivenNodes \cup ToSet(missing) \cup todo
    BY <1>0 DEF AttestInv, Fetching
  <2>2. n \in GivenNodes
    BY <1>0 DEF GivenNodes, ToSet
  <2> QED BY <2>1, <2>2 DEF Known
<1>6. TypeOK'
  <2>1. at' \in 1 .. Len(signatures') + 1
    BY <1>0, <1>2
  <2>2. command' = "attest" => unknown' = << >>
    BY <1>1, <1>2, <1>5 DEF AttestInv, TypeOK
  <2> QED BY <1>2, <1>4, <2>1, <2>2 DEF AttestInv, TypeOK
<1>7. Phases'
  BY <1>0, <1>2 DEF Phases, Reported
<1>8. Fetching'
  <2>1. OneFileEach' = OneFileEach /\ GivenNodes' = GivenNodes
    BY <1>2 DEF OneFileEach, GivenNodes
  <2> QED BY <1>2, <2>1 DEF AttestInv, Fetching
<1>9. Tally'
  <2>1. \A i : (Good(i)' <=> Good(i)) /\ (Known(i)' <=> Known(i))
    BY <1>2 DEF Good, Known
  <2>2. (1 .. at - 1)' = (1 .. at - 1) \cup {at}
    BY <1>0, <1>2
  <2>3. /\ ToSet(valid) = NodesAt(Passed) /\ ToSet(invalid) = NodesAt(Refused)
        /\ ToSet(unknown) = NodesAt(Strangers)
        /\ Len(valid) + Len(invalid) + Len(unknown) = at - 1
        /\ OneFileEach => IsInjective(valid) /\ IsInjective(invalid)
    BY DEF AttestInv, Tally
  <2>4. Passed' = IF Good(at) THEN Passed \cup {at} ELSE Passed
    BY <2>1, <2>2 DEF Passed
  <2>5. Refused' = IF Known(at) /\ ~ Good(at) THEN Refused \cup {at} ELSE Refused
    BY <2>1, <2>2 DEF Refused
  <2>6. Strangers' = IF Known(at) THEN Strangers ELSE Strangers \cup {at}
    BY <2>1, <2>2 DEF Strangers
  <2>7. /\ ToSet(valid') = NodesAt(Passed)' /\ ToSet(invalid') = NodesAt(Refused)'
        /\ ToSet(unknown') = NodesAt(Strangers)'
    <3>1. NodesAt(Passed)' = NodesAt(IF Good(at) THEN Passed \cup {at} ELSE Passed)
      BY <1>2, <2>4 DEF NodesAt
    <3>2. NodesAt(Refused)' = NodesAt(IF Known(at) /\ ~ Good(at) THEN Refused \cup {at} ELSE Refused)
      BY <1>2, <2>5 DEF NodesAt
    <3>3. NodesAt(Strangers)' = NodesAt(IF Known(at) THEN Strangers ELSE Strangers \cup {at})
      BY <1>2, <2>6 DEF NodesAt
    <3>4. \A I : NodesAt(I \cup {at}) = NodesAt(I) \cup {n}
      BY DEF NodesAt
    <3> HIDE DEF n
    <3> QED BY <1>4, <2>3, <3>1, <3>2, <3>3, <3>4
  <2>8. Len(valid') + Len(invalid') + Len(unknown') = at' - 1
    <3>1. Len(valid) \in Nat /\ Len(invalid) \in Nat /\ Len(unknown) \in Nat
      BY <1>0, LenProperties
    <3>2. at \in Nat /\ at' = at + 1 /\ Len(valid) + Len(invalid) + Len(unknown) = at - 1
      BY <1>0, <1>2, <2>3
    <3> HIDE DEF n
    <3>3. CASE Good(at)
      <4>1. Len(valid') = Len(valid) + 1 /\ Len(invalid') = Len(invalid) /\ Len(unknown') = Len(unknown)
        BY <1>3, <1>4, <3>3
      <4> QED BY <3>1, <3>2, <4>1
    <3>4. CASE Known(at) /\ ~ Good(at)
      <4>1. Len(valid') = Len(valid) /\ Len(invalid') = Len(invalid) + 1 /\ Len(unknown') = Len(unknown)
        BY <1>4, <3>4
      <4> QED BY <3>1, <3>2, <4>1
    <3>5. CASE ~ Known(at)
      <4>1. Len(valid') = Len(valid) /\ Len(invalid') = Len(invalid) /\ Len(unknown') = Len(unknown) + 1
        BY <1>3, <1>4, <3>5
      <4> QED BY <3>1, <3>2, <4>1
    <3> QED BY <3>3, <3>4, <3>5
  <2>9. OneFileEach' => IsInjective(valid') /\ IsInjective(invalid')
    <3> SUFFICES ASSUME OneFileEach PROVE IsInjective(valid') /\ IsInjective(invalid')
      BY <1>2 DEF OneFileEach
    <3>1. \A i \in 1 .. at - 1 : signatures[i].node # n
      BY <1>0 DEF OneFileEach
    <3>2. n \notin ToSet(valid) /\ n \notin ToSet(invalid)
      BY <2>3, <3>1 DEF NodesAt, Passed, Refused
    <3> HIDE DEF n
    <3> QED BY <1>0, <1>1, <2>3, <3>2, AppendNew
  <2> QED BY <2>7, <2>8, <2>9 DEF Tally
<1>10. Verdict'
  BY <1>0, <1>2, VerdictKept
<1> QED BY <1>6, <1>7, <1>8, <1>9, <1>10 DEF AttestInv

(* AttestInv is inductive.                                                 *)
LEMMA AttestInvForever == Spec => []AttestInv
<1>1. AttestInv /\ [Next]_vars => AttestInv'
  <2> SUFFICES ASSUME AttestInv, [Next]_vars PROVE AttestInv'
    OBVIOUS
  <2>1. CASE \E entries \in Pages, next \in BOOLEAN : ReadPage(entries, next)
    BY <2>1, ReadPageInv
  <2>2. CASE \E entries \in BookFiles, sigs \in Given : Call(entries, sigs)
    BY <2>2, CallInv
  <2>3. CASE \E file \in Files \cup {None} : FetchSig(file)
    BY <2>3, FetchSigInv
  <2>4. CASE HashFile \/ VerifyOne \/ Report \/ Fail
    BY <2>4, HashFileInv, VerifyOneInv, ReportInv, FailInv
  <2>5. ASSUME NEW node \in Nodes, NEW file \in Files,
               \/ \E key \in Keys : CmdVerify(node, key, file)
               \/ \E entries \in BookFiles : CmdVerify(node, KeyOf(node, entries), file)
        PROVE  AttestInv'
    <3>1. ASSUME NEW entries \in BookFiles PROVE KeyOf(node, entries) \in Keys \cup {NoKey}
      <4>1. PICK S \in SUBSET Nodes : parse_address_book(entries) \in [S -> Keys]
        BY BookOfFile DEF Book
      <4> QED BY <4>1 DEF KeyOf
    <3>2. PICK key \in Keys \cup {NoKey} : CmdVerify(node, key, file)
      BY <2>5, <3>1
    <3> QED BY <3>2, CmdVerifyInv
  <2>6. CASE UNCHANGED vars
    <3>1. TypeOK' /\ Phases'
      BY <2>6 DEF vars, report, AttestInv, TypeOK, Phases, Reported
    <3>2. Fetching' /\ Tally'
      BY <2>6, SameLists DEF vars
    <3>3. Verdict'
      BY <2>6 DEF vars, report, AttestInv, Verdict, Reported, attested, VerifyExit,
                  verify_node_signature
    <3> QED BY <3>1, <3>2, <3>3 DEF AttestInv
  <2> QED BY <2>1, <2>2, <2>3, <2>4, <2>5, <2>6 DEF Next
<1> QED BY <1>1, InitInv, PTL DEF Spec

(* Every variable keeps its type; the report of the command never knows a  *)
(* node that is not in the book (attest.rs:110-118).                       *)
THEOREM TypeOKForever == Spec => []TypeOK
<1>1. AttestInv => TypeOK
  BY DEF AttestInv
<1> QED BY <1>1, AttestInvForever, PTL

(* When the report is made the lists have sorted all the files.            *)
LEMMA AllSorted ==
  ASSUME AttestInv, Reported
  PROVE  /\ ToSet(valid) = Signers
         /\ ToSet(valid) \cup ToSet(invalid) = GivenNodes \cap DOMAIN book
         /\ ToSet(unknown) = GivenNodes \ DOMAIN book
         /\ Len(valid) + Len(invalid) + Len(unknown) = Len(signatures)
         /\ OneFileEach => IsInjective(valid) /\ IsInjective(invalid)
                             /\ ToSet(valid) \cap ToSet(invalid) = {}
<1>1. /\ Len(signatures) \in Nat /\ DOMAIN signatures = 1 .. Len(signatures)
      /\ at = Len(signatures) + 1 /\ 1 .. at - 1 = DOMAIN signatures
  BY LenProperties DEF AttestInv, TypeOK, Phases
<1>2. /\ ToSet(valid) = NodesAt(Passed) /\ ToSet(invalid) = NodesAt(Refused)
      /\ ToSet(unknown) = NodesAt(Strangers)
      /\ Len(valid) + Len(invalid) + Len(unknown) = at - 1
      /\ OneFileEach => IsInjective(valid) /\ IsInjective(invalid)
  BY DEF AttestInv, Tally
<1>3. NodesAt(Passed) = Signers
  <2>1. Passed = {i \in DOMAIN signatures : Good(i)}
    BY <1>1 DEF Passed
  <2>2. ASSUME NEW i \in DOMAIN signatures, Good(i) PROVE signatures[i].node \in Signers
    BY <2>2 DEF Good, Known, Signers, ToSet, verify_node_signature
  <2>3. ASSUME NEW n \in Signers PROVE \E i \in DOMAIN signatures : Good(i) /\ n = signatures[i].node
    BY <2>3 DEF Good, Known, Signers, ToSet, verify_node_signature
  <2> QED BY <2>1, <2>2, <2>3 DEF NodesAt
<1>4. NodesAt(Passed) \cup NodesAt(Refused) = GivenNodes \cap DOMAIN book
  BY <1>1 DEF NodesAt, Passed, Refused, Good, Known, GivenNodes, ToSet
<1>5. NodesAt(Strangers) = GivenNodes \ DOMAIN book
  BY <1>1 DEF NodesAt, Strangers, Known, GivenNodes, ToSet
<1>6. OneFileEach => NodesAt(Passed) \cap NodesAt(Refused) = {}
  BY <1>1 DEF OneFileEach, NodesAt, Passed, Refused
<1>7. at - 1 = Len(signatures)
  BY <1>1
<1>8. Len(valid) + Len(invalid) + Len(unknown) = Len(signatures)
  BY <1>2, <1>7
<1> QED BY <1>2, <1>3, <1>4, <1>5, <1>6, <1>8, Zenon

(* A file is reported attested exactly if at least a third of the book     *)
(* signed it, for books of every size (verify.rs:264-267).                 *)
THEOREM AttestedForever == Spec => []AttestedIsAThird
<1>1. AttestInv => AttestedIsAThird
  <2> SUFFICES ASSUME AttestInv, Reported, command = "attest" \/ OneFileEach
               PROVE  exit = "attested" <=>
                        /\ DOMAIN book # {}
                        /\ 3 * Cardinality(Signers) >= Cardinality(DOMAIN book)
    BY DEF AttestedIsAThird
  <2>1. OneFileEach
    BY DEF AttestInv, Fetching
  <2>2. ToSet(valid) = Signers /\ IsInjective(valid) /\ valid \in Seq(Nodes)
    BY <2>1, AllSorted DEF AttestInv, TypeOK
  <2>3. Cardinality(Signers) = Len(valid) /\ Len(valid) \in Nat
    BY <2>2, LenIsCardinality, LenProperties
  <2>4. DOMAIN book \subseteq Nodes
    BY DEF AttestInv, TypeOK, Book
  <2>5. IsFiniteSet(DOMAIN book)
    BY <2>4, AttestConstants, FS_Subset
  <2>6. Cardinality(DOMAIN book) \in Nat /\ (Cardinality(DOMAIN book) > 0 <=> DOMAIN book # {})
    BY <2>5, FS_CardinalityType, FS_EmptySet
  <2>7. exit = "attested" <=> attested
    BY DEF AttestInv, Verdict
  <2>8. attested <=> Cardinality(DOMAIN book) > 0 /\ Len(valid) * 3 >= Cardinality(DOMAIN book)
    BY DEF attested
  <2> QED BY <2>3, <2>6, <2>7, <2>8
<1> QED BY <1>1, AttestInvForever, PTL

(* The report accounts for every file once, and the command's for every    *)
(* node of the book once (verify.rs:247-263, attest.rs:110-118).           *)
THEOREM EveryNodeOnceForever == Spec => []EveryNodeOnce
<1>1. AttestInv => EveryNodeOnce
  <2> SUFFICES ASSUME AttestInv, Reported, command = "attest"
               PROVE  LET all == valid \o invalid \o missing
                      IN  IsInjective(all) /\ ToSet(all) = DOMAIN book
    BY AllSorted DEF EveryNodeOnce
  <2>1. /\ OneFileEach /\ IsInjective(missing) /\ GivenNodes \cap ToSet(missing) = {}
        /\ DOMAIN book = GivenNodes \cup ToSet(missing)
    BY DEF AttestInv, Phases, Fetching, Reported
  <2>2. valid \in Seq(Nodes) /\ invalid \in Seq(Nodes) /\ missing \in Seq(Nodes)
    BY DEF AttestInv, TypeOK
  <2>3. /\ IsInjective(valid) /\ IsInjective(invalid) /\ ToSet(valid) \cap ToSet(invalid) = {}
        /\ ToSet(valid) \cup ToSet(invalid) = GivenNodes
    BY <2>1, AllSorted
  <2>4. /\ valid \o invalid \in Seq(Nodes) /\ IsInjective(valid \o invalid)
        /\ ToSet(valid \o invalid) = GivenNodes
    <3>1. /\ valid \o invalid \in Seq(Nodes)
          /\ ToSet(valid \o invalid) = ToSet(valid) \cup ToSet(invalid)
          /\ IsInjective(valid) /\ IsInjective(invalid) /\ ToSet(valid) \cap ToSet(invalid) = {}
               => IsInjective(valid \o invalid)
      BY <2>2, ConcatToSet
    <3> QED BY <2>3, <3>1
  <2>5. \A u \in Seq(Nodes) :
          ToSet(u) = GivenNodes /\ IsInjective(u)
            => IsInjective(u \o missing) /\ ToSet(u \o missing) = DOMAIN book
    BY <2>1, <2>2, ConcatToSet
  <2> QED BY <2>4, <2>5
<1> QED BY <1>1, AttestInvForever, PTL

(* The verify command and the report never disagree on a node's file       *)
(* (cli/mod.rs:119-122 and verify.rs:252-259).                             *)
THEOREM VerifyAgreesForever == Spec => []VerifyAgreesWithReport
<1>1. AttestInv => VerifyAgreesWithReport
  <2> SUFFICES ASSUME AttestInv, Reported, OneFileEach, single.exit # "none",
                      [node |-> single.node, file |-> single.file] \in ToSet(signatures),
                      single.node \in DOMAIN book, single.key = book[single.node]
               PROVE  single.exit = "valid" <=> single.node \in ToSet(valid)
    BY DEF VerifyAgreesWithReport
  <2>1. single.exit = VerifyExit(single.file, single.key)
    BY DEF AttestInv, Verdict, NotRun
  <2>2. PICK i \in DOMAIN signatures :
          signatures[i] = [node |-> single.node, file |-> single.file]
    BY DEF ToSet
  <2>3. signatures[i].node = single.node /\ signatures[i].file = single.file
    BY <2>2
  <2>4. single.key \in Keys /\ single.key # NoKey
    <3>1. PICK S \in SUBSET Nodes : book \in [S -> Keys]
      BY DEF AttestInv, TypeOK, Book
    <3> QED BY <3>1, AttestConstants
  <2>5. single.file \in Files /\ single.file.by # BadKey
    <3>1. single.file \in Files
      BY DEF AttestInv, TypeOK, NotRun
    <3> QED BY <3>1, AttestConstants DEF SignatureFile
  <2>6. single.exit = "valid" <=> /\ single.file.parses /\ single.file.over = "this"
                                  /\ single.file.by = book[single.node]
    BY <2>1, <2>4, <2>5 DEF VerifyExit, verify_node_signature
  <2>7. single.node \in Signers <=> /\ single.file.parses /\ single.file.over = "this"
                                     /\ single.file.by = book[single.node]
    <3>1. \A j \in DOMAIN signatures : signatures[j].node = single.node => j = i
      BY <2>3 DEF OneFileEach
    <3> QED BY <2>2, <2>3, <3>1 DEF Signers, ToSet
  <2> QED BY <2>6, <2>7, AllSorted
<1> QED BY <1>1, AttestInvForever, PTL
=============================================================================
