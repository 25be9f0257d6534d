--------------------------- MODULE RecordEtlProofs --------------------------
(***************************************************************************)
(* What a record-era run writes is one chain, and the file its error names *)
(* is the first that fails, for every directory, every number of threads   *)
(* and every interleaving of them.                                         *)
(***************************************************************************)
EXTENDS RecordEtl, ChunkedParseProofs, SequenceTheorems

(* The run                                                                 *)

AllOk(f, n) == \A i \in 1 .. n : f[i].ok

IsChain(f, v, n) == v => \A i \in 2 .. n : Follows(f[i - 1], f[i])

BoundaryAt(f, v, n) == IF v /\ n > 0 THEN f[n] ELSE None

NamesFirst(f, o) ==
  /\ o.how = "parse" => ~ f[o.file].ok /\ AllOk(f, o.file - 1)
  /\ o.how = "chain" => /\ o.file > 1 /\ ~ Follows(f[o.file - 1], f[o.file])
                        /\ IsChain(f, TRUE, o.file - 1)

(* What carries the promise from day to day: the days behind the run are   *)
(* whole, good and chained, and the boundary is the last of their files.   *)
RunInv ==
  /\ files \in Seq(File) /\ verify \in BOOLEAN /\ threads \in Nat
  /\ base \in 0 .. Len(files) /\ upto \in base .. Len(files)
  /\ AllOk(files, base) /\ IsChain(files, verify, base)
  /\ NamesFirst(files, outcome)
  /\ phase # "idle" => outcome.how = "none"
  /\ phase = "group" => base = 0
  /\ phase \in {"group", "day", "parse", "verify"} =>
       boundary = BoundaryAt(files, verify, base)
  /\ phase \in {"parse", "verify"} \cup Writing => base < upto
  /\ phase = "parse" => /\ ParseInv
                        /\ count = upto - base
                        /\ bad = {i \in 1 .. upto - base : ~ files[base + i].ok}
  /\ phase \in {"verify"} \cup Writing => AllOk(files, upto)
  /\ phase \in Writing =>
       /\ IsChain(files, verify, upto)
       /\ boundary = BoundaryAt(files, verify, upto)

LEMMA RunInvInit == Init => RunInv
<1> SUFFICES ASSUME Init PROVE RunInv
  OBVIOUS
<1>1. files = << >> /\ Len(files) = 0 /\ files \in Seq(File)
  BY DEF Init
<1>2. outcome.how = "none" /\ phase = "idle" /\ base = 0 /\ upto = 0
  BY DEF Init
<1>3. AllOk(files, base) /\ IsChain(files, verify, base) /\ NamesFirst(files, outcome)
  BY <1>2 DEF AllOk, IsChain, NamesFirst
<1>4. base \in 0 .. Len(files) /\ upto \in base .. Len(files)
  BY <1>1, <1>2
<1>5. verify \in BOOLEAN /\ threads \in Nat
  BY DEF Init
<1>6. QED
  BY <1>1, <1>2, <1>3, <1>4, <1>5 DEF RunInv, Writing

LEMMA DayEndIsNext ==
  ASSUME files \in Seq(File), base \in 0 .. Len(files) - 1
  PROVE  DayEnd \in base + 1 .. Len(files)
<1>1. base + 1 \in SameDay
  BY DEF SameDay
<1>2. Len(files) \in Nat /\ SameDay \in SUBSET (0 .. Len(files))
  BY DEF SameDay
<1>3. \E e \in SameDay : \A i \in SameDay : i <= e
  BY <1>1, <1>2, GreatestExists
<1>4. DayEnd \in SameDay
  BY <1>3 DEF DayEnd
<1>5. QED
  BY <1>4 DEF SameDay

(* A parse error names the first file of the directory that fails.         *)
LEMMA ParseErrorNamesFirst ==
  ASSUME RunInv, phase = "parse", Joined, failed # {}
  PROVE  \E n \in 1 .. Len(files) :
           n = base + FirstError /\ ~ files[n].ok /\ AllOk(files, n - 1)
<1>1. FirstError \in bad /\ \A i \in bad : FirstError <= i
  BY FirstErrorIsFirst DEF RunInv
<1>2. FirstError \in 1 .. upto - base /\ ~ files[base + FirstError].ok
  BY <1>1 DEF RunInv
<1>3. base \in Nat /\ upto \in Nat /\ upto <= Len(files) /\ Len(files) \in Nat
  BY DEF RunInv
<1>4. ASSUME NEW i \in 1 .. base + FirstError - 1
      PROVE  files[i].ok
  <2>1. CASE i <= base
    BY <1>3, <2>1 DEF RunInv, AllOk
  <2>2. CASE i > base
    <3>1. i - base \in 1 .. upto - base /\ i - base < FirstError /\ base + (i - base) = i
      BY <1>2, <1>3, <2>2
    <3>2. i - base \notin bad
      BY <1>1, <1>2, <3>1
    <3>3. QED
      BY <3>1, <3>2 DEF RunInv
  <2>3. QED
    BY <1>3, <2>1, <2>2
<1>5. QED
  BY <1>2, <1>3, <1>4 DEF AllOk

(* The pairs of the day and its seam, added to the chain behind it.        *)
LEMMA DayExtendsChain ==
  ASSUME RunInv, phase = "verify", verify, NEW n \in base .. upto,
         \A i \in Breaks : n < i
  PROVE  IsChain(files, TRUE, n)
<1>1. base \in Nat /\ upto \in Nat /\ upto <= Len(files) /\ Len(files) \in Nat
  BY DEF RunInv
<1>2. SUFFICES ASSUME NEW i \in 2 .. n PROVE Follows(files[i - 1], files[i])
  BY DEF IsChain
<1>3. CASE i <= base
  BY <1>1, <1>3 DEF RunInv, IsChain
<1>4. CASE i > base
  <2>1. i \in base + 1 .. upto /\ i \notin Breaks
    BY <1>1, <1>4
  <2>2. CASE i = base + 1
    <3>1. boundary = files[base] /\ files[base] \in File
      BY <1>1, <2>2 DEF RunInv, BoundaryAt
    <3>2. boundary # None
      BY <3>1, EtlConstants
    <3>3. QED
      BY <1>1, <2>1, <2>2, <3>1, <3>2 DEF Breaks
  <2>3. CASE i # base + 1
    BY <2>1, <2>3 DEF Breaks
  <2>4. QED
    BY <2>2, <2>3
<1>5. QED
  BY <1>1, <1>3, <1>4

(* Nothing of the run moves but the writes of the day at hand, its phase,  *)
(* or its end.                                                             *)
LEMMA EndKeeps ==
  ASSUME RunInv, UNCHANGED <<flags, cursor>>, phase' = "idle",
         NamesFirst(files, outcome')
  PROVE  RunInv'
BY DEF RunInv, flags, cursor, Writing

LEMMA QuietEndNames == ASSUME NEW how \in {"ok", "died", "write", "name"}, NEW f
                       PROVE  NamesFirst(files, [how |-> how, file |-> f])
BY DEF NamesFirst

LEMMA ParseErrorNames ==
  ASSUME NEW f, NEW n, ~ f[n].ok, AllOk(f, n - 1)
  PROVE  NamesFirst(f, [how |-> "parse", file |-> n])
BY DEF NamesFirst

LEMMA DayIsNotEmpty ==
  ASSUME NEW a \in Nat, NEW l \in Nat, NEW b \in a + 1 .. l
  PROVE  b - a \in Nat \ {0}
OBVIOUS

LEMMA RunInvNext == RunInv /\ [Next]_vars => RunInv'
<1> SUFFICES ASSUME RunInv, [Next]_vars PROVE RunInv'
  OBVIOUS
<1>n. base \in Nat /\ upto \in Nat /\ upto <= Len(files) /\ Len(files) \in Nat /\ base <= upto
  BY DEF RunInv
<1>1. ASSUME NEW input \in Inputs, NEW t \in Transfers, NEW v \in Verifies,
             NEW n \in ThreadCounts, Begin(input, t, v, n)
      PROVE  RunInv'
  <2>1. input \in Seq(File) /\ v \in BOOLEAN /\ n \in Nat
    BY EtlConstants
  <2>2. files' = input /\ verify' = v /\ threads' = n /\ base' = 0 /\ upto' = 0
        /\ boundary' = None /\ phase' = "group" /\ outcome' = [how |-> "none", file |-> 0]
    BY <1>1 DEF Begin
  <2>3. AllOk(files', 0) /\ IsChain(files', verify', 0) /\ NamesFirst(files', outcome')
    BY <2>2 DEF AllOk, IsChain, NamesFirst
  <2>4. Len(input) \in Nat
    BY <2>1
  <2>5. boundary' = BoundaryAt(files', verify', 0)
    BY <2>2 DEF BoundaryAt
  <2>6. QED
    BY <2>1, <2>2, <2>3, <2>4, <2>5 DEF RunInv, Writing
<1>2. CASE Group
  <2>1. CASE Nameless # {}
    <3>1. PICK i \in Nameless : End("name", i)
      BY <1>2, <2>1 DEF Group
    <3>2. NamesFirst(files, outcome')
      BY <3>1, QuietEndNames DEF End
    <3>3. QED
      BY <1>2, <3>1, <3>2, EndKeeps DEF Group, End
  <2>2. CASE Nameless = {}
    BY <1>2, <2>2 DEF Group, RunInv, flags, cursor, Writing
  <2>3. QED
    BY <2>1, <2>2
<1>3. CASE NextDay
  <2>1. CASE base = Len(files) \/ threads = 0
    <3>1. phase' = "idle" /\ NamesFirst(files, outcome')
      BY <1>3, <2>1, QuietEndNames DEF NextDay, End
    <3>2. QED
      BY <1>3, <2>1, <3>1, EndKeeps DEF NextDay
  <2>2. CASE ~ (base = Len(files) \/ threads = 0)
    <3>1. /\ phase = "day" /\ phase' = "parse" /\ upto' = DayEnd /\ base' = base
          /\ outcome' = outcome /\ boundary' = boundary
          /\ files' = files /\ verify' = verify /\ threads' = threads
          /\ Spawn(upto' - base, {i \in 1 .. upto' - base : ~ files[base + i].ok})
      BY <1>3, <2>2 DEF NextDay, flags
    <3>2. upto' \in base + 1 .. Len(files)
      BY <1>n, <2>2, <3>1, DayEndIsNext DEF RunInv
    <3>3. upto' - base \in Nat \ {0}
      BY <1>n, <3>2, DayIsNotEmpty
    <3>4. ParseInv'
      BY <2>2, <3>1, <3>3, SpawnStarts DEF RunInv
    <3>5. count' = upto' - base' /\ bad' = {i \in 1 .. upto' - base' : ~ files'[base' + i].ok}
      BY <3>1 DEF Spawn
    <3>6. QED
      BY <1>n, <3>1, <3>2, <3>4, <3>5 DEF RunInv, Writing
  <2>3. QED
    BY <2>1, <2>2
<1>4. ASSUME NEW w \in Workers, Parse(w)
      PROVE  RunInv'
  <2>1. phase = "parse" /\ ParseNext(w) /\ threads' = threads
    BY <1>4 DEF Parse, flags
  <2>2. ParseInv'
    BY <2>1, ParseKeeps DEF RunInv
  <2>3. count' = count /\ bad' = bad
    BY <2>1 DEF ParseNext
  <2>4. QED
    BY <1>4, <2>2, <2>3 DEF Parse, RunInv, flags, cursor, Writing
<1>5. CASE Join
  <2>1. CASE failed # {}
    <3>1. phase' = "idle" /\ outcome' = [how |-> "parse", file |-> base + FirstError]
      BY <1>5, <2>1 DEF Join, End
    <3>2. PICK n \in 1 .. Len(files) : n = base + FirstError /\ ~ files[n].ok /\ AllOk(files, n - 1)
      BY <1>5, <2>1, ParseErrorNamesFirst DEF Join
    <3>3. NamesFirst(files, [how |-> "parse", file |-> n])
      BY <3>2, ParseErrorNames
    <3>4. NamesFirst(files, outcome')
      BY <3>1, <3>2, <3>3
    <3>5. QED
      BY <1>5, <3>1, <3>4, EndKeeps DEF Join
  <2>2. CASE failed = {}
    <3>1. bad = {}
      BY <1>5, <2>2, JoinedMeansAllParsed DEF Join, RunInv
    <3>2. AllOk(files, upto)
      <4>1. ASSUME NEW i \in 1 .. upto
            PROVE  files[i].ok
        <5>1. CASE i <= base
          BY <1>n, <5>1 DEF RunInv, AllOk
        <5>2. CASE i > base
          <6>1. i - base \in 1 .. upto - base /\ base + (i - base) = i
            BY <1>n, <5>2
          <6>2. QED
            BY <1>5, <3>1, <6>1 DEF RunInv, Join
        <5>3. QED
          BY <1>n, <5>1, <5>2
      <4>2. QED
        BY <4>1 DEF AllOk
    <3>3. QED
      BY <1>5, <2>2, <3>2 DEF Join, RunInv, flags, cursor, Writing
  <2>3. QED
    BY <2>1, <2>2
<1>6. CASE VerifyChain
  <2>0. phase = "verify" /\ UNCHANGED <<flags, cursor>>
    BY <1>6 DEF VerifyChain
  <2>1. CASE ~ verify
    <3>1. phase' = "rows" /\ outcome' = outcome /\ boundary' = boundary
      BY <1>6, <2>1 DEF VerifyChain
    <3>2. IsChain(files, verify, upto) /\ boundary = BoundaryAt(files, verify, upto)
      BY <2>0, <2>1 DEF RunInv, IsChain, BoundaryAt
    <3>3. QED
      BY <2>0, <3>1, <3>2 DEF RunInv, flags, cursor, Writing
  <2>2. CASE verify /\ Breaks # {}
    <3>1. PICK i \in Breaks : (\A j \in Breaks : i <= j) /\ End("chain", i)
      BY <1>6, <2>2 DEF VerifyChain
    <3>2. i \in base + 1 .. upto
      BY DEF Breaks
    <3>3. IsChain(files, TRUE, i - 1)
      <4>1. i - 1 \in base .. upto
        BY <1>n, <3>2
      <4>2. Breaks \subseteq Int
        BY <1>n DEF Breaks
      <4>3. \A j \in Breaks : i - 1 < j
        BY <1>n, <3>1, <3>2, <4>2
      <4>4. QED
        BY <2>0, <2>2, <4>1, <4>3, DayExtendsChain
    <3>4. i > 1 /\ ~ Follows(files[i - 1], files[i])
      <4>1. CASE i = base + 1
        <5>1. boundary # None
          BY <4>1 DEF Breaks
        <5>2. base > 0 /\ boundary = files[base]
          BY <1>n, <2>0, <5>1 DEF RunInv, BoundaryAt
        <5>3. QED
          BY <1>n, <4>1, <5>2 DEF Breaks
      <4>2. CASE i # base + 1
        BY <1>n, <3>2, <4>2 DEF Breaks
      <4>3. QED
        BY <4>1, <4>2
    <3>5. outcome' = [how |-> "chain", file |-> i] /\ phase' = "idle"
      BY <3>1 DEF End
    <3>6. NamesFirst(files, outcome')
      BY <3>3, <3>4, <3>5 DEF NamesFirst
    <3>7. QED
      BY <2>0, <3>5, <3>6, EndKeeps
  <2>3. CASE verify /\ Breaks = {}
    <3>1. phase' = "rows" /\ outcome' = outcome /\ boundary' = files[upto]
      BY <1>6, <2>3 DEF VerifyChain, Seam
    <3>2. IsChain(files, TRUE, upto)
      <4>1. upto \in base .. upto
        BY <1>n
      <4>2. QED
        BY <2>0, <2>3, <4>1, DayExtendsChain
    <3>3. IsChain(files, verify, upto) /\ boundary' = BoundaryAt(files, verify, upto)
      <4>1. upto > 0
        BY <1>n, <2>0 DEF RunInv
      <4>2. IsChain(files, verify, upto)
        BY <3>2 DEF IsChain
      <4>3. QED
        BY <2>3, <3>1, <4>1, <4>2 DEF BoundaryAt
    <3>4. QED
      BY <2>0, <3>1, <3>3 DEF RunInv, flags, cursor, Writing
  <2>4. QED
    BY <2>1, <2>2, <2>3
<1>7. CASE Write
  <2>1. /\ phase \in Writing /\ phase' \in Writing \cup {"day"}
        /\ base' = (IF phase' = "day" THEN upto ELSE base)
        /\ UNCHANGED <<parse, files, verify, threads, outcome, upto, boundary>>
    BY <1>7 DEF Write, WriteDay, OpenRows, CloseRows, OpenLegs, CloseLegs, Writing, flags
  <2>2. CASE phase' = "day"
    BY <1>n, <2>1, <2>2 DEF RunInv, Writing
  <2>3. CASE phase' # "day"
    BY <1>n, <2>1, <2>3 DEF RunInv, Writing
  <2>4. QED
    BY <2>2, <2>3
<1>8. CASE WriteFails
  <2>1. NamesFirst(files, outcome')
    BY <1>8, QuietEndNames DEF WriteFails, End
  <2>2. QED
    BY <1>8, <2>1, EndKeeps DEF WriteFails, End
<1>9. CASE Crash
  <2>1. NamesFirst(files, outcome')
    BY <1>9, QuietEndNames DEF Crash, End
  <2>2. QED
    BY <1>9, <2>1, EndKeeps DEF Crash, End
<1>10. CASE UNCHANGED vars
  <2>1. RunInv /\ UNCHANGED <<parse, flags, phase, outcome, cursor, boundary>>
    BY <1>10 DEF vars, parse, flags, cursor
  <2>2. phase = "parse" => ParseInv'
    BY <2>1, ParseUnchanged DEF RunInv, flags
  <2>3. QED
    BY <2>1, <2>2 DEF RunInv, parse, flags, cursor, Writing
<1>11. QED
  BY <1>1, <1>2, <1>3, <1>4, <1>5, <1>6, <1>7, <1>8, <1>9, <1>10 DEF Next, Run

(* With --verify-chain, everything a run has touched is one unbroken chain. *)
THEOREM OneChainForever == Spec => []WrittenIsOneChain
<1>1. RunInv => WrittenIsOneChain
  BY DEF RunInv, WrittenIsOneChain, IsChain, Touched
<1>2. QED
  BY <1>1, RunInvInit, RunInvNext, PTL DEF Spec

(* An error names the first file that fails, or that does not follow.      *)
THEOREM ErrorsNameFirstFile == Spec => []ErrorNamesFirstFile
<1>1. RunInv => ErrorNamesFirstFile
  BY DEF RunInv, ErrorNamesFirstFile, NamesFirst, AllOk, IsChain
<1>2. QED
  BY <1>1, RunInvInit, RunInvNext, PTL DEF Spec
----------------------------------------------------------------------------
(* Types                                                                   *)

Phases == Writing \cup {"idle", "group", "day", "parse", "verify"}

Result == [how : {"none", "ok", "name", "parse", "chain", "write", "died"}, file : 0 .. Len(files)]

LEMMA TypeInit == Init => TypeOK
<1> SUFFICES ASSUME Init PROVE TypeOK
  OBVIOUS
<1>1. Nothing \in Table
  BY DEF Nothing, Table
<1>2. files = << >> /\ files \in Seq(File) /\ Len(files) = 0
  BY DEF Init
<1>3. MaxRuns \in Nat
  BY EtlConstants
<1>4. base = 0 /\ upto = 0 /\ threads = 1 /\ outcome = [how |-> "none", file |-> 0] /\ runs = 0
  BY DEF Init
<1>5. base \in 0 .. Len(files) /\ upto \in base .. Len(files) /\ outcome \in Result /\ runs \in 0 .. MaxRuns
  BY <1>2, <1>3, <1>4 DEF Result
<1>6. ParseTypeOK
  BY DEF Init, NoParse, ParseTypeOK
<1>7. before \in [rows : Table, legs : Table] /\ rows \in Table /\ legs \in Table
  BY <1>1 DEF Init
<1>8. threads \in Nat /\ transfers \in BOOLEAN /\ verify \in BOOLEAN /\ boundary \in File \cup {None}
      /\ phase \in Writing \cup {"idle", "group", "day", "parse", "verify"}
  BY DEF Init
<1>9. QED
  BY <1>2, <1>5, <1>6, <1>7, <1>8 DEF TypeOK, ParseTypeOK, Result

(* A step that leaves the dataset and the parse alone.                     *)
LEMMA TypeKeeps ==
  ASSUME TypeOK, UNCHANGED <<parse, flags, dataset>>, RunInv',
         phase' \in Phases, outcome' \in Result, boundary' \in File \cup {None}
  PROVE  TypeOK'
<1>1. UNCHANGED <<count, bad, at, failed, files, threads, transfers, verify, before, runs, rows, legs>>
  BY DEF parse, flags, dataset
<1>2. base' \in 0 .. Len(files') /\ upto' \in base' .. Len(files')
  BY DEF RunInv
<1>3. QED
  BY <1>1, <1>2 DEF TypeOK, Phases, Result, Table

(* The end of a run names a file, or none.                                 *)
LEMMA EndTypes ==
  ASSUME TypeOK, NEW how \in {"ok", "name", "parse", "chain", "write", "died"},
         NEW f \in 0 .. Len(files), End(how, f)
  PROVE  phase' \in Phases /\ outcome' \in Result
BY DEF End, Phases, Result

LEMMA TypeNext == RunInv /\ TypeOK /\ RunInv' /\ [Next]_vars => TypeOK'
<1> SUFFICES ASSUME RunInv, TypeOK, RunInv', [Next]_vars PROVE TypeOK'
  OBVIOUS
<1>0. /\ base \in Nat /\ upto \in Nat /\ upto <= Len(files) /\ base <= upto /\ Len(files) \in Nat
      /\ 0 \in 0 .. Len(files) /\ boundary \in File \cup {None} /\ outcome \in Result
      /\ files \in Seq(File)
  BY DEF RunInv, TypeOK, Result
<1>1. ASSUME NEW input \in Inputs, NEW t \in Transfers, NEW v \in Verifies,
             NEW n \in ThreadCounts, Begin(input, t, v, n)
      PROVE  TypeOK'
  <2>1. input \in Seq(File) /\ t \in BOOLEAN /\ v \in BOOLEAN /\ n \in Nat /\ Len(input) \in Nat
    BY EtlConstants
  <2>2. runs' \in 0 .. MaxRuns
    BY <1>1, EtlConstants DEF TypeOK, Begin
  <2>3. before' \in [rows : Table, legs : Table] /\ rows' \in Table /\ legs' \in Table
    BY <1>1 DEF TypeOK, Begin, dataset
  <2>4. /\ files' = input /\ transfers' = t /\ verify' = v /\ threads' = n /\ phase' = "group"
        /\ base' = 0 /\ upto' = 0 /\ boundary' = None
        /\ count' = 0 /\ bad' = {} /\ at' = [w \in {} |-> 0] /\ failed' = {}
        /\ outcome' = [how |-> "none", file |-> 0]
    BY <1>1 DEF Begin
  <2>5. 0 \in 0 .. Len(files')
    BY <2>1, <2>4
  <2>6. QED
    BY <2>1, <2>2, <2>3, <2>4, <2>5 DEF TypeOK, Table
<1>2. CASE Group
  <2>1. UNCHANGED <<parse, flags, dataset, boundary>>
    BY <1>2 DEF Group
  <2>2. CASE Nameless # {}
    <3>1. PICK i \in Nameless : End("name", i)
      BY <1>2, <2>2 DEF Group
    <3>2. i \in 0 .. Len(files)
      BY <1>0 DEF Nameless
    <3>3. QED
      BY <1>0, <2>1, <3>1, <3>2, EndTypes, TypeKeeps
  <2>3. CASE Nameless = {}
    <3>1. phase' \in Phases /\ outcome' = outcome
      BY <1>2, <2>3 DEF Group, Phases
    <3>2. QED
      BY <1>0, <2>1, <3>1, TypeKeeps
  <2>4. QED
    BY <2>2, <2>3
<1>3. CASE NextDay
  <2>1. UNCHANGED <<flags, dataset, boundary>>
    BY <1>3 DEF NextDay
  <2>2. CASE base = Len(files) \/ threads = 0
    <3>1. UNCHANGED parse /\ (End("ok", 0) \/ End("died", 0))
      BY <1>3, <2>2 DEF NextDay
    <3>2. phase' \in Phases /\ outcome' \in Result
      BY <1>0, <3>1, EndTypes
    <3>3. QED
      BY <1>0, <2>1, <3>1, <3>2, TypeKeeps
  <2>3. CASE ~ (base = Len(files) \/ threads = 0)
    <3>1. phase' = "parse" /\ outcome' = outcome /\ at' = [w \in Workers' |-> ChunkFirst(w)']
      BY <1>3, <2>3 DEF NextDay, Spawn
    <3>2. AtIsFunction'
      BY <3>1 DEF AtIsFunction
    <3>3. ParseInv'
      BY <3>1 DEF RunInv
    <3>4. ParseTypeOK'
      BY <3>2, <3>3, ParseTypes, PTL
    <3>5. base' \in 0 .. Len(files') /\ upto' \in base' .. Len(files')
      BY DEF RunInv
    <3>6. UNCHANGED <<files, threads, transfers, verify, before, runs, rows, legs>>
      BY <2>1 DEF flags, dataset
    <3>7. QED
      BY <2>1, <3>1, <3>4, <3>5, <3>6 DEF TypeOK, ParseTypeOK, Table
  <2>4. QED
    BY <2>2, <2>3
<1>4. ASSUME NEW w \in Workers, Parse(w)
      PROVE  TypeOK'
  <2>1. /\ ParseNext(w) /\ phase = "parse" /\ phase' = phase
        /\ UNCHANGED <<files, threads, transfers, verify, before, runs, rows, legs,
                       outcome, base, upto, boundary>>
    BY <1>4 DEF Parse, flags, cursor, dataset
  <2>2. AtIsFunction'
    <3>1. at = [v \in DOMAIN at |-> at[v]]
      BY DEF TypeOK
    <3>2. at' = at \/ at' = [at EXCEPT ![w] = @ + 1]
      BY <2>1 DEF ParseNext
    <3>3. QED
      BY <3>1, <3>2 DEF AtIsFunction
  <2>3. ParseInv'
    BY <2>1 DEF RunInv
  <2>4. ParseTypeOK'
    BY <2>2, <2>3, ParseTypes, PTL
  <2>5. QED
    BY <2>1, <2>4 DEF TypeOK, ParseTypeOK, Table
<1>5. CASE Join
  <2>1. UNCHANGED <<parse, flags, dataset, boundary>> /\ phase = "parse" /\ Joined
    BY <1>5 DEF Join
  <2>2. CASE failed # {}
    <3>1. PICK n \in 1 .. Len(files) : n = base + FirstError
      BY <2>1, <2>2, ParseErrorNamesFirst
    <3>2. End("parse", n) /\ n \in 0 .. Len(files)
      BY <1>0, <1>5, <2>2, <3>1 DEF Join
    <3>3. QED
      BY <1>0, <2>1, <3>2, EndTypes, TypeKeeps
  <2>3. CASE failed = {}
    <3>1. phase' \in Phases /\ outcome' = outcome
      BY <1>5, <2>3 DEF Join, Phases
    <3>2. QED
      BY <1>0, <2>1, <3>1, TypeKeeps
  <2>4. QED
    BY <2>2, <2>3
<1>6. CASE VerifyChain
  <2>1. UNCHANGED <<parse, flags, dataset>> /\ phase = "verify"
    BY <1>6 DEF VerifyChain
  <2>2. CASE verify /\ Breaks # {}
    <3>1. PICK i \in Breaks : End("chain", i)
      BY <1>6, <2>2 DEF VerifyChain
    <3>2. i \in 0 .. Len(files)
      BY <1>0 DEF Breaks
    <3>3. boundary' = boundary
      BY <1>6, <2>2 DEF VerifyChain
    <3>4. QED
      BY <1>0, <2>1, <3>1, <3>2, <3>3, EndTypes, TypeKeeps
  <2>3. CASE ~ (verify /\ Breaks # {})
    <3>1. phase' = "rows" /\ outcome' = outcome /\ boundary' \in {boundary, files[upto]}
      BY <1>6, <2>3 DEF VerifyChain, Seam
    <3>2. upto \in 1 .. Len(files)
      BY <1>0, <2>1 DEF RunInv
    <3>3. files[upto] \in File
      BY <1>0, <3>2
    <3>4. phase' \in Phases
      BY <3>1 DEF Phases, Writing
    <3>5. QED
      BY <1>0, <2>1, <3>1, <3>3, <3>4, TypeKeeps
  <2>4. QED
    BY <2>2, <2>3
<1>7. CASE Write
  <2>1. /\ phase \in Writing /\ phase' \in Writing \cup {"day"}
        /\ UNCHANGED <<parse, files, threads, transfers, verify, before, runs, outcome, boundary>>
    BY <1>7 DEF Write, WriteDay, OpenRows, CloseRows, OpenLegs, CloseLegs, Writing, flags
  <2>2. DayFiles \in Seq(File)
    <3>1. \A i \in base + 1 .. upto : files[i] \in File
      BY <1>0
    <3>2. QED
      BY <1>0, <3>1, SubSeqProperties DEF DayFiles
  <2>3. rows' \in Table /\ legs' \in Table
    <3>1. rows \in Table /\ legs \in Table
      BY DEF TypeOK
    <3>2. rows' = rows \/ \E c \in {Torn, DayFiles} : rows' = [rows EXCEPT ![Day] = c]
      BY <1>7 DEF Write, WriteDay, OpenRows, CloseRows, OpenLegs, CloseLegs
    <3>3. legs' = legs \/ \E c \in {Torn, DayFiles} : legs' = [legs EXCEPT ![Day] = c]
      BY <1>7 DEF Write, WriteDay, OpenRows, CloseRows, OpenLegs, CloseLegs
    <3> DEFINE V == Seq(File) \cup {Absent, Torn}
    <3>4. Table = [Prefixes -> V] /\ {Torn, DayFiles} \subseteq V
      BY <2>2 DEF Table
    <3> HIDE DEF V
    <3>5. QED
      BY <3>1, <3>2, <3>3, <3>4
  <2>4. base' \in 0 .. Len(files') /\ upto' \in base' .. Len(files')
    BY DEF RunInv
  <2>5. QED
    BY <2>1, <2>3, <2>4 DEF TypeOK, parse, Table
<1>8. CASE WriteFails \/ Crash
  <2>1. UNCHANGED <<parse, flags, dataset, boundary>> /\ (End("write", 0) \/ End("died", 0))
    BY <1>8 DEF WriteFails, Crash
  <2>2. phase' \in Phases /\ outcome' \in Result
    BY <1>0, <2>1, EndTypes
  <2>3. QED
    BY <1>0, <2>1, <2>2, TypeKeeps
<1>9. CASE UNCHANGED vars
  BY <1>9 DEF vars, TypeOK, Table
<1>10. QED
  BY <1>1, <1>2, <1>3, <1>4, <1>5, <1>6, <1>7, <1>8, <1>9 DEF Next, Run

LEMMA RunInvForever == Spec => []RunInv
BY RunInvInit, RunInvNext, PTL DEF Spec

(* Every variable of a record-era run keeps its type.                      *)
THEOREM TypeOKForever == Spec => []TypeOK
BY TypeInit, TypeNext, RunInvForever, PTL DEF Spec
----------------------------------------------------------------------------
(* The days                                                                *)

AtDay == {"parse", "verify"} \cup Writing

(* Names are sorted and, once they are grouped, have a prefix each: the    *)
(* run stands between two days, and its day is all the files of a prefix.  *)
OrderInv ==
  /\ files = << >> \/ files \in Inputs
  /\ phase \in {"day"} \cup AtDay => \A i \in 1 .. Len(files) : files[i].prefix \in Prefixes
  /\ \A i \in 1 .. base, j \in base + 1 .. Len(files) : files[i].prefix # files[j].prefix
  /\ phase \in AtDay =>
       \A i \in 1 .. Len(files) : files[i].prefix = Day <=> i \in base + 1 .. upto

(* The day at hand takes in all the files of its prefix and no other.      *)
LEMMA DayIsWhole ==
  ASSUME RunInv, OrderInv, phase = "day", base < Len(files)
  PROVE  /\ DayEnd \in base + 1 .. Len(files)
         /\ \A i \in 1 .. Len(files) :
              files[i].prefix = files[DayEnd].prefix <=> i \in base + 1 .. DayEnd
<1>1. base \in Nat /\ Len(files) \in Nat /\ files \in Seq(File) /\ base + 1 \in 1 .. Len(files)
  BY DEF RunInv
<1>2. DayEnd \in SameDay /\ \A i \in SameDay : i <= DayEnd
  <2>1. base + 1 \in SameDay
    BY <1>1 DEF SameDay
  <2>2. SameDay \in SUBSET (0 .. Len(files))
    BY <1>1 DEF SameDay
  <2>3. \E e \in SameDay : \A i \in SameDay : i <= e
    BY <1>1, <2>1, <2>2, GreatestExists
  <2>4. QED
    BY <2>3 DEF DayEnd
<1>3. DayEnd \in base + 1 .. Len(files) /\ files[DayEnd].prefix = files[base + 1].prefix
  BY <1>2 DEF SameDay
<1>4. \A i \in 1 .. Len(files) : files[i].prefix \in Prefixes /\ files[i].prefix \in Nat
  BY EtlConstants DEF OrderInv
<1>5. ASSUME NEW i \in 1 .. Len(files), NEW j \in 1 .. Len(files), i <= j
      PROVE  files[i].prefix <= files[j].prefix
  <2>1. CASE i = j
    BY <1>4, <2>1
  <2>2. CASE i # j
    <3>1. i < j /\ files[i].prefix # None /\ files[j].prefix # None
      BY <1>4, <1>5, <2>2, EtlConstants
    <3>2. files \in Inputs
      BY <1>1 DEF OrderInv
    <3>3. QED
      BY <3>1, <3>2, InputsAreSorted
  <2>3. QED
    BY <2>1, <2>2
<1>6. ASSUME NEW i \in 1 .. Len(files), files[i].prefix = files[DayEnd].prefix
      PROVE  i \in base + 1 .. DayEnd
  <2>1. i > base
    <3>1. i <= base => files[i].prefix # files[base + 1].prefix
      BY <1>1 DEF OrderInv
    <3>2. QED
      BY <1>1, <1>3, <1>6, <3>1
  <2>2. i \in SameDay
    BY <1>1, <1>3, <1>6, <2>1 DEF SameDay
  <2>3. i <= DayEnd
    BY <1>2, <2>2
  <2>4. QED
    BY <1>1, <1>3, <2>1, <2>3
<1>7. ASSUME NEW i \in base + 1 .. DayEnd
      PROVE  files[i].prefix = files[DayEnd].prefix
  <2>1. i \in 1 .. Len(files) /\ DayEnd \in 1 .. Len(files) /\ base + 1 <= i /\ i <= DayEnd
    BY <1>1, <1>3
  <2>2. files[base + 1].prefix <= files[i].prefix /\ files[i].prefix <= files[DayEnd].prefix
    BY <1>1, <1>5, <2>1
  <2>3. files[base + 1].prefix \in Nat /\ files[i].prefix \in Nat
    BY <1>1, <1>4, <2>1
  <2>4. QED
    BY <1>3, <2>2, <2>3
<1>8. QED
  BY <1>3, <1>6, <1>7

LEMMA OrderKeeps ==
  ASSUME OrderInv, UNCHANGED <<files, base, upto>>, phase' \in AtDay => phase \in AtDay,
         phase' = "day" => phase \in {"day"} \cup AtDay
  PROVE  OrderInv'
<1>1. Day' = Day
  BY DEF Day
<1>2. QED
  BY <1>1 DEF OrderInv

LEMMA OrderInit == Init => OrderInv
BY DEF Init, OrderInv, AtDay, Writing

LEMMA OrderNext == RunInv /\ OrderInv /\ [Next]_vars => OrderInv'
<1> SUFFICES ASSUME RunInv, OrderInv, [Next]_vars PROVE OrderInv'
  OBVIOUS
<1>0. /\ base \in Nat /\ upto \in Nat /\ upto <= Len(files) /\ base <= upto /\ Len(files) \in Nat
      /\ files \in Seq(File)
  BY DEF RunInv
<1>1. ASSUME NEW input \in Inputs, NEW t \in Transfers, NEW v \in Verifies,
             NEW n \in ThreadCounts, Begin(input, t, v, n)
      PROVE  OrderInv'
  <2>1. files' = input /\ base' = 0 /\ phase' = "group"
    BY <1>1 DEF Begin
  <2>2. QED
    BY <2>1 DEF OrderInv, AtDay, Writing
<1>2. CASE Group
  <2>1. UNCHANGED <<files, base, upto>> /\ phase' \in {"idle", "day"} /\ (phase' = "day" => Nameless = {})
    BY <1>2 DEF Group, End, flags, cursor
  <2>2. phase' = "day" => \A i \in 1 .. Len(files) : files[i].prefix \in Prefixes
    <3>1. \A f \in File : f.prefix \in Prefixes \cup {None}
      BY DEF File
    <3>2. \A i \in 1 .. Len(files) : files[i] \in File
      BY <1>0
    <3>3. QED
      BY <2>1, <3>1, <3>2 DEF Nameless
  <2>3. phase' \notin AtDay
    BY <2>1 DEF AtDay, Writing
  <2>4. QED
    BY <2>1, <2>2, <2>3 DEF OrderInv
<1>3. CASE NextDay
  <2>1. CASE base = Len(files) \/ threads = 0
    <3>1. UNCHANGED <<files, base, upto>> /\ phase' = "idle"
      BY <1>3, <2>1 DEF NextDay, End, flags, cursor
    <3>2. QED
      BY <3>1, OrderKeeps DEF AtDay, Writing
  <2>2. CASE ~ (base = Len(files) \/ threads = 0)
    <3>1. UNCHANGED <<files, base>> /\ phase = "day" /\ phase' = "parse" /\ upto' = DayEnd
      BY <1>3, <2>2 DEF NextDay, flags
    <3>2. \A i \in 1 .. Len(files) : files[i].prefix = files[upto'].prefix <=> i \in base + 1 .. upto'
      <4>1. base < Len(files)
        BY <1>0, <2>2
      <4>2. QED
        BY <3>1, <4>1, DayIsWhole
    <3>3. \A i \in 1 .. Len(files) : files[i].prefix \in Prefixes
      BY <3>1 DEF OrderInv
    <3>4. QED
      BY <3>1, <3>2, <3>3 DEF OrderInv, Day
  <2>3. QED
    BY <2>1, <2>2
<1>4. ASSUME NEW w \in Workers, Parse(w)
      PROVE  OrderInv'
  <2>1. UNCHANGED <<files, base, upto, phase>>
    BY <1>4 DEF Parse, flags, cursor
  <2>2. QED
    BY <2>1, OrderKeeps
<1>5. CASE Join \/ VerifyChain \/ WriteFails \/ Crash
  <2>1. UNCHANGED <<files, base, upto>> /\ (phase' = "idle" \/ (phase \in AtDay /\ phase' \in AtDay))
    BY <1>5 DEF Join, VerifyChain, WriteFails, Crash, End, flags, cursor, AtDay, Writing
  <2>2. phase' # "day"
    BY <2>1 DEF AtDay, Writing
  <2>3. "idle" \notin AtDay
    BY DEF AtDay, Writing
  <2>4. QED
    BY <2>1, <2>2, <2>3, OrderKeeps
<1>6. CASE Write
  <2>1. /\ phase \in Writing /\ phase' \in Writing \cup {"day"}
        /\ base' = (IF phase' = "day" THEN upto ELSE base) /\ UNCHANGED <<files, upto>>
    BY <1>6 DEF Write, WriteDay, OpenRows, CloseRows, OpenLegs, CloseLegs, Writing, flags
  <2>2. CASE phase' = "day"
    <3>1. ASSUME NEW i \in 1 .. upto, NEW j \in upto + 1 .. Len(files)
          PROVE  files[i].prefix # files[j].prefix
      <4>1. i \in 1 .. Len(files) /\ j \in 1 .. Len(files) /\ j \notin base + 1 .. upto
        BY <1>0
      <4>2. files[j].prefix # Day
        BY <2>1, <4>1 DEF OrderInv, AtDay
      <4>3. CASE i > base
        <5>1. i \in base + 1 .. upto
          BY <1>0, <4>3
        <5>2. files[i].prefix = Day
          BY <2>1, <4>1, <5>1 DEF OrderInv, AtDay
        <5>3. QED
          BY <4>2, <5>2
      <4>4. CASE i <= base
        <5>1. i \in 1 .. base /\ j \in base + 1 .. Len(files)
          BY <1>0, <4>4
        <5>2. QED
          BY <5>1 DEF OrderInv
      <4>5. QED
        BY <1>0, <4>3, <4>4
    <3>2. phase' \notin AtDay
      BY <2>2 DEF AtDay, Writing
    <3>3. base' = upto /\ files' = files
      BY <2>1, <2>2
    <3>4. \A i \in 1 .. Len(files) : files[i].prefix \in Prefixes
      BY <2>1 DEF OrderInv, AtDay
    <3>5. QED
      BY <3>1, <3>2, <3>3, <3>4 DEF OrderInv
  <2>3. CASE phase' # "day"
    <3>1. UNCHANGED <<files, base, upto>> /\ phase \in AtDay
      BY <2>1, <2>3 DEF AtDay
    <3>2. QED
      BY <2>3, <3>1, OrderKeeps
  <2>4. QED
    BY <2>2, <2>3
<1>7. CASE UNCHANGED vars
  <2>1. UNCHANGED <<files, base, upto, phase>>
    BY <1>7 DEF vars
  <2>2. QED
    BY <2>1, OrderKeeps
<1>8. QED
  BY <1>1, <1>2, <1>3, <1>4, <1>5, <1>6, <1>7 DEF Next, Run

Clean == {"group", "day", "parse", "verify", "rows"}

IsUntouched(p) == rows[p] = before.rows[p] /\ legs[p] = before.legs[p]

IsWritten(p) ==
  /\ IsDay(rows[p], p)
  /\ IF transfers THEN IsDay(legs[p], p) ELSE legs[p] = before.legs[p]

(* The days behind the run are written whole, the day at hand holds what   *)
(* its phase has written, all others are as they were.                     *)
DayInv ==
  /\ \A p \in Prefixes : p \in PrefixesOf(base) => IsWritten(p)
  /\ \A p \in Prefixes : p \notin PrefixesOf(upto) => IsUntouched(p)
  /\ phase \in Clean \/ outcome.how \in {"name", "parse", "chain"} =>
       \A p \in Prefixes : p \notin PrefixesOf(base) => IsUntouched(p)
  /\ phase \in {"rowsOpen", "legs"} => legs[Day] = before.legs[Day]
  /\ phase \in {"legs", "legsOpen"} => transfers /\ IsDay(rows[Day], Day)

LEMMA DayInvInit == Init => DayInv
<1> SUFFICES ASSUME Init PROVE DayInv
  OBVIOUS
<1>1. \A p : IsUntouched(p)
  BY DEF Init, IsUntouched
<1>2. PrefixesOf(base) = {} /\ phase = "idle"
  BY DEF Init, PrefixesOf
<1>3. QED
  BY <1>1, <1>2 DEF DayInv

LEMMA SameDays ==
  ASSUME DayInv, UNCHANGED <<files, transfers, before, base, upto, rows, legs>>,
         phase' \in {"idle"} \cup Clean,
         phase' \in Clean \/ outcome'.how \in {"name", "parse", "chain"} =>
           phase \in Clean \/ outcome.how \in {"name", "parse", "chain"}
  PROVE  DayInv'
<1>1. \A p : (IsWritten(p) <=> IsWritten(p)') /\ (IsUntouched(p) <=> IsUntouched(p)')
  BY DEF IsWritten, IsUntouched, IsDay
<1>2. PrefixesOf(base)' = PrefixesOf(base) /\ PrefixesOf(upto)' = PrefixesOf(upto)
  BY DEF PrefixesOf
<1>3. phase' \notin {"rowsOpen", "legs", "legsOpen"}
  BY DEF Clean
<1>4. QED
  BY <1>1, <1>2, <1>3 DEF DayInv

LEMMA PrefixesGrow ==
  ASSUME NEW b \in Nat, NEW u \in Nat, b <= u
  PROVE  PrefixesOf(b) \subseteq PrefixesOf(u)
BY DEF PrefixesOf

(* The day at hand is none of those behind, and all of it stands together. *)
LEMMA DayAtHand ==
  ASSUME RunInv, OrderInv, phase \in Writing
  PROVE  /\ Day \in Prefixes /\ Day \notin PrefixesOf(base)
         /\ PrefixesOf(upto) = PrefixesOf(base) \cup {Day}
         /\ IsDay(DayFiles, Day)
<1>1. /\ base \in Nat /\ upto \in Nat /\ upto <= Len(files) /\ base < upto /\ Len(files) \in Nat
      /\ phase \in AtDay
  BY DEF RunInv, AtDay
<1>2. Day \in Prefixes
  BY <1>1 DEF OrderInv, Day
<1>3. \A i \in 1 .. Len(files) : files[i].prefix = Day <=> i \in base + 1 .. upto
  BY <1>1 DEF OrderInv
<1>4. Day \notin PrefixesOf(base)
  <2>1. ASSUME NEW i \in 1 .. base
        PROVE  files[i].prefix # Day
    BY <1>1, <1>3
  <2>2. QED
    BY <2>1 DEF PrefixesOf
<1>5. PrefixesOf(upto) = PrefixesOf(base) \cup {Day}
  <2>1. ASSUME NEW i \in 1 .. upto
        PROVE  files[i].prefix \in PrefixesOf(base) \cup {Day}
    <3>1. CASE i <= base
      BY <1>1, <3>1 DEF PrefixesOf
    <3>2. CASE i > base
      BY <1>1, <1>3, <3>2
    <3>3. QED
      BY <1>1, <3>1, <3>2
  <2>2. Day \in PrefixesOf(upto)
    BY <1>1 DEF Day, PrefixesOf
  <2>3. PrefixesOf(upto) \subseteq PrefixesOf(base) \cup {Day}
    BY <2>1 DEF PrefixesOf
  <2>4. QED
    BY <1>1, <2>2, <2>3, PrefixesGrow
<1>6. IsDay(DayFiles, Day)
  <2>1. {i \in 1 .. Len(files) : files[i].prefix = Day} = base + 1 .. upto
    BY <1>1, <1>3
  <2>2. base + 1 \in 1 .. Len(files) /\ upto \in 1 .. Len(files)
    BY <1>1
  <2>3. DayFiles = SubSeq(files, base + 1, upto)
    BY DEF DayFiles
  <2>4. QED
    BY <2>1, <2>2, <2>3 DEF IsDay
<1>7. QED
  BY <1>2, <1>4, <1>5, <1>6

LEMMA WriteKeepsDays == ASSUME RunInv, OrderInv, TypeOK, DayInv, Write PROVE DayInv'
<1>1. /\ phase \in Writing /\ outcome.how = "none" /\ rows \in Table /\ legs \in Table
      /\ UNCHANGED <<files, transfers, before, outcome, upto>>
      /\ base' = (IF phase' = "day" THEN upto ELSE base)
  BY DEF RunInv, TypeOK, Write, WriteDay, OpenRows, CloseRows, OpenLegs, CloseLegs, Writing, flags
<1>2. /\ Day \in Prefixes /\ Day \notin PrefixesOf(base)
      /\ PrefixesOf(upto) = PrefixesOf(base) \cup {Day} /\ IsDay(DayFiles, Day)
  BY <1>1, DayAtHand
<1>3. Day' = Day /\ PrefixesOf(upto)' = PrefixesOf(upto)
      /\ PrefixesOf(base)' = IF phase' = "day" THEN PrefixesOf(upto) ELSE PrefixesOf(base)
  BY <1>1 DEF Day, PrefixesOf
<1>4. \A c, p : IsDay(c, p)' <=> IsDay(c, p)
  BY <1>1 DEF IsDay
(* Only the day at hand moves.                                             *)
<1>5. \A p \in Prefixes \ {Day} : rows'[p] = rows[p] /\ legs'[p] = legs[p]
  <2>1. rows' = rows \/ \E c : rows' = [rows EXCEPT ![Day] = c]
    BY DEF Write, WriteDay, OpenRows, CloseRows, OpenLegs, CloseLegs
  <2>2. legs' = legs \/ \E c : legs' = [legs EXCEPT ![Day] = c]
    BY DEF Write, WriteDay, OpenRows, CloseRows, OpenLegs, CloseLegs
  <2>3. QED
    BY <1>1, <2>1, <2>2 DEF Table
<1>6. \A p \in Prefixes \ {Day} : (IsWritten(p) => IsWritten(p)') /\ (IsUntouched(p) => IsUntouched(p)')
  <2> SUFFICES ASSUME NEW p \in Prefixes \ {Day}
               PROVE  (IsWritten(p) => IsWritten(p)') /\ (IsUntouched(p) => IsUntouched(p)')
    OBVIOUS
  <2>1. rows'[p] = rows[p] /\ legs'[p] = legs[p] /\ before' = before /\ transfers' = transfers
    BY <1>1, <1>5
  <2>2. \A c : IsDay(c, p)' <=> IsDay(c, p)
    BY <1>4
  <2>3. IsUntouched(p) => IsUntouched(p)'
    BY <2>1 DEF IsUntouched
  <2>4. (IsDay(rows[p], p)' <=> IsDay(rows[p], p)) /\ (IsDay(legs[p], p)' <=> IsDay(legs[p], p))
    BY <1>1, <2>1 DEF IsDay
  <2>5. QED
    BY <2>1, <2>3, <2>4 DEF IsWritten
<1>7. \A p \in Prefixes : p \notin PrefixesOf(upto)' => IsUntouched(p)'
  BY <1>2, <1>3, <1>6 DEF DayInv
<1>8. \A p \in Prefixes : p \in PrefixesOf(base) => IsWritten(p)'
  BY <1>2, <1>6 DEF DayInv
<1>9. DOMAIN rows = Prefixes /\ DOMAIN legs = Prefixes
  BY <1>1 DEF Table
(* Where the day is done, it is behind, and nothing else has moved.        *)
<1>10. ASSUME phase' = "day", IsWritten(Day)'
       PROVE  DayInv'
  <2>1. \A p \in Prefixes : p \in PrefixesOf(base)' => IsWritten(p)'
    BY <1>2, <1>3, <1>8, <1>10
  <2>2. PrefixesOf(base)' = PrefixesOf(upto)'
    BY <1>3, <1>10
  <2>3. QED
    BY <1>7, <1>10, <2>1, <2>2 DEF DayInv
<1>11. CASE OpenRows(Day)
  <2>1. phase = "rows" /\ phase' = "rowsOpen" /\ legs' = legs
    BY <1>11 DEF OpenRows
  <2>2. legs'[Day'] = before'.legs[Day']
    BY <1>1, <1>2, <1>3, <2>1 DEF DayInv, Clean, IsUntouched
  <2>3. \A p \in Prefixes : p \in PrefixesOf(base)' => IsWritten(p)'
    BY <1>3, <1>8, <2>1
  <2>4. phase' \notin Clean /\ outcome'.how = "none"
    BY <1>1, <2>1 DEF Clean
  <2>5. QED
    BY <1>7, <2>1, <2>2, <2>3, <2>4 DEF DayInv
<1>12. CASE CloseRows(Day, DayFiles)
  <2>1. phase = "rowsOpen" /\ legs' = legs /\ rows'[Day] = DayFiles
        /\ phase' = IF transfers THEN "legs" ELSE "day"
    BY <1>2, <1>9, <1>12 DEF CloseRows
  <2>2. (legs[Day] = before.legs[Day])'
    BY <1>1, <1>3, <2>1 DEF DayInv
  <2>3. IsDay(rows[Day], Day)'
    BY <1>1, <1>2, <1>3, <2>1 DEF IsDay
  <2>4. CASE transfers
    <3>1. phase' = "legs" /\ transfers' /\ phase' \notin Clean /\ outcome'.how = "none"
      BY <1>1, <2>1, <2>4 DEF Clean
    <3>2. \A p \in Prefixes : p \in PrefixesOf(base)' => IsWritten(p)'
      BY <1>3, <1>8, <3>1
    <3>3. QED
      BY <1>7, <2>2, <2>3, <3>1, <3>2 DEF DayInv
  <2>5. CASE ~ transfers
    <3>1. phase' = "day" /\ ~ transfers'
      BY <1>1, <2>1, <2>5
    <3>2. IsWritten(Day)'
      BY <2>2, <2>3, <3>1 DEF IsWritten
    <3>3. QED
      BY <1>10, <3>1, <3>2
  <2>6. QED
    BY <2>4, <2>5
<1>13. CASE OpenLegs(Day)
  <2>1. phase = "legs" /\ phase' = "legsOpen" /\ rows' = rows /\ phase' \notin Clean
    BY <1>13 DEF OpenLegs, Clean
  <2>2. transfers' /\ IsDay(rows[Day], Day)'
    <3>1. transfers /\ IsDay(rows[Day], Day)
      BY <2>1 DEF DayInv
    <3>2. QED
      BY <1>1, <1>3, <2>1, <3>1 DEF IsDay
  <2>3. \A p \in Prefixes : p \in PrefixesOf(base)' => IsWritten(p)'
    BY <1>3, <1>8, <2>1
  <2>4. QED
    BY <1>1, <1>7, <2>1, <2>2, <2>3 DEF DayInv
<1>14. CASE CloseLegs(Day, DayFiles)
  <2>1. phase = "legsOpen" /\ phase' = "day" /\ rows' = rows /\ legs'[Day] = DayFiles
    BY <1>2, <1>9, <1>14 DEF CloseLegs
  <2>2. transfers' /\ IsDay(rows[Day], Day)'
    <3>1. transfers /\ IsDay(rows[Day], Day)
      BY <2>1 DEF DayInv
    <3>2. QED
      BY <1>1, <1>3, <2>1, <3>1 DEF IsDay
  <2>3. IsDay(legs[Day], Day)'
    BY <1>1, <1>2, <1>3, <2>1 DEF IsDay
  <2>4. QED
    BY <1>10, <2>1, <2>2, <2>3 DEF IsWritten
<1>15. QED
  BY <1>11, <1>12, <1>13, <1>14 DEF Write, WriteDay

LEMMA DayInvNext == RunInv /\ OrderInv /\ TypeOK /\ DayInv /\ [Next]_vars => DayInv'
<1> SUFFICES ASSUME RunInv, OrderInv, TypeOK, DayInv, [Next]_vars PROVE DayInv'
  OBVIOUS
<1>1. ASSUME NEW input \in Inputs, NEW t \in Transfers, NEW v \in Verifies,
             NEW n \in ThreadCounts, Begin(input, t, v, n)
      PROVE  DayInv'
  <2>1. /\ before' = [rows |-> rows, legs |-> legs] /\ rows' = rows /\ legs' = legs
        /\ base' = 0 /\ phase' = "group"
    BY <1>1 DEF Begin, dataset
  <2>2. \A p : IsUntouched(p)'
    BY <2>1 DEF IsUntouched
  <2>3. PrefixesOf(base)' = {}
    BY <2>1 DEF PrefixesOf
  <2>4. QED
    BY <2>1, <2>2, <2>3 DEF DayInv
<1>2. ASSUME NEW w \in Workers, Parse(w)
      PROVE  DayInv'
  <2>1. phase = "parse" /\ UNCHANGED <<phase, outcome, files, transfers, before, base, upto, rows, legs>>
    BY <1>2 DEF Parse, flags, cursor, dataset
  <2>2. QED
    BY <2>1, SameDays DEF Clean
<1>3. CASE NextDay
  <2>0. phase = "day" /\ UNCHANGED <<files, transfers, before, base, rows, legs>>
    BY <1>3 DEF NextDay, End, flags, cursor, dataset
  <2>1. CASE base = Len(files) \/ threads = 0
    <3>1. upto' = upto /\ phase' = "idle" /\ outcome'.how \in {"ok", "died"}
      BY <1>3, <2>1 DEF NextDay, End, cursor
    <3>2. QED
      BY <2>0, <3>1, SameDays DEF Clean
  <2>2. CASE ~ (base = Len(files) \/ threads = 0)
    <3>1. phase' = "parse" /\ upto' = DayEnd
      BY <1>3, <2>2 DEF NextDay
    <3>2. base \in Nat /\ base < Len(files) /\ Len(files) \in Nat
      BY <2>2 DEF RunInv
    <3>3. upto' \in base + 1 .. Len(files)
      BY <2>0, <3>1, <3>2, DayIsWhole
    <3>4. \A p : (IsWritten(p) <=> IsWritten(p)') /\ (IsUntouched(p) <=> IsUntouched(p)')
      BY <2>0 DEF IsWritten, IsUntouched, IsDay
    <3>5. PrefixesOf(base)' = PrefixesOf(base) /\ PrefixesOf(base) \subseteq PrefixesOf(upto)'
      BY <2>0, <3>2, <3>3 DEF PrefixesOf
    <3>6. \A p \in Prefixes : p \notin PrefixesOf(base) => IsUntouched(p)'
      BY <2>0, <3>4 DEF DayInv, Clean
    <3>7. QED
      BY <3>1, <3>4, <3>5, <3>6 DEF DayInv
  <2>3. QED
    BY <2>1, <2>2
<1>4. CASE Group \/ Join \/ VerifyChain
  <2>1. /\ phase \in Clean /\ UNCHANGED <<files, transfers, before, base, upto, rows, legs>>
        /\ phase' \in {"idle"} \cup Clean
    BY <1>4 DEF Group, Join, VerifyChain, End, flags, cursor, dataset, Clean
  <2>2. QED
    BY <2>1, SameDays
<1>5. CASE WriteFails \/ Crash
  <2>1. /\ phase' = "idle" /\ UNCHANGED <<files, transfers, before, base, upto, rows, legs>>
        /\ outcome'.how \in {"write", "died"}
    BY <1>5 DEF WriteFails, Crash, End, flags, cursor, dataset
  <2>2. QED
    BY <2>1, SameDays DEF Clean
<1>6. CASE UNCHANGED vars
  <2>1. UNCHANGED <<phase, outcome, files, transfers, before, base, upto, rows, legs>>
    BY <1>6 DEF vars
  <2>2. \A p : (IsWritten(p) <=> IsWritten(p)') /\ (IsUntouched(p) <=> IsUntouched(p)')
    BY <2>1 DEF IsWritten, IsUntouched, IsDay
  <2>3. PrefixesOf(base)' = PrefixesOf(base) /\ PrefixesOf(upto)' = PrefixesOf(upto) /\ Day' = Day
    BY <2>1 DEF PrefixesOf, Day
  <2>4. IsDay(rows[Day], Day)' <=> IsDay(rows[Day], Day)
    BY <2>1, <2>3 DEF IsDay
  <2>5. QED
    BY <2>1, <2>2, <2>3, <2>4 DEF DayInv
<1>7. QED
  BY <1>1, <1>2, <1>3, <1>4, <1>5, <1>6, WriteKeepsDays DEF Next, Run

(* Days are written whole and in order, and no day is half written but the *)
(* one at hand.                                                            *)
THEOREM DaysInOrderForever == Spec => []DaysAreWrittenInOrder
<1>1. DayInv => DaysAreWrittenInOrder
  BY DEF DayInv, DaysAreWrittenInOrder, IsWritten, IsUntouched
<1>2. Spec => []OrderInv
  BY OrderInit, OrderNext, RunInvForever, PTL DEF Spec
<1>3. Spec => []DayInv
  BY <1>2, DayInvInit, DayInvNext, RunInvForever, TypeOKForever, PTL DEF Spec
<1>4. QED
  BY <1>1, <1>3, PTL
=============================================================================
