--------------------------- MODULE BlockEtlProofs ---------------------------
(***************************************************************************)
(* A block-era run writes nothing before it has parsed and verified the    *)
(* whole directory, and every row it writes is on its own day, for every   *)
(* directory, every number of threads, every interleaving, crash and       *)
(* failed write.                                                           *)
(***************************************************************************)
EXTENDS BlockEtl, ChunkedParseProofs

----------------------------------------------------------------------------
(* The order of the files                                                  *)

Sorted ==
  /\ files \in Seq(File) /\ order \in Seq(1 .. Len(files)) /\ Len(order) = Len(files)
  /\ order \in NumberOrder

(* In the order, numbers do not go down.                                   *)
LEMMA NumbersClimb ==
  ASSUME Sorted, NEW k \in 1 .. Len(files), NEW l \in 1 .. Len(files), k <= l
  PROVE  /\ order[k] \in 1 .. Len(files) /\ order[l] \in 1 .. Len(files)
         /\ files[order[k]].number \in 0 .. U64Max
         /\ files[order[l]].number \in 0 .. U64Max
         /\ files[order[k]].number <= files[order[l]].number
<1>1. order[k] \in 1 .. Len(files) /\ order[l] \in 1 .. Len(files)
  BY DEF Sorted, NumberOrder
<1>2. files[order[k]] \in File /\ files[order[l]] \in File
  <2>1. \A i \in 1 .. Len(files) : files[i] \in File
    BY DEF Sorted
  <2>2. QED
    BY <1>1, <2>1
<1>3. files[order[k]].number \in 0 .. U64Max /\ files[order[l]].number \in 0 .. U64Max
  <2>1. \A f \in File : f.number \in 0 .. U64Max
    BY DEF File
  <2>2. QED
    BY <1>2, <2>1
<1>4. U64Max \in Nat
  BY BlockEtlConstants
<1>5. CASE k = l
  BY <1>1, <1>3, <1>4, <1>5
<1>6. CASE k # l
  <2>1. k < l
    BY <1>6
  <2>2. Before(order[k], order[l])
    BY <2>1 DEF Sorted, NumberOrder
  <2>3. QED
    BY <1>1, <1>3, <1>4, <2>2 DEF Before
<1>7. QED
  BY <1>5, <1>6

(* Where no window breaks, they go up, by one at a time.                   *)
LEMMA NumbersRise ==
  ASSUME Sorted, Breaks = {}, NEW k \in 1 .. Len(files), NEW l \in 1 .. Len(files), k < l
  PROVE  files[order[k]].number < files[order[l]].number
<1>1. k + 1 \in 2 .. Len(order) /\ k + 1 \in 1 .. Len(files) /\ k + 1 <= l /\ (k + 1) - 1 = k
  BY DEF Sorted
<1>2. FollowsBlock(files[order[k]], files[order[k + 1]])
  BY <1>1 DEF Breaks
<1>3. files[order[k + 1]].number = files[order[k]].number + 1
  BY <1>2 DEF FollowsBlock
<1>4. /\ files[order[k + 1]].number \in 0 .. U64Max
      /\ files[order[l]].number \in 0 .. U64Max
      /\ files[order[k + 1]].number <= files[order[l]].number
  BY <1>1, NumbersClimb
<1>5. files[order[k]].number \in 0 .. U64Max
  BY NumbersClimb
<1>6. U64Max \in Nat
  BY BlockEtlConstants
<1>7. PICK a \in Int : a = files[order[k]].number
  BY <1>5, <1>6
<1>8. PICK c \in Int : c = files[order[l]].number
  BY <1>4, <1>6
<1>9. a + 1 <= c
  BY <1>3, <1>4, <1>7, <1>8
<1>10. QED
  BY <1>7, <1>8, <1>9

(* Windows that all hold, in number order, make one history.               *)
LEMMA WindowsMakeHistory ==
  ASSUME Sorted, Breaks = {}
  PROVE  OneHistory
<1>0. \A i \in 1 .. Len(files) : \E k \in 1 .. Len(files) : order[k] = i
  BY DEF Sorted, NumberOrder
<1>1. ASSUME NEW i \in 1 .. Len(files), NEW j \in 1 .. Len(files),
             files[i].number = files[j].number
      PROVE  i = j
  <2>1. PICK k \in 1 .. Len(files) : order[k] = i
    BY <1>0
  <2>2. PICK l \in 1 .. Len(files) : order[l] = j
    BY <1>0
  <2>3. files[i].number \in Int /\ files[j].number \in Int
    BY <2>1, <2>2, NumbersClimb
  <2>4. ~ (k < l)
    <3>1. k < l => files[i].number < files[j].number
      BY <2>1, <2>2, NumbersRise
    <3>2. QED
      BY <1>1, <2>3, <3>1
  <2>5. ~ (l < k)
    <3>1. l < k => files[j].number < files[i].number
      BY <2>1, <2>2, NumbersRise
    <3>2. QED
      BY <1>1, <2>3, <3>1
  <2>6. QED
    BY <2>1, <2>2, <2>4, <2>5
<1>2. ASSUME NEW i \in 1 .. Len(files)
      PROVE  \/ \A j \in 1 .. Len(files) : files[i].number <= files[j].number
             \/ \E j \in 1 .. Len(files) :
                  files[i].number = files[j].number + 1 /\ files[i].prev = files[j].root
  <2>1. PICK k \in 1 .. Len(files) : order[k] = i
    BY <1>0
  <2>2. CASE k = 1
    <3>1. ASSUME NEW j \in 1 .. Len(files)
          PROVE  files[i].number <= files[j].number
      <4>1. PICK l \in 1 .. Len(files) : order[l] = j
        BY <1>0
      <4>2. k <= l
        BY <2>2
      <4>3. QED
        BY <2>1, <4>1, <4>2, NumbersClimb
    <3>2. QED
      BY <3>1
  <2>3. CASE k # 1
    <3>1. k \in 2 .. Len(order) /\ k - 1 \in 1 .. Len(files) /\ k - 1 <= k
      BY <2>3 DEF Sorted
    <3>2. FollowsBlock(files[order[k - 1]], files[order[k]])
      BY <3>1 DEF Breaks
    <3>3. order[k - 1] \in 1 .. Len(files)
      BY <3>1, NumbersClimb
    <3>4. QED
      BY <2>1, <3>2, <3>3 DEF FollowsBlock
  <2>4. QED
    BY <2>2, <2>3
<1>3. QED
  BY <1>1, <1>2 DEF OneHistory

(* A window that breaks leaves no one history: the block before it, in the *)
(* order, is the only one it could follow.                                 *)
LEMMA BreakIsNoHistory ==
  ASSUME Sorted, NEW k \in Breaks
  PROVE  ~ OneHistory
<1> SUFFICES ASSUME OneHistory PROVE FALSE
  OBVIOUS
<1>0. U64Max \in Nat
  BY BlockEtlConstants
<1>1. k \in 2 .. Len(order) /\ k \in 1 .. Len(files) /\ k - 1 \in 1 .. Len(files) /\ k - 1 < k
  BY DEF Breaks, Sorted
<1>2. ~ FollowsBlock(files[order[k - 1]], files[order[k]])
  BY DEF Breaks
<1> DEFINE i == order[k]
<1> DEFINE h == order[k - 1]
<1>3. /\ i \in 1 .. Len(files) /\ h \in 1 .. Len(files)
      /\ files[i].number \in 0 .. U64Max /\ files[h].number \in 0 .. U64Max
      /\ files[h].number <= files[i].number
  BY <1>1, NumbersClimb
<1>4. i # h
  <2>1. Before(h, i)
    BY <1>1 DEF Sorted, NumberOrder
  <2>2. QED
    BY <1>0, <1>3, <2>1 DEF Before
<1>5. files[h].number < files[i].number
  <2>1. files[h].number # files[i].number
    BY <1>3, <1>4 DEF OneHistory
  <2>2. QED
    BY <1>0, <1>3, <2>1
<1>6. PICK j \in 1 .. Len(files) :
        files[i].number = files[j].number + 1 /\ files[i].prev = files[j].root
  <2>1. ~ \A j \in 1 .. Len(files) : files[i].number <= files[j].number
    BY <1>0, <1>3, <1>5
  <2>2. QED
    BY <1>3, <2>1 DEF OneHistory
<1>7. PICK l \in 1 .. Len(files) : order[l] = j
  BY DEF Sorted, NumberOrder
<1>8. files[j].number \in 0 .. U64Max
  BY <1>7, NumbersClimb
<1>9. l < k
  <2>1. CASE k <= l
    <3>1. files[i].number <= files[j].number
      BY <1>1, <1>7, <2>1, NumbersClimb
    <3>2. QED
      BY <1>0, <1>3, <1>6, <1>8, <3>1
  <2>2. QED
    BY <1>1, <2>1
<1>10. files[j].number <= files[h].number
  <2>1. l <= k - 1
    BY <1>1, <1>9
  <2>2. QED
    BY <1>1, <1>7, <2>1, NumbersClimb
<1>11. files[j].number = files[h].number
  BY <1>0, <1>3, <1>5, <1>6, <1>8, <1>10
<1>12. j = h
  BY <1>3, <1>11 DEF OneHistory
<1>13. FollowsBlock(files[h], files[i])
  BY <1>0, <1>3, <1>6, <1>8, <1>12 DEF FollowsBlock
<1>14. QED
  BY <1>2, <1>13
----------------------------------------------------------------------------
(* The run                                                                 *)

AllOk == \A i \in 1 .. Len(files) : files[i].ok

Verified == AllOk /\ (verify => OneHistory)

(* The rows are written only in these phases.                              *)
Started == Writing \cup {"day"}

(* What the phases have established when they are left.                    *)
RunInv ==
  /\ TypeOK
  /\ phase = "parse" => /\ ParseInv
                        /\ count = Len(files)
                        /\ bad = {i \in 1 .. Len(files) : ~ files[i].ok}
  /\ phase # "idle" => outcome.how = "none"
  /\ phase \in {"parse", "verify"} => /\ left = {}
                                      /\ rows = before.rows /\ legs = before.legs
  /\ phase = "verify" => AllOk /\ Sorted
  /\ phase \in Started => Verified
  /\ phase \in Writing => left # {}
  /\ NothingIsWrittenUnverified
  /\ ErrorNamesFirstFile

LEMMA RunInvInit == Init => RunInv
<1> SUFFICES ASSUME Init PROVE RunInv
  OBVIOUS
<1>1. files = << >> /\ files \in Seq(File) /\ Len(files) = 0 /\ phase = "idle"
  BY DEF Init
<1>2. outcome = [how |-> "none", file |-> 0]
  BY DEF Init
<1>3. TypeOK
  <2>1. rows \in Table /\ legs \in Table /\ before \in [rows : Table, legs : Table]
    BY DEF Init, Nothing, Table
  <2>2. count \in Nat /\ bad \subseteq 1 .. count /\ failed \subseteq DOMAIN at
    BY DEF Init, NoParse
  <2>3. DOMAIN at \subseteq Nat /\ at \in [DOMAIN at -> 1 .. count + 1]
    BY DEF Init, NoParse
  <2>4. order \in Seq(1 .. Len(files)) /\ left \subseteq Days
    BY DEF Init
  <2>5. outcome \in [how : {"none", "ok", "parse", "chain", "write", "died"},
                     file : 0 .. Len(files)]
    BY <1>1, <1>2
  <2>6. runs \in 0 .. MaxRuns
    BY BlockEtlConstants DEF Init
  <2>7. threads \in Nat /\ transfers \in BOOLEAN /\ verify \in BOOLEAN
    BY DEF Init
  <2>8. QED
    BY <1>1, <2>1, <2>2, <2>3, <2>4, <2>5, <2>6, <2>7 DEF TypeOK
<1>4. NothingIsWrittenUnverified
  BY <1>2 DEF Init, NothingIsWrittenUnverified
<1>5. ErrorNamesFirstFile
  BY <1>2 DEF ErrorNamesFirstFile
<1>6. QED
  BY <1>1, <1>2, <1>3, <1>4, <1>5 DEF RunInv, Writing, Started

(* A run that ends has left everything else as it was.                     *)
Standing == <<parse, files, threads, transfers, verify, before, runs, rows, legs>>

Quiet == {"died", "write"}

Result == [how : {"none", "ok", "parse", "chain", "write", "died"}, file : 0 .. Len(files)]

LEMMA EndKeeps ==
  ASSUME RunInv, UNCHANGED <<Standing, order, left>>, phase' = "idle",
         outcome' \in Result,
         outcome'.how = "ok" => Verified,
         outcome'.how = "parse" =>
           ~ files[outcome'.file].ok /\ \A i \in 1 .. outcome'.file - 1 : files[i].ok,
         outcome'.how = "chain" => ~ OneHistory
  PROVE  RunInv'
<1>1. UNCHANGED <<count, bad, at, failed, files, threads, transfers, verify, before,
                  runs, rows, legs, order, left>>
  BY DEF Standing, parse
<1>2. (AllOk <=> AllOk') /\ (OneHistory <=> OneHistory') /\ (Verified <=> Verified')
  BY <1>1 DEF AllOk, OneHistory, Verified
<1>3. TypeOK'
  BY <1>1 DEF RunInv, TypeOK, Result, Table
<1>4. NothingIsWrittenUnverified'
  <2>1. ASSUME rows # before.rows \/ legs # before.legs
        PROVE  Verified
    BY <2>1 DEF RunInv, NothingIsWrittenUnverified, Verified, AllOk
  <2>2. (rows' # before'.rows \/ legs' # before'.legs \/ outcome'.how = "ok") => Verified'
    BY <1>1, <1>2, <2>1
  <2>3. QED
    BY <2>2 DEF NothingIsWrittenUnverified, Verified, AllOk
<1>5. ErrorNamesFirstFile'
  BY <1>1, <1>2 DEF ErrorNamesFirstFile
<1>6. QED
  BY <1>3, <1>4, <1>5 DEF RunInv, Writing, Started

LEMMA QuietEnd ==
  ASSUME RunInv, UNCHANGED <<Standing, order, left>>, NEW how \in Quiet, End(how, 0)
  PROVE  RunInv'
<1>1. phase' = "idle" /\ outcome' = [how |-> how, file |-> 0]
  BY DEF End
<1>2. Len(files) \in Nat
  BY DEF RunInv, TypeOK
<1>3. outcome' \in Result /\ outcome'.how \notin {"ok", "parse", "chain"}
  BY <1>1, <1>2 DEF Result, Quiet
<1>4. QED
  BY <1>1, <1>3, EndKeeps

LEMMA BeginKeeps ==
  ASSUME RunInv, NEW input \in Inputs, NEW t \in Transfers, NEW v \in Verifies,
         NEW n \in ThreadCounts, Begin(input, t, v, n)
  PROVE  RunInv'
<1>1. input \in Seq(File) /\ t \in BOOLEAN /\ v \in BOOLEAN /\ n \in Nat /\ Len(input) \in Nat
  BY BlockEtlConstants
<1>2. /\ files' = input /\ transfers' = t /\ verify' = v /\ threads' = n
      /\ before' = [rows |-> rows, legs |-> legs] /\ rows' = rows /\ legs' = legs
      /\ order' = << >> /\ left' = {} /\ runs' = runs + 1 /\ runs < MaxRuns
  BY DEF Begin, dataset
<1>3. /\ files' \in Seq(File) /\ order' \in Seq(1 .. Len(files')) /\ left' \subseteq Days
      /\ rows' \in Table /\ legs' \in Table
      /\ before' \in [rows : Table, legs : Table] /\ runs' \in 0 .. MaxRuns
      /\ threads' \in Nat /\ transfers' \in BOOLEAN /\ verify' \in BOOLEAN
  <2>1. rows \in Table /\ legs \in Table /\ runs \in 0 .. MaxRuns
    BY DEF RunInv, TypeOK
  <2>2. runs' \in 0 .. MaxRuns
    BY <1>2, <2>1, BlockEtlConstants
  <2>3. QED
    BY <1>1, <1>2, <2>1, <2>2
<1>4. outcome' \in Result' /\ outcome'.how \in {"none", "died"} /\ phase' \in {"idle", "parse"}
      /\ (phase' # "idle" => outcome'.how = "none")
  <2>1. outcome' = [how |-> "died", file |-> 0] \/ outcome' = [how |-> "none", file |-> 0]
    BY DEF Begin, End
  <2>2. phase' \in {"idle", "parse"} /\ (phase' # "idle" => outcome' = [how |-> "none", file |-> 0])
    BY DEF Begin, End
  <2>3. QED
    BY <1>1, <1>2, <2>1, <2>2 DEF Result
<1>5. NothingIsWrittenUnverified' /\ ErrorNamesFirstFile'
  BY <1>2, <1>4 DEF NothingIsWrittenUnverified, ErrorNamesFirstFile
<1>6. /\ ParseTypeOK'
      /\ phase' = "parse" => /\ ParseInv' /\ count' = Len(files')
                             /\ bad' = {i \in 1 .. Len(files') : ~ files'[i].ok}
  <2>1. CASE n = 0
    BY <2>1 DEF Begin, End, ParseTypeOK
  <2>2. CASE n # 0
    <3> DEFINE B == {i \in 1 .. Len(input) : ~ input[i].ok}
    <3>1. Spawn(Len(input), B)
      BY <2>2 DEF Begin
    <3>2. threads' \in Nat \ {0} /\ B \in SUBSET (1 .. Len(input))
      BY <1>1, <1>2, <2>2
    <3>3. count' = Len(input) /\ bad' = B
      BY <3>1 DEF Spawn
    <3>4. ParseInv'
      <4> HIDE DEF B
      <4>1. PICK m \in Nat : m = Len(input)
        BY <1>1
      <4>2. Spawn(m, B) /\ B \in SUBSET (1 .. m)
        BY <3>1, <3>2, <4>1
      <4>3. QED
        BY <3>2, <4>2, SpawnStarts
    <3>5. AtIsFunction'
      BY <3>1 DEF Spawn, AtIsFunction
    <3>6. ParseTypeOK'
      BY <3>4, <3>5, ParseTypes, PTL
    <3>7. QED
      BY <1>2, <3>3, <3>4, <3>6
  <2>3. QED
    BY <2>1, <2>2
<1>7. TypeOK'
  BY <1>3, <1>4, <1>6 DEF TypeOK, ParseTypeOK, Result, Writing
<1>8. QED
  BY <1>2, <1>4, <1>5, <1>6, <1>7 DEF RunInv, Started, Writing

LEMMA ParseKeepsRun ==
  ASSUME RunInv, NEW w \in Workers, Parse(w)
  PROVE  RunInv'
<1>1. /\ phase = "parse" /\ ParseNext(w) /\ count' = count /\ bad' = bad
      /\ UNCHANGED <<files, threads, transfers, verify, before, runs,
                     phase, outcome, order, left, rows, legs>>
  BY DEF Parse, ParseNext, flags, dataset
<1>2. ParseInv'
  BY <1>1, ParseKeeps DEF RunInv
<1>3. AtIsFunction'
  <2>1. at = [v \in DOMAIN at |-> at[v]]
    BY DEF RunInv, TypeOK
  <2>2. at' = at \/ at' = [at EXCEPT ![w] = @ + 1]
    BY <1>1 DEF ParseNext
  <2>3. QED
    BY <2>1, <2>2 DEF AtIsFunction
<1>4. ParseTypeOK'
  BY <1>2, <1>3, ParseTypes, PTL
<1>5. TypeOK'
  BY <1>1, <1>4 DEF RunInv, TypeOK, ParseTypeOK, Table
<1>6. NothingIsWrittenUnverified' /\ ErrorNamesFirstFile'
  BY <1>1 DEF RunInv, NothingIsWrittenUnverified, ErrorNamesFirstFile, OneHistory
<1>7. QED
  BY <1>1, <1>2, <1>5, <1>6 DEF RunInv, Started, Writing

(* A parse error names the first file that fails; without one, all parsed. *)
LEMMA JoinKeeps == ASSUME RunInv, Join PROVE RunInv'
<1>1. /\ phase = "parse" /\ ParseInv /\ Joined /\ count = Len(files)
      /\ bad = {i \in 1 .. Len(files) : ~ files[i].ok}
      /\ UNCHANGED <<parse, files, threads, transfers, verify, before, runs, left, rows, legs>>
  BY DEF RunInv, Join, flags, dataset
<1>2. CASE failed # {}
  <2>1. phase' = "idle" /\ outcome' = [how |-> "parse", file |-> FirstError] /\ order' = order
    BY <1>2 DEF Join, End
  <2>2. FirstError \in bad /\ \A i \in bad : FirstError <= i
    BY <1>1, <1>2, FirstErrorIsFirst
  <2>3. PICK f \in 1 .. Len(files) : f = FirstError
    BY <1>1, <2>2
  <2>4. ~ files[f].ok /\ \A i \in 1 .. f - 1 : files[i].ok
    <3>1. ASSUME NEW i \in 1 .. f - 1, ~ files[i].ok
          PROVE  FALSE
      <4>1. Len(files) \in Nat
        BY DEF RunInv, TypeOK
      <4>2. i \in bad /\ ~ (f <= i)
        BY <1>1, <3>1, <4>1
      <4>3. QED
        BY <2>2, <2>3, <4>2
    <3>2. QED
      BY <1>1, <2>2, <2>3, <3>1
  <2>5. outcome' = [how |-> "parse", file |-> f] /\ f \in 0 .. Len(files)
    BY <2>1, <2>3
  <2>6. outcome' \in Result
    BY <2>5 DEF Result
  <2>7. UNCHANGED <<Standing, order, left>>
    BY <1>1, <2>1 DEF Standing
  <2>8. QED
    BY <2>1, <2>4, <2>5, <2>6, <2>7, EndKeeps
<1>3. CASE failed = {}
  <2>1. phase' = "verify" /\ order' \in NumberOrder /\ outcome' = outcome
    BY <1>3 DEF Join
  <2>2. bad = {}
    BY <1>1, <1>3, JoinedMeansAllParsed
  <2>3. AllOk'
    BY <1>1, <2>2 DEF AllOk
  <2>4. files' = files /\ files \in Seq(File) /\ Len(files) \in Nat
    BY <1>1 DEF RunInv, TypeOK
  <2>5. order' \in [1 .. Len(files) -> 1 .. Len(files)]
    BY <2>1 DEF NumberOrder
  <2>6. order' \in Seq(1 .. Len(files)) /\ Len(order') = Len(files)
    BY <2>4, <2>5
  <2>7. Sorted'
    BY <2>1, <2>4, <2>6 DEF Sorted, NumberOrder, Before
  <2>8. TypeOK'
    BY <1>1, <2>1, <2>6 DEF RunInv, TypeOK, Table, parse, Writing
  <2>9. NothingIsWrittenUnverified' /\ ErrorNamesFirstFile'
    BY <1>1, <2>1 DEF RunInv, NothingIsWrittenUnverified, ErrorNamesFirstFile, OneHistory
  <2>10. QED
    BY <1>1, <2>1, <2>3, <2>7, <2>8, <2>9 DEF RunInv, Started, Writing
<1>4. QED
  BY <1>2, <1>3

(* The windows decide between one history and an error.                    *)
LEMMA VerifyKeeps == ASSUME RunInv, VerifyAndGroup PROVE RunInv'
<1>1. /\ phase = "verify" /\ AllOk /\ Sorted /\ left = {} /\ outcome.how = "none"
      /\ UNCHANGED <<parse, files, threads, transfers, verify, before, runs, order, rows, legs>>
  BY DEF RunInv, VerifyAndGroup, flags, dataset
<1>2. CASE verify /\ Breaks # {}
  <2>1. PICK k \in Breaks : End("chain", order[k])
    BY <1>2 DEF VerifyAndGroup
  <2>2. k \in 1 .. Len(files)
    BY <1>1 DEF Breaks, Sorted
  <2>3. order[k] \in 1 .. Len(files)
    BY <1>1, <2>2, NumbersClimb
  <2>4. outcome' = [how |-> "chain", file |-> order[k]] /\ phase' = "idle"
    BY <2>1 DEF End
  <2>5. outcome' \in Result
    BY <2>3, <2>4 DEF Result
  <2>6. ~ OneHistory
    BY <1>1, BreakIsNoHistory
  <2>7. left' = left
    BY <1>2 DEF VerifyAndGroup
  <2>8. UNCHANGED <<Standing, order, left>>
    BY <1>1, <2>7 DEF Standing
  <2>9. QED
    BY <2>4, <2>5, <2>6, <2>8, EndKeeps
<1>3. CASE ~ (verify /\ Breaks # {})
  <2>1. phase' = "day" /\ left' = {row[2].day : row \in AllRows} /\ outcome' = outcome
    BY <1>3 DEF VerifyAndGroup
  <2>2. verify => OneHistory
    BY <1>1, <1>3, WindowsMakeHistory
  <2>3. Verified'
    BY <1>1, <2>2 DEF Verified, AllOk, OneHistory
  <2>4. left' \subseteq Days
    <3>1. ASSUME NEW i \in 1 .. Len(files), NEW tx \in files[i].txs
          PROVE  tx.day \in Days
      <4>1. files[i] \in File
        BY <1>1 DEF Sorted
      <4>2. QED
        BY <4>1 DEF File, Row
    <3>2. QED
      BY <2>1, <3>1 DEF AllRows
  <2>5. TypeOK'
    BY <1>1, <2>1, <2>4 DEF RunInv, TypeOK, Table, parse, Writing
  <2>6. NothingIsWrittenUnverified' /\ ErrorNamesFirstFile'
    BY <1>1, <2>1 DEF RunInv, NothingIsWrittenUnverified, ErrorNamesFirstFile, OneHistory
  <2>7. QED
    BY <1>1, <2>1, <2>3, <2>5, <2>6 DEF RunInv, Started, Writing
<1>4. QED
  BY <1>2, <1>3

(* The day at hand is the first that is left.                              *)
LEMMA DayIsFirst ==
  ASSUME left \subseteq Days, left # {}
  PROVE  Day \in left /\ Day \in Nat /\ \A e \in left : Day <= e
<1>1. left \in SUBSET Nat
  BY BlockEtlConstants
<1>2. \E d \in left : \A e \in left : d <= e
  BY <1>1, LeastExists
<1>3. QED
  BY <1>1, <1>2 DEF Day

(* The rows of the day at hand are all those of the directory on it.       *)
LEMMA DayRowsAreAll == DayRows = RowsOn(Day)
<1>1. ASSUME NEW tx \in DayRows
      PROVE  tx \in RowsOn(Day)
  <2>1. PICK row \in AllRows : row[2].day = Day /\ tx = row[2]
    BY DEF DayRows
  <2>2. PICK i \in 1 .. Len(files) : row \in {<<i, t>> : t \in files[i].txs}
    BY DEF AllRows
  <2>3. tx \in files[i].txs
    BY <2>1, <2>2
  <2>4. QED
    BY <2>1, <2>3 DEF RowsOn
<1>2. ASSUME NEW tx \in RowsOn(Day)
      PROVE  tx \in DayRows
  <2>1. PICK i \in 1 .. Len(files) : tx \in files[i].txs
    BY DEF RowsOn
  <2>2. <<i, tx>> \in AllRows /\ tx.day = Day
    BY <2>1 DEF AllRows, RowsOn
  <2>3. QED
    BY <2>2 DEF DayRows
<1>3. QED
  BY <1>1, <1>2

LEMMA NextDayKeeps == ASSUME RunInv, NextDay PROVE RunInv'
<1>1. /\ phase = "day" /\ Verified /\ outcome.how = "none"
      /\ UNCHANGED <<Standing, order, left>>
  BY DEF RunInv, NextDay, Standing, flags, dataset, Started
<1>2. CASE left = {}
  <2>1. phase' = "idle" /\ outcome' = [how |-> "ok", file |-> 0]
    BY <1>2 DEF NextDay, End
  <2>2. Len(files) \in Nat
    BY DEF RunInv, TypeOK
  <2>3. outcome' \in Result
    BY <2>1, <2>2 DEF Result
  <2>4. QED
    BY <1>1, <2>1, <2>3, EndKeeps
<1>3. CASE left # {}
  <2>1. phase' = "rows" /\ outcome' = outcome
    BY <1>3 DEF NextDay
  <2>2. Verified'
    BY <1>1 DEF Verified, AllOk, OneHistory, Standing
  <2>3. TypeOK'
    BY <1>1, <2>1 DEF RunInv, TypeOK, Table, Standing, parse, Writing
  <2>4. NothingIsWrittenUnverified' /\ ErrorNamesFirstFile'
    BY <1>1, <2>1 DEF RunInv, NothingIsWrittenUnverified, ErrorNamesFirstFile, OneHistory,
                      Standing
  <2>5. QED
    BY <1>1, <1>3, <2>1, <2>2, <2>3, <2>4 DEF RunInv, Started, Writing
<1>4. QED
  BY <1>2, <1>3

LEMMA WriteKeeps == ASSUME RunInv, Write PROVE RunInv'
<1>1. /\ phase \in Writing /\ Verified /\ outcome.how = "none" /\ left # {}
      /\ phase' \in Started
      /\ left' = (IF phase' = "day" THEN left \ {Day} ELSE left)
      /\ UNCHANGED <<parse, files, threads, transfers, verify, before, runs, order, outcome>>
  BY DEF RunInv, Write, WriteDay, OpenRows, CloseRows, OpenLegs, CloseLegs, Writing, Started,
         flags
<1>2. Day \in Days
  BY <1>1, DayIsFirst DEF RunInv, TypeOK
<1>3. DayRows \in SUBSET Row
  <2>1. ASSUME NEW i \in 1 .. Len(files)
        PROVE  files[i].txs \subseteq Row
    <3>1. files[i] \in File
      BY DEF RunInv, TypeOK
    <3>2. QED
      BY <3>1 DEF File
  <2>2. RowsOn(Day) \subseteq Row
    BY <2>1 DEF RowsOn
  <2>3. QED
    BY <2>2, DayRowsAreAll
<1>4. rows' \in Table /\ legs' \in Table
  <2>1. rows \in Table /\ legs \in Table
    BY DEF RunInv, TypeOK
  <2>2. rows' = rows \/ \E c \in {Torn, DayRows} : rows' = [rows EXCEPT ![Day] = c]
    BY DEF Write, WriteDay, OpenRows, CloseRows, OpenLegs, CloseLegs
  <2>3. legs' = legs \/ \E c \in {Torn, DayRows} : legs' = [legs EXCEPT ![Day] = c]
    BY DEF Write, WriteDay, OpenRows, CloseRows, OpenLegs, CloseLegs
  <2> DEFINE V == {Absent, Torn} \cup SUBSET Row
  <2>4. Table = [Days -> V] /\ {Torn, DayRows} \subseteq V
    BY <1>3 DEF Table
  <2> HIDE DEF V
  <2>5. QED
    BY <2>1, <2>2, <2>3, <2>4
<1>5. Verified'
  BY <1>1 DEF Verified, AllOk, OneHistory
<1>6. left' \subseteq Days /\ (phase' # "day" => left' # {})
  BY <1>1 DEF RunInv, TypeOK
<1>7. TypeOK'
  BY <1>1, <1>4, <1>6 DEF RunInv, TypeOK, Table, parse, Started
<1>8. NothingIsWrittenUnverified'
  BY <1>5 DEF NothingIsWrittenUnverified, Verified, AllOk
<1>9. ErrorNamesFirstFile'
  BY <1>1 DEF ErrorNamesFirstFile
<1>10. QED
  BY <1>1, <1>5, <1>6, <1>7, <1>8, <1>9 DEF RunInv, Started, Writing

LEMMA StutterKeeps == ASSUME RunInv, UNCHANGED vars PROVE RunInv'
<1>1. UNCHANGED <<Standing, phase, outcome, order, left>>
  BY DEF vars, Standing, parse
<1>2. (phase = "parse" => ParseInv)'
  <2>1. UNCHANGED parse /\ threads' = threads /\ phase' = phase
    BY <1>1 DEF Standing
  <2>2. QED
    BY <2>1, ParseUnchanged DEF RunInv
<1>3. (TypeOK /\ NothingIsWrittenUnverified /\ ErrorNamesFirstFile /\ (OneHistory <=> OneHistory))'
  BY <1>1 DEF RunInv, TypeOK, Table, NothingIsWrittenUnverified, ErrorNamesFirstFile,
              OneHistory, Standing, parse
<1>4. (Verified <=> Verified') /\ (AllOk <=> AllOk') /\ (Sorted <=> Sorted')
  BY <1>1 DEF Verified, AllOk, Sorted, NumberOrder, Before, OneHistory, Standing
<1>5. QED
  BY <1>1, <1>2, <1>3, <1>4 DEF RunInv, Standing, parse

LEMMA RunInvNext == RunInv /\ [Next]_vars => RunInv'
<1> SUFFICES ASSUME RunInv, [Next]_vars PROVE RunInv'
  OBVIOUS
<1>1. ASSUME NEW input \in Inputs, NEW t \in Transfers, NEW v \in Verifies,
             NEW n \in ThreadCounts, Begin(input, t, v, n)
      PROVE  RunInv'
  BY <1>1, BeginKeeps
<1>2. ASSUME NEW w \in Workers, Parse(w)
      PROVE  RunInv'
  BY <1>2, ParseKeepsRun
<1>3. CASE WriteFails
  <2>1. End("write", 0) /\ UNCHANGED <<Standing, order, left>>
    BY <1>3 DEF WriteFails, Standing, flags, dataset
  <2>2. QED
    BY <2>1, QuietEnd DEF Quiet
<1>4. CASE Crash
  <2>1. End("died", 0) /\ UNCHANGED <<Standing, order, left>>
    BY <1>4 DEF Crash, Standing, flags, dataset
  <2>2. QED
    BY <2>1, QuietEnd DEF Quiet
<1>5. QED
  BY <1>1, <1>2, <1>3, <1>4, JoinKeeps, VerifyKeeps, NextDayKeeps, WriteKeeps, StutterKeeps
     DEF Next, Run

LEMMA RunInvForever == Spec => []RunInv
BY RunInvInit, RunInvNext, PTL DEF Spec

(* Every variable of a block-era run keeps its type.                       *)
THEOREM TypeOKForever == Spec => []TypeOK
<1>1. RunInv => TypeOK
  BY DEF RunInv
<1>2. QED
  BY <1>1, RunInvForever, PTL

(* Nothing is written before the whole directory is parsed and, if asked,  *)
(* shown to be one history.                                                *)
THEOREM VerifiedFirst == Spec => []NothingIsWrittenUnverified
<1>1. RunInv => NothingIsWrittenUnverified
  BY DEF RunInv
<1>2. QED
  BY <1>1, RunInvForever, PTL

(* A parse error names the first file that fails, a chain error is raised  *)
(* only where there is no one history.                                     *)
THEOREM ErrorsNameFirstFile == Spec => []ErrorNamesFirstFile
<1>1. RunInv => ErrorNamesFirstFile
  BY DEF RunInv
<1>2. QED
  BY <1>1, RunInvForever, PTL
----------------------------------------------------------------------------
(* The days                                                                *)

HasStarted == phase \in Started \/ outcome.how \in {"ok", "write"}

(* The days behind the run are written whole, the day at hand holds what   *)
(* its phase has written, those ahead are as they were.                    *)
DayInv ==
  /\ HasStarted => \A d \in Days : d \notin left /\ RowsOn(d) # {} =>
       rows[d] = RowsOn(d) /\ legs[d] = IF transfers THEN RowsOn(d) ELSE before.legs[d]
  /\ \A d \in Days : RowsOn(d) = {} \/ (\E e \in left : e < d) =>
       rows[d] = before.rows[d] /\ legs[d] = before.legs[d]
  /\ \A d \in left : RowsOn(d) # {}
  /\ phase \in {"day", "rows", "rowsOpen", "legs"} => \A d \in left : legs[d] = before.legs[d]
  /\ phase = "day" => \A d \in left : rows[d] = before.rows[d]
  /\ phase \in {"legs", "legsOpen"} => transfers /\ rows[Day] = RowsOn(Day)

LEMMA DayInvInit == Init => DayInv
<1> SUFFICES ASSUME Init PROVE DayInv
  OBVIOUS
<1>1. phase = "idle" /\ outcome.how = "none" /\ left = {}
  BY DEF Init
<1>2. before.rows = rows /\ before.legs = legs
  BY DEF Init
<1>3. QED
  BY <1>1, <1>2 DEF DayInv, HasStarted, Started, Writing

(* A step that leaves the dataset and the days left alone.                 *)
LEMMA SameDays ==
  ASSUME DayInv, UNCHANGED <<files, transfers, before, left, rows, legs>>,
         HasStarted' => HasStarted,
         phase' \in {"idle", "parse", "verify", "rows"},
         phase' = "rows" => phase = "day"
  PROVE  DayInv'
<1>1. \A d : RowsOn(d)' = RowsOn(d)
  BY DEF RowsOn
<1>2. phase' \notin {"day", "rowsOpen", "legs", "legsOpen"}
  OBVIOUS
<1>3. QED
  BY <1>1, <1>2 DEF DayInv

LEMMA WriteKeepsDays == ASSUME RunInv, DayInv, Write PROVE DayInv'
<1>1. /\ phase \in Writing /\ outcome.how = "none" /\ left # {} /\ left \subseteq Days
      /\ rows \in Table /\ legs \in Table
      /\ UNCHANGED <<files, transfers, before, outcome>>
      /\ left' = (IF phase' = "day" THEN left \ {Day} ELSE left)
  BY DEF RunInv, TypeOK, Write, WriteDay, OpenRows, CloseRows, OpenLegs, CloseLegs, Writing,
         flags
<1>2. Day \in left /\ Day \in Nat /\ Day \in Days /\ \A e \in left : Day <= e
  BY <1>1, DayIsFirst
<1>3. \A d : RowsOn(d)' = RowsOn(d)
  BY <1>1 DEF RowsOn
<1>4. DayRows = RowsOn(Day) /\ HasStarted
  BY <1>1, DayRowsAreAll DEF HasStarted, Started
<1>5. \A d \in Days : d \in Nat
  BY BlockEtlConstants
(* Only the day at hand moves.                                             *)
<1>6. \A d \in Days \ {Day} : rows'[d] = rows[d] /\ legs'[d] = legs[d]
  <2>1. rows' = rows \/ \E c : rows' = [rows EXCEPT ![Day] = c]
    BY DEF Write, WriteDay, OpenRows, CloseRows, OpenLegs, CloseLegs
  <2>2. legs' = legs \/ \E c : legs' = [legs EXCEPT ![Day] = c]
    BY DEF Write, WriteDay, OpenRows, CloseRows, OpenLegs, CloseLegs
  <2>3. QED
    BY <1>1, <2>1, <2>2 DEF Table
<1>7. \A d \in Days : RowsOn(d) = {} \/ (\E e \in left' : e < d) =>
        d # Day /\ (RowsOn(d) = {} \/ \E e \in left : e < d)
  <2>1. left' \subseteq left
    BY <1>1
  <2>2. RowsOn(Day) # {}
    BY <1>2 DEF DayInv
  <2>3. \A e \in left' : ~ (e < Day)
    BY <1>1, <1>2, <1>5, <2>1
  <2>4. QED
    BY <2>1, <2>2, <2>3
<1>8. \A d \in Days : RowsOn(d)' = {} \/ (\E e \in left' : e < d) =>
        rows'[d] = before'.rows[d] /\ legs'[d] = before'.legs[d]
  BY <1>1, <1>3, <1>6, <1>7 DEF DayInv
<1>9. \A d \in left' : RowsOn(d)' # {}
  BY <1>1, <1>3 DEF DayInv
<1>10. \A d \in Days \ {Day} : d \notin left' /\ RowsOn(d)' # {} =>
         rows'[d] = RowsOn(d)' /\ legs'[d] = IF transfers' THEN RowsOn(d)' ELSE before'.legs[d]
  BY <1>1, <1>3, <1>4, <1>6 DEF DayInv
<1>11. \A d \in left \ {Day} : d \in Days /\ d \in Nat /\ Day < d
  BY <1>1, <1>2, <1>5
<1>12. \A d \in left \ {Day} : rows[d] = before.rows[d] /\ legs[d] = before.legs[d]
  BY <1>2, <1>11 DEF DayInv
<1>13. \A d \in left \ {Day} : rows'[d] = before'.rows[d] /\ legs'[d] = before'.legs[d]
  BY <1>1, <1>6, <1>11, <1>12
<1>14. DOMAIN rows = Days /\ DOMAIN legs = Days
  BY <1>1 DEF Table
<1>15. CASE OpenRows(Day)
  <2>1. phase = "rows" /\ phase' = "rowsOpen" /\ left' = left /\ legs' = legs
    BY <1>1, <1>15 DEF OpenRows
  <2>2. \A d \in left' : legs'[d] = before'.legs[d]
    BY <1>1, <2>1 DEF DayInv
  <2>3. QED
    BY <1>2, <1>8, <1>9, <1>10, <2>1, <2>2 DEF DayInv
<1>16. CASE CloseRows(Day, DayRows)
  <2>1. phase = "rowsOpen" /\ legs' = legs /\ rows'[Day] = RowsOn(Day)
        /\ phase' = IF transfers THEN "legs" ELSE "day"
    BY <1>2, <1>4, <1>14, <1>16 DEF CloseRows
  <2>2. \A d \in left : legs'[d] = before'.legs[d]
    BY <1>1, <2>1 DEF DayInv
  <2>3. CASE transfers
    <3>1. phase' = "legs" /\ left' = left
      BY <1>1, <2>1, <2>3
    <3>2. Day' = Day
      BY <3>1 DEF Day
    <3>3. rows'[Day'] = RowsOn(Day)' /\ transfers'
      BY <1>1, <1>3, <2>1, <2>3, <3>2
    <3>4. QED
      BY <1>2, <1>8, <1>9, <1>10, <2>2, <3>1, <3>3 DEF DayInv
  <2>4. CASE ~ transfers
    <3>1. phase' = "day" /\ left' = left \ {Day}
      BY <1>1, <2>1, <2>4
    <3>2. rows'[Day] = RowsOn(Day) /\ legs'[Day] = before'.legs[Day] /\ ~ transfers'
      BY <1>1, <1>2, <2>1, <2>2, <2>4
    <3>3. QED
      BY <1>3, <1>8, <1>9, <1>10, <1>13, <2>2, <3>1, <3>2 DEF DayInv
  <2>5. QED
    BY <2>3, <2>4
<1>17. CASE OpenLegs(Day)
  <2>1. phase = "legs" /\ phase' = "legsOpen" /\ left' = left /\ rows' = rows /\ Day' = Day
    BY <1>1, <1>17 DEF OpenLegs, Day
  <2>2. rows'[Day'] = RowsOn(Day)' /\ transfers'
    BY <1>1, <1>3, <2>1 DEF DayInv
  <2>3. QED
    BY <1>2, <1>8, <1>9, <1>10, <2>1, <2>2 DEF DayInv
<1>18. CASE CloseLegs(Day, DayRows)
  <2>1. phase = "legsOpen" /\ phase' = "day" /\ left' = left \ {Day} /\ rows' = rows
        /\ legs'[Day] = RowsOn(Day)
    BY <1>1, <1>2, <1>4, <1>14, <1>18 DEF CloseLegs
  <2>2. rows'[Day] = RowsOn(Day) /\ transfers'
    BY <1>1, <2>1 DEF DayInv
  <2>3. QED
    BY <1>3, <1>8, <1>9, <1>10, <1>13, <2>1, <2>2 DEF DayInv
<1>19. QED
  BY <1>15, <1>16, <1>17, <1>18 DEF Write, WriteDay

(* The days left, when they are first known, are those that have rows.     *)
LEMMA GroupKeepsDays == ASSUME RunInv, DayInv, VerifyAndGroup PROVE DayInv'
<1>1. /\ phase = "verify" /\ left = {} /\ rows = before.rows /\ legs = before.legs
      /\ outcome.how = "none"
      /\ UNCHANGED <<files, transfers, before, rows, legs>>
  BY DEF RunInv, VerifyAndGroup, flags, dataset
<1>2. CASE verify /\ Breaks # {}
  <2>1. phase' = "idle" /\ left' = left /\ outcome'.how = "chain"
    BY <1>2 DEF VerifyAndGroup, End
  <2>2. ~ HasStarted'
    BY <2>1 DEF HasStarted, Started, Writing
  <2>3. QED
    BY <1>1, <2>1, <2>2, SameDays
<1>3. CASE ~ (verify /\ Breaks # {})
  <2>1. phase' = "day" /\ left' = {row[2].day : row \in AllRows}
    BY <1>3 DEF VerifyAndGroup
  <2>2. \A d : RowsOn(d)' = RowsOn(d)
    BY <1>1 DEF RowsOn
  <2>3. ASSUME NEW d, RowsOn(d) # {}
        PROVE  d \in left'
    <3>1. PICK i \in 1 .. Len(files) : \E tx \in files[i].txs : tx.day = d
      BY <2>3 DEF RowsOn
    <3>2. PICK tx \in files[i].txs : tx.day = d
      BY <3>1
    <3>3. <<i, tx>> \in AllRows
      BY DEF AllRows
    <3>4. <<i, tx>>[2] = tx
      OBVIOUS
    <3>5. QED
      BY <2>1, <3>2, <3>3, <3>4
  <2>4. ASSUME NEW d \in left'
        PROVE  RowsOn(d) # {}
    <3>1. PICK row \in AllRows : row[2].day = d
      BY <2>1
    <3>2. PICK i \in 1 .. Len(files) : row \in {<<i, t>> : t \in files[i].txs}
      BY DEF AllRows
    <3>3. row[2] \in files[i].txs
      BY <3>2
    <3>4. row[2] \in RowsOn(d)
      BY <3>1, <3>3 DEF RowsOn
    <3>5. QED
      BY <3>4
  <2>5. \A d \in Days : d \notin left' /\ RowsOn(d)' # {} => FALSE
    BY <2>2, <2>3
  <2>6. \A d : rows'[d] = before'.rows[d] /\ legs'[d] = before'.legs[d]
    BY <1>1
  <2>7. \A d \in left' : RowsOn(d)' # {}
    BY <2>2, <2>4
  <2>8. QED
    BY <2>1, <2>5, <2>6, <2>7 DEF DayInv
<1>4. QED
  BY <1>2, <1>3

LEMMA DayInvNext == RunInv /\ DayInv /\ [Next]_vars => DayInv'
<1> SUFFICES ASSUME RunInv, DayInv, [Next]_vars PROVE DayInv'
  OBVIOUS
<1>1. ASSUME NEW input \in Inputs, NEW t \in Transfers, NEW v \in Verifies,
             NEW n \in ThreadCounts, Begin(input, t, v, n)
      PROVE  DayInv'
  <2>1. /\ before' = [rows |-> rows, legs |-> legs] /\ rows' = rows /\ legs' = legs
        /\ left' = {} /\ phase' \in {"idle", "parse"} /\ outcome'.how \in {"died", "none"}
    BY <1>1 DEF Begin, End, dataset
  <2>2. before'.rows = rows' /\ before'.legs = legs'
    BY <2>1
  <2>3. ~ HasStarted'
    BY <2>1 DEF HasStarted, Started, Writing
  <2>4. QED
    BY <2>1, <2>2, <2>3 DEF DayInv
<1>2. ASSUME NEW w \in Workers, Parse(w)
      PROVE  DayInv'
  <2>1. /\ phase = "parse" /\ UNCHANGED <<phase, outcome, files, transfers, before, left, rows, legs>>
    BY <1>2 DEF Parse, flags, dataset
  <2>2. HasStarted' => HasStarted
    BY <2>1 DEF HasStarted
  <2>3. QED
    BY <2>1, <2>2, SameDays
<1>3. CASE Join
  <2>1. UNCHANGED <<files, transfers, before, left, rows, legs>>
    BY <1>3 DEF Join, flags, dataset
  <2>2. \/ phase' = "idle" /\ outcome'.how = "parse"
        \/ phase' = "verify" /\ outcome' = outcome /\ outcome.how = "none"
    BY <1>3 DEF Join, End, RunInv
  <2>3. ~ HasStarted'
    BY <2>2 DEF HasStarted, Started, Writing
  <2>4. QED
    BY <2>1, <2>2, <2>3, SameDays
<1>4. CASE NextDay
  <2>1. phase = "day" /\ UNCHANGED <<files, transfers, before, left, rows, legs>>
    BY <1>4 DEF NextDay, flags, dataset
  <2>2. phase' \in {"idle", "rows"}
    BY <1>4 DEF NextDay, End
  <2>3. HasStarted
    BY <2>1 DEF HasStarted, Started
  <2>4. QED
    BY <2>1, <2>2, <2>3, SameDays
<1>5. CASE WriteFails \/ Crash
  <2>1. /\ phase' = "idle" /\ UNCHANGED <<files, transfers, before, left, rows, legs>>
        /\ phase \in Writing \/ outcome'.how = "died"
    BY <1>5 DEF WriteFails, Crash, End, flags, dataset
  <2>2. HasStarted' => HasStarted
    BY <2>1 DEF HasStarted, Started, Writing
  <2>3. QED
    BY <2>1, <2>2, SameDays
<1>6. CASE UNCHANGED vars
  <2>1. UNCHANGED <<phase, outcome, files, transfers, before, left, rows, legs>>
    BY <1>6 DEF vars
  <2>2. (\A d : RowsOn(d)' = RowsOn(d)) /\ (HasStarted' <=> HasStarted) /\ Day' = Day
    BY <2>1 DEF RowsOn, HasStarted, Day
  <2>3. RowsOn(Day)' = RowsOn(Day)
    BY <2>1, <2>2 DEF RowsOn
  <2>4. QED
    BY <2>1, <2>2, <2>3 DEF DayInv
<1>7. QED
  BY <1>1, <1>2, <1>3, <1>4, <1>5, <1>6, GroupKeepsDays, WriteKeepsDays DEF Next, Run

(* Every row lands on its own day; the days behind the run are whole, those *)
(* ahead of it untouched.                                                  *)
THEOREM RowsOnTheirDayForever == Spec => []RowsLandOnTheirDay
<1>1. DayInv => RowsLandOnTheirDay
  BY DEF DayInv, RowsLandOnTheirDay, HasStarted, Started
<1>2. QED
  BY <1>1, DayInvInit, DayInvNext, RunInvForever, PTL DEF Spec
=============================================================================
