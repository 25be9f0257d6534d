# A TLA+ development of hiero-streams

This directory specifies, model-checks and proves the logic of
`hiero-streams`: a Rust library and command-line tool that reads the block stream
and the older record stream of a Hedera/Hiero network, verifies both, turns them
into parquet datasets, and has a *sentinel*, a job that follows the preview
block stream and raises an alarm at the first block that breaks its promise. At this
commit the sentinel is started by hand: its schedule is commented out.

Paths below are relative to the repository (`src/cli/sentinel.rs`,
`.github/workflows/sentinel.yml`); lines are those of the commit beside which
this project is kept.

- [Inventory](#inventory): the parts, their state, what is hard, what is correct
- [Plan](#plan): modules in order, and what is left
- [Modules](#modules): how state and actions correspond to the code
- [Runs](#runs): what each check asks, its bounds, what it shows
- [Fairness](#fairness)
- [Proofs](#proofs)
- [Where code and documents differ](#where-code-and-documents-differ)
- [What is not modelled](#what-is-not-modelled)
- [How to run](#how-to-run)

## Inventory

The library is functional: a call takes bytes and returns a value. State that
outlives a step is in four places: the sentinel's state file and the git branch it
is pushed to; the parquet dataset of the ETL; the locals of the loops that walk
the items of a block; and the counters of the commands that judge many files.

```
 bucket / --local-dir                    mirror + record bucket
        |                                         |
    sentinel  -- state file --> git           attest --> verdict
        |                                         |
        v                                         v
  block/material --> block/proof            record/verify
        |                 (hinTS, Schnorr, WRAPS)
   block/wire, block/merkle
        |
   block/mod (parse_block)      record/mod (parse_record_file)
                \                 /
                 cli/etl (threads, chain, partitions) --> dataset
```

| Part | Source | State | Operations | Hard behaviour | Correct when |
|---|---|---|---|---|---|
| Sentinel run | `src/cli/sentinel.rs` | `State` in memory and on disk, the window, a batch in flight | load, newest (probe or directory), window, parallel fetch, in-order check, save | a crash in the middle of a save; a bucket that grows and shrinks while it is read; a failure inside a batch; a cap at the edge of `u64` | the state never claims a block that was not there, acceptable and linked; the total counts each block once; work before an alarm is kept; the first bad block is the one announced |
| Sentinel job | `.github/workflows/sentinel.yml` | a run that waits and the head it is to check out, working tree, head of main | dispatch, checkout, secrets gate, run, commit and push, always | a push rejected because the head moved, before the job started or after; a runner that dies; a human's edit of the state file | the committed state moves only as the run earned it; a lost run is repeated without harm; a run does all it was started for |
| Threaded parse | `src/cli/etl/record.rs`, `block.rs` | chunks, one cursor per worker | spawn, parse next, join | workers finish in any order; zero threads; more threads than files | the result is the list in name order, or the error of its first bad file |
| Record ETL | `src/cli/etl/record.rs` | the day at hand, the boundary file, the dataset | group by name, parse, verify, write a day | a failure between days; a crash between create and write; a seam between days | everything written is one chain; days are written whole and in order |
| Block ETL | `src/cli/etl/block.rs` | the files by number, the days left, the dataset | parse, sort by number, verify, group by row day, write | names sort as text; a block spans midnight | nothing is written before the whole directory is one history; each row lands on its day |
| Parquet schemas | `src/cli/etl/parquet.rs` | an open file | create, write | create empties the old file | the order of the writes is in `DayWriter` |
| Block parser | `src/block/mod.rs` | the pending body, the rows | one arm per item | a result takes whatever body is pending | each row has the body of its own transaction |
| Block merkle tree | `src/block/merkle.rs` | the stack of roots | add leaf, root, witness, fold | the carry; the last peak; a power of two | streaming and batch agree; a witness recomputes the root for its own leaf only |
| Block material | `src/block/material.rs` | five hashers, header, footer, signature, bootstrap | scan_block, block_inclusion_witness, recompute | two copies of one walk; first-wins and last-wins rules; footer hashes of any length | both copies accept the same blocks and build the same tree |
| Proof verdict | `src/block/proof/` | none between calls; chain-info's `all_ok` | classify, resolve the bootstrap, hinTS, then the suffix; chain-info over a list | parts of different blocks, epochs or networks together; weights at a third and at the end of `u128`; a book and a bit vector of different lengths; nine identities that only together say anything | "verified" means anchored; a genuine block verifies; the identities hold for true claims and for no others |
| Record-file signatures | `src/cli/attest.rs`, `src/record/verify.rs`, `src/cli/mod.rs` | the book, the files fetched, three lists | page, fetch, verify one, report; the library call; the verify command | a book that changes between pages; missing files and keys; a file that claims a hash of its own | exactly a third of the whole book; each node and each file accounted for once; three callers, one verdict |
| Wire scanner | `src/block/wire.rs` | a cursor | varint, length, oneof rule | a tenth varint byte; truncated fields; a second decoder of the same bytes | it finds the items that were written, or fails; where the typed decoder accepts too, both see the same items |
| Record parser | `src/record/mod.rs` | none | a row from an item | three forms of a transaction; two sets of definitions | a transaction is the same row in both eras |
| Calendar | `src/transaction.rs` | none | day_from_seconds | leap days, centuries, before 1970 | each second falls on the date the calendar shows |
| Library entry, inflate | `src/lib.rs` | none | dispatch on the first bytes | none with state | - |
| JSON | `src/json.rs` | none | formatting | none | - |
| Command line | `src/main.rs`, `src/cli/mod.rs` | none | dispatch, flags, printing | none with state, chain-info excepted (above) | - |
| Other workflows | `.github/workflows/` | `docs/watch-state.json` is only read | compare and fail | none that the program reads | - |
| Bindings, examples, fuzz targets | `bindings/`, `examples/`, `fuzz/` | none | one library call each | none | - |
| Poseidon | `src/block/proof/poseidon.rs` | none | field hash | arithmetic of 254 bits | out of reach |
| Generated protobuf | `build.rs`, `proto*/` | none | decode | none | - |

How the parts interact:

- The sentinel calls `extract_proof_material` and, for a threshold-signed block,
  the hinTS check, once per fetched object; it sees of a block only what
  `check_block` asks (`Object` in `Sentinel`). The job hands it the checked-out
  file and pushes what it left, whatever its exit code.
- The ETL calls the two parsers once per file and the chain checks once per day
  (record) or once per run (block), and shares one writer.
- `material` reads items from `wire`, feeds them to `merkle`, and hands
  `proof` the root, the layout of the signature and the bootstrap.
- `attest` pages the mirror, fetches from a bucket, and calls `verify_record_file`.
- Threads are in two places (the sentinel's fetches, the ETL's parse); both are
  scoped and joined before anything reads their results. The other concurrency is
  with the world: the bucket, the git branch, the human, the runner.

The hazards this leads to are listed in `PROJECT.json`, each at its line with the
properties that would catch it.

## Plan

The order is: what runs unattended and keeps state first, then what writes data,
then what judges.

| Order | Module | Composes | Abstract statement | Status |
|---|---|---|---|---|
| 1 | `VerifiedPrefix` | - | what the committed state promises | done |
| 2 | `Sentinel` | `VerifiedPrefix` by refinement | implements it | checked, all safety proved |
| 3 | `ChunkedParse`, `DayWriter` | - | - | done, lemmas proved |
| 4 | `RecordEtl` | both of 3 | one chain, written in day order | checked, all safety proved |
| 5 | `BlockEtl` | both of 3 | one history, no order of files in sight | checked, proved |
| 6 | `BlockItems` | - | each row's own body | checked, proved |
| 7 | `Merkle` | - | streaming root = batch root | checked through `Material`, proved |
| 8 | `Material` | `Merkle` | witness reaches the root; passes agree | checked, proved |
| 9 | `ProofVerdict` | - | anchored, genuine | checked, proved |
| 10 | `Attest` | - | a third of the book | checked, proved |
| 11 | `Wire` | - | the writer's items; the typed decoder | checked, proved |
| 12 | `Calendar` | - | a calendar turned day by day | checked, proved |
| 13 | `Rows` | `Calendar` | one row, two eras | checked, proved |
| 14 | `Parsers` | `BlockItems`, `Wire`, `Rows` side by side | - | checked, proved |
| 15 | `Hints` | - | the identities decide the claim | checked, proved |
| 16 | `Verdicts` | `ProofVerdict`, `Hints` side by side | - | checked, proved |

What is left, in order of worth: the
arithmetic of the Schnorr suffix in the style of `Hints`; the listing of an ETL directory
(filter by extension, refusal of mixed eras) as an action before `Group`; and
`block_activity` beside `parse_block` in `BlockItems`.

## Modules

Each definition that stands for code names its lines in the `map` of
`PROJECT.json`. Definitions commented "Broken variant" are not part of the model:
they are single plausible mistakes in the definition that follows, and each property
is known to be violated when one of them is put in its place.

### `VerifiedPrefix`: what the sentinel promises

A stream, a tip and a count of hand edits; no process, bucket or file. `Advance`
carries the tip over an unbroken run of acceptable blocks, each claiming the root of
the one before; an anchored tip moves from the very next block. `Lose` is the one way
in which the tip becomes unusable (a save cut short reached the branch), and
`Intervene` is the human, who may write anything.

### `Sentinel`: the run, its job, and the world around it

| In the model | In the code |
|---|---|
| `committed` | the state file at the head of main |
| `waiting` | the commit that a run in the concurrency group, or one that will be run again, is to check out, and whether the head has moved since its dispatch |
| `stale` | whether the head has moved on from what the running job checked out |
| `file`, `dirty` | the working tree's copy; `git diff --quiet` |
| `mem` | `State` in `run()` |
| `lo`, `hi`, `step` | the locals of `Source::newest` |
| `from`, `to`, `start`, `fetched`, `verified` | the window, the batch and its results, the counter |
| `stream`, `live`, `oldest` | what is ever published, what is in the bucket, how far retention got |
| `seen`, and the fields `anchor`, `seam`, `base` | history; no action reads them |

`Dispatch`, `Checkout`, `Gate` and `Commit` are the steps of the workflow. A job checks out the
commit of its dispatch: the head if it starts at once, the one of `waiting` if it does
not. `Gate` is "Check secrets": without the key every later step is skipped and
the run ends green. `Load`, `NewestLocal`,
`ProbeFloor`, `ProbeExpand`, `ProbeBisect`, `Window`, `Fetch`, `Join`, `CheckNext`,
`Save`, `Write` are the run, cut wherever the world can act in between: at each
request, and between the truncation and the write of the state file.
`ProbeFails`, `FetchFails`, `SaveFails`, `Crash`, `JobLost` and `OtherPush` are
what goes wrong; `HandEdit` is a human after a loud failure, with the three edits
that make sense; `Publish` and `Expire` are the bucket. An object is what
`check_block` can tell about it, and `Passes` is its conjunction of checks: which
one failed only chooses the text of the alarm. The window's arithmetic keeps the
wrap of `from + max_blocks - 1` at zero.

### `ChunkedParse`, `DayWriter`: what both pipelines share

`ChunkedParse` is the list cut by `div_ceil` into contiguous chunks, one worker per
chunk that stops at its first bad file, and a join in chunk order; a worker's step is
one file. `DayWriter` is `write_day`: create the transactions file (which empties the
old one), write it, then the same for transfers when they were asked for.

### `RecordEtl`, `BlockEtl`: the two pipelines

A directory is a sequence of files in name order; a file is what the pipeline can tell
about it (does it parse, its hashes or root, its number, its prefix or its rows), and a
partition is the files or rows that went into it. `RecordEtl` takes the days one after
the other: `Group`, then `NextDay`, `Parse`, `Join`, `VerifyChain`, `Write`, with the
last file of a day carried as `boundary` to the next. `BlockEtl` parses
everything, sorts by block number, verifies the windows, and then writes the
days of the rows (`NumberOrder` is the set of all stable orders by number, which has one
member; the code's sort gives it). In both, `WriteFails` and `Crash` may come at any point, and the
dataset outlives the run, so that a second run starts on what the first one left;
`before` remembers that dataset. `--threads 0` is the panic it is in the code.

### `BlockItems`, `Wire`, `Rows`, `Calendar`: the parsing side

The four are pure functions of their bytes. Each is driven by a small machine that stands
for what feeds it, and `Parsers` puts the machines side by side, one at a time, so that one
run explores them.

*`BlockItems`* has the arms of `parse_block`'s match, driven by a network that sends the items. The
network is not in the repository; what is taken of it is the comment at
`src/block/mod.rs:262-272`, plus one assumption that the loop relies on: between a
user's signed transaction and its result no other signed transaction is sent.
Where a result without a signed transaction may stand is the constant
`OrphanPlaces`.

*`Wire`* is `wire.rs` over real bytes, but of few bits: the widths of a varint's groups, of an
integer, of a key and of a wire type are constants (7, 64, 32 and 3 in the code). The
relation of the widths is kept: the last group a varint may have does not fit into the
integer whole, so bits can be lost there. Recursion is written as functions that
follow the code's loops turn by turn: `Combined` adds a group, `FieldsOf` reads a field, and
`Numbered` keeps the fields of some numbers. What a read returns is a set of one result, or
empty where the code returns an error. The *writer* sends fields with plain, padded and
overlong varints, known and unknown numbers, and other wire types; the *decoder* stands
for prost's. Neither is in the repository, and both are marked external.

*`Rows`* is `parse_item` and `transaction_from` column by column, over one transaction that
the network put into a record file in one of six forms and into a block. What differs between
the two parsers is modelled twice: how the body is found, which definitions name a code or a type,
and from which message a column is taken. The helpers that turn an id, a time or a list of
transfers into a column exist in both source files and differ there only in the definitions they name
(`record/mod.rs:39-108`, `block/mod.rs:55-125`); they are modelled once, so that `RowsAgree` says
nothing of a change to one copy only. Names of codes and types are maps, one per set of
definitions, and a message that is not there is `Absent`, which is no message
(`AbsentIsNoMessage`).

*`Calendar`* is `day_from_seconds` operator by operator beside a calendar that is turned one day at
a time with the rules everybody knows.

### `Merkle`, `Material`: the tree and the two walks

Hashes are terms, so two hashes are equal exactly if the same things were hashed the
same way. This stands for collision resistance, and for one fact that is checked at the
boundary: an internal node's children are 48 bytes. The witness enforces that on
the footer's hashes (`to_hash48`), the block root does not; footers of other lengths
are in the model. `PeaksDownTo` is `peak_bounds`' loop from the highest bit of a count of leaves
to the lowest, and the width of that count is the constant `UsizeBits`; `Levels` builds a
peak's tree level by level. An item's bytes are its place in its tree, so distinct items have
distinct bytes.

`ScanItem` and `WitnessItem` are one turn of each of the two loops over the same
items; `NextItem` lets the file grow by one item, and because each prefix of a file is
a file, what the passes would return is defined in every state. `trees` and `w_trees`
are the hashers; `input_leaves` is the one list that the witness keeps whole.

### `ProofVerdict`: is this block proved

Every part of a file is a term that says what it is for: a signature names the block it
signs and the key that made it, a suffix names the key it endorses. A pairing or hash
check compares those terms. Points of a curve are integers under addition, so that two
keys can cancel. `Resolve`, `CheckHints` and `CheckSuffix` are `verify-block` and
`verify_inclusion` in the order of the code, errors apart from failures; `InfoFile` and
`InfoEnd` are `chain-info --check-hints` over a list, with `all_ok`. The weight is
tripled modulo `U128` in a release build and panics in a debug build.

Three details of the code that the module keeps and that a reader might not expect: a
Schnorr suffix signs the ledger id padded or cut to 32 bytes (`Padded`), whereas a WRAPS
suffix asks for exactly 32; the code accepts more than *one* third of the weight
(`hints.rs:47-52`), where `mod.rs:10-11` describes what a network emits as more than
two; and `iteration_guard` takes for granted that a history settles only from its
second step (`SettledFrom > 1`).

`ValidIsAnchored` compares the weight with the total that the verification key of the file carries, as
the code does (`hints.rs:374-375`), and not with `Total`, the network's own. In the code the hash that a
suffix endorses is over the bytes of the whole key, the total among them; here a suffix endorses the key
(`of`) and the total beside it is free, because no claim is made about that hash.

### `Hints`: why the nine identities may be taken together

In `ProofVerdict` the hinTS checks hold or fail as one. `Hints` shows why they may: it is steps 1
and 3 to 7 of `verify_hints`, equation by equation, over groups of a prime order `P` in
which an element is its logarithm. A pairing is then a product and a check of a
product of pairings a sum modulo `P`. The signer, who is not in the repository, is the
prover of the scheme: it makes the best signature it can of a claim, true or not, by dropping
the remainders that a true claim does not have (`Remains`). A claim says which committee makes it,
which committee it is checked against, a value for each seat, a start of the sum of weights, a weight, a
key and a block, and it may be false in any of these, and in several at once: a bit that is
neither 0 nor 1, the last bit unset, a sum that does not start at zero, a weight or a key that is not the
seats', another block, another committee. And of a true claim's signature any one of the 22 parts may
be another one (`Alter`).

`HintsConstants` says that `P` is a prime (what is not zero has a reciprocal) and that the seats'
points are the roots of unity of the committee's order, as `get_root_of_unity` gives them.
`TauIsSecret` is the one thing taken of the setup: as nobody knows `Tau`, no claim is made for which the
weights of two committees happen to meet at that one point and then the keys do as well.

Two things are different from the code. The challenge is not a hash: it is every point
at once, and a false claim may be accepted at fewer of them than a polynomial of degree below
`Parties` has zeros. And challenges that the hash hits with
negligible probability (a seat, the secret, the point one seat after it, zero) are left out. Each of the nine
identities is needed: with any one of them dropped from `identities_hold` the property is
violated. `Power` and `Sum` are the code's loops as recursive functions. `Verdicts` puts `Hints` beside
`ProofVerdict`.

### `Attest`: a third of the address book

`ReadPage` inserts one page (a node without a key is left out, a node seen again is
overwritten), `FetchSig` asks for the file of the next node, `VerifyOne` and `Report`
are `verify_record_file`. `Call` is a caller of the library that brings a book file and
signatures of its own, with files repeated, out of order or of nodes that are in no book.
`CmdVerify` is the `verify` command on one node's file, with a key given or looked up. A
signature file is whether it parses, the hash it claims, the hash its signature is really over, and whose
key made it.

A caller that passes the same node's file twice has it counted twice
(`src/record/verify.rs:241-273`), which the command cannot do; `AttestedIsAThird` therefore holds
callers to one file of each node (`OneFileEach`).

## Runs

State counts are distinct states. Deadlock is checked in the sentinel's runs, where a
job can always be dispatched; everywhere else the run of a command simply ends or a
bound on the input is reached, and the `.cfg` says so.

| Run | Asks | States |
|---|---|---|
| `sentinel_safety` | under every interleaving of two parties or more, is the committed state earned, the total exact, the work before a failure kept, every alarm true, the probe right, and the whole an implementation of `VerifiedPrefix`? | 3,882,654 |
| `sentinel_gap` | does "caught up" mean that of the bucket: violated (below) | - |
| `sentinel_live` | does every job end, push every block of its window that continues the state, and announce the first that does not at its number; and over a directory, does "caught up" mean that nothing newer was there? | 142,253 |
| `record_etl` | is what is written one chain, are days whole and in order, does the error name the first file, does every run end? | 349,689 |
| `record_etl_stray` | does a stray name fail the run: violated (below) | - |
| `block_etl` | is nothing written before the directory is one history, does each row land on its day? | 149,433 |
| `parsers` | does each row have its own body; does the scan find what was written, and the same as the decoder; is a transaction the same row in both eras; is each second filed under its day? | 230,238 |
| `parsers_names` | do codes and types have one name in both eras: violated (below) | - |
| `block_items_orphans` | is a result with no transaction always "unknown": violated (below) | - |
| `block_material` | do streaming and batch agree, does every witness reach the root, for its own item only, do both walks accept the same blocks, is the bootstrap the first publication, and provable? | 2,369,345 |
| `proof_verdict` | does "verified" mean anchored, does a genuine block verify, does chain-info speak for each file, do the hinTS identities decide the claim? | 121,506 |
| `attest` | is the verdict exactly a third, is every node and every file in the report once, does the verify command agree with it? | 1,252,911 |

### Bounds, and why they are enough

- **`sentinel_safety`**: blocks 0 to 3, batches of two, a first stride of two. A run
  has a window of several batches, the last one not full; the probe expands and bisects;
  every kind of bad block stands in the middle with good ones on both sides. Uploads are
  at most one ahead of a hole (`Skew`), retention removes at most one block, and there is one
  fault and one hand edit. A fault or edit changes one of the three copies of the state, and
  every later step depends only on those copies. The jobs themselves are not bounded. Runs have the
  bucket's key or not (`Secrets`). Runs wait on
  one of the streams (`Queued`), the one that changes its format at block 1, where both the runs and
  the human move the head: a run that starts behind the head finds what one finds that started in time
  and is slow, and the push of either is refused once the head has moved, so one stream is enough to
  see the difference. One run waits at most, as in the concurrency group; in `sentinel_live` none does.
- **`sentinel_live`**: blocks 0 to 2, one fault, and neither hand edits nor retention: the two
  properties of a job excuse it once somebody interferes with it (`Disturbances`), so
  either would only add excuses. Both sources are tried, and uploads may leave holes.
- **`record_etl`**: directories of up to four files in up to three days, which has a day of
  two files, a day of one, a day of four (chunks of unequal size on two and three
  threads), unreadable files in each chunk, and a break inside a day, at the first
  seam and at the second. Two runs over one dataset: a third would see what the
  second did. Numbers reach `I64Max` = 9.
- **`block_etl`**: four blocks, named so that the last number comes first, rows on
  three days, one block that spans midnight; gaps, a repeated number, a wrong root in first,
  middle and last place. `U64Max` is 9, and a block has that number: behind a gap, right
  behind its predecessor, where it is accepted, and twice, where it is not.
- **`parsers`**, pairing: five transactions and five results, in every order; a mistake in
  pairing needs two transactions and two results to show, and the pending body is one value.
- **`parsers`**, bytes: bytes of four bits in integers of five, so that the second group of a
  varint is the last and has one bit that is lost; keys of four bits, so that a tag may be
  too large for the decoder and not for the scan. Ten bytes hold two items of one field, or one
  item of two, with two oddities, and each prefix of a file is scanned.
- **`parsers`**, rows: names that are alike, renamed and newer, a code nobody names; every
  id with its parts absent; no legs, and legs of all three kinds with absent accounts.
- **`parsers`**, days: 30,000 days each way, so 1887 to 2052: 29 February 2000 and the
  missing ones of 1900. A day has three seconds: its first, one in the middle, its last.
- **`block_material`**: ten items, four of them not signed transactions. A block with
  a header and footer can then hold eight input leaves, so the carry goes through every
  shape of stack below four levels and a witness has up to three siblings. `UsizeBits` = 4
  lets a count reach 15; that no count of leaves overflows is the assumption
  `MaxItems < 2^UsizeBits` (`MaterialConstants`), as no file has 2^64 items. Two
  publications (`MaxPublications`) are the fewest of which one is not the first.
- **`proof_verdict`**: two networks with different books, ledger ids and totals; three
  epochs, the last one settled; a bit vector shorter than one of the books; keys
  that cancel and a broken one; weights below, at and above a third and at the end of a
  `u128` of 16. Lists of chain-info are of any length, because only what was seen is kept.
  Groups of order 29 with four seats: 28 is a multiple of 4, so the roots of unity exist, and
  all challenges that are no seat are tried, many more than the three a false claim may fool. Three
  committees, of which two differ in one weight, two in one key and two in both; bits of 0, 1 and 2 at
  every seat, and each of weight, key, start and block right or off by one.
- **`attest`**: books of one to four nodes. With three a single signer is enough, with
  four it is not; two pages that may contradict each other are enough for an
  overwritten key. Callers bring up to two files of three nodes in any order, or three
  with a node that is in no book.

## Fairness

- **Sentinel.** `WF(JobStep)`: a job that was started is run by its runner, one step
  after the other. Nothing else: `sentinel.yml:22-26` has the schedule commented out, so nobody is bound to
  dispatch a run, to give a first block, or to configure the bucket's key, and nothing is
  assumed of uploads, the human, retention or other pushes. The liveness properties are therefore about
  one job: from the state in which it is past the gate, with what it finds in the bucket then, to its
  own last step.
- **Record ETL.** `WF(Run)`: the operating system runs a process that was started. One
  condition over all workers is enough, since the workers of a run have finitely many
  files and only the next step of *some* worker is needed for progress. The block-era run has
  the same loop over days and the same workers, and is checked for safety only.

`JobVerifies` and `JobAnnounces` speak of a job that starts from the head with a state file that
loads, and of a block in the window that its state, its first block and its cap give it, up to which
the bucket holds everything (`InWindow`). They excuse the job only when what is counted in `Disturbances`
went up after that: a fault, a hand edit or retention. A stream is followed to its end by as many
such jobs as its length takes, each of which somebody has to start.

## Proofs

The theorems hold for every value of the constants that satisfies the named
assumptions of the module; TLC evaluates those assumptions on the instances above.
Nothing in them depends on the bounds: `MaxFaults`, `MaxRuns`, `MaxItems`, `MaxBytes` and the like
are arbitrary natural numbers (`MaxItems` below 2^`UsizeBits`, `MaxBytes` below 2^`IntBits`). All
safety invariants and the refinement of the passing runs are proved.

Three of the modules, `MaterialProofs`, `ParsersProofs` and `VerdictsProofs`, are about loops over data
of any length: leaves, groups of a varint, fields of a message, powers, sums over the seats of a committee. The library's induction theorems take the
formula to be proved as a parameter, which the installed provers cannot instantiate. Each of the three
therefore starts from a form without one: a set of natural numbers that is not empty has a least
member (`LeastNumber`, from the library's fact about minimal elements of a well-founded relation), so a
set that holds 0 and with each number the next is all of them (`Induction`), and a function
defined by recursion up to a bound exists (`BoundedRecursion`), so that the `CHOOSE` behind it is such a
function. Each loop is then a lemma about one turn and a set of the numbers of turns after which the
lemma's statement holds.

### `SentinelProofs`

*Assumes* `NamesAreDistinct`, `BoundsAreNatural`, `FlagsAreLegal`,
`StreamsAreStreams`, `TornIsNoState`.

- `TypeCorrect`. `TypeOK` is not inductive: the check of a block needs its batch to hold
  it, and the midpoint of the search needs an ordered bracket. `TypeInv` adds those two
  (`BatchHoldsNext`, `BracketIsOrdered`).
- `EarnedForever`, `TotalForever`. A committed state is pushed from a file, which was
  saved from memory, which was advanced block by block from what was fetched. `IInv`
  therefore says of each of these stages what it must carry: the three copies are earned;
  in memory the total lags behind by exactly `verified`, until the save; and
  what a batch has fetched is what the stream has under that number, or an error. With that,
  `CheckNext` is the one interesting step: the link of the new block to `lastRoot` extends
  the run of linked blocks by one.
- `Implementation`. A push must be *one* step of `VerifiedPrefix`, from the state that is
  at the head. `RInv` says that while the head has not moved since the checkout, the
  file and the memory descend from the head by a walk over the stream. When the head has
  moved the push is refused, so nothing is needed then; a run that waits carries the same
  alternative along, in `waiting`: its file is the one at the head, or it is marked behind
  (`OvertakenKeepsFile`, `CheckedOut`). A push is then an `Advance`, a torn
  file a `Lose`, a hand edit an `Intervene`, and every other step leaves the tip.
- `LoudFailureForever`. The property speaks of the job's last step; `WorkInv` says of
  each step before it how far the state in hand has got (its last block is
  `from + verified - 1`) and that a success is only declared at the end of the window, the empty
  window of a cap of 0 included.
- `NoFalseAlarmForever`. The converse of `EarnedForever`: a block is refused only if it does
  not continue what the state in hand claims. `IInv` says what that state rests on when
  the check is made, and that what was fetched under a number is what the stream has there;
  with it a block that continues the state passes every check (`ContinuationPasses`), and
  `AlarmInv` carries the refusal through the save and the write, which move nothing it
  speaks of.
- `NewestForever`, `LocalCaughtUpForever`. `SearchInv` carries what the probe can rely on
  while the bucket changes: retention only takes the oldest, so a number that was there
  when the run began is still there or below `oldest`. A probe that finds nothing then bounds every
  number that was in one piece with the floor (`MissingBounds`), and each narrowing of the
  bracket keeps that bound, for every stride.

### `ChunkedParseProofs`

*Assumes* nothing. The arithmetic both pipelines rest on: every file is in the chunk of
some worker (`ChunkOf`), chunks are in order (`ChunksAreOrdered`), so the error of the first
failing chunk is the first bad file of the list (`FirstErrorIsFirst`), and joined chunks are the
list.

### `RecordEtlProofs`

*Assumes* `EtlConstants`, `InputsAreSorted`.

`RunInv` ties the day at hand to what is behind it: the boundary is the last file of the part that is
already verified, that part is a chain, and all its files parse. `TypeOKForever`, `OneChainForever` and
`ErrorsNameFirstFile` follow from it. For `DaysInOrderForever`, `OrderInv` says that because names are
sorted the days are cut out of the directory one after the other, each one whole (a file
with the same first ten characters cannot stand on the other side of the cut); `DayInv` then says
what the dataset holds for days behind, at hand and ahead.

### `BlockEtlProofs`

*Assumes* `BlockEtlConstants`. The windows over a stable order by number hold exactly if the
directory is one history, whichever order the names have: that is the step from the code's pairwise
check to `OneHistory`, which knows no order of files. `VerifiedFirst` and
`ErrorsNameFirstFile` follow; `RowsOnTheirDayForever` has its own `DayInv`, as above.
`TypeOKForever` is `BlockEtl`'s type invariant; it is proved only, for its threaded part is that of
`RecordEtl`, whose type invariant the run `record_etl` checks as well.

### `ParsersProofs`

*Assumes* `BlockItemsConstants`, `CalendarConstants`, `WireWidths`, `WireConstants` and
`AbsentIsNoMessage` and, for the pairing, that
`OrphanPlaces = {"following"}`: without it the statement is false, as `block_items_orphans` shows.
`WireConstants` says that a tag and a length fit the integer they are read into, without which
nobody could write them.

- `PairedForever`, `PairingTypes`. The property says nothing of `pending`; the invariant adds
  `PendingIsOwed`: while a result is due, what is pending is the body of its transaction (nothing, if
  that does not decode), and once the latest user transaction has its result, nothing is pending.
- `RowsOnTheirDay`. For every day, as far as the calendar is turned. `CivilDate` inverts
  the count of days from years, months and days; within an era the year is the one whose first day
  is not after the day asked for, which the corrections for the leap years give exactly;
  and one day more moves that count exactly as `Tomorrow` does.
- `RowsAgreeForever`. `RowsInv` remembers that the two rows on show are of one transaction and one
  form; that the two parsers make the same columns of it is a lemma per helper (`BodyOfEnvelope` and those
  after it), for all transactions, names and ids.
- `ScanIsWhatWasWrittenForever`, for integers, groups and keys of any width and files of any
  length. The invariant `WireInv` says that the bytes of the block, and those of every item,
  are their fields laid one after the other, each written in one of the writer's ways.
  The argument goes up from the bits: what `Combined` adds up is the number that was encoded, with one
  group more each time; so `read_varint` gives back the number, without the bits it has no
  room for, of all three forms; so a field is read back whole, and is not read at all where it is cut off
  or of another type; so the loop, after as many turns as there are fields, is at the end with
  just those fields, or has failed at the first that is cut or unsound.
- `ScanAgreesForever` needs no writer and no invariant: it holds of any bytes. At each offset a
  reader finds one field at most, and what the stricter reader finds the other finds too; so if
  both come to the end, they come by the same fields, and a lone field of the oneof is also
  the last.
- `ParsersSafe` lifts the six to the machines side by side.

### `AttestProofs`

*Assumes* `AttestConstants`. `AttestInv` says that the three lists sort the files seen so far, that the
nodes fetched, missing and still to ask are the book with each node once, and that the
verify command's outcome is the verdict of its arguments. The count of a list without repetitions is the
size of its set, which turns the code's `3 * len(valid) >= node_count` into
`AttestedIsAThird`. `TypeOKForever`, `AttestedForever`, `EveryNodeOnceForever`,
`VerifyAgreesForever`, for books and lists of every size.

### `MaterialProofs`

*Assumes* `UsizeBitsIsNat`, `MaterialConstants`, `KindsAreTheWires`.

The tree first, for any sequence of leaves whose length a `usize` holds. Everything about it goes by its
*levels*: the leaves, the nodes above whole pairs of them, the nodes above those. How
many nodes a level has is the count of leaves shifted right, so bit *k* of the count is
set exactly if level *k* has a last node without a sibling.

- The hasher's stack is the last nodes of the levels at the set bits, from the highest down. One leaf
  more goes up the levels as far as the bits are set (`CarryGoesUp`), which is as often as
  the loop of `add_leaf` turns (`TrailingOnes`); the nodes above are as they were (`AddLeaf`).
- The peaks of `peak_bounds` lie side by side from the first leaf to the last (`PeaksTile`), and the root of the
  perfect tree over each is the last node of its level (`PeakRoot`). So both ways of
  computing the root fold the same list (`RootIs`).
- A witness climbs inside one peak (`ClimbIs`, `PathIs`) and then across the peaks (`FoldPeaksAt`);
  recomputed from its own leaf it gives the root (`WitnessOfLeaf`), and two leaves that
  give the same root along the same witness are equal (`WitnessInjective`), because a
  node's hash determines its children.

Then the two passes. `MaterialInv` says that each hasher of either pass has streamed the hashes of
the items of its tree so far (`Kept`), that the witness's list of input leaves is those of the
input tree and its list of bytes those of the same transactions (`KeptInput`), and which values the
header, footer and signature can have (`Values`). `TypeOK` alone is not inductive: that the
stack has a root per bit of the count follows only from what the stack is.

- `MaterialTypes`, `StreamIsBatchForever`, `WitnessReachesRootForever`,
  `WitnessIsForOneItemForever`: from `MaterialInv` and the tree.
- `BootstrapForever`: `Anchored` says that the bootstrap is the bytes at the least of the
  places of the publications read so far, and `KeptInput` that the other pass keeps the same bytes at
  that place; that their witness reaches the root is then the argument of
  `WitnessReachesRootForever` again.
- `PassesAgreeForever`: `InStep` says that while neither walk has stopped they hold
  the same header, footer and trees, and that what the scan rejects the witness has rejected too.

### `VerdictsProofs`

*Assumes*, of the verdict, `ProofConstants`, `FilesAreMade` (each part of a file was made by some
network for some block of its own) and `LedgersDiffer`.

- `TypeCorrect`: `VInv` adds to the types what each `pc` has established so far.
- `AnchoredForever`: hinTS ties the root to the key of its epoch (`PassedHints`), and
  the suffix ties that key to the network of the bootstrap (`PassedSuffix`). The sum of three
  weights may wrap; `Tripled` shows that a wrapped product is never above the true one,
  so that wrapping can only refuse.
- `GenuineForever`: the invariant `GInv` carries a genuine block through each check.
- `InfoForever`: `JInv` relates `all_ok` to what was seen so far.

*Assumes*, of the arithmetic, `HintsConstants` and `TauIsSecret` (see `Hints`).

- `IdentitiesDecideForever`, for every prime order, every size of committee, all committees and all
  claims. The invariant `ArgumentInv` says that what has been checked is a claim with nothing
  altered, or a true claim with one part altered, and that the challenges at which it was accepted are those
  at which it is (`Accepts`). All the rest is about `Accepts`, in four layers.
  - *A field.* Numbers congruent modulo `P` are added, multiplied and divided as in a field
    (`EqualSums`, `EqualProducts`, `NoZeroDivisors`, `OverIs`); a sum and a power are the recursive
    functions they are defined by (`SumIs`, `PowerIs`); interpolation is linear (`ThroughCombined`)
    and at zero it is the mean of the values (`ThroughZero`).
  - *What is off.* Each part of a signature is what its claim makes it, and 1 more if it is the altered one
    (`GivenIs`). So each identity is equivalent to an expression being zero that holds only what
    is wrong: `BlsIs`, `MergedIs`, `ParSumKzgIs`, `KeyIdentityIs`, `DegreeIs`, and for the four at the
    challenge `FieldIdentities`: that what the claim leaves at the seats (`Remains`), interpolated, is zero
    there.
  - *True claims.* A claim is counted exactly if it leaves nothing at any seat
    (`NothingRemains`, `SomethingRemains`), so a true one is accepted (`TrueIsAccepted`). With a
    part altered one of the expressions is a product of things that are not zero: for 14 of the 22 parts that
    is one of the seven openings in the batch, with its power of the challenge (`OneIsOff`,
    `MergedCatches`), for the others an identity of its own (`AlteredIsRefused`).
  - *False claims.* A list that is not zero at every seat goes through zero at fewer points than there are
    seats (`ZerosOfAList`). There is no theory of polynomials in the libraries and none is needed: up to
    a factor that is not zero, what goes through a list is a sum of fractions
    `c[i] / (z - Point[i])`, and `FewZerosStep` shows by induction over the number of fractions that one with as
    many zeros as fractions has only zeros for numerators, because a zero `y` turns the sum of *m* + 1
    fractions, at every other zero, into a sum of *m* with numerators `c[i] * (Point[i] - b) / (y - Point[i])`
    (`TwoFractions`). A false claim that is counted is refused at every challenge
    (`FalseIsRefused`); it is here, for a claim made of another committee, that `TauIsSecret` is used.
- `VerdictsSafe` lifts the five to the two side by side.

### What stays with the model checker

Liveness and anything under `ENABLED`: `EveryJobEnds`, `JobVerifies`, `JobAnnounces`, `RunEnds`.
The proof system has no rules for fairness. The four violations are counterexamples, and need none.

## Where code and documents differ

1. **A gap behind the last verified block is called the end** (`sentinel_gap`).
   `src/cli/sentinel.rs:5` says that a missing object is a failure. When the next
   blocks are missing and the first stride of the probe lands on nothing,
   `newest()` answers the last verified block, and the run reports "caught up"
   (`sentinel.rs:237`) with newer blocks in the bucket, until a probe happens to land on one.
   With a local directory the gap is reported.
2. **A stray file becomes a day** (`record_etl_stray`). `src/cli/etl/record.rs:28-29`
   says a file that does not follow the naming fails cleanly by name; the test
   asks only for ten bytes, and any longer name makes a partition of its own.
3. **A result without a transaction may take another's body** (`block_items_orphans`).
   `src/block/mod.rs:267-270` says such results are "unknown"; the code pairs them with
   whatever is pending.
4. **Two eras, two names** (`parsers_names`). `src/record/mod.rs:139-144` falls back from one
   enum of response codes to the other as "the same append-only enum", and
   `src/lib.rs:266-268` has equivalent variants map to one name. The vendored definitions
   rename: codes 505, 506, 508, 511 and 513, and field 75 of the transaction body, have other names in
   the newer tree, so rows of the two eras name the same result and the same type differently.

Two smaller observations, no run of their own: `src/block/material.rs:111-112` lets a genesis
footer have an empty previous root, which the block root accepts and a witness refuses; and
a product of three weights from 2^128/3 up panics in debug builds and wraps in release
builds, which can refuse a block but, as proved, never accept one.

## What is not modelled

- **The arithmetic of WRAPS and Schnorr** (`wraps.rs`, `schnorr.rs` below the level of a
  check) **and Poseidon**: a Groth16 proof with two openings and a sponge over a field of 254
  bits are out of a model checker's reach, and a small field would not be the same
  circuit. `ProofVerdict` takes each of these checks to hold exactly for what was made to satisfy it;
  for hinTS, and only for hinTS, `Hints` justifies that. Curves, encodings of points and the
  hash that makes a challenge are left out throughout.
- **The metadata hash and its signature** (`record_file_metadata_hash`,
  `verify_metadata_signature`): pure functions that no command calls.
- **The head of a record file** (version and file-level fields of `parse_record_file`), the
  spelling of ids and timestamps, `block_activity` (a count per node), **JSON, inflate,
  format detection, parquet columns, command-line dispatch, bindings, examples, fuzz
  targets, generated code**: conversions and wrappers with no state of their own; no decision
  that a module models depends on their detail.
- **The listing of an ETL directory** (`src/cli/etl/mod.rs`): which names are taken, and the
  refusal of a directory of both eras, are the shape of the modules' inputs.
- **Texts**: messages, timestamps and comments in the state file. A run with an empty
  window (a cap of 0) prints a last block of `from - 1`, at block 0 an underflow; the window
  itself is modelled.

## How to run

```
tlc -workers 2 -config MCSentinel.cfg MCSentinel     # each run of PROJECT.json
tlapm SentinelProofs.tla                             # each *Proofs module
```

`MCX.tla` instantiates `X.tla` for TLC; a module with several runs has several `.cfg`
files (`MCSentinelGap.cfg` belongs to `MCSentinel`). `PROJECT.json` lists components, runs,
the map from definitions to lines, hazards, findings and theorems.
