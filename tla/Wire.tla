-------------------------------- MODULE Wire --------------------------------
(***************************************************************************)
(* The shallow scan of a Block (src/block/wire.rs): it slices out each     *)
(* BlockItem's own bytes, which the merkle leaves are hashes of, and names *)
(* the kind of item from the one field it carries. Beside it stand a       *)
(* writer of block files, and the typed decoder that parse_block uses on   *)
(* the same bytes: neither is in this repository.                          *)
(*                                                                         *)
(* The width of a varint's groups, of an integer, of a key and of a wire   *)
(* type are parameters (7, 64, 32 and 3 bits in the code), so that the     *)
(* boundaries meet on small ones.                                          *)
(***************************************************************************)
EXTENDS Integers, Sequences, FiniteSets

CONSTANTS
  GroupBits, IntBits, KeyBits, TypeBits,
  KnownFields,                \* the field numbers of BlockItem's oneof
  FieldNumbers, RareNumbers,  \* field numbers written: usual ones and rare ones
  FieldPayloads,              \* the bytes an item's field may hold
  MaxBytes, MaxOdd            \* bounds: the bytes and the oddities of a file

ASSUME WireWidths ==
  /\ GroupBits \in Nat \ {0} /\ TypeBits \in Nat \ {0, 1}
  /\ IntBits \in Nat /\ KeyBits \in Nat /\ TypeBits < KeyBits /\ KeyBits <= IntBits

(* 1 << k; and MaxGroups is where shift > 63 ends the loop.                *)
TwoTo[k \in 0 .. IntBits + GroupBits] == IF k = 0 THEN 1 ELSE 2 * TwoTo[k - 1]

Continues == TwoTo[GroupBits]       \* the bit of a byte that says another follows
MaxGroups == (IntBits - 1) \div GroupBits + 1
Shift(i)  == TwoTo[GroupBits * (i - 1)]    \* what the i-th group counts
Delimited == 2                      \* the wire type of every field that is read
Byte      == 0 .. 2 * Continues - 1

(* A tag and a length each fit an integer.                                 *)
ASSUME WireConstants ==
  /\ KnownFields \subseteq Nat \ {0} /\ FieldNumbers \subseteq Nat /\ RareNumbers \subseteq Nat
  /\ \A number \in FieldNumbers \cup RareNumbers : (number + 1) * TwoTo[TypeBits] <= TwoTo[IntBits]
  /\ \A payload \in FieldPayloads : payload \in Seq(Byte) /\ Len(payload) < TwoTo[IntBits]
  /\ MaxBytes \in Nat /\ MaxOdd \in Nat /\ MaxBytes < TwoTo[IntBits]

VARIABLES
  block_bytes,  \* the file as written so far
  item,         \* the bytes of the BlockItem being written
  inside,       \* its fields so far: their numbers and wire types
  written,      \* the block's fields: where each ends, and what it is
  odd           \* rare numbers, types and forms of a varint used so far

wire == <<block_bytes, item, inside, written, odd>>
----------------------------------------------------------------------------
(* wire.rs. An offset is the number of bytes before it. What a read returns  *)
(* is a set: of one result, or of none where the code returns an error.      *)

(* How many groups the varint at offset has: a set of one number, or of    *)
(* none when the bytes or the groups run out first.                        *)
Groups(bytes, offset) ==
  {n \in 1 .. MaxGroups :
     /\ offset + n <= Len(bytes) /\ bytes[offset + n] < Continues
     /\ \A i \in 1 .. n - 1 : bytes[offset + i] >= Continues}

(* The groups, lowest first, before they are fitted into an integer.       *)
Combined(bytes, offset, n) ==
  LET sum[i \in 0 .. n] ==
        IF i = 0 THEN 0 ELSE sum[i - 1] + (bytes[offset + i] % Continues) * Shift(i)
  IN  sum[n]

(* Broken variant: the shift of a group does not grow.                     *)
UnshiftedVarint(bytes, offset) ==
  LET Added(n) == LET sum[i \in 0 .. n] ==
                        IF i = 0 THEN 0 ELSE sum[i - 1] + (bytes[offset + i] % Continues)
                  IN  sum[n]
  IN  {[next |-> offset + n, value |-> Added(n) % TwoTo[IntBits]] : n \in Groups(bytes, offset)}

(* What is shifted past the integer's last bit is lost without an error.   *)
read_varint(bytes, offset) ==
  {[next |-> offset + n, value |-> Combined(bytes, offset, n) % TwoTo[IntBits]]
   : n \in Groups(bytes, offset)}

read_length_delimited(bytes, offset) ==
  {[next  |-> length.next + length.value,
    bytes |-> SubSeq(bytes, length.next + 1, length.next + length.value)]
   : length \in {l \in read_varint(bytes, offset) : l.next + l.value <= Len(bytes)}}

(* One turn of either loop: a tag of the length-delimited type, its bytes. *)
ScannedField(bytes, offset) ==
  UNION {{[next |-> body.next, bytes |-> body.bytes, number |-> tag.value \div TwoTo[TypeBits]]
          : body \in read_length_delimited(bytes, tag.next)}
         : tag \in {t \in read_varint(bytes, offset) : t.value % TwoTo[TypeBits] = Delimited}}

(* All the fields of a message, each read where the one before it ends:    *)
(* the loop after so many turns, the last of which finds it at the end.    *)
(* field_at[offset] is what a reader makes of the bytes after offset.      *)
FieldsOf(bytes, field_at) ==
  LET turn[k \in 0 .. Len(bytes)] ==
        IF k = 0 THEN {[offset |-> 0, fields |-> << >>]}
        ELSE UNION {IF at.offset = Len(bytes) THEN {at}
                    ELSE {[offset |-> field.next, fields |-> Append(at.fields, field)]
                          : field \in field_at[at.offset]}
                    : at \in turn[k - 1]}
  IN  {at.fields : at \in turn[Len(bytes)]}

ScannedFields(bytes) ==
  FieldsOf(bytes, [offset \in 0 .. Len(bytes) |-> ScannedField(bytes, offset)])

(* Broken variant: the last field counts, as it does for the decoder.      *)
LastFieldKind(item_bytes) ==
  {fields[Len(fields)].number : fields \in ScannedFields(item_bytes) \ {<< >>}}

(* An item populates one field: none is an error, and so is a second.      *)
scan_item_kind(item_bytes) ==
  {fields[1].number : fields \in {f \in ScannedFields(item_bytes) : Len(f) = 1}}

(* The fields of these numbers, in their order.                            *)
Numbered(fields, numbers) ==
  LET among[n \in 0 .. Len(fields)] ==
        IF n = 0 THEN << >>
        ELSE IF fields[n].number \in numbers THEN Append(among[n - 1], fields[n]) ELSE among[n - 1]
  IN  among[Len(fields)]

scan_block_items(bytes) ==
  {[i \in DOMAIN items |-> [kind  |-> CHOOSE kind \in scan_item_kind(items[i].bytes) : TRUE,
                            bytes |-> items[i].bytes]]
   : items \in {found \in {Numbered(fields, {1}) : fields \in ScannedFields(bytes)} :
                  \A i \in DOMAIN found : scan_item_kind(found[i].bytes) # {}}}
----------------------------------------------------------------------------
(* The decoder behind Block::decode (external). It is strict where the     *)
(* scan is not: a varint fits its integer, a key fits KeyBits, a field's   *)
(* number is not 0. It is lenient where the scan is strict: of several     *)
(* fields of the oneof the last one stays, an unknown field is skipped.    *)
(* Fields of other wire types, which the scan refuses, it refuses here.    *)

DecodedField(bytes, offset) ==
  LET Whole(at) == \A n \in Groups(bytes, at) : Combined(bytes, at, n) < TwoTo[IntBits]
  IN  {field \in ScannedField(bytes, offset) :
         /\ Whole(offset) /\ field.number # 0
         /\ \A tag \in read_varint(bytes, offset) : Whole(tag.next) /\ tag.value < TwoTo[KeyBits]}

DecodedFields(bytes) ==
  FieldsOf(bytes, [offset \in 0 .. Len(bytes) |-> DecodedField(bytes, offset)])

(* Which of the oneof is set at the end; 0 when none is.                   *)
DecodedKind(fields) ==
  LET set == Numbered(fields, KnownFields)
  IN  IF set = << >> THEN 0 ELSE set[Len(set)].number

Decoded(bytes) ==
  {[i \in DOMAIN items |->
      DecodedKind(CHOOSE fields \in DecodedFields(items[i].bytes) : TRUE)]
   : items \in {found \in {Numbered(fields, {1}) : fields \in DecodedFields(bytes)} :
                  \A i \in DOMAIN found : DecodedFields(found[i].bytes) # {}}}
----------------------------------------------------------------------------
(* The writer (external): fields into an item, items into the block. A     *)
(* varint is plain, padded with empty groups, or has bits set that its     *)
(* integer has no room for.                                                *)

Encode(v, n) ==
  [i \in 1 .. n |-> ((v \div Shift(i)) % Continues)
                    + (IF i < n THEN Continues ELSE 0)]

Shortest(v) == CHOOSE n \in 1 .. MaxGroups :
                 v < Shift(n + 1) /\ (n = 1 \/ v >= Shift(n))

Spilled(v) == v + TwoTo[IntBits]

Encodings(v) ==
  [plain   |-> {Encode(v, Shortest(v))},
   padded  |-> {Encode(v, n) : n \in (Shortest(v) + 1) .. MaxGroups},
   spilled |-> IF Spilled(v) < Shift(MaxGroups + 1) THEN {Encode(Spilled(v), MaxGroups)} ELSE {}]

Forms == {"plain", "padded", "spilled"}

Oddities(number, type, forms) ==
  Cardinality({k \in 1 .. 4 : <<number \in RareNumbers, type # Delimited,
                                forms[1] # "plain", forms[2] # "plain">>[k]})

(* The bytes of a field in every way they may be written, and how many     *)
(* oddities each has; a field of another type is a tag and a varint of 0.  *)
Field(number, type, bytes) ==
  UNION {{[odd |-> Oddities(number, type, forms), bytes |-> tag \o rest] :
             tag  \in Encodings(number * TwoTo[TypeBits] + type)[forms[1]],
             rest \in IF type # Delimited THEN {<<0>>}
                      ELSE {len \o bytes : len \in Encodings(Len(bytes))[forms[2]]}}
         : forms \in Forms \X Forms}

Fits(field) ==
  /\ odd + field.odd <= MaxOdd
  /\ Len(block_bytes) + Len(item) + Len(field.bytes) <= MaxBytes

WriteInner(number, type, payload) ==
  \E field \in Field(number, type, payload) :
    /\ Fits(field) /\ odd' = odd + field.odd
    /\ item' = item \o field.bytes
    /\ inside' = Append(inside, [number |-> number, type |-> type])
    /\ UNCHANGED <<block_bytes, written>>

(* What has been put into the item is the field's payload.                 *)
WriteField(number, type) ==
  \E field \in Field(number, type, item) :
    /\ type = Delimited \/ item = << >>
    /\ odd + field.odd <= MaxOdd /\ Len(block_bytes) + Len(field.bytes) <= MaxBytes
    /\ odd' = odd + field.odd
    /\ block_bytes' = block_bytes \o field.bytes
    /\ written' = Append(written, [ends |-> Len(block_bytes'), number |-> number, type |-> type,
                                   item |-> item, inside |-> inside])
    /\ item' = << >> /\ inside' = << >>

WireInit ==
  /\ block_bytes = << >> /\ item = << >> /\ inside = << >>
  /\ written = << >> /\ odd = 0

WireNext ==
  \/ \E number \in FieldNumbers \cup RareNumbers, type \in {0, Delimited}, payload \in FieldPayloads :
       WriteInner(number, type, payload)
  \/ \E number \in {1} \cup RareNumbers, type \in {0, Delimited} : WriteField(number, type)

WireSpec == WireInit /\ [][WireNext]_wire
----------------------------------------------------------------------------
(* Wherever the file is cut off, the scan either fails or finds exactly    *)
(* the items written before the cut, each with its own bytes and the kind  *)
(* of its one field, however the varints were padded: it succeeds only on  *)
(* a cut between two fields, when no field before it is of another type    *)
(* and no item is empty or has two fields (wire.rs:70-117).                *)
ScanIsWhatWasWritten ==
  \A cut \in 0 .. Len(block_bytes) :
    LET scan   == scan_block_items(SubSeq(block_bytes, 1, cut))
        before == SubSeq(written, 1, Cardinality({k \in DOMAIN written : written[k].ends <= cut}))
        items  == Numbered(before, {1})
        Sound(w) == /\ w.type = Delimited
                    /\ w.number = 1 => Len(w.inside) = 1 /\ w.inside[1].type = Delimited
    IN  IF /\ cut = 0 \/ \E k \in DOMAIN before : before[k].ends = cut
           /\ \A k \in DOMAIN before : Sound(before[k])
        THEN scan = {[k \in DOMAIN items |-> [kind  |-> items[k].inside[1].number,
                                              bytes |-> items[k].item]]}
        ELSE scan = {}

(* Bytes that the scan and the typed decoder both accept hold the same     *)
(* items for both, in the same order and of the same kind: the roots are   *)
(* computed over the items whose transactions are shown (material.rs:216   *)
(* and block/mod.rs:257). Where a varint's bits are lost, or an item has   *)
(* two fields, one of the two refuses the bytes.                           *)
ScanAgreesWithDecoder ==
  \A cut \in 0 .. Len(block_bytes) :
    LET bytes == SubSeq(block_bytes, 1, cut)
    IN  \A items \in scan_block_items(bytes), kinds \in Decoded(bytes) :
          kinds = [k \in DOMAIN items |->
                     IF items[k].kind \in KnownFields THEN items[k].kind ELSE 0]
=============================================================================
