---------------------------- MODULE MCProofVerdict ----------------------------
(***************************************************************************)
(* Two networks, three epochs (the last one settled), and files put        *)
(* together from parts of any of their blocks. Three committees of three,  *)
(* a bit of 0, 1 or 2 for each seat, and claims that are off by one in     *)
(* their weight, their key, their block and the sum they start from.       *)
(***************************************************************************)
EXTENDS Verdicts, TLC

CONSTANTS m, n

MCEpochOf == 0 :> 0 @@ 1 :> 1 @@ 2 :> 2 @@ 3 :> 2
(* A book longer than the bit vector, two keys that cancel, a broken key.  *)
MCBook == m :> <<1, 2, 4>> @@ n :> <<1, -1, BadKey, 2>>
MCLedgerId == m :> <<1, 1>> @@ n :> <<1>>
MCTotal == m :> 3 @@ n :> 4

Origins == [net : {m}, height : Heights] \cup [net : {n}, height : {0, 2}]

Suffix(b, bits) == SuffixOf(b, bits, Aggregate(Book[b.net], {i \in bits : Book[b.net][i] # BadKey}))

Published == {None, PublicationOf(m), PublicationOf(n)}

File(r, layout, publication) == [root |-> r, layout |-> layout, bootstrap |-> publication]

(* Every part of another block.                                            *)
Mixed ==
  {File(r, classify_layout(VerificationKeyOf(v), SignatureOf(s, 2), Suffix(x, {1})), p) :
     r \in [net : {m}, height : {1, 2}] \cup [net : {n}, height : {0}],
     v \in Origins, s \in Origins, x \in Origins, p \in {None, PublicationOf(m)}}

(* Parts that belong together, each in all its forms.                      *)
Varied ==
  UNION {{File(b, classify_layout([VerificationKeyOf(b) EXCEPT !.readable = k, !.total = t],
                                  SignatureOf(b, w), x), p) :
            k \in BOOLEAN, t \in {Total[b.net], 16}, w \in {0, 1, 2, 6, 10, 16},
            x \in {OtherSuffix} \cup {Suffix(b, bits) : bits \in SUBSET {1, 2, 3}},
            p \in Published} : b \in [net : {m, n}, height : {0, 2}]}

MCMaterials ==
  {Garbage} \cup {File(b, ShortLayout, p) : b \in [net : {m}, height : {0}], p \in Published}
    \cup Mixed \cup Varied

(* What may be given with --bootstrap.                                     *)
MCGivens == {Garbage, Unopened} \cup {File([net |-> m, height |-> 0], ShortLayout, p) : p \in Published}

MCRecomputed == [net : {m}, height : {1, 2}]
----------------------------------------------------------------------------
Seating(weights, keys) ==
  [weight |-> [i \in Seats |-> IF i = Last THEN 0 ELSE weights[i + 1]],
   sk     |-> [i \in Seats |-> IF i = Last THEN 0 ELSE keys[i + 1]]]

(* The second has another weight in it, the third the same with other keys.*)
MCCommittees ==
  {Seating(<<3, 5, 7>>, <<4, 11, 6>>), Seating(<<3, 5, 2>>, <<4, 11, 9>>), Seating(<<3, 5, 7>>, <<4, 11, 9>>)}

ClaimOf(by, verifier, bits, over) ==
  LET seats == [by |-> by, bits |-> bits]
  IN  [by |-> by, verifier |-> verifier, bits |-> bits, over |-> over, start |-> 0,
       weight |-> WeightOfSeats(seats), key |-> KeyOfSeats(seats)]

MCClaims ==
  UNION {{[ClaimOf(by, verifier, bits, over) EXCEPT !.weight = (@ + w) % P, !.key = (@ + k) % P, !.start = s] :
            by \in Committees, verifier \in Committees, over \in {HMsg, HMsg + 1},
            w \in {0, 1}, k \in {0, 1}, s \in {0, 1}} : bits \in [Seats -> 0 .. 2]}
=============================================================================
