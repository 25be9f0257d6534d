------------------------------- MODULE Hints -------------------------------
(***************************************************************************)
(* Why the checks of a hinTS signature may be taken together: steps 1 and  *)
(* 3 to 7 of verify_hints (src/block/proof/hints.rs) over groups of a      *)
(* prime order P. A group element is its logarithm, so a pairing is a      *)
(* product and a product of pairings a sum. The challenge of step 2 is any *)
(* point the signer and the code agree on: the hash that makes it, and all *)
(* encodings, are left out. Step 0 and what a verdict is made of are       *)
(* ProofVerdict's.                                                         *)
(*                                                                         *)
(* A committee of Parties seats keeps its last seat empty: there stands    *)
(* the weight that is claimed. Seat i is the point Omega^i, and a list of  *)
(* one value per seat the polynomial of degree below Parties through them. *)
(***************************************************************************)
EXTENDS Integers, Sequences, FiniteSets

CONSTANTS
  P,          \* the order of the groups
  Parties,    \* vk.n
  Omega,      \* a root of unity of that order
  Tau,        \* the secret of the setup
  G0, H0,     \* the generators
  HMsg,       \* where the block root hashes to
  Committees, \* the weights and keys of each one's seats
  Claims      \* what a signer may claim

Scalar == 0 .. P - 1
Seats  == 0 .. Parties - 1
Last   == Parties - 1

(* Powers, and the sum of the first n values, which count from 0.          *)
Power(x, n) == LET power[k \in 0 .. n] == IF k = 0 THEN 1 ELSE (x * power[k - 1]) % P
               IN  power[n]
Sum(values, n) == LET sum[k \in 0 .. n] == IF k = 0 THEN 0 ELSE sum[k - 1] + values[k - 1]
                  IN  sum[n]

Reciprocal == [x \in Scalar \ {0} |-> CHOOSE y \in Scalar : (x * y) % P = 1]
Over(x, y) == (x * Reciprocal[y % P]) % P

Point     == [i \in Seats |-> Power(Omega, i)]
Elsewhere == Scalar \ {Point[i] : i \in Seats}

(* Not a seat, not the secret, and neither is the point of the seat before.*)
Challenges == Elsewhere \ {0, Tau, (Tau * Omega) % P}

(* The order is a prime: all but zero have a reciprocal. The seats are the *)
(* roots of unity.                                                         *)
ASSUME HintsConstants ==
  /\ P \in Nat \ {0, 1} /\ \A x \in Scalar \ {0} : \E y \in Scalar : (x * y) % P = 1
  /\ Parties \in Nat \ {0, 1} /\ Parties < P /\ Omega \in Scalar
  /\ \A i, j \in Seats : Point[i] = Point[j] => i = j
  /\ {x \in Scalar : Power(x, Parties) = 1} = {Point[i] : i \in Seats}
  /\ Tau \in Elsewhere \ {0} /\ {G0, H0, HMsg} \subseteq Scalar \ {0}
  /\ Committees \subseteq [weight : [Seats -> Scalar], sk : [Seats -> Scalar]]
  /\ \A c \in Committees : c.weight[Last] = 0 /\ c.sk[Last] = 0
  /\ Claims \subseteq [by : Committees, verifier : Committees, bits : [Seats -> Scalar],
                       start : Scalar, weight : Scalar, key : Scalar, over : Scalar]

Vanishing(x) == Power(x, Parties) - 1

Lagrange ==
  [i \in Seats |-> [x \in Elsewhere |-> Over(Point[i] * Vanishing(x), Parties * (x - Point[i]))]]

Through(values, x) == Sum([i \in Seats |-> values[i] * Lagrange[i][x]], Parties) % P

(* What is left of a value over the vanishing polynomial, once what it     *)
(* leaves at the seats has been taken off.                                 *)
Quotient(value, remains, x) == Over(value - Through(remains, x), Vanishing(x))
----------------------------------------------------------------------------
(* What a committee's key commits to.                                      *)
HintsVk(committee) ==
  [g0 |-> G0, h0 |-> H0, h1 |-> H0 * Tau,
   ln_minus_1_of_tau_com |-> G0 * Lagrange[Last][Tau],
   w_of_tau_com          |-> G0 * Through(committee.weight, Tau),
   sk_of_tau_com         |-> H0 * Through(committee.sk, Tau),
   z_of_tau_com          |-> H0 * Vanishing(Tau)]

(* The keys of the seats a claim has set, aggregated; and their weights.   *)
Signed(claim)        == [i \in Seats |-> claim.bits[i] * claim.by.sk[i]]
KeyOfSeats(claim)    == Over(Sum(Signed(claim), Parties), Parties)
WeightOfSeats(claim) == Sum([i \in Seats |-> claim.by.weight[i] * claim.bits[i]], Last) % P

(* The claim is true of the committee it is made of: bits of its seats,    *)
(* and the sum of their weights, counted from zero.                        *)
IsCounted(claim) ==
  /\ \A i \in Seats : claim.bits[i] \in {0, 1}
  /\ claim.bits[Last] = 1 /\ claim.start = 0 /\ claim.weight = WeightOfSeats(claim)

(* And of the committee it is checked against, its keys and the block's    *)
(* root. A sum of keys that is zero signs anything: its weight is          *)
(* ProofVerdict's.                                                         *)
IsTrue(claim) ==
  /\ IsCounted(claim) /\ claim.by = claim.verifier
  /\ claim.key = KeyOfSeats(claim) /\ (claim.over = HMsg \/ claim.key = 0)

Equal(x, y) == (x - y) % P = 0

(* Nobody knows the secret: of two committees, no claim has weights that   *)
(* happen to meet there, and then keys that do.                            *)
ASSUME TauIsSecret ==
  \A claim \in Claims : IsCounted(claim) /\ claim.by # claim.verifier =>
    \/ Through(claim.by.weight, Tau) # Through(claim.verifier.weight, Tau)
    \/ ~ Equal(Through(claim.bits, Tau) * (Through(claim.verifier.sk, Tau) - Through(claim.by.sk, Tau)),
               claim.key - KeyOfSeats(claim))

(* The last seat's weight, and what is summed up from seat to seat.        *)
Adjusted(claim) == [claim.by.weight EXCEPT ![Last] = (@ - claim.weight) % P]
ParSum(claim) ==
  [i \in Seats |-> (claim.start + Sum([j \in Seats |-> Adjusted(claim)[j] * claim.bits[j]], i + 1)) % P]

(* What a claim leaves at the seats; of a true one that is nothing.        *)
Remains(claim) ==
  LET parsum == ParSum(claim)
      bits   == claim.bits
  IN  <<[i \in Seats |-> parsum[i] - parsum[(i + Last) % Parties] - Adjusted(claim)[i] * bits[i]],
        [i \in Seats |-> bits[i] * bits[i] - bits[i]],
        [i \in Seats |-> IF i = Last THEN parsum[i] ELSE 0],
        [i \in Seats |-> IF i = Last THEN bits[i] - 1 ELSE 0]>>

(* The seven that are opened at the challenge, as the scheme has them: the *)
(* best a signer can make of a claim is to drop the remainders.            *)
Opened(claim, x) ==
  LET p == Through(ParSum(claim), x)
      w == Through(Adjusted(claim), x)
      b == Through(claim.bits, x)
      q(n, value) == Quotient(value, Remains(claim)[n], x)
  IN  <<p, w, b, q(1, p - Through(ParSum(claim), Over(x, Omega)) - w * b),
        q(3, Lagrange[Last][x] * p), q(2, b * b - b), q(4, Lagrange[Last][x] * (b - 1))>>

HintsSignature(claim, r) ==
  LET atTau  == Opened(claim, Tau)
      atR    == Opened(claim, r)
      before == Over(r, Omega)
      parsum_before == Through(ParSum(claim), before)
      qx     == G0 * Over(Through(Signed(claim), Tau) - Through(Signed(claim), 0), Tau)
  IN  [agg_pk |-> G0 * claim.key, agg_weight |-> claim.weight, agg_sig |-> claim.key * claim.over,
       b_of_tau_com |-> G0 * atTau[3], qx_of_tau_com |-> qx, qx_of_tau_mul_tau_com |-> qx * Tau,
       qz_of_tau_com |->
         G0 * Quotient(Through(claim.bits, Tau) * Through(claim.by.sk, Tau), Signed(claim), Tau),
       parsum_of_tau_com |-> G0 * atTau[1],
       q1_of_tau_com |-> G0 * atTau[4], q3_of_tau_com |-> G0 * atTau[5],
       q2_of_tau_com |-> G0 * atTau[6], q4_of_tau_com |-> G0 * atTau[7],
       opening_proof_r |->
         G0 * Over(Sum([k \in 0 .. 6 |-> (atTau[k + 1] - atR[k + 1]) * Power(r, k)], 7), Tau - r),
       opening_proof_r_div_omega |-> G0 * Over(atTau[1] - parsum_before, Tau - before),
       parsum_of_r |-> atR[1], parsum_of_r_div_omega |-> parsum_before,
       w_of_r |-> atR[2], b_of_r |-> atR[3],
       q1_of_r |-> atR[4], q3_of_r |-> atR[5], q2_of_r |-> atR[6], q4_of_r |-> atR[7]]

Parts == DOMAIN HintsSignature(CHOOSE claim \in Claims : TRUE, CHOOSE r \in Challenges : TRUE)
----------------------------------------------------------------------------
pairing_product_is_one(g1s, g2s) ==
  Equal(Sum([i \in 0 .. Len(g1s) - 1 |-> g1s[i + 1] * g2s[i + 1]], Len(g1s)), 0)

bls_signature_valid(vk, sig) == pairing_product_is_one(<<sig.agg_pk, -vk.g0>>, <<HMsg, sig.agg_sig>>)

(* Step 3: seven openings at r, batched with its powers.                   *)
merged_kzg_valid(vk, sig, r) ==
  LET mk_arg(com, eval_at_r) == (com - vk.g0 * eval_at_r) % P
      w_adjusted == vk.w_of_tau_com - vk.ln_minus_1_of_tau_com * sig.agg_weight
      args == <<mk_arg(sig.parsum_of_tau_com, sig.parsum_of_r),
                mk_arg(w_adjusted, sig.w_of_r),
                mk_arg(sig.b_of_tau_com, sig.b_of_r),
                mk_arg(sig.q1_of_tau_com, sig.q1_of_r),
                mk_arg(sig.q3_of_tau_com, sig.q3_of_r),
                mk_arg(sig.q2_of_tau_com, sig.q2_of_r),
                mk_arg(sig.q4_of_tau_com, sig.q4_of_r)>>
      merged == Sum([k \in 0 .. 6 |-> args[k + 1] * Power(r, k)], 7)
  IN  pairing_product_is_one(<<merged, -sig.opening_proof_r>>, <<vk.h0, vk.h1 - vk.h0 * r>>)

(* Broken variant: the seat after r.                                       *)
parsum_kzg_forward(vk, sig, r) ==
  pairing_product_is_one(<<sig.parsum_of_tau_com - vk.g0 * sig.parsum_of_r_div_omega,
                           -sig.opening_proof_r_div_omega>>,
                         <<vk.h0, vk.h1 - vk.h0 * (r * Omega)>>)

(* Step 4: the opening at the seat before r.                               *)
parsum_kzg_valid(vk, sig, r) ==
  pairing_product_is_one(<<sig.parsum_of_tau_com - vk.g0 * sig.parsum_of_r_div_omega,
                           -sig.opening_proof_r_div_omega>>,
                         <<vk.h0, vk.h1 - vk.h0 * Over(r, Omega)>>)

(* Step 5.                                                                 *)
b_sk_identity_valid(vk, sig) ==
  pairing_product_is_one(<<sig.b_of_tau_com, -sig.qz_of_tau_com, -sig.qx_of_tau_com, -sig.agg_pk>>,
                         <<vk.sk_of_tau_com, vk.z_of_tau_com, vk.h1, vk.h0>>)

(* Step 6: each seat adds its weight if its bit is set and the sum ends at *)
(* zero; every bit is 0 or 1, and the last one 1.                          *)
parsum_accumulation_valid(sig, r) ==
  Equal(sig.parsum_of_r - sig.parsum_of_r_div_omega - sig.w_of_r * sig.b_of_r, sig.q1_of_r * Vanishing(r))

ln_minus_1_of_r(r) == Over(Power(Omega, Last), Parties) * Over(Vanishing(r), r - Power(Omega, Last))

parsum_constraint_valid(sig, r) == Equal(ln_minus_1_of_r(r) * sig.parsum_of_r, Vanishing(r) * sig.q3_of_r)

bitmap_well_formedness_valid(sig, r) ==
  Equal(sig.b_of_r * sig.b_of_r - sig.b_of_r, sig.q2_of_r * Vanishing(r))

bitmap_constraint_valid(sig, r) == Equal(ln_minus_1_of_r(r) * (sig.b_of_r - 1), Vanishing(r) * sig.q4_of_r)

(* Step 7.                                                                 *)
degree_check_valid(vk, sig) ==
  pairing_product_is_one(<<sig.qx_of_tau_com, -sig.qx_of_tau_mul_tau_com>>, <<vk.h1, vk.h0>>)

(* all_passed, but for the threshold.                                      *)
identities_hold(vk, sig, r) ==
  /\ bls_signature_valid(vk, sig)
  /\ merged_kzg_valid(vk, sig, r) /\ parsum_kzg_valid(vk, sig, r)
  /\ b_sk_identity_valid(vk, sig)
  /\ parsum_accumulation_valid(sig, r) /\ parsum_constraint_valid(sig, r)
  /\ bitmap_well_formedness_valid(sig, r) /\ bitmap_constraint_valid(sig, r)
  /\ degree_check_valid(vk, sig)
----------------------------------------------------------------------------
VARIABLE argument  \* the claim, the part that got altered, where it was accepted

NoArgument == [phase |-> "none"]
HintsInit == argument = NoArgument

(* A signer makes a claim.                                                 *)
Claim(claim) ==
  argument' = [phase |-> "claimed", claim |-> claim, altered |-> "nothing"]

(* One part of a true claim's signature is another one.                    *)
Alter(part) ==
  /\ argument.altered = "nothing" /\ IsTrue(argument.claim)
  /\ argument' = [argument EXCEPT !.altered = part]

(* The code checks it, wherever the challenge may fall.                    *)
CheckIdentities ==
  /\ argument.phase = "claimed"
  /\ LET vk == HintsVk(argument.claim.verifier)
         accepts(r) ==
           LET made == HintsSignature(argument.claim, r)
               sig  == [part \in Parts |-> (made[part] + IF part = argument.altered THEN 1 ELSE 0) % P]
           IN  identities_hold(vk, sig, r)
     IN  argument' = [phase |-> "checked", claim |-> argument.claim, altered |-> argument.altered,
                      accepted |-> {r \in Challenges : accepts(r)}]

HintsNext ==
  \/ argument.phase = "none" /\ \E claim \in Claims : Claim(claim)
  \/ argument.phase = "claimed" /\ \E part \in Parts : Alter(part)
  \/ CheckIdentities

HintsSpec == HintsInit /\ [][HintsNext]_argument
----------------------------------------------------------------------------
(* The identities decide the claim: a true one is accepted wherever the    *)
(* challenge falls, and nowhere once any of the 22 parts of its signature  *)
(* is another one; of a false one, as well made as can be, no more         *)
(* challenges are fooled than a polynomial of degree below n has zeros     *)
(* (hints.rs:377-491).                                                     *)
IdentitiesDecideTheClaim ==
  argument.phase = "checked" =>
    IF ~ IsTrue(argument.claim) THEN Cardinality(argument.accepted) < Parties
    ELSE argument.accepted = IF argument.altered = "nothing" THEN Challenges ELSE {}
=============================================================================
