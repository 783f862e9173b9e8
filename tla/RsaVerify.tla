----------------------------- MODULE RsaVerify -----------------------------
(***************************************************************************)
(* The signature check of the game: the big-number arithmetic of           *)
(* godot/addons/aegis/aegis_rsa_verify.gd, which raises a signature to the *)
(* public exponent by Montgomery multiplication over limbs and compares    *)
(* the result with the encoded digest.                                     *)
(*                                                                         *)
(* The code has 128 limbs of 16 bits; the numbers of limbs, bits of a limb *)
(* and bits of the exponent are constants here.  A number is the function  *)
(* of its limbs, lowest first.  Hashing, padding, base64url and the cache  *)
(* of prepared keys are left out: an encoded digest is any number.         *)
(***************************************************************************)
EXTENDS Integers, SequencesExt

CONSTANTS
    Limbs,         \* LIMBS
    LimbBits,      \* LIMB_BITS
    ExponentBits,  \* the bits _mod_pow looks at (32)
    MinExponent    \* MIN_EXPONENT

VARIABLES
    publicKey,  \* modulus and exponent
    signature,  \* the signature's limbs
    digest,     \* _expected_em_limbs of the message
    verdict     \* what _verify_signature returned

vars == <<publicKey, signature, digest, verdict>>

LimbBase == 2 ^ LimbBits
Index == 0 .. Limbs - 1
Number == [Index -> 0 .. LimbBase - 1]

\* for index in range(from, to + 1)
Upwards(from, to) == [k \in 1 .. to - from + 1 |-> from + k - 1]

Value(a) == FoldLeft(LAMBDA sum, i : sum + a[i] * LimbBase ^ i, 0, Upwards(0, Limbs - 1))

One == [i \in Index |-> IF i = 0 THEN 1 ELSE 0]

\* _compare(a, b) >= 0: the highest limb that differs decides.
NotBelow(a, b) ==
    LET differ == {i \in Index : a[i] # b[i]}
    IN  differ = {} \/ \E i \in differ : a[i] > b[i] /\ \A j \in differ : j <= i

\* _subtract: the last borrow is dropped.
Subtract(a, b) ==
    LET step(acc, i) ==
          LET difference == a[i] - b[i] - acc.borrow
          IN  [limbs |-> [acc.limbs EXCEPT ![i] = difference % LimbBase],
               borrow |-> IF difference < 0 THEN 1 ELSE 0]
    IN  FoldLeft(step, [limbs |-> a, borrow |-> 0], Upwards(0, Limbs - 1)).limbs

DoubleMod(a, modulus) ==
    LET carryInto(i) == IF i > 0 /\ 2 * a[i - 1] >= LimbBase THEN 1 ELSE 0
        doubled == [i \in Index |-> (2 * a[i] + carryInto(i)) % LimbBase]
    IN  IF 2 * a[Limbs - 1] >= LimbBase \/ NotBelow(doubled, modulus)
        THEN Subtract(doubled, modulus) ELSE doubled

\* _compute_n0inv: Newton's iteration for the inverse of the lowest limb
N0Inv(modulus) ==
    (LimbBase - FoldLeft(LAMBDA inverse, k : (inverse * (2 - modulus[0] * inverse)) % LimbBase,
                         1, Upwards(1, 4))) % LimbBase

\* _compute_r2: the square of LimbBase ^ Limbs, by doubling
R2(modulus) == FoldLeft(LAMBDA a, k : DoubleMod(a, modulus), One, Upwards(1, 2 * Limbs * LimbBits))

-----------------------------------------------------------------------------
(***************************************************************************)
(* _mont_mul.  t has two limbs more than the numbers.                      *)
(***************************************************************************)

\* t + a * factor, from the given limb on, each limb put down "by" places lower.
AddMul(t, a, factor, from, carried, by) ==
    FoldLeft(LAMBDA acc, j :
                 LET uv == t[j] + a[j] * factor + acc.carry
                 IN  [t |-> [acc.t EXCEPT ![j - by] = uv % LimbBase], carry |-> uv \div LimbBase],
             [t |-> t, carry |-> carried], Upwards(from, Limbs - 1))

\* t + a * b_limb
MulLimb(t, a, limb) ==
    LET sum == AddMul(t, a, limb, 0, 0, 0)
        top == t[Limbs] + sum.carry
    IN  [sum.t EXCEPT ![Limbs] = top % LimbBase, ![Limbs + 1] = top \div LimbBase]

\* A multiple of the modulus that clears the lowest limb, which is then shifted out
ReduceLimb(t, modulus, n0inv) ==
    LET multiplier == (t[0] * n0inv) % LimbBase
        carry == (t[0] + multiplier * modulus[0]) \div LimbBase
        sum == AddMul(t, modulus, multiplier, 1, carry, 1)
        last == t[Limbs] + sum.carry
    IN  [sum.t EXCEPT ![Limbs - 1] = last % LimbBase,
                      ![Limbs] = t[Limbs + 1] + last \div LimbBase]

MontMul(a, b, modulus, n0inv) ==
    LET t == FoldLeft(LAMBDA s, i : ReduceLimb(MulLimb(s, a, b[i]), modulus, n0inv),
                      [i \in 0 .. Limbs + 1 |-> 0], Upwards(0, Limbs - 1))
        result == [i \in Index |-> t[i]]
    IN  IF NotBelow(result, modulus) THEN Subtract(result, modulus) ELSE result

\* _mod_pow: square and multiply, from the highest bit that is set
ModPow(base, exponent, modulus) ==
    LET n0inv == N0Inv(modulus)
        Times(a, b) == MontMul(a, b, modulus, n0inv)
        baseMont == Times(base, R2(modulus))
        Bit(k) == (exponent \div 2 ^ k) % 2 = 1
        high == CHOOSE k \in 0 .. ExponentBits - 1 :
                    Bit(k) /\ \A j \in k + 1 .. ExponentBits - 1 : ~ Bit(j)
        step(acc, k) ==
          LET squared == Times(acc, acc)
          IN  IF Bit(high - k) THEN Times(squared, baseMont) ELSE squared
    IN  Times(FoldLeft(step, baseMont, Upwards(1, high)), One)

\* What _prepare_public_key accepts: an odd modulus of full length, an odd exponent.
KeyAccepted(key) ==
    /\ 2 * key.modulus[Limbs - 1] >= LimbBase
    /\ key.modulus[0] % 2 = 1
    /\ key.exponent % 2 = 1 /\ key.exponent >= MinExponent

VerifySignature(em, sig, key) ==
    IF ~ KeyAccepted(key) THEN "key_invalid"
    ELSE IF NotBelow(sig, key.modulus) THEN "signature_out_of_range"
    ELSE IF ModPow(sig, key.exponent, key.modulus) # em THEN "signature_invalid"
    ELSE "valid"

-----------------------------------------------------------------------------
Init ==
    /\ publicKey \in [modulus : Number, exponent : 0 .. 2 ^ ExponentBits - 1]
    /\ signature \in Number /\ digest \in Number
    /\ verdict = "none"

Verify ==
    /\ verdict = "none"
    /\ verdict' = VerifySignature(digest, signature, publicKey)
    /\ UNCHANGED <<publicKey, signature, digest>>

\* The next message, signed with the same key
NextMessage ==
    /\ verdict # "none"
    /\ signature' \in Number /\ digest' \in Number
    /\ verdict' = "none"
    /\ UNCHANGED publicKey

Next == Verify \/ NextMessage

Spec == Init /\ [][Next]_vars

-----------------------------------------------------------------------------
\* The power by its definition
Power(base, exponent, modulus) ==
    LET power[k \in Nat] == IF k = 0 THEN 1 % modulus ELSE (base * power[k - 1]) % modulus
    IN  power[exponent]

\* With an accepted key, a signature in range whose power modulo the key's modulus is the
\* encoded digest is valid, whatever the modulus: the Montgomery product agrees with plain
\* big-integer arithmetic, as the comment on _mont_mul says of it.
SignedIsValid ==
    verdict = "signature_invalid" =>
        Power(Value(signature), publicKey.exponent, Value(publicKey.modulus)) # Value(digest)
=============================================================================
