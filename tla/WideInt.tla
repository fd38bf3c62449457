------------------------------ MODULE WideInt -------------------------------
(***************************************************************************)
(* 256-bit integers without a bignum: read.rs turns a decimal text into    *)
(* limbs, xdr.rs turns limbs into a decimal text.  Each is a loop with a   *)
(* carry over limbs, most significant first, with two's complement on top. *)
(* The width of a limb and their number are parameters; a chunk of digits  *)
(* is one digit, the largest power of ten that fits the limbs checked.     *)
(***************************************************************************)
EXTENDS Integers, Sequences, SequencesExt

CONSTANTS
    LimbBits,     \* 64 in the code
    NLimbs,       \* 4 in the code
    Magnitudes    \* what clients write

VARIABLES number, \* the text: sign, leading zeros, magnitude
          kind,   \* "u256" or "i256"
          pc,
          limbs,  \* the encoded value
          text    \* the text it is shown as: sign and digits

vars == <<number, kind, pc, limbs, text>>

Base == 2 ^ LimbBits
Modulus == Base ^ NLimbs
CHUNK == 10

Zero == [i \in 1 .. NLimbs |-> 0]
Overflow == <<>>

RECURSIVE DigitsOf(_)
DigitsOf(n) == IF n < 10 THEN <<n>> ELSE DigitsOf(n \div 10) \o <<n % 10>>

-----------------------------------------------------------------------------
\* read.rs: from text to limbs.

(* l * 10 + digit, from the least significant limb up.                     *)
mul10_add(l, digit) ==
    LET acc[i \in 1 .. NLimbs] == l[i] * 10 + (IF i = NLimbs THEN digit ELSE acc[i + 1] \div Base)
    IN IF acc[1] \div Base = 0 THEN [i \in 1 .. NLimbs |-> acc[i] % Base] ELSE Overflow

NoCarry(l) == [i \in 1 .. NLimbs |-> IF i = NLimbs THEN (Base - l[i]) % Base ELSE Base - 1 - l[i]]
negate(l) ==
    LET acc[i \in 1 .. NLimbs] == (Base - 1 - l[i]) + (IF i = NLimbs THEN 1 ELSE acc[i + 1] \div Base)
    IN [i \in 1 .. NLimbs |-> acc[i] % Base]

parse_digits(digits) ==
    FoldLeft(LAMBDA l, d : IF l = Overflow THEN Overflow ELSE mul10_add(l, d), Zero, digits)

top(l) == l[1] >= Base \div 2
is_min(l) == l[1] = Base \div 2 /\ \A i \in 2 .. NLimbs : l[i] = 0

OutOfRange(neg, l) == top(l) /\ ~(neg /\ is_min(l))

(* parse_u256 and parse_i256; Overflow stands for the error.               *)
Parsed(k, neg, digits) ==
    LET l == parse_digits(digits) IN
    IF l = Overflow \/ (k = "u256" /\ neg) THEN Overflow
    ELSE IF k = "u256" THEN l
    ELSE IF OutOfRange(neg, l) THEN Overflow
    ELSE IF neg THEN negate(l) ELSE l

-----------------------------------------------------------------------------
\* xdr.rs: from limbs to text.

(* One round of the division by CHUNK: the quotient and the remainder,     *)
(* from the most significant limb down.                                    *)
Divided(l) ==
    LET rem[i \in 0 .. NLimbs] == IF i = 0 THEN 0 ELSE (rem[i - 1] * Base + l[i]) % CHUNK
    IN [quotient |-> [i \in 1 .. NLimbs |-> (rem[i - 1] * Base + l[i]) \div CHUNK], rem |-> rem[NLimbs]]

RECURSIVE u256_to_decimal(_)
u256_to_decimal(l) ==
    LET round == Divided(l) IN
    IF round.quotient = Zero THEN <<round.rem>> ELSE u256_to_decimal(round.quotient) \o <<round.rem>>

(* Two's complement: the sign and the digits of the magnitude.             *)
i256_to_decimal(l) ==
    IF top(l) THEN [neg |-> TRUE, digits |-> u256_to_decimal(negate(l))]
    ELSE [neg |-> FALSE, digits |-> u256_to_decimal(l)]

-----------------------------------------------------------------------------
Init ==
    /\ number \in [neg : BOOLEAN, zeros : {0, 1}, magnitude : Magnitudes]
    /\ kind \in {"u256", "i256"} /\ pc = "parse" /\ limbs = Zero
    /\ text = [neg |-> FALSE, digits |-> <<>>]

Parse ==
    /\ pc = "parse"
    /\ limbs' = Parsed(kind, number.neg, [i \in 1 .. number.zeros |-> 0] \o DigitsOf(number.magnitude))
    /\ pc' = "show"
    /\ UNCHANGED <<number, kind, text>>

Show ==
    /\ pc = "show" /\ limbs # Overflow
    /\ text' = IF kind = "i256" THEN i256_to_decimal(limbs)
               ELSE [neg |-> FALSE, digits |-> u256_to_decimal(limbs)]
    /\ pc' = "shown"
    /\ UNCHANGED <<number, kind, limbs>>

Next == Parse \/ Show

Spec == Init /\ [][Next]_vars

Value == IF number.neg THEN -number.magnitude ELSE number.magnitude

LimbValue(l) == FoldLeft(LAMBDA n, limb : n * Base + limb, 0, l)

(* The interval a kind can hold; u256 refuses any text with a minus.       *)
Holds == IF kind = "u256" THEN ~number.neg /\ number.magnitude < Modulus
         ELSE -(Modulus \div 2) <= Value /\ Value < Modulus \div 2

(* read.rs:899, xdr.rs:229: a text is refused exactly when its number does *)
(* not fit, both ends of the signed range included; the limbs of one that   *)
(* was accepted are its two's complement, and it is shown as itself,       *)
(* without leading zeros.                                                  *)
WideExact ==
    /\ pc # "parse" => (limbs = Overflow <=> ~Holds)
    /\ pc # "parse" /\ limbs # Overflow => LimbValue(limbs) = Value % Modulus
    /\ pc = "shown" => text = [neg |-> Value < 0, digits |-> DigitsOf(number.magnitude)]
=============================================================================
