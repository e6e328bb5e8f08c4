------------------------------ MODULE Poly1305 ------------------------------
(***************************************************************************)
(* poly1305_authenticate of crypto.rs: arithmetic modulo 2^(5W) - 5 on     *)
(* five limbs of W bits, with carries that are passed on late.  In the     *)
(* code W is 26 and a block has 128 bits, two less than the limbs; here W  *)
(* is a constant.  A chunk of the message is [value, bits], with fewer     *)
(* bits than a block in the last one.                                      *)
(***************************************************************************)
EXTENDS Integers, Sequences

CONSTANTS
    W,           \* bits of a limb
    Messages,    \* sequences of chunks
    Keys         \* [r, pad] as numbers

Assumptions == W \in 3..5

VARIABLES
    message, key,
    h,       \* the accumulator, five limbs
    taken,   \* chunks it has absorbed
    tag      \* -1 before the end

vars == <<message, key, h, taken, tag>>

Indices == 0..4
Limb == 2^W
BlockBits == 5 * W - 2
WordBits == 2 * W + 12    \* u64, as far above two limbs as in the code

Limbs(n) == [i \in Indices |-> (n \div 2^(W * i)) % Limb]

\* Limbs without overlap are packed into the number they stand for.
Packed(l) ==
    l[0] + Limb * (l[1] + Limb * (l[2] + Limb * (l[3] + Limb * l[4])))

-----------------------------------------------------------------------------

\* A full chunk has its high bit in the top limb, a short one a byte after
\* its last.
Added(chunk) ==
    LET high  == IF chunk.bits = BlockBits THEN 2^(W - 2) ELSE 0
        block == IF chunk.bits = BlockBits THEN chunk.value
                 ELSE chunk.value + 2^chunk.bits
    IN [i \in Indices |-> h[i] + Limbs(block)[i] + IF i = 4 THEN high ELSE 0]

\* d0 to d4: limbs that leave at the top come back five times at the bottom.
Product(a, r) ==
    LET Term(i, j) == a[j] * IF j <= i THEN r[i - j] ELSE 5 * r[5 + i - j]
    IN [i \in Indices |->
           Term(i, 0) + Term(i, 1) + Term(i, 2) + Term(i, 3) + Term(i, 4)]

\* Carries are passed on from limb `from` to the top.
Chain(l, from) ==
    LET carry[i \in -1..4] ==
            IF i < from THEN 0 ELSE (l[i] + carry[i - 1]) \div Limb
    IN [sums |-> [i \in Indices |-> l[i] + carry[i - 1]],
        limbs |-> [i \in Indices |->
                      IF i < from THEN l[i] ELSE (l[i] + carry[i - 1]) % Limb],
        out |-> carry[4]]

\* The last carry comes back to the first limb, and from there to the second.
WrapAround(chain) ==
    LET first == chain.limbs[0] + 5 * chain.out
    IN [chain.limbs EXCEPT ![0] = first % Limb, ![1] = @ + first \div Limb]

\* Mutant: the accumulator is taken as it is.
SettledNot(l) == l

\* The carries after the loop.
Settled(l) == WrapAround(Chain(l, 1))

\* g0 to g4 is h + 5 - 2^(5W): chosen unless it is negative.
Reduced(l) ==
    LET chain == Chain([l EXCEPT ![0] = @ + 5], 0)
    IN IF chain.out > 0 THEN chain.limbs ELSE l

-----------------------------------------------------------------------------

\* r is any number: the bits that the code clears in it (the clamp) only
\* narrow the numbers that are multiplied.
Init ==
    /\ message \in Messages /\ key \in Keys
    /\ h = [i \in Indices |-> 0] /\ taken = 0 /\ tag = -1

Absorb ==
    /\ tag = -1 /\ taken < Len(message)
    /\ taken' = taken + 1
    /\ h' = WrapAround(Chain(Product(Added(message[taken']), Limbs(key.r)), 0))
    /\ UNCHANGED <<message, key, tag>>

Finish ==
    /\ tag = -1 /\ taken = Len(message)
    /\ h' = Reduced(Settled(h))
    /\ tag' = (Packed(h') + key.pad) % 2^BlockBits
    /\ UNCHANGED <<message, key, taken>>

Next == Absorb \/ Finish

Spec == Init /\ [][Next]_vars

-----------------------------------------------------------------------------
(* Properties.                                                             *)

Modulus == 2^(5 * W) - 5

\* a * r modulo the modulus, digit by digit to stay small.
TimesModulus(a, r) ==
    LET times[i \in 0..5] ==
            IF i = 5 THEN 0
            ELSE (((times[i + 1] * Limb) % Modulus) + ((a * Limbs(r)[i]) % Modulus)) % Modulus
    IN times[0]

\* The polynomial of the first n chunks, as RFC 8439 defines it.
Polynomial ==
    LET value[n \in 0..Len(message)] ==
            IF n = 0 THEN 0
            ELSE TimesModulus((value[n - 1] + message[n].value + 2^message[n].bits) % Modulus,
                              key.r)
    IN value

\* No sum leaves a u64, the carry added to it included, and the limbs that
\* are packed do not overlap: the carries that are left for later never grow
\* beyond what the next step or the last ones take.
NoBitIsLost ==
    /\ (taken < Len(message)) =>
          \A i \in Indices :
              Chain(Product(Added(message[taken + 1]), Limbs(key.r)), 0).sums[i]
                  < 2^WordBits
    /\ tag # -1 => \A i \in Indices : h[i] < Limb

\* The tag is that of the polynomial, fully reduced, for every message and
\* key: also where the accumulator ends between the modulus and 2^(5W).
TagIsExact ==
    tag # -1 => tag = (Polynomial[Len(message)] + key.pad) % 2^BlockBits
=============================================================================
