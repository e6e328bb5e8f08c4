-------------------------------- MODULE Limbs --------------------------------
(***************************************************************************)
(* The fixed-width integers of p256.rs: Uint256 as four limbs and          *)
(* WideUint512 as eight, lowest first, with their carries and borrows, and *)
(* the modular operations: a wide value is made, row by row for a product, *)
(* and reduced bit by bit.  A limb has LimbBits bits instead of 64.        *)
(***************************************************************************)
EXTENDS Integers, Sequences

CONSTANTS
    LimbBits,
    Operands,  \* the operands looked at
    Moduli     \* the moduli looked at

R == 2^LimbBits

Assumptions ==
    /\ LimbBits \in Nat \ {0}
    /\ Operands \cup Moduli \subseteq 0..(R^4 - 1)
    /\ 0 \notin Moduli

VARIABLES
    op,         \* "reduce", "add", "multiply" or "subtract"
    left, right, modulus,
    wide,       \* the wide value
    row,        \* rows of the product still to add
    remainder,  \* the five limbs of reduce_wide
    index,      \* bits of it still to take
    fits,       \* FALSE once an assert failed or a u128 overflowed
    pc          \* "start", "multiplying", "reducing" or "done"

vars == <<op, left, right, modulus, wide, row, remainder, index, fits, pc>>

Zero(n) == [i \in 1..n |-> 0]

\* from_be_bytes: the n limbs of a number.
ToLimbs(value, n) == [i \in 1..n |-> (value \div R^(i - 1)) % R]

ValueOf(limbs) ==
    LET value[i \in 0..Len(limbs)] ==
            IF i = 0 THEN 0 ELSE value[i - 1] + limbs[i] * R^(i - 1)
    IN value[Len(limbs)]

\* Mutant: a carry out of the second addition is lost.
CarriesOnce(a, b) ==
    [i \in 0..4 |-> IF i > 0 /\ a[i] + b[i] >= R THEN 1 ELSE 0]

\* The carry out of each limb: each is added twice, with two possible ones.
Carries(a, b) ==
    LET carry[i \in 0..4] ==
            IF i = 0 THEN 0
            ELSE IF a[i] + b[i] >= R \/ ((a[i] + b[i]) % R) + carry[i - 1] >= R
            THEN 1 ELSE 0
    IN carry

\* overflowing_add, with the carry as a fifth limb.
OverflowingAdd(a, b) ==
    LET carry == Carries(a, b)
    IN [i \in 1..5 |-> IF i = 5 THEN carry[4]
                       ELSE (((a[i] + b[i]) % R) + carry[i - 1]) % R]

Borrows(a, b) ==
    LET borrow[i \in 0..Len(a)] ==
            IF i = 0 THEN 0
            ELSE IF a[i] < b[i] \/ (a[i] - b[i]) % R < borrow[i - 1]
            THEN 1 ELSE 0
    IN borrow

\* overflowing_sub and subtract_five_limbs, without the borrow.
Subtract(a, b) ==
    LET borrow == Borrows(a, b)
    IN [i \in 1..Len(a) |-> (((a[i] - b[i]) % R) - borrow[i - 1]) % R]

\* What row i of a product adds up to at each place from i on: the product of
\* two limbs, the limb there and the carry; above the fourth place only the
\* carry is passed on.
Accumulated(a, b, limbs, i) ==
    LET sum[p \in (i - 1)..8] ==
            IF p = i - 1 THEN 0
            ELSE (IF p < i + 4 THEN a[i] * b[p - i + 1] ELSE 0)
                 + limbs[p] + (sum[p - 1] \div R)
    IN sum

\* cmp and compare_five_limbs, from the highest limb.
NotLess(a, b) ==
    LET differing == {i \in 1..Len(a) : a[i] # b[i]}
    IN differing = {} \/ \E i \in differing :
                            a[i] > b[i] /\ \A j \in differing : j <= i

Bit(limbs, n) == (limbs[(n \div LimbBits) + 1] \div 2^(n % LimbBits)) % 2

ShiftLeftOne(limbs) ==
    [i \in 1..5 |-> IF i = 1 THEN (2 * limbs[i]) % R
                    ELSE ((2 * limbs[i]) % R) + (limbs[i - 1] \div (R \div 2))]

Init ==
    /\ op \in {"reduce", "add", "multiply", "subtract"}
    /\ \E a, b \in Operands : left = ToLimbs(a, 4) /\ right = ToLimbs(b, 4)
    /\ \E m \in Moduli : modulus = ToLimbs(m, 4)
    /\ op = "subtract" => ~NotLess(left, modulus) /\ ~NotLess(right, modulus)
    /\ wide = Zero(8) /\ row = 4 /\ remainder = Zero(5)
    /\ index = 8 * LimbBits /\ fits = TRUE /\ pc = "start"

\* reduce_uint and add_mod: the value or the sum, in a wide one.
Widen ==
    /\ pc = "start" /\ op \in {"reduce", "add"}
    /\ wide' = IF op = "reduce" THEN left \o Zero(4)
               ELSE OverflowingAdd(left, right) \o Zero(3)
    /\ pc' = "reducing"
    /\ UNCHANGED <<op, left, right, modulus, row, remainder, index, fits>>

\* mul_mod
StartProduct ==
    /\ pc = "start" /\ op = "multiply" /\ pc' = "multiplying"
    /\ UNCHANGED <<op, left, right, modulus, wide, row, remainder, index, fits>>

\* One turn of the outer loop of multiply_wide.
MultiplyRow ==
    /\ pc = "multiplying" /\ row > 0
    /\ LET i   == 5 - row
           sum == Accumulated(left, right, wide, i)
       IN /\ wide' = [p \in 1..8 |-> IF p < i THEN wide[p] ELSE sum[p] % R]
          /\ fits' = (fits /\ sum[8] < R /\ \A p \in i..8 : sum[p] < R * R)
    /\ row' = row - 1
    /\ UNCHANGED <<op, left, right, modulus, remainder, index, pc>>

EndProduct ==
    /\ pc = "multiplying" /\ row = 0 /\ pc' = "reducing"
    /\ UNCHANGED <<op, left, right, modulus, wide, row, remainder, index, fits>>

\* sub_mod
SubtractMod ==
    /\ pc = "start" /\ op = "subtract"
    /\ LET difference == Subtract(right, left)
       IN remainder' = Append(IF NotLess(left, right) THEN Subtract(left, right)
                              ELSE Subtract(modulus, difference), 0)
    /\ pc' = "done"
    /\ UNCHANGED <<op, left, right, modulus, wide, row, index, fits>>

\* One bit of reduce_wide: shift, take the bit in, subtract the modulus.
ReduceBit ==
    /\ pc = "reducing" /\ index > 0
    /\ LET shifted == ShiftLeftOne(remainder)
           more    == [shifted EXCEPT ![1] = @ + Bit(wide, index - 1)]
           m       == Append(modulus, 0)
       IN /\ remainder' = IF NotLess(more, m) THEN Subtract(more, m) ELSE more
          /\ fits' = (/\ fits /\ remainder[5] < R \div 2
                      /\ NotLess(more, m) => Borrows(more, m)[5] = 0)
    /\ index' = index - 1
    /\ UNCHANGED <<op, left, right, modulus, wide, row, pc>>

EndReduction ==
    /\ pc = "reducing" /\ index = 0
    /\ fits' = (fits /\ remainder[5] = 0)
    /\ pc' = "done"
    /\ UNCHANGED <<op, left, right, modulus, wide, row, remainder, index>>

Next == Widen \/ StartProduct \/ MultiplyRow \/ EndProduct \/ SubtractMod
        \/ ReduceBit \/ EndReduction

Spec == Init /\ [][Next]_vars

-----------------------------------------------------------------------------
(* Properties.                                                             *)

\* The integer that is to be reduced.
Exact == CASE op = "reduce" -> ValueOf(left)
           [] op = "add" -> ValueOf(left) + ValueOf(right)
           [] op = "multiply" -> ValueOf(left) * ValueOf(right)
           [] op = "subtract" -> ValueOf(left) - ValueOf(right)

\* The wide value is the integer it stands for: after each row of a product
\* it is the product with the limbs of the rows so far, and no u128 and no
\* limb above the eighth was needed.
WideIsExact ==
    /\ fits
    /\ CASE pc = "multiplying" ->
               ValueOf(wide) = (ValueOf(left) % R^(4 - row)) * ValueOf(right)
         [] pc = "reducing" -> ValueOf(wide) = Exact
         [] OTHER -> TRUE

\* The remainder is that of the bits taken so far, and in the end of the
\* exact value; no bit is shifted out, no borrow is left and the fifth limb
\* ends at zero.
RemainderIsExact ==
    /\ fits
    /\ CASE pc = "reducing" ->
               ValueOf(remainder)
                  = (ValueOf(wide) \div 2^index) % ValueOf(modulus)
         [] pc = "done" -> ValueOf(remainder) = Exact % ValueOf(modulus)
         [] OTHER -> TRUE
=============================================================================
