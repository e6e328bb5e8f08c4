-------------------------------- MODULE Curve --------------------------------
(***************************************************************************)
(* The points of p256.rs: validation of coordinates, Jacobian doubling and *)
(* addition, multiplication by a scalar and ECDH, on a curve               *)
(* y^2 = x^3 - 3x + b small enough to look at all of it.  The field        *)
(* operations are those of Limbs, where they are taken limb by limb.       *)
(***************************************************************************)
EXTENDS Integers, Sequences, SequencesExt

CONSTANTS
    P,      \* P256_FIELD_MODULUS
    B,      \* P256_CURVE_B
    N,      \* P256_GROUP_ORDER
    Gx, Gy, \* P256_GENERATOR_X and _Y
    Bits    \* the bits of a Uint256

Assumptions ==
    /\ P \in 5..(2^Bits - 1) /\ N \in 2..(2^Bits - 1)
    /\ (Gy * Gy) % P = (Gx * Gx * Gx - 3 * Gx + B) % P

Uint == 0..(2^Bits - 1)
Field == 0..(P - 1)

\* P256_CURVE_A
A == P - 3

FAdd(a, b) == (a + b) % P
FSub(a, b) == (a - b) % P
FMul(a, b) == (a * b) % P
Square(a)  == FMul(a, a)

\* pow_mod: square and multiply from the highest bit.
Power(base, exponent, modulus) ==
    FoldLeft(LAMBDA r, i :
                IF (exponent \div 2^(Bits - i)) % 2 = 1
                THEN (((r * r) % modulus) * base) % modulus
                ELSE (r * r) % modulus,
             1, [i \in 1..Bits |-> i])

\* invert_mod of a value that is not zero.
Invert(a, modulus) == Power(a % modulus, modulus - 2, modulus)

Infinity == <<>>

Generator == <<Gx, Gy>>

IsOnCurve(point) ==
    Square(point[2]) =
        FAdd(FAdd(FMul(Square(point[1]), point[1]), FMul(A, point[1])), B)

\* from_coordinates, which from_sec1_uncompressed ends in.
FromCoordinatesAccepts(x, y) == x < P /\ y < P /\ IsOnCurve(<<x, y>>)

-----------------------------------------------------------------------------
(* JacobianPoint: <<x, y, z>> for the affine x/z^2, y/z^3.                 *)

JacobianIdentity == <<0, 1, 0>>

IsIdentity(j) == j[3] = 0

FromPoint(point) ==
    IF point = Infinity THEN JacobianIdentity ELSE <<point[1], point[2], 1>>

ToPoint(j) ==
    IF IsIdentity(j) THEN Infinity
    ELSE LET zInverse == Invert(j[3], P)
             squared  == Square(zInverse)
         IN <<FMul(j[1], squared), FMul(FMul(j[2], squared), zInverse)>>

Times2(a) == FAdd(a, a)
Times4(a) == Times2(Times2(a))
Times8(a) == Times2(Times4(a))

Double(j) ==
    IF IsIdentity(j) \/ j[2] = 0 THEN JacobianIdentity
    ELSE LET delta == Square(j[3])
             gamma == Square(j[2])
             beta  == FMul(j[1], gamma)
             chord == FMul(FSub(j[1], delta), FAdd(j[1], delta))
             alpha == FAdd(Times2(chord), chord)
             x     == FSub(Square(alpha), Times8(beta))
             z     == FSub(FSub(Square(FAdd(j[2], j[3])), gamma), delta)
             y     == FSub(FMul(alpha, FSub(Times4(beta), x)),
                           Times8(Square(gamma)))
         IN <<x, y, z>>

\* The general case of add(), for points of different x.
Chord(j, k, u1, u2, s1, s2) ==
    LET h == FSub(u2, u1)
        i == Square(Times2(h))
        c == FMul(h, i)
        r == Times2(FSub(s2, s1))
        v == FMul(u1, i)
        x == FSub(FSub(Square(r), c), Times2(v))
        y == FSub(FMul(r, FSub(v, x)), Times2(FMul(s1, c)))
        z == FMul(FSub(FSub(Square(FAdd(j[3], k[3])), Square(j[3])),
                       Square(k[3])), h)
    IN <<x, y, z>>

\* Mutant: points of the same x are taken to be the same.
AddSameX(j, k) ==
    LET u1 == FMul(j[1], Square(k[3]))
        u2 == FMul(k[1], Square(j[3]))
        s1 == FMul(FMul(j[2], k[3]), Square(k[3]))
        s2 == FMul(FMul(k[2], j[3]), Square(j[3]))
    IN IF IsIdentity(j) THEN k
       ELSE IF IsIdentity(k) THEN j
       ELSE IF u1 = u2 THEN Double(j)
       ELSE Chord(j, k, u1, u2, s1, s2)

Add(j, k) ==
    LET u1 == FMul(j[1], Square(k[3]))
        u2 == FMul(k[1], Square(j[3]))
        s1 == FMul(FMul(j[2], k[3]), Square(k[3]))
        s2 == FMul(FMul(k[2], j[3]), Square(j[3]))
    IN IF IsIdentity(j) THEN k
       ELSE IF IsIdentity(k) THEN j
       ELSE IF u1 = u2 /\ s1 # s2 THEN JacobianIdentity
       ELSE IF u1 = u2 THEN Double(j)
       ELSE Chord(j, k, u1, u2, s1, s2)

\* multiply_uint: double and add from the highest bit.
Multiply(point, scalar) ==
    ToPoint(FoldLeft(LAMBDA j, i :
                        IF (scalar \div 2^(Bits - i)) % 2 = 1
                        THEN Add(Double(j), FromPoint(point))
                        ELSE Double(j),
                     JacobianIdentity, [i \in 1..Bits |-> i]))

AddPoint(p, q) == ToPoint(Add(FromPoint(p), FromPoint(q)))

\* p256_ecdh: the x of the common point, or an error.
EcdhError == -1

Ecdh(private, peer) ==
    IF private = 0 \/ peer = Infinity \/ Multiply(peer, private) = Infinity
    THEN EcdhError
    ELSE Multiply(peer, private)[1]
=============================================================================
