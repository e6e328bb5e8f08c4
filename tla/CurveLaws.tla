------------------------------ MODULE CurveLaws ------------------------------
(***************************************************************************)
(* Curve against the group law: every pair of points in every Jacobian     *)
(* representation, every scalar, every pair of coordinates.                *)
(***************************************************************************)
EXTENDS Curve, FiniteSets

VARIABLES
    op,           \* "add", "multiply", "decode" or "agree"
    left, right,  \* Jacobian points, scalars or coordinates
    done,         \* whether result holds the outcome
    result

vars == <<op, left, right, done, result>>

\* The group, from its definition: affine points with the chord and tangent
\* law.
AffinePoints ==
    {<<x, y>> \in Field \X Field : (y * y - (x * x * x - 3 * x + B)) % P = 0}

Group == AffinePoints \cup {Infinity}

Slope(p, q) ==
    CHOOSE m \in Field :
        IF p = q THEN (m * 2 * p[2] - (3 * p[1] * p[1] - 3)) % P = 0
        ELSE (m * (q[1] - p[1]) - (q[2] - p[2])) % P = 0

Plus(p, q) ==
    IF p = Infinity THEN q
    ELSE IF q = Infinity THEN p
    ELSE IF p[1] = q[1] /\ (p[2] + q[2]) % P = 0 THEN Infinity
    ELSE LET m == Slope(p, q)
             x == (m * m - p[1] - q[1]) % P
         IN <<x, (m * (p[1] - x) - p[2]) % P>>

\* The multiples of each point, by adding it again and again.
Multiples ==
    [p \in Group |->
        FoldLeft(LAMBDA s, i : Append(s, Plus(s[i], p)), <<Infinity>>,
                 [i \in 1..(2^Bits - 1) |-> i])]

Times(k, p) == Multiples[p][k + 1]

\* All representations of the points.
Jacobians ==
    {<<(p[1] * z * z) % P, (p[2] * z * z * z) % P, z>> :
        p \in AffinePoints, z \in 1..(P - 1)} \cup {JacobianIdentity}

Init ==
    /\ done = FALSE /\ result = <<>>
    /\ \/ op = "add" /\ left \in Jacobians /\ right \in Jacobians
       \/ op = "multiply" /\ left \in Group /\ right \in Uint
       \/ op = "decode" /\ left \in Uint /\ right \in Uint
       \/ op = "agree" /\ left \in 1..(N - 1) /\ right \in 1..(N - 1)

Next ==
    /\ ~done /\ done' = TRUE
    /\ result' = CASE op = "add" -> Add(left, right)
                   [] op = "multiply" -> Multiply(left, right)
                   [] op = "decode" -> FromCoordinatesAccepts(left, right)
                   [] op = "agree" -> Ecdh(left, Multiply(Generator, right))
    /\ UNCHANGED <<op, left, right>>

Spec == Init /\ [][Next]_vars

-----------------------------------------------------------------------------
(* Properties.                                                             *)

\* Adding is the group law for every pair of points in every representation,
\* the same point in two representations, opposite points and the identity
\* too, and its result is again a representation.
AddIsGroupLaw ==
    (op = "add" /\ done) =>
        /\ ToPoint(result) = Plus(ToPoint(left), ToPoint(right))
        /\ ToPoint(result) \in Group

\* Multiplying is repeated addition for every scalar, also for the ones that
\* are not below the order.
MultiplyIsRepeatedAddition ==
    (op = "multiply" /\ done) => result = Times(right, left)

\* Coordinates are accepted exactly if they are a multiple of the generator:
\* a peer's key that passes is in the group, so ECDH with it cannot end at
\* infinity.
DecodesTheGroupOnly ==
    (op = "decode" /\ done) =>
        (result <=> \E k \in 1..(N - 1) : <<left, right>> = Times(k, Generator))

\* Both sides of an ECDH compute the same secret, and never fail.
SidesAgree ==
    (op = "agree" /\ done) =>
        /\ result # EcdhError
        /\ result = Ecdh(right, Multiply(Generator, left))
=============================================================================
