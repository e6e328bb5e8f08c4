--------------------------- MODULE TlsInputProofs ---------------------------
(***************************************************************************)
(* What the decoders of tls.rs accept, return and keep back, proved for    *)
(* every input, however it is cut, and for all limits: the inductive       *)
(* invariants of Deframing, InnerPlaintext, HelloVectors and ClientHello,  *)
(* and what follows from them.  FormatsProofs puts them together.          *)
(***************************************************************************)
EXTENDS TlsInputs, FiniteSetTheorems, WellFoundedInduction, SequenceTheorems, TLAPS

-----------------------------------------------------------------------------
(* Sets of numbers.                                                        *)

\* A set of numbers has a least one.
LEMMA LeastExists ==
    ASSUME NEW S \in SUBSET Nat, S # {}
    PROVE  \E x \in S : \A y \in S : x <= y
  <1>1. PICK x \in S : \A y \in S : ~(<<y, x>> \in OpToRel(<, Nat))
    BY NatLessThanWellFounded, WFMin
  <1>2. \A y \in S : ~(y < x)
    BY <1>1 DEF OpToRel
  <1> QED
    BY <1>2

\* A bounded set of numbers has a greatest one.
LEMMA GreatestExists ==
    ASSUME NEW m \in Nat, NEW S \in SUBSET (0 .. m), S # {}
    PROVE  \E x \in S : \A y \in S : y <= x
  <1> DEFINE T == {m - x : x \in S}
  <1>1. T \in SUBSET Nat /\ T # {}
    <2>1. \A x \in S : m - x \in Nat
      OBVIOUS
    <2> QED
      BY <2>1
  <1>2. PICK t \in T : \A u \in T : t <= u
    BY <1>1, LeastExists
  <1>3. PICK x \in S : t = m - x
    OBVIOUS
  <1>4. \A y \in S : m - x <= m - y
    BY <1>2, <1>3
  <1> QED
    BY <1>4

-----------------------------------------------------------------------------
(* Putting sequences together and taking them apart.                       *)

\* What a concatenation holds.
LEMMA Joined ==
    ASSUME NEW S, NEW a \in Seq(S), NEW b \in Seq(S)
    PROVE  /\ a \o b \in Seq(S) /\ Len(a \o b) = Len(a) + Len(b)
           /\ \A i \in 1 .. Len(a) : (a \o b)[i] = a[i]
           /\ \A i \in 1 .. Len(b) : (a \o b)[Len(a) + i] = b[i]
  <1>1. PICK c : c = a \o b
    OBVIOUS
  <1>2. /\ c \in Seq(S) /\ Len(c) = Len(a) + Len(b)
        /\ \A i \in 1 .. Len(a) + Len(b) :
              c[i] = IF i <= Len(a) THEN a[i] ELSE b[i - Len(a)]
    BY <1>1, ConcatProperties
  <1>3. PICK m \in Nat, n \in Nat : m = Len(a) /\ n = Len(b)
    BY LenProperties
  <1>4. \A i \in 1 .. m : c[i] = a[i]
    <2> SUFFICES ASSUME NEW i \in 1 .. m PROVE c[i] = a[i]
      OBVIOUS
    <2>1. i \in 1 .. m + n /\ i <= m
      BY <1>3
    <2> QED
      BY <1>2, <1>3, <2>1
  <1>5. \A i \in 1 .. n : c[m + i] = b[i]
    <2> SUFFICES ASSUME NEW i \in 1 .. n PROVE c[m + i] = b[i]
      OBVIOUS
    <2>1. m + i \in 1 .. m + n /\ ~(m + i <= m) /\ (m + i) - m = i
      BY <1>3
    <2>2. c[m + i] = b[(m + i) - m]
      BY <1>2, <1>3, <2>1
    <2> QED
      BY <2>1, <2>2
  <1> QED
    BY <1>1, <1>2, <1>3, <1>4, <1>5

\* What a piece of a sequence holds.
LEMMA Slice ==
    ASSUME NEW S, NEW s \in Seq(S), NEW m \in Nat, NEW n \in Nat,
           1 <= m, m <= n + 1, n <= Len(s)
    PROVE  /\ SubSeq(s, m, n) \in Seq(S) /\ Len(SubSeq(s, m, n)) = n - m + 1
           /\ \A i \in 1 .. n - m + 1 : SubSeq(s, m, n)[i] = s[m + i - 1]
  <1>1. PICK l \in Nat : l = Len(s)
    BY LenProperties
  <1>2. \A i \in m .. n : s[i] \in S
    <2> SUFFICES ASSUME NEW i \in m .. n PROVE s[i] \in S
      OBVIOUS
    <2>1. i \in 1 .. l
      BY <1>1
    <2> QED
      BY <1>1, <2>1, ElementOfSeq
  <1>3. PICK u : u = SubSeq(s, m, n)
    OBVIOUS
  <1>4. /\ u \in Seq(S)
        /\ Len(u) = IF m <= n THEN n - m + 1 ELSE 0
        /\ \A i \in 1 .. n - m + 1 : u[i] = s[m + i - 1]
    BY <1>2, <1>3, SubSeqProperties
  <1>5. Len(u) = n - m + 1
    BY <1>4
  <1> QED
    BY <1>3, <1>4, <1>5

\* What a part of a sequence from its beginning holds.
LEMMA Prefix ==
    ASSUME NEW S, NEW s \in Seq(S), NEW n \in Nat, n <= Len(s)
    PROVE  /\ SubSeq(s, 1, n) \in Seq(S) /\ Len(SubSeq(s, 1, n)) = n
           /\ \A i \in 1 .. n : SubSeq(s, 1, n)[i] = s[i]
  <1>0. PICK u : u = SubSeq(s, 1, n)
    OBVIOUS
  <1>1. /\ u \in Seq(S) /\ Len(u) = n - 1 + 1
        /\ \A i \in 1 .. n - 1 + 1 : u[i] = s[1 + i - 1]
    <2>1. 1 \in Nat /\ 1 <= 1 /\ 1 <= n + 1
      OBVIOUS
    <2> QED
      BY <1>0, <2>1, Slice
  <1>2. n - 1 + 1 = n /\ \A i \in 1 .. n : 1 + i - 1 = i
    OBVIOUS
  <1> QED
    BY <1>0, <1>1, <1>2

-----------------------------------------------------------------------------
(* Recursive functions on numbers.                                         *)

\* Induction: a set that has 0, and with every number the next one up to n,
\* has them all.
LEMMA Counting ==
    ASSUME NEW n \in Nat, NEW S, 0 \in S,
           \A i \in 0 .. n : i \in S /\ i + 1 <= n => i + 1 \in S
    PROVE  \A i \in 0 .. n : i \in S
  <1> DEFINE Missing == {i \in 0 .. n : i \notin S}
  <1>1. Missing = {}
    <2> SUFFICES ASSUME Missing # {} PROVE FALSE
      OBVIOUS
    <2>1. Missing \in SUBSET Nat
      OBVIOUS
    <2>2. PICK i \in Missing : \A k \in Missing : i <= k
      BY <2>1, LeastExists
    <2>3. i \in 0 .. n /\ i # 0 /\ i \notin S
      OBVIOUS
    <2>4. /\ i - 1 \in 0 .. n /\ (i - 1) + 1 = i /\ ~(i <= i - 1)
          /\ (i - 1) + 1 <= n
      BY <2>3
    <2>5. i - 1 \in S
      BY <2>2, <2>4
    <2> QED
      BY <2>3, <2>4, <2>5
  <1> QED
    BY <1>1

\* The first values of a function, each made from the one before it.
Steps(f, m, start, step) ==
    \A i \in 0 .. m : f[i] = IF i = 0 THEN start ELSE step[i][f[i - 1]]

\* A function can be defined by its first value and by the step from each
\* value to the next.
LEMMA Recursion ==
    ASSUME NEW T, NEW start \in T, NEW step \in [Nat -> [T -> T]], NEW n \in Nat
    PROVE  \E f \in [0 .. n -> T] : Steps(f, n, start, step)
  <1> DEFINE S == {m \in 0 .. n : \E f \in [0 .. m -> T] : Steps(f, m, start, step)}
  <1>1. 0 \in S
    <2>1. [i \in 0 .. 0 |-> start] \in [0 .. 0 -> T]
      OBVIOUS
    <2>2. Steps([i \in 0 .. 0 |-> start], 0, start, step)
      BY DEF Steps
    <2>3. \E f \in [0 .. 0 -> T] : Steps(f, 0, start, step)
      BY <2>1, <2>2
    <2> QED
      BY <2>3
  <1>2. ASSUME NEW k \in 0 .. n, k \in S, k + 1 <= n
        PROVE  k + 1 \in S
    <2>1. PICK f \in [0 .. k -> T] : Steps(f, k, start, step)
      BY <1>2
    <2>2. PICK m \in Nat : m = k + 1 /\ m \in 0 .. n /\ m # 0 /\ m - 1 = k
      BY <1>2
    <2>3. f[k] \in T /\ step[m] \in [T -> T]
      BY <2>2
    <2>4. step[m][f[k]] \in T
      BY <2>3
    <2> DEFINE g == [i \in 0 .. m |-> IF i = m THEN step[m][f[k]] ELSE f[i]]
    <2>5. g \in [0 .. m -> T]
      <3> SUFFICES ASSUME NEW i \in 0 .. m, i # m PROVE f[i] \in T
        BY <2>4
      <3>1. i \in 0 .. k
        BY <2>2
      <3> QED
        BY <3>1
    <2>6. Steps(g, m, start, step)
      <3> SUFFICES ASSUME NEW i \in 0 .. m
                   PROVE  g[i] = IF i = 0 THEN start ELSE step[i][g[i - 1]]
        BY DEF Steps
      <3>1. CASE i = m
        <4>1. g[m] = step[m][f[k]] /\ k \in 0 .. m /\ k # m /\ g[k] = f[k]
          BY <2>2
        <4> HIDE DEF g
        <4> QED
          BY <2>2, <3>1, <4>1
      <3>2. CASE i # m
        <4>1. i \in 0 .. k /\ g[i] = f[i]
          BY <2>2, <3>2
        <4>2. i # 0 => i - 1 \in 0 .. m /\ i - 1 # m /\ g[i - 1] = f[i - 1]
          BY <2>2, <4>1
        <4>3. f[i] = IF i = 0 THEN start ELSE step[i][f[i - 1]]
          BY <2>1, <4>1 DEF Steps
        <4> HIDE DEF g
        <4> QED
          BY <4>1, <4>2, <4>3
      <3> QED
        BY <3>1, <3>2
    <2> HIDE DEF g
    <2> QED
      BY <2>2, <2>5, <2>6
  <1>3. \A i \in 0 .. n : i \in S
    <2> HIDE DEF S
    <2>1. \A k \in 0 .. n : k \in S /\ k + 1 <= n => k + 1 \in S
      BY <1>2
    <2> QED
      BY <1>1, <2>1, Counting
  <1>4. n \in 0 .. n
    OBVIOUS
  <1> QED
    BY <1>3, <1>4

-----------------------------------------------------------------------------
(* Sequences of sequences, put together.                                   *)

\* FlattenSeq of the library, and the function it is defined by.
Flattening(s) ==
    CHOOSE f : f = [i \in 1 .. Len(s) |-> IF i = 1 THEN s[i] ELSE f[i - 1] \o s[i]]

Flat(s) == IF Len(s) = 0 THEN s ELSE Flattening(s)[Len(s)]

\* The function exists.
LEMMA FlatteningIs ==
    ASSUME NEW S, NEW s \in Seq(Seq(S)), NEW n \in Nat, n = Len(s), n # 0
    PROVE  /\ \A i \in 1 .. n : Flattening(s)[i] \in Seq(S)
           /\ Flattening(s)[1] = s[1]
           /\ \A i \in 1 .. n : i # 1 => Flattening(s)[i] = Flattening(s)[i - 1] \o s[i]
  <1> DEFINE T == Seq(S)
             step == [i \in Nat |-> [t \in T |-> IF i + 1 \in 1 .. n THEN t \o s[i + 1]
                                                 ELSE t]]
  <1>1. \A i \in 1 .. n : s[i] \in T
    BY ElementOfSeq
  <1>2. step \in [Nat -> [T -> T]]
    <2> SUFFICES ASSUME NEW i \in Nat, NEW t \in T, i + 1 \in 1 .. n
                 PROVE  t \o s[i + 1] \in T
      OBVIOUS
    <2>1. t \in T /\ s[i + 1] \in T
      BY <1>1
    <2> QED
      BY <2>1, Joined
  <1>3. PICK m \in Nat : n = m + 1
    <2>1. n - 1 \in Nat /\ n = (n - 1) + 1
      OBVIOUS
    <2> QED
      BY <2>1
  <1>4. s[1] \in T
    BY <1>1
  <1>5. PICK g \in [0 .. m -> T] :
          \A i \in 0 .. m : g[i] = IF i = 0 THEN s[1] ELSE step[i][g[i - 1]]
    <2>1. PICK U, first, st : U = T /\ first = s[1] /\ st = step
      OBVIOUS
    <2>2. first \in U /\ st \in [Nat -> [U -> U]]
      BY <1>2, <1>4, <2>1
    <2>3. m \in Nat
      BY <1>3
    <2>4. \E g \in [0 .. m -> U] : Steps(g, m, first, st)
      BY <2>2, <2>3, Recursion
    <2> HIDE DEF T, step
    <2> QED
      BY <2>1, <2>4 DEF Steps
  <1> DEFINE f == [i \in 1 .. n |-> g[i - 1]]
  <1>6. \A i \in 1 .. n : f[i] = IF i = 1 THEN s[i] ELSE f[i - 1] \o s[i]
    <2> SUFFICES ASSUME NEW i \in 1 .. n
                 PROVE  f[i] = IF i = 1 THEN s[i] ELSE f[i - 1] \o s[i]
      OBVIOUS
    <2>1. f[i] = g[i - 1] /\ i - 1 \in 0 .. m
      BY <1>3
    <2>2. CASE i = 1
      <3> HIDE DEF step, f
      <3> QED
        BY <1>5, <2>1, <2>2
    <2>3. CASE i # 1
      <3>1. /\ i - 1 # 0 /\ i - 1 \in 1 .. n /\ i - 1 \in Nat
            /\ (i - 1) - 1 \in 0 .. m /\ (i - 1) + 1 = i
        BY <1>3, <2>3
      <3>2. PICK t \in T : t = g[(i - 1) - 1]
        BY <3>1
      <3>3. f[i - 1] = t
        BY <3>1, <3>2
      <3>4. g[i - 1] = step[i - 1][t]
        <4> HIDE DEF step, T
        <4> QED
          BY <1>5, <2>1, <3>1, <3>2
      <3>5. step[i - 1][t] = t \o s[i]
        <4>1. step[i - 1] = [v \in T |-> IF (i - 1) + 1 \in 1 .. n THEN v \o s[(i - 1) + 1]
                                         ELSE v]
          BY <3>1
        <4> QED
          BY <3>1, <3>2, <4>1
      <3> QED
        BY <2>1, <2>3, <3>3, <3>4, <3>5
    <2> QED
      BY <2>2, <2>3
  <1>7. f = [i \in 1 .. Len(s) |-> IF i = 1 THEN s[i] ELSE f[i - 1] \o s[i]]
    <2> DEFINE e == [i \in 1 .. Len(s) |-> IF i = 1 THEN s[i] ELSE f[i - 1] \o s[i]]
    <2>1. DOMAIN e = 1 .. n /\ DOMAIN f = 1 .. n /\ \A i \in 1 .. n : e[i] = f[i]
      BY <1>6
    <2>2. f = [i \in DOMAIN f |-> f[i]] /\ e = [i \in DOMAIN e |-> e[i]]
      OBVIOUS
    <2> HIDE DEF e, f
    <2>3. e = f
      BY <2>1, <2>2
    <2> QED
      BY <2>3 DEF e
  <1> HIDE DEF f
  <1>8. Flattening(s) = [i \in 1 .. Len(s) |-> IF i = 1 THEN s[i]
                                              ELSE Flattening(s)[i - 1] \o s[i]]
    BY <1>7, Zenon DEF Flattening
  <1>9. PICK h : h = Flattening(s)
    OBVIOUS
  <1>10. h[1] = s[1] /\ \A i \in 1 .. n : i # 1 => h[i] = h[i - 1] \o s[i]
    <2>1. h = [i \in 1 .. n |-> IF i = 1 THEN s[i] ELSE h[i - 1] \o s[i]]
      BY <1>8, <1>9, Zenon
    <2>2. 1 \in 1 .. n
      OBVIOUS
    <2> HIDE DEF step
    <2> QED
      BY <2>1, <2>2
  <1> DEFINE Good == {i \in Nat : i \in 0 .. m /\ h[i + 1] \in T}
  <1>11. \A i \in 0 .. m : i \in Good
    <2>1. 0 \in Good
      BY <1>4, <1>10
    <2>2. ASSUME NEW i \in 0 .. m, i \in Good, i + 1 <= m
          PROVE  i + 1 \in Good
      <3>1. PICK j \in Nat : j = (i + 1) + 1 /\ j # 1 /\ j - 1 = i + 1 /\ j \in 1 .. n
        BY <1>3, <2>2
      <3>2. h[j] = h[i + 1] \o s[j] /\ s[j] \in T /\ h[i + 1] \in T
        BY <1>1, <1>10, <2>2, <3>1
      <3>3. h[j] \in T
        BY <3>2, Joined
      <3> QED
        BY <2>2, <3>1, <3>3
    <2> HIDE DEF Good
    <2> QED
      BY <2>1, <2>2, Counting
  <1>12. \A i \in 1 .. n : h[i] \in T
    <2> SUFFICES ASSUME NEW i \in 1 .. n PROVE h[i] \in T
      OBVIOUS
    <2>1. i - 1 \in 0 .. m /\ (i - 1) + 1 = i
      BY <1>3
    <2>2. i - 1 \in Good
      BY <1>11, <2>1
    <2> QED
      BY <2>1, <2>2
  <1> QED
    BY <1>9, <1>10, <1>12

\* A sequence put behind the others is put behind what they make.
LEMMA FlatAppend ==
    ASSUME NEW S, NEW s \in Seq(Seq(S)), NEW e \in Seq(S)
    PROVE  Flat(Append(s, e)) = Flat(s) \o e
  <1> DEFINE T == Seq(S)
  <1>1. PICK n, m, u : n \in Nat /\ m \in Nat /\ n = Len(s) /\ m = n + 1 /\ u = Append(s, e)
    <2>1. Len(s) \in Nat /\ Len(s) + 1 \in Nat
      BY LenProperties
    <2> QED
      BY <2>1
  <1>2. /\ u \in Seq(T) /\ Len(u) = m /\ u[m] = e
        /\ \A i \in 1 .. n : u[i] = s[i]
    BY <1>1, AppendProperties
  <1>3. m # 0 /\ Flat(u) = Flattening(u)[m]
    BY <1>1, <1>2 DEF Flat
  <1>4. PICK h : h = Flattening(u)
    OBVIOUS
  <1>5. /\ h[1] = u[1]
        /\ \A i \in 1 .. m : i # 1 => h[i] = h[i - 1] \o u[i]
    <2>1. u \in Seq(Seq(S)) /\ m \in Nat /\ m = Len(u) /\ m # 0
      BY <1>1, <1>2, <1>3
    <2>2. /\ Flattening(u)[1] = u[1]
          /\ \A i \in 1 .. m : i # 1 => Flattening(u)[i] = Flattening(u)[i - 1] \o u[i]
      BY <2>1, FlatteningIs, Zenon
    <2> QED
      BY <1>4, <2>2
  <1>6. CASE n = 0
    <2>1. m = 1 /\ h[m] = e
      BY <1>1, <1>2, <1>5, <1>6
    <2>2. s = << >>
      BY <1>1, <1>6, EmptySeq
    <2>3. Flat(s) = << >>
      BY <1>1, <1>6, <2>2 DEF Flat
    <2>4. << >> \o e = e
      BY ConcatEmptySeq
    <2> QED
      BY <1>1, <1>3, <1>4, <2>1, <2>3, <2>4
  <1>7. CASE n # 0
    <2>1. PICK g : g = Flattening(s)
      OBVIOUS
    <2>2. /\ g[1] = s[1]
          /\ \A i \in 1 .. n : i # 1 => g[i] = g[i - 1] \o s[i]
      BY <1>1, <1>7, <2>1, FlatteningIs
    <2>3. PICK l \in Nat : n = l + 1
      <3>1. n - 1 \in Nat /\ n = (n - 1) + 1
        BY <1>1, <1>7
      <3> QED
        BY <3>1
    <2> DEFINE Same == {i \in Nat : h[i + 1] = g[i + 1]}
    <2>4. \A i \in 0 .. l : i \in Same
      <3>1. 0 \in Same
        <4>1. 1 \in 1 .. n /\ 0 + 1 = 1
          BY <1>1, <1>7
        <4> QED
          BY <1>2, <1>5, <2>2, <4>1
      <3>2. ASSUME NEW i \in 0 .. l, i \in Same, i + 1 <= l
            PROVE  i + 1 \in Same
        <4>1. PICK j \in Nat : /\ j = (i + 1) + 1 /\ j # 1 /\ j - 1 = i + 1
                               /\ j \in 1 .. n /\ j \in 1 .. m
          BY <1>1, <2>3, <3>2
        <4>2. h[j] = h[i + 1] \o u[j] /\ g[j] = g[i + 1] \o s[j] /\ u[j] = s[j]
          BY <1>2, <1>5, <2>2, <4>1
        <4>3. h[j] = g[j]
          BY <3>2, <4>2
        <4> QED
          BY <4>1, <4>3
      <3> HIDE DEF Same
      <3> QED
        BY <3>1, <3>2, Counting
    <2>5. h[n] = g[n]
      <3>1. l \in 0 .. l
        OBVIOUS
      <3> QED
        BY <2>3, <2>4, <3>1
    <2>6. h[m] = h[n] \o e
      <3>1. m \in 1 .. m /\ m # 1 /\ m - 1 = n
        BY <1>1, <1>7
      <3> QED
        BY <1>2, <1>5, <3>1
    <2>7. Flat(s) = g[n]
      BY <1>1, <1>7, <2>1 DEF Flat
    <2> QED
      BY <1>1, <1>3, <1>4, <2>5, <2>6, <2>7
  <1> QED
    BY <1>6, <1>7

\* What they make is a sequence, and nothing makes nothing.
LEMMA FlatIs ==
    ASSUME NEW S, NEW s \in Seq(Seq(S))
    PROVE  Flat(s) \in Seq(S) /\ Flat(<< >>) = << >>
  <1>1. Flat(<< >>) = << >>
    BY DEF Flat
  <1>2. CASE Len(s) = 0
    <2>1. s = << >> /\ << >> \in Seq(S)
      BY <1>2, EmptySeq
    <2> QED
      BY <1>1, <2>1
  <1>3. CASE Len(s) # 0
    <2>1. PICK n \in Nat : n = Len(s) /\ n \in 1 .. n
      BY <1>3, LenProperties
    <2>2. \A i \in 1 .. n : Flattening(s)[i] \in Seq(S)
      BY <1>3, <2>1, FlatteningIs
    <2> QED
      BY <1>3, <2>1, <2>2 DEF Flat
  <1> QED
    BY <1>1, <1>2, <1>3

-----------------------------------------------------------------------------
(* Pieces of sequences.                                                    *)

\* What the piece between two places holds.
LEMMA Piece ==
    ASSUME NEW S, NEW s \in Seq(S), NEW a \in Nat, NEW b \in Nat,
           a <= b, b <= Len(s)
    PROVE  /\ SubSeq(s, a + 1, b) \in Seq(S) /\ Len(SubSeq(s, a + 1, b)) = b - a
           /\ \A i \in 1 .. b - a : SubSeq(s, a + 1, b)[i] = s[a + i]
  <1>1. PICK m \in Nat : m = a + 1
    OBVIOUS
  <1>2. 1 <= m /\ m <= b + 1 /\ b - m + 1 = b - a
    BY <1>1
  <1>3. PICK t : t = SubSeq(s, m, b)
    OBVIOUS
  <1>4. /\ t \in Seq(S) /\ Len(t) = b - m + 1
        /\ \A i \in 1 .. b - m + 1 : t[i] = s[m + i - 1]
    BY <1>2, <1>3, Slice
  <1>5. \A i \in 1 .. b - a : t[i] = s[a + i]
    <2> SUFFICES ASSUME NEW i \in 1 .. b - a PROVE t[i] = s[a + i]
      OBVIOUS
    <2>1. i \in 1 .. b - m + 1 /\ m + i - 1 = a + i
      BY <1>1, <1>2
    <2> QED
      BY <1>4, <2>1
  <1> QED
    BY <1>1, <1>2, <1>3, <1>4, <1>5

\* A piece of a piece is a piece.
LEMMA PieceOfPiece ==
    ASSUME NEW S, NEW s \in Seq(S), NEW a \in Nat, NEW b \in Nat,
           1 <= a, a <= b + 1, b <= Len(s),
           NEW c \in Nat, NEW d \in Nat, 1 <= c, c <= d + 1, d <= b - a + 1,
           NEW m \in Nat, NEW n \in Nat, m = a + c - 1, n = a + d - 1
    PROVE  SubSeq(SubSeq(s, a, b), c, d) = SubSeq(s, m, n)
  <1>1. PICK t : t = SubSeq(s, a, b)
    OBVIOUS
  <1>2. /\ t \in Seq(S) /\ Len(t) = b - a + 1
        /\ \A i \in 1 .. b - a + 1 : t[i] = s[a + i - 1]
    BY <1>1, Slice
  <1>3. PICK u : u = SubSeq(t, c, d)
    OBVIOUS
  <1>4. /\ u \in Seq(S) /\ Len(u) = d - c + 1
        /\ \A i \in 1 .. d - c + 1 : u[i] = t[c + i - 1]
    BY <1>2, <1>3, Slice
  <1>5. PICK l \in Nat : l = Len(s)
    BY LenProperties
  <1>6. 1 <= m /\ m <= n + 1 /\ n <= Len(s) /\ n - m + 1 = d - c + 1
    BY <1>5
  <1>7. PICK v : v = SubSeq(s, m, n)
    OBVIOUS
  <1>8. /\ v \in Seq(S) /\ Len(v) = n - m + 1
        /\ \A i \in 1 .. n - m + 1 : v[i] = s[m + i - 1]
    BY <1>6, <1>7, Slice
  <1>9. \A i \in 1 .. Len(u) : u[i] = v[i]
    <2> SUFFICES ASSUME NEW i \in 1 .. d - c + 1 PROVE u[i] = v[i]
      BY <1>4
    <2>1. PICK j \in Nat : j = c + i - 1
      OBVIOUS
    <2>2. j \in 1 .. b - a + 1 /\ a + j - 1 = m + i - 1 /\ i \in 1 .. n - m + 1
      BY <1>6, <2>1
    <2>3. u[i] = t[j]
      BY <1>4, <2>1
    <2>4. t[j] = s[a + j - 1]
      BY <1>2, <2>2
    <2>5. v[i] = s[m + i - 1]
      BY <1>8, <2>2
    <2> QED
      BY <2>2, <2>3, <2>4, <2>5
  <1>10. u = v
    BY <1>4, <1>6, <1>8, <1>9, SeqEqual
  <1> QED
    BY <1>1, <1>3, <1>7, <1>10

\* Two pieces, one behind the other.
LEMMA Adjacent ==
    ASSUME NEW S, NEW s \in Seq(S), NEW a \in Nat, NEW b \in Nat,
           a <= b, b <= Len(s)
    PROVE  SubSeq(s, 1, a) \o SubSeq(s, a + 1, b) = SubSeq(s, 1, b)
  <1>1. PICK l \in Nat : l = Len(s)
    BY LenProperties
  <1>2. PICK t, u, v : t = SubSeq(s, 1, a) /\ u = SubSeq(s, a + 1, b) /\ v = SubSeq(s, 1, b)
    OBVIOUS
  <1>3. t \in Seq(S) /\ Len(t) = a /\ \A i \in 1 .. a : t[i] = s[i]
    <2>1. a <= Len(s)
      BY <1>1
    <2> QED
      BY <1>2, <2>1, Prefix
  <1>4. u \in Seq(S) /\ Len(u) = b - a /\ \A i \in 1 .. b - a : u[i] = s[a + i]
    BY <1>2, Piece
  <1>5. v \in Seq(S) /\ Len(v) = b /\ \A i \in 1 .. b : v[i] = s[i]
    BY <1>2, Prefix
  <1>6. PICK w : w = t \o u
    OBVIOUS
  <1>7. /\ w \in Seq(S) /\ Len(w) = Len(t) + Len(u)
        /\ \A i \in 1 .. Len(t) : w[i] = t[i]
        /\ \A i \in 1 .. Len(u) : w[Len(t) + i] = u[i]
    <2>1. t \in Seq(S) /\ u \in Seq(S)
      BY <1>3, <1>4
    <2> QED
      BY <1>6, <2>1, Joined
  <1>8. Len(w) = b
    BY <1>3, <1>4, <1>7
  <1>9. \A i \in 1 .. Len(w) : w[i] = v[i]
    <2> SUFFICES ASSUME NEW i \in 1 .. b PROVE w[i] = v[i]
      BY <1>8
    <2>1. CASE i <= a
      <3>1. i \in 1 .. a
        BY <2>1
      <3> QED
        BY <1>3, <1>5, <1>7, <3>1
    <2>2. CASE ~(i <= a)
      <3>1. PICK j \in 1 .. b - a : i = a + j
        <4>1. i - a \in 1 .. b - a /\ i = a + (i - a)
          BY <2>2
        <4> QED
          BY <4>1
      <3>2. w[a + j] = u[j] /\ u[j] = s[a + j]
        BY <1>3, <1>4, <1>7, <3>1
      <3> QED
        BY <1>5, <3>1, <3>2
    <2> QED
      BY <2>1, <2>2
  <1>10. w = v
    BY <1>5, <1>7, <1>8, <1>9, SeqEqual
  <1> QED
    BY <1>2, <1>6, <1>10

\* A sequence and one element behind it.
LEMMA OneBehind ==
    ASSUME NEW S, NEW s \in Seq(S), NEW e \in S, NEW n \in Nat, NEW m \in Nat,
           n = Len(s), m = n + 1
    PROVE  /\ Len(Append(s, e)) = m /\ Append(s, e)[m] = e
           /\ \A i \in 1 .. n : Append(s, e)[i] = s[i]
  <1>1. /\ Len(Append(s, e)) = Len(s) + 1
        /\ \A i \in 1 .. Len(s) : Append(s, e)[i] = s[i]
        /\ Append(s, e)[Len(s) + 1] = e
    BY AppendProperties
  <1> QED
    BY <1>1

\* A sequence between two others.
LEMMA Middle ==
    ASSUME NEW S, NEW a \in Seq(S), NEW b \in Seq(S), NEW c \in Seq(S)
    PROVE  SubSeq(a \o (b \o c), Len(a) + 1, Len(a) + Len(b)) = b
  <1>1. PICK k \in Nat, m \in Nat, n \in Nat : k = Len(a) /\ m = Len(b) /\ n = Len(c)
    BY LenProperties
  <1>2. PICK r, t : r = b \o c /\ t = a \o r
    OBVIOUS
  <1>3. r \in Seq(S) /\ Len(r) = m + n /\ \A i \in 1 .. m : r[i] = b[i]
    BY <1>1, <1>2, Joined
  <1>4. /\ t \in Seq(S) /\ Len(t) = k + Len(r)
        /\ \A i \in 1 .. Len(r) : t[k + i] = r[i]
    BY <1>1, <1>2, <1>3, Joined
  <1>5. PICK q \in Nat : q = k + m /\ k <= q /\ q <= Len(t) /\ q - k = m
    BY <1>3, <1>4
  <1>6. PICK u : u = SubSeq(t, k + 1, q)
    OBVIOUS
  <1>7. u \in Seq(S) /\ Len(u) = q - k /\ \A i \in 1 .. q - k : u[i] = t[k + i]
    <2>1. q \in Nat /\ k \in Nat /\ t \in Seq(S) /\ k <= q /\ q <= Len(t)
      BY <1>1, <1>4, <1>5
    <2> QED
      BY <1>6, <2>1, Piece
  <1>8. \A i \in 1 .. Len(u) : u[i] = b[i]
    <2> SUFFICES ASSUME NEW i \in 1 .. m PROVE u[i] = b[i]
      BY <1>5, <1>7
    <2>1. i \in 1 .. q - k
      <3>1. q - k = m
        BY <1>5
      <3> QED
        BY <3>1
    <2>2. i \in 1 .. Len(r)
      <3>1. Len(r) = m + n
        BY <1>3
      <3> QED
        BY <3>1
    <2> QED
      BY <1>3, <1>4, <1>7, <2>1, <2>2
  <1>9. u = b
    BY <1>1, <1>5, <1>7, <1>8, SeqEqual
  <1> QED
    BY <1>1, <1>2, <1>5, <1>6, <1>9

\* All of a sequence.
LEMMA Whole ==
    ASSUME NEW S, NEW s \in Seq(S)
    PROVE  SubSeq(s, 1, Len(s)) = s
  <1>1. PICK n \in Nat : n = Len(s)
    BY LenProperties
  <1>2. PICK t : t = SubSeq(s, 1, n)
    OBVIOUS
  <1>3. t \in Seq(S) /\ Len(t) = n /\ \A i \in 1 .. n : t[i] = s[i]
    BY <1>1, <1>2, Prefix
  <1>4. t = s
    BY <1>1, <1>3, SeqEqual
  <1> QED
    BY <1>1, <1>2, <1>4

Behind(a, b) == a \o b

\* Three sequences, one behind another.
LEMMA Three ==
    ASSUME NEW S, NEW a \in Seq(S), NEW b \in Seq(S), NEW c \in Seq(S)
    PROVE  Behind(Behind(a, b), c) = Behind(a, Behind(b, c))
  BY ConcatAssociative DEF Behind

-----------------------------------------------------------------------------
(* The ClientHello parser.                                                 *)

Exts == v1.extensions

\* The first m extensions have been read.
ReadUpTo(m) ==
    /\ v2 = {Exts[i] : i \in 1 .. m}
    /\ \A i, j \in 1 .. m : Exts[i] = Exts[j] => i = j
    /\ \A i \in 1 .. m : Exts[i] = "psk" => i = Len(Exts)
    /\ v3 <=> "psk" \in v2

\* The first m key shares have been checked.
CheckedUpTo(m) ==
    /\ \A i \in 1 .. m : Hello!Position(v1.shares[i]) > 0
    /\ \A i, j \in 1 .. m :
          i < j => Hello!Position(v1.shares[i]) < Hello!Position(v1.shares[j])

HelloTyped ==
    /\ v1 \in Hello!HelloType
    /\ v3 \in BOOLEAN /\ v4 \in Nat /\ v5 \in Nat

HelloProgress ==
    /\ v6 = "fields" => v4 = 1 /\ v5 = 0 /\ ReadUpTo(0)
    /\ v6 = "extensions" =>
          v4 \in 1 .. Len(Exts) + 1 /\ v5 = 0 /\ ReadUpTo(v4 - 1) /\ Hello!FieldsGood
    /\ v6 = "required" => v5 = 0 /\ ReadUpTo(Len(Exts)) /\ Hello!FieldsGood
    /\ v6 = "shares" =>
          /\ ReadUpTo(Len(Exts)) /\ Hello!FieldsGood /\ Hello!RequiredGood
          /\ "groups" \in v2
          /\ v4 \in 1 .. Len(v1.shares) + 1 /\ CheckedUpTo(v4 - 1)
          /\ v5 = IF v4 = 1 THEN 0 ELSE Hello!Position(v1.shares[v4 - 1])
    /\ v6 = "accepted" => Hello!Conforming
    /\ v6 = "refused" => ~(Hello!Conforming /\ Hello!GroupsDistinct)

HelloIndInv == HelloTyped /\ HelloProgress

\* What the fields of a hello are.
LEMMA HelloFields ==
    ASSUME HelloTyped
    PROVE  /\ Exts \in Seq(Hello!Types) /\ Len(Exts) \in Nat
           /\ v1.groups \in Seq(Nat) /\ Len(v1.groups) \in Nat
           /\ v1.shares \in Seq(Nat) /\ Len(v1.shares) \in Nat
           /\ v1.session \in Nat /\ v1.suites \in Nat
  <1>1. /\ Exts \in Seq(Hello!Types) /\ v1.groups \in Seq(Nat) /\ v1.shares \in Seq(Nat)
        /\ v1.session \in Nat /\ v1.suites \in Nat
    BY DEF HelloTyped, Hello!HelloType, Exts
  <1> QED
    BY <1>1

\* position() finds the first place of a group.
LEMMA PositionIs ==
    ASSUME HelloTyped, NEW group
    PROVE  /\ Hello!Position(group) \in Nat
           /\ Hello!Position(group) # 0 =>
                /\ Hello!Position(group) \in 1 .. Len(v1.groups)
                /\ v1.groups[Hello!Position(group)] = group
           /\ \A i \in 1 .. Len(v1.groups) :
                v1.groups[i] = group =>
                   Hello!Position(group) # 0 /\ Hello!Position(group) <= i
  <1> DEFINE Places == {i \in 1 .. Len(v1.groups) : v1.groups[i] = group}
  <1>1. PICK places : places = Places
    OBVIOUS
  <1>2. Hello!Position(group) = IF places = {} THEN 0
                                ELSE CHOOSE i \in places : \A j \in places : i <= j
    <2>1. Hello!Position(group) = IF Places = {} THEN 0
                                  ELSE CHOOSE i \in Places : \A j \in Places : i <= j
      BY Zenon DEF Hello!Position
    <2> HIDE DEF Places
    <2> QED
      BY <1>1, <2>1, Zenon
  <1>3. places \in SUBSET Nat /\ places \subseteq 1 .. Len(v1.groups)
    BY <1>1, HelloFields
  <1>4. CASE places = {}
    <2>1. Hello!Position(group) = 0
      BY <1>2, <1>4
    <2>2. \A i \in 1 .. Len(v1.groups) : v1.groups[i] # group
      BY <1>1, <1>4
    <2> QED
      BY <2>1, <2>2
  <1>5. CASE places # {}
    <2>1. \E i \in places : \A j \in places : i <= j
      BY <1>3, <1>5, LeastExists
    <2>2. PICK least : least = CHOOSE i \in places : \A j \in places : i <= j
      OBVIOUS
    <2>3. least \in places /\ \A j \in places : least <= j
      BY <2>1, <2>2, Zenon
    <2>4. Hello!Position(group) = least
      BY <1>2, <1>5, <2>2
    <2>5. least \in Nat /\ least \in 1 .. Len(v1.groups) /\ least # 0
      BY <1>3, <2>3
    <2> QED
      BY <1>1, <2>3, <2>4, <2>5
  <1> QED
    BY <1>4, <1>5

\* As many values as places: no value is at two of them.
LEMMA AsManyAsPlaces ==
    ASSUME HelloTyped
    PROVE  Hello!Cardinality(Hello!Offered) = Len(Exts) <=>
             \A i, j \in 1 .. Len(Exts) : Exts[i] = Exts[j] => i = j
  <1>1. PICK n \in Nat : n = Len(Exts)
    BY HelloFields
  <1>2. PICK S, T : S = 1 .. n /\ T = Hello!Offered
    OBVIOUS
  <1>3. T = {Exts[i] : i \in S}
    BY <1>1, <1>2 DEF Hello!Offered, Exts
  <1>4. PICK f : f = [i \in S |-> Exts[i]]
    OBVIOUS
  <1>5. f \in Surjection(S, T) /\ \A i \in S : f[i] = Exts[i]
    BY <1>3, <1>4 DEF Surjection
  <1>6. IsFiniteSet(S) /\ Cardinality(S) = n
    BY <1>2, FS_Interval
  <1>7. Cardinality(T) = Cardinality(S) <=> f \in Injection(S, T)
    BY <1>5, <1>6, FS_Surjection
  <1>8. f \in [S -> T]
    BY <1>5 DEF Surjection
  <1>9. f \in Injection(S, T) <=> \A i, j \in S : Exts[i] = Exts[j] => i = j
    <2>1. f \in Injection(S, T) <=> \A i, j \in S : f[i] = f[j] => i = j
      BY <1>8 DEF Injection, IsInjective
    <2> QED
      BY <1>5, <2>1
  <1>10. Hello!Cardinality(T) = Cardinality(T)
    BY Zenon DEF Hello!Cardinality, Cardinality
  <1> QED
    BY <1>1, <1>2, <1>6, <1>7, <1>9, <1>10

\* Conforming, in the words of the parser.
LEMMA ConformingMeans ==
    ASSUME HelloTyped
    PROVE  Hello!Conforming <=>
             /\ Hello!FieldsGood
             /\ \A i, j \in 1 .. Len(Exts) : Exts[i] = Exts[j] => i = j
             /\ \A i \in 1 .. Len(Exts) : Exts[i] = "psk" => i = Len(Exts)
             /\ "versions" \in Hello!Offered /\ v1.tls13
             /\ ("psk" \in Hello!Offered \/ {"signatures", "groups"} \subseteq Hello!Offered)
             /\ ("groups" \in Hello!Offered <=> "key_share" \in Hello!Offered)
             /\ ("groups" \in Hello!Offered => Hello!SharesFollowGroups)
  <1> DEFINE Once == \A i, j \in 1 .. Len(Exts) : Exts[i] = Exts[j] => i = j
             Final == \A i \in 1 .. Len(Exts) : Exts[i] = "psk" => i = Len(Exts)
             Ends == "psk" \in Hello!Offered => Exts[Len(Exts)] = "psk"
  <1>1. Hello!Cardinality(Hello!Offered) = Len(Exts) <=> Once
    BY AsManyAsPlaces
  <1>2. PICK s \in Nat, c \in Nat, m \in Nat :
          s = v1.session /\ c = v1.suites /\ m = MaxSessionId
    BY HelloFields, HelloAssumptions DEF Hello!Assumptions
  <1>3. s <= m <=> s \in 0 .. m
    OBVIOUS
  <1>4. c >= 2 /\ c % 2 = 0 <=> c \in {2 * n : n \in 1 .. c}
    <2>1. ASSUME c >= 2, c % 2 = 0 PROVE c \in {2 * n : n \in 1 .. c}
      <3>1. c = 2 * (c \div 2) /\ c \div 2 \in 1 .. c
        BY <2>1
      <3> QED
        BY <3>1
    <2>2. ASSUME NEW n \in 1 .. c, c = 2 * n PROVE c >= 2 /\ c % 2 = 0
      BY <2>2
    <2> QED
      BY <2>1, <2>2
  <1>5. Hello!FieldsGood <=>
          /\ v1.lengthGood /\ v1.nullOnly
          /\ v1.session \in 0 .. MaxSessionId
          /\ v1.suites \in {2 * n : n \in 1 .. v1.suites}
    BY <1>2, <1>3, <1>4 DEF Hello!FieldsGood
  <1>6. Once => (Final <=> Ends)
    <2>1. \A x : x \in Hello!Offered <=> \E i \in 1 .. Len(Exts) : x = Exts[i]
      BY DEF Hello!Offered, Exts
    <2>2. ASSUME Once, Final, "psk" \in Hello!Offered PROVE Exts[Len(Exts)] = "psk"
      BY <2>1, <2>2
    <2>3. ASSUME Once, Ends, NEW i \in 1 .. Len(Exts), Exts[i] = "psk" PROVE i = Len(Exts)
      <3>1. Exts[Len(Exts)] = "psk"
        BY <2>1, <2>3
      <3>2. Len(Exts) \in 1 .. Len(Exts)
        BY HelloFields
      <3> QED
        BY <2>3, <3>1, <3>2
    <2> HIDE DEF Once
    <2> QED
      BY <2>2, <2>3
  <1> HIDE DEF Once, Final, Ends
  <1>7. Hello!Conforming <=>
             /\ Hello!FieldsGood /\ Once /\ Ends
             /\ "versions" \in Hello!Offered /\ v1.tls13
             /\ ("psk" \in Hello!Offered \/ {"signatures", "groups"} \subseteq Hello!Offered)
             /\ ("groups" \in Hello!Offered <=> "key_share" \in Hello!Offered)
             /\ ("groups" \in Hello!Offered => Hello!SharesFollowGroups)
    BY <1>1, <1>5, Zenon DEF Hello!Conforming, Ends, Exts
  <1> QED
    BY <1>6, <1>7 DEF Once, Final

\* Everything has been read.
LEMMA AllRead ==
    ASSUME HelloTyped, ReadUpTo(Len(Exts))
    PROVE  /\ v2 = Hello!Offered
           /\ Hello!RequiredGood <=>
                /\ "versions" \in Hello!Offered /\ v1.tls13
                /\ \/ "psk" \in Hello!Offered
                   \/ {"signatures", "groups"} \subseteq Hello!Offered
                /\ ("groups" \in Hello!Offered <=> "key_share" \in Hello!Offered)
  <1>1. v2 = Hello!Offered
    BY DEF ReadUpTo, Hello!Offered, Exts
  <1>2. v3 <=> "psk" \in v2
    BY DEF ReadUpTo
  <1> QED
    BY <1>1, <1>2, Zenon DEF Hello!RequiredGood

\* Shares whose places go up follow the groups.
LEMMA CheckedFollow ==
    ASSUME HelloTyped, CheckedUpTo(Len(v1.shares))
    PROVE  Hello!SharesFollowGroups
  <1>1. PICK f : f = [i \in 1 .. Len(v1.shares) |-> Hello!Position(v1.shares[i])]
    OBVIOUS
  <1>2. ASSUME NEW i \in 1 .. Len(v1.shares)
        PROVE  /\ Hello!Position(v1.shares[i]) \in 1 .. Len(v1.groups)
               /\ v1.groups[Hello!Position(v1.shares[i])] = v1.shares[i]
    <2>1. Hello!Position(v1.shares[i]) > 0 /\ Hello!Position(v1.shares[i]) \in Nat
      BY PositionIs DEF CheckedUpTo
    <2>2. Hello!Position(v1.shares[i]) # 0
      BY <2>1
    <2> QED
      BY <2>2, PositionIs
  <1>3. \A i \in 1 .. Len(v1.shares) : f[i] = Hello!Position(v1.shares[i])
    BY <1>1
  <1>4. f \in [1 .. Len(v1.shares) -> 1 .. Len(v1.groups)]
    BY <1>1, <1>2
  <1>5. \A i \in 1 .. Len(v1.shares) : v1.groups[f[i]] = v1.shares[i]
    BY <1>2, <1>3
  <1>6. \A i, j \in 1 .. Len(v1.shares) : i < j => f[i] < f[j]
    BY <1>3 DEF CheckedUpTo
  <1> QED
    BY <1>4, <1>5, <1>6, Zenon DEF Hello!SharesFollowGroups

\* And where no group is repeated, those that follow the groups go up.
LEMMA FollowChecked ==
    ASSUME HelloTyped, Hello!SharesFollowGroups, Hello!GroupsDistinct
    PROVE  CheckedUpTo(Len(v1.shares))
  <1>1. PICK f \in [1 .. Len(v1.shares) -> 1 .. Len(v1.groups)] :
          /\ \A i \in 1 .. Len(v1.shares) : v1.groups[f[i]] = v1.shares[i]
          /\ \A i, j \in 1 .. Len(v1.shares) : i < j => f[i] < f[j]
    BY Zenon DEF Hello!SharesFollowGroups
  <1>2. ASSUME NEW i \in 1 .. Len(v1.shares)
        PROVE  Hello!Position(v1.shares[i]) = f[i] /\ f[i] > 0
    <2>1. PICK k \in 1 .. Len(v1.groups) : k = f[i] /\ v1.groups[k] = v1.shares[i]
      BY <1>1
    <2>2. Hello!Position(v1.shares[i]) # 0
      BY <2>1, PositionIs
    <2>3. /\ Hello!Position(v1.shares[i]) \in 1 .. Len(v1.groups)
          /\ v1.groups[Hello!Position(v1.shares[i])] = v1.shares[i]
      BY <2>2, PositionIs
    <2>4. Hello!Position(v1.shares[i]) = k
      BY <2>1, <2>3 DEF Hello!GroupsDistinct
    <2>5. k > 0
      BY HelloFields
    <2> QED
      BY <2>1, <2>4, <2>5
  <1> QED
    BY <1>1, <1>2 DEF CheckedUpTo

\* What is said of the hello alone stays true of it.
LEMMA HelloStays ==
    ASSUME v1' = v1
    PROVE  /\ Exts' = Exts
           /\ Hello!Conforming' <=> Hello!Conforming
           /\ Hello!GroupsDistinct' <=> Hello!GroupsDistinct
           /\ Hello!FieldsGood' <=> Hello!FieldsGood
           /\ \A group : Hello!Position(group)' = Hello!Position(group)
  <1>1. Exts' = Exts
    BY DEF Exts
  <1>2. Hello!Conforming' <=> Hello!Conforming
    <2>1. Hello!Offered' = Hello!Offered
      BY DEF Hello!Offered
    <2>2. Hello!SharesFollowGroups' <=> Hello!SharesFollowGroups
      BY DEF Hello!SharesFollowGroups
    <2> QED
      BY <2>1, <2>2 DEF Hello!Conforming
  <1>3. Hello!GroupsDistinct' <=> Hello!GroupsDistinct
    BY Zenon DEF Hello!GroupsDistinct
  <1>4. Hello!FieldsGood' <=> Hello!FieldsGood
    BY Zenon DEF Hello!FieldsGood
  <1>5. \A group : Hello!Position(group)' = Hello!Position(group)
    BY DEF Hello!Position
  <1> QED
    BY <1>1, <1>2, <1>3, <1>4, <1>5

\* So does what has been read.
LEMMA ReadStays ==
    ASSUME v1' = v1, v2' = v2, v3' = v3, NEW m
    PROVE  ReadUpTo(m) => ReadUpTo(m)'
  BY DEF ReadUpTo, Exts

\* Refusing is right when the hello is not a good one.
LEMMA RefuseStep ==
    ASSUME HelloTyped, Hello!Refuse, ~(Hello!Conforming /\ Hello!GroupsDistinct)
    PROVE  HelloIndInv'
  <1>1. /\ v1' = v1 /\ v2' = v2 /\ v3' = v3 /\ v4' = v4 /\ v5' = v5 /\ v6' = "refused"
    BY DEF Hello!Refuse
  <1>2. HelloTyped'
    BY <1>1 DEF HelloTyped
  <1>3. ~(Hello!Conforming' /\ Hello!GroupsDistinct')
    BY <1>1, HelloStays
  <1>4. HelloProgress'
    BY <1>1, <1>3 DEF HelloProgress
  <1> QED
    BY <1>2, <1>4 DEF HelloIndInv

\* ReadFields and RefuseFields.
LEMMA FieldsStep ==
    ASSUME HelloIndInv, Hello!ReadFields \/ Hello!RefuseFields
    PROVE  HelloIndInv'
  <1>0. HelloTyped /\ HelloProgress
    BY DEF HelloIndInv
  <1>1. CASE Hello!ReadFields
    <2>1. /\ v1' = v1 /\ v2' = v2 /\ v3' = v3 /\ v4' = v4 /\ v5' = v5
          /\ v6 = "fields" /\ v6' = "extensions" /\ Hello!FieldsGood
      BY <1>1 DEF Hello!ReadFields
    <2>2. v4 = 1 /\ v5 = 0 /\ ReadUpTo(0)
      BY <1>0, <2>1 DEF HelloProgress
    <2>3. ReadUpTo(0)' /\ Hello!FieldsGood' /\ Exts' = Exts
      BY <2>1, <2>2, ReadStays, HelloStays
    <2>4. v4' \in 1 .. Len(Exts') + 1 /\ v4' - 1 = 0
      BY <1>0, <2>1, <2>2, <2>3, HelloFields
    <2>5. ReadUpTo(v4 - 1)'
      BY <2>3, <2>4
    <2>6. HelloTyped'
      BY <1>0, <2>1 DEF HelloTyped
    <2> QED
      BY <2>1, <2>2, <2>3, <2>4, <2>5, <2>6 DEF HelloIndInv, HelloProgress
  <1>2. CASE Hello!RefuseFields
    <2>1. Hello!Refuse /\ ~Hello!FieldsGood
      BY <1>2 DEF Hello!RefuseFields
    <2>2. ~Hello!Conforming
      BY <1>0, <2>1, ConformingMeans
    <2> QED
      BY <1>0, <2>1, <2>2, RefuseStep
  <1> QED
    BY <1>1, <1>2

\* ReadExtension.
LEMMA ReadExtensionStep ==
    ASSUME HelloIndInv, Hello!ReadExtension
    PROVE  HelloIndInv'
  <1>0. HelloTyped /\ HelloProgress
    BY DEF HelloIndInv
  <1>1. /\ v1' = v1 /\ v2' = v2 \cup {Exts[v4]} /\ v3' = (v3 \/ Exts[v4] = "psk")
        /\ v4' = v4 + 1 /\ v5' = v5 /\ v6 = "extensions" /\ v6' = v6
        /\ v4 <= Len(Exts) /\ Exts[v4] \notin v2
        /\ Exts[v4] = "psk" => v4 = Len(Exts)
    BY DEF Hello!ReadExtension, Hello!ExtensionGood, Exts
  <1>2. v4 \in 1 .. Len(Exts) + 1 /\ v5 = 0 /\ ReadUpTo(v4 - 1) /\ Hello!FieldsGood
    BY <1>0, <1>1 DEF HelloProgress
  <1>3. PICK k \in Nat : k = v4 /\ k \in 1 .. Len(Exts) /\ Len(Exts) \in Nat
    BY <1>0, <1>1, <1>2, HelloFields
  <1>4. /\ v2 = {Exts[i] : i \in 1 .. (k - 1)}
        /\ \A i, j \in 1 .. (k - 1) : Exts[i] = Exts[j] => i = j
        /\ \A i \in 1 .. (k - 1) : Exts[i] = "psk" => i = Len(Exts)
        /\ v3 <=> "psk" \in v2
    BY <1>2, <1>3 DEF ReadUpTo
  <1>5. \A i : i \in 1 .. k <=> i \in 1 .. (k - 1) \/ i = k
    BY <1>3
  <1>6. v2' = {Exts[i] : i \in 1 .. k}
    BY <1>1, <1>3, <1>4, <1>5
  <1>7. \A i, j \in 1 .. k : Exts[i] = Exts[j] => i = j
    BY <1>1, <1>3, <1>4, <1>5
  <1>8. \A i \in 1 .. k : Exts[i] = "psk" => i = Len(Exts)
    BY <1>1, <1>3, <1>4, <1>5
  <1>9. v3' <=> "psk" \in v2'
    BY <1>1, <1>4
  <1>10. Exts' = Exts /\ Hello!FieldsGood'
    BY <1>1, <1>2, HelloStays
  <1>11. v4' = k + 1 /\ v4' - 1 = k /\ v4' \in 1 .. Len(Exts) + 1 /\ v4' \in Nat
    BY <1>1, <1>3
  <1>12. ReadUpTo(v4 - 1)'
    BY <1>6, <1>7, <1>8, <1>9, <1>10, <1>11 DEF ReadUpTo
  <1>13. HelloTyped'
    BY <1>0, <1>1, <1>11 DEF HelloTyped
  <1> QED
    BY <1>1, <1>2, <1>10, <1>11, <1>12, <1>13 DEF HelloIndInv, HelloProgress

\* RefuseExtension.
LEMMA RefuseExtensionStep ==
    ASSUME HelloIndInv, Hello!RefuseExtension
    PROVE  HelloIndInv'
  <1>0. HelloTyped /\ HelloProgress
    BY DEF HelloIndInv
  <1>1. /\ Hello!Refuse /\ v6 = "extensions" /\ v4 <= Len(Exts)
        /\ Exts[v4] \in v2 \/ (Exts[v4] = "psk" /\ v4 # Len(Exts))
    BY DEF Hello!RefuseExtension, Hello!ExtensionGood, Exts
  <1>2. v4 \in 1 .. Len(Exts) + 1 /\ ReadUpTo(v4 - 1)
    BY <1>0, <1>1 DEF HelloProgress
  <1>3. PICK k \in Nat : k = v4 /\ k \in 1 .. Len(Exts) /\ Len(Exts) \in Nat
    BY <1>0, <1>1, <1>2, HelloFields
  <1>4. v2 = {Exts[i] : i \in 1 .. (k - 1)}
    BY <1>2, <1>3 DEF ReadUpTo
  <1>5. ~Hello!Conforming
    <2>1. CASE Exts[k] \in v2
      <3>1. PICK i \in 1 .. (k - 1) : Exts[i] = Exts[k]
        BY <1>4, <2>1
      <3>2. i \in 1 .. Len(Exts) /\ i # k
        BY <1>3
      <3> QED
        BY <1>0, <1>3, <3>1, <3>2, ConformingMeans
    <2>2. CASE Exts[k] = "psk" /\ k # Len(Exts)
      BY <1>0, <1>3, <2>2, ConformingMeans
    <2> QED
      BY <1>1, <1>3, <2>1, <2>2
  <1> QED
    BY <1>0, <1>1, <1>5, RefuseStep

\* EndExtensions.
LEMMA EndExtensionsStep ==
    ASSUME HelloIndInv, Hello!EndExtensions
    PROVE  HelloIndInv'
  <1>0. HelloTyped /\ HelloProgress
    BY DEF HelloIndInv
  <1>1. /\ v1' = v1 /\ v2' = v2 /\ v3' = v3 /\ v4' = v4 /\ v5' = v5
        /\ v6 = "extensions" /\ v6' = "required" /\ v4 > Len(Exts)
    BY DEF Hello!EndExtensions, Exts
  <1>2. v4 \in 1 .. Len(Exts) + 1 /\ v5 = 0 /\ ReadUpTo(v4 - 1) /\ Hello!FieldsGood
    BY <1>0, <1>1 DEF HelloProgress
  <1>3. v4 - 1 = Len(Exts)
    BY <1>0, <1>1, <1>2, HelloFields
  <1>4. ReadUpTo(Len(Exts)) /\ Exts' = Exts /\ Hello!FieldsGood'
    BY <1>1, <1>2, <1>3, HelloStays
  <1>5. ReadUpTo(Len(Exts))'
    BY <1>1, <1>4 DEF ReadUpTo
  <1>6. HelloTyped'
    BY <1>0, <1>1 DEF HelloTyped
  <1> QED
    BY <1>1, <1>2, <1>4, <1>5, <1>6 DEF HelloIndInv, HelloProgress

\* CheckRequired.
LEMMA CheckRequiredStep ==
    ASSUME HelloIndInv, Hello!CheckRequired
    PROVE  HelloIndInv'
  <1>0. HelloTyped /\ HelloProgress
    BY DEF HelloIndInv
  <1>1. /\ v1' = v1 /\ v2' = v2 /\ v3' = v3 /\ v5' = v5
        /\ v6 = "required" /\ Hello!RequiredGood
        /\ \/ "groups" \in v2 /\ v6' = "shares" /\ v4' = 1
           \/ "groups" \notin v2 /\ v6' = "accepted" /\ v4' = v4
    BY DEF Hello!CheckRequired
  <1>2. v5 = 0 /\ ReadUpTo(Len(Exts)) /\ Hello!FieldsGood
    BY <1>0, <1>1 DEF HelloProgress
  <1>3. HelloTyped'
    BY <1>0, <1>1 DEF HelloTyped
  <1>4. Exts' = Exts /\ Hello!FieldsGood'
    BY <1>1, <1>2, HelloStays
  <1>5. ReadUpTo(Len(Exts))'
    BY <1>1, <1>2, <1>4 DEF ReadUpTo
  <1>6. CASE "groups" \in v2 /\ v6' = "shares" /\ v4' = 1
    <2>1. Hello!RequiredGood'
      BY <1>1 DEF Hello!RequiredGood
    <2>2. v4' \in 1 .. Len(v1'.shares) + 1 /\ v4' - 1 = 0
      BY <1>3, <1>6, HelloFields, <1>0, <1>1
    <2>3. CheckedUpTo(v4 - 1)'
      <3>1. 1 .. (v4' - 1) = {}
        BY <2>2
      <3> QED
        BY <3>1 DEF CheckedUpTo
    <2>4. "groups" \in v2' /\ v5' = 0
      BY <1>1, <1>2, <1>6
    <2> QED
      BY <1>3, <1>4, <1>5, <1>6, <2>1, <2>2, <2>3, <2>4 DEF HelloIndInv, HelloProgress
  <1>7. CASE "groups" \notin v2 /\ v6' = "accepted" /\ v4' = v4
    <2>1. Hello!Conforming
      <3>1. /\ \A i, j \in 1 .. Len(Exts) : Exts[i] = Exts[j] => i = j
            /\ \A i \in 1 .. Len(Exts) : Exts[i] = "psk" => i = Len(Exts)
        BY <1>2 DEF ReadUpTo
      <3> QED
        BY <1>0, <1>1, <1>2, <1>7, <3>1, AllRead, ConformingMeans
    <2>2. Hello!Conforming'
      BY <1>1, <2>1, HelloStays
    <2> QED
      BY <1>3, <1>7, <2>2 DEF HelloIndInv, HelloProgress
  <1> QED
    BY <1>1, <1>6, <1>7

\* RefuseRequired.
LEMMA RefuseRequiredStep ==
    ASSUME HelloIndInv, Hello!RefuseRequired
    PROVE  HelloIndInv'
  <1>0. HelloTyped /\ HelloProgress
    BY DEF HelloIndInv
  <1>1. Hello!Refuse /\ v6 = "required" /\ ~Hello!RequiredGood
    BY DEF Hello!RefuseRequired
  <1>2. ReadUpTo(Len(Exts))
    BY <1>0, <1>1 DEF HelloProgress
  <1>3. ~Hello!Conforming
    BY <1>0, <1>1, <1>2, AllRead, ConformingMeans
  <1> QED
    BY <1>0, <1>1, <1>3, RefuseStep

\* CheckShare.
LEMMA CheckShareStep ==
    ASSUME HelloIndInv, Hello!CheckShare
    PROVE  HelloIndInv'
  <1>0. HelloTyped /\ HelloProgress
    BY DEF HelloIndInv
  <1>1. /\ v1' = v1 /\ v2' = v2 /\ v3' = v3 /\ v4' = v4 + 1 /\ v6' = v6
        /\ v6 = "shares" /\ v4 <= Len(v1.shares)
        /\ Hello!Position(v1.shares[v4]) > v5
        /\ v5' = Hello!Position(v1.shares[v4])
    BY DEF Hello!CheckShare, Hello!ShareGood
  <1>2. /\ ReadUpTo(Len(Exts)) /\ Hello!FieldsGood /\ Hello!RequiredGood /\ "groups" \in v2
        /\ v4 \in 1 .. Len(v1.shares) + 1 /\ CheckedUpTo(v4 - 1)
        /\ v5 = IF v4 = 1 THEN 0 ELSE Hello!Position(v1.shares[v4 - 1])
    BY <1>0, <1>1 DEF HelloProgress
  <1>3. PICK k \in Nat : k = v4 /\ k \in 1 .. Len(v1.shares) /\ Len(v1.shares) \in Nat
    BY <1>0, <1>1, <1>2, HelloFields
  <1>4. PICK P : \A i \in 1 .. Len(v1.shares) :
                    P[i] = Hello!Position(v1.shares[i]) /\ P[i] \in Nat
    <2>1. \A group : Hello!Position(group) \in Nat
      BY <1>0, PositionIs
    <2>2. PICK Q : Q = [i \in 1 .. Len(v1.shares) |-> Hello!Position(v1.shares[i])]
      OBVIOUS
    <2>3. \A i \in 1 .. Len(v1.shares) : Q[i] = Hello!Position(v1.shares[i])
      BY <2>2
    <2> QED
      BY <2>1, <2>3
  <1>5. \A i \in 1 .. (k - 1) : i \in 1 .. Len(v1.shares) /\ P[i] > 0
    BY <1>2, <1>3, <1>4 DEF CheckedUpTo
  <1>6. \A i, j \in 1 .. (k - 1) : i < j => P[i] < P[j]
    <2>1. \A i, j \in 1 .. (k - 1) : i < j =>
             Hello!Position(v1.shares[i]) < Hello!Position(v1.shares[j])
      BY <1>2, <1>3 DEF CheckedUpTo
    <2> QED
      BY <1>4, <1>5, <2>1
  <1>7. P[k] > v5 /\ v5 = (IF k = 1 THEN 0 ELSE P[k - 1]) /\ P[k] \in Nat
    <2>1. k # 1 => k - 1 \in 1 .. Len(v1.shares)
      BY <1>3
    <2> QED
      BY <1>1, <1>2, <1>3, <1>4, <2>1
  <1>8. \A i \in 1 .. (k - 1) : P[i] < P[k]
    <2> SUFFICES ASSUME NEW i \in 1 .. (k - 1) PROVE P[i] < P[k]
      OBVIOUS
    <2>1. i = k - 1 \/ (i < k - 1 /\ k - 1 \in 1 .. (k - 1))
      BY <1>3
    <2>2. k # 1 /\ k - 1 \in 1 .. Len(v1.shares)
      BY <1>3
    <2>3. P[i] \in Nat /\ P[k - 1] \in Nat /\ P[k - 1] < P[k] /\ P[k] \in Nat
      BY <1>4, <1>5, <1>7, <2>2
    <2>4. CASE i = k - 1
      BY <2>3, <2>4
    <2>5. CASE i < k - 1 /\ k - 1 \in 1 .. (k - 1)
      <3>1. P[i] < P[k - 1]
        BY <1>6, <2>5
      <3> QED
        BY <2>3, <3>1
    <2> QED
      BY <2>1, <2>4, <2>5
  <1>9. \A i : i \in 1 .. k <=> i \in 1 .. (k - 1) \/ i = k
    BY <1>3
  <1>10. P[k] > 0
    <2>1. k # 1 => k - 1 \in 1 .. (k - 1)
      BY <1>3
    <2> QED
      BY <1>5, <1>7, <2>1
  <1>11. CheckedUpTo(k)
    <2>1. \A i \in 1 .. k : i \in 1 .. Len(v1.shares)
      BY <1>3
    <2>2. \A i \in 1 .. k : P[i] > 0
      BY <1>5, <1>9, <1>10
    <2>3. \A i, j \in 1 .. k : i < j => P[i] < P[j]
      <3> SUFFICES ASSUME NEW i \in 1 .. k, NEW j \in 1 .. k, i < j PROVE P[i] < P[j]
        OBVIOUS
      <3>1. i \in 1 .. (k - 1)
        BY <1>3
      <3> QED
        BY <1>6, <1>8, <1>9, <3>1
    <2> QED
      BY <1>4, <2>1, <2>2, <2>3 DEF CheckedUpTo
  <1>12. /\ v4' = k + 1 /\ v4' - 1 = k /\ v4' \in 1 .. Len(v1.shares) + 1
         /\ v4' \in Nat /\ v4' # 1
    BY <1>1, <1>3
  <1>13. /\ Exts' = Exts /\ Hello!FieldsGood'
         /\ \A group : Hello!Position(group)' = Hello!Position(group)
    BY <1>1, <1>2, HelloStays
  <1>14. CheckedUpTo(v4 - 1)'
    BY <1>1, <1>11, <1>12, <1>13 DEF CheckedUpTo
  <1>15. ReadUpTo(Len(Exts))' /\ Hello!RequiredGood' /\ "groups" \in v2'
    BY <1>1, <1>2, <1>13 DEF ReadUpTo, Hello!RequiredGood
  <1>16. v5' = Hello!Position(v1.shares[k])' /\ v5' \in Nat
    BY <1>1, <1>3, <1>4, <1>7, <1>13
  <1>17. HelloTyped'
    BY <1>0, <1>1, <1>12, <1>16 DEF HelloTyped
  <1> QED
    BY <1>1, <1>12, <1>13, <1>14, <1>15, <1>16, <1>17 DEF HelloIndInv, HelloProgress

\* RefuseShare.
LEMMA RefuseShareStep ==
    ASSUME HelloIndInv, Hello!RefuseShare
    PROVE  HelloIndInv'
  <1>0. HelloTyped /\ HelloProgress
    BY DEF HelloIndInv
  <1>1. /\ Hello!Refuse /\ v6 = "shares" /\ v4 <= Len(v1.shares)
        /\ ~(Hello!Position(v1.shares[v4]) > v5)
    BY DEF Hello!RefuseShare, Hello!ShareGood
  <1>2. /\ ReadUpTo(Len(Exts)) /\ "groups" \in v2
        /\ v4 \in 1 .. Len(v1.shares) + 1
        /\ v5 = IF v4 = 1 THEN 0 ELSE Hello!Position(v1.shares[v4 - 1])
    BY <1>0, <1>1 DEF HelloProgress
  <1>3. ASSUME Hello!Conforming, Hello!GroupsDistinct PROVE FALSE
    <2>1. Hello!SharesFollowGroups
      BY <1>0, <1>2, <1>3, AllRead, ConformingMeans
    <2>2. CheckedUpTo(Len(v1.shares))
      BY <1>0, <1>3, <2>1, FollowChecked
    <2>3. PICK k \in Nat : k = v4 /\ k \in 1 .. Len(v1.shares) /\ Len(v1.shares) \in Nat
      BY <1>0, <1>1, <1>2, HelloFields
    <2>4. Hello!Position(v1.shares[k]) > 0
      BY <2>2, <2>3 DEF CheckedUpTo
    <2>5. k # 1 => k - 1 \in 1 .. Len(v1.shares) /\ k - 1 < k
      BY <2>3
    <2>6. k # 1 => Hello!Position(v1.shares[k - 1]) < Hello!Position(v1.shares[k])
      BY <2>2, <2>3, <2>5 DEF CheckedUpTo
    <2>7. CASE k = 1
      BY <1>1, <1>2, <2>3, <2>4, <2>7
    <2>8. CASE k # 1
      <3>1. PICK x \in Nat, y \in Nat :
              x = Hello!Position(v1.shares[k - 1]) /\ y = Hello!Position(v1.shares[k])
        BY <1>0, PositionIs
      <3>2. x < y /\ ~(y > x)
        BY <1>1, <1>2, <2>3, <2>6, <2>8, <3>1
      <3> QED
        BY <3>2
    <2> QED
      BY <2>7, <2>8
  <1> QED
    BY <1>0, <1>1, <1>3, RefuseStep

\* Accept.
LEMMA AcceptStep ==
    ASSUME HelloIndInv, Hello!Accept
    PROVE  HelloIndInv'
  <1>0. HelloTyped /\ HelloProgress
    BY DEF HelloIndInv
  <1>1. /\ v1' = v1 /\ v3' = v3 /\ v4' = v4 /\ v5' = v5
        /\ v6 = "shares" /\ v6' = "accepted" /\ v4 > Len(v1.shares)
    BY DEF Hello!Accept
  <1>2. /\ ReadUpTo(Len(Exts)) /\ Hello!FieldsGood /\ Hello!RequiredGood
        /\ v4 \in 1 .. Len(v1.shares) + 1 /\ CheckedUpTo(v4 - 1)
    BY <1>0, <1>1 DEF HelloProgress
  <1>3. v4 - 1 = Len(v1.shares)
    BY <1>0, <1>1, <1>2, HelloFields
  <1>4. Hello!SharesFollowGroups
    BY <1>0, <1>2, <1>3, CheckedFollow
  <1>5. Hello!Conforming
    <2>1. /\ \A i, j \in 1 .. Len(Exts) : Exts[i] = Exts[j] => i = j
          /\ \A i \in 1 .. Len(Exts) : Exts[i] = "psk" => i = Len(Exts)
      BY <1>2 DEF ReadUpTo
    <2> QED
      BY <1>0, <1>2, <1>4, <2>1, AllRead, ConformingMeans
  <1>6. Hello!Conforming' /\ HelloTyped'
    BY <1>0, <1>1, <1>5, HelloStays DEF HelloTyped
  <1> QED
    BY <1>1, <1>6 DEF HelloIndInv, HelloProgress

\* The parser starts with nothing read.
LEMMA HelloInitHolds ==
    ASSUME Hello!Init
    PROVE  HelloIndInv
  <1>1. /\ v1 \in Hello!HelloType /\ v2 = {} /\ v3 = FALSE /\ v4 = 1 /\ v5 = 0
        /\ v6 = "fields"
    BY HelloAssumptions DEF Hello!Init, Hello!Assumptions
  <1>2. HelloTyped
    BY <1>1 DEF HelloTyped
  <1>3. ReadUpTo(0)
    <2>1. 1 .. 0 = {}
      OBVIOUS
    <2> QED
      BY <1>1, <2>1 DEF ReadUpTo
  <1> QED
    BY <1>1, <1>2, <1>3 DEF HelloIndInv, HelloProgress

\* Every step of this part keeps it, and every step of another one.
LEMMA HelloKept ==
    ASSUME HelloIndInv, Hello!Next \/ UNCHANGED <<v1, v2, v3, v4, v5, v6>>
    PROVE  HelloIndInv'
  <1>1. CASE UNCHANGED <<v1, v2, v3, v4, v5, v6>>
    <2>1. v1' = v1 /\ v2' = v2 /\ v3' = v3 /\ v4' = v4 /\ v5' = v5 /\ v6' = v6
      BY <1>1
    <2>2. /\ Exts' = Exts
          /\ Hello!Conforming' <=> Hello!Conforming
          /\ Hello!GroupsDistinct' <=> Hello!GroupsDistinct
          /\ Hello!FieldsGood' <=> Hello!FieldsGood
          /\ \A group : Hello!Position(group)' = Hello!Position(group)
      BY <2>1, HelloStays
    <2>3. Hello!RequiredGood' <=> Hello!RequiredGood
      BY <2>1 DEF Hello!RequiredGood
    <2>4. /\ ReadUpTo(0) => ReadUpTo(0)'
          /\ ReadUpTo(v4 - 1) => ReadUpTo(v4 - 1)'
          /\ ReadUpTo(Len(Exts)) => ReadUpTo(Len(Exts))'
          /\ CheckedUpTo(v4 - 1) => CheckedUpTo(v4 - 1)'
      BY <2>1, <2>2 DEF ReadUpTo, CheckedUpTo
    <2>5. HelloTyped'
      BY <2>1 DEF HelloIndInv, HelloTyped
    <2>6. HelloProgress'
      BY <2>1, <2>2, <2>3, <2>4 DEF HelloIndInv, HelloProgress
    <2> QED
      BY <2>5, <2>6 DEF HelloIndInv
  <1> QED
    BY <1>1, FieldsStep, ReadExtensionStep, RefuseExtensionStep,
       EndExtensionsStep, CheckRequiredStep, RefuseRequiredStep, CheckShareStep,
       RefuseShareStep, AcceptStep DEF Hello!Next

\* The two promises follow.
LEMMA HellosAreExact ==
    ASSUME HelloIndInv
    PROVE  Hello!AcceptsOnlyConforming /\ Hello!RefusesNoConforming
  BY DEF HelloIndInv, HelloProgress, Hello!AcceptsOnlyConforming,
         Hello!RefusesNoConforming

-----------------------------------------------------------------------------
(* Inner plaintexts.                                                       *)

Text == Seq(Inner!Byte)

Padded(code, t, f, pad) ==
    /\ code \in Text
    /\ Len(code) = Len(f) + 1 + pad
    /\ \A i \in 1 .. Len(f) : code[i] = f[i]
    /\ code[Len(f) + 1] = t
    /\ \A i \in (Len(f) + 2) .. (Len(f) + 1 + pad) : code[i] = 0

\* The bytes of an encoding.
LEMMA EncodingIs ==
    ASSUME NEW t \in Inner!Byte, NEW f \in Text, NEW pad \in Nat
    PROVE  Padded(Inner!Encode(t, f, pad), t, f, pad)
  <1>1. PICK z : z = [i \in 1 .. pad |-> 0]
    OBVIOUS
  <1>2. z \in [1 .. pad -> Inner!Byte] /\ \A i \in 1 .. pad : z[i] = 0
    <2>1. 0 \in Inner!Byte
      BY InnerAssumptions DEF Inner!Byte, Inner!Assumptions
    <2> QED
      BY <1>1, <2>1
  <1>3. z \in Text
    BY <1>2, SeqDef DEF Text
  <1>4. Len(z) = pad
    <2>1. PICK l \in Nat : l = Len(z) /\ DOMAIN z = 1 .. l
      BY <1>3, LenProperties DEF Text
    <2>2. 1 .. l = 1 .. pad
      BY <1>2, <2>1
    <2>3. (l \in 1 .. l <=> l \in 1 .. pad) /\ (pad \in 1 .. l <=> pad \in 1 .. pad)
      BY <2>2
    <2>4. l = pad
      BY <2>3
    <2> QED
      BY <2>1, <2>4
  <1>5. PICK y \in Text : y = <<t>> /\ Len(y) = 1 /\ y[1] = t
    <2>1. <<t>> \in Seq(Inner!Byte) /\ Len(<<t>>) = 1 /\ <<t>>[1] = t
      OBVIOUS
    <2> QED
      BY <2>1 DEF Text
  <1>6. PICK n \in Nat : n = Len(f)
    BY DEF Text
  <1>7. PICK a \in Text : /\ a = f \o y /\ Len(a) = n + 1
                          /\ \A i \in 1 .. n : a[i] = f[i]
                          /\ \A i \in 1 .. 1 : a[n + i] = y[i]
    <2>1. f \in Seq(Inner!Byte) /\ y \in Seq(Inner!Byte)
      BY Zenon DEF Text
    <2>2. PICK c : c = f \o y
      OBVIOUS
    <2>3. /\ c \in Seq(Inner!Byte) /\ Len(c) = Len(f) + Len(y)
          /\ \A i \in 1 .. Len(f) : c[i] = f[i]
          /\ \A i \in 1 .. Len(y) : c[Len(f) + i] = y[i]
      BY <2>1, <2>2, Joined
    <2> QED
      BY <1>5, <1>6, <2>2, <2>3, Zenon DEF Text
  <1>8. PICK e \in Text : /\ e = a \o z /\ Len(e) = (n + 1) + pad
                          /\ \A i \in 1 .. n + 1 : e[i] = a[i]
                          /\ \A i \in 1 .. pad : e[(n + 1) + i] = z[i]
    <2>1. a \in Seq(Inner!Byte) /\ z \in Seq(Inner!Byte)
      BY <1>3, Zenon DEF Text
    <2>2. PICK c : c = a \o z
      OBVIOUS
    <2>3. /\ c \in Seq(Inner!Byte) /\ Len(c) = Len(a) + Len(z)
          /\ \A i \in 1 .. Len(a) : c[i] = a[i]
          /\ \A i \in 1 .. Len(z) : c[Len(a) + i] = z[i]
      BY <2>1, <2>2, Joined
    <2> QED
      <3>1. /\ Len(c) = (n + 1) + pad /\ c \in Text
            /\ \A i \in 1 .. n + 1 : c[i] = a[i]
        BY <1>4, <1>7, <2>3, Zenon DEF Text
      <3>2. \A i \in 1 .. pad : c[(n + 1) + i] = z[i]
        BY <1>4, <1>7, <2>3, Zenon
      <3> QED
        BY <2>2, <3>1, <3>2, Zenon
  <1>9. Inner!Encode(t, f, pad) = e
    BY <1>1, <1>5, <1>7, <1>8 DEF Inner!Encode
  <1>10. \A i \in 1 .. n : e[i] = f[i]
    <2> SUFFICES ASSUME NEW i \in 1 .. n PROVE e[i] = f[i]
      OBVIOUS
    <2>1. i \in 1 .. n + 1
      BY <1>6
    <2> QED
      BY <1>7, <1>8, <2>1
  <1>11. e[n + 1] = t
    <2>1. n + 1 \in 1 .. n + 1 /\ 1 \in 1 .. 1
      BY <1>6
    <2> QED
      BY <1>5, <1>7, <1>8, <2>1
  <1>12. \A i \in (n + 2) .. (n + 1 + pad) : e[i] = 0
    <2> SUFFICES ASSUME NEW i \in (n + 2) .. (n + 1 + pad) PROVE e[i] = 0
      OBVIOUS
    <2>1. PICK k \in 1 .. pad : i = (n + 1) + k
      <3>1. i - (n + 1) \in 1 .. pad /\ i = (n + 1) + (i - (n + 1))
        BY <1>6
      <3> QED
        BY <3>1
    <2> QED
      BY <1>2, <1>8, <2>1
  <1>13. (n + 1) + pad = n + 1 + pad
    BY <1>6
  <1>14. Padded(e, t, f, pad)
    BY <1>6, <1>8, <1>10, <1>11, <1>12, <1>13 DEF Padded
  <1> QED
    BY <1>9, <1>14

\* rposition() finds the last byte that is not zero.
LEMMA TypeIndexIs ==
    ASSUME NEW bytes \in Text
    PROVE  /\ Inner!TypeIndex(bytes) \in 0 .. Len(bytes)
           /\ Inner!TypeIndex(bytes) # 0 => bytes[Inner!TypeIndex(bytes)] # 0
           /\ \A j \in 1 .. Len(bytes) : bytes[j] # 0 => j <= Inner!TypeIndex(bytes)
  <1> DEFINE Candidates == {0} \cup {i \in 1 .. Len(bytes) : bytes[i] # 0}
  <1>1. PICK n \in Nat : n = Len(bytes)
    BY DEF Text
  <1>2. Candidates \in SUBSET (0 .. n) /\ Candidates # {}
    BY <1>1
  <1>3. Inner!TypeIndex(bytes) = CHOOSE x \in Candidates : \A y \in Candidates : x >= y
    BY Zenon DEF Inner!TypeIndex, Inner!Max
  <1>4. PICK S \in SUBSET (0 .. n) : S = Candidates /\ S # {}
    BY <1>2
  <1>5. Inner!TypeIndex(bytes) = CHOOSE x \in S : \A y \in S : x >= y
    BY <1>3, <1>4, Zenon
  <1>6. \E x \in S : \A y \in S : x >= y
    <2>1. PICK x \in S : \A y \in S : y <= x
      BY <1>4, GreatestExists
    <2>2. \A y \in S : x >= y
      BY <2>1
    <2> QED
      BY <2>2
  <1>7. Inner!TypeIndex(bytes) \in S /\ \A y \in S : Inner!TypeIndex(bytes) >= y
    BY <1>5, <1>6, Zenon
  <1>8. PICK x \in 0 .. n : x = Inner!TypeIndex(bytes) /\ x \in S /\ \A y \in S : x >= y
    BY <1>7
  <1>9. \A j \in 1 .. n : bytes[j] # 0 => j <= x
    BY <1>1, <1>4, <1>8
  <1>10. x # 0 => bytes[x] # 0
    BY <1>4, <1>8
  <1> QED
    BY <1>1, <1>8, <1>9, <1>10

\* A record that can be encoded is decoded to itself.
LEMMA DecodesEncodings ==
    ASSUME NEW t \in Inner!Byte, t # 0, NEW f \in Text, NEW pad \in Nat,
           Inner!CanEncode(t, f, pad)
    PROVE  Inner!Decode(Inner!Encode(t, f, pad)) = [type |-> t, fragment |-> f]
  <1>1. PICK n \in Nat : n = Len(f)
    BY DEF Text
  <1>2. PICK e \in Text :
          /\ e = Inner!Encode(t, f, pad) /\ Len(e) = n + 1 + pad
          /\ \A i \in 1 .. n : e[i] = f[i]
          /\ e[n + 1] = t
          /\ \A i \in (n + 2) .. (n + 1 + pad) : e[i] = 0
    <2>1. PICK e : e = Inner!Encode(t, f, pad)
      OBVIOUS
    <2>2. Padded(e, t, f, pad)
      BY <2>1, EncodingIs
    <2> QED
      BY <1>1, <2>1, <2>2, Zenon DEF Padded
  <1>3. PICK x \in 0 .. Len(e) :
          /\ x = Inner!TypeIndex(e)
          /\ x # 0 => e[x] # 0
          /\ \A j \in 1 .. Len(e) : e[j] # 0 => j <= x
    BY TypeIndexIs
  <1>4. x = n + 1
    <2>1. n + 1 \in 1 .. Len(e)
      BY <1>2
    <2>2. n + 1 <= x
      BY <1>2, <1>3, <2>1
    <2>3. ~(x > n + 1)
      <3> SUFFICES ASSUME x > n + 1 PROVE FALSE
        OBVIOUS
      <3>1. x \in (n + 2) .. (n + 1 + pad) /\ x # 0
        BY <1>2, <1>3
      <3> QED
        BY <1>2, <1>3, <3>1
    <2>4. x \in Nat
      BY <1>2, <1>3
    <2> QED
      BY <2>2, <2>3, <2>4
  <1>5. SubSeq(e, 1, x - 1) = f
    <2>1. x - 1 = n
      BY <1>4
    <2>2. n <= Len(e)
      BY <1>2
    <2>3. PICK u \in Text : /\ u = SubSeq(e, 1, n) /\ Len(u) = n
                            /\ \A i \in 1 .. n : u[i] = e[i]
      <3>1. PICK u : u = SubSeq(e, 1, n)
        OBVIOUS
      <3>2. u \in Seq(Inner!Byte) /\ Len(u) = n /\ \A i \in 1 .. n : u[i] = e[i]
        BY <2>2, <3>1, Prefix DEF Text
      <3> QED
        BY <3>1, <3>2 DEF Text
    <2>4. Len(u) = Len(f)
      BY <1>1, <2>3
    <2>5. \A i \in 1 .. Len(u) : u[i] = f[i]
      BY <1>1, <1>2, <2>3
    <2>6. u = f
      BY <2>4, <2>5, SeqEqual DEF Text
    <2> QED
      BY <2>1, <2>3, <2>6
  <1>6. /\ Inner!ValidFragment(t, f) /\ t \in Inner!InnerTypes
        /\ Len(f) + 1 + pad <= Inner!InnerLimit
    BY DEF Inner!CanEncode
  <1>7. ~(Len(e) > Inner!InnerLimit) /\ x # 0 /\ e[x] = t
    <2>1. Inner!InnerLimit \in Nat
      BY InnerAssumptions DEF Inner!Assumptions, Inner!InnerLimit
    <2> QED
      BY <1>1, <1>2, <1>4, <1>6, <2>1
  <1>8. Inner!Decode(e) =
          IF Len(e) > Inner!InnerLimit \/ x = 0 THEN Inner!Error
          ELSE IF e[x] \notin Inner!InnerTypes \/ ~Inner!ValidFragment(e[x], SubSeq(e, 1, x - 1))
          THEN Inner!Error
          ELSE [type |-> e[x], fragment |-> SubSeq(e, 1, x - 1)]
    BY <1>3 DEF Inner!Decode
  <1>9. Inner!Decode(e) = [type |-> t, fragment |-> f]
    BY <1>5, <1>6, <1>7, <1>8
  <1> QED
    BY <1>2, <1>9

\* Only encodings are decoded.
LEMMA EncodesDecoded ==
    ASSUME NEW bytes \in Text, Inner!Decode(bytes) # Inner!Error
    PROVE  LET record == Inner!Decode(bytes)
               pad    == Len(bytes) - Len(record.fragment) - 1
           IN /\ Inner!CanEncode(record.type, record.fragment, pad)
              /\ bytes = Inner!Encode(record.type, record.fragment, pad)
  <1>1. PICK x \in 0 .. Len(bytes) :
          /\ x = Inner!TypeIndex(bytes)
          /\ x # 0 => bytes[x] # 0
          /\ \A j \in 1 .. Len(bytes) : bytes[j] # 0 => j <= x
    BY TypeIndexIs
  <1>2. Inner!Decode(bytes) =
          IF Len(bytes) > Inner!InnerLimit \/ x = 0 THEN Inner!Error
          ELSE IF \/ bytes[x] \notin Inner!InnerTypes
                  \/ ~Inner!ValidFragment(bytes[x], SubSeq(bytes, 1, x - 1)) THEN Inner!Error
          ELSE [type |-> bytes[x], fragment |-> SubSeq(bytes, 1, x - 1)]
    BY <1>1 DEF Inner!Decode
  <1>3. PICK n \in Nat : n = Len(bytes)
    BY DEF Text
  <1>4. /\ ~(n > Inner!InnerLimit) /\ x # 0 /\ bytes[x] \in Inner!InnerTypes
        /\ Inner!ValidFragment(bytes[x], SubSeq(bytes, 1, x - 1))
        /\ Inner!Decode(bytes) = [type |-> bytes[x], fragment |-> SubSeq(bytes, 1, x - 1)]
    BY <1>2, <1>3
  <1>5. x \in 1 .. n /\ bytes[x] \in Inner!Byte /\ bytes[x] # 0
    BY <1>1, <1>3, <1>4 DEF Text
  <1>6. PICK f \in Text : /\ f = SubSeq(bytes, 1, x - 1) /\ Len(f) = x - 1
                          /\ \A i \in 1 .. x - 1 : f[i] = bytes[i]
    <2>1. PICK m \in Nat : m = x - 1 /\ m <= Len(bytes)
      BY <1>3, <1>5
    <2>2. PICK u \in Text : /\ u = SubSeq(bytes, 1, m) /\ Len(u) = m
                            /\ \A i \in 1 .. m : u[i] = bytes[i]
      <3>1. PICK u : u = SubSeq(bytes, 1, m)
        OBVIOUS
      <3>2. u \in Seq(Inner!Byte) /\ Len(u) = m /\ \A i \in 1 .. m : u[i] = bytes[i]
        BY <2>1, <3>1, Prefix DEF Text
      <3> QED
        BY <3>1, <3>2 DEF Text
    <2> QED
      BY <2>1, <2>2, Zenon
  <1>7. PICK pad \in Nat : pad = n - x /\ n - (x - 1) - 1 = pad
    <2>1. n - x \in Nat /\ n - (x - 1) - 1 = n - x
      BY <1>3, <1>5
    <2> QED
      BY <2>1
  <1>8. Inner!CanEncode(bytes[x], f, pad)
    <2>1. Inner!InnerLimit \in Nat
      BY InnerAssumptions DEF Inner!Assumptions, Inner!InnerLimit
    <2>2. Len(f) + 1 + pad <= Inner!InnerLimit
      BY <1>3, <1>4, <1>5, <1>6, <1>7, <2>1
    <2> QED
      BY <1>4, <1>6, <2>2 DEF Inner!CanEncode
  <1>9. bytes = Inner!Encode(bytes[x], f, pad)
    <2>1. PICK e \in Text :
            /\ e = Inner!Encode(bytes[x], f, pad) /\ Len(e) = Len(f) + 1 + pad
            /\ \A i \in 1 .. Len(f) : e[i] = f[i]
            /\ e[Len(f) + 1] = bytes[x]
            /\ \A i \in (Len(f) + 2) .. (Len(f) + 1 + pad) : e[i] = 0
      <3>1. PICK e : e = Inner!Encode(bytes[x], f, pad)
        OBVIOUS
      <3> QED
        <4>1. Padded(e, bytes[x], f, pad)
          BY <1>5, <3>1, EncodingIs
        <4> QED
          BY <3>1, <4>1, Zenon DEF Padded
    <2>2. Len(e) = n /\ Len(f) + 1 = x /\ Len(f) + 2 = x + 1 /\ Len(f) + 1 + pad = n
      BY <1>3, <1>5, <1>6, <1>7, <2>1
    <2>3. \A i \in 1 .. n : bytes[i] = e[i]
      <3> SUFFICES ASSUME NEW i \in 1 .. n PROVE bytes[i] = e[i]
        OBVIOUS
      <3>1. CASE i < x
        <4>1. i \in 1 .. (x - 1) /\ i \in 1 .. Len(f)
          BY <1>3, <1>5, <1>6, <3>1
        <4> QED
          BY <1>6, <2>1, <4>1
      <3>2. CASE i = x
        BY <2>1, <2>2, <3>2
      <3>3. CASE i > x
        <4>1. i \in (x + 1) .. n /\ ~(i <= x)
          BY <1>3, <1>5, <3>3
        <4>2. e[i] = 0
          BY <2>1, <2>2, <4>1
        <4>3. bytes[i] = 0
          BY <1>1, <1>3, <4>1
        <4> QED
          BY <4>2, <4>3
      <3>4. i < x \/ i = x \/ i > x
        BY <1>3, <1>5
      <3> QED
        BY <3>1, <3>2, <3>3, <3>4
    <2>4. bytes = e
      BY <1>3, <2>2, <2>3, SeqEqual DEF Text
    <2> QED
      BY <2>1, <2>4
  <1>10. Len(bytes) - Len(SubSeq(bytes, 1, x - 1)) - 1 = pad
    BY <1>3, <1>6, <1>7
  <1> QED
    BY <1>4, <1>6, <1>8, <1>9, <1>10

InnerTyped ==
    /\ v1 \in 1 .. 4 /\ v2 \in Text /\ v3 \in Nat /\ v4 \in Text

InnerIndInv ==
    /\ InnerTyped
    /\ v6 # "encode" => (Inner!CanEncode(v1, v2, v3) => v4 = Inner!Encode(v1, v2, v3))
    /\ v6 = "done" => v5 = Inner!Decode(v4)

\* A record to encode, and nothing done yet.
LEMMA InnerInitHolds ==
    ASSUME Inner!Init
    PROVE  InnerIndInv
  <1>1. v1 \in 1 .. 4 /\ v2 \in Inner!Strings(FragmentLimit + 1) /\ v3 \in 0 .. MaxPadding
        /\ v4 = <<>> /\ v6 = "encode"
    BY DEF Inner!Init
  <1>2. v2 \in Text
    <2>1. PICK k \in 0 .. FragmentLimit + 1 : v2 \in [1 .. k -> Inner!Byte]
      BY <1>1 DEF Inner!Strings
    <2>2. k \in Nat
      OBVIOUS
    <2> QED
      BY <2>1, <2>2, SeqDef DEF Text
  <1>3. v4 \in Text
    BY <1>1, EmptySeq DEF Text
  <1>4. v3 \in Nat
    BY <1>1, InnerAssumptions DEF Inner!Assumptions
  <1> QED
    BY <1>1, <1>2, <1>3, <1>4 DEF InnerIndInv, InnerTyped

\* Both steps keep it.
LEMMA InnerStepHolds ==
    ASSUME InnerIndInv, Inner!Next
    PROVE  InnerIndInv'
  <1>0. InnerTyped
    BY DEF InnerIndInv
  <1>1. CASE Inner!DoEncode
    <2>1. /\ v6 = "encode" /\ v6' = "decode" /\ v1' = v1 /\ v2' = v2 /\ v3' = v3 /\ v5' = v5
          /\ \/ Inner!CanEncode(v1, v2, v3) /\ v4' = Inner!Encode(v1, v2, v3)
             \/ ~Inner!CanEncode(v1, v2, v3) /\ v4' = v2 \o [i \in 1 .. v3 |-> 0]
      BY <1>1 DEF Inner!DoEncode
    <2>2. v4' \in Text
      <3>1. CASE v4' = Inner!Encode(v1, v2, v3)
        <4>1. v1 \in Inner!Byte
          BY <1>0, InnerAssumptions DEF InnerTyped, Inner!Byte, Inner!Assumptions
        <4>2. Padded(Inner!Encode(v1, v2, v3), v1, v2, v3)
          BY <1>0, <4>1, EncodingIs DEF InnerTyped
        <4> QED
          BY <3>1, <4>2 DEF Padded
      <3>2. CASE v4' = v2 \o [i \in 1 .. v3 |-> 0]
        <4>1. PICK z : z = [i \in 1 .. v3 |-> 0]
          OBVIOUS
        <4>2. z \in [1 .. v3 -> Inner!Byte] /\ v3 \in Nat
          <5>1. 0 \in Inner!Byte
            BY InnerAssumptions DEF Inner!Byte, Inner!Assumptions
          <5> QED
            BY <1>0, <4>1, <5>1 DEF InnerTyped
        <4>3. z \in Seq(Inner!Byte)
          BY <4>2, SeqDef
        <4>4. v2 \in Seq(Inner!Byte)
          BY <1>0 DEF InnerTyped, Text
        <4>5. v2 \o z \in Seq(Inner!Byte)
          BY <4>3, <4>4, ConcatProperties
        <4> QED
          BY <3>2, <4>1, <4>5, Zenon DEF Text
      <3> QED
        BY <2>1, <3>1, <3>2
    <2>3. Inner!CanEncode(v1, v2, v3)' <=> Inner!CanEncode(v1, v2, v3)
      BY <2>1
    <2>4. Inner!Encode(v1, v2, v3)' = Inner!Encode(v1, v2, v3)
      BY <2>1
    <2> QED
      BY <1>0, <2>1, <2>2, <2>3, <2>4 DEF InnerIndInv, InnerTyped
  <1>2. CASE Inner!DoDecode
    <2>1. /\ v6 = "decode" /\ v6' = "done" /\ v1' = v1 /\ v2' = v2 /\ v3' = v3 /\ v4' = v4
          /\ v5' = Inner!Decode(v4)
      BY <1>2 DEF Inner!DoDecode
    <2> QED
      BY <1>0, <2>1 DEF InnerIndInv, InnerTyped
  <1> QED
    BY <1>1, <1>2 DEF Inner!Next

\* Every step of this part keeps it, and every step of another one.
LEMMA InnerKept ==
    ASSUME InnerIndInv, Inner!Next \/ UNCHANGED <<v1, v2, v3, v4, v5, v6>>
    PROVE  InnerIndInv'
  <1>1. CASE UNCHANGED <<v1, v2, v3, v4, v5, v6>>
    <2>1. v1' = v1 /\ v2' = v2 /\ v3' = v3 /\ v4' = v4 /\ v5' = v5 /\ v6' = v6
      BY <1>1
    <2> QED
      BY <2>1 DEF InnerIndInv, InnerTyped
  <1> QED
    BY <1>1, InnerStepHolds

\* The two promises follow.
LEMMA InnerPlaintextsAreExact ==
    ASSUME InnerIndInv
    PROVE  Inner!RoundTrip /\ Inner!OnlyEncodings
  <1>1. ASSUME v6 = "done", Inner!CanEncode(v1, v2, v3)
        PROVE  v5 = [type |-> v1, fragment |-> v2]
    <2>1. v4 = Inner!Encode(v1, v2, v3) /\ v5 = Inner!Decode(v4)
      BY <1>1 DEF InnerIndInv
    <2>2. v1 \in Inner!Byte /\ v1 # 0 /\ v2 \in Text /\ v3 \in Nat
      BY InnerAssumptions DEF InnerIndInv, InnerTyped, Inner!Byte, Inner!Assumptions
    <2>3. Inner!Decode(Inner!Encode(v1, v2, v3)) = [type |-> v1, fragment |-> v2]
      BY <1>1, <2>2, DecodesEncodings
    <2> QED
      BY <2>1, <2>3
  <1>2. ASSUME v6 = "done", v5 # Inner!Error
        PROVE  /\ Inner!CanEncode(v5.type, v5.fragment, Len(v4) - Len(v5.fragment) - 1)
               /\ v4 = Inner!Encode(v5.type, v5.fragment, Len(v4) - Len(v5.fragment) - 1)
    <2>1. v5 = Inner!Decode(v4) /\ v4 \in Text
      BY <1>2 DEF InnerIndInv, InnerTyped
    <2> QED
      BY <1>2, <2>1, EncodesDecoded
  <1> QED
    BY <1>1, <1>2, Zenon DEF Inner!RoundTrip, Inner!OnlyEncodings

-----------------------------------------------------------------------------
(* Frames.  The variables are, in this order: kind, stream, pushed, buffer,*)
(* out and failed.                                                         *)

Octets == 0 .. MaxFrameByte

FrameKinds == {"plaintext", "ciphertext", "handshake"}

\* A good frame of a decoder, and the size of its headers.
HeaderOf(k) == IF k = "handshake" THEN 2 ELSE 3

FrameOf(k, frame) ==
    /\ Len(frame) >= HeaderOf(k) /\ Len(frame) = HeaderOf(k) + frame[HeaderOf(k)]
    /\ k = "plaintext" =>
          /\ frame[1] \in Frames!ContentTypes
          /\ Frames!ValidFragment(frame[1], SubSeq(frame, HeaderOf(k) + 1, Len(frame)))
    /\ k = "ciphertext" =>
          /\ frame[1] = Frames!ApplicationData /\ frame[2] = Frames!LegacyVersion
          /\ frame[3] <= FrameLimit

\* Ends of good frames in the bytes, one behind another, from the first to the
\* last.
GoodEnds(k, bytes, ends) ==
    /\ ends \subseteq 0 .. Len(bytes) /\ 0 \in ends /\ Len(bytes) \in ends
    /\ \A a, b \in ends :
          (a < b /\ \A c \in ends : ~(a < c /\ c < b)) =>
             FrameOf(k, SubSeq(bytes, a + 1, b))

\* What a header is.
LEMMA HeaderIs ==
    ASSUME v1 \in FrameKinds
    PROVE  /\ Frames!HeaderSize \in {2, 3}
           /\ (v1 = "handshake" /\ Frames!HeaderSize = 2)
              \/ (v1 # "handshake" /\ Frames!HeaderSize = 3)
  BY DEF FrameKinds, Frames!HeaderSize

\* The definition of the module, for the decoder at hand.
LEMMA FrameOfIs ==
    ASSUME NEW frame
    PROVE  FrameOf(v1, frame) <=> Frames!WellFormedFrame(frame)
  <1>1. HeaderOf(v1) = Frames!HeaderSize
    BY Zenon DEF HeaderOf, Frames!HeaderSize
  <1> QED
    BY <1>1, Zenon DEF FrameOf, Frames!WellFormedFrame

\* A frame that is there is at least a header long.
LEMMA LengthIs ==
    ASSUME v1 \in FrameKinds, NEW left \in Seq(Octets), Len(left) >= Frames!HeaderSize
    PROVE  /\ Frames!FrameLength(left) \in Nat /\ Frames!FrameLength(left) >= 2
           /\ Frames!FrameLength(left) >= Frames!HeaderSize
  <1>1. PICK h \in {2, 3} : h = Frames!HeaderSize
    BY HeaderIs
  <1>2. h \in 1 .. Len(left) /\ h \in Nat
    BY <1>1, LenProperties
  <1>3. PICK x \in Octets : x = left[h]
    BY <1>2, ElementOfSeq
  <1>4. Frames!FrameLength(left) = h + x
    BY <1>1, <1>3 DEF Frames!FrameLength
  <1> QED
    BY <1>1, <1>3, <1>4 DEF Octets

\* At the end of one good frame push() finds the next one, or the start of it:
\* a header and a fragment are refused only if the frame is not good.
LEMMA GoodTurn ==
    ASSUME v1 \in FrameKinds, NEW total \in Seq(Octets), NEW ends,
           GoodEnds(v1, total, ends),
           NEW p \in ends, NEW q \in Nat, p < q, q <= Len(total),
           NEW left, left = SubSeq(total, p + 1, q),
           q = Len(total) \/ Len(left) >= Frames!HeaderSize
    PROVE  /\ Frames!GoodHeader(left)
           /\ q = Len(total) => /\ Len(left) >= Frames!HeaderSize
                                /\ Len(left) >= Frames!FrameLength(left)
           /\ Len(left) >= Frames!FrameLength(left) =>
                 /\ Frames!GoodFrame(SubSeq(left, 1, Frames!FrameLength(left)))
                 /\ p + Frames!FrameLength(left) \in ends
  <1>1. PICK l \in Nat : l = Len(total)
    BY LenProperties
  <1>2. /\ ends \subseteq 0 .. l /\ 0 \in ends /\ l \in ends /\ p \in Nat
        /\ \A a, b \in ends :
              (a < b /\ \A c \in ends : ~(a < c /\ c < b)) =>
                 FrameOf(v1, SubSeq(total, a + 1, b))
    BY <1>1 DEF GoodEnds
  <1>3. /\ left \in Seq(Octets) /\ Len(left) = q - p
        /\ \A i \in 1 .. q - p : left[i] = total[p + i]
    <2>1. /\ p + 1 \in Nat /\ 1 <= p + 1 /\ p + 1 <= q + 1
          /\ q - (p + 1) + 1 = q - p
          /\ \A i \in 1 .. q - p : (p + 1) + i - 1 = p + i
      BY <1>2
    <2>2. PICK m \in Nat : m = p + 1
      BY <2>1
    <2>3. /\ left \in Seq(Octets) /\ Len(left) = q - m + 1
          /\ \A i \in 1 .. q - m + 1 : left[i] = total[m + i - 1]
      BY <2>1, <2>2, Slice
    <2> QED
      BY <2>1, <2>2, <2>3
  <1>4. PICK h \in {2, 3} : h = Frames!HeaderSize
    BY HeaderIs
  <1>5. p < l
    BY <1>1, <1>2
  <1> DEFINE Later == {e \in ends : p < e}
  <1>6. PICK b \in Later : \A e \in Later : b <= e
    <2>1. Later \subseteq 0 .. l /\ l \in Later
      BY <1>2, <1>5
    <2>2. 0 .. l \subseteq Nat
      OBVIOUS
    <2>3. Later \in SUBSET Nat
      BY <2>1, <2>2, Zenon
    <2> HIDE DEF Later
    <2> QED
      BY <2>1, <2>3, LeastExists
  <1>7. b \in ends /\ b \in Nat /\ p < b /\ b <= l /\ \A c \in ends : ~(p < c /\ c < b)
    <2>1. b \in ends /\ b \in Nat /\ p < b /\ b <= l
      BY <1>2
    <2>2. ASSUME NEW c \in ends, p < c, c < b PROVE FALSE
      <3>1. c \in Later /\ c \in Nat
        BY <1>2, <2>2
      <3>2. b <= c
        BY <1>6, <3>1
      <3> QED
        BY <2>1, <2>2, <3>1, <3>2
    <2> QED
      BY <2>1, <2>2
  <1> HIDE DEF Later
  <1>8. PICK frame : frame = SubSeq(total, p + 1, b)
    OBVIOUS
  <1>9. /\ frame \in Seq(Octets) /\ Len(frame) = b - p
        /\ \A i \in 1 .. b - p : frame[i] = total[p + i]
    <2>1. /\ p + 1 \in Nat /\ 1 <= p + 1 /\ p + 1 <= b + 1
          /\ b - (p + 1) + 1 = b - p
          /\ \A i \in 1 .. b - p : (p + 1) + i - 1 = p + i
      BY <1>2, <1>7
    <2>2. PICK m \in Nat : m = p + 1
      BY <2>1
    <2>3. /\ frame \in Seq(Octets) /\ Len(frame) = b - m + 1
          /\ \A i \in 1 .. b - m + 1 : frame[i] = total[m + i - 1]
      BY <1>1, <1>7, <1>8, <2>1, <2>2, Slice
    <2> QED
      BY <2>1, <2>2, <2>3
  <1>10. Frames!WellFormedFrame(frame)
    BY <1>2, <1>7, <1>8, FrameOfIs
  <1>11. Len(frame) >= h /\ Len(frame) = h + frame[h]
    BY <1>4, <1>10 DEF Frames!WellFormedFrame
  <1>12. /\ left[1] = frame[1] /\ left[2] = frame[2]
         /\ h = 3 => left[3] = frame[3]
         /\ left[h] = frame[h]
    <2>1. 1 \in 1 .. q - p /\ 2 \in 1 .. q - p /\ (h = 3 => 3 \in 1 .. q - p)
      <3>1. h <= q - p
        <4>1. CASE q = Len(total)
          <5>1. b - p <= q - p /\ b - p >= h
            BY <1>1, <1>2, <1>7, <1>9, <1>11, <4>1
          <5> QED
            BY <1>2, <1>4, <1>7, <5>1
        <4>2. CASE Len(left) >= Frames!HeaderSize
          BY <1>3, <1>4, <4>2
        <4> QED
          BY <4>1, <4>2
      <3> QED
        BY <1>2, <1>4, <3>1
    <2>2. 1 \in 1 .. b - p /\ 2 \in 1 .. b - p /\ (h = 3 => 3 \in 1 .. b - p)
      <3>1. PICK k \in Nat : k = b - p
        BY <1>2, <1>7
      <3>2. k >= h
        BY <1>9, <1>11, <3>1
      <3> QED
        BY <1>4, <3>1, <3>2
    <2> QED
      BY <1>3, <1>4, <1>9, <2>1, <2>2
  <1>13. Frames!FrameLength(left) = b - p
    BY <1>4, <1>9, <1>11, <1>12 DEF Frames!FrameLength
  <1>14. v1 = "plaintext" =>
           Len(SubSeq(frame, h + 1, Len(frame))) = frame[3]
    <2> SUFFICES ASSUME v1 = "plaintext"
                 PROVE  Len(SubSeq(frame, h + 1, Len(frame))) = frame[3]
      OBVIOUS
    <2>1. h = 3
      BY <1>4, HeaderIs
    <2>2. PICK n \in Nat : n = Len(frame) /\ n >= 3 /\ n = 3 + frame[3] /\ frame[3] \in Nat
      <3>1. 3 \in 1 .. Len(frame)
        BY <1>2, <1>7, <1>9, <1>11, <2>1
      <3>2. frame[3] \in Octets
        BY <1>9, <3>1, ElementOfSeq
      <3> QED
        BY <1>9, <1>11, <2>1, <3>2 DEF Octets
    <2>3. 4 \in Nat /\ 1 <= 4 /\ 4 <= n + 1 /\ n - 4 + 1 = frame[3]
      <3>1. PICK x \in Nat : x = frame[3]
        BY <2>2
      <3> QED
        <4>1. n = 3 + x
          BY <2>2, <3>1
        <4>2. n - 4 + 1 = x /\ 4 <= n + 1
          BY <4>1
        <4> QED
          BY <3>1, <4>2
    <2>4. Len(SubSeq(frame, 4, n)) = n - 4 + 1
      BY <1>9, <2>2, <2>3, Slice
    <2> QED
      BY <2>1, <2>2, <2>3, <2>4
  <1>15. Frames!GoodHeader(left)
    <2>1. CASE v1 = "plaintext"
      <3>1. frame[1] \in Frames!ContentTypes
        BY <1>10, <2>1 DEF Frames!WellFormedFrame
      <3>2. Frames!ValidFragment(frame[1], SubSeq(frame, h + 1, Len(frame)))
        BY <1>4, <1>10, <2>1 DEF Frames!WellFormedFrame
      <3>3. frame[3] <= FrameLimit
        BY <1>14, <2>1, <3>2 DEF Frames!ValidFragment
      <3>4. h = 3
        BY <1>4, <2>1, HeaderIs
      <3> QED
        BY <1>12, <2>1, <3>1, <3>3, <3>4 DEF Frames!GoodHeader
    <2>2. CASE v1 = "ciphertext"
      <3>1. h = 3
        BY <1>4, <2>2, HeaderIs
      <3> QED
        BY <1>10, <1>12, <2>2, <3>1 DEF Frames!WellFormedFrame, Frames!GoodHeader
    <2>3. CASE v1 = "handshake"
      BY <2>3 DEF Frames!GoodHeader
    <2> QED
      BY <2>1, <2>2, <2>3 DEF FrameKinds
  <1>16. ASSUME Len(left) >= Frames!FrameLength(left)
         PROVE  /\ Frames!GoodFrame(SubSeq(left, 1, Frames!FrameLength(left)))
                /\ p + Frames!FrameLength(left) \in ends
    <2>1. PICK n \in Nat : n = Frames!FrameLength(left) /\ n = b - p /\ n <= q - p
      BY <1>2, <1>3, <1>7, <1>13, <1>16
    <2>2. SubSeq(left, 1, n) = frame
      <3>1. PICK start : start = SubSeq(left, 1, n)
        OBVIOUS
      <3>2. start \in Seq(Octets) /\ Len(start) = n /\ \A i \in 1 .. n : start[i] = left[i]
        BY <1>3, <2>1, <3>1, Prefix
      <3>3. \A i \in 1 .. n : start[i] = frame[i]
        <4> SUFFICES ASSUME NEW i \in 1 .. n PROVE start[i] = frame[i]
          OBVIOUS
        <4>1. i \in 1 .. q - p /\ i \in 1 .. b - p
          BY <1>2, <2>1
        <4> QED
          BY <1>3, <1>9, <3>2, <4>1
      <3> QED
        BY <1>9, <2>1, <3>1, <3>2, <3>3, SeqEqual
    <2>3. Frames!GoodFrame(frame)
      BY <1>10 DEF Frames!GoodFrame, Frames!WellFormedFrame
    <2>4. p + n = b
      BY <1>2, <1>7, <2>1
    <2> QED
      BY <1>7, <2>1, <2>2, <2>3, <2>4
  <1>17. ASSUME q = Len(total)
         PROVE  Len(left) >= Frames!HeaderSize /\ Len(left) >= Frames!FrameLength(left)
    <2>1. b - p <= q - p /\ b - p >= h
      BY <1>1, <1>2, <1>7, <1>9, <1>11, <1>17
    <2> QED
      BY <1>2, <1>3, <1>4, <1>7, <1>13, <2>1
  <1> QED
    BY <1>15, <1>16, <1>17

-----------------------------------------------------------------------------
(* The loop of push().                                                     *)

\* Where it can be.
Points(bytes) ==
    [frames : Seq(Seq(Octets)), consumed : 0 .. Len(bytes),
     verdict : {"more", "break", "error"}]

\* What holds of it after a number of turns, with the frames of earlier calls:
\* what was found is what was consumed, and as long as it goes on every turn
\* has consumed something.
Reached(bytes, earlier, turns, at) ==
    /\ at \in Points(bytes)
    /\ at.verdict = "more" => at.consumed >= turns
    /\ at.verdict = "break" => Frames!Incomplete(Frames!Rest(bytes, at.consumed))
    /\ Flat(earlier \o at.frames) = Flat(earlier) \o SubSeq(bytes, 1, at.consumed)

\* It starts there.
LEMMA StartReached ==
    ASSUME NEW bytes \in Seq(Octets), NEW earlier \in Seq(Seq(Octets))
    PROVE  Reached(bytes, earlier, 0, Frames!Start)
  <1>1. PICK at : at = Frames!Start
    OBVIOUS
  <1>2. at = [frames |-> << >>, consumed |-> 0, verdict |-> "more"]
    BY <1>1 DEF Frames!Start
  <1>3. 0 \in 0 .. Len(bytes) /\ << >> \in Seq(Seq(Octets))
    <2>1. Len(bytes) \in Nat
      BY LenProperties
    <2> QED
      BY <2>1, EmptySeq
  <1>4. at \in Points(bytes)
    BY <1>2, <1>3 DEF Points
  <1>5. earlier \o << >> = earlier
    BY ConcatEmptySeq
  <1>6. Flat(earlier) \o << >> = Flat(earlier)
    <2>1. Flat(earlier) \in Seq(Octets)
      BY FlatIs
    <2> QED
      BY <2>1, ConcatEmptySeq
  <1>7. SubSeq(bytes, 1, 0) = << >>
    <2>1. PICK t : t = SubSeq(bytes, 1, 0)
      OBVIOUS
    <2>2. 0 \in Nat /\ 0 <= Len(bytes)
      BY <1>3
    <2>3. t \in Seq(Octets) /\ Len(t) = 0
      BY <2>1, <2>2, Prefix
    <2> QED
      BY <2>1, <2>3, EmptySeq
  <1>8. at.frames = << >> /\ at.consumed = 0 /\ at.verdict = "more" /\ 0 >= 0
    BY <1>2
  <1>9. Flat(earlier \o at.frames) = Flat(earlier) \o SubSeq(bytes, 1, at.consumed)
    BY <1>5, <1>6, <1>7, <1>8
  <1> QED
    BY <1>1, <1>4, <1>8, <1>9 DEF Reached

\* The cases of a turn.
TurnCases(at, left, next) ==
    \/ at.verdict # "more" /\ next = at
    \/ /\ at.verdict = "more" /\ Frames!Incomplete(left)
       /\ next = [frames |-> at.frames, consumed |-> at.consumed,
                  verdict |-> "break"]
    \/ /\ at.verdict = "more" /\ ~Frames!Incomplete(left) /\ Frames!Bad(left)
       /\ next = [frames |-> at.frames, consumed |-> at.consumed,
                  verdict |-> "error"]
    \/ /\ at.verdict = "more" /\ ~Frames!Incomplete(left) /\ ~Frames!Bad(left)
       /\ next = [frames |-> Append(at.frames,
                                    SubSeq(left, 1, Frames!FrameLength(left))),
                  consumed |-> at.consumed + Frames!FrameLength(left),
                  verdict |-> "more"]

\* There is no other.
LEMMA TurnIs ==
    ASSUME NEW bytes, NEW at \in Points(bytes),
           NEW left, left = Frames!Rest(bytes, at.consumed), NEW next,
           next = Frames!Turn(bytes, at)
    PROVE  TurnCases(at, left, next)
  <1>1. next = IF at.verdict # "more" THEN at
               ELSE IF Frames!Incomplete(left) THEN [at EXCEPT !.verdict = "break"]
               ELSE IF Frames!Bad(left) THEN [at EXCEPT !.verdict = "error"]
               ELSE [at EXCEPT !.frames = Append(@, SubSeq(left, 1, Frames!FrameLength(left))),
                               !.consumed = @ + Frames!FrameLength(left)]
    BY Zenon DEF Frames!Turn
  <1>2. PICK f, c, v : at = [frames |-> f, consumed |-> c, verdict |-> v]
    BY DEF Points
  <1> QED
    BY <1>1, <1>2 DEF TurnCases

\* Every turn keeps it.
LEMMA TurnReached ==
    ASSUME v1 \in FrameKinds, NEW bytes \in Seq(Octets), NEW earlier \in Seq(Seq(Octets)),
           NEW turns \in Nat, NEW at, Reached(bytes, earlier, turns, at)
    PROVE  Reached(bytes, earlier, turns + 1, Frames!Turn(bytes, at))
  <1>1. PICK left, next : /\ left = Frames!Rest(bytes, at.consumed)
                          /\ next = Frames!Turn(bytes, at)
    OBVIOUS
  <1>2. at \in Points(bytes)
    BY DEF Reached
  <1>3. PICK l \in Nat, c \in Nat : l = Len(bytes) /\ c = at.consumed
    BY <1>2, LenProperties DEF Points
  <1>4. c <= l /\ at.frames \in Seq(Seq(Octets))
    BY <1>2, <1>3 DEF Points
  <1>5. CASE at.verdict # "more" /\ next = at
    <2>1. Reached(bytes, earlier, turns + 1, at)
      BY <1>5, Zenon DEF Reached
    <2> QED
      BY <1>1, <1>5, <2>1
  <1>6. CASE /\ at.verdict = "more" /\ Frames!Incomplete(left)
             /\ next = [frames |-> at.frames, consumed |-> at.consumed,
                        verdict |-> "break"]
    <2>1. /\ next.frames = at.frames /\ next.consumed = at.consumed
          /\ next.verdict = "break" /\ next \in Points(bytes)
      BY <1>2, <1>6 DEF Points
    <2> QED
      BY <1>1, <1>6, <2>1 DEF Reached
  <1>7. CASE /\ at.verdict = "more" /\ ~Frames!Incomplete(left) /\ Frames!Bad(left)
             /\ next = [frames |-> at.frames, consumed |-> at.consumed,
                        verdict |-> "error"]
    <2>1. /\ next.frames = at.frames /\ next.consumed = at.consumed
          /\ next.verdict = "error" /\ next \in Points(bytes)
      BY <1>2, <1>7 DEF Points
    <2> QED
      BY <1>1, <1>7, <2>1 DEF Reached
  <1>8. CASE /\ at.verdict = "more" /\ ~Frames!Incomplete(left) /\ ~Frames!Bad(left)
             /\ next = [frames |-> Append(at.frames,
                                          SubSeq(left, 1, Frames!FrameLength(left))),
                        consumed |-> at.consumed + Frames!FrameLength(left),
                        verdict |-> "more"]
    <2>1. left = SubSeq(bytes, c + 1, l)
      BY <1>1, <1>3 DEF Frames!Rest
    <2>2. left \in Seq(Octets) /\ Len(left) = l - c
      <3>1. bytes \in Seq(Octets) /\ c \in Nat /\ l \in Nat /\ c <= l /\ l <= Len(bytes)
        BY <1>3, <1>4
      <3> QED
        BY <2>1, <3>1, Piece
    <2>3. Len(left) >= Frames!HeaderSize
      <3>1. PICK h \in {2, 3} : h = Frames!HeaderSize
        BY HeaderIs
      <3>2. ~(Len(left) < h)
        BY <1>8, <3>1 DEF Frames!Incomplete
      <3>3. PICK k \in Int : k = Len(left)
        BY <2>2
      <3>4. k >= h
        BY <3>2, <3>3
      <3> QED
        BY <3>1, <3>3, <3>4
    <2>4. PICK n \in Nat : n = Frames!FrameLength(left) /\ n >= 2
      BY <2>2, <2>3, LengthIs
    <2>5. n <= l - c
      <3>1. Frames!GoodHeader(left)
        BY <1>8 DEF Frames!Bad
      <3>2. ~(Len(left) < n)
        BY <1>8, <2>4, <3>1 DEF Frames!Incomplete
      <3>3. PICK m \in Nat : m = Len(left) /\ m = l - c
        BY <2>2, LenProperties
      <3>4. ~(m < n)
        BY <3>2, <3>3
      <3>5. n <= m
        BY <3>4
      <3> QED
        BY <3>3, <3>5
    <2>6. PICK frame : frame = SubSeq(left, 1, n)
      OBVIOUS
    <2>7. frame = SubSeq(bytes, c + 1, c + n)
      <3>1. PICK a \in Nat, e \in Nat : a = c + 1 /\ e = c + n
        OBVIOUS
      <3>2. /\ 1 \in Nat /\ 1 <= a /\ a <= l + 1 /\ l <= Len(bytes)
            /\ 1 <= 1 /\ 1 <= n + 1 /\ n <= l - a + 1 /\ a = a + 1 - 1 /\ e = a + n - 1
        <4>1. l <= Len(bytes)
          BY <1>3
        <4>2. a <= l + 1
          BY <1>4, <3>1
        <4>3. n <= l - a + 1 /\ e = a + n - 1
          BY <2>5, <3>1
        <4> QED
          BY <3>1, <4>1, <4>2, <4>3
      <3>3. SubSeq(SubSeq(bytes, a, l), 1, n) = SubSeq(bytes, a, e)
        BY <3>2, PieceOfPiece
      <3> QED
        BY <2>1, <2>6, <3>1, <3>3
    <2>8. PICK d \in Nat : d = c + n /\ d <= l /\ c <= d
      <3>1. c + n \in Nat /\ c + n <= l /\ c <= c + n
        BY <2>5
      <3> QED
        BY <3>1
    <2>9. frame \in Seq(Octets) /\ frame = SubSeq(bytes, c + 1, d)
      BY <1>3, <2>7, <2>8, Piece
    <2>10. PICK f : f = at.frames /\ f \in Seq(Seq(Octets))
      BY <1>4
    <2>11. next.frames = Append(f, frame) /\ next.consumed = d /\ next.verdict = "more"
      BY <1>3, <1>8, <2>4, <2>6, <2>8, <2>10
    <2>12. Append(f, frame) \in Seq(Seq(Octets)) /\ d \in 0 .. Len(bytes)
      BY <1>3, <2>8, <2>9, <2>10, AppendProperties
    <2>13. next \in Points(bytes)
      <3>1. next = [frames |-> Append(f, frame), consumed |-> d, verdict |-> "more"]
        BY <1>3, <1>8, <2>4, <2>6, <2>8, <2>10
      <3> QED
        BY <2>12, <3>1 DEF Points
    <2>14. d >= turns + 1
      <3>1. c >= turns
        BY <1>3, <1>8 DEF Reached
      <3>2. n >= 2 /\ d = c + n
        BY <2>4, <2>8
      <3> QED
        BY <3>1, <3>2
    <2>15. Flat(earlier \o Append(f, frame)) = Flat(earlier) \o SubSeq(bytes, 1, d)
      <3>1. PICK g, h, s : /\ g = earlier \o f /\ h = Flat(earlier)
                           /\ s = SubSeq(bytes, 1, c)
        OBVIOUS
      <3>2. g \in Seq(Seq(Octets)) /\ h \in Seq(Octets) /\ s \in Seq(Octets)
        <4>1. g \in Seq(Seq(Octets))
          BY <2>10, <3>1, Joined
        <4>2. h \in Seq(Octets)
          BY <3>1, FlatIs
        <4>3. s \in Seq(Octets)
          BY <1>3, <1>4, <3>1, Prefix
        <4> QED
          BY <4>1, <4>2, <4>3
      <3>3. earlier \o Append(f, frame) = Append(g, frame)
        <4>1. PICK T : T = Seq(Octets)
          OBVIOUS
        <4>2. /\ frame \in T /\ earlier \in Seq(T) /\ f \in Seq(T) /\ g \in Seq(T)
          BY <2>9, <2>10, <3>2, <4>1
        <4>3. PICK e : e = <<frame>> /\ e \in Seq(T)
          <5>1. <<frame>> \in Seq(T)
            BY <4>2
          <5> QED
            BY <5>1
        <4>4. Append(f, frame) = f \o e /\ Append(g, frame) = g \o e
          BY <4>2, <4>3, AppendIsConcat
        <4>5. (earlier \o f) \o e = earlier \o (f \o e)
          <5>1. e \in Seq(T)
            BY <4>3
          <5>2. Behind(Behind(earlier, f), e) = Behind(earlier, Behind(f, e))
            BY <4>2, <5>1, Three
          <5> QED
            BY <5>2, Zenon DEF Behind
        <4> QED
          BY <3>1, <4>4, <4>5
      <3>4. Flat(Append(g, frame)) = Flat(g) \o frame
        BY <2>9, <3>2, FlatAppend
      <3>5. Flat(g) = h \o s
        BY <1>3, <2>10, <3>1 DEF Reached
      <3>6. (h \o s) \o frame = h \o (s \o frame)
        <4>1. frame \in Seq(Octets)
          BY <2>9
        <4>2. Behind(Behind(h, s), frame) = Behind(h, Behind(s, frame))
          BY <3>2, <4>1, Three
        <4> QED
          BY <4>2, Zenon DEF Behind
      <3>7. s \o frame = SubSeq(bytes, 1, d)
        BY <1>3, <2>8, <2>9, <3>1, Adjacent
      <3> QED
        BY <3>1, <3>3, <3>4, <3>5, <3>6, <3>7
    <2>16. Reached(bytes, earlier, turns + 1, next)
      <3>1. Flat(earlier \o next.frames) = Flat(earlier) \o SubSeq(bytes, 1, next.consumed)
        BY <2>11, <2>15
      <3>2. next.verdict # "break"
        BY <2>11
      <3> QED
        BY <2>11, <2>13, <2>14, <3>1, <3>2 DEF Reached
    <2> QED
      BY <1>1, <2>16
  <1>9. TurnCases(at, left, next)
    BY <1>1, <1>2, TurnIs
  <1> QED
    BY <1>5, <1>6, <1>7, <1>8, <1>9, Zenon DEF TurnCases

\* A stream of good frames: the loop stands at the end of one of them.
OnTrack(ends, p, at) == at.verdict # "error" /\ p + at.consumed \in ends

\* A turn leads it from one end to the next.
LEMMA TurnOnTrack ==
    ASSUME v1 \in FrameKinds, NEW total \in Seq(Octets), NEW ends,
           GoodEnds(v1, total, ends), NEW p \in Nat, NEW q \in Nat, p <= q, q <= Len(total),
           NEW bytes, bytes = SubSeq(total, p + 1, q),
           NEW at \in Points(bytes), OnTrack(ends, p, at)
    PROVE  OnTrack(ends, p, Frames!Turn(bytes, at))
  <1>1. PICK left, next : /\ left = Frames!Rest(bytes, at.consumed)
                          /\ next = Frames!Turn(bytes, at)
    OBVIOUS
  <1>2. bytes \in Seq(Octets) /\ Len(bytes) = q - p
    BY Piece
  <1>3. PICK c \in Nat : c = at.consumed /\ c <= q - p
    BY <1>2 DEF Points
  <1>4. left = SubSeq(total, (p + c) + 1, q)
    <2>1. PICK d \in Nat : d = q - p /\ c <= d /\ d <= q - p /\ p + d = q
      BY <1>3
    <2>2. left = SubSeq(SubSeq(total, p + 1, q), c + 1, d)
      BY <1>1, <1>2, <1>3, <2>1 DEF Frames!Rest
    <2>3. PICK a \in Nat, e \in Nat, m \in Nat : a = p + 1 /\ e = c + 1 /\ m = (p + c) + 1
      OBVIOUS
    <2>4. /\ 1 <= a /\ a <= q + 1 /\ q <= Len(total)
          /\ 1 <= e /\ e <= d + 1 /\ d <= q - a + 1 /\ m = a + e - 1 /\ q = a + d - 1
      BY <2>1, <2>3
    <2>5. SubSeq(SubSeq(total, a, q), e, d) = SubSeq(total, m, q)
      BY <2>4, PieceOfPiece
    <2> QED
      BY <2>2, <2>3, <2>5
  <1>5. PICK r \in Nat : r = p + c /\ r <= q
    BY <1>3
  <1>6. /\ r \in ends /\ left = SubSeq(total, r + 1, q)
        /\ left \in Seq(Octets) /\ Len(left) = q - r
    <2>1. r \in ends /\ left = SubSeq(total, r + 1, q)
      BY <1>3, <1>4, <1>5 DEF OnTrack
    <2> QED
      BY <1>5, <2>1, Piece
  <1>7. ASSUME ~Frames!Incomplete(left)
        PROVE  ~Frames!Bad(left) /\ r + Frames!FrameLength(left) \in ends
    <2>1. PICK h \in {2, 3} : h = Frames!HeaderSize
      BY HeaderIs
    <2>2. ~(Len(left) < h)
      BY <1>7, <2>1 DEF Frames!Incomplete
    <2>3. r < q /\ Len(left) >= Frames!HeaderSize
      BY <1>5, <1>6, <2>1, <2>2
    <2>4. /\ Frames!GoodHeader(left)
          /\ Len(left) >= Frames!FrameLength(left) =>
                 /\ Frames!GoodFrame(SubSeq(left, 1, Frames!FrameLength(left)))
                 /\ r + Frames!FrameLength(left) \in ends
      BY <1>5, <1>6, <2>3, GoodTurn
    <2>5. PICK n \in Nat : n = Frames!FrameLength(left)
      BY <1>6, <2>3, LengthIs
    <2>6. ~(Len(left) < n)
      BY <1>7, <2>4, <2>5 DEF Frames!Incomplete
    <2>7. Len(left) >= n
      BY <1>5, <1>6, <2>5, <2>6
    <2> QED
      BY <2>4, <2>5, <2>7 DEF Frames!Bad
  <1>8. CASE at.verdict # "more" /\ next = at
    BY <1>1, <1>8
  <1>9. CASE /\ at.verdict = "more" /\ Frames!Incomplete(left)
             /\ next = [frames |-> at.frames, consumed |-> at.consumed,
                        verdict |-> "break"]
    BY <1>1, <1>9 DEF OnTrack
  <1>10. CASE /\ at.verdict = "more" /\ ~Frames!Incomplete(left) /\ Frames!Bad(left)
              /\ next = [frames |-> at.frames, consumed |-> at.consumed,
                         verdict |-> "error"]
    BY <1>7, <1>10
  <1>11. CASE /\ at.verdict = "more" /\ ~Frames!Incomplete(left) /\ ~Frames!Bad(left)
              /\ next = [frames |-> Append(at.frames,
                                           SubSeq(left, 1, Frames!FrameLength(left))),
                         consumed |-> at.consumed + Frames!FrameLength(left),
                         verdict |-> "more"]
    <2>1. r + Frames!FrameLength(left) \in ends
      BY <1>7, <1>11
    <2>2. PICK n \in Nat : n = Frames!FrameLength(left)
      <3>1. Len(left) >= Frames!HeaderSize
        <4>1. PICK h \in {2, 3} : h = Frames!HeaderSize
          BY HeaderIs
        <4>2. ~(Len(left) < h)
          BY <1>11, <4>1 DEF Frames!Incomplete
        <4> QED
          BY <1>5, <1>6, <4>1, <4>2
      <3> QED
        BY <1>6, <3>1, LengthIs
    <2>3. next.consumed = c + n /\ next.verdict = "more" /\ p + (c + n) = r + n
      <3>1. next.consumed = at.consumed + Frames!FrameLength(left) /\ next.verdict = "more"
        BY <1>11
      <3>2. p + (c + n) = r + n
        <4>1. r = p + c
          BY <1>3, <1>5
        <4> QED
          BY <4>1
      <3> QED
        BY <1>3, <2>2, <3>1, <3>2
    <2> QED
      BY <1>1, <2>1, <2>2, <2>3 DEF OnTrack
  <1>12. TurnCases(at, left, next)
    BY <1>1, TurnIs
  <1> QED
    BY <1>8, <1>9, <1>10, <1>11, <1>12, Zenon DEF TurnCases

\* The places the loop goes through.
Loops(bytes, n, h) ==
    /\ h[0] = Frames!Start
    /\ \A i \in 0 .. n : i + 1 <= n => h[i + 1] = Frames!Turn(bytes, h[i])

\* Decode is where it ends.
LEMMA DecodeIs ==
    ASSUME v1 \in FrameKinds, NEW bytes \in Seq(Octets),
           NEW n \in Nat, n = Len(bytes) + 1
    PROVE  \E h : Loops(bytes, n, h) /\ Frames!Decode(bytes) = h[n]
  <1> DEFINE T == {at \in Points(bytes) : Reached(bytes, << >>, 0, at)}
             step == [i \in Nat |-> [at \in T |-> Frames!Turn(bytes, at)]]
             h == CHOOSE f : f = [turns \in 0 .. (Len(bytes) + 1) |->
                                    IF turns = 0 THEN Frames!Start
                                    ELSE Frames!Turn(bytes, f[turns - 1])]
  <1>1. << >> \in Seq(Seq(Octets))
    BY EmptySeq
  <1>2. Frames!Start \in T
    <2>1. Reached(bytes, << >>, 0, Frames!Start)
      BY <1>1, StartReached
    <2> QED
      BY <2>1 DEF Reached
  <1>3. step \in [Nat -> [T -> T]]
    <2> SUFFICES ASSUME NEW at \in T PROVE Frames!Turn(bytes, at) \in T
      OBVIOUS
    <2>1. PICK next : next = Frames!Turn(bytes, at)
      OBVIOUS
    <2>2. Reached(bytes, << >>, 0 + 1, next)
      <3>1. Reached(bytes, << >>, 0, at)
        OBVIOUS
      <3> HIDE DEF T
      <3> QED
        BY <1>1, <2>1, <3>1, TurnReached
    <2>3. next \in Points(bytes) /\ (next.verdict = "more" => next.consumed >= 0)
      BY <2>2 DEF Reached, Points
    <2>4. Reached(bytes, << >>, 0, next)
      BY <2>2, <2>3 DEF Reached
    <2> QED
      BY <2>1, <2>3, <2>4
  <1>4. PICK g : g \in [0 .. n -> T] /\ Steps(g, n, Frames!Start, step)
    <2>1. PICK U, first, st : U = T /\ first = Frames!Start /\ st = step
      OBVIOUS
    <2>2. first \in U /\ st \in [Nat -> [U -> U]]
      BY <1>2, <1>3, <2>1
    <2>3. \E g \in [0 .. n -> U] : Steps(g, n, first, st)
      BY <2>2, Recursion
    <2> HIDE DEF T, step
    <2> QED
      BY <2>1, <2>3
  <1>5. \A i \in 0 .. n : g[i] = IF i = 0 THEN Frames!Start ELSE Frames!Turn(bytes, g[i - 1])
    <2> SUFFICES ASSUME NEW i \in 0 .. n, i # 0
                 PROVE  g[i] = Frames!Turn(bytes, g[i - 1])
      BY <1>4 DEF Steps
    <2>1. i - 1 \in 0 .. n /\ i \in Nat
      OBVIOUS
    <2>2. PICK at : at = g[i - 1] /\ at \in T
      BY <1>4, <2>1
    <2>3. g[i] = step[i][at]
      <3> HIDE DEF T, step
      <3> QED
        BY <1>4, <2>2 DEF Steps
    <2>4. step[i][at] = Frames!Turn(bytes, at)
      <3> HIDE DEF T
      <3> QED
        BY <2>1, <2>2
    <2> QED
      BY <2>2, <2>3, <2>4
  <1> HIDE DEF T, step
  <1>6. g = [turns \in 0 .. (Len(bytes) + 1) |->
               IF turns = 0 THEN Frames!Start ELSE Frames!Turn(bytes, g[turns - 1])]
    <2> DEFINE e == [turns \in 0 .. (Len(bytes) + 1) |->
                       IF turns = 0 THEN Frames!Start ELSE Frames!Turn(bytes, g[turns - 1])]
    <2>1. DOMAIN e = 0 .. n /\ DOMAIN g = 0 .. n /\ \A i \in 0 .. n : e[i] = g[i]
      BY <1>4, <1>5
    <2>2. g = [i \in DOMAIN g |-> g[i]] /\ e = [i \in DOMAIN e |-> e[i]]
      BY <1>4
    <2> HIDE DEF e
    <2>3. e = g
      BY <2>1, <2>2
    <2> QED
      BY <2>3 DEF e
  <1>7. h = [turns \in 0 .. (Len(bytes) + 1) |->
               IF turns = 0 THEN Frames!Start ELSE Frames!Turn(bytes, h[turns - 1])]
    BY <1>6, Zenon
  <1>8. Frames!Decode(bytes) = h[Len(bytes) + 1]
    BY Zenon DEF Frames!Decode
  <1>9. PICK k : k = h
    OBVIOUS
  <1>10. k = [turns \in 0 .. n |->
                IF turns = 0 THEN Frames!Start ELSE Frames!Turn(bytes, k[turns - 1])]
    BY <1>7, <1>9, Zenon
  <1>11. Frames!Decode(bytes) = k[n]
    BY <1>8, <1>9, Zenon
  <1> HIDE DEF h
  <1>12. Loops(bytes, n, k)
    <2>1. k[0] = Frames!Start
      <3>1. 0 \in 0 .. n
        OBVIOUS
      <3> QED
        BY <1>10, <3>1
    <2>2. ASSUME NEW i \in 0 .. n, i + 1 <= n
          PROVE  k[i + 1] = Frames!Turn(bytes, k[i])
      <3>1. i + 1 \in 0 .. n /\ i + 1 # 0 /\ (i + 1) - 1 = i
        BY <2>2
      <3>2. k[i + 1] = Frames!Turn(bytes, k[(i + 1) - 1])
        BY <1>10, <3>1
      <3> QED
        BY <3>1, <3>2
    <2> QED
      BY <2>1, <2>2 DEF Loops
  <1> QED
    BY <1>11, <1>12

\* What the loop keeps holds where it ends.
LEMMA DecodeReached ==
    ASSUME v1 \in FrameKinds, NEW bytes \in Seq(Octets), NEW earlier \in Seq(Seq(Octets))
    PROVE  /\ Reached(bytes, earlier, Len(bytes) + 1, Frames!Decode(bytes))
           /\ Frames!Decode(bytes).verdict # "more"
  <1>1. PICK n \in Nat : n = Len(bytes) + 1
    BY LenProperties
  <1>2. PICK h : Loops(bytes, n, h) /\ Frames!Decode(bytes) = h[n]
    BY <1>1, DecodeIs
  <1> DEFINE S == {i \in Nat : Reached(bytes, earlier, i, h[i])}
  <1>3. 0 \in S
    BY <1>2, StartReached DEF Loops
  <1>4. ASSUME NEW i \in 0 .. n, i \in S, i + 1 <= n
        PROVE  i + 1 \in S
    <2>1. i \in Nat /\ Reached(bytes, earlier, i, h[i])
      BY <1>4
    <2>2. h[i + 1] = Frames!Turn(bytes, h[i])
      BY <1>2, <1>4 DEF Loops
    <2>3. Reached(bytes, earlier, i + 1, Frames!Turn(bytes, h[i]))
      BY <2>1, TurnReached
    <2> QED
      BY <2>1, <2>2, <2>3
  <1>5. \A i \in 0 .. n : i \in S
    <2> HIDE DEF S
    <2> QED
      BY <1>3, <1>4, Counting
  <1>6. Reached(bytes, earlier, n, h[n])
    <2>1. n \in 0 .. n
      OBVIOUS
    <2> QED
      BY <1>5, <2>1
  <1>7. h[n].verdict # "more"
    <2>1. h[n].consumed \in 0 .. Len(bytes)
      BY <1>6 DEF Reached, Points
    <2>2. ~(h[n].consumed >= n)
      BY <1>1, <2>1
    <2> QED
      BY <1>6, <2>2 DEF Reached
  <1> QED
    BY <1>1, <1>2, <1>6, <1>7

\* In a stream of good frames it ends behind one of them.
LEMMA DecodeOnTrack ==
    ASSUME v1 \in FrameKinds, NEW total \in Seq(Octets), NEW ends,
           GoodEnds(v1, total, ends), NEW p \in ends, p \in Nat,
           NEW q \in Nat, p <= q, q <= Len(total),
           NEW bytes, bytes = SubSeq(total, p + 1, q)
    PROVE  OnTrack(ends, p, Frames!Decode(bytes))
  <1>1. bytes \in Seq(Octets)
    BY Piece
  <1>2. PICK n \in Nat : n = Len(bytes) + 1
    <2>1. Len(bytes) \in Nat
      BY <1>1, LenProperties
    <2>2. Len(bytes) + 1 \in Nat
      BY <2>1
    <2> QED
      BY <2>2
  <1>3. PICK h : Loops(bytes, n, h) /\ Frames!Decode(bytes) = h[n]
    BY <1>1, <1>2, DecodeIs
  <1>4. << >> \in Seq(Seq(Octets))
    BY EmptySeq
  <1> DEFINE S == {i \in Nat : Reached(bytes, << >>, i, h[i]) /\ OnTrack(ends, p, h[i])}
  <1>5. 0 \in S
    <2>1. h[0] = Frames!Start
      BY <1>3 DEF Loops
    <2>2. Reached(bytes, << >>, 0, Frames!Start)
      BY <1>1, <1>4, StartReached
    <2>3. OnTrack(ends, p, Frames!Start)
      <3>1. p + 0 = p
        OBVIOUS
      <3> QED
        BY <3>1 DEF OnTrack, Frames!Start
    <2> QED
      BY <2>1, <2>2, <2>3
  <1>6. ASSUME NEW i \in 0 .. n, i \in S, i + 1 <= n
        PROVE  i + 1 \in S
    <2>1. PICK at : at = h[i]
      OBVIOUS
    <2>2. i \in Nat /\ Reached(bytes, << >>, i, at) /\ OnTrack(ends, p, at)
      BY <1>6, <2>1
    <2>3. h[i + 1] = Frames!Turn(bytes, at)
      BY <1>3, <1>6, <2>1 DEF Loops
    <2>4. Reached(bytes, << >>, i + 1, Frames!Turn(bytes, at))
      BY <1>1, <1>4, <2>2, TurnReached
    <2>5. OnTrack(ends, p, Frames!Turn(bytes, at))
      <3>1. at \in Points(bytes)
        BY <2>2 DEF Reached
      <3> QED
        BY <2>2, <3>1, TurnOnTrack
    <2> QED
      BY <2>2, <2>3, <2>4, <2>5
  <1>7. \A i \in 0 .. n : i \in S
    <2> HIDE DEF S
    <2> QED
      BY <1>5, <1>6, Counting
  <1>8. OnTrack(ends, p, h[n])
    <2>1. n \in 0 .. n
      OBVIOUS
    <2> QED
      BY <1>7, <2>1
  <1> QED
    BY <1>3, <1>8

-----------------------------------------------------------------------------
(* Pushing.                                                                *)

FrameTyped ==
    /\ v1 \in FrameKinds
    /\ v2 \in Seq(Octets) /\ v3 \in Seq(Octets) /\ v4 \in Seq(Octets)
    /\ v5 \in Seq(Seq(Octets)) /\ v6 \in BOOLEAN

\* A buffer without a whole frame.
Settled(k, buffer) ==
    Len(buffer) >= HeaderOf(k) => Len(buffer) < HeaderOf(k) + buffer[HeaderOf(k)]

\* The inductive invariant.  What AcceptsGoodStreams says of the end is said of
\* all bytes, pushed or not: if they can be cut into good frames, the frames
\* returned end at one of the cuts, whichever cutting it is.
FrameIndInv ==
    /\ FrameTyped
    /\ Flat(v5) \o v4 = v3
    /\ ~v6 => Settled(v1, v4)
    /\ \A ends : GoodEnds(v1, v3 \o v2, ends) => ~v6 /\ Len(v3) - Len(v4) \in ends

\* Nothing pushed.
LEMMA FrameInitHolds ==
    ASSUME Frames!Init
    PROVE  FrameIndInv
  <1>1. /\ v1 \in FrameKinds /\ v2 \in UNION {[1 .. n -> Frames!Byte] : n \in 0 .. MaxStream}
        /\ v3 = << >> /\ v4 = << >> /\ v5 = << >> /\ v6 = FALSE
    BY DEF Frames!Init, FrameKinds
  <1>2. v2 \in Seq(Octets)
    <2>1. PICK k \in 0 .. MaxStream : v2 \in [1 .. k -> Octets]
      BY <1>1 DEF Frames!Byte, Octets
    <2>2. k \in Nat
      BY FrameAssumptions DEF Frames!Assumptions
    <2> QED
      BY <2>1, <2>2, SeqDef
  <1>3. << >> \in Seq(Octets) /\ << >> \in Seq(Seq(Octets)) /\ Len(<< >>) = 0
    BY EmptySeq
  <1>4. FrameTyped
    BY <1>1, <1>2, <1>3 DEF FrameTyped
  <1>5. Flat(v5) \o v4 = v3
    <2>1. Flat(<< >>) = << >>
      BY <1>3, FlatIs
    <2>2. << >> \o << >> = << >>
      BY <1>3, ConcatEmptySeq
    <2> QED
      BY <1>1, <2>1, <2>2
  <1>6. Settled(v1, v4)
    BY <1>1, <1>3 DEF Settled, HeaderOf
  <1>7. Len(v3) - Len(v4) = 0
    BY <1>1, <1>3
  <1> QED
    BY <1>1, <1>4, <1>5, <1>6, <1>7 DEF FrameIndInv, GoodEnds

\* The loop ends without a whole frame left.
LEMMA SettledThen ==
    ASSUME v1 \in FrameKinds, NEW left \in Seq(Octets), Frames!Incomplete(left)
    PROVE  Settled(v1, left)
  <1>1. PICK h \in {2, 3} : h = HeaderOf(v1) /\ h = Frames!HeaderSize
    BY DEF HeaderOf, Frames!HeaderSize
  <1>2. PICK n \in Nat : n = Len(left)
    BY LenProperties
  <1> SUFFICES ASSUME n >= h PROVE n < h + left[h]
    BY <1>1, <1>2 DEF Settled
  <1>3. ~(n < h)
    BY <1>1
  <1>4. Len(left) < Frames!FrameLength(left)
    BY <1>1, <1>2, <1>3 DEF Frames!Incomplete
  <1> QED
    BY <1>1, <1>2, <1>4 DEF Frames!FrameLength

\* Four sequences, one behind another, however they are grouped.
Regrouped(a, b, c, d) ==
    /\ ((a \o b) \o c) \o d = (a \o b) \o (c \o d)
    /\ (a \o b) \o c = a \o (b \o c)
    /\ (a \o b) \o (c \o d) = a \o ((b \o c) \o d)

\* They are the same.
LEMMA Four ==
    ASSUME NEW S, NEW a \in Seq(S), NEW b \in Seq(S), NEW c \in Seq(S), NEW d \in Seq(S)
    PROVE  Regrouped(a, b, c, d)
  <1>1. PICK ab, bc : ab = a \o b /\ bc = b \o c
    OBVIOUS
  <1>2. ab \in Seq(S) /\ bc \in Seq(S)
    BY <1>1, Joined
  <1>3. Behind(Behind(ab, c), d) = Behind(ab, Behind(c, d))
    BY <1>2, Three
  <1>4. Behind(Behind(a, b), c) = Behind(a, Behind(b, c))
    BY Three
  <1>5. Behind(Behind(a, bc), d) = Behind(a, Behind(bc, d))
    BY <1>2, Three
  <1> QED
    BY <1>1, <1>3, <1>4, <1>5, Zenon DEF Regrouped, Behind

\* What a call finds: the buffer and the piece pushed, a piece of all bytes.
Spliced(input, rest, bytes) ==
    /\ input \in Seq(Octets) /\ rest \in Seq(Octets) /\ bytes \in Seq(Octets)
    /\ (v3 \o input) \o rest = v3 \o v2
    /\ v3 \o input = Flat(v5) \o bytes
    /\ v3 \o v2 = Flat(v5) \o (bytes \o rest)
    /\ v3 \o v2 \in Seq(Octets)

\* It does.
LEMMA PushFinds ==
    ASSUME FrameIndInv, NEW n \in 1 .. Len(v2),
           NEW input, input = SubSeq(v2, 1, n), NEW rest, rest = SubSeq(v2, n + 1, Len(v2)),
           NEW bytes, bytes = v4 \o input
    PROVE  Spliced(input, rest, bytes)
  <1>1. /\ v2 \in Seq(Octets) /\ v3 \in Seq(Octets) /\ v4 \in Seq(Octets)
        /\ v5 \in Seq(Seq(Octets)) /\ v3 = Flat(v5) \o v4
    BY DEF FrameIndInv, FrameTyped
  <1>2. PICK l \in Nat : l = Len(v2)
    BY <1>1, LenProperties
  <1>3. n \in Nat /\ n <= l /\ n <= Len(v2) /\ l <= Len(v2)
    BY <1>2
  <1>4. input \in Seq(Octets)
    BY <1>1, <1>3, Prefix
  <1>5. rest \in Seq(Octets)
    BY <1>1, <1>2, <1>3, Piece
  <1>6. bytes \in Seq(Octets) /\ v3 \o v2 \in Seq(Octets)
    BY <1>1, <1>4, Joined
  <1>7. PICK f \in Seq(Octets) : f = Flat(v5)
    BY <1>1, FlatIs
  <1>8. input \o rest = v2
    <2>1. input \o rest = SubSeq(v2, 1, l)
      BY <1>1, <1>2, <1>3, Adjacent
    <2>2. SubSeq(v2, 1, l) = v2
      BY <1>1, <1>2, Whole
    <2> QED
      BY <2>1, <2>2
  <1>9. PICK b, c, d : b = v4 /\ c = input /\ d = rest
    OBVIOUS
  <1>10. b \in Seq(Octets) /\ c \in Seq(Octets) /\ d \in Seq(Octets)
    BY <1>1, <1>4, <1>5, <1>9
  <1>11. Regrouped(f, b, c, d)
    BY <1>10, Four
  <1>12. v3 = f \o b /\ v2 = c \o d /\ bytes = b \o c
    BY <1>1, <1>7, <1>8, <1>9
  <1>13. /\ (v3 \o input) \o rest = v3 \o v2
         /\ v3 \o input = Flat(v5) \o bytes
         /\ v3 \o v2 = Flat(v5) \o (bytes \o rest)
    BY <1>7, <1>9, <1>11, <1>12, Zenon DEF Regrouped
  <1> QED
    BY <1>4, <1>5, <1>6, <1>13 DEF Spliced

\* A call that fails or returns keeps the invariant.
LEMMA FrameStepHolds ==
    ASSUME FrameIndInv, Frames!Next
    PROVE  FrameIndInv'
  <1>1. PICK n \in 1 .. Len(v2) : Frames!Push(n)
    BY DEF Frames!Next
  <1>2. PICK input, rest, bytes, total :
          /\ input = SubSeq(v2, 1, n) /\ rest = SubSeq(v2, n + 1, Len(v2))
          /\ bytes = v4 \o input /\ total = v3 \o v2
    OBVIOUS
  <1>3. /\ input \in Seq(Octets) /\ rest \in Seq(Octets) /\ bytes \in Seq(Octets)
        /\ (v3 \o input) \o rest = total
        /\ v3 \o input = Flat(v5) \o bytes
        /\ total = Flat(v5) \o (bytes \o rest)
        /\ total \in Seq(Octets)
    <2>1. Spliced(input, rest, bytes)
      BY <1>2, PushFinds
    <2> QED
      BY <1>2, <2>1, Zenon DEF Spliced
  <1>4. /\ v1' = v1 /\ v3' = v3 \o input /\ v2' = rest
        /\ Frames!Fails(input) \/ Frames!Returns(input)
    BY <1>1, <1>2 DEF Frames!Push
  <1>5. /\ v1 \in FrameKinds /\ v2 \in Seq(Octets) /\ v3 \in Seq(Octets)
        /\ v4 \in Seq(Octets) /\ v5 \in Seq(Seq(Octets)) /\ v3 = Flat(v5) \o v4
    BY DEF FrameIndInv, FrameTyped
  <1>6. PICK f \in Seq(Octets) : f = Flat(v5)
    BY <1>5, FlatIs
  <1>7. PICK p \in Nat, m \in Nat, q \in Nat :
          /\ p = Len(f) /\ m = Len(bytes) /\ q = p + m /\ p <= q
          /\ q <= Len(total) /\ Len(v3) - Len(v4) = p /\ Len(v3 \o input) = q
    <2>1. PICK p \in Nat, m \in Nat, r \in Nat, k \in Nat :
            p = Len(f) /\ m = Len(bytes) /\ r = Len(rest) /\ k = Len(v4)
      BY <1>3, <1>5, <1>6, LenProperties
    <2>2. Len(v3) = p + k
      BY <1>5, <1>6, <2>1, Joined
    <2>3. Len(v3 \o input) = p + m
      BY <1>3, <1>6, <2>1, Joined
    <2>4. bytes \o rest \in Seq(Octets) /\ Len(bytes \o rest) = m + r
      BY <1>3, <2>1, Joined
    <2>5. Len(total) = p + (m + r)
      BY <1>3, <1>6, <2>1, <2>4, Joined
    <2>6. /\ p + m \in Nat /\ p <= p + m /\ p + m <= p + (m + r) /\ (p + k) - k = p
      BY <2>1
    <2> QED
      BY <2>1, <2>2, <2>3, <2>5, <2>6
  <1>8. bytes = SubSeq(total, p + 1, q)
    <2>1. bytes \in Seq(Octets) /\ rest \in Seq(Octets)
      BY <1>3
    <2>2. SubSeq(f \o (bytes \o rest), Len(f) + 1, Len(f) + Len(bytes)) = bytes
      BY <2>1, Middle
    <2> QED
      BY <1>3, <1>6, <1>7, <2>2, Zenon
  <1>9. PICK found : found = Frames!Decode(bytes)
    OBVIOUS
  <1>10. Reached(bytes, v5, m + 1, found) /\ found.verdict # "more"
    BY <1>3, <1>5, <1>7, <1>9, DecodeReached
  <1>11. ASSUME NEW ends, GoodEnds(v1, total, ends)
         PROVE  OnTrack(ends, p, found)
    <2>1. p \in ends
      BY <1>2, <1>7, <1>11 DEF FrameIndInv
    <2> QED
      BY <1>3, <1>5, <1>7, <1>8, <1>9, <1>11, <2>1, DecodeOnTrack
  <1>12. v2' \in Seq(Octets) /\ v3' \in Seq(Octets) /\ v3' \o v2' = total
    <2>1. v3 \o input \in Seq(Octets)
      BY <1>3, <1>5, Joined
    <2> QED
      BY <1>3, <1>4, <2>1
  <1>13. CASE Frames!Fails(input)
    <2>1. found.verdict = "error" /\ v6' = TRUE /\ v4' = bytes /\ v5' = v5
      BY <1>2, <1>9, <1>13 DEF Frames!Fails
    <2>2. FrameTyped'
      BY <1>3, <1>4, <1>5, <1>12, <2>1 DEF FrameTyped
    <2>3. Flat(v5') \o v4' = v3'
      BY <1>3, <1>4, <2>1
    <2>4. ASSUME NEW ends, GoodEnds(v1', v3' \o v2', ends) PROVE FALSE
      <3>1. GoodEnds(v1, total, ends)
        BY <1>4, <1>12, <2>4
      <3> QED
        BY <1>11, <2>1, <3>1 DEF OnTrack
    <2> QED
      BY <2>1, <2>2, <2>3, <2>4 DEF FrameIndInv
  <1>14. CASE Frames!Returns(input)
    <2>1. /\ found.verdict # "error" /\ v6' = FALSE /\ v5' = v5 \o found.frames
          /\ v4' = Frames!Rest(bytes, found.consumed)
      BY <1>2, <1>9, <1>14 DEF Frames!Returns
    <2>2. /\ found.frames \in Seq(Seq(Octets)) /\ found.consumed \in 0 .. Len(bytes)
          /\ found.verdict = "break"
      BY <1>10, <2>1 DEF Reached, Points
    <2>3. PICK c \in Nat : c = found.consumed /\ c <= m
      <3>1. found.consumed \in 0 .. m
        BY <1>7, <2>2, Zenon
      <3> QED
        BY <3>1
    <2>4. v4' = SubSeq(bytes, c + 1, m)
      BY <1>7, <2>1, <2>3 DEF Frames!Rest
    <2>5. v4' \in Seq(Octets) /\ Len(v4') = m - c
      <3>1. bytes \in Seq(Octets) /\ c <= m /\ m <= Len(bytes)
        BY <1>3, <1>7, <2>3
      <3>2. PICK left : left = SubSeq(bytes, c + 1, m)
        OBVIOUS
      <3>3. left \in Seq(Octets) /\ Len(left) = m - c
        BY <3>1, <3>2, Piece
      <3> QED
        BY <2>4, <3>2, <3>3
    <2>6. v5' \in Seq(Seq(Octets))
      BY <1>5, <2>1, <2>2, Joined
    <2>7. FrameTyped'
      BY <1>4, <1>5, <1>12, <2>1, <2>5, <2>6 DEF FrameTyped
    <2>8. Flat(v5') \o v4' = v3'
      <3>1. PICK s : s = SubSeq(bytes, 1, c)
        OBVIOUS
      <3>2. s \in Seq(Octets)
        BY <1>3, <1>7, <2>3, <3>1, Prefix
      <3>3. Flat(v5') = f \o s
        BY <1>6, <1>10, <2>1, <2>3, <3>1 DEF Reached
      <3>4. s \o v4' = bytes
        <4>1. s \o v4' = SubSeq(bytes, 1, m)
          <5>1. bytes \in Seq(Octets) /\ c <= m /\ m <= Len(bytes)
            BY <1>3, <1>7, <2>3
          <5>2. SubSeq(bytes, 1, c) \o SubSeq(bytes, c + 1, m) = SubSeq(bytes, 1, m)
            BY <5>1, Adjacent
          <5> QED
            BY <2>4, <3>1, <5>2
        <4>2. SubSeq(bytes, 1, m) = bytes
          BY <1>3, <1>7, Whole
        <4> QED
          BY <4>1, <4>2
      <3>5. (f \o s) \o v4' = f \o (s \o v4')
        <4>1. Behind(Behind(f, s), v4') = Behind(f, Behind(s, v4'))
          BY <1>6, <2>5, <3>2, Three
        <4> QED
          BY <4>1, Zenon DEF Behind
      <3> QED
        BY <1>3, <1>4, <1>6, <3>3, <3>4, <3>5
    <2>9. Settled(v1, v4')
      <3>1. PICK left : left = v4'
        OBVIOUS
      <3>2. Frames!Incomplete(left)
        BY <1>10, <2>1, <2>2, <3>1 DEF Reached
      <3> QED
        BY <1>5, <2>5, <3>1, <3>2, SettledThen
    <2>10. Len(v3') - Len(v4') = p + c
      <3>1. Len(v3') = p + m
        BY <1>4, <1>7
      <3>2. (p + m) - (m - c) = p + c
        OBVIOUS
      <3> QED
        BY <2>5, <3>1, <3>2
    <2>11. ASSUME NEW ends, GoodEnds(v1', v3' \o v2', ends)
           PROVE  ~v6' /\ Len(v3') - Len(v4') \in ends
      <3>1. GoodEnds(v1, total, ends)
        BY <1>4, <1>12, <2>11
      <3> QED
        BY <1>11, <2>1, <2>3, <2>10, <3>1 DEF OnTrack
    <2> QED
      BY <1>4, <2>7, <2>8, <2>9, <2>11 DEF FrameIndInv
  <1> QED
    BY <1>4, <1>13, <1>14

\* Every step of this part keeps it, and every step of another one.
LEMMA FrameKept ==
    ASSUME FrameIndInv, Frames!Next \/ UNCHANGED <<v1, v2, v3, v4, v5, v6>>
    PROVE  FrameIndInv'
  <1>1. CASE UNCHANGED <<v1, v2, v3, v4, v5, v6>>
    <2>1. v1' = v1 /\ v2' = v2 /\ v3' = v3 /\ v4' = v4 /\ v5' = v5 /\ v6' = v6
      BY <1>1
    <2> QED
      BY <2>1 DEF FrameIndInv, FrameTyped
  <1> QED
    BY <1>1, FrameStepHolds

\* The three promises follow.
LEMMA FramesAreExact ==
    ASSUME FrameIndInv
    PROVE  Frames!Lossless /\ Frames!Prompt /\ Frames!AcceptsGoodStreams
  <1>1. /\ v1 \in FrameKinds /\ v2 \in Seq(Octets) /\ v3 \in Seq(Octets)
        /\ v4 \in Seq(Octets) /\ v5 \in Seq(Seq(Octets)) /\ v3 = Flat(v5) \o v4
    BY DEF FrameIndInv, FrameTyped
  <1>2. Frames!FlattenSeq(v5) = Flat(v5)
    BY Zenon DEF Frames!FlattenSeq, Flat, Flattening
  <1>3. Frames!Lossless
    BY <1>1, <1>2 DEF Frames!Lossless
  <1>4. HeaderOf(v1) = Frames!HeaderSize
    BY Zenon DEF HeaderOf, Frames!HeaderSize
  <1>5. Frames!Prompt
    BY <1>4, Zenon DEF FrameIndInv, Settled, Frames!Prompt
  <1>6. ASSUME v2 = << >>, Frames!GoodFrames(v3)
        PROVE  ~v6 /\ v4 = << >>
    <2>1. PICK cuts \in SUBSET (1 .. (Len(v3) - 1)) :
            \A a, b \in cuts \cup {0, Len(v3)} :
               (a < b /\ \A c \in cuts \cup {0, Len(v3)} : ~(a < c /\ c < b)) =>
                  Frames!WellFormedFrame(SubSeq(v3, a + 1, b))
      BY <1>6 DEF Frames!GoodFrames
    <2>2. PICK ends : ends = cuts \cup {0, Len(v3)}
      OBVIOUS
    <2>3. PICK l \in Nat : l = Len(v3)
      BY <1>1, LenProperties
    <2>4. ends \subseteq 0 .. l /\ 0 \in ends /\ l \in ends
      <3>1. cuts \subseteq 1 .. (l - 1)
        BY <2>3
      <3>2. 1 .. (l - 1) \subseteq 0 .. l /\ {0, l} \subseteq 0 .. l
        OBVIOUS
      <3>3. ends = cuts \cup {0, l}
        BY <2>2, <2>3
      <3> QED
        BY <3>1, <3>2, <3>3, Zenon
    <2>5. \A a, b \in ends : (a < b /\ \A c \in ends : ~(a < c /\ c < b)) =>
             FrameOf(v1, SubSeq(v3, a + 1, b))
      BY <2>1, <2>2, FrameOfIs
    <2>6. GoodEnds(v1, v3, ends)
      BY <2>3, <2>4, <2>5 DEF GoodEnds
    <2>7. v3 \o v2 = v3
      BY <1>1, <1>6, ConcatEmptySeq
    <2>8. ~v6 /\ Len(v3) - Len(v4) \in ends
      BY <2>6, <2>7 DEF FrameIndInv
    <2>9. PICK p \in Nat, k \in Nat : /\ p = l - k /\ p <= l /\ k = Len(v4)
                                      /\ v4 = SubSeq(v3, p + 1, l)
      <3>1. PICK f \in Seq(Octets) : f = Flat(v5)
        BY <1>1, FlatIs
      <3>2. PICK m \in Nat, k \in Nat : m = Len(f) /\ k = Len(v4)
        BY <1>1, <3>1, LenProperties
      <3>3. l = m + k
        BY <1>1, <2>3, <3>1, <3>2, Joined
      <3>4. << >> \in Seq(Octets) /\ v4 \o << >> = v4
        BY <1>1, ConcatEmptySeq, EmptySeq
      <3>5. SubSeq(f \o (v4 \o << >>), Len(f) + 1, Len(f) + Len(v4)) = v4
        BY <1>1, <3>1, <3>4, Middle
      <3>6. SubSeq(v3, m + 1, l) = v4
        BY <1>1, <3>1, <3>2, <3>3, <3>4, <3>5
      <3>7. m = l - k /\ m <= l
        BY <3>2, <3>3
      <3> QED
        BY <3>2, <3>6, <3>7
    <2>10. CASE p < l
      <3>1. p \in ends
        BY <2>3, <2>8, <2>9
      <3>2. Len(v4) >= Frames!HeaderSize /\ Len(v4) >= Frames!FrameLength(v4)
        <4>1. PICK total, left : total = v3 /\ left = v4
          OBVIOUS
        <4>2. /\ total \in Seq(Octets) /\ GoodEnds(v1, total, ends) /\ l = Len(total)
              /\ l <= Len(total) /\ left = SubSeq(total, p + 1, l)
          <5>1. total \in Seq(Octets) /\ GoodEnds(v1, total, ends)
            BY <1>1, <2>6, <4>1
          <5>2. l = Len(total) /\ l <= l
            BY <2>3, <4>1
          <5>3. left = SubSeq(total, p + 1, l)
            BY <2>9, <4>1, Zenon
          <5> QED
            BY <5>1, <5>2, <5>3
        <4>3. Len(left) >= Frames!HeaderSize /\ Len(left) >= Frames!FrameLength(left)
          BY <1>1, <2>10, <3>1, <4>2, GoodTurn
        <4> QED
          BY <4>1, <4>3
      <3>3. PICK n \in Nat : n = Frames!FrameLength(v4)
        BY <1>1, <3>2, LengthIs
      <3>4. Len(v4) < Frames!FrameLength(v4)
        BY <1>5, <2>8, <3>2 DEF Frames!Prompt, Frames!FrameLength
      <3> QED
        BY <2>9, <3>2, <3>3, <3>4
    <2>11. CASE ~(p < l)
      <3>1. Len(v4) = 0
        BY <2>9, <2>11
      <3> QED
        BY <1>1, <2>8, <3>1, EmptySeq
    <2> QED
      BY <2>8, <2>10, <2>11
  <1>7. Frames!AcceptsGoodStreams
    BY <1>6 DEF Frames!AcceptsGoodStreams
  <1> QED
    BY <1>3, <1>5, <1>7

-----------------------------------------------------------------------------
(* Names in a server_name extension.                                       *)

\* The last place of a set before a number, and the first one behind it.
LEMMA Neighbours ==
    ASSUME NEW n \in Nat, NEW D \in SUBSET (0 .. n), 0 \in D, n \in D, NEW i \in Nat
    PROVE  /\ 0 < i => \E a \in D : a < i /\ \A d \in D : d < i => d <= a
           /\ i < n => \E b \in D : i < b /\ \A d \in D : i < d => b <= d
  <1>1. ASSUME 0 < i
        PROVE  \E a \in D : a < i /\ \A d \in D : d < i => d <= a
    <2> DEFINE L == {d \in D : d < i}
    <2>1. L \in SUBSET (0 .. n) /\ 0 \in L
      BY <1>1
    <2>2. PICK a \in L : \A d \in L : d <= a
      <3> HIDE DEF L
      <3> QED
        BY <2>1, GreatestExists
    <2> QED
      BY <2>2
  <1>2. ASSUME i < n
        PROVE  \E b \in D : i < b /\ \A d \in D : i < d => b <= d
    <2> DEFINE G == {d \in D : i < d}
    <2>1. G \subseteq 0 .. n /\ n \in G
      BY <1>2
    <2>2. 0 .. n \subseteq Nat
      OBVIOUS
    <2>3. PICK b \in G : \A d \in G : b <= d
      <3> HIDE DEF G
      <3>1. G \in SUBSET Nat
        BY <2>1, <2>2, Zenon
      <3> QED
        BY <2>1, <3>1, LeastExists
    <2> QED
      BY <2>3
  <1> QED
    BY <1>1, <1>2

Places(D, n) == D \in SUBSET (0 .. n) /\ 0 \in D /\ n \in D

\* Of such a set a place that is not the last has another one next to it.
LEMMA Follower ==
    ASSUME NEW n \in Nat, NEW D, Places(D, n), NEW a \in D, a < n
    PROVE  \E b \in D : a < b /\ \A c \in D : ~(a < c /\ c < b)
  <1> DEFINE G == {d \in D : a < d}
  <1>1. G \in SUBSET Nat /\ n \in G
    <2>1. G \subseteq 0 .. n /\ n \in G
      BY DEF Places
    <2>2. 0 .. n \subseteq Nat
      OBVIOUS
    <2> HIDE DEF G
    <2> QED
      BY <2>1, <2>2, Zenon
  <1>2. PICK b \in G : \A d \in G : b <= d
    <2> HIDE DEF G
    <2> QED
      BY <1>1, LeastExists
  <1>3. b \in D /\ a < b /\ \A c \in D : ~(a < c /\ c < b)
    BY <1>1, <1>2
  <1> QED
    BY <1>3

\* The dots of a name and its two ends.
DotsOf(name, n) == {0, n + 1} \cup {i \in 1 .. n : name[i] = 0}

\* What is_valid_server_name asks of a name.
LEMMA NameMeans ==
    ASSUME NEW name \in Seq(Nat), NEW n \in Nat, n = Len(name), NEW D,
           D = DotsOf(name, n)
    PROVE  Vectors!IsValidName(name) <=>
             /\ n # 0 /\ n <= MaxName
             /\ \A i \in 1 .. n : name[i] \in {0, 1, 2}
             /\ \A a, b \in D :
                   (a < b /\ \A i \in D : ~(a < i /\ i < b)) =>
                      /\ a + 1 < b
                      /\ b - a - 1 <= MaxLabel
                      /\ name[a + 1] # 1 /\ name[b - 1] # 1
  <1>1. name # << >> <=> n # 0
    BY EmptySeq
  <1>2. D = {0, Len(name) + 1} \cup {i \in 1 .. Len(name) : name[i] = Vectors!Dot}
    BY DEF DotsOf, Vectors!Dot
  <1>3. Vectors!IsValidName(name) <=>
             /\ name # << >> /\ Len(name) <= MaxName
             /\ \A i \in 1 .. Len(name) :
                   name[i] \in {Vectors!Dot, Vectors!Hyphen, Vectors!Letter}
             /\ \A a, b \in D :
                   (a < b /\ \A i \in D : ~(a < i /\ i < b)) =>
                      /\ a + 1 < b
                      /\ b - a - 1 <= MaxLabel
                      /\ name[a + 1] # Vectors!Hyphen /\ name[b - 1] # Vectors!Hyphen
    BY <1>2, Zenon DEF Vectors!IsValidName
  <1> QED
    BY <1>1, <1>3, Zenon DEF Vectors!Dot, Vectors!Hyphen, Vectors!Letter

\* A name that passes has the shape of one.
LEMMA ValidNameShape ==
    ASSUME NEW name \in Seq(Nat), Vectors!IsValidName(name)
    PROVE  Vectors!NameShape(name)
  <1>1. PICK n \in Nat, m \in Nat : n = Len(name) /\ m = n + 1
    <2>1. Len(name) \in Nat
      BY LenProperties
    <2>2. Len(name) + 1 \in Nat
      BY <2>1
    <2> QED
      BY <2>1, <2>2
  <1>2. PICK D : D = DotsOf(name, n)
    OBVIOUS
  <1>3. /\ n # 0 /\ n <= MaxName
        /\ \A i \in 1 .. n : name[i] \in {0, 1, 2}
        /\ \A a, b \in D :
              (a < b /\ \A i \in D : ~(a < i /\ i < b)) =>
                 /\ a + 1 < b
                 /\ b - a - 1 <= MaxLabel
                 /\ name[a + 1] # 1 /\ name[b - 1] # 1
    BY <1>1, <1>2, NameMeans
  <1>4. /\ D \in SUBSET (0 .. m) /\ 0 \in D /\ m \in D
        /\ \A d \in D : d \in Nat /\ d <= m
        /\ \A i \in 1 .. n : i \in D <=> name[i] = 0
    BY <1>1, <1>2 DEF DotsOf
  <1>5. \A i \in 1 .. n : name[i] \in 0 .. 2
    BY <1>3
  <1>6. MaxLabel \in Nat /\ MaxName \in Nat
    BY VectorAssumptions DEF Vectors!Assumptions
  <1>7. ASSUME NEW i \in 1 .. n
        PROVE  \E a, b \in D :
                 /\ a < i /\ \A d \in D : d < i => d <= a
                 /\ i < b /\ \A d \in D : i < d => b <= d
    <2>1. i \in Nat /\ 0 < i /\ i < m
      BY <1>1, <1>7
    <2>2. D \in SUBSET (0 .. m) /\ 0 \in D /\ m \in D
      BY <1>4
    <2>3. PICK a \in D : a < i /\ \A d \in D : d < i => d <= a
      BY <2>1, <2>2, Neighbours
    <2>4. PICK b \in D : i < b /\ \A d \in D : i < d => b <= d
      BY <2>1, <2>2, Neighbours
    <2> QED
      BY <2>3, <2>4
  <1>8. ASSUME NEW i \in 1 .. n, name[i] = 0
        PROVE  1 < i /\ i < n /\ name[i - 1] = 2 /\ name[i + 1] = 2
    <2>1. PICK a, b \in D : /\ a < i /\ \A d \in D : d < i => d <= a
                            /\ i < b /\ \A d \in D : i < d => b <= d
      BY <1>7
    <2>2. a \in Nat /\ b \in Nat /\ b <= m /\ i \in D
      BY <1>4, <1>8
    <2>3. \A d \in D : ~(a < d /\ d < i)
      BY <1>4, <2>1, <2>2
    <2>4. a + 1 < i /\ name[i - 1] # 1
      BY <1>3, <2>1, <2>2, <2>3
    <2>5. \A d \in D : ~(i < d /\ d < b)
      BY <1>4, <2>1, <2>2
    <2>6. i + 1 < b /\ name[i + 1] # 1
      BY <1>3, <2>1, <2>2, <2>5
    <2>7. 1 < i /\ i < n /\ i - 1 \in 1 .. n /\ i + 1 \in 1 .. n
      <3>1. i + 1 < n + 1
        BY <1>1, <2>2, <2>6
      <3>2. 1 < i
        BY <2>2, <2>4
      <3> QED
        BY <3>1, <3>2
    <2>8. name[i - 1] # 0
      <3>1. i - 1 \notin D
        BY <2>2, <2>3, <2>4
      <3> QED
        BY <1>4, <2>7, <3>1
    <2>9. name[i + 1] # 0
      <3>1. i + 1 \notin D
        BY <2>2, <2>5, <2>6
      <3> QED
        BY <1>4, <2>7, <3>1
    <2>10. name[i - 1] \in 0 .. 2 /\ name[i + 1] \in 0 .. 2
      BY <1>5, <2>7
    <2> QED
      BY <2>4, <2>6, <2>7, <2>8, <2>9, <2>10
  <1>9. ASSUME NEW i \in 1 .. n, name[i] = 1
        PROVE  1 < i /\ i < n /\ name[i - 1] # 0 /\ name[i + 1] # 0
    <2>1. PICK a, b \in D : /\ a < i /\ \A d \in D : d < i => d <= a
                            /\ i < b /\ \A d \in D : i < d => b <= d
      BY <1>7
    <2>2. a \in Nat /\ b \in Nat /\ b <= m /\ i \notin D
      BY <1>4, <1>9
    <2>3. \A d \in D : ~(a < d /\ d < b)
      <3> SUFFICES ASSUME NEW d \in D, a < d, d < b PROVE FALSE
        OBVIOUS
      <3>1. d \in Nat /\ d # i
        BY <1>4, <2>2
      <3> QED
        BY <2>1, <2>2, <3>1
    <2>4. name[a + 1] # 1 /\ name[b - 1] # 1
      BY <1>3, <2>1, <2>2, <2>3
    <2>5. a + 1 # i /\ b - 1 # i
      BY <1>9, <2>4
    <2>6. a < i - 1 /\ i + 1 < b
      BY <2>1, <2>2, <2>5
    <2>7. 1 < i /\ i < n /\ i - 1 \in 1 .. n /\ i + 1 \in 1 .. n
      BY <1>1, <2>2, <2>6
    <2>8. i - 1 \notin D /\ i + 1 \notin D
      BY <2>1, <2>2, <2>3, <2>6
    <2> QED
      BY <1>4, <2>7, <2>8
  <1>10. ASSUME NEW i \in 1 .. (n - MaxLabel), \A j \in i .. (i + MaxLabel) : name[j] # 0
         PROVE  FALSE
    <2>1. i \in 1 .. n /\ i + MaxLabel <= n /\ i \in i .. (i + MaxLabel)
      BY <1>6
    <2>2. PICK a, b \in D : /\ a < i /\ \A d \in D : d < i => d <= a
                            /\ i < b /\ \A d \in D : i < d => b <= d
      BY <1>7, <2>1
    <2>3. a \in Nat /\ b \in Nat /\ b <= m /\ i \notin D
      BY <1>4, <1>10, <2>1
    <2>4. \A d \in D : ~(a < d /\ d < b)
      <3> SUFFICES ASSUME NEW d \in D, a < d, d < b PROVE FALSE
        OBVIOUS
      <3>1. d \in Nat /\ d # i
        BY <1>4, <2>3
      <3> QED
        BY <2>1, <2>2, <2>3, <3>1
    <2>5. b > i + MaxLabel
      <3> SUFFICES ASSUME ~(b > i + MaxLabel) PROVE FALSE
        OBVIOUS
      <3>1. b \in i .. (i + MaxLabel) /\ b \in 1 .. n
        BY <1>6, <2>1, <2>2, <2>3
      <3> QED
        BY <1>4, <1>10, <3>1
    <2>6. b - a - 1 <= MaxLabel
      BY <1>3, <2>1, <2>2, <2>3, <2>4
    <2> QED
      BY <1>6, <2>1, <2>2, <2>3, <2>5, <2>6
  <1>11. \A i \in 1 .. n :
           \/ name[i] = 2
           \/ /\ name[i] \in {0, 1} /\ 1 < i /\ i < n
              /\ name[i] = 0 => name[i - 1] = 2 /\ name[i + 1] = 2
              /\ name[i] = 1 => name[i - 1] # 0 /\ name[i + 1] # 0
    <2> SUFFICES ASSUME NEW i \in 1 .. n, name[i] # 2
                 PROVE  /\ name[i] \in {0, 1} /\ 1 < i /\ i < n
                        /\ name[i] = 0 => name[i - 1] = 2 /\ name[i + 1] = 2
                        /\ name[i] = 1 => name[i - 1] # 0 /\ name[i + 1] # 0
      OBVIOUS
    <2>1. name[i] = 0 \/ name[i] = 1
      BY <1>5
    <2> QED
      BY <1>8, <1>9, <2>1
  <1>12. name # << >>
    BY <1>1, <1>3, EmptySeq
  <1>13. \A i \in 1 .. (n - MaxLabel) : \E j \in i .. (i + MaxLabel) : name[j] = 0
    BY <1>10
  <1> QED
    BY <1>1, <1>3, <1>11, <1>12, <1>13, Zenon
       DEF Vectors!NameShape, Vectors!Dot, Vectors!Hyphen, Vectors!Letter

\* And the other way round.
LEMMA NameShapeValid ==
    ASSUME NEW name \in Seq(Nat), Vectors!NameShape(name)
    PROVE  Vectors!IsValidName(name)
  <1>1. PICK n \in Nat, m \in Nat : n = Len(name) /\ m = n + 1
    <2>1. Len(name) \in Nat
      BY LenProperties
    <2>2. Len(name) + 1 \in Nat
      BY <2>1
    <2> QED
      BY <2>1, <2>2
  <1>2. PICK D : D = DotsOf(name, n)
    OBVIOUS
  <1>3. /\ name # << >> /\ n <= MaxName
        /\ \A i \in 1 .. n :
             \/ name[i] = 2
             \/ /\ name[i] \in {0, 1} /\ 1 < i /\ i < n
                /\ name[i] = 0 => name[i - 1] = 2 /\ name[i + 1] = 2
                /\ name[i] = 1 => name[i - 1] # 0 /\ name[i + 1] # 0
        /\ \A i \in 1 .. (n - MaxLabel) : \E j \in i .. (i + MaxLabel) : name[j] = 0
    BY <1>1, Zenon DEF Vectors!NameShape, Vectors!Dot, Vectors!Hyphen, Vectors!Letter
  <1>4. /\ 0 \in D /\ m \in D
        /\ \A d \in D : d \in Nat /\ d <= m
        /\ \A i \in 1 .. n : i \in D <=> name[i] = 0
    BY <1>1, <1>2 DEF DotsOf
  <1>5. n # 0
    BY <1>1, <1>3, EmptySeq
  <1>6. MaxLabel \in Nat
    BY VectorAssumptions DEF Vectors!Assumptions
  <1>7. ASSUME NEW a \in D, NEW b \in D, a < b, \A i \in D : ~(a < i /\ i < b)
        PROVE  /\ a + 1 < b /\ b - a - 1 <= MaxLabel
               /\ name[a + 1] # 1 /\ name[b - 1] # 1
    <2>1. a \in Nat /\ b \in Nat /\ b <= m /\ a <= n
      BY <1>1, <1>4, <1>7
    <2>2. a \in 1 .. n => name[a] = 0 /\ 1 < a /\ a < n /\ name[a + 1] = 2
      BY <1>3, <1>4
    <2>3. b \in 1 .. n => name[b] = 0 /\ 1 < b /\ b < n /\ name[b - 1] = 2
      BY <1>3, <1>4
    <2>4. a + 1 < b
      <3> SUFFICES ASSUME b = a + 1 PROVE FALSE
        BY <1>7, <2>1
      <3>1. CASE a = 0
        <4>1. b = 1 /\ b \in 1 .. n
          BY <1>5, <3>1
        <4> QED
          BY <2>3, <4>1
      <3>2. CASE a # 0
        <4>1. a \in 1 .. n
          BY <2>1, <3>2
        <4>2. b \in 1 .. n /\ name[b] = 2
          BY <2>2, <4>1
        <4> QED
          BY <2>3, <4>2
      <3> QED
        BY <3>1, <3>2
    <2>5. b - a - 1 <= MaxLabel
      <3> SUFFICES ASSUME ~(b - a - 1 <= MaxLabel) PROVE FALSE
        OBVIOUS
      <3>1. PICK i \in Nat : i = a + 1
        BY <2>1
      <3>2. i \in 1 .. (n - MaxLabel) /\ i + MaxLabel < b
        BY <1>1, <1>6, <2>1, <3>1
      <3>3. PICK j \in i .. (i + MaxLabel) : name[j] = 0
        BY <1>3, <3>2
      <3>4. j \in Nat /\ j \in 1 .. n /\ a < j /\ j < b
        BY <1>1, <1>6, <2>1, <3>1, <3>2
      <3>5. j \in D
        BY <1>4, <3>3, <3>4
      <3> QED
        BY <1>7, <3>4, <3>5
    <2>6. name[a + 1] # 1
      <3> SUFFICES ASSUME name[a + 1] = 1 PROVE FALSE
        OBVIOUS
      <3>1. PICK i \in 1 .. n : i = a + 1
        <4>1. a + 1 \in 1 .. n
          BY <1>1, <2>1, <2>4
        <4> QED
          BY <4>1
      <3>2. 1 < i
        BY <1>3, <3>1
      <3>3. a \in 1 .. n
        BY <2>1, <3>1, <3>2
      <3> QED
        BY <2>2, <3>3
    <2>7. name[b - 1] # 1
      <3> SUFFICES ASSUME name[b - 1] = 1 PROVE FALSE
        OBVIOUS
      <3>1. PICK i \in 1 .. n : i = b - 1
        <4>1. b - 1 \in 1 .. n
          BY <1>1, <2>1, <2>4
        <4> QED
          BY <4>1
      <3>2. i < n
        BY <1>3, <3>1
      <3>3. b \in 1 .. n
        BY <2>1, <3>1, <3>2
      <3> QED
        BY <2>3, <3>3
    <2> QED
      BY <2>4, <2>5, <2>6, <2>7
  <1>8. \A i \in 1 .. n : name[i] \in {0, 1, 2}
    BY <1>3
  <1> QED
    BY <1>1, <1>2, <1>3, <1>5, <1>7, <1>8, NameMeans

-----------------------------------------------------------------------------
(* Lists cut into entries.                                                 *)

\* HelloVectors says these of its variables; here they are said of values.
TagOf(k) == IF k = "alpn" THEN 0 ELSE 1

EntryOf(k, p) ==
    /\ Len(p) > TagOf(k) /\ Len(p) = TagOf(k) + 1 + p[TagOf(k) + 1]
    /\ k \in {"alpn", "key_share"} => Len(p) > TagOf(k) + 1
    /\ (k = "server_name" /\ p[1] = 0) =>
          Vectors!NameShape(SubSeq(p, TagOf(k) + 2, Len(p)))

\* The first n bytes of a list cut at E: every piece is an entry, and no tag
\* is repeated.
Cut(k, B, n, E) ==
    /\ E \in SUBSET (0 .. n) /\ 0 \in E /\ n \in E
    /\ \A a, b \in E : (a < b /\ \A c \in E : ~(a < c /\ c < b)) =>
          EntryOf(k, SubSeq(B, a + 1, b))
    /\ k # "alpn" =>
          \A a, b \in E : a < n /\ b < n /\ B[a + 1] = B[b + 1] => a = b

\* A list that is well formed.
GoodList(k, d, B) ==
    /\ d = Len(B)
    /\ B = << >> => k = "key_share"
    /\ k = "values" => Len(B) % 2 = 0
    /\ k # "values" => \E E : Cut(k, B, Len(B), E)

EntryKinds == {"key_share", "alpn", "server_name"}

IsList(B) == B \in Seq(Nat)

\* The entry of L bytes at a place of a list.
EntryAt(k, B, o, L) ==
    /\ o + TagOf(k) + 1 <= Len(B)
    /\ L = TagOf(k) + 1 + B[o + TagOf(k) + 1]
    /\ o + L <= Len(B)
    /\ EntryOf(k, SubSeq(B, o + 1, o + L))

\* Behind an end that is not the last there is an entry, up to the next end.
LEMMA NextEnd ==
    ASSUME NEW k \in EntryKinds, NEW B \in Seq(Nat), NEW l \in Nat, l = Len(B),
           NEW E, Cut(k, B, l, E), NEW o \in E, o < l
    PROVE  \E L \in Nat : L > 0 /\ o + L \in E /\ EntryAt(k, B, o, L)
  <1>1. PICK t \in 0 .. 1 : t = TagOf(k)
    BY DEF TagOf
  <1>2. E \in SUBSET (0 .. l) /\ 0 \in E /\ l \in E /\ o \in Nat
    BY DEF Cut
  <1>3. PICK b \in E : o < b /\ \A c \in E : ~(o < c /\ c < b)
    <2>1. Places(E, l) /\ o < l
      BY <1>2, Zenon DEF Places
    <2> QED
      BY <2>1, Follower
  <1>4. b \in Nat /\ b <= l
    BY <1>2
  <1>5. PICK e : e = SubSeq(B, o + 1, b)
    OBVIOUS
  <1>6. EntryOf(k, e)
    BY <1>3, <1>5 DEF Cut
  <1>7. Len(e) = b - o /\ \A i \in 1 .. b - o : e[i] = B[o + i]
    <2>1. o <= b /\ b <= Len(B) /\ o \in Nat /\ b \in Nat
      BY <1>2, <1>3, <1>4
    <2> QED
      BY <1>5, <2>1, Piece
  <1>8. Len(e) > t /\ Len(e) = t + 1 + e[t + 1]
    BY <1>1, <1>6 DEF EntryOf
  <1>9. PICK L \in Nat : L = b - o /\ L > 0 /\ o + L = b
    <2>1. b - o \in Nat /\ b - o > 0 /\ o + (b - o) = b
      BY <1>2, <1>3, <1>4
    <2> QED
      BY <2>1
  <1>10. t + 1 \in 1 .. b - o /\ o + (t + 1) = o + t + 1 /\ o + t + 1 <= l
    BY <1>2, <1>4, <1>7, <1>8, <1>9
  <1>11. L = t + 1 + B[o + t + 1]
    BY <1>7, <1>8, <1>9, <1>10
  <1>12. EntryOf(k, SubSeq(B, o + 1, o + L))
    BY <1>5, <1>6, <1>9
  <1>13. EntryAt(k, B, o, L)
    BY <1>1, <1>4, <1>9, <1>10, <1>11, <1>12 DEF EntryAt
  <1> QED
    BY <1>3, <1>9, <1>13

\* What the loop knows: how the bytes read so far were cut, that the entries
\* have the tags found there, and that there is no other way to cut them.
Progress(k, B, o, s, M) ==
    /\ Cut(k, B, o, M)
    /\ k # "alpn" =>
          /\ \A i \in 1 .. Len(s) : \E a \in M : a < o /\ s[i][1] = B[a + 1]
          /\ \A a \in M : a < o => \E i \in 1 .. Len(s) : s[i][1] = B[a + 1]
    /\ \A E : Cut(k, B, Len(B), E) => M \subseteq E

\* Before the first entry.
LEMMA NoProgress ==
    ASSUME NEW k, NEW B
    PROVE  Progress(k, B, 0, << >>, {0})
  <1>1. Cut(k, B, 0, {0})
    BY DEF Cut
  <1>2. Len(<< >>) = 0 /\ \A a \in {0} : ~(a < 0)
    OBVIOUS
  <1>3. \A i \in 1 .. 0 : FALSE
    OBVIOUS
  <1> QED
    BY <1>1, <1>2, <1>3 DEF Progress, Cut

\* One entry further.
LEMMA OneEntry ==
    ASSUME NEW k \in EntryKinds, NEW B \in Seq(Nat), NEW l \in Nat, l = Len(B),
           NEW o \in Nat, NEW s \in Seq(Seq(Nat)), NEW M, Progress(k, B, o, s, M),
           o < l, NEW L \in Nat, EntryAt(k, B, o, L), L > 0,
           NEW e \in Seq(Nat), e = SubSeq(B, o + 1, o + L),
           k # "alpn" => \A i \in 1 .. Len(s) : s[i][1] # e[1]
    PROVE  Progress(k, B, o + L, Append(s, e), M \cup {o + L})
  <1>1. PICK t \in 0 .. 1 : t = TagOf(k)
    BY DEF TagOf
  <1>2. PICK q \in Nat : q = o + L /\ o < q /\ q <= l
    <2>1. o + L \in Nat /\ o < o + L
      OBVIOUS
    <2>2. o + L <= l
      BY DEF EntryAt
    <2> QED
      BY <2>1, <2>2
  <1>3. PICK N : N = M \cup {q}
    OBVIOUS
  <1>4. /\ M \in SUBSET (0 .. o) /\ 0 \in M /\ o \in M
        /\ \A a, b \in M : (a < b /\ \A c \in M : ~(a < c /\ c < b)) =>
              EntryOf(k, SubSeq(B, a + 1, b))
        /\ k # "alpn" =>
              \A a, b \in M : a < o /\ b < o /\ B[a + 1] = B[b + 1] => a = b
    BY DEF Progress, Cut
  <1>5. \A a \in M : a \in Nat /\ a <= o
    BY <1>4
  <1>6. \A a \in N : a \in M \/ a = q
    BY <1>3
  <1>7. N \in SUBSET (0 .. q) /\ 0 \in N /\ q \in N
    <2>1. ASSUME NEW a \in N PROVE a \in 0 .. q
      <3>1. a = q \/ (a \in Nat /\ a <= o)
        BY <1>5, <1>6
      <3>2. o \in Nat /\ q \in Nat /\ o < q
        BY <1>2
      <3> QED
        BY <3>1, <3>2
    <2> QED
      BY <1>3, <1>4, <2>1
  <1>8. ASSUME NEW a \in N, NEW b \in N, a < b, \A c \in N : ~(a < c /\ c < b)
        PROVE  EntryOf(k, SubSeq(B, a + 1, b))
    <2>1. a \in Nat /\ b \in Nat /\ b <= q
      BY <1>7
    <2>2. CASE b = q
      <3>1. a \in M
        BY <1>6, <1>8, <2>1, <2>2
      <3>2. ~(a < o /\ o < b)
        BY <1>3, <1>4, <1>8
      <3>3. a = o
        BY <1>2, <1>5, <2>2, <3>1, <3>2
      <3>4. EntryOf(k, SubSeq(B, o + 1, q))
        BY <1>2 DEF EntryAt
      <3> QED
        BY <2>2, <3>3, <3>4
    <2>3. CASE b # q
      <3>1. b \in M /\ a # q
        BY <1>6, <1>8, <2>1, <2>3
      <3>2. a \in M
        BY <1>6, <3>1
      <3>3. \A c \in M : ~(a < c /\ c < b)
        BY <1>3, <1>8
      <3> QED
        BY <1>4, <1>8, <3>1, <3>2, <3>3
    <2> QED
      BY <2>2, <2>3
  <1>9. e[1] = B[o + 1]
    <2>1. L = q - o /\ o <= q /\ q <= Len(B)
      BY <1>2
    <2>2. \A i \in 1 .. q - o : SubSeq(B, o + 1, q)[i] = B[o + i]
      BY <2>1, Piece
    <2>3. 1 \in 1 .. q - o
      BY <1>2
    <2> QED
      BY <1>2, <2>2, <2>3
  <1>10. PICK n \in Nat, m \in Nat : n = Len(s) /\ m = n + 1
    <2>1. Len(s) \in Nat
      BY LenProperties
    <2>2. Len(s) + 1 \in Nat
      BY <2>1
    <2> QED
      BY <2>1, <2>2
  <1>11. PICK u : u = Append(s, e)
    OBVIOUS
  <1>12. Len(u) = m /\ u[m] = e /\ \A i \in 1 .. n : u[i] = s[i]
    <2>1. PICK d, S : d = e /\ S = Seq(Nat)
      OBVIOUS
    <2>2. s \in Seq(S) /\ d \in S
      BY <2>1, Zenon
    <2>3. /\ Len(Append(s, d)) = m /\ Append(s, d)[m] = d
          /\ \A i \in 1 .. n : Append(s, d)[i] = s[i]
      BY <1>10, <2>2, OneBehind
    <2> QED
      BY <1>11, <2>1, <2>3, Zenon
  <1>13. ASSUME k # "alpn"
         PROVE  /\ \A i \in 1 .. n : \E a \in M : a < o /\ s[i][1] = B[a + 1]
                /\ \A a \in M : a < o => \E i \in 1 .. n : s[i][1] = B[a + 1]
                /\ \A i \in 1 .. n : s[i][1] # B[o + 1]
    BY <1>9, <1>10, <1>13 DEF Progress
  <1>14. ASSUME k # "alpn", NEW a \in N, NEW b \in N, a < q, b < q, B[a + 1] = B[b + 1]
         PROVE  a = b
    <2>1. a \in M /\ b \in M /\ a \in Nat /\ b \in Nat /\ a <= o /\ b <= o
      <3>1. q \in Nat /\ a \in Nat /\ b \in Nat /\ a < q /\ b < q
        BY <1>2, <1>7, <1>14
      <3>2. a # q /\ b # q
        BY <3>1
      <3>3. a \in M /\ b \in M
        BY <1>6, <3>2
      <3> QED
        BY <1>5, <3>3
    <2>2. \A c \in M : c < o => B[c + 1] # B[o + 1]
      BY <1>13, <1>14
    <2>3. CASE a < o /\ b < o
      BY <1>4, <1>14, <2>1, <2>3
    <2>4. CASE a = o
      <3>1. ~(b < o)
        BY <1>14, <2>1, <2>2, <2>4
      <3> QED
        BY <2>1, <2>4, <3>1
    <2>5. CASE b = o
      <3>1. ~(a < o)
        BY <1>14, <2>1, <2>2, <2>5
      <3> QED
        BY <2>1, <2>5, <3>1
    <2>6. (a < o \/ a = o) /\ (b < o \/ b = o)
      <3>1. a \in Nat /\ b \in Nat /\ a <= o /\ b <= o /\ o \in Nat
        BY <2>1
      <3> QED
        BY <3>1
    <2> QED
      BY <2>3, <2>4, <2>5, <2>6, Zenon
  <1>15. Cut(k, B, q, N)
    BY <1>7, <1>8, <1>14 DEF Cut
  <1>16. ASSUME k # "alpn"
         PROVE  /\ \A i \in 1 .. m : \E a \in N : a < q /\ u[i][1] = B[a + 1]
                /\ \A a \in N : a < q => \E i \in 1 .. m : u[i][1] = B[a + 1]
    <2>1. ASSUME NEW i \in 1 .. m
          PROVE  \E a \in N : a < q /\ u[i][1] = B[a + 1]
      <3>1. CASE i = m
        BY <1>2, <1>3, <1>4, <1>9, <1>12, <3>1
      <3>2. CASE i # m
        <4>1. i \in 1 .. n
          BY <1>10, <2>1, <3>2
        <4>2. PICK a \in M : a < o /\ s[i][1] = B[a + 1]
          BY <1>13, <1>16, <4>1
        <4>3. a \in N /\ a < q
          BY <1>2, <1>3, <1>5, <4>2
        <4> QED
          BY <1>12, <4>1, <4>2, <4>3
      <3> QED
        BY <3>1, <3>2
    <2>2. ASSUME NEW a \in N, a < q
          PROVE  \E i \in 1 .. m : u[i][1] = B[a + 1]
      <3>1. a \in M /\ a \in Nat /\ a <= o
        <4>1. q \in Nat /\ a < q
          BY <1>2, <2>2
        <4>2. a # q
          BY <4>1
        <4>3. a \in M
          BY <1>6, <4>2
        <4> QED
          BY <1>5, <4>3
      <3>2. CASE a = o
        <4>1. m \in 1 .. m
          BY <1>10
        <4> QED
          BY <1>9, <1>12, <3>2, <4>1
      <3>3. CASE a # o
        <4>1. PICK i \in 1 .. n : s[i][1] = B[a + 1]
          BY <1>13, <1>16, <3>1, <3>3
        <4>2. i \in 1 .. m
          BY <1>10
        <4> QED
          BY <1>12, <4>1, <4>2
      <3> QED
        BY <3>2, <3>3
    <2> QED
      BY <2>1, <2>2
  <1>17. ASSUME NEW E, Cut(k, B, Len(B), E)
         PROVE  N \subseteq E
    <2>1. M \subseteq E
      BY <1>17 DEF Progress
    <2>2. o \in E /\ Cut(k, B, l, E)
      BY <1>4, <1>17, <2>1
    <2>3. PICK K \in Nat : K > 0 /\ o + K \in E /\ EntryAt(k, B, o, K)
      BY <2>2, NextEnd
    <2>4. K = L
      BY <2>3 DEF EntryAt
    <2> QED
      BY <1>2, <1>3, <2>1, <2>3, <2>4
  <1>18. Progress(k, B, q, u, N)
    BY <1>12, <1>15, <1>16, <1>17 DEF Progress
  <1> QED
    BY <1>2, <1>3, <1>11, <1>18

\* An entry that cannot be read is there in no cutting.
LEMMA NoEntry ==
    ASSUME NEW k \in EntryKinds, NEW B \in Seq(Nat), NEW l \in Nat, l = Len(B),
           NEW o \in Nat, NEW s, NEW M, Progress(k, B, o, s, M), o < l,
           NEW E, Cut(k, B, Len(B), E)
    PROVE  \E L \in Nat : /\ EntryAt(k, B, o, L) /\ L > 0
                          /\ k # "alpn" => \A i \in 1 .. Len(s) : s[i][1] # B[o + 1]
  <1>1. M \subseteq E /\ M \in SUBSET (0 .. o) /\ o \in M
    BY DEF Progress, Cut
  <1>2. o \in E /\ Cut(k, B, l, E)
    BY <1>1
  <1>3. PICK L \in Nat : L > 0 /\ EntryAt(k, B, o, L)
    BY <1>2, NextEnd
  <1>4. ASSUME k # "alpn", NEW i \in 1 .. Len(s), s[i][1] = B[o + 1]
        PROVE  FALSE
    <2>1. PICK a \in M : a < o /\ s[i][1] = B[a + 1]
      BY <1>4 DEF Progress
    <2>2. a \in E /\ a \in Nat /\ a < l /\ B[a + 1] = B[o + 1]
      BY <1>1, <1>4, <2>1
    <2>3. a = o
      BY <1>2, <1>4, <2>2 DEF Cut
    <2> QED
      BY <2>1, <2>3
  <1> QED
    BY <1>3, <1>4

\* The bytes that would be an entry, and its data.
Candidate(k, B, o, L, e, data) ==
    /\ IsList(B)
    /\ o + TagOf(k) + 1 <= Len(B)
    /\ L = TagOf(k) + 1 + B[o + TagOf(k) + 1]
    /\ o + L <= Len(B)
    /\ e = SubSeq(B, o + 1, o + L)
    /\ data = SubSeq(e, TagOf(k) + 2, Len(e))

\* What the loops check of them is what makes them one.
LEMMA GoodIsEntry ==
    ASSUME NEW k \in EntryKinds, NEW B, NEW o \in Nat, NEW L \in Nat, NEW e, NEW data,
           Candidate(k, B, o, L, e, data)
    PROVE  EntryAt(k, B, o, L) <=>
             /\ k = "server_name" => (e[1] = 0 => Vectors!IsValidName(data))
             /\ k # "server_name" => data # << >>
  <1>0. PICK t \in 0 .. 1 : t = TagOf(k)
    BY DEF TagOf
  <1>1. PICK l \in Nat, q \in Nat : /\ l = Len(B) /\ q = o + L /\ o <= q /\ q <= l
                                    /\ q - o = L /\ o + t + 1 <= l
    <2>1. PICK l \in Nat : l = Len(B)
      BY LenProperties DEF Candidate, IsList
    <2>2. o + L <= l /\ o + t + 1 <= l
      BY <1>0, <2>1 DEF Candidate
    <2>3. o + L \in Nat /\ o <= o + L /\ (o + L) - o = L
      OBVIOUS
    <2> QED
      BY <2>1, <2>2, <2>3
  <1>2. B \in Seq(Nat)
    BY DEF Candidate, IsList
  <1>3. e \in Seq(Nat) /\ Len(e) = L /\ \A i \in 1 .. L : e[i] = B[o + i]
    <2>1. B \in Seq(Nat) /\ o \in Nat /\ q \in Nat /\ o <= q /\ q <= Len(B)
      BY <1>1, <1>2
    <2>2. e = SubSeq(B, o + 1, q)
      BY <1>1 DEF Candidate
    <2>3. /\ e \in Seq(Nat) /\ Len(e) = q - o
          /\ \A i \in 1 .. q - o : e[i] = B[o + i]
      <3>1. SubSeq(B, o + 1, q) \in Seq(Nat) /\ Len(SubSeq(B, o + 1, q)) = q - o
        BY <2>1, Piece
      <3>2. \A i \in 1 .. q - o : SubSeq(B, o + 1, q)[i] = B[o + i]
        BY <2>1, Piece
      <3> QED
        BY <2>2, <3>1, <3>2, Zenon
    <2> QED
      BY <1>1, <2>3
  <1>4. B[o + t + 1] \in Nat
    <2>1. PICK j \in 1 .. l : j = o + t + 1
      <3>1. o + t + 1 \in 1 .. l
        BY <1>1
      <3> QED
        BY <3>1
    <2>2. B[j] \in Nat
      BY <1>1, <1>2, <2>1, ElementOfSeq
    <2> QED
      BY <2>1, <2>2
  <1>5. L > t /\ t + 1 \in 1 .. L /\ o + (t + 1) = o + t + 1
    <2>1. PICK n \in Nat : n = B[o + t + 1]
      BY <1>4
    <2>2. L = t + 1 + n
      BY <1>0, <2>1 DEF Candidate
    <2> QED
      BY <2>2
  <1>6. e[t + 1] = B[o + t + 1]
    BY <1>3, <1>5
  <1>7. Len(e) > t /\ Len(e) = t + 1 + e[t + 1]
    BY <1>0, <1>3, <1>5, <1>6 DEF Candidate
  <1>8. /\ data \in Seq(Nat) /\ Len(data) = L - (t + 1)
        /\ \A i \in 1 .. L - (t + 1) : data[i] = e[(t + 1) + i]
    <2>1. PICK a \in Nat : a = t + 1 /\ a <= L /\ a + 1 = t + 2
      BY <1>5
    <2>2. data = SubSeq(e, a + 1, L)
      BY <1>0, <1>3, <2>1 DEF Candidate
    <2>3. e \in Seq(Nat) /\ L <= Len(e)
      <3>1. L <= L
        OBVIOUS
      <3> QED
        BY <1>3, <3>1
    <2>4. /\ data \in Seq(Nat) /\ Len(data) = L - a
          /\ \A i \in 1 .. L - a : data[i] = e[a + i]
      <3>1. SubSeq(e, a + 1, L) \in Seq(Nat) /\ Len(SubSeq(e, a + 1, L)) = L - a
        BY <2>1, <2>3, Piece
      <3>2. \A i \in 1 .. L - a : SubSeq(e, a + 1, L)[i] = e[a + i]
        BY <2>1, <2>3, Piece
      <3> QED
        BY <2>2, <3>1, <3>2, Zenon
    <2> QED
      BY <2>1, <2>4
  <1>9. data # << >> <=> Len(e) > t + 1
    <2>1. data # << >> <=> Len(data) # 0
      BY <1>8, EmptySeq
    <2>2. Len(data) # 0 <=> L > t + 1
      BY <1>5, <1>8
    <2> QED
      BY <1>3, <2>1, <2>2
  <1>10. ASSUME k = "server_name"
         PROVE  Vectors!IsValidName(data) <=> Vectors!NameShape(data)
    BY <1>8, ValidNameShape, NameShapeValid
  <1>11. EntryAt(k, B, o, L) <=> EntryOf(k, e)
    BY DEF EntryAt, Candidate
  <1>12. EntryOf(k, e) <=>
           /\ k \in {"alpn", "key_share"} => data # << >>
           /\ (k = "server_name" /\ e[1] = 0) => Vectors!NameShape(data)
    <2>1. data = SubSeq(e, t + 2, Len(e))
      BY <1>0 DEF Candidate
    <2> QED
      BY <1>0, <1>7, <1>9, <2>1, Zenon DEF EntryOf
  <1> QED
    BY <1>10, <1>11, <1>12 DEF EntryKinds

-----------------------------------------------------------------------------
(* The lists of a ClientHello.                                             *)

VectorTyped ==
    v1 \in Vectors!Kinds /\ IsList(v3) /\ v4 \in Nat /\ v4 <= Len(v3)
    /\ v5 \in Seq(Seq(Nat))

\* WellFormed is GoodList.
LEMMA WellFormedIs ==
    ASSUME VectorTyped
    PROVE  Vectors!WellFormed <=> GoodList(v1, v2, v3)
  <1>1. PICK l \in Nat : l = Len(v3)
    BY LenProperties DEF VectorTyped, IsList
  <1>2. TagOf(v1) = Vectors!TagSize
    BY Zenon DEF TagOf, Vectors!TagSize
  <1>3. \A p : Vectors!PieceGood(p) <=> EntryOf(v1, p)
    BY <1>2, Zenon DEF Vectors!PieceGood, EntryOf
  <1> DEFINE Ends(cuts) == cuts \cup {0, l}
             Cutting(cuts) ==
               /\ \A p \in Vectors!Pieces(cuts) : EntryOf(v1, SubSeq(v3, p[1] + 1, p[2]))
               /\ v1 # "alpn" => \A p, q \in Vectors!Pieces(cuts) :
                                    v3[p[1] + 1] = v3[q[1] + 1] => p = q
  <1>4. ASSUME NEW cuts
        PROVE  Vectors!Pieces(cuts) =
                 {p \in Ends(cuts) \X Ends(cuts) :
                    p[1] < p[2] /\ \A c \in Ends(cuts) : ~(p[1] < c /\ c < p[2])}
    BY <1>1, Zenon DEF Vectors!Pieces
  <1>5. ASSUME NEW cuts \in SUBSET (1 .. (l - 1)), Cutting(cuts)
        PROVE  \E E : Cut(v1, v3, l, E)
    <2>1. PICK E : E = Ends(cuts)
      OBVIOUS
    <2>2. E \in SUBSET (0 .. l) /\ 0 \in E /\ l \in E
      <3>1. 1 .. (l - 1) \subseteq 0 .. l /\ {0, l} \subseteq 0 .. l
        OBVIOUS
      <3> QED
        BY <2>1, <3>1, Zenon
    <2>3. PICK P : P = Vectors!Pieces(cuts)
      OBVIOUS
    <2>4. P = {p \in E \X E : p[1] < p[2] /\ \A c \in E : ~(p[1] < c /\ c < p[2])}
      BY <1>4, <2>1, <2>3
    <2>5. /\ \A p \in P : EntryOf(v1, SubSeq(v3, p[1] + 1, p[2]))
          /\ v1 # "alpn" => \A p, q \in P : v3[p[1] + 1] = v3[q[1] + 1] => p = q
      BY <1>5, <2>3
    <2> HIDE DEF Cutting, Ends
    <2>6. ASSUME NEW a \in E, NEW b \in E, a < b, \A c \in E : ~(a < c /\ c < b)
          PROVE  <<a, b>> \in P
      BY <2>4, <2>6
    <2>7. ASSUME NEW a \in E, NEW b \in E, a < b, \A c \in E : ~(a < c /\ c < b)
          PROVE  EntryOf(v1, SubSeq(v3, a + 1, b))
      <3>1. PICK p \in P : p[1] = a /\ p[2] = b
        BY <2>6, <2>7
      <3> QED
        BY <2>5, <3>1
    <2>8. ASSUME NEW a \in E, a < l
          PROVE  \E p \in P : p[1] = a
      <3>1. PICK b \in E : a < b /\ \A c \in E : ~(a < c /\ c < b)
        <4>1. Places(E, l) /\ a < l
          BY <2>2, <2>8, Zenon DEF Places
        <4> QED
          BY <4>1, Follower
      <3> QED
        BY <2>6, <3>1
    <2>9. ASSUME v1 # "alpn", NEW a \in E, NEW b \in E, a < l, b < l,
                 v3[a + 1] = v3[b + 1]
          PROVE  a = b
      <3>1. PICK p \in P : p[1] = a
        BY <2>8, <2>9
      <3>2. PICK q \in P : q[1] = b
        BY <2>8, <2>9
      <3> QED
        BY <2>5, <2>9, <3>1, <3>2
    <2> QED
      BY <2>2, <2>7, <2>9 DEF Cut
  <1>6. ASSUME NEW E, Cut(v1, v3, l, E)
        PROVE  \E cuts \in SUBSET (1 .. (l - 1)) : Cutting(cuts)
    <2>1. E \in SUBSET (0 .. l) /\ 0 \in E /\ l \in E
      BY <1>6 DEF Cut
    <2>2. PICK cuts : cuts = E \ {0, l}
      OBVIOUS
    <2>3. cuts \in SUBSET (1 .. (l - 1)) /\ Ends(cuts) = E
      <3>1. \A c \in cuts : c \in 1 .. (l - 1)
        BY <2>1, <2>2
      <3>2. Ends(cuts) = E
        BY <2>1, <2>2, Zenon
      <3> QED
        BY <3>1, <3>2
    <2>4. PICK P : P = Vectors!Pieces(cuts)
      OBVIOUS
    <2>5. P = {p \in E \X E : p[1] < p[2] /\ \A c \in E : ~(p[1] < c /\ c < p[2])}
      BY <1>4, <2>3, <2>4
    <2>6. ASSUME NEW p \in P
          PROVE  /\ p[1] \in E /\ p[2] \in E /\ p[1] < p[2] /\ p = <<p[1], p[2]>>
                 /\ \A c \in E : ~(p[1] < c /\ c < p[2])
      BY <2>5, <2>6
    <2>7. \A p \in P : EntryOf(v1, SubSeq(v3, p[1] + 1, p[2]))
      BY <1>6, <2>6 DEF Cut
    <2>8. ASSUME v1 # "alpn", NEW p \in P, NEW q \in P, v3[p[1] + 1] = v3[q[1] + 1]
          PROVE  p = q
      <3>1. PICK a \in E, b \in E : a = p[1] /\ b = p[2]
        BY <2>6
      <3>2. PICK c \in E, d \in E : c = q[1] /\ d = q[2]
        BY <2>6
      <3>3. a < b /\ c < d /\ \A x \in E : ~(a < x /\ x < b) /\ ~(c < x /\ x < d)
        BY <2>6, <3>1, <3>2
      <3>4. a \in Nat /\ b \in Nat /\ c \in Nat /\ d \in Nat /\ b <= l /\ d <= l
        BY <2>1
      <3>5. a < l /\ c < l
        BY <3>3, <3>4
      <3>6. a = c
        BY <1>6, <2>8, <3>1, <3>2, <3>5 DEF Cut
      <3>7. b = d
        <4>1. ~(a < d /\ d < b) /\ ~(a < b /\ b < d)
          BY <3>3, <3>6
        <4> QED
          BY <3>3, <3>4, <3>6, <4>1
      <3> QED
        BY <2>6, <3>1, <3>2, <3>6, <3>7
    <2>9. Cutting(cuts)
      BY <2>4, <2>7, <2>8
    <2> QED
      BY <2>3, <2>9
  <1>7. Vectors!WellFormed <=>
          /\ v2 = l
          /\ v3 = << >> => v1 = "key_share"
          /\ v1 = "values" => l % 2 = 0
          /\ v1 # "values" => \E cuts \in SUBSET (1 .. (l - 1)) : Cutting(cuts)
    BY <1>1, <1>3, Zenon DEF Vectors!WellFormed
  <1> HIDE DEF Cutting
  <1>8. (\E cuts \in SUBSET (1 .. (l - 1)) : Cutting(cuts)) <=> \E E : Cut(v1, v3, l, E)
    BY <1>5, <1>6
  <1> QED
    BY <1>1, <1>7, <1>8, Zenon DEF GoodList

\* Pairs of bytes, put together again.
LEMMA PairsTogether ==
    ASSUME NEW B \in Seq(Nat), NEW n \in Nat, n # 0, Len(B) = 2 * n, NEW s,
           s = [i \in 1 .. n |-> <<B[2 * i - 1], B[2 * i]>>]
    PROVE  s \in Seq(Seq(Nat)) /\ Flat(s) = SubSeq(B, 1, Len(B))
  <1> DEFINE T == Seq(Nat)
  <1>1. PICK l \in Nat : l = Len(B) /\ l = 2 * n
    BY LenProperties
  <1>2. ASSUME NEW i \in 1 .. n
        PROVE  s[i] \in T /\ s[i] = SubSeq(B, (2 * i - 2) + 1, 2 * i)
    <2>1. PICK a \in Nat, b \in Nat : /\ a = 2 * i - 2 /\ b = 2 * i /\ a <= b /\ b <= l
                                      /\ b - a = 2 /\ a + 1 = 2 * i - 1 /\ a + 2 = 2 * i
      <3>1. 2 * i - 2 \in Nat /\ 2 * i \in Nat /\ 2 * i <= l
        BY <1>1
      <3> QED
        BY <3>1
    <2>2. PICK u : u = SubSeq(B, a + 1, b)
      OBVIOUS
    <2>3. u \in T /\ Len(u) = 2 /\ \A j \in 1 .. 2 : u[j] = B[a + j]
      <3>1. a <= b /\ b <= Len(B)
        BY <1>1, <2>1
      <3>2. /\ SubSeq(B, a + 1, b) \in Seq(Nat) /\ Len(SubSeq(B, a + 1, b)) = b - a
            /\ \A j \in 1 .. b - a : SubSeq(B, a + 1, b)[j] = B[a + j]
        BY <3>1, Piece
      <3>3. u \in T /\ Len(u) = b - a /\ \A j \in 1 .. b - a : u[j] = B[a + j]
        BY <2>2, <3>2, Zenon
      <3> QED
        BY <2>1, <3>3
    <2>4. PICK x, y : x = B[2 * i - 1] /\ y = B[2 * i]
      OBVIOUS
    <2>5. s[i] = <<x, y>>
      BY <2>4
    <2>6. u[1] = x /\ u[2] = y
      BY <2>1, <2>3, <2>4
    <2>7. x \in Nat /\ y \in Nat
      <3>1. 1 \in 1 .. Len(u) /\ 2 \in 1 .. Len(u)
        BY <2>3
      <3>2. u[1] \in Nat /\ u[2] \in Nat
        BY <2>3, <3>1, ElementOfSeq
      <3> QED
        BY <2>6, <3>2
    <2>8. <<x, y>> \in T /\ Len(<<x, y>>) = 2 /\ <<x, y>>[1] = x /\ <<x, y>>[2] = y
      BY <2>7
    <2>9. <<x, y>> = u
      <3>1. PICK w : w = <<x, y>>
        OBVIOUS
      <3>2. w \in T /\ Len(w) = 2 /\ \A j \in 1 .. Len(w) : w[j] = u[j]
        <4>1. w \in T /\ Len(w) = 2 /\ w[1] = x /\ w[2] = y
          BY <2>8, <3>1
        <4>2. \A j \in 1 .. 2 : j = 1 \/ j = 2
          OBVIOUS
        <4> QED
          BY <2>6, <4>1, <4>2
      <3> QED
        BY <2>3, <3>1, <3>2, SeqEqual
    <2> QED
      BY <2>1, <2>2, <2>3, <2>5, <2>9
  <1>3. s \in Seq(T) /\ Len(s) = n
    <2>1. s \in [1 .. n -> T]
      BY <1>2
    <2>2. Seq(T) = UNION {[1 .. m -> T] : m \in Nat}
      BY SeqDef
    <2>3. s \in Seq(T)
      BY <2>1, <2>2
    <2> QED
      BY <2>1, <2>3, LenProperties
  <1>4. PICK h : h = Flattening(s)
    OBVIOUS
  <1>5. h[1] = s[1] /\ \A i \in 1 .. n : i # 1 => h[i] = h[i - 1] \o s[i]
    <2>1. s \in Seq(Seq(Nat)) /\ n = Len(s) /\ n # 0
      BY <1>3
    <2>2. /\ Flattening(s)[1] = s[1]
          /\ \A i \in 1 .. n : i # 1 => Flattening(s)[i] = Flattening(s)[i - 1] \o s[i]
      BY <2>1, FlatteningIs, Zenon
    <2> QED
      BY <1>4, <2>2
  <1>6. PICK m \in Nat : n = m + 1
    <2>1. n - 1 \in Nat /\ n = (n - 1) + 1
      OBVIOUS
    <2> QED
      BY <2>1
  <1> DEFINE Good == {i \in Nat : h[i + 1] = SubSeq(B, 1, 2 * (i + 1))}
  <1>7. 0 \in Good
    <2>1. 1 \in 1 .. n /\ (2 * 1 - 2) + 1 = 1 /\ 0 + 1 = 1
      BY <1>6
    <2>2. s[1] = SubSeq(B, (2 * 1 - 2) + 1, 2 * 1)
      BY <1>2, <2>1
    <2>3. h[1] = SubSeq(B, 1, 2 * 1)
      BY <1>5, <2>1, <2>2
    <2> QED
      BY <2>1, <2>3
  <1>8. ASSUME NEW i \in 0 .. m, i \in Good, i + 1 <= m
        PROVE  i + 1 \in Good
    <2>1. PICK j \in Nat, a \in Nat, b \in Nat :
            /\ j = (i + 1) + 1 /\ j # 1 /\ j - 1 = i + 1 /\ j \in 1 .. n
            /\ a = 2 * (i + 1) /\ a = 2 * j - 2 /\ b = 2 * j /\ a <= b /\ b <= l
      <3>1. PICK j \in Nat : j = (i + 1) + 1
        OBVIOUS
      <3>2. j # 1 /\ j - 1 = i + 1 /\ j \in 1 .. n
        BY <1>6, <1>8, <3>1
      <3>3. /\ 2 * (i + 1) \in Nat /\ 2 * j \in Nat /\ 2 * (i + 1) = 2 * j - 2
            /\ 2 * (i + 1) <= 2 * j /\ 2 * j <= l
        BY <1>1, <3>1, <3>2
      <3> QED
        BY <3>1, <3>2, <3>3
    <2>2. h[j] = h[i + 1] \o s[j]
      BY <1>5, <2>1
    <2>3. h[i + 1] = SubSeq(B, 1, a)
      BY <1>8, <2>1
    <2>4. s[j] = SubSeq(B, a + 1, b)
      BY <1>2, <2>1
    <2>5. SubSeq(B, 1, a) \o SubSeq(B, a + 1, b) = SubSeq(B, 1, b)
      <3>1. a <= b /\ b <= Len(B) /\ a \in Nat /\ b \in Nat /\ B \in Seq(Nat)
        BY <1>1, <2>1
      <3> QED
        BY <3>1, Adjacent
    <2>6. h[j] = SubSeq(B, 1, 2 * j)
      BY <2>1, <2>2, <2>3, <2>4, <2>5
    <2>7. i + 1 \in Nat /\ h[(i + 1) + 1] = SubSeq(B, 1, 2 * ((i + 1) + 1))
      BY <2>1, <2>6
    <2> QED
      BY <2>7
  <1>9. m \in Good
    <2> HIDE DEF Good
    <2>1. \A i \in 0 .. m : i \in Good /\ i + 1 <= m => i + 1 \in Good
      BY <1>8
    <2>2. \A i \in 0 .. m : i \in Good
      BY <1>7, <2>1, Counting
    <2>3. m \in 0 .. m
      OBVIOUS
    <2> QED
      BY <2>2, <2>3
  <1>10. h[n] = SubSeq(B, 1, l)
    BY <1>1, <1>6, <1>9
  <1>11. Flat(s) = h[n]
    BY <1>3, <1>4 DEF Flat
  <1> QED
    BY <1>1, <1>3, <1>10, <1>11

\* The inductive invariant.  While the entries are read, the loop's Progress
\* is known; at the end, what WellFormed says.
VectorIndInv ==
    /\ VectorTyped
    /\ v6 \in {"start", "reading", "accepted", "refused"}
    /\ Flat(v5) = SubSeq(v3, 1, v4)
    /\ v6 = "start" => v4 = 0 /\ v5 = << >>
    /\ v6 = "reading" => /\ v1 \in EntryKinds /\ v2 = Len(v3)
                         /\ v3 = << >> => v1 = "key_share"
                         /\ \E M : Progress(v1, v3, v4, v5, M)
    /\ v6 = "accepted" => v4 = Len(v3) /\ GoodList(v1, v2, v3)
    /\ v6 = "refused" => ~GoodList(v1, v2, v3)

\* Nothing read.
LEMMA VectorInitHolds ==
    ASSUME Vectors!Init
    PROVE  VectorIndInv
  <1>1. /\ v1 \in Vectors!Kinds /\ v4 = 0 /\ v5 = << >> /\ v6 = "start"
        /\ \/ v3 \in Vectors!Strings(MaxBody)
           \/ \E tag \in 0 .. 1, n \in 0 .. (MaxName + 2),
                 name \in Vectors!Strings(MaxName + 1) : v3 = <<tag, n>> \o name
    BY DEF Vectors!Init
  <1>2. MaxBody \in Nat /\ MaxName \in Nat
    BY VectorAssumptions DEF Vectors!Assumptions
  <1>3. ASSUME NEW max \in Nat, NEW s \in Vectors!Strings(max)
        PROVE  s \in Seq(Nat)
    <2>1. PICK k \in 0 .. max : s \in [1 .. k -> Vectors!Byte]
      BY <1>3 DEF Vectors!Strings
    <2>2. k \in Nat /\ Vectors!Byte \subseteq Nat
      BY DEF Vectors!Byte
    <2>3. s \in [1 .. k -> Nat]
      BY <2>1, <2>2
    <2> QED
      BY <2>2, <2>3, SeqDef
  <1>4. ASSUME v3 \in Vectors!Strings(MaxBody)
        PROVE  IsList(v3)
    BY <1>2, <1>3, <1>4 DEF IsList
  <1>5. ASSUME NEW tag \in 0 .. 1, NEW n \in 0 .. (MaxName + 2),
               NEW name \in Vectors!Strings(MaxName + 1), v3 = <<tag, n>> \o name
        PROVE  IsList(v3)
    <2>1. MaxName + 1 \in Nat /\ n \in Nat /\ tag \in Nat
      BY <1>2
    <2>2. name \in Seq(Nat)
      BY <1>3, <2>1
    <2>3. PICK u \in Seq(Nat) : u = <<tag, n>>
      <3>1. <<tag, n>> \in Seq(Nat)
        BY <2>1
      <3> QED
        BY <3>1
    <2>4. u \o name \in Seq(Nat)
      BY <2>2, Joined
    <2> QED
      BY <1>5, <2>3, <2>4 DEF IsList
  <1>6. IsList(v3)
    BY <1>1, <1>4, <1>5, Zenon
  <1>7. v3 \in Seq(Nat)
    BY <1>6 DEF IsList
  <1>8. << >> \in Seq(Seq(Nat)) /\ Flat(<< >>) = << >>
    <2>1. << >> \in Seq(Seq(Nat))
      BY EmptySeq
    <2> QED
      BY <2>1, FlatIs
  <1>9. 0 <= Len(v3) /\ SubSeq(v3, 1, 0) = << >>
    <2>1. 0 <= Len(v3)
      BY <1>7, LenProperties
    <2>2. SubSeq(v3, 1, 0) \in Seq(Nat) /\ Len(SubSeq(v3, 1, 0)) = 0
      BY <1>7, <2>1, Prefix
    <2> QED
      BY <2>1, <2>2, EmptySeq
  <1>10. VectorTyped
    BY <1>1, <1>6, <1>8, <1>9 DEF VectorTyped
  <1> QED
    BY <1>1, <1>8, <1>9, <1>10 DEF VectorIndInv

\* A list of values that ValuesGood refuses is not well formed, and the other
\* way round.
LEMMA ValuesMeans ==
    ASSUME VectorTyped, v1 = "values"
    PROVE  Vectors!ValuesGood <=> GoodList(v1, v2, v3)
  <1>1. PICK l \in Nat : l = Len(v3)
    BY LenProperties DEF VectorTyped, IsList
  <1>2. v3 = << >> <=> l = 0
    BY <1>1, EmptySeq DEF VectorTyped, IsList
  <1>3. Vectors!ValuesGood <=> v2 = l /\ l >= 2 /\ l % 2 = 0
    BY <1>1, Zenon DEF Vectors!ValuesGood
  <1>4. GoodList(v1, v2, v3) <=> v2 = l /\ l # 0 /\ l % 2 = 0
    BY <1>1, <1>2 DEF GoodList
  <1>5. l % 2 = 0 => (l >= 2 <=> l # 0)
    <2>1. PICK n \in Nat : n = l
      OBVIOUS
    <2>2. n % 2 = 0 => (n >= 2 <=> n # 0)
      OBVIOUS
    <2> QED
      BY <2>1, <2>2
  <1> QED
    BY <1>3, <1>4, <1>5

\* An action that refuses keeps the rest.
LEMMA RefusedHolds ==
    ASSUME VectorIndInv, Vectors!Refuse, ~GoodList(v1, v2, v3)
    PROVE  VectorIndInv'
  <1>1. /\ v6' = "refused" /\ v1' = v1 /\ v2' = v2 /\ v3' = v3 /\ v4' = v4 /\ v5' = v5
    BY DEF Vectors!Refuse
  <1>2. VectorTyped'
    BY <1>1 DEF VectorIndInv, VectorTyped
  <1>3. Flat(v5') = SubSeq(v3', 1, v4')
    BY <1>1 DEF VectorIndInv
  <1>4. ~GoodList(v1', v2', v3')
    BY <1>1
  <1> QED
    BY <1>1, <1>2, <1>3, <1>4 DEF VectorIndInv

\* parse_u16_values.
LEMMA ReadValuesHolds ==
    ASSUME VectorIndInv, Vectors!ReadValues
    PROVE  VectorIndInv'
  <1>1. /\ v1 = "values" /\ Vectors!ValuesGood /\ v6' = "accepted"
        /\ v1' = v1 /\ v2' = v2 /\ v3' = v3 /\ v4' = Len(v3)
        /\ v5' = [i \in 1 .. (Len(v3) \div 2) |-> <<v3[2 * i - 1], v3[2 * i]>>]
    BY DEF Vectors!ReadValues
  <1>2. VectorTyped
    BY DEF VectorIndInv
  <1>3. PICK B \in Seq(Nat), l \in Nat : B = v3 /\ l = Len(B)
    BY <1>2, LenProperties DEF VectorTyped, IsList
  <1>4. l >= 2 /\ l % 2 = 0
    BY <1>1, <1>3 DEF Vectors!ValuesGood
  <1>5. PICK n \in Nat : n = l \div 2 /\ n # 0 /\ l = 2 * n
    <2>1. l \div 2 \in Nat /\ l \div 2 # 0 /\ l = 2 * (l \div 2)
      BY <1>4
    <2> QED
      BY <2>1
  <1>6. PICK s : s = v5'
    OBVIOUS
  <1>7. s = [i \in 1 .. n |-> <<B[2 * i - 1], B[2 * i]>>]
    BY <1>1, <1>3, <1>5, <1>6
  <1>8. s \in Seq(Seq(Nat)) /\ Flat(s) = SubSeq(B, 1, Len(B))
    <2>1. B \in Seq(Nat) /\ n # 0 /\ Len(B) = 2 * n
      BY <1>3, <1>5
    <2> QED
      BY <1>7, <2>1, PairsTogether
  <1>9. VectorTyped'
    <2>1. l <= l
      OBVIOUS
    <2> QED
      BY <1>1, <1>2, <1>3, <1>6, <1>8, <2>1 DEF VectorTyped
  <1>10. Flat(v5') = SubSeq(v3', 1, v4')
    BY <1>1, <1>3, <1>6, <1>8
  <1>11. v4' = Len(v3') /\ GoodList(v1', v2', v3')
    BY <1>1, <1>2, ValuesMeans
  <1> QED
    BY <1>1, <1>9, <1>10, <1>11 DEF VectorIndInv

\* The outer vector.
LEMMA ReadOuterHolds ==
    ASSUME VectorIndInv, Vectors!ReadOuter
    PROVE  VectorIndInv'
  <1>1. /\ v6 = "start" /\ v1 # "values" /\ v2 = Len(v3)
        /\ v3 = << >> => v1 = "key_share"
        /\ v6' = "reading" /\ v1' = v1 /\ v2' = v2 /\ v3' = v3 /\ v4' = v4 /\ v5' = v5
    BY DEF Vectors!ReadOuter, Vectors!OuterGood
  <1>2. VectorTyped'
    BY <1>1 DEF VectorIndInv, VectorTyped
  <1>3. Flat(v5') = SubSeq(v3', 1, v4')
    BY <1>1 DEF VectorIndInv
  <1>4. v1' \in EntryKinds
    BY <1>1 DEF VectorIndInv, VectorTyped, Vectors!Kinds, EntryKinds
  <1>5. Progress(v1', v3', v4', v5', {0})
    <2>1. v4' = 0 /\ v5' = << >>
      BY <1>1 DEF VectorIndInv
    <2>2. Progress(v1', v3', 0, << >>, {0})
      BY NoProgress
    <2> QED
      BY <2>1, <2>2
  <1> QED
    BY <1>1, <1>2, <1>3, <1>4, <1>5 DEF VectorIndInv

\* The end of the list.
LEMMA AcceptHolds ==
    ASSUME VectorIndInv, Vectors!Accept
    PROVE  VectorIndInv'
  <1>1. /\ v6 = "reading" /\ Len(v3) - v4 = 0
        /\ v6' = "accepted" /\ v1' = v1 /\ v2' = v2 /\ v3' = v3 /\ v4' = v4 /\ v5' = v5
    BY DEF Vectors!Accept, Vectors!Remaining
  <1>2. VectorTyped'
    BY <1>1 DEF VectorIndInv, VectorTyped
  <1>3. Flat(v5') = SubSeq(v3', 1, v4')
    BY <1>1 DEF VectorIndInv
  <1>4. v4 = Len(v3)
    <2>1. PICK l \in Nat, o \in Nat : l = Len(v3) /\ o = v4
      BY LenProperties DEF VectorIndInv, VectorTyped, IsList
    <2>2. l - o = 0
      BY <1>1, <2>1
    <2>3. o = l
      BY <2>2
    <2> QED
      BY <2>1, <2>3
  <1>5. /\ v1 \in EntryKinds /\ v2 = Len(v3)
        /\ v3 = << >> => v1 = "key_share"
        /\ \E M : Progress(v1, v3, v4, v5, M)
    BY <1>1 DEF VectorIndInv
  <1>6. \E E : Cut(v1, v3, Len(v3), E)
    BY <1>4, <1>5, Zenon DEF Progress
  <1>7. GoodList(v1, v2, v3)
    BY <1>5, <1>6 DEF GoodList, EntryKinds
  <1> QED
    BY <1>1, <1>2, <1>3, <1>4, <1>7 DEF VectorIndInv

\* What the loop reads at its place.
LEMMA EntryRead ==
    ASSUME VectorIndInv, v6 = "reading", Vectors!Remaining # 0
    PROVE  \E l \in Nat, t \in 0 .. 1 :
             /\ l = Len(v3) /\ t = TagOf(v1) /\ v4 < l
             /\ Vectors!Available(Vectors!TagSize + 1) <=> v4 + t + 1 <= l
             /\ v4 + t + 1 <= l =>
                  \E L \in Nat :
                     /\ L > 0 /\ L = t + 1 + v3[v4 + t + 1] /\ Vectors!EntryLength = L
                     /\ Vectors!Available(Vectors!EntryLength) <=> v4 + L <= l
                     /\ Vectors!Entry = SubSeq(v3, v4 + 1, v4 + L)
  <1>1. PICK l \in Nat, o \in Nat : l = Len(v3) /\ o = v4 /\ o <= l
    BY LenProperties DEF VectorIndInv, VectorTyped, IsList
  <1>2. PICK t \in 0 .. 1 : t = TagOf(v1)
    BY DEF TagOf
  <1>3. Vectors!TagSize = t
    BY <1>2, Zenon DEF TagOf, Vectors!TagSize
  <1>4. Vectors!Remaining = l - o
    BY <1>1, Zenon DEF Vectors!Remaining
  <1>5. o < l
    <2>1. l - o # 0
      BY <1>4
    <2> QED
      BY <1>1, <2>1
  <1>6. Vectors!Available(Vectors!TagSize + 1) <=> o + t + 1 <= l
    <2>1. Vectors!Available(Vectors!TagSize + 1) <=> t + 1 <= l - o
      BY <1>3, <1>4 DEF Vectors!Available
    <2>2. t + 1 <= l - o <=> o + t + 1 <= l
      OBVIOUS
    <2> QED
      BY <2>1, <2>2
  <1>7. ASSUME o + t + 1 <= l
        PROVE  \E L \in Nat :
                 /\ L > 0 /\ L = t + 1 + v3[o + t + 1] /\ Vectors!EntryLength = L
                 /\ Vectors!Available(Vectors!EntryLength) <=> o + L <= l
                 /\ Vectors!Entry = SubSeq(v3, o + 1, o + L)
    <2>1. v3[o + t + 1] \in Nat
      <3>1. o + t + 1 \in 1 .. l
        BY <1>7
      <3>2. v3 \in Seq(Nat)
        BY DEF VectorIndInv, VectorTyped, IsList
      <3>3. \A i \in 1 .. l : v3[i] \in Nat
        BY <1>1, <3>2, ElementOfSeq
      <3> QED
        BY <3>1, <3>3
    <2>2. PICK L \in Nat : L > 0 /\ L = t + 1 + v3[o + t + 1]
      BY <2>1
    <2>3. Vectors!EntryLength = L
      <3>1. Vectors!EntryLength = t + 1 + v3[o + t + 1]
        BY <1>1, <1>3, Zenon DEF Vectors!EntryLength
      <3> QED
        BY <2>2, <3>1
    <2>4. Vectors!Available(Vectors!EntryLength) <=> o + L <= l
      <3>1. Vectors!Available(Vectors!EntryLength) <=> L <= l - o
        BY <1>4, <2>3 DEF Vectors!Available
      <3>2. L <= l - o <=> o + L <= l
        OBVIOUS
      <3> QED
        BY <3>1, <3>2
    <2>5. Vectors!Entry = SubSeq(v3, o + 1, o + L)
      BY <1>1, <2>3, Zenon DEF Vectors!Entry
    <2> QED
      BY <2>2, <2>3, <2>4, <2>5
  <1> QED
    BY <1>1, <1>2, <1>5, <1>6, <1>7

\* EntryGood is that there is an entry, and that its tag is new.
LEMMA EntryGoodIs ==
    ASSUME VectorIndInv, v6 = "reading", NEW L \in Nat, NEW e, NEW data,
           Candidate(v1, v3, v4, L, e, data)
    PROVE  Vectors!EntryGood(e) <=>
             /\ EntryAt(v1, v3, v4, L)
             /\ v1 # "alpn" => \A i \in 1 .. Len(v5) : v5[i][1] # e[1]
  <1>1. v1 \in EntryKinds /\ v4 \in Nat
    BY DEF VectorIndInv, VectorTyped
  <1>2. TagOf(v1) = Vectors!TagSize
    BY Zenon DEF TagOf, Vectors!TagSize
  <1>3. Vectors!Data(e) = data
    BY <1>2, Zenon DEF Vectors!Data, Candidate
  <1>4. Candidate(v1, v3, v4, L, e, data)
    OBVIOUS
  <1>5. PICK k, B, o : k = v1 /\ B = v3 /\ o = v4
    OBVIOUS
  <1>6. k \in EntryKinds /\ o \in Nat /\ Candidate(k, B, o, L, e, data)
    BY <1>1, <1>4, <1>5
  <1>7. EntryAt(k, B, o, L) <=>
             /\ k = "server_name" => (e[1] = 0 => Vectors!IsValidName(data))
             /\ k # "server_name" => data # << >>
    BY <1>6, GoodIsEntry, Zenon
  <1>8. Vectors!EntryGood(e) <=>
             /\ v1 = "server_name" => (e[1] = 0 => Vectors!IsValidName(data))
             /\ v1 # "server_name" => data # << >>
             /\ v1 # "alpn" => \A i \in 1 .. Len(v5) : v5[i][1] # e[1]
    BY <1>3 DEF Vectors!EntryGood
  <1> QED
    BY <1>5, <1>7, <1>8, Zenon

\* One turn of a loop.
LEMMA ReadEntryHolds ==
    ASSUME VectorIndInv, Vectors!ReadEntry
    PROVE  VectorIndInv'
  <1>1. /\ v6 = "reading" /\ Vectors!Remaining # 0 /\ Vectors!EntryThere
        /\ Vectors!EntryGood(Vectors!Entry)
        /\ v5' = Append(v5, Vectors!Entry) /\ v4' = v4 + Vectors!EntryLength
        /\ v1' = v1 /\ v2' = v2 /\ v3' = v3 /\ v6' = v6
    BY DEF Vectors!ReadEntry
  <1>2. PICK l \in Nat, t \in 0 .. 1 :
             /\ l = Len(v3) /\ t = TagOf(v1) /\ v4 < l
             /\ Vectors!Available(Vectors!TagSize + 1) <=> v4 + t + 1 <= l
             /\ v4 + t + 1 <= l =>
                  \E L \in Nat :
                     /\ L > 0 /\ L = t + 1 + v3[v4 + t + 1] /\ Vectors!EntryLength = L
                     /\ Vectors!Available(Vectors!EntryLength) <=> v4 + L <= l
                     /\ Vectors!Entry = SubSeq(v3, v4 + 1, v4 + L)
    BY <1>1, EntryRead, Zenon
  <1>3. v4 + t + 1 <= l
    BY <1>1, <1>2, Zenon DEF Vectors!EntryThere
  <1>4. PICK L \in Nat :
                     /\ L > 0 /\ L = t + 1 + v3[v4 + t + 1] /\ Vectors!EntryLength = L
                     /\ Vectors!Available(Vectors!EntryLength) <=> v4 + L <= l
                     /\ Vectors!Entry = SubSeq(v3, v4 + 1, v4 + L)
    BY <1>2, <1>3, Zenon
  <1>5. v4 + L <= l
    BY <1>1, <1>4, Zenon DEF Vectors!EntryThere
  <1>6. PICK k, B, o, s, e :
          k = v1 /\ B = v3 /\ o = v4 /\ s = v5 /\ e = SubSeq(v3, v4 + 1, v4 + L)
    OBVIOUS
  <1>7. /\ k \in EntryKinds /\ B \in Seq(Nat) /\ l = Len(B) /\ o \in Nat
        /\ s \in Seq(Seq(Nat)) /\ o < l
    BY <1>1, <1>2, <1>6 DEF VectorIndInv, VectorTyped, IsList
  <1>8. PICK M : Progress(k, B, o, s, M)
    BY <1>1, <1>6, Zenon DEF VectorIndInv
  <1>9. /\ EntryAt(k, B, o, L)
        /\ k # "alpn" => \A i \in 1 .. Len(s) : s[i][1] # e[1]
    <2>1. Vectors!EntryGood(e)
      BY <1>1, <1>4, <1>6
    <2>2. PICK data : Candidate(v1, v3, v4, L, e, data)
      <3>1. IsList(v3)
        BY DEF VectorIndInv, VectorTyped
      <3> QED
        BY <1>2, <1>3, <1>4, <1>5, <1>6, <3>1, Zenon DEF Candidate
    <2>3. /\ EntryAt(v1, v3, v4, L)
          /\ v1 # "alpn" => \A i \in 1 .. Len(v5) : v5[i][1] # e[1]
      BY <1>1, <2>1, <2>2, EntryGoodIs
    <2> QED
      BY <1>6, <2>3, Zenon
  <1>10. PICK q \in Nat : q = o + L /\ o <= q /\ q <= l
    <2>1. o + L \in Nat /\ o <= o + L
      BY <1>7
    <2>2. o + L <= l
      BY <1>5, <1>6
    <2> QED
      BY <2>1, <2>2
  <1>11. e = SubSeq(B, o + 1, q)
    BY <1>6, <1>10
  <1>12. e \in Seq(Nat) /\ SubSeq(B, 1, o) \o e = SubSeq(B, 1, q)
    <2>1. B \in Seq(Nat) /\ o \in Nat /\ o <= q /\ q <= Len(B)
      BY <1>7, <1>10
    <2> QED
      BY <1>11, <2>1, Piece, Adjacent
  <1>13. Progress(k, B, q, Append(s, e), M \cup {q})
    <2>1. e = SubSeq(B, o + 1, o + L)
      BY <1>6
    <2>2. Progress(k, B, o + L, Append(s, e), M \cup {o + L})
      BY <1>4, <1>7, <1>8, <1>9, <1>12, <2>1, OneEntry
    <2> QED
      BY <1>10, <2>2
  <1>14. v4' = q /\ v5' = Append(s, e)
    BY <1>1, <1>4, <1>6, <1>10
  <1>15. Append(s, e) \in Seq(Seq(Nat)) /\ Flat(Append(s, e)) = SubSeq(B, 1, q)
    <2>1. Flat(s) = SubSeq(B, 1, o)
      BY <1>6 DEF VectorIndInv
    <2>2. Append(s, e) \in Seq(Seq(Nat))
      BY <1>7, <1>12, AppendProperties
    <2>3. Flat(Append(s, e)) = Flat(s) \o e
      BY <1>7, <1>12, FlatAppend
    <2> QED
      BY <1>12, <2>1, <2>2, <2>3
  <1>16. VectorTyped'
    <2>1. v1' \in Vectors!Kinds /\ IsList(v3')
      BY <1>1 DEF VectorIndInv, VectorTyped
    <2>2. v4' \in Nat /\ v4' <= Len(v3') /\ v5' \in Seq(Seq(Nat))
      BY <1>1, <1>2, <1>10, <1>14, <1>15
    <2> QED
      BY <2>1, <2>2 DEF VectorTyped
  <1>17. Flat(v5') = SubSeq(v3', 1, v4')
    BY <1>1, <1>6, <1>14, <1>15
  <1>18. /\ v1' \in EntryKinds /\ v2' = Len(v3') /\ v6' = "reading"
         /\ v3' = << >> => v1' = "key_share"
    BY <1>1 DEF VectorIndInv
  <1>19. \E N : Progress(v1', v3', v4', v5', N)
    <2>1. Progress(v1', v3', v4', v5', M \cup {q})
      BY <1>1, <1>6, <1>13, <1>14
    <2> QED
      BY <2>1
  <1> QED
    BY <1>16, <1>17, <1>18, <1>19 DEF VectorIndInv

\* A turn that refuses is right to do so.
LEMMA RefuseEntryHolds ==
    ASSUME VectorIndInv, Vectors!RefuseEntry
    PROVE  VectorIndInv'
  <1>1. /\ v6 = "reading" /\ Vectors!Remaining # 0 /\ Vectors!Refuse
        /\ ~(Vectors!EntryThere /\ Vectors!EntryGood(Vectors!Entry))
    BY DEF Vectors!RefuseEntry
  <1> SUFFICES ASSUME GoodList(v1, v2, v3) PROVE FALSE
    BY <1>1, RefusedHolds
  <1>2. PICK l \in Nat, t \in 0 .. 1 :
             /\ l = Len(v3) /\ t = TagOf(v1) /\ v4 < l
             /\ Vectors!Available(Vectors!TagSize + 1) <=> v4 + t + 1 <= l
             /\ v4 + t + 1 <= l =>
                  \E L \in Nat :
                     /\ L > 0 /\ L = t + 1 + v3[v4 + t + 1] /\ Vectors!EntryLength = L
                     /\ Vectors!Available(Vectors!EntryLength) <=> v4 + L <= l
                     /\ Vectors!Entry = SubSeq(v3, v4 + 1, v4 + L)
    BY <1>1, EntryRead, Zenon
  <1>3. PICK k, B, o, s : k = v1 /\ B = v3 /\ o = v4 /\ s = v5
    OBVIOUS
  <1>4. /\ k \in EntryKinds /\ B \in Seq(Nat) /\ l = Len(B) /\ o \in Nat /\ o < l
    BY <1>1, <1>2, <1>3 DEF VectorIndInv, VectorTyped, IsList
  <1>5. PICK M : Progress(k, B, o, s, M)
    BY <1>1, <1>3, Zenon DEF VectorIndInv
  <1>6. PICK E : Cut(k, B, Len(B), E)
    BY <1>3, <1>4 DEF GoodList, EntryKinds
  <1>7. PICK K \in Nat : /\ EntryAt(k, B, o, K) /\ K > 0
                         /\ k # "alpn" => \A i \in 1 .. Len(s) : s[i][1] # B[o + 1]
    BY <1>4, <1>5, <1>6, NoEntry
  <1>8. v4 + t + 1 <= l
    BY <1>2, <1>3, <1>7 DEF EntryAt
  <1>9. PICK L \in Nat :
                     /\ L > 0 /\ L = t + 1 + v3[v4 + t + 1] /\ Vectors!EntryLength = L
                     /\ Vectors!Available(Vectors!EntryLength) <=> v4 + L <= l
                     /\ Vectors!Entry = SubSeq(v3, v4 + 1, v4 + L)
    BY <1>2, <1>8, Zenon
  <1>10. K = L /\ o + L <= l /\ v4 + L <= l
    BY <1>2, <1>3, <1>7, <1>9 DEF EntryAt
  <1>11. Vectors!EntryThere
    BY <1>2, <1>8, <1>9, <1>10, Zenon DEF Vectors!EntryThere
  <1>12. PICK e : e = SubSeq(v3, v4 + 1, v4 + L)
    OBVIOUS
  <1>13. e[1] = B[o + 1]
    <2>1. PICK q \in Nat : q = o + L /\ o <= q /\ q <= l /\ 1 \in 1 .. q - o
      <3>1. o + L \in Nat /\ o <= o + L /\ 1 \in 1 .. (o + L) - o
        BY <1>4, <1>9
      <3> QED
        BY <1>10, <3>1
    <2>2. B \in Seq(Nat) /\ o \in Nat /\ o <= q /\ q <= Len(B)
      BY <1>4, <2>1
    <2>3. \A i \in 1 .. q - o : SubSeq(B, o + 1, q)[i] = B[o + i]
      BY <2>2, Piece
    <2>4. e = SubSeq(B, o + 1, q)
      BY <1>3, <1>12, <2>1
    <2> QED
      BY <2>1, <2>3, <2>4
  <1>14. /\ EntryAt(v1, v3, v4, L)
         /\ v1 # "alpn" => \A i \in 1 .. Len(v5) : v5[i][1] # e[1]
    BY <1>3, <1>7, <1>10, <1>13
  <1>15. Vectors!EntryGood(e)
    <2>1. PICK data : Candidate(v1, v3, v4, L, e, data)
      <3>1. IsList(v3)
        BY DEF VectorIndInv, VectorTyped
      <3> QED
        BY <1>2, <1>8, <1>9, <1>10, <1>12, <3>1, Zenon DEF Candidate
    <2> QED
      BY <1>1, <1>14, <2>1, EntryGoodIs
  <1> QED
    BY <1>1, <1>9, <1>11, <1>12, <1>15

\* Every action keeps it.
LEMMA VectorStepHolds ==
    ASSUME VectorIndInv, Vectors!Next
    PROVE  VectorIndInv'
  <1>1. CASE Vectors!RefuseOuter
    <2>1. v1 # "values" /\ ~Vectors!OuterGood /\ Vectors!Refuse
      BY <1>1 DEF Vectors!RefuseOuter
    <2>2. ~GoodList(v1, v2, v3)
      BY <2>1, Zenon DEF Vectors!OuterGood, GoodList
    <2> QED
      BY <2>1, <2>2, RefusedHolds
  <1>2. CASE Vectors!RefuseValues
    <2>1. v1 = "values" /\ ~Vectors!ValuesGood /\ Vectors!Refuse
      BY <1>2 DEF Vectors!RefuseValues
    <2>2. ~GoodList(v1, v2, v3)
      BY <2>1, ValuesMeans DEF VectorIndInv
    <2> QED
      BY <2>1, <2>2, RefusedHolds
  <1> QED
    BY <1>1, <1>2, ReadOuterHolds, ReadValuesHolds, ReadEntryHolds, RefuseEntryHolds,
       AcceptHolds DEF Vectors!Next

\* Every step of this part keeps it, and every step of another one.
LEMMA VectorKept ==
    ASSUME VectorIndInv, Vectors!Next \/ UNCHANGED <<v1, v2, v3, v4, v5, v6>>
    PROVE  VectorIndInv'
  <1>1. CASE UNCHANGED <<v1, v2, v3, v4, v5, v6>>
    <2>1. v1' = v1 /\ v2' = v2 /\ v3' = v3 /\ v4' = v4 /\ v5' = v5 /\ v6' = v6
      BY <1>1
    <2> QED
      BY <2>1 DEF VectorIndInv, VectorTyped
  <1> QED
    BY <1>1, VectorStepHolds

\* The two promises follow.
LEMMA VectorsAreExact ==
    ASSUME VectorIndInv
    PROVE  Vectors!AcceptsExactly /\ Vectors!NothingSkipped
  <1>1. VectorTyped
    BY DEF VectorIndInv
  <1>2. Vectors!WellFormed <=> GoodList(v1, v2, v3)
    BY <1>1, WellFormedIs
  <1>3. Vectors!AcceptsExactly
    BY <1>2 DEF VectorIndInv, Vectors!AcceptsExactly
  <1>4. Vectors!FlattenSeq(v5) = Flat(v5)
    BY Zenon DEF Vectors!FlattenSeq, Flat, Flattening
  <1>5. Vectors!NothingSkipped
    BY <1>4, Zenon DEF VectorIndInv, Vectors!NothingSkipped
  <1> QED
    BY <1>3, <1>5
=============================================================================
