-------------------------- MODULE RequestHeadProofs --------------------------
(***************************************************************************)
(* What read_request_head of server.rs accepts and refuses, proved for     *)
(* every stream of bytes, every cut into reads and all limits.             *)
(***************************************************************************)
EXTENDS RequestHead, FiniteSetTheorems, WellFoundedInduction, SequenceTheorems, TLAPS

Bytes == {CR, LF, X}

-----------------------------------------------------------------------------
(* The first and the last of a set of places.                              *)

\* A set of numbers has a least one.
LEMMA LeastExists ==
    ASSUME NEW S \in SUBSET Nat, S # {}
    PROVE  \E x \in S : \A y \in S : x <= y
  <1>1. PICK x \in S : \A y \in S : ~(<<y, x>> \in OpToRel(<, Nat))
    BY NatLessThanWellFounded, WFMin
  <1>2. \A y \in S : ~(y < x)
    BY <1>1 DEF OpToRel
  <1> QED
    BY <1>2

\* First finds it.
LEMMA FirstIsLeast ==
    ASSUME NEW S \in SUBSET Nat, S # {}
    PROVE  /\ First(S) \in S /\ \A y \in S : First(S) <= y
           /\ \A x \in S : (\A y \in S : x <= y) => x = First(S)
  <1>1. First(S) \in S /\ \A y \in S : First(S) <= y
    BY LeastExists DEF First
  <1>2. ASSUME NEW x \in S, \A y \in S : x <= y
        PROVE  x = First(S)
    <2>1. x <= First(S) /\ First(S) <= x /\ x \in Nat /\ First(S) \in Nat
      BY <1>1, <1>2
    <2> QED
      BY <2>1
  <1> QED
    BY <1>1, <1>2

\* A bounded set of numbers has a greatest one.
LEMMA GreatestExists ==
    ASSUME NEW m \in Nat, NEW S \in SUBSET (0 .. m), S # {}
    PROVE  \E x \in S : \A y \in S : y <= x
  <1> DEFINE T == {m - x : x \in S}
  <1>1. T \in SUBSET Nat /\ T # {}
    OBVIOUS
  <1>2. PICK t \in T : \A u \in T : t <= u
    BY <1>1, LeastExists
  <1>3. PICK x \in S : t = m - x
    OBVIOUS
  <1>4. \A y \in S : m - x <= m - y
    BY <1>2, <1>3
  <1> QED
    BY <1>4

-----------------------------------------------------------------------------
(* Lines.                                                                  *)

\* The places of CRs that end a line, counted from 1.
Breaks(head) == {i \in 1 .. (Len(head) - 1) : head[i] = CR /\ head[i + 1] = LF}

\* Every CR and every LF belongs to the end of a line.
CleanLines(head) ==
    /\ \A i \in 1 .. Len(head) : head[i] = CR <=> i \in Breaks(head)
    /\ \A i \in 1 .. Len(head) : head[i] = LF <=> i - 1 \in Breaks(head)

\* The next line ends at j.
NextBreak(head, i, j) ==
    /\ j \in Breaks(head) /\ j > i
    /\ \A k \in Breaks(head) : k > i => j <= k

\* Header lines are neither empty nor too long.
LinesFit(head) ==
    \A i \in Breaks(head) \ {Len(head) - 3, Len(head) - 1} :
        \A j : NextBreak(head, i, j) => j - i - 2 \in 1 .. MaxHeader

\* ValidHead, with its parts named and the first break known.
LEMMA ValidHeadMeans ==
    ASSUME NEW head, NEW first \in Breaks(head),
           \A i \in Breaks(head) : first <= i, Len(head) \in Nat
    PROVE  ValidHead(head) <=>
             /\ Len(head) >= 5
             /\ {Len(head) - 3, Len(head) - 1} \subseteq Breaks(head)
             /\ CleanLines(head)
             /\ first \in 2 .. (MaxRequestLine + 1)
             /\ LinesFit(head)
             /\ Cardinality(Breaks(head)) <= MaxHeaderCount + 2
             /\ first < Len(head) - 3 => Len(head) - 5 - first <= MaxHeaderBlock
  <1>1. Breaks(head) \in SUBSET Nat
    BY DEF Breaks
  <1>2. first = First(Breaks(head))
    BY <1>1, FirstIsLeast
  <1>3. LinesFit(head) <=>
          \A i \in Breaks(head) \ {Len(head) - 3, Len(head) - 1} :
             \A j \in {j \in Breaks(head) :
                         j > i /\ \A k \in Breaks(head) : k > i => j <= k} :
                j - i - 2 \in 1 .. MaxHeader
    BY DEF LinesFit, NextBreak
  <1> QED
    BY <1>2, <1>3, Zenon DEF ValidHead, CleanLines, Breaks, First

\* A place where a line ends is not behind another one.
LEMMA NoOverlap ==
    ASSUME Assumptions, NEW input \in Seq(Bytes)
    PROVE  /\ LineEnds(input) \in SUBSET Nat
           /\ \A e \in LineEnds(input) : e + 1 \notin LineEnds(input)
           /\ HeadEnds(input) \in SUBSET Nat
           /\ HeadEnds(input) \subseteq LineEnds(input)
  BY DEF Assumptions, LineEnds, HeadEnds

\* The lines of the first n bytes are those of the whole that end in them.
LEMMA LinesOfPart ==
    ASSUME NEW input \in Seq(Bytes), NEW n \in 0 .. Len(input), NEW part,
           part = SubSeq(input, 1, n)
    PROVE  /\ part \in Seq(Bytes) /\ Len(part) = n
           /\ \A i \in 1 .. n : part[i] = input[i]
           /\ Breaks(part) = {i \in 1 .. (n - 1) : i - 1 \in LineEnds(input)}
           /\ LineEnds(part) = {e \in LineEnds(input) : e + 2 <= n}
  <1>1. /\ part \in Seq(Bytes) /\ Len(part) = n
        /\ \A i \in 1 .. n : part[i] = input[i]
    <2>1. 1 \in Nat \ {0} /\ n \in Nat /\ Len(input) \in Nat
      OBVIOUS
    <2> QED
      BY <2>1, SubSeqProperties
  <1>2. Len(input) \in Nat /\ n \in Nat /\ n <= Len(input)
    OBVIOUS
  <1>3. Breaks(part) = {i \in 1 .. (n - 1) : i - 1 \in LineEnds(input)}
    <2>1. ASSUME NEW i \in 1 .. (n - 1)
          PROVE  i \in Breaks(part) <=> i - 1 \in LineEnds(input)
      <3>1. /\ part[i] = input[i] /\ part[i + 1] = input[i + 1]
            /\ i - 1 \in 0 .. Len(input) - 2 /\ (i - 1) + 1 = i /\ (i - 1) + 2 = i + 1
        BY <1>1, <1>2
      <3> QED
        BY <1>1, <3>1 DEF Breaks, LineEnds
    <2> QED
      BY <1>1, <2>1 DEF Breaks
  <1>4. LineEnds(part) = {e \in LineEnds(input) : e + 2 <= n}
    BY <1>1, <1>2 DEF LineEnds
  <1> QED
    BY <1>1, <1>3, <1>4

-----------------------------------------------------------------------------
(* What is accepted.                                                       *)

\* What the parser has found when it returns a request.
Found(input, lineEnd, headEnd) ==
    /\ lineEnd \in LineEnds(input) /\ \A e \in LineEnds(input) : lineEnd <= e
    /\ headEnd \in HeadEnds(input) /\ \A e \in HeadEnds(input) : headEnd <= e

\* The parser has found the first end of a line and the first of the head.
LEMMA ParseFinds ==
    ASSUME Assumptions, NEW input \in Seq(Bytes), Parse(input) = "good"
    PROVE  \E lineEnd, headEnd \in Nat :
              /\ Found(input, lineEnd, headEnd) /\ headEnd = First(HeadEnds(input))
              /\ lineEnd <= MaxRequestLine
              /\ BlockSize(lineEnd, headEnd) <= MaxHeaderBlock
              /\ ParsesAsRequestLine(input, lineEnd)
              /\ ParsesAsHeaders(input, lineEnd, headEnd)
  <1>1. LineEnds(input) # {} /\ HeadEnds(input) # {}
    BY DEF Parse
  <1>2. PICK lineEnd, headEnd \in Nat :
          /\ lineEnd = First(LineEnds(input)) /\ headEnd = First(HeadEnds(input))
          /\ Found(input, lineEnd, headEnd)
    BY <1>1, NoOverlap, FirstIsLeast DEF Found
  <1>3. /\ ~(lineEnd > MaxRequestLine)
        /\ BlockSize(lineEnd, headEnd) <= MaxHeaderBlock
        /\ ParsesAsRequestLine(input, lineEnd)
        /\ ParsesAsHeaders(input, lineEnd, headEnd)
    BY <1>1, <1>2, Zenon DEF Parse
  <1>4. MaxRequestLine \in Nat
    BY DEF Assumptions
  <1> QED
    BY <1>2, <1>3, <1>4

\* A header line behind the break at e is text up to the next one.
LEMMA HeaderLine ==
    ASSUME Assumptions, NEW input \in Seq(Bytes), NEW lineEnd \in Nat,
           NEW headEnd \in Nat, Found(input, lineEnd, headEnd),
           ParsesAsHeaders(input, lineEnd, headEnd),
           NEW e \in LineEnds(input), e < headEnd
    PROVE  \E end \in LineEnds(input) :
              /\ end > e + 2 /\ end <= headEnd /\ end - (e + 2) <= MaxHeader
              /\ \A i \in LineEnds(input) : i > e => end <= i
              /\ \A i \in e + 3 .. end : input[i] = X
  <1> DEFINE later == {i \in LineEnds(input) : e + 2 <= i}
  <1>1. e \in Nat /\ lineEnd <= e /\ headEnd \in LineEnds(input)
    BY NoOverlap DEF Found
  <1>2. headEnd # e + 1
    BY <1>1, NoOverlap
  <1>3. headEnd \in later /\ later \in SUBSET Nat
    BY <1>1, <1>2, NoOverlap
  <1>4. PICK end : end = First(later)
    OBVIOUS
  <1>5. end \in later /\ \A i \in later : end <= i
    BY <1>3, <1>4, FirstIsLeast
  <1>6. /\ end > e + 2 /\ end - (e + 2) <= MaxHeader
        /\ Text(input, e + 2, end)
    BY <1>1, <1>4 DEF ParsesAsHeaders
  <1>7. \A i \in LineEnds(input) : i > e => end <= i
    <2> SUFFICES ASSUME NEW i \in LineEnds(input), i > e
                 PROVE  end <= i
      OBVIOUS
    <2>1. i \in Nat /\ i # e + 1
      BY NoOverlap
    <2> QED
      BY <1>1, <1>5, <2>1
  <1>8. \A i \in e + 3 .. end : input[i] = X
    BY <1>1, <1>6 DEF Text
  <1> QED
    BY <1>3, <1>5, <1>6, <1>7, <1>8

\* A byte of the head is text unless it is next to the end of a line.
LEMMA HeadIsText ==
    ASSUME Assumptions, NEW input \in Seq(Bytes), NEW lineEnd \in Nat,
           NEW headEnd \in Nat, Found(input, lineEnd, headEnd),
           ParsesAsRequestLine(input, lineEnd),
           ParsesAsHeaders(input, lineEnd, headEnd),
           NEW k \in 1 .. headEnd + 4
    PROVE  \/ input[k] = X
           \/ k - 1 \in LineEnds(input)
           \/ k - 2 \in LineEnds(input)
  <1> DEFINE before == {e \in LineEnds(input) : e + 2 < k}
  <1>1. LineEnds(input) \in SUBSET Nat /\ lineEnd \in LineEnds(input)
        /\ headEnd \in LineEnds(input) /\ headEnd + 2 \in LineEnds(input)
    BY NoOverlap DEF Found, HeadEnds
  <1>2. CASE before = {}
    <2>1. k <= lineEnd + 2
      BY <1>1, <1>2
    <2>2. k <= lineEnd => input[k] = X
      BY DEF ParsesAsRequestLine, Text
    <2> QED
      BY <1>1, <2>1, <2>2
  <1>3. CASE before # {}
    <2>0. PICK m \in Nat : m = headEnd + 4
      OBVIOUS
    <2>1. before \in SUBSET (0 .. m)
      BY <1>1, <2>0
    <2>2. PICK s \in before : \A e \in before : e <= s
      BY <1>3, <2>1, GreatestExists
    <2>3. CASE s < headEnd
      <3>1. PICK end \in LineEnds(input) :
              end > s + 2 /\ \A i \in s + 3 .. end : input[i] = X
        BY <2>3, HeaderLine
      <3>2. end \in Nat /\ s \in Nat
        BY <1>1, <3>1
      <3>3. ~(end + 2 < k)
        BY <2>2, <3>1, <3>2
      <3> QED
        BY <3>1, <3>2, <3>3
    <2>4. CASE s >= headEnd
      <3>1. s \in Nat /\ s # headEnd + 1 /\ s + 2 < k
        BY <1>1, NoOverlap
      <3>2. k = headEnd + 3 \/ k = headEnd + 4
        BY <2>4, <3>1
      <3> QED
        BY <1>1, <3>2
    <2> QED
      BY <1>1, <2>3, <2>4
  <1> QED
    BY <1>2, <1>3

\* Where parse_headers finds lines.
Starts(input, lineEnd, headEnd) ==
    {i + 2 : i \in {i \in LineEnds(input) : lineEnd <= i /\ i < headEnd}}

\* It counts all breaks but the last two.
LEMMA BreaksCounted ==
    ASSUME Assumptions, NEW input \in Seq(Bytes), NEW lineEnd \in Nat,
           NEW headEnd \in Nat, Found(input, lineEnd, headEnd),
           NEW B, B = {i \in 1 .. headEnd + 3 : i - 1 \in LineEnds(input)}
    PROVE  /\ Cardinality(Starts(input, lineEnd, headEnd)) \in Nat
           /\ Cardinality(B) = Cardinality(Starts(input, lineEnd, headEnd)) + 2
  <1> DEFINE inner  == {i \in LineEnds(input) : lineEnd <= i /\ i < headEnd}
             starts == {i + 2 : i \in inner}
             rest   == B \ {headEnd + 1, headEnd + 3}
  <1>1. /\ LineEnds(input) \in SUBSET Nat
        /\ headEnd \in LineEnds(input) /\ headEnd + 2 \in LineEnds(input)
        /\ headEnd + 1 \notin LineEnds(input)
        /\ \A e \in LineEnds(input) : lineEnd <= e
    BY NoOverlap DEF Found, HeadEnds
  <1>2. B \in SUBSET Nat /\ \A b \in B : b <= headEnd + 3
    OBVIOUS
  <1>3. IsFiniteSet(B) /\ IsFiniteSet(rest)
    <2>1. PICK m \in Nat : m = headEnd + 3
      OBVIOUS
    <2>2. IsFiniteSet(B)
      BY <1>2, <2>1, FS_BoundedSetOfNaturals
    <2> QED
      BY <2>2, FS_Subset
  <1>4. Cardinality(B) = Cardinality(rest) + 2 /\ Cardinality(rest) \in Nat
    <2>1. headEnd + 1 \in B /\ headEnd + 3 \in B /\ headEnd + 1 # headEnd + 3
      BY <1>1
    <2>2. /\ IsFiniteSet(B \ {headEnd + 1})
          /\ Cardinality(B \ {headEnd + 1}) = Cardinality(B) - 1
      BY <1>3, <2>1, FS_RemoveElement
    <2>3. /\ headEnd + 3 \in B \ {headEnd + 1}
          /\ rest = (B \ {headEnd + 1}) \ {headEnd + 3}
      BY <2>1
    <2>4. Cardinality(rest) = Cardinality(B \ {headEnd + 1}) - 1
      <3>1. PICK C : C = B \ {headEnd + 1}
        OBVIOUS
      <3>2. Cardinality(C \ {headEnd + 3}) = Cardinality(C) - 1
        BY <2>2, <2>3, <3>1, FS_RemoveElement
      <3> QED
        BY <2>3, <3>1, <3>2
    <2>5. Cardinality(B) \in Nat /\ Cardinality(rest) \in Nat
      BY <1>3, FS_CardinalityType
    <2> QED
      BY <2>2, <2>4, <2>5
  <1>5. \A b : b \in rest <=> b \in Nat /\ b - 1 \in inner
    BY <1>1
  <1>6. Cardinality(starts) = Cardinality(rest)
    <2> DEFINE f == [b \in rest |-> b + 1]
    <2>1. \A b \in rest : b \in Nat /\ b + 1 \in starts
      <3> SUFFICES ASSUME NEW b \in rest PROVE b \in Nat /\ b + 1 \in starts
        OBVIOUS
      <3>1. b \in Nat /\ b - 1 \in inner
        BY <1>5
      <3>2. (b - 1) + 2 = b + 1
        BY <3>1
      <3> QED
        BY <3>1, <3>2
    <2>2. \A t \in starts : \E b \in rest : f[b] = t
      <3> SUFFICES ASSUME NEW t \in starts PROVE \E b \in rest : f[b] = t
        OBVIOUS
      <3>1. PICK i \in inner : t = i + 2
        OBVIOUS
      <3>2. i \in Nat /\ i + 1 \in Nat /\ (i + 1) - 1 = i /\ (i + 1) + 1 = t
        BY <1>1, <3>1
      <3>3. i + 1 \in rest
        BY <1>5, <3>2
      <3> QED
        BY <3>2, <3>3
    <2>3. f \in Surjection(rest, starts)
      BY <2>1, <2>2 DEF Surjection
    <2>4. f \in Injection(rest, starts)
      <3>1. f \in [rest -> starts]
        BY <2>1
      <3>2. \A a, b \in rest : f[a] = f[b] => a = b
        BY <2>1
      <3> QED
        BY <3>1, <3>2 DEF Injection, IsInjective
    <2> QED
      BY <1>3, <2>3, <2>4, FS_Surjection
  <1>7. starts = Starts(input, lineEnd, headEnd)
    BY Zenon DEF Starts
  <1> QED
    BY <1>4, <1>6, <1>7

\* What Consumed takes off the buffer is a valid head.
LEMMA AcceptedIsValid ==
    ASSUME Assumptions, NEW input \in Seq(Bytes), Parse(input) = "good"
    PROVE  /\ Consumed(input) \in 5 .. Len(input)
           /\ ValidHead(SubSeq(input, 1, Consumed(input)))
  <1>1. PICK lineEnd, headEnd \in Nat :
          /\ Found(input, lineEnd, headEnd) /\ headEnd = First(HeadEnds(input))
          /\ lineEnd <= MaxRequestLine
          /\ BlockSize(lineEnd, headEnd) <= MaxHeaderBlock
          /\ ParsesAsRequestLine(input, lineEnd)
          /\ ParsesAsHeaders(input, lineEnd, headEnd)
    BY ParseFinds
  <1>2. PICK n \in Nat : n = headEnd + 4 /\ n = Consumed(input)
    BY <1>1 DEF Consumed
  <1>3. /\ LineEnds(input) \in SUBSET Nat
        /\ lineEnd \in LineEnds(input) /\ \A e \in LineEnds(input) : lineEnd <= e
        /\ headEnd \in LineEnds(input) /\ headEnd + 2 \in LineEnds(input)
        /\ headEnd + 1 \notin LineEnds(input)
    BY <1>1, NoOverlap DEF Found, HeadEnds
  <1>4. lineEnd > 0 /\ n \in 5 .. Len(input)
    <2>1. lineEnd > 0 /\ headEnd + 2 \in 0 .. Len(input) - 2
      BY <1>1, <1>3 DEF ParsesAsRequestLine, LineEnds
    <2> QED
      BY <1>2, <1>3, <2>1
  <1>5. PICK head : head = SubSeq(input, 1, n)
    OBVIOUS
  <1>6. /\ head \in Seq(Bytes) /\ Len(head) = n
        /\ \A i \in 1 .. n : head[i] = input[i]
        /\ Breaks(head) = {i \in 1 .. (n - 1) : i - 1 \in LineEnds(input)}
    <2>1. n \in 0 .. Len(input)
      BY <1>4
    <2> QED
      BY <1>5, <2>1, LinesOfPart
  <1>7. PICK first \in Nat : first = lineEnd + 1
    OBVIOUS
  <1>8. first \in Breaks(head) /\ \A i \in Breaks(head) : first <= i
    BY <1>2, <1>3, <1>6, <1>7
  <1>9. {n - 3, n - 1} \subseteq Breaks(head)
    BY <1>2, <1>3, <1>6
  <1>10. CleanLines(head)
    <2>1. \A i \in 1 .. n : head[i] = CR <=> i \in Breaks(head)
      <3> SUFFICES ASSUME NEW i \in 1 .. n PROVE head[i] = CR <=> i \in Breaks(head)
        OBVIOUS
      <3>1. input[i] = X \/ i - 1 \in LineEnds(input) \/ i - 2 \in LineEnds(input)
        BY <1>1, <1>2, HeadIsText
      <3>2. i - 1 \in LineEnds(input) => input[i] = CR /\ input[i + 1] = LF
        BY DEF LineEnds
      <3>3. i - 2 \in LineEnds(input) => input[i] = LF
        BY DEF LineEnds
      <3>4. i = n => input[i] = LF
        BY <1>2, <1>3, <3>3
      <3>5. i \in Breaks(head) <=> i < n /\ i - 1 \in LineEnds(input)
        BY <1>4, <1>6
      <3> QED
        BY <1>6, <3>1, <3>2, <3>3, <3>4, <3>5 DEF Assumptions
    <2>2. \A i \in 1 .. n : head[i] = LF <=> i - 1 \in Breaks(head)
      <3> SUFFICES ASSUME NEW i \in 1 .. n PROVE head[i] = LF <=> i - 1 \in Breaks(head)
        OBVIOUS
      <3>1. input[i] = X \/ i - 1 \in LineEnds(input) \/ i - 2 \in LineEnds(input)
        BY <1>1, <1>2, HeadIsText
      <3>2. i - 1 \in LineEnds(input) => input[i] = CR
        BY DEF LineEnds
      <3>3. i - 2 \in LineEnds(input) => input[i] = LF
        BY DEF LineEnds
      <3>4. i - 1 \in Breaks(head) <=> i - 2 \in LineEnds(input)
        BY <1>3, <1>4, <1>6
      <3> QED
        BY <1>6, <3>1, <3>2, <3>3, <3>4 DEF Assumptions
    <2> QED
      BY <1>6, <2>1, <2>2 DEF CleanLines
  <1>11. first \in 2 .. (MaxRequestLine + 1)
    BY <1>1, <1>4, <1>7 DEF Assumptions
  <1>12. LinesFit(head)
    <2> SUFFICES ASSUME NEW i \in Breaks(head) \ {n - 3, n - 1}, NEW j,
                        NextBreak(head, i, j)
                 PROVE  j - i - 2 \in 1 .. MaxHeader
      BY <1>6 DEF LinesFit
    <2>1. PICK e \in LineEnds(input) : i = e + 1 /\ i \in Nat /\ e < headEnd
      <3>1. i \in Nat /\ i - 1 \in LineEnds(input) /\ i <= n - 1 /\ i = (i - 1) + 1
        BY <1>6
      <3>2. i - 1 \in Nat /\ i - 1 # headEnd + 1 /\ i - 1 # headEnd /\ i - 1 # headEnd + 2
        BY <1>2, <1>3, <3>1
      <3>3. i - 1 < headEnd
        BY <1>2, <3>1, <3>2
      <3> QED
        BY <3>1, <3>3
    <2>2. PICK end \in LineEnds(input) :
            /\ end > e + 2 /\ end <= headEnd /\ end - (e + 2) <= MaxHeader
            /\ \A k \in LineEnds(input) : k > e => end <= k
      BY <1>1, <2>1, HeaderLine
    <2>3. end \in Nat /\ end + 1 \in Breaks(head) /\ e \in Nat
      <3>1. end \in Nat /\ e \in Nat /\ (end + 1) - 1 = end
        BY <1>3, <2>2
      <3>2. end + 1 \in 1 .. (n - 1)
        BY <1>2, <2>2, <3>1
      <3> QED
        BY <1>6, <2>2, <3>1, <3>2
    <2>4. j \in Nat /\ j - 1 \in LineEnds(input) /\ j > i /\ j <= end + 1
      <3>1. j \in Breaks(head) /\ j > i /\ \A k \in Breaks(head) : k > i => j <= k
        BY DEF NextBreak
      <3>2. end + 1 > i
        BY <2>1, <2>2, <2>3
      <3>3. j <= end + 1
        BY <2>3, <3>1, <3>2
      <3>4. j \in Nat /\ j - 1 \in LineEnds(input)
        BY <1>6, <3>1
      <3> QED
        BY <3>1, <3>3, <3>4
    <2>5. end <= j - 1
      BY <2>1, <2>2, <2>3, <2>4
    <2> QED
      BY <2>1, <2>2, <2>3, <2>4, <2>5 DEF Assumptions
  <1>13. Cardinality(Breaks(head)) <= MaxHeaderCount + 2
    <2>1. Breaks(head) = {i \in 1 .. headEnd + 3 : i - 1 \in LineEnds(input)}
      BY <1>2, <1>6
    <2>2. PICK c \in Nat :
            /\ c = Cardinality(Starts(input, lineEnd, headEnd))
            /\ Cardinality(Breaks(head)) = c + 2
      <3>1. Found(input, lineEnd, headEnd)
        BY <1>1
      <3> QED
        BY <2>1, <3>1, BreaksCounted
    <2>3. c <= MaxHeaderCount
      BY <1>1, <2>2, Zenon DEF ParsesAsHeaders, Starts
    <2> QED
      BY <2>2, <2>3 DEF Assumptions
  <1>14. first < n - 3 => n - 5 - first <= MaxHeaderBlock
    <2>1. MaxHeaderBlock \in Nat
      BY DEF Assumptions
    <2>2. lineEnd # headEnd => headEnd - (lineEnd + 2) <= MaxHeaderBlock
      BY <1>1 DEF BlockSize
    <2> QED
      BY <1>2, <1>7, <2>1, <2>2
  <1>15. ValidHead(head)
    <2>1. n >= 5
      BY <1>4
    <2> QED
      BY <1>6, <1>8, <1>9, <1>10, <1>11, <1>12, <1>13, <1>14, <2>1, ValidHeadMeans, Zenon
  <1> QED
    BY <1>2, <1>4, <1>5, <1>15

-----------------------------------------------------------------------------
(* What is refused.                                                        *)

\* A stream that begins with a valid head: its lines, as the parser counts.
HeadAt(bytes, lineEnd, headEnd) ==
    /\ Found(bytes, lineEnd, headEnd) /\ lineEnd <= headEnd
    /\ lineEnd \in 1 .. MaxRequestLine
    /\ lineEnd # headEnd => headEnd - lineEnd - 2 <= MaxHeaderBlock
    /\ \A i \in 1 .. headEnd + 4 :
          bytes[i] = X \/ i - 1 \in LineEnds(bytes) \/ i - 2 \in LineEnds(bytes)
    /\ \A e, f \in LineEnds(bytes) :
          (e < f /\ f <= headEnd /\ \A k \in LineEnds(bytes) : k > e => f <= k)
             => f - e - 2 \in 1 .. MaxHeader
    /\ Cardinality(Starts(bytes, lineEnd, headEnd)) <= MaxHeaderCount

\* Every valid head is one.
LEMMA ValidHeadIsThere ==
    ASSUME Assumptions, NEW bytes \in Seq(Bytes), NEW n \in 0 .. Len(bytes),
           ValidHead(SubSeq(bytes, 1, n))
    PROVE  \E lineEnd, headEnd \in Nat :
              HeadAt(bytes, lineEnd, headEnd) /\ headEnd + 4 <= Len(bytes)
  <1>1. PICK head : head = SubSeq(bytes, 1, n)
    OBVIOUS
  <1>2. /\ head \in Seq(Bytes) /\ Len(head) = n /\ n \in Nat
        /\ \A i \in 1 .. n : head[i] = bytes[i]
        /\ Breaks(head) = {i \in 1 .. (n - 1) : i - 1 \in LineEnds(bytes)}
    <2>1. n \in Nat
      OBVIOUS
    <2> QED
      BY <1>1, <2>1, LinesOfPart
  <1>3. Breaks(head) \in SUBSET Nat /\ Breaks(head) # {}
    <2>1. ValidHead(head)
      BY <1>1
    <2>2. {Len(head) - 3, Len(head) - 1} \subseteq Breaks(head)
      BY <2>1, Zenon DEF ValidHead, Breaks
    <2>3. Breaks(head) # {}
      BY <2>2
    <2>4. Breaks(head) \in SUBSET Nat
      BY <1>2
    <2> QED
      BY <2>3, <2>4
  <1>4. PICK first \in Breaks(head) : \A i \in Breaks(head) : first <= i
    BY <1>3, LeastExists
  <1>5. /\ n >= 5 /\ {n - 3, n - 1} \subseteq Breaks(head)
        /\ CleanLines(head)
        /\ first \in 2 .. (MaxRequestLine + 1)
        /\ LinesFit(head)
        /\ Cardinality(Breaks(head)) <= MaxHeaderCount + 2
        /\ first < n - 3 => n - 5 - first <= MaxHeaderBlock
    BY <1>1, <1>2, <1>4, ValidHeadMeans, Zenon
  <1>6. PICK lineEnd, headEnd \in Nat : lineEnd + 1 = first /\ headEnd + 4 = n
    <2>1. first \in Nat /\ MaxRequestLine \in Nat
      BY <1>3 DEF Assumptions
    <2>2. first >= 2 /\ n >= 5
      BY <1>5, <2>1
    <2>3. first - 1 \in Nat /\ n - 4 \in Nat /\ (first - 1) + 1 = first /\ (n - 4) + 4 = n
      BY <1>2, <2>1, <2>2
    <2> QED
      BY <2>3
  <1>7. LineEnds(bytes) \in SUBSET Nat /\ \A e \in LineEnds(bytes) : e + 1 \notin LineEnds(bytes)
    BY NoOverlap
  <1>8. \A i \in Nat : i \in Breaks(head) <=> i \in 1 .. headEnd + 3 /\ i - 1 \in LineEnds(bytes)
    BY <1>2, <1>6
  <1>9. /\ lineEnd \in LineEnds(bytes) /\ headEnd \in LineEnds(bytes)
        /\ headEnd + 2 \in LineEnds(bytes)
    <2>1. headEnd + 1 \in Breaks(head) /\ headEnd + 3 \in Breaks(head)
      BY <1>5, <1>6
    <2> QED
      BY <1>4, <1>6, <1>8, <2>1
  <1>10. \A e \in LineEnds(bytes) : lineEnd <= e
    <2> SUFFICES ASSUME NEW e \in LineEnds(bytes), e < lineEnd
                 PROVE  FALSE
      BY <1>6, <1>7
    <2>1. lineEnd <= headEnd /\ e + 1 \in Nat /\ (e + 1) - 1 = e
      <3>1. headEnd + 1 \in Breaks(head)
        BY <1>5, <1>6
      <3> QED
        BY <1>4, <1>6, <1>7, <3>1
    <2>2. e + 1 \in Breaks(head)
      BY <1>7, <1>8, <2>1
    <2> QED
      BY <1>4, <1>6, <1>7, <2>2
  <1>11. \A e, f \in LineEnds(bytes) :
            (e < f /\ f <= headEnd /\ \A k \in LineEnds(bytes) : k > e => f <= k)
               => f - e - 2 \in 1 .. MaxHeader
    <2> SUFFICES ASSUME NEW e \in LineEnds(bytes), NEW f \in LineEnds(bytes),
                        e < f, f <= headEnd,
                        \A k \in LineEnds(bytes) : k > e => f <= k
                 PROVE  f - e - 2 \in 1 .. MaxHeader
      OBVIOUS
    <2>1. e \in Nat /\ f \in Nat /\ (e + 1) - 1 = e /\ (f + 1) - 1 = f
      BY <1>7
    <2>2. e + 1 \in Breaks(head) /\ f + 1 \in Breaks(head)
      BY <1>8, <2>1
    <2>3. e + 1 \in Breaks(head) \ {n - 3, n - 1}
      BY <1>6, <2>1, <2>2
    <2>4. \A k \in Breaks(head) : k > e + 1 => f + 1 <= k
      <3> SUFFICES ASSUME NEW k \in Breaks(head), k > e + 1
                   PROVE  f + 1 <= k
        OBVIOUS
      <3>1. k \in Nat /\ k - 1 \in LineEnds(bytes) /\ k - 1 > e
        BY <1>3, <1>8, <2>1
      <3> QED
        BY <2>1, <3>1
    <2>5. NextBreak(head, e + 1, f + 1)
      BY <2>1, <2>2, <2>4 DEF NextBreak
    <2>6. (f + 1) - (e + 1) - 2 \in 1 .. MaxHeader
      BY <1>2, <1>5, <2>3, <2>5 DEF LinesFit
    <2> QED
      BY <2>1, <2>6
  <1>12. \A e \in HeadEnds(bytes) : headEnd <= e
    <2> SUFFICES ASSUME NEW e \in LineEnds(bytes), e + 2 \in LineEnds(bytes),
                        e < headEnd
                 PROVE  FALSE
      BY <1>6, <1>7 DEF HeadEnds
    <2>1. e \in Nat /\ e + 2 <= headEnd
      BY <1>7, <1>9
    <2>2. \A k \in LineEnds(bytes) : k > e => e + 2 <= k
      <3> SUFFICES ASSUME NEW k \in LineEnds(bytes), k > e PROVE e + 2 <= k
        OBVIOUS
      <3>1. k \in Nat /\ k # e + 1
        BY <1>7
      <3> QED
        BY <2>1, <3>1
    <2>3. (e + 2) - e - 2 \in 1 .. MaxHeader
      BY <1>11, <2>1, <2>2
    <2> QED
      BY <2>1, <2>3
  <1>13. Found(bytes, lineEnd, headEnd)
    BY <1>9, <1>10, <1>12 DEF Found, HeadEnds
  <1>14. \A i \in 1 .. headEnd + 4 :
            bytes[i] = X \/ i - 1 \in LineEnds(bytes) \/ i - 2 \in LineEnds(bytes)
    <2> SUFFICES ASSUME NEW i \in 1 .. headEnd + 4
                 PROVE  \/ bytes[i] = X
                        \/ i - 1 \in LineEnds(bytes) \/ i - 2 \in LineEnds(bytes)
      OBVIOUS
    <2>1. i \in 1 .. n /\ i - 1 \in Nat /\ head[i] = bytes[i] /\ bytes[i] \in Bytes
      BY <1>2, <1>6
    <2>2. bytes[i] = CR => i - 1 \in LineEnds(bytes)
      BY <1>2, <1>5, <2>1 DEF CleanLines
    <2>3. bytes[i] = LF => (i - 1) - 1 \in LineEnds(bytes)
      BY <1>2, <1>5, <1>8, <2>1 DEF CleanLines
    <2> QED
      BY <2>1, <2>2, <2>3 DEF Bytes
  <1>15. Cardinality(Starts(bytes, lineEnd, headEnd)) <= MaxHeaderCount
    <2>1. Breaks(head) = {i \in 1 .. headEnd + 3 : i - 1 \in LineEnds(bytes)}
      BY <1>2, <1>6
    <2>2. PICK c \in Nat : /\ c = Cardinality(Starts(bytes, lineEnd, headEnd))
                           /\ Cardinality(Breaks(head)) = c + 2
      <3>1. PICK breaks : breaks = Breaks(head)
        OBVIOUS
      <3>2. breaks = {i \in 1 .. headEnd + 3 : i - 1 \in LineEnds(bytes)}
        BY <2>1, <3>1
      <3> QED
        BY <1>13, <3>1, <3>2, BreaksCounted
    <2>3. MaxHeaderCount \in Nat
      BY DEF Assumptions
    <2> QED
      BY <1>5, <2>2, <2>3
  <1>16. /\ lineEnd <= headEnd /\ lineEnd \in 1 .. MaxRequestLine
         /\ lineEnd # headEnd => headEnd - lineEnd - 2 <= MaxHeaderBlock
    <2>1. lineEnd <= headEnd
      BY <1>9, <1>10
    <2>2. MaxRequestLine \in Nat /\ MaxHeaderBlock \in Nat
      BY DEF Assumptions
    <2> QED
      BY <1>5, <1>6, <2>1, <2>2
  <1>17. headEnd + 4 <= Len(bytes)
    BY <1>6
  <1> QED
    BY <1>11, <1>13, <1>14, <1>15, <1>16, <1>17 DEF HeadAt

\* A part of such a stream that the parser refuses, or finds incomplete.
LEMMA RefusedIsCut ==
    ASSUME Assumptions, NEW bytes \in Seq(Bytes), NEW size0 \in 0 .. Len(bytes),
           NEW input, input = SubSeq(bytes, 1, size0),
           NEW lineEnd \in Nat, NEW headEnd \in Nat,
           HeadAt(bytes, lineEnd, headEnd), headEnd + 4 <= Len(bytes)
    PROVE  /\ Parse(input) = "bad" => size0 = MaxRequestLine + 1 /\ bytes[size0] = CR
           /\ Parse(input) = "incomplete" => size0 < MaxHead
  <1>1. /\ size0 \in Nat /\ Len(bytes) \in Nat
        /\ MaxRequestLine \in Nat /\ MaxHeader \in Nat
        /\ MaxHeaderBlock \in Nat /\ MaxHeaderCount \in Nat
    BY DEF Assumptions
  <1>2. /\ input \in Seq(Bytes) /\ Len(input) = size0
        /\ \A i \in 1 .. size0 : input[i] = bytes[i]
        /\ LineEnds(input) = {e \in LineEnds(bytes) : e + 2 <= size0}
    BY <1>1, LinesOfPart
  <1>3. /\ LineEnds(bytes) \in SUBSET Nat
        /\ \A e \in LineEnds(bytes) : e + 1 \notin LineEnds(bytes)
        /\ lineEnd \in LineEnds(bytes) /\ \A e \in LineEnds(bytes) : lineEnd <= e
        /\ headEnd \in LineEnds(bytes) /\ headEnd + 2 \in LineEnds(bytes)
        /\ \A e \in HeadEnds(bytes) : headEnd <= e
    BY NoOverlap DEF HeadAt, Found, HeadEnds
  <1>4. /\ lineEnd <= headEnd /\ lineEnd \in 1 .. MaxRequestLine
        /\ lineEnd # headEnd => headEnd - lineEnd - 2 <= MaxHeaderBlock
        /\ headEnd + 4 <= MaxHead
    <2>1. /\ lineEnd <= headEnd /\ lineEnd \in 1 .. MaxRequestLine
          /\ lineEnd # headEnd => headEnd - lineEnd - 2 <= MaxHeaderBlock
      BY DEF HeadAt
    <2> QED
      BY <1>1, <2>1 DEF MaxHead
  <1>5. CASE size0 < lineEnd + 2
    <2>1. LineEnds(input) = {}
      BY <1>2, <1>3, <1>5
    <2>2. Parse(input) = IF size0 > MaxRequestLine THEN "bad" ELSE "incomplete"
      BY <1>2, <2>1, Zenon DEF Parse, LineTooLong
    <2>3. Parse(input) = "bad" => size0 = MaxRequestLine + 1 /\ size0 = lineEnd + 1
      BY <1>1, <1>4, <1>5, <2>2
    <2>4. bytes[lineEnd + 1] = CR
      BY <1>3 DEF LineEnds
    <2>5. size0 < MaxHead
      BY <1>1, <1>4, <1>5 DEF MaxHead
    <2> QED
      BY <2>3, <2>4, <2>5
  <1>6. CASE size0 >= lineEnd + 2
    <2>1. lineEnd \in LineEnds(input) /\ \A e \in LineEnds(input) : lineEnd <= e
      BY <1>2, <1>3, <1>6
    <2>2. LineEnds(input) # {} /\ lineEnd = First(LineEnds(input))
      <3>1. LineEnds(input) \in SUBSET Nat
        BY <1>2, <1>3
      <3> QED
        BY <2>1, <3>1, FirstIsLeast
    <2>3. ~(lineEnd > MaxRequestLine)
      BY <1>1, <1>4
    <2>4. HeadEnds(input) = {e \in HeadEnds(bytes) : e + 4 <= size0}
      <3> SUFFICES ASSUME NEW e
                   PROVE  e \in HeadEnds(input) <=> e \in HeadEnds(bytes) /\ e + 4 <= size0
        OBVIOUS
      <3>1. PICK ends \in SUBSET Nat : ends = LineEnds(bytes)
        BY <1>3
      <3>2. LineEnds(input) = {i \in ends : i + 2 <= size0}
        BY <1>2, <3>1
      <3>3. CASE e \in ends
        <4>1. e \in Nat /\ e + 2 \in Nat /\ (e + 2) + 2 = e + 4
          BY <3>1, <3>3
        <4>2. e + 4 <= size0 => e + 2 <= size0
          BY <1>1, <4>1
        <4>3. e + 2 \in LineEnds(input) <=> e + 2 \in ends /\ e + 4 <= size0
          BY <3>2, <4>1
        <4>4. e \in LineEnds(input) <=> e + 2 <= size0
          BY <3>2, <3>3
        <4> QED
          BY <3>1, <3>3, <4>2, <4>3, <4>4, Zenon DEF HeadEnds
      <3>4. CASE e \notin ends
        <4>1. e \notin LineEnds(input)
          BY <3>2, <3>4
        <4> QED
          BY <3>1, <3>4, <4>1, Zenon DEF HeadEnds
      <3> QED
        BY <3>3, <3>4
    <2>5. CASE size0 < headEnd + 4
      <3>1. HeadEnds(input) = {}
        <4> SUFFICES ASSUME NEW e \in HeadEnds(input) PROVE FALSE
          OBVIOUS
        <4>1. e \in HeadEnds(bytes) /\ e + 4 <= size0
          BY <2>4
        <4>2. e \in Nat
          BY <1>3, <4>1 DEF HeadEnds
        <4>3. headEnd <= e
          BY <1>3, <4>1
        <4> QED
          BY <1>1, <2>5, <4>1, <4>2, <4>3
      <3>2. size0 < MaxHead /\ ~(Len(input) >= MaxHead)
        BY <1>1, <1>2, <1>4, <2>5 DEF MaxHead
      <3>3. Parse(input) = "incomplete"
        BY <2>2, <2>3, <3>1, <3>2, Zenon DEF Parse
      <3> QED
        BY <3>2, <3>3
    <2>6. CASE size0 >= headEnd + 4
      <3>1. headEnd \in HeadEnds(input) /\ \A e \in HeadEnds(input) : headEnd <= e
        BY <1>3, <2>4, <2>6 DEF HeadEnds
      <3>2. HeadEnds(input) # {} /\ headEnd = First(HeadEnds(input))
        <4>1. HeadEnds(input) \in SUBSET Nat
          BY <1>2, <1>3 DEF HeadEnds
        <4> QED
          BY <3>1, <4>1, FirstIsLeast
      <3>3. BlockSize(lineEnd, headEnd) <= MaxHeaderBlock
        BY <1>1, <1>4 DEF BlockSize
      <3>4. \A i \in 1 .. headEnd + 4 :
               \/ input[i] = X
               \/ i - 1 \in LineEnds(bytes) \/ i - 2 \in LineEnds(bytes)
        <4>1. \A i \in 1 .. headEnd + 4 : input[i] = bytes[i]
          BY <1>1, <1>2, <2>6
        <4> QED
          BY <4>1 DEF HeadAt
      <3>5. ParsesAsRequestLine(input, lineEnd)
        <4> SUFFICES ASSUME NEW i \in 1 .. lineEnd PROVE input[i] = X
          <5>1. lineEnd > 0 /\ 0 + 1 = 1
            BY <1>1, <1>4
          <5> QED
            BY <5>1, Zenon DEF ParsesAsRequestLine, Text
        <4>1. i \in 1 .. headEnd + 4 /\ ~(lineEnd <= i - 1) /\ ~(lineEnd <= i - 2)
          BY <1>4
        <4> QED
          BY <1>3, <3>4, <4>1
      <3>6. ParsesAsHeaders(input, lineEnd, headEnd)
        <4>1. Starts(input, lineEnd, headEnd) = Starts(bytes, lineEnd, headEnd)
          <5>1. {i \in LineEnds(input) : lineEnd <= i /\ i < headEnd}
                  = {i \in LineEnds(bytes) : lineEnd <= i /\ i < headEnd}
            BY <1>1, <1>2, <1>3, <2>6
          <5> QED
            BY <5>1, Zenon DEF Starts
        <4>2. Cardinality(Starts(input, lineEnd, headEnd)) <= MaxHeaderCount
          BY <4>1, Zenon DEF HeadAt
        <4>3. ASSUME NEW e \in LineEnds(input), lineEnd <= e, e < headEnd,
                     NEW end, end = First({i \in LineEnds(input) : e + 2 <= i})
              PROVE  /\ end > e + 2 /\ end - (e + 2) <= MaxHeader
                     /\ Text(input, e + 2, end)
          <5> DEFINE later == {i \in LineEnds(input) : e + 2 <= i}
          <5>1. e \in Nat /\ e \in LineEnds(bytes) /\ later \in SUBSET Nat
            BY <1>2, <1>3
          <5>2. headEnd \in later
            <6>0. headEnd + 2 <= size0 /\ headEnd # e + 1
              BY <1>1, <1>3, <2>6, <5>1
            <6>1. headEnd # e + 1 /\ headEnd \in LineEnds(input)
              BY <1>2, <1>3, <6>0
            <6> QED
              BY <4>3, <5>1, <6>1
          <5>3. end \in later /\ \A i \in later : end <= i
            BY <4>3, <5>1, <5>2, FirstIsLeast
          <5>4. /\ end \in Nat /\ end \in LineEnds(bytes) /\ e < end
                /\ end <= headEnd /\ end >= e + 2 /\ end + 2 <= size0
            BY <1>2, <5>1, <5>2, <5>3
          <5>5. \A k \in LineEnds(bytes) : k > e => end <= k
            <6> SUFFICES ASSUME NEW k \in LineEnds(bytes), k > e, k < end
                         PROVE  FALSE
              BY <1>3, <5>4
            <6>1. k \in Nat /\ k # e + 1
              BY <1>3, <5>1
            <6>2. k + 2 <= size0 /\ e + 2 <= k
              BY <1>1, <5>1, <5>4, <6>1
            <6>3. k \in later
              BY <1>2, <6>2
            <6> QED
              BY <5>3, <5>4, <6>1, <6>3
          <5>6. end - e - 2 \in 1 .. MaxHeader
            BY <5>1, <5>4, <5>5 DEF HeadAt
          <5>7. end > e + 2 /\ end - (e + 2) <= MaxHeader
            BY <1>1, <5>1, <5>4, <5>6
          <5>8. ASSUME NEW i \in e + 3 .. end PROVE input[i] = X
            <6>1. i \in 1 .. headEnd + 4 /\ i - 1 > e /\ i - 2 > e /\ ~(end <= i - 1) /\ ~(end <= i - 2)
              BY <5>1, <5>4
            <6> QED
              BY <3>4, <5>5, <6>1
          <5>9. Text(input, e + 2, end)
            BY <5>1, <5>4, <5>8 DEF Text
          <5> QED
            BY <5>7, <5>9
        <4>4. \A start \in Starts(input, lineEnd, headEnd) :
                 LET end == First({i \in LineEnds(input) : start <= i})
                 IN /\ end > start /\ end - start <= MaxHeader
                    /\ Text(input, start, end)
          BY <4>3, Zenon DEF Starts
        <4> QED
          BY <4>2, <4>4, Zenon DEF ParsesAsHeaders, Starts
      <3> QED
        BY <2>2, <2>3, <3>2, <3>3, <3>5, <3>6 DEF Parse
    <2> QED
      BY <1>1, <2>5, <2>6
  <1> QED
    BY <1>1, <1>5, <1>6

-----------------------------------------------------------------------------
(* The specification.                                                      *)

\* The inductive invariant.  That the buffer holds no more than was sent ties
\* size to the stream, which TypeOK does not.
IndInv ==
    /\ TypeOK /\ size <= Len(stream)
    /\ AcceptsTheHead
    /\ RejectsNoValidHead

\* What Accept takes off the buffer is a valid head of the stream.
LEMMA AcceptedFromStream ==
    ASSUME Assumptions, NEW bytes \in Seq(Bytes), NEW n \in 0 .. Len(bytes),
           NEW input, input = SubSeq(bytes, 1, n), Parse(input) = "good"
    PROVE  Consumed(input) \in HeadsOf(bytes)
  <1>1. /\ n \in Nat /\ Len(bytes) \in Nat /\ input \in Seq(Bytes) /\ Len(input) = n
        /\ \A i \in 1 .. n : input[i] = bytes[i]
    <2>1. n \in Nat /\ Len(bytes) \in Nat
      OBVIOUS
    <2> QED
      BY <2>1, LinesOfPart
  <1>2. PICK c : c = Consumed(input)
    OBVIOUS
  <1>3. c \in 5 .. n /\ ValidHead(SubSeq(input, 1, c))
    BY <1>1, <1>2, AcceptedIsValid
  <1>4. /\ c \in Nat /\ c \in 0 .. Len(input) /\ c \in 0 .. Len(bytes)
    BY <1>1, <1>3
  <1>5. SubSeq(input, 1, c) = SubSeq(bytes, 1, c)
    <2>1. PICK a, b : a = SubSeq(input, 1, c) /\ b = SubSeq(bytes, 1, c)
      OBVIOUS
    <2>2. a \in Seq(Bytes) /\ Len(a) = c /\ \A i \in 1 .. c : a[i] = input[i]
      BY <1>1, <1>4, <2>1, LinesOfPart
    <2>3. b \in Seq(Bytes) /\ Len(b) = c /\ \A i \in 1 .. c : b[i] = bytes[i]
      BY <1>4, <2>1, LinesOfPart
    <2>4. \A i \in 1 .. c : a[i] = b[i]
      BY <1>1, <1>3, <2>2, <2>3
    <2>5. a = b
      BY <2>2, <2>3, <2>4, SeqEqual
    <2> QED
      BY <2>1, <2>5
  <1> QED
    BY <1>2, <1>3, <1>4, <1>5 DEF HeadsOf

\* Nor does Reject refuse a stream with a valid head, but at the one cut.
LEMMA RejectedFromStream ==
    ASSUME Assumptions, NEW bytes \in Seq(Bytes), NEW n \in 0 .. Len(bytes),
           NEW input, input = SubSeq(bytes, 1, n),
           \/ Parse(input) = "bad"
           \/ Parse(input) = "incomplete" /\ n >= MaxHead,
           HeadsOf(bytes) # {}
    PROVE  n = MaxRequestLine + 1 /\ bytes[n] = CR
  <1>1. PICK m \in 0 .. Len(bytes) : ValidHead(SubSeq(bytes, 1, m))
    BY DEF HeadsOf
  <1>2. PICK lineEnd, headEnd \in Nat :
          HeadAt(bytes, lineEnd, headEnd) /\ headEnd + 4 <= Len(bytes)
    BY <1>1, ValidHeadIsThere
  <1>3. /\ Parse(input) = "bad" => n = MaxRequestLine + 1 /\ bytes[n] = CR
        /\ Parse(input) = "incomplete" => n < MaxHead
    BY <1>2, RefusedIsCut
  <1>4. MaxHead \in Nat /\ n \in Nat
    BY DEF MaxHead, Assumptions
  <1> QED
    BY <1>3, <1>4

\* The buffer is empty, or holds what an earlier request left.
LEMMA InitHolds ==
    ASSUME Assumptions, Init
    PROVE  IndInv
  <1>1. MaxHead \in Nat
    BY DEF MaxHead, Assumptions
  <1>2. stream \in Seq({CR, LF, X}) /\ Len(stream) \in Nat
    BY DEF Init, Assumptions
  <1>3. size \in Nat /\ size <= Len(stream) /\ size <= MaxHead
    BY <1>2 DEF Init
  <1>4. TypeOK
    BY <1>1, <1>2, <1>3 DEF TypeOK, Init
  <1> QED
    BY <1>3, <1>4 DEF Init, IndInv, AcceptsTheHead, RejectsNoValidHead

\* Every step keeps the invariant.
LEMMA StepHolds ==
    ASSUME Assumptions, IndInv, [Next]_vars
    PROVE  IndInv'
  <1>1. MaxHead \in Nat
    BY DEF MaxHead, Assumptions
  <1>2. /\ stream \in Seq(Bytes) /\ Len(stream) \in Nat
        /\ size \in Nat /\ size <= Len(stream) /\ size <= MaxHead
    BY <1>1 DEF IndInv, TypeOK, Bytes
  <1>3. size \in 0 .. Len(stream)
    BY <1>2
  <1>4. CASE Accept
    <2>1. PICK bytes, n, input : bytes = stream /\ n = size /\ input = Buffer
      OBVIOUS
    <2>2. /\ bytes \in Seq(Bytes) /\ n \in 0 .. Len(bytes)
          /\ input = SubSeq(bytes, 1, n) /\ Parse(input) = "good"
      BY <1>2, <1>3, <1>4, <2>1 DEF Accept, Buffer
    <2>3. Consumed(input) \in HeadsOf(bytes)
      BY <2>2, AcceptedFromStream
    <2>4. /\ consumed' = Consumed(input) /\ stream' = bytes /\ size' = size
          /\ outcome' = "accepted" /\ stream' = stream
      BY <1>4, <2>1 DEF Accept
    <2>5. consumed' \in 0 .. Len(stream')
      BY <2>3, <2>4 DEF HeadsOf
    <2>6. TypeOK'
      BY <2>4, <2>5 DEF IndInv, TypeOK
    <2>7. AcceptsTheHead'
      BY <2>3, <2>4 DEF AcceptsTheHead
    <2>8. RejectsNoValidHead'
      BY <2>4 DEF RejectsNoValidHead
    <2> QED
      BY <1>2, <2>4, <2>6, <2>7, <2>8 DEF IndInv
  <1>5. CASE Reject
    <2>1. PICK bytes, n, input : bytes = stream /\ n = size /\ input = Buffer
      OBVIOUS
    <2>2. /\ bytes \in Seq(Bytes) /\ n \in 0 .. Len(bytes)
          /\ input = SubSeq(bytes, 1, n)
          /\ \/ Parse(input) = "bad"
             \/ Parse(input) = "incomplete" /\ n >= MaxHead
      BY <1>2, <1>3, <1>5, <2>1 DEF Reject, Buffer
    <2>3. HeadsOf(bytes) # {} => n = MaxRequestLine + 1 /\ bytes[n] = CR
      BY <2>2, RejectedFromStream
    <2>4. /\ stream' = bytes /\ size' = n /\ outcome' = "rejected"
          /\ stream' = stream /\ size' = size /\ consumed' = consumed
      BY <1>5, <2>1 DEF Reject
    <2>5. TypeOK'
      BY <2>4 DEF IndInv, TypeOK
    <2>6. RejectsNoValidHead'
      BY <2>3, <2>4 DEF RejectsNoValidHead, CrAtTheLimit
    <2>7. AcceptsTheHead'
      BY <2>4 DEF AcceptsTheHead
    <2> QED
      BY <1>2, <2>4, <2>5, <2>6, <2>7 DEF IndInv
  <1>6. CASE Read
    <2>1. /\ stream' = stream /\ outcome' = "reading" /\ outcome = "reading"
          /\ consumed' = consumed /\ size' \in (size + 1) .. ReadLimit
      BY <1>6 DEF Read
    <2>2. size' \in Nat /\ size' <= Len(stream) /\ size' <= MaxHead
      BY <1>1, <1>2, <2>1 DEF ReadLimit
    <2>3. TypeOK'
      BY <1>1, <2>1, <2>2 DEF IndInv, TypeOK
    <2> QED
      BY <2>1, <2>2, <2>3 DEF IndInv, AcceptsTheHead, RejectsNoValidHead
  <1>7. CASE ReadEof
    <2>1. /\ stream' = stream /\ outcome' = "disconnected"
          /\ consumed' = consumed /\ size' = size
      BY <1>7 DEF ReadEof
    <2>2. TypeOK'
      BY <2>1 DEF IndInv, TypeOK
    <2> QED
      BY <1>2, <2>1, <2>2 DEF IndInv, AcceptsTheHead, RejectsNoValidHead
  <1>8. CASE UNCHANGED vars
    <2>1. /\ stream' = stream /\ outcome' = outcome
          /\ consumed' = consumed /\ size' = size
      BY <1>8 DEF vars
    <2> QED
      BY <2>1 DEF IndInv, TypeOK, AcceptsTheHead, RejectsNoValidHead, CrAtTheLimit
  <1> QED
    BY <1>4, <1>5, <1>6, <1>7, <1>8 DEF Next

\* The invariant holds of every behaviour.
LEMMA Invariance == ASSUME Assumptions PROVE Spec => []IndInv
  <1>1. Init => IndInv
    BY InitHolds
  <1>2. IndInv /\ [Next]_vars => IndInv'
    BY StepHolds
  <1> QED
    BY <1>1, <1>2, PTL DEF Spec

\* The buffer stays within MAX_REQUEST_HEAD_SIZE and the rest is well formed.
THEOREM TypeCorrect == ASSUME Assumptions PROVE Spec => []TypeOK
  <1>1. IndInv => TypeOK
    BY DEF IndInv
  <1> QED
    BY <1>1, Invariance, PTL

\* However a stream is cut into reads, what read_request_head hands on is
\* exactly a valid head at its start.
THEOREM AcceptsExactly == ASSUME Assumptions PROVE Spec => []AcceptsTheHead
  <1>1. IndInv => AcceptsTheHead
    BY DEF IndInv
  <1> QED
    BY <1>1, Invariance, PTL

\* A stream that begins with a valid head is refused at one cut only: after
\* the CR of a request line of maximal length.
THEOREM RefusesOnlyAtTheCut == ASSUME Assumptions PROVE Spec => []RejectsNoValidHead
  <1>1. IndInv => RejectsNoValidHead
    BY DEF IndInv
  <1> QED
    BY <1>1, Invariance, PTL
=============================================================================
