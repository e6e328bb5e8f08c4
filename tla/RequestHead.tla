---------------------------- MODULE RequestHead ----------------------------
(***************************************************************************)
(* read_request_head of server.rs over parse_request_with_consumed of      *)
(* http.rs: a head is parsed again, from its first byte, after every read, *)
(* until it is complete, refused or over the size limits.                  *)
(*                                                                         *)
(* Of the bytes only CR and LF are told apart; X is a byte of well formed  *)
(* text, so that a non-empty line without CR and LF parses.  What the      *)
(* fields say is not modelled.                                             *)
(***************************************************************************)
EXTENDS Naturals, Sequences, FiniteSets

CONSTANTS
    CR, LF, X,
    Streams,            \* what clients may send, head and what follows it
    MaxRequestLine,     \* MAX_REQUEST_LINE_SIZE
    MaxHeader,          \* MAX_HEADER_SIZE
    MaxHeaderBlock,     \* MAX_HEADER_BLOCK_SIZE
    MaxHeaderCount      \* MAX_HEADER_COUNT

MaxHead == MaxRequestLine + 2 + MaxHeaderBlock + 4

Assumptions ==
    /\ CR # LF /\ CR # X /\ LF # X
    /\ Streams \subseteq Seq({CR, LF, X})
    /\ {MaxRequestLine, MaxHeader, MaxHeaderBlock, MaxHeaderCount} \subseteq Nat

VARIABLES
    stream,    \* everything the client sends
    size,      \* bytes of it in the buffer
    outcome,   \* "reading", "accepted", "rejected" or "disconnected"
    consumed   \* length of the accepted head

vars == <<stream, size, outcome, consumed>>

-----------------------------------------------------------------------------
(* http.rs                                                                 *)

\* find_bytes(input, "\r\n") and find_bytes(input, "\r\n\r\n"): the places
\* before which the needle begins, counted in bytes from 0.
LineEnds(input) ==
    {i \in 0..(Len(input) - 2) : input[i + 1] = CR /\ input[i + 2] = LF}

HeadEnds(input) == {i \in LineEnds(input) : i + 2 \in LineEnds(input)}

First(places) == CHOOSE i \in places : \A j \in places : i <= j

Text(input, from, to) == \A i \in (from + 1)..to : input[i] = X

\* parse_headers on the block between the request line and the empty line:
\* the lines begin at `starts` and end before `ends`.
ParsesAsHeaders(input, lineEnd, headEnd) ==
    LET breaks == {i \in LineEnds(input) : lineEnd <= i /\ i < headEnd}
        starts == {i + 2 : i \in breaks}
        EndOf(start) == First({i \in LineEnds(input) : start <= i})
    IN /\ Cardinality(starts) <= MaxHeaderCount
       /\ \A start \in starts :
              /\ EndOf(start) > start
              /\ EndOf(start) - start <= MaxHeader
              /\ Text(input, start, EndOf(start))

ParsesAsRequestLine(input, lineEnd) == lineEnd > 0 /\ Text(input, 0, lineEnd)

BlockSize(lineEnd, headEnd) ==
    IF lineEnd = headEnd THEN 0 ELSE headEnd - (lineEnd + 2)

\* Mutant: off by one.
LineTooLongByOne(input) == Len(input) >= MaxRequestLine

\* No CRLF yet: is what there is too long for a request line?
LineTooLong(input) == Len(input) > MaxRequestLine

\* parse_request_with_consumed: "incomplete", "bad" or "good".
Parse(input) ==
    IF LineEnds(input) = {}
      THEN IF LineTooLong(input) THEN "bad" ELSE "incomplete"
      ELSE LET lineEnd == First(LineEnds(input))
           IN IF lineEnd > MaxRequestLine THEN "bad"
              ELSE IF HeadEnds(input) = {}
                THEN IF Len(input) >= MaxHead THEN "bad" ELSE "incomplete"
                ELSE LET headEnd == First(HeadEnds(input))
                     IN IF /\ BlockSize(lineEnd, headEnd) <= MaxHeaderBlock
                           /\ ParsesAsRequestLine(input, lineEnd)
                           /\ ParsesAsHeaders(input, lineEnd, headEnd)
                          THEN "good" ELSE "bad"

\* Mutant: the empty line is left in the buffer.
ConsumedUpToEmptyLine(input) == First(HeadEnds(input)) + 2

Consumed(input) == First(HeadEnds(input)) + 4

-----------------------------------------------------------------------------
(* server.rs                                                               *)

Buffer == SubSeq(stream, 1, size)

\* The buffer begins with what the previous request left in it.
Init ==
    /\ stream \in Streams
    /\ size \in {n \in 0..Len(stream) : n <= MaxHead}
    /\ outcome = "reading" /\ consumed = 0

Accept ==
    /\ outcome = "reading" /\ Parse(Buffer) = "good"
    /\ outcome' = "accepted" /\ consumed' = Consumed(Buffer)
    /\ UNCHANGED <<stream, size>>

\* A parse error, or an incomplete head that fills the buffer.
Reject ==
    /\ outcome = "reading"
    /\ \/ Parse(Buffer) = "bad"
       \/ Parse(Buffer) = "incomplete" /\ size >= MaxHead
    /\ outcome' = "rejected"
    /\ UNCHANGED <<stream, size, consumed>>

ReadLimit == IF MaxHead < Len(stream) THEN MaxHead ELSE Len(stream)

\* read() returns between one byte and as many as fit.
Read ==
    /\ outcome = "reading" /\ Parse(Buffer) = "incomplete" /\ size < MaxHead
    /\ size' \in (size + 1)..ReadLimit
    /\ UNCHANGED <<stream, outcome, consumed>>

ReadEof ==
    /\ outcome = "reading" /\ Parse(Buffer) = "incomplete" /\ size < MaxHead
    /\ size = Len(stream)
    /\ outcome' = "disconnected"
    /\ UNCHANGED <<stream, size, consumed>>

Next == Accept \/ Reject \/ Read \/ ReadEof

Spec == Init /\ [][Next]_vars

-----------------------------------------------------------------------------
(* Properties.                                                             *)

\* The state is well formed; the buffer never outgrows MAX_REQUEST_HEAD_SIZE,
\* whatever a previous request left in it and however reads fall.
TypeOK ==
    /\ stream \in Seq({CR, LF, X})
    /\ size \in 0..MaxHead
    /\ outcome \in {"reading", "accepted", "rejected", "disconnected"}
    /\ consumed \in 0..Len(stream)

\* A head as HTTP defines it, independently of how the parser finds it: lines
\* of text each ended by CRLF and then an empty line, within the limits.
ValidHead(head) ==
    LET n == Len(head)
        lineBreaks == {i \in 1..(n - 1) : head[i] = CR /\ head[i + 1] = LF}
        LineAfter(i) ==
            {j \in lineBreaks : j > i /\ \A k \in lineBreaks : k > i => j <= k}
        first == CHOOSE i \in lineBreaks : \A j \in lineBreaks : i <= j
    IN /\ n >= 5 /\ {n - 3, n - 1} \subseteq lineBreaks
       /\ \A i \in 1..n : head[i] = CR <=> i \in lineBreaks
       /\ \A i \in 1..n : head[i] = LF <=> i - 1 \in lineBreaks
       /\ first \in 2..(MaxRequestLine + 1)
       /\ \A i \in lineBreaks \ {n - 3, n - 1} : \A j \in LineAfter(i) :
              j - i - 2 \in 1..MaxHeader
       /\ Cardinality(lineBreaks) <= MaxHeaderCount + 2
       /\ first < n - 3 => n - 5 - first <= MaxHeaderBlock

HeadsOf(bytes) ==
    {n \in 0..Len(bytes) : ValidHead(SubSeq(bytes, 1, n))}

\* What is accepted is a valid head and exactly that: no byte of what follows
\* it is consumed, none of it is left behind.
AcceptsTheHead == outcome = "accepted" => consumed \in HeadsOf(stream)

\* The one place where fragmentation shows: a request line of exactly the
\* maximal length, with its CR in the buffer and its LF still to come.
CrAtTheLimit == size = MaxRequestLine + 1 /\ stream[size] = CR

\* A valid head within the limits is not rejected, whichever way it is cut
\* into reads, unless the cut leaves CrAtTheLimit.
RejectsNoValidHead ==
    outcome = "rejected" => HeadsOf(stream) = {} \/ CrAtTheLimit

\* A valid head within the limits is not rejected, whichever way it is cut
\* into reads (TODO.md: "reliably turn arbitrary fragmented TCP input into a
\* validated HTTP/1.1 request header").
FragmentationInvisible == outcome = "rejected" => HeadsOf(stream) = {}
=============================================================================
