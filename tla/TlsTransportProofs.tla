------------------------- MODULE TlsTransportProofs -------------------------
(***************************************************************************)
(* Proofs about TlsTransport, for every last sequence number, fragment     *)
(* limit and behaviour of clients and networks that Worlds allows.         *)
(*                                                                         *)
(* A direction of the connection cuts the bytes sent into records.  A cut  *)
(* c says where: the record with sequence number s carries the bytes after *)
(* c[s] up to c[s + 1].  Neither stream property is inductive without it.  *)
(* Outgoing says that the records sealed are such pieces, numbered in the  *)
(* order they were sealed, and that what the client has opened is a run of *)
(* them from the first on.  Incoming says that every record the network    *)
(* holds is damaged or the piece of its number, however often it is there  *)
(* and in whatever order, and that what has been read are the pieces of    *)
(* all numbers below the one the reader expects next.                      *)
(***************************************************************************)
EXTENDS TlsTransport, SequenceTheorems, TLAPS

Types == {"data", "close_notify", "user_canceled", "fatal", "handshake",
          "plaintext", "damaged", "torn"}

RecordType == [type : Types, seq : Nat, data : Seq(Nat)]

Typed ==
    /\ world \in WorldType
    /\ clientSent \in Nat /\ clientSeq \in 0 .. None /\ clientClosed \in BOOLEAN
    /\ readSeq \in 0 .. None /\ writeSeq \in 0 .. None
    /\ peerClosed \in BOOLEAN /\ eof \in BOOLEAN /\ failed \in BOOLEAN
    /\ closeSent \in BOOLEAN /\ clientEof \in BOOLEAN
    /\ buffer \in Seq(Nat) /\ got \in Seq(Nat) /\ clientGot \in Seq(Nat)
    /\ pending \in Nat /\ written \in Nat /\ clientRead \in Nat
    /\ sealed \in Seq(RecordType) /\ toClient \in Seq(RecordType)

\* A fatal alert erases both numbers while nothing is buffered.
Erased ==
    failed => /\ readSeq = None /\ writeSeq = None
              /\ buffer = <<>> /\ ~peerClosed

-----------------------------------------------------------------------------
(* Cuts.                                                                   *)

\* c cuts total bytes into n pieces.
Cut(c, n, total) ==
    /\ c \in [0 .. n -> Nat]
    /\ c[0] = 0 /\ c[n] = total
    /\ \A i, j \in 0 .. n : i <= j => c[i] <= c[j]

\* The piece with number s.
Piece(c, s) == Bytes(c[s], c[s + 1] - c[s])

\* e cuts size more bytes off, as piece n, and is otherwise the cut c.
Extends(e, c, n, total, size) ==
    /\ Cut(e, n + 1, total + size)
    /\ \A s \in 0 .. n : e[s] = c[s]
    /\ \A s \in 0 .. n : s < n => Piece(e, s) = Piece(c, s)
    /\ Piece(e, n) = Bytes(total, size)

Numbered(c, n) ==
    /\ n = Len(toClient)
    /\ writeSeq # None => n = writeSeq
    /\ \A i \in 1 .. n :
          /\ sealed[i].seq = i - 1 /\ sealed[i].data = Piece(c, i - 1)
          /\ sealed[i].type = "close_notify" =>
                closeSent /\ i = n /\ sealed[i].data = <<>>
          /\ toClient[i] = sealed[i] \/ toClient[i].type = "torn"

Opened(c, n) ==
    /\ clientRead <= n
    /\ clientGot = Bytes(0, c[clientRead])
    /\ clientEof => closeSent /\ clientRead = n

Outgoing ==
    \E c : /\ Cut(c, Len(sealed), written)
           /\ Numbered(c, Len(sealed))
           /\ Opened(c, Len(sealed))

\* Records that the client sealed, and damaged ones.
Authentic(c) ==
    {r \in RecordType :
        r.type # "damaged" =>
            /\ r.seq < clientSeq /\ r.data = Piece(c, r.seq)
            /\ r.type # "data" => r.data = <<>>
            /\ r.type = "close_notify" => clientClosed /\ r.seq + 1 = clientSeq}

Consumed(c) ==
    /\ ~failed => /\ readSeq <= clientSeq
                  /\ got \o buffer = Bytes(0, c[readSeq])
    /\ peerClosed => clientClosed /\ readSeq = clientSeq
    /\ eof => peerClosed /\ buffer = <<>>

Incoming ==
    \E c : /\ Cut(c, clientSeq, clientSent)
           /\ toServer \in Seq(Authentic(c))
           /\ Consumed(c)

IndInv ==
    /\ Typed
    /\ Erased
    /\ Outgoing
    /\ Incoming

-----------------------------------------------------------------------------
(* Lemmas about bytes and cuts.                                            *)

\* A run of bytes is a sequence of numbers.
LEMMA BytesType ==
    ASSUME NEW a \in Nat, NEW n \in Nat
    PROVE  /\ Bytes(a, n) \in Seq(Nat) /\ Len(Bytes(a, n)) = n
           /\ \A i \in 1 .. n : Bytes(a, n)[i] = a + i
  BY DEF Bytes

\* The bytes of a stream are their own positions in it.
LEMMA FirstBytes ==
    ASSUME NEW n \in Nat
    PROVE  /\ Bytes(0, n) \in Seq(Nat) /\ Len(Bytes(0, n)) = n
           /\ \A i \in 1 .. n : Bytes(0, n)[i] = i
  BY DEF Bytes

\* The run of no bytes is the empty sequence, and the only empty run.
LEMMA BytesEmpty ==
    ASSUME NEW a \in Nat, NEW n \in Nat
    PROVE  Bytes(a, n) = <<>> <=> n = 0
  <1>1. n = 0 => Bytes(a, n) = <<>>
    <2>1. <<>> \in Seq(Nat) /\ Len(<<>>) = 0
      BY EmptySeq
    <2> QED
      BY <2>1, BytesType, SeqEqual
  <1>2. Bytes(a, n) = <<>> => n = 0
    BY BytesType, EmptySeq
  <1> QED
    BY <1>1, <1>2

\* The first m bytes and the n bytes after them are the first m + n.
LEMMA BytesConcat ==
    ASSUME NEW m \in Nat, NEW n \in Nat
    PROVE  Bytes(0, m) \o Bytes(m, n) = Bytes(0, m + n)
  <1> DEFINE s == Bytes(0, m)
             t == Bytes(m, n)
             u == Bytes(0, m + n)
  <1>1. /\ s \in Seq(Nat) /\ Len(s) = m /\ \A i \in 1 .. m : s[i] = i
        /\ t \in Seq(Nat) /\ Len(t) = n /\ \A i \in 1 .. n : t[i] = m + i
        /\ u \in Seq(Nat) /\ Len(u) = m + n
        /\ \A i \in 1 .. (m + n) : u[i] = i
    <2>1. m + n \in Nat
      OBVIOUS
    <2>2. s \in Seq(Nat) /\ Len(s) = m /\ \A i \in 1 .. m : s[i] = i
      BY FirstBytes
    <2>3. t \in Seq(Nat) /\ Len(t) = n /\ \A i \in 1 .. n : t[i] = m + i
      BY BytesType
    <2>4. /\ u \in Seq(Nat) /\ Len(u) = m + n
          /\ \A i \in 1 .. (m + n) : u[i] = i
      BY <2>1, FirstBytes
    <2> QED
      BY <2>2, <2>3, <2>4
  <1> HIDE DEF s, t, u
  <1>2. /\ s \o t \in Seq(Nat) /\ Len(s \o t) = m + n
        /\ \A i \in 1 .. (m + n) :
              (s \o t)[i] = IF i <= m THEN s[i] ELSE t[i - m]
    <2>0. s \in Seq(Nat) /\ t \in Seq(Nat)
      BY <1>1
    <2>1. /\ s \o t \in Seq(Nat) /\ Len(s \o t) = Len(s) + Len(t)
          /\ \A i \in 1 .. Len(s) + Len(t) :
                (s \o t)[i] = IF i <= Len(s) THEN s[i] ELSE t[i - Len(s)]
      BY <2>0, ConcatProperties
    <2> QED
      BY <1>1, <2>1, Zenon
  <1>3. ASSUME NEW i \in 1 .. (m + n) PROVE (s \o t)[i] = u[i]
    <2>1. CASE i <= m
      BY <1>1, <1>2, <2>1
    <2>2. CASE ~(i <= m)
      <3>1. i - m \in 1 .. n
        BY <2>2
      <3>2. t[i - m] = m + (i - m)
        BY <1>1, <3>1
      <3>3. (s \o t)[i] = t[i - m] /\ u[i] = i
        BY <1>1, <1>2, <2>2
      <3> QED
        BY <3>2, <3>3
    <2> QED
      BY <2>1, <2>2
  <1>4. s \o t = u
    BY <1>1, <1>2, <1>3, SeqEqual
  <1> QED
    BY <1>4 DEF s, t, u

\* The first bytes written are a prefix of more of them, and a strict one if
\* there are more.
LEMMA BytesPrefix ==
    ASSUME NEW m \in Nat, NEW n \in Nat, m <= n
    PROVE  /\ IsPrefix(Bytes(0, m), Bytes(0, n))
           /\ m # n => IsStrictPrefix(Bytes(0, m), Bytes(0, n))
  <1> DEFINE s == Bytes(0, m)
             t == Bytes(0, n)
  <1>1. /\ s \in Seq(Nat) /\ Len(s) = m /\ \A i \in 1 .. m : s[i] = i
        /\ t \in Seq(Nat) /\ Len(t) = n /\ \A i \in 1 .. n : t[i] = i
    BY FirstBytes
  <1> HIDE DEF s, t
  <1>2. \A i \in 1 .. m : s[i] \in Nat /\ t[i] \in Nat
    BY <1>1
  <1>3. /\ SubSeq(s, 1, m) \in Seq(Nat) /\ Len(SubSeq(s, 1, m)) = m
        /\ \A i \in 1 .. m : SubSeq(s, 1, m)[i] = s[i]
        /\ SubSeq(t, 1, m) \in Seq(Nat) /\ Len(SubSeq(t, 1, m)) = m
        /\ \A i \in 1 .. m : SubSeq(t, 1, m)[i] = t[i]
    BY <1>2, SubSeqProperties
  <1>4. SubSeq(s, 1, m) = SubSeq(t, 1, m)
    BY <1>1, <1>3, SeqEqual
  <1>5. IsPrefix(s, t)
    BY <1>1, <1>4 DEF IsPrefix
  <1>6. m # n => s # t
    BY <1>1
  <1> QED
    BY <1>5, <1>6 DEF IsStrictPrefix, s, t

\* A read that returns the first n of the buffered bytes leaves the others.
LEMMA BytesSplit ==
    ASSUME NEW b \in Seq(Nat), NEW n \in 1 .. Len(b)
    PROVE  /\ SubSeq(b, 1, n) \in Seq(Nat) /\ Len(SubSeq(b, 1, n)) = n
           /\ SubSeq(b, n + 1, Len(b)) \in Seq(Nat)
           /\ SubSeq(b, 1, n) \o SubSeq(b, n + 1, Len(b)) = b
  <1>1. \A i \in 1 .. Len(b) : b[i] \in Nat
    BY ElementOfSeq
  <1>2. Len(b) \in Nat /\ n \in Nat /\ n <= Len(b) /\ 1 <= n
    BY LenProperties
  <1>3. SubSeq(b, 1, n) \in Seq(Nat) /\ Len(SubSeq(b, 1, n)) = n
    BY <1>1, <1>2, SubSeqProperties
  <1>4. SubSeq(b, n + 1, Len(b)) \in Seq(Nat)
    BY <1>1, <1>2, SubSeqProperties
  <1>5. SubSeq(b, 1, n) \o SubSeq(b, n + 1, Len(b)) = SubSeq(b, 1, Len(b))
    BY <1>2, ConcatAdjacentSubSeq
  <1> QED
    BY <1>3, <1>4, <1>5, SubSeqFull

\* Concatenation is associative, for sequences of bytes.
LEMMA BytesAssociative ==
    \A s, t, u \in Seq(Nat) : (s \o t) \o u = s \o (t \o u)
  <1> SUFFICES ASSUME NEW s \in Seq(Nat), NEW t \in Seq(Nat), NEW u \in Seq(Nat)
               PROVE  (s \o t) \o u = s \o (t \o u)
    OBVIOUS
  <1> QED
    BY ConcatAssociative, SMTT(30)

\* If what has been returned and a part of what is buffered are the first
\* bytes sent, what has been returned are the first of them.
LEMMA BytesTaken ==
    ASSUME NEW s \in Seq(Nat), NEW t \in Seq(Nat), NEW n \in Nat,
           s \o t = Bytes(0, n)
    PROVE  Len(s) \in 0 .. n /\ s = Bytes(0, Len(s))
  <1>1. Len(s) \in Nat /\ Len(t) \in Nat
    BY LenProperties
  <1>2. /\ Len(s \o t) = Len(s) + Len(t)
        /\ \A i \in 1 .. Len(s) + Len(t) :
              (s \o t)[i] = IF i <= Len(s) THEN s[i] ELSE t[i - Len(s)]
    BY ConcatProperties
  <1>3. Len(s) + Len(t) = n
    BY <1>2, FirstBytes
  <1>4. \A i \in 1 .. Len(s) : s[i] = i
    <2> TAKE i \in 1 .. Len(s)
    <2>1. i \in 1 .. n /\ i <= Len(s)
      BY <1>1, <1>3
    <2>2. (s \o t)[i] = s[i]
      BY <1>2, <1>3, <2>1
    <2> QED
      BY <2>1, <2>2, FirstBytes
  <1>5. /\ Bytes(0, Len(s)) \in Seq(Nat) /\ Len(Bytes(0, Len(s))) = Len(s)
        /\ \A i \in 1 .. Len(s) : Bytes(0, Len(s))[i] = i
    BY <1>1, FirstBytes
  <1>6. s = Bytes(0, Len(s))
    BY <1>4, <1>5, SeqEqual
  <1> QED
    BY <1>1, <1>3, <1>6

\* A piece continues the bytes before it.
LEMMA PieceFollows ==
    ASSUME NEW n \in Nat, NEW total \in Nat, NEW c, Cut(c, n, total),
           NEW s \in 0 .. n, s < n
    PROVE  /\ c[s] \in Nat /\ c[s + 1] \in Nat /\ c[s] <= c[s + 1]
           /\ c[s + 1] <= total /\ Piece(c, s) \in Seq(Nat)
           /\ Bytes(0, c[s]) \o Piece(c, s) = Bytes(0, c[s + 1])
           /\ Piece(c, s) = <<>> <=> c[s] = c[s + 1]
  <1>1. s + 1 \in 0 .. n
    OBVIOUS
  <1>2. /\ c[s] \in Nat /\ c[s + 1] \in Nat /\ c[s] <= c[s + 1]
        /\ c[s + 1] <= total
    BY <1>1 DEF Cut
  <1> DEFINE d == c[s + 1] - c[s]
  <1>3. d \in Nat /\ c[s] + d = c[s + 1] /\ (d = 0 <=> c[s] = c[s + 1])
    BY <1>2
  <1>4. Piece(c, s) = Bytes(c[s], d)
    BY DEF Piece
  <1> HIDE DEF d
  <1>5. Bytes(0, c[s]) \o Bytes(c[s], d) = Bytes(0, c[s] + d)
    BY <1>2, <1>3, BytesConcat
  <1>6. Bytes(0, c[s]) \o Piece(c, s) = Bytes(0, c[s + 1])
    BY <1>3, <1>4, <1>5
  <1>7. Piece(c, s) \in Seq(Nat) /\ (Piece(c, s) = <<>> <=> d = 0)
    <2>1. Bytes(c[s], d) \in Seq(Nat) /\ (Bytes(c[s], d) = <<>> <=> d = 0)
      BY <1>2, <1>3, BytesType, BytesEmpty, Zenon
    <2> QED
      BY <1>4, <2>1, Zenon
  <1> QED
    BY <1>2, <1>3, <1>6, <1>7

\* One more piece leaves the others as they are.
LEMMA ExtendCut ==
    ASSUME NEW n \in Nat, NEW total \in Nat, NEW size \in Nat, NEW c,
           Cut(c, n, total)
    PROVE  \E e : Extends(e, c, n, total, size)
  <1> DEFINE e == [i \in 0 .. (n + 1) |-> IF i <= n THEN c[i] ELSE c[n] + size]
  <1>1. /\ DOMAIN e = 0 .. (n + 1)
        /\ \A s \in 0 .. n : e[s] = c[s]
        /\ e[n + 1] = total + size
        /\ e \in [0 .. (n + 1) -> Nat]
    BY DEF Cut
  <1>2. \A s \in 0 .. n : c[s] \in Nat /\ c[s] <= total
    BY DEF Cut
  <1> HIDE DEF e
  <1>3. \A i, j \in 0 .. (n + 1) : i <= j => e[i] <= e[j]
    BY <1>1, <1>2 DEF Cut
  <1>4. e[0] = 0
    BY <1>1 DEF Cut
  <1>5. Cut(e, n + 1, total + size)
    BY <1>1, <1>3, <1>4 DEF Cut
  <1>6. \A s \in 0 .. n : s < n => Piece(e, s) = Piece(c, s)
    <2> TAKE s \in 0 .. n
    <2> HAVE s < n
    <2>1. s + 1 \in 0 .. n
      OBVIOUS
    <2> QED
      BY <1>1, <2>1 DEF Piece
  <1>7. Piece(e, n) = Bytes(total, size)
    <2>1. e[n] = total /\ e[n + 1] - e[n] = size
      BY <1>1 DEF Cut
    <2> QED
      BY <2>1 DEF Piece
  <1> QED
    BY <1>1, <1>5, <1>6, <1>7 DEF Extends

-----------------------------------------------------------------------------
(* Every step preserves the type, and a failed connection stays erased.    *)

\* The numbers of a direction end at None.
LEMMA NoneNat == None \in Nat /\ 0 \in 0 .. None /\ None \in 0 .. None
  BY MaxSeqNat DEF None

\* A record is well formed if its parts are.
LEMMA RecordTyped ==
    ASSUME NEW type \in Types, NEW seq \in Nat, NEW data \in Seq(Nat)
    PROVE  Record(type, seq, data) \in RecordType
  BY DEF Record, RecordType

\* A sealed record takes the next number, and the client receives it whole
\* or not at all.
LEMMA SealTyped ==
    ASSUME Typed, NEW type \in Types, NEW data \in Seq(Nat),
           Seals(type, data)
    PROVE  /\ writeSeq' \in 0 .. None /\ written' \in Nat
           /\ sealed' \in Seq(RecordType) /\ toClient' \in Seq(RecordType)
  <1>1. writeSeq \in Nat /\ writeSeq' \in 0 .. None
    BY NoneNat DEF Seals, CanSeal, Typed
  <1>2. written' \in Nat
    BY LenProperties DEF Seals, Typed
  <1>3. <<>> \in Seq(Nat)
    BY EmptySeq
  <1>4. /\ Record(type, writeSeq, data) \in RecordType
        /\ Record("torn", writeSeq, <<>>) \in RecordType
    BY <1>1, <1>3, RecordTyped DEF Types
  <1>5. sealed' \in Seq(RecordType)
    BY <1>4, AppendProperties DEF Seals, Typed
  <1>6. toClient' \in Seq(RecordType)
    <2>1. PICK r \in RecordType : toClient' = Append(toClient, r)
      BY <1>4 DEF Seals
    <2> QED
      BY <2>1, AppendProperties DEF Typed
  <1> QED
    BY <1>1, <1>2, <1>5, <1>6

\* A fragment is not empty, and no larger than what is left to write.
LEMMA FragmentSize ==
    ASSUME Typed, pending > 0
    PROVE  /\ Min2(pending, FragmentLimit) \in Nat \ {0}
           /\ pending - Min2(pending, FragmentLimit) \in Nat
           /\ Bytes(written, Min2(pending, FragmentLimit)) \in Seq(Nat)
           /\ Len(Bytes(written, Min2(pending, FragmentLimit)))
                  = Min2(pending, FragmentLimit)
  <1> DEFINE n == Min2(pending, FragmentLimit)
  <1>1. n \in Nat \ {0} /\ pending - n \in Nat /\ n \in Nat
    BY FragmentLimitPositive DEF Typed, Min2
  <1> HIDE DEF n
  <1>2. Bytes(written, n) \in Seq(Nat) /\ Len(Bytes(written, n)) = n
    BY <1>1, BytesType DEF Typed
  <1> QED
    BY <1>1, <1>2 DEF n

\* Every step keeps the state well formed.
LEMMA TypedStep ==
    ASSUME Typed, [Next]_vars, NEW c, Cut(c, clientSeq, clientSent),
           toServer \in Seq(Authentic(c))
    PROVE  Typed'
  <1> USE DEF client, network, reader, writer, receiver
  <1>0. CASE UNCHANGED vars
    BY <1>0 DEF vars, Typed
  <1>1. ASSUME NEW type \in Types, NEW data \in Seq(Nat), ClientSeals(type, data)
        PROVE  Typed'
    <2>1. /\ clientSeq' \in 0 .. None /\ clientSent' \in Nat
          /\ clientClosed' \in BOOLEAN
      BY <1>1, NoneNat, LenProperties DEF ClientSeals, Typed
    <2> QED
      BY <1>1, <2>1 DEF ClientSeals, Typed
  <1>2. CASE ClientSends
    <2>1. PICK n \in 0 .. FragmentLimit : ClientSeals("data", Bytes(clientSent, n))
      BY <1>2 DEF ClientSends
    <2>2. Bytes(clientSent, n) \in Seq(Nat)
      BY BytesType, FragmentLimitPositive DEF Typed
    <2> QED
      BY <1>1, <2>1, <2>2 DEF Types
  <1>3. CASE ClientCloses \/ ClientSendsOther
    <2>1. world.others \subseteq Types
      BY DEF Typed, WorldType, Types
    <2>2. PICK type \in Types : ClientSeals(type, <<>>)
      BY <1>3, <2>1 DEF Types, ClientCloses, ClientSendsOther
    <2> QED
      BY <1>1, <2>2, EmptySeq
  <1>4. CASE ClientFinishes
    BY <1>4 DEF ClientFinishes, Typed
  <1>5. CASE ClientReceives
    <2> DEFINE record == toClient[clientRead + 1]
    <2>1. record \in RecordType /\ clientRead + 1 \in Nat
      BY <1>5, LenProperties, ElementOfSeq DEF ClientReceives, Typed
    <2>2. record.data \in Seq(Nat)
      BY <2>1 DEF RecordType
    <2>3. clientGot' = clientGot \o record.data
      BY <1>5 DEF ClientReceives
    <2>4. clientEof' \in BOOLEAN
      BY <1>5 DEF ClientReceives
    <2> HIDE DEF record
    <2>5. clientGot' \in Seq(Nat)
      BY <2>2, <2>3, ConcatProperties DEF Typed
    <2>6. /\ UNCHANGED <<client, network, reader, writer, failed>>
          /\ clientRead' = clientRead + 1
      BY <1>5 DEF ClientReceives
    <2> QED
      BY <2>1, <2>4, <2>5, <2>6 DEF Typed
  <1>6. CASE NetworkFaults
    <2>1. world' = [world EXCEPT !.faults = @ - 1] /\ world.faults > 0
      BY <1>6 DEF NetworkFaults
    <2>2. world' \in WorldType
      <3>1. world \in WorldType /\ world.faults \in Nat
        BY DEF Typed, WorldType
      <3>2. world.faults - 1 \in Nat
        BY <2>1, <3>1
      <3> QED
        BY <2>1, <3>1, <3>2 DEF WorldType
    <2>3. UNCHANGED <<client, reader, writer, receiver, failed>>
      BY <1>6 DEF NetworkFaults
    <2> QED
      BY <2>2, <2>3 DEF Typed
  <1>7. CASE ReadTimesOut
    BY <1>7 DEF ReadTimesOut, Typed
  <1>8. CASE ReadBuffered
    <2>1. PICK n \in 1 .. Len(buffer) :
             /\ got' = got \o SubSeq(buffer, 1, n)
             /\ buffer' = SubSeq(buffer, n + 1, Len(buffer))
      BY <1>8 DEF ReadBuffered
    <2>2. got' \in Seq(Nat) /\ buffer' \in Seq(Nat)
      BY <2>1, BytesSplit, ConcatProperties DEF Typed
    <2> QED
      BY <1>8, <2>2 DEF ReadBuffered, Typed
  <1>9. CASE ReadTcpEnd \/ FinishServing
    BY <1>9 DEF ReadTcpEnd, FinishServing, Typed
  <1>10. CASE ReadData
    <2>1. Head(toServer) \in Authentic(c)
      BY <1>10, HeadTailProperties DEF ReadData, NextRecord
    <2>2. Head(toServer).data \in Seq(Nat)
      BY <2>1 DEF Authentic, RecordType
    <2>3. readSeq' \in 0 .. None
      BY <1>10, NoneNat DEF ReadData, Opens, Typed
    <2> QED
      BY <1>10, <2>2, <2>3 DEF ReadData, Typed
  <1>11. CASE ReadCloseNotify \/ ReadUserCanceled \/ ReadHandshake
    <2>1. readSeq' \in 0 .. None
      <3>1. readSeq' = readSeq + 1 /\ readSeq # None
        BY <1>11 DEF ReadCloseNotify, ReadUserCanceled, ReadHandshake, Opens
      <3>2. readSeq \in 0 .. None
        BY DEF Typed
      <3> QED
        BY <3>1, <3>2, NoneNat
    <2> QED
      BY <1>11, <2>1 DEF ReadCloseNotify, ReadUserCanceled, ReadHandshake,
         Typed
  <1>12. CASE ReadFatalAlert
    BY <1>12, NoneNat DEF ReadFatalAlert, Typed
  <1>13. CASE ReadFails
    BY <1>13 DEF ReadFails, Typed
  <1>14. CASE WriteCall
    <2>1. pending' \in Nat
      BY <1>14 DEF WriteCall, Typed, WorldType
    <2> QED
      BY <1>14, <2>1 DEF WriteCall, Typed
  <1>15. CASE WriteChunk
    <2> DEFINE n == Min2(pending, FragmentLimit)
    <2>1. /\ Seals("data", Bytes(written, n)) /\ pending > 0
          /\ pending' = 0 \/ pending' = pending - n
          /\ UNCHANGED <<client, network, reader, closeSent, receiver, failed>>
      BY <1>15 DEF WriteChunk
    <2>2. pending' \in Nat
      BY <2>1, FragmentSize
    <2>3. Bytes(written, n) \in Seq(Nat)
      BY <2>1, FragmentSize
    <2> HIDE DEF n
    <2>4. /\ writeSeq' \in 0 .. None /\ written' \in Nat
          /\ sealed' \in Seq(RecordType) /\ toClient' \in Seq(RecordType)
      BY <2>1, <2>3, SealTyped DEF Types
    <2> QED
      BY <2>1, <2>2, <2>4 DEF Typed
  <1>16. CASE WriteRefused
    BY <1>16 DEF WriteRefused, Typed
  <1>17. CASE SendCloseNotify
    <2>1. /\ writeSeq' \in 0 .. None /\ written' \in Nat
          /\ sealed' \in Seq(RecordType) /\ toClient' \in Seq(RecordType)
      BY <1>17, EmptySeq, SealTyped DEF SendCloseNotify, Types
    <2> QED
      BY <1>17, <2>1 DEF SendCloseNotify, Typed
  <1> QED
    BY <1>0, <1>2, <1>3, <1>4, <1>5, <1>6, <1>7, <1>8, <1>9, <1>10, <1>11,
       <1>12, <1>13, <1>14, <1>15, <1>16, <1>17 DEF Next, Reads

\* Every step keeps what a fatal alert has erased.
LEMMA ErasedStep == Erased /\ [Next]_vars => Erased'
  <1> SUFFICES ASSUME Erased, [Next]_vars PROVE Erased'
    OBVIOUS
  <1> USE DEF Erased, client, network, reader, writer, receiver
  <1>0. CASE UNCHANGED vars
    BY <1>0 DEF vars
  <1>1. CASE ClientSends \/ ClientCloses \/ ClientSendsOther
    BY <1>1 DEF ClientSends, ClientCloses, ClientSendsOther, ClientSeals
  <1>2. CASE ClientFinishes \/ ClientReceives \/ NetworkFaults
    BY <1>2 DEF ClientFinishes, ClientReceives, NetworkFaults
  <1>3. CASE ReadBuffered \/ ReadTcpEnd \/ ReadTimesOut \/ FinishServing
    BY <1>3 DEF ReadBuffered, ReadTcpEnd, ReadTimesOut, FinishServing
  <1>4. CASE ReadData \/ ReadCloseNotify \/ ReadUserCanceled \/ ReadHandshake
    BY <1>4 DEF ReadData, ReadCloseNotify, ReadUserCanceled, ReadHandshake, Opens
  <1>5. CASE ReadFatalAlert \/ ReadFails
    BY <1>5 DEF ReadFatalAlert, ReadFails, NextRecord
  <1>6. CASE WriteCall \/ WriteRefused
    BY <1>6 DEF WriteCall, WriteRefused
  <1>7. CASE WriteChunk \/ SendCloseNotify
    BY <1>7 DEF WriteChunk, SendCloseNotify, Seals, CanSeal
  <1> QED
    BY <1>0, <1>1, <1>2, <1>3, <1>4, <1>5, <1>6, <1>7 DEF Next, Reads

-----------------------------------------------------------------------------
(* What the server seals, and what the client makes of it.                 *)

\* Sealing a record that carries on where the last one ended.
LEMMA SealKeepsOutgoing ==
    ASSUME Typed, Outgoing, NEW type \in Types, NEW size \in Nat,
           Seals(type, Bytes(written, size)),
           closeSent' = (type = "close_notify"),
           type = "close_notify" => size = 0,
           UNCHANGED receiver
    PROVE  Outgoing'
  <1>1. PICK n \in Nat : n = Len(sealed)
    BY LenProperties DEF Typed
  <1>2. PICK c : Cut(c, n, written) /\ Numbered(c, n) /\ Opened(c, n)
    BY <1>1 DEF Outgoing
  <1>3. PICK e : Extends(e, c, n, written, size)
    BY <1>2, ExtendCut DEF Typed
  <1>4. PICK r : r = Record(type, writeSeq, Bytes(written, size))
    OBVIOUS
  <1>5. /\ Bytes(written, size) \in Seq(Nat) /\ Len(Bytes(written, size)) = size
        /\ written \in Nat
    BY BytesType DEF Typed
  <1>6. /\ ~closeSent /\ writeSeq = n /\ writeSeq \in Nat
        /\ writeSeq' = n + 1 /\ written' = written + size
        /\ sealed' = Append(sealed, r)
    BY <1>2, <1>4, <1>5 DEF Seals, CanSeal, Numbered, Typed
  <1>7. PICK t : /\ t = r \/ t = Record("torn", writeSeq, <<>>)
                 /\ toClient' = Append(toClient, t)
    BY <1>4 DEF Seals
  <1>8. r \in RecordType /\ t \in RecordType
    BY <1>4, <1>5, <1>6, <1>7, RecordTyped, EmptySeq DEF Types
  <1>9. /\ Len(sealed') = n + 1 /\ sealed'[n + 1] = r
        /\ \A i \in 1 .. n : sealed'[i] = sealed[i]
    BY <1>1, <1>6, <1>8, AppendProperties DEF Typed
  <1>10. /\ Len(toClient') = n + 1 /\ toClient'[n + 1] = t
         /\ \A i \in 1 .. n : toClient'[i] = toClient[i]
    BY <1>2, <1>7, <1>8, AppendProperties DEF Typed, Numbered
  <1>11. Cut(e, Len(sealed'), written')
    BY <1>3, <1>6, <1>9 DEF Extends
  <1>12. ASSUME NEW i \in 1 .. (n + 1)
         PROVE  /\ sealed'[i].seq = i - 1 /\ sealed'[i].data = Piece(e, i - 1)
                /\ sealed'[i].type = "close_notify" =>
                      closeSent' /\ i = n + 1 /\ sealed'[i].data = <<>>
                /\ toClient'[i] = sealed'[i] \/ toClient'[i].type = "torn"
    <2>1. CASE i \in 1 .. n
      <3>1. i - 1 \in 0 .. n /\ i - 1 < n
        BY <2>1
      <3>2. Piece(e, i - 1) = Piece(c, i - 1)
        BY <1>3, <3>1 DEF Extends
      <3> QED
        BY <1>2, <1>6, <1>9, <1>10, <2>1, <3>2 DEF Numbered
    <2>2. CASE i = n + 1
      <3>1. sealed'[i] = r /\ toClient'[i] = t /\ i - 1 = n
        BY <1>9, <1>10, <2>2
      <3>2. r.seq = n /\ r.data = Bytes(written, size) /\ r.type = type
        BY <1>4, <1>6 DEF Record
      <3>3. t = r \/ t.type = "torn"
        BY <1>7 DEF Record
      <3>4. type = "close_notify" => closeSent' /\ r.data = <<>>
        BY <1>5, <3>2, BytesEmpty
      <3> QED
        BY <1>3, <2>2, <3>1, <3>2, <3>3, <3>4 DEF Extends
    <2> QED
      BY <2>1, <2>2
  <1>13. Numbered(e, Len(sealed))'
    BY <1>6, <1>9, <1>10, <1>12 DEF Numbered
  <1>14. Opened(e, Len(sealed))'
    <2>1. clientRead \in 0 .. n /\ clientRead <= n + 1 /\ ~clientEof
      BY <1>2, <1>6 DEF Typed, Opened
    <2> QED
      BY <1>2, <1>3, <1>9, <2>1 DEF Extends, Opened, receiver
  <1> QED
    BY <1>11, <1>13, <1>14 DEF Outgoing

\* The client opens a whole record that has the number it expects, and has
\* then received one piece more.
LEMMA ReceivePiece ==
    ASSUME Typed, Outgoing, ClientReceives
    PROVE  /\ Outgoing'
           /\ ~closeSent => ~clientEof'
           /\ \E m \in 0 .. written, n \in 0 .. written :
                 /\ m <= n /\ clientGot = Bytes(0, m)
                 /\ clientGot' = Bytes(0, n)
                 /\ clientEof' => closeSent /\ m = n /\ n = written
  <1>1. PICK n \in Nat : n = Len(sealed)
    BY LenProperties DEF Typed
  <1>2. PICK c : Cut(c, n, written) /\ Numbered(c, n) /\ Opened(c, n)
    BY <1>1 DEF Outgoing
  <1>3. PICK k \in 0 .. n : k = clientRead /\ k < n
    BY <1>2 DEF ClientReceives, Numbered, Typed
  <1>4. PICK record : record = toClient[k + 1]
    OBVIOUS
  <1>5. /\ record.type # "torn" /\ clientRead' = k + 1
        /\ clientGot' = clientGot \o record.data
        /\ clientEof' = (record.type = "close_notify") /\ ~clientEof
        /\ UNCHANGED <<closeSent, written, sealed, toClient, writeSeq>>
    BY <1>3, <1>4 DEF ClientReceives, writer
  <1>6. /\ k + 1 \in 1 .. n /\ (k + 1) - 1 = k
    BY <1>3
  <1>7. /\ record = sealed[k + 1] /\ record.data = Piece(c, k)
        /\ record.type = "close_notify" =>
              closeSent /\ k + 1 = n /\ record.data = <<>>
    BY <1>2, <1>4, <1>5, <1>6 DEF Numbered
  <1>8. /\ c[k] \in Nat /\ c[k + 1] \in Nat /\ c[k] <= c[k + 1]
        /\ c[k + 1] <= written
        /\ Bytes(0, c[k]) \o Piece(c, k) = Bytes(0, c[k + 1])
        /\ Piece(c, k) = <<>> <=> c[k] = c[k + 1]
    <2>1. written \in Nat
      BY DEF Typed
    <2> QED
      BY <1>2, <1>3, <2>1, PieceFollows
  <1>9. clientGot = Bytes(0, c[k]) /\ clientGot' = Bytes(0, c[k + 1])
    BY <1>2, <1>3, <1>5, <1>7, <1>8 DEF Opened
  <1>10. Opened(c, n)'
    <2>1. clientRead' = k + 1 /\ k + 1 <= n
      BY <1>3, <1>5
    <2>2. clientGot' = Bytes(0, c[clientRead'])
      BY <1>9, <2>1
    <2>3. clientEof' => closeSent' /\ clientRead' = n
      BY <1>5, <1>7, <2>1
    <2> QED
      BY <2>1, <2>2, <2>3 DEF Opened
  <1>11. Cut(c, n, written)' /\ Numbered(c, n)'
    BY <1>2, <1>5 DEF Numbered
  <1>12. Outgoing'
    BY <1>1, <1>5, <1>10, <1>11 DEF Outgoing
  <1>13. clientEof' => closeSent /\ c[k] = c[k + 1] /\ c[k + 1] = written
    BY <1>2, <1>5, <1>7, <1>8 DEF Cut
  <1>14. c[k] \in 0 .. written /\ c[k + 1] \in 0 .. written
    BY <1>8 DEF Typed
  <1> QED
    BY <1>8, <1>9, <1>12, <1>13, <1>14

\* Every step keeps the records sealed a cut of the bytes written.
LEMMA OutgoingStep ==
    ASSUME Typed, Outgoing, [Next]_vars
    PROVE  Outgoing'
  <1> USE DEF client, network, reader, writer, receiver
  <1>1. CASE UNCHANGED <<writeSeq, closeSent, written, sealed, toClient, receiver>>
    BY <1>1 DEF Outgoing, Numbered, Opened
  <1>2. CASE ReadFatalAlert
    <2>1. /\ writeSeq' = None
          /\ UNCHANGED <<closeSent, written, sealed, toClient, receiver>>
      BY <1>2 DEF ReadFatalAlert
    <2> QED
      BY <2>1 DEF Outgoing, Numbered, Opened, None
  <1>3. CASE ClientReceives
    BY <1>3, ReceivePiece
  <1>4. CASE WriteChunk
    <2>1. PICK n \in Nat : n = Min2(pending, FragmentLimit)
      BY <1>4, FragmentSize DEF WriteChunk
    <2>2. Seals("data", Bytes(written, n)) /\ UNCHANGED <<closeSent, receiver>>
      BY <1>4, <2>1 DEF WriteChunk
    <2>3. closeSent' = ("data" = "close_notify")
      BY <2>2 DEF Seals, CanSeal, Typed
    <2>4. "data" \in Types
      BY DEF Types
    <2> QED
      BY <2>2, <2>3, <2>4, SealKeepsOutgoing
  <1>5. CASE SendCloseNotify
    <2>1. Bytes(written, 0) = <<>>
      BY BytesEmpty DEF Typed
    <2>2. Seals("close_notify", Bytes(written, 0)) /\ UNCHANGED receiver
      BY <1>5, <2>1 DEF SendCloseNotify
    <2>3. closeSent' = ("close_notify" = "close_notify")
      BY <1>5 DEF SendCloseNotify
    <2>4. "close_notify" \in Types
      BY DEF Types
    <2> QED
      BY <2>2, <2>3, <2>4, SealKeepsOutgoing
  <1>6. CASE ClientSends \/ ClientCloses \/ ClientSendsOther
    BY <1>1, <1>6 DEF ClientSends, ClientCloses, ClientSendsOther, ClientSeals
  <1>7. CASE ClientFinishes \/ NetworkFaults \/ ReadTimesOut
    BY <1>1, <1>7 DEF ClientFinishes, NetworkFaults, ReadTimesOut
  <1>8. CASE ReadBuffered \/ ReadTcpEnd \/ ReadData \/ ReadCloseNotify
    BY <1>1, <1>8 DEF ReadBuffered, ReadTcpEnd, ReadData, ReadCloseNotify
  <1>9. CASE ReadUserCanceled \/ ReadHandshake \/ ReadFails \/ FinishServing
    BY <1>1, <1>9 DEF ReadUserCanceled, ReadHandshake, ReadFails, FinishServing
  <1>10. CASE WriteCall \/ WriteRefused
    BY <1>1, <1>10 DEF WriteCall, WriteRefused
  <1> QED
    BY <1>1, <1>2, <1>3, <1>4, <1>5, <1>6, <1>7, <1>8, <1>9, <1>10
       DEF Next, Reads, vars

-----------------------------------------------------------------------------
(* What the client seals, what the network makes of it and what is read.   *)

\* What a record of the client is, without the definition of the set.
LEMMA AuthenticRecord ==
    ASSUME NEW c, NEW r \in Authentic(c)
    PROVE  /\ r \in RecordType
           /\ r.type # "damaged" =>
                 /\ r.seq < clientSeq /\ r.data = Piece(c, r.seq)
                 /\ r.type # "data" => r.data = <<>>
                 /\ r.type = "close_notify" =>
                       clientClosed /\ r.seq + 1 = clientSeq
  BY DEF Authentic

\* The client's next record is one more piece of what it sent.
LEMMA SealKeepsIncoming ==
    ASSUME Typed, Incoming, NEW type \in Types, NEW size \in Nat,
           ClientSeals(type, Bytes(clientSent, size)),
           type # "data" => size = 0
    PROVE  Incoming'
  <1>1. PICK n \in Nat : n = clientSeq
    BY DEF Typed
  <1>2. PICK c : Cut(c, n, clientSent) /\ toServer \in Seq(Authentic(c)) /\ Consumed(c)
    BY <1>1 DEF Incoming
  <1>3. PICK e : Extends(e, c, n, clientSent, size)
    BY <1>2, ExtendCut DEF Typed
  <1>4. PICK new : new = Record(type, clientSeq, Bytes(clientSent, size))
    OBVIOUS
  <1>5. /\ Bytes(clientSent, size) \in Seq(Nat)
        /\ Len(Bytes(clientSent, size)) = size
        /\ Bytes(clientSent, size) = <<>> <=> size = 0
    BY BytesType, BytesEmpty DEF Typed
  <1>6. /\ ~clientClosed /\ clientSeq' = n + 1
        /\ clientSent' = clientSent + size
        /\ clientClosed' = (type = "close_notify")
        /\ toServer' = Append(toServer, new)
        /\ UNCHANGED <<readSeq, buffer, got, eof, peerClosed, failed>>
    BY <1>1, <1>4, <1>5 DEF ClientSeals, reader
  <1>7. ASSUME NEW r \in Authentic(c) PROVE r \in Authentic(e)'
    <2>1. /\ r \in RecordType
          /\ r.type # "damaged" =>
                /\ r.seq < n /\ r.data = Piece(c, r.seq)
                /\ r.type # "data" => r.data = <<>>
                /\ r.type # "close_notify"
      BY <1>1, <1>6, <1>7, AuthenticRecord
    <2>2. r.seq \in Nat
      BY <2>1 DEF RecordType
    <2>3. r.seq < n => r.seq < n + 1 /\ Piece(e, r.seq) = Piece(c, r.seq)
      BY <1>3, <2>2 DEF Extends
    <2> QED
      BY <1>6, <2>1, <2>3 DEF Authentic
  <1>8. new \in Authentic(e)'
    <2>1. new \in RecordType
      BY <1>1, <1>4, <1>5, RecordTyped
    <2>2. new.seq = n /\ new.data = Bytes(clientSent, size) /\ new.type = type
      BY <1>1, <1>4 DEF Record
    <2>3. new.data = Piece(e, n) /\ (type # "data" => new.data = <<>>)
      BY <1>3, <1>5, <2>2 DEF Extends
    <2>4. new.seq < clientSeq' /\ new.seq + 1 = clientSeq'
      BY <1>6, <2>2
    <2> QED
      BY <1>6, <2>1, <2>2, <2>3, <2>4 DEF Authentic
  <1>9. toServer' \in Seq(Authentic(e)')
    <2>1. Authentic(c) \subseteq Authentic(e)'
      BY <1>7
    <2>2. toServer \in Seq(Authentic(e)')
      BY <1>2, <2>1, SeqMonotonic
    <2> QED
      BY <1>6, <1>8, <2>2, AppendProperties
  <1>10. Consumed(e)'
    <2>1. ~peerClosed
      BY <1>2, <1>6 DEF Consumed
    <2>2. ~failed => /\ readSeq <= n + 1
                     /\ got \o buffer = Bytes(0, e[readSeq])
      <3> SUFFICES ASSUME ~failed
                   PROVE  /\ readSeq <= n + 1
                          /\ got \o buffer = Bytes(0, e[readSeq])
        OBVIOUS
      <3>1. readSeq \in 0 .. n /\ got \o buffer = Bytes(0, c[readSeq])
        BY <1>1, <1>2 DEF Consumed, Typed
      <3>2. e[readSeq] = c[readSeq]
        BY <1>3, <3>1 DEF Extends
      <3> QED
        BY <3>1, <3>2
    <2> QED
      BY <1>2, <1>6, <2>1, <2>2 DEF Consumed
  <1>11. Cut(e, clientSeq', clientSent')
    BY <1>3, <1>6 DEF Extends
  <1> QED
    BY <1>9, <1>10, <1>11 DEF Incoming

\* A fault of the network leaves records that were there, and damaged ones.
LEMMA FaultsKeepRecords ==
    ASSUME NEW S, toServer \in Seq(S), Damaged \in S, NetworkFaults
    PROVE  toServer' \in Seq(S)
  <1>1. PICK i \in 1 .. Len(toServer) :
          \/ toServer' = RemoveAt(toServer, i)
          \/ toServer' = InsertAt(toServer, i, toServer[i])
          \/ toServer' = [toServer EXCEPT ![i] = Damaged]
          \/ toServer' = InsertAt(toServer, i, Damaged)
          \/ /\ i < Len(toServer)
             /\ toServer' = [toServer EXCEPT ![i] = toServer[i + 1],
                                             ![i + 1] = toServer[i]]
    BY DEF NetworkFaults
  <1>2. Len(toServer) \in Nat /\ \A j \in 1 .. Len(toServer) : toServer[j] \in S
    BY LenProperties, ElementOfSeq
  <1>3. /\ SubSeq(toServer, 1, i - 1) \in Seq(S)
        /\ SubSeq(toServer, i, Len(toServer)) \in Seq(S)
        /\ SubSeq(toServer, i + 1, Len(toServer)) \in Seq(S)
    BY <1>2, SubSeqProperties
  <1>4. RemoveAt(toServer, i) \in Seq(S)
    BY <1>3, ConcatProperties DEF RemoveAt
  <1>5. ASSUME NEW r \in S PROVE InsertAt(toServer, i, r) \in Seq(S)
    <2>1. <<r>> \in Seq(S)
      OBVIOUS
    <2>2. SubSeq(toServer, 1, i - 1) \o <<r>> \in Seq(S)
      BY <1>3, <2>1, ConcatProperties
    <2> QED
      BY <1>3, <2>2, ConcatProperties DEF InsertAt
  <1>6. [toServer EXCEPT ![i] = Damaged] \in Seq(S)
    BY ExceptSeq
  <1>7. ASSUME i < Len(toServer)
        PROVE  [toServer EXCEPT ![i] = toServer[i + 1],
                                ![i + 1] = toServer[i]] \in Seq(S)
    <2>1. i + 1 \in 1 .. Len(toServer)
      BY <1>2, <1>7
    <2> DEFINE q == [toServer EXCEPT ![i] = toServer[i + 1]]
    <2>2. q \in Seq(S) /\ Len(q) = Len(toServer)
      BY <1>2, <2>1, ExceptSeq
    <2>3. [q EXCEPT ![i + 1] = toServer[i]] \in Seq(S)
      <3> HIDE DEF q
      <3> QED
        BY <1>2, <2>1, <2>2, ExceptSeq
    <2> QED
      BY <2>3
  <1> QED
    BY <1>1, <1>2, <1>4, <1>5, <1>6, <1>7

\* A record that opens is the next piece of what the client sent.
LEMMA OpenedRecord ==
    ASSUME Typed, NEW c, Cut(c, clientSeq, clientSent),
           toServer \in Seq(Authentic(c)), Consumed(c),
           NextRecord, Opens(Head(toServer))
    PROVE  /\ toServer' \in Seq(Authentic(c))
           /\ readSeq \in 0 .. clientSeq /\ readSeq + 1 <= clientSeq
           /\ got = Bytes(0, c[readSeq])
           /\ got \o Head(toServer).data = Bytes(0, c[readSeq + 1])
           /\ Head(toServer).type # "data" => got = Bytes(0, c[readSeq + 1])
           /\ Head(toServer).type = "close_notify" =>
                 clientClosed /\ readSeq + 1 = clientSeq
  <1>1. PICK r : r = Head(toServer)
    OBVIOUS
  <1>2. r \in Authentic(c) /\ toServer' \in Seq(Authentic(c))
    BY <1>1, HeadTailProperties DEF NextRecord
  <1>3. /\ r.type # "damaged" /\ r.seq = readSeq /\ ~failed
        /\ buffer = <<>> /\ got \in Seq(Nat)
    BY <1>1 DEF Opens, NextRecord, Typed
  <1>4. /\ readSeq < clientSeq /\ r.data = Piece(c, readSeq)
        /\ r.type # "data" => r.data = <<>>
        /\ r.type = "close_notify" => clientClosed /\ readSeq + 1 = clientSeq
    BY <1>2, <1>3, AuthenticRecord
  <1>5. readSeq \in 0 .. clientSeq /\ readSeq + 1 <= clientSeq
    BY <1>4 DEF Typed
  <1>6. got = Bytes(0, c[readSeq])
    BY <1>3, ConcatEmptySeq DEF Consumed
  <1>7. Bytes(0, c[readSeq]) \o Piece(c, readSeq) = Bytes(0, c[readSeq + 1])
    <2>1. clientSeq \in Nat /\ clientSent \in Nat
      BY NoneNat DEF Typed
    <2> QED
      BY <1>4, <1>5, <2>1, PieceFollows
  <1>8. r.type # "data" => got = Bytes(0, c[readSeq + 1])
    BY <1>3, <1>4, <1>6, <1>7, ConcatEmptySeq
  <1> QED
    BY <1>1, <1>2, <1>4, <1>5, <1>6, <1>7, <1>8

\* What a read takes from the buffer comes after what was read before.
LEMMA BufferedBytes ==
    ASSUME Typed, Erased, NEW c, Consumed(c), ReadBuffered
    PROVE  /\ ~failed /\ ~eof
           /\ got' \in Seq(Nat) /\ buffer' \in Seq(Nat)
           /\ got' \o buffer' = got \o buffer
           /\ Len(got') > Len(got)
  <1>1. PICK n \in 1 .. Len(buffer) :
           /\ got' = got \o SubSeq(buffer, 1, n)
           /\ buffer' = SubSeq(buffer, n + 1, Len(buffer))
    BY DEF ReadBuffered
  <1>2. PICK s, t : s = SubSeq(buffer, 1, n) /\ t = SubSeq(buffer, n + 1, Len(buffer))
    OBVIOUS
  <1>3. got \in Seq(Nat) /\ buffer \in Seq(Nat)
    BY DEF Typed
  <1>4. s \in Seq(Nat) /\ t \in Seq(Nat) /\ s \o t = buffer /\ Len(s) = n
    BY <1>2, <1>3, BytesSplit
  <1>5. got \o s \in Seq(Nat) /\ Len(got \o s) = Len(got) + n
    BY <1>3, <1>4, ConcatProperties
  <1>6. (got \o s) \o t = got \o buffer
    <2>1. got \in Seq(Nat) /\ s \in Seq(Nat) /\ t \in Seq(Nat)
      BY <1>3, <1>4
    <2>2. (got \o s) \o t = got \o (s \o t)
      BY <2>1, BytesAssociative, Zenon
    <2> QED
      BY <1>4, <2>2
  <1>7. ~failed /\ ~eof
    BY DEF ReadBuffered, Erased, Consumed
  <1>8. Len(got) \in Nat /\ Len(got) + n > Len(got)
    BY <1>1, <1>3, LenProperties
  <1> QED
    BY <1>1, <1>2, <1>4, <1>5, <1>6, <1>7, <1>8

\* Every step keeps the records read a cut of the bytes sent.
LEMMA IncomingStep ==
    ASSUME Typed, Erased, Incoming, [Next]_vars
    PROVE  Incoming'
  <1> USE DEF client, network, reader, writer, receiver
  <1>a. PICK c : /\ Cut(c, clientSeq, clientSent) /\ toServer \in Seq(Authentic(c))
                 /\ Consumed(c)
    BY DEF Incoming
  <1>b. ASSUME UNCHANGED <<clientSeq, clientSent, clientClosed>>,
               toServer' \in Seq(Authentic(c)), Consumed(c)'
        PROVE  Incoming'
    BY <1>a, <1>b DEF Incoming, Authentic
  <1>1. CASE UNCHANGED <<clientSeq, clientSent, clientClosed, toServer, readSeq,
                         buffer, peerClosed, got, eof, failed>>
    BY <1>a, <1>b, <1>1 DEF Consumed
  <1>2. CASE ClientSends
    <2>1. PICK n \in 0 .. FragmentLimit : ClientSeals("data", Bytes(clientSent, n))
      BY <1>2 DEF ClientSends
    <2> QED
      BY <2>1, FragmentLimitPositive, SealKeepsIncoming DEF Types
  <1>3. CASE ClientCloses \/ ClientSendsOther
    <2>1. PICK type \in Types : ClientSeals(type, <<>>)
      BY <1>3 DEF ClientCloses, ClientSendsOther, Typed, WorldType, Types
    <2>2. Bytes(clientSent, 0) = <<>>
      BY BytesEmpty DEF Typed
    <2>3. ClientSeals(type, Bytes(clientSent, 0))
      BY <2>1, <2>2
    <2> QED
      BY <2>3, SealKeepsIncoming
  <1>4. CASE NetworkFaults
    <2>1. Damaged \in Authentic(c)
      <3>1. Damaged \in RecordType
        BY NoneNat, EmptySeq, RecordTyped DEF Damaged, Types
      <3>2. Damaged.type = "damaged"
        BY DEF Damaged, Record
      <3> QED
        BY <3>1, <3>2 DEF Authentic
    <2>2. toServer' \in Seq(Authentic(c))
      BY <1>4, <1>a, <2>1, FaultsKeepRecords
    <2>3. UNCHANGED <<clientSeq, clientSent, clientClosed, readSeq, buffer,
                      peerClosed, got, eof, failed>>
      BY <1>4 DEF NetworkFaults
    <2> QED
      BY <1>a, <1>b, <2>2, <2>3 DEF Consumed
  <1>5. CASE ReadBuffered
    <2>1. ~failed /\ ~eof /\ got' \o buffer' = got \o buffer
      BY <1>5, <1>a, BufferedBytes
    <2>2. UNCHANGED <<clientSeq, clientSent, clientClosed, toServer, readSeq,
                      peerClosed, eof, failed>>
      BY <1>5 DEF ReadBuffered
    <2> QED
      BY <1>a, <1>b, <2>1, <2>2 DEF Consumed
  <1>6. CASE ReadTcpEnd \/ FinishServing
    BY <1>1, <1>6 DEF ReadTcpEnd, FinishServing
  <1>7. CASE ReadData
    <2>1. /\ NextRecord /\ Opens(Head(toServer)) /\ ~peerClosed /\ ~eof
          /\ readSeq' = readSeq + 1 /\ buffer' = Head(toServer).data
          /\ UNCHANGED <<clientSeq, clientSent, clientClosed, peerClosed, got,
                         eof, failed>>
      BY <1>7, <1>a DEF ReadData, NextRecord, Consumed
    <2>2. /\ toServer' \in Seq(Authentic(c)) /\ readSeq' <= clientSeq
          /\ got \o buffer' = Bytes(0, c[readSeq'])
      BY <1>a, <2>1, OpenedRecord
    <2> QED
      BY <1>b, <2>1, <2>2 DEF Consumed
  <1>8. CASE ReadCloseNotify
    <2>1. /\ NextRecord /\ Opens(Head(toServer)) /\ buffer = <<>>
          /\ Head(toServer).type = "close_notify" /\ readSeq' = readSeq + 1
          /\ peerClosed'
          /\ UNCHANGED <<clientSeq, clientSent, clientClosed, buffer, got, failed>>
      BY <1>8 DEF ReadCloseNotify, NextRecord
    <2>2. /\ toServer' \in Seq(Authentic(c)) /\ readSeq' = clientSeq
          /\ clientClosed /\ got = Bytes(0, c[readSeq'])
          /\ readSeq' <= clientSeq
      BY <1>a, <2>1, OpenedRecord
    <2>3. got \o buffer = got
      BY <2>1, ConcatEmptySeq DEF Typed
    <2> QED
      BY <1>b, <2>1, <2>2, <2>3 DEF Consumed
  <1>9. CASE ReadUserCanceled \/ ReadHandshake
    <2>1. /\ NextRecord /\ Opens(Head(toServer)) /\ buffer = <<>> /\ ~peerClosed
          /\ ~eof /\ Head(toServer).type # "data" /\ readSeq' = readSeq + 1
          /\ UNCHANGED <<clientSeq, clientSent, clientClosed, buffer, peerClosed,
                         got, eof, failed>>
      BY <1>9, <1>a DEF ReadUserCanceled, ReadHandshake, NextRecord, Consumed
    <2>2. /\ toServer' \in Seq(Authentic(c)) /\ readSeq' <= clientSeq
          /\ got = Bytes(0, c[readSeq'])
      BY <1>a, <2>1, OpenedRecord
    <2>3. got \o buffer = got
      BY <2>1, ConcatEmptySeq DEF Typed
    <2> QED
      BY <1>b, <2>1, <2>2, <2>3 DEF Consumed
  <1>10. CASE ReadFatalAlert
    <2>1. /\ toServer # <<>> /\ toServer' = Tail(toServer) /\ failed'
          /\ ~peerClosed
          /\ UNCHANGED <<clientSeq, clientSent, clientClosed, buffer, peerClosed,
                         got, eof>>
      BY <1>10 DEF ReadFatalAlert, NextRecord
    <2>2. toServer' \in Seq(Authentic(c))
      BY <1>a, <2>1, HeadTailProperties
    <2> QED
      BY <1>a, <1>b, <2>1, <2>2 DEF Consumed
  <1>11. CASE ReadFails
    <2>1. /\ toServer # <<>> /\ toServer' = Tail(toServer)
          /\ UNCHANGED <<clientSeq, clientSent, clientClosed, readSeq, buffer,
                         peerClosed, got, eof, failed>>
      BY <1>11 DEF ReadFails, NextRecord
    <2>2. toServer' \in Seq(Authentic(c))
      BY <1>a, <2>1, HeadTailProperties
    <2> QED
      BY <1>a, <1>b, <2>1, <2>2 DEF Consumed
  <1>12. CASE ClientFinishes \/ ClientReceives \/ ReadTimesOut
    BY <1>1, <1>12 DEF ClientFinishes, ClientReceives, ReadTimesOut
  <1>13. CASE WriteCall \/ WriteChunk \/ WriteRefused \/ SendCloseNotify
    BY <1>1, <1>13 DEF WriteCall, WriteChunk, WriteRefused, SendCloseNotify
  <1> QED
    BY <1>1, <1>2, <1>3, <1>4, <1>5, <1>6, <1>7, <1>8, <1>9, <1>10, <1>11,
       <1>12, <1>13 DEF Next, Reads, vars

-----------------------------------------------------------------------------
(* The theorems.                                                           *)

\* The invariant holds when the handshake has ended.
LEMMA Initially == Init => IndInv
  <1> SUFFICES ASSUME Init PROVE IndInv
    OBVIOUS
  <1> USE DEF Init
  <1>1. Typed
    BY NoneNat, WorldsTyped, EmptySeq DEF Typed
  <1>2. Erased
    BY DEF Erased
  <1>3. PICK c : c = [i \in 0 .. 0 |-> 0]
    OBVIOUS
  <1>4. Cut(c, 0, 0) /\ Bytes(0, c[0]) = <<>>
    BY <1>3, BytesEmpty DEF Cut
  <1>5. Outgoing
    BY <1>4, EmptySeq DEF Outgoing, Numbered, Opened
  <1>6. Incoming
    <2>1. toServer \in Seq(Authentic(c)) /\ got \o buffer = <<>>
      BY EmptySeq, ConcatEmptySeq
    <2> QED
      BY <1>4, <2>1 DEF Incoming, Consumed
  <1> QED
    BY <1>1, <1>2, <1>5, <1>6 DEF IndInv

\* Every reachable state satisfies the invariant.
THEOREM Invariance == Spec => []IndInv
  <1>1. IndInv /\ [Next]_vars => IndInv'
    <2> SUFFICES ASSUME IndInv, [Next]_vars PROVE IndInv'
      OBVIOUS
    <2>1. Typed'
      BY TypedStep DEF IndInv, Incoming
    <2> QED
      BY <2>1, ErasedStep, OutgoingStep, IncomingStep DEF IndInv
  <1> QED
    BY Initially, <1>1, PTL DEF Spec

\* encrypt_record never seals two records under one nonce, whatever writes
\* fail and however often the handler writes again.
THEOREM NoncesDistinct == Spec => []NonceUsedOnce
  <1>1. IndInv => NonceUsedOnce
    <2> SUFFICES ASSUME Outgoing PROVE NonceUsedOnce
      BY DEF IndInv
    <2>1. \A i \in 1 .. Len(sealed) : sealed[i].seq = i - 1
      BY DEF Outgoing, Numbered
    <2> QED
      BY <2>1 DEF NonceUsedOnce
  <1> QED
    BY Invariance, <1>1, PTL

\* After a fatal alert no byte is returned, no end is reported, nothing is
\* sealed and no number is used.
THEOREM FailureSilences == Spec => SilentAfterFailure
  <1>1. IndInv /\ [Next]_vars => [failed => UNCHANGED <<got, sealed, eof, readSeq>>]_vars
    <2> SUFFICES ASSUME IndInv, Next, failed
                 PROVE  UNCHANGED <<got, sealed, eof, readSeq>>
      OBVIOUS
    <2> USE DEF client, network, reader, writer, receiver
    <2>0. buffer = <<>> /\ ~peerClosed
      BY DEF IndInv, Erased
    <2>1. CASE ClientSends \/ ClientCloses \/ ClientSendsOther
      BY <2>1 DEF ClientSends, ClientCloses, ClientSendsOther, ClientSeals
    <2>2. CASE ClientFinishes \/ ClientReceives \/ NetworkFaults \/ ReadTimesOut
      BY <2>2 DEF ClientFinishes, ClientReceives, NetworkFaults, ReadTimesOut
    <2>3. CASE Reads
      BY <2>0, <2>3
         DEF Reads, ReadBuffered, ReadData, ReadCloseNotify, ReadUserCanceled,
         ReadHandshake, ReadFatalAlert, ReadFails, ReadTcpEnd, Opens
    <2>4. CASE \/ WriteCall \/ WriteChunk \/ WriteRefused \/ SendCloseNotify
               \/ FinishServing
      BY <2>4 DEF WriteCall, WriteChunk, WriteRefused, SendCloseNotify,
         FinishServing, Seals, CanSeal
    <2> QED
      BY <2>1, <2>2, <2>3, <2>4 DEF Next
  <1> QED
    BY Invariance, <1>1, PTL DEF Spec, SilentAfterFailure

-----------------------------------------------------------------------------
(* The refinement of SecureStream, in both directions.                     *)

\* Every step of the connection is a step of the outbound stream or none.
LEMMA OutboundStep ==
    ASSUME Typed, Outgoing, [Next]_vars
    PROVE  [Outbound!Next]_(Outbound!vars)
  <1> USE DEF client, network, reader, writer, receiver
  <1>0. written \in Nat
    BY DEF Typed
  <1>1. CASE UNCHANGED <<written, clientGot, closeSent, clientEof>>
    BY <1>1 DEF Outbound!vars
  <1>2. CASE WriteChunk
    <2>1. PICK n \in Nat \ {0} : n = Min2(pending, FragmentLimit)
      BY <1>2, FragmentSize DEF WriteChunk
    <2>2. written' = written + n /\ ~closeSent
      BY <1>2, <2>1, FragmentSize DEF WriteChunk, Seals, CanSeal
    <2>3. Outbound!IsStrictPrefix(Bytes(0, written), Bytes(0, written'))
      <3>1. IsStrictPrefix(Bytes(0, written), Bytes(0, written'))
        BY <1>0, <2>1, <2>2, BytesPrefix
      <3> QED
        BY <3>1 DEF IsStrictPrefix, IsPrefix, Outbound!IsStrictPrefix,
           Outbound!IsPrefix
    <2>4. UNCHANGED <<clientGot, closeSent, clientEof>>
      BY <1>2 DEF WriteChunk
    <2> QED
      BY <2>2, <2>3, <2>4 DEF Outbound!Next, Outbound!Send
  <1>3. CASE SendCloseNotify
    <2>1. /\ written' = written /\ closeSent' = TRUE
          /\ UNCHANGED <<clientGot, clientEof>>
      BY <1>0, <1>3, EmptySeq DEF SendCloseNotify, Seals
    <2> QED
      BY <2>1 DEF Outbound!Next, Outbound!Close
  <1>4. CASE ClientReceives
    <2>1. ~clientEof /\ UNCHANGED <<written, closeSent>>
      BY <1>4 DEF ClientReceives
    <2>2. PICK m \in 0 .. written, n \in 0 .. written :
             /\ m <= n /\ clientGot = Bytes(0, m) /\ clientGot' = Bytes(0, n)
             /\ clientEof' => closeSent /\ m = n /\ n = written
      BY <1>4, ReceivePiece
    <2>3. clientEof' \in BOOLEAN
      BY <1>4 DEF ClientReceives
    <2>4. CASE clientEof'
      BY <2>1, <2>2, <2>3, <2>4 DEF Outbound!Next, Outbound!End
    <2>5. CASE ~clientEof' /\ m = n
      BY <2>1, <2>2, <2>3, <2>5 DEF Typed, Outbound!vars
    <2>6. CASE ~clientEof' /\ m # n
      <3>1. /\ Outbound!IsStrictPrefix(clientGot, clientGot')
            /\ Outbound!IsPrefix(clientGot', Bytes(0, written))
        <4>1. /\ IsStrictPrefix(clientGot, clientGot')
              /\ IsPrefix(clientGot', Bytes(0, written))
          BY <1>0, <2>2, <2>6, BytesPrefix
        <4> QED
          BY <4>1 DEF IsStrictPrefix, IsPrefix, Outbound!IsStrictPrefix,
             Outbound!IsPrefix
      <3>2. clientEof' = clientEof
        BY <2>1, <2>3, <2>6 DEF Typed
      <3> QED
        BY <2>1, <3>1, <3>2 DEF Outbound!Next, Outbound!Deliver
    <2> QED
      BY <2>4, <2>5, <2>6
  <1>5. CASE ClientSends \/ ClientCloses \/ ClientSendsOther
    BY <1>1, <1>5 DEF ClientSends, ClientCloses, ClientSendsOther, ClientSeals
  <1>6. CASE ClientFinishes \/ NetworkFaults \/ ReadTimesOut
    BY <1>1, <1>6 DEF ClientFinishes, NetworkFaults, ReadTimesOut
  <1>7. CASE Reads
    BY <1>1, <1>7
       DEF Reads, ReadBuffered, ReadData, ReadCloseNotify, ReadUserCanceled,
       ReadHandshake, ReadFatalAlert, ReadFails, ReadTcpEnd
  <1>8. CASE WriteCall \/ WriteRefused \/ FinishServing
    BY <1>1, <1>8 DEF WriteCall, WriteRefused, FinishServing
  <1> QED
    BY <1>1, <1>2, <1>3, <1>4, <1>5, <1>6, <1>7, <1>8 DEF Next, vars

\* What is written reaches the client as SecureStream promises: in order, each
\* byte once, and the end only behind all of them, although a write may fail
\* inside a record and close_notify may still follow.
THEOREM OutboundRefines == Spec => OutboundSpec
  <1>1. Init => Outbound!Init
    <2>1. Bytes(0, 0) = <<>>
      BY BytesEmpty
    <2> QED
      BY <2>1 DEF Init, Outbound!Init
  <1>2. IndInv /\ [Next]_vars => [Outbound!Next]_(Outbound!vars)
    BY OutboundStep DEF IndInv
  <1> QED
    BY Invariance, <1>1, <1>2, PTL DEF Spec, OutboundSpec, Outbound!Spec

\* Every step of the connection is a step of the inbound stream or none.
LEMMA InboundStep ==
    ASSUME Typed, Erased, Incoming, [Next]_vars
    PROVE  [Inbound!Next]_(Inbound!vars)
  <1> USE DEF client, network, reader, writer, receiver
  <1>0. clientSent \in Nat /\ clientClosed \in BOOLEAN /\ eof \in BOOLEAN
    BY DEF Typed
  <1>1. CASE UNCHANGED <<clientSent, got, clientClosed, eof>>
    BY <1>1 DEF Inbound!vars
  <1>2. CASE ClientSends
    <2>1. PICK n \in 0 .. FragmentLimit : ClientSeals("data", Bytes(clientSent, n))
      BY <1>2 DEF ClientSends
    <2>2. n \in Nat /\ Len(Bytes(clientSent, n)) = n
      BY <1>0, FragmentLimitPositive, BytesType
    <2>3. /\ clientSent' = clientSent + n /\ ~clientClosed
          /\ clientClosed' = FALSE
          /\ UNCHANGED <<got, eof>>
      BY <2>1, <2>2 DEF ClientSeals
    <2>4. clientClosed' = clientClosed
      BY <1>0, <2>3
    <2>5. CASE n = 0
      BY <1>0, <1>1, <2>3, <2>4, <2>5
    <2>6. CASE n # 0
      <3>1. Inbound!IsStrictPrefix(Bytes(0, clientSent), Bytes(0, clientSent'))
        <4>1. IsStrictPrefix(Bytes(0, clientSent), Bytes(0, clientSent'))
          BY <1>0, <2>2, <2>3, <2>6, BytesPrefix
        <4> QED
          BY <4>1 DEF IsStrictPrefix, IsPrefix, Inbound!IsStrictPrefix,
             Inbound!IsPrefix
      <3> QED
        BY <2>3, <2>4, <3>1 DEF Inbound!Next, Inbound!Send
    <2> QED
      BY <2>5, <2>6
  <1>3. CASE ClientCloses
    <2>1. /\ clientSent' = clientSent + Len(<<>>) /\ clientClosed' = TRUE
          /\ UNCHANGED <<got, eof>>
      BY <1>3, Zenon DEF ClientCloses, ClientSeals
    <2>2. clientSent' = clientSent
      BY <1>0, <2>1, EmptySeq
    <2> QED
      BY <2>1, <2>2 DEF Inbound!Next, Inbound!Close
  <1>4. CASE ClientSendsOther
    <2>1. PICK type \in world.others : ClientSeals(type, <<>>)
      BY <1>4 DEF ClientSendsOther
    <2>2. type # "close_notify"
      BY <2>1 DEF Typed, WorldType
    <2>3. /\ clientSent' = clientSent /\ ~clientClosed /\ clientClosed' = FALSE
          /\ UNCHANGED <<got, eof>>
      BY <1>0, <2>1, <2>2, EmptySeq DEF ClientSeals
    <2> QED
      BY <1>0, <1>1, <2>3
  <1>5. CASE ReadBuffered
    <2>1. PICK c : Cut(c, clientSeq, clientSent) /\ Consumed(c)
      BY DEF Incoming
    <2>2. /\ ~failed /\ ~eof /\ got' \in Seq(Nat) /\ buffer' \in Seq(Nat)
          /\ got' \o buffer' = got \o buffer /\ Len(got') > Len(got)
      BY <1>5, <2>1, BufferedBytes
    <2>3. PICK k \in 0 .. clientSent : got \o buffer = Bytes(0, k)
      <3>1. /\ clientSeq \in Nat /\ readSeq \in 0 .. clientSeq
            /\ got \o buffer = Bytes(0, c[readSeq])
        <4>1. readSeq <= clientSeq /\ got \o buffer = Bytes(0, c[readSeq])
          BY <2>1, <2>2 DEF Consumed
        <4>2. clientSeq \in 0 .. None /\ readSeq \in 0 .. None
          BY DEF Typed
        <4> QED
          BY <4>1, <4>2, NoneNat
      <3>2. c[readSeq] \in 0 .. clientSent
        BY <1>0, <2>1, <3>1 DEF Cut
      <3> QED
        BY <3>1, <3>2
    <2>4. k \in Nat /\ got \in Seq(Nat) /\ buffer \in Seq(Nat)
      BY <1>0 DEF Typed
    <2>5. got = Bytes(0, Len(got)) /\ Len(got) \in 0 .. k
      BY <2>3, <2>4, BytesTaken
    <2>6. got' = Bytes(0, Len(got')) /\ Len(got') \in 0 .. k
      <3>1. got' \o buffer' = Bytes(0, k)
        BY <2>2, <2>3
      <3> QED
        BY <2>2, <2>4, <3>1, BytesTaken
    <2>7. /\ Inbound!IsStrictPrefix(got, got')
          /\ Inbound!IsPrefix(got', Bytes(0, clientSent))
      <3>1. IsStrictPrefix(Bytes(0, Len(got)), Bytes(0, Len(got')))
        BY <2>2, <2>5, <2>6, BytesPrefix
      <3>2. IsPrefix(Bytes(0, Len(got')), Bytes(0, clientSent))
        BY <1>0, <2>3, <2>6, BytesPrefix
      <3>3. IsStrictPrefix(got, got') /\ IsPrefix(got', Bytes(0, clientSent))
        BY <2>5, <2>6, <3>1, <3>2, Zenon
      <3> QED
        BY <3>3 DEF IsStrictPrefix, IsPrefix, Inbound!IsStrictPrefix,
           Inbound!IsPrefix
    <2>8. UNCHANGED <<clientSent, clientClosed, eof>>
      BY <1>5 DEF ReadBuffered
    <2> QED
      BY <2>2, <2>7, <2>8 DEF Inbound!Next, Inbound!Deliver
  <1>6. CASE ReadTcpEnd \/ FinishServing
    BY <1>1, <1>6 DEF ReadTcpEnd, FinishServing
  <1>7. CASE ReadCloseNotify
    <2>1. PICK c : /\ Cut(c, clientSeq, clientSent) /\ Consumed(c)
                   /\ toServer \in Seq(Authentic(c))
      BY DEF Incoming
    <2>2. /\ NextRecord /\ Opens(Head(toServer))
          /\ Head(toServer).type = "close_notify"
          /\ eof' = TRUE /\ UNCHANGED <<clientSent, got, clientClosed>>
      BY <1>7 DEF ReadCloseNotify
    <2>3. clientClosed /\ got = Bytes(0, c[clientSeq])
      BY <2>1, <2>2, OpenedRecord
    <2>4. got = Bytes(0, clientSent)
      BY <2>1, <2>3 DEF Cut
    <2> QED
      BY <2>2, <2>3, <2>4 DEF Inbound!Next, Inbound!End
  <1>8. CASE ClientFinishes \/ ClientReceives \/ NetworkFaults \/ ReadTimesOut
    BY <1>1, <1>8
       DEF ClientFinishes, ClientReceives, NetworkFaults, ReadTimesOut
  <1>9. CASE \/ ReadData \/ ReadUserCanceled \/ ReadHandshake
             \/ ReadFatalAlert \/ ReadFails
    BY <1>1, <1>9
       DEF ReadData, ReadUserCanceled, ReadHandshake, ReadFatalAlert, ReadFails
  <1>10. CASE WriteCall \/ WriteChunk \/ WriteRefused \/ SendCloseNotify
    BY <1>1, <1>10 DEF WriteCall, WriteChunk, WriteRefused, SendCloseNotify
  <1> QED
    BY <1>1, <1>2, <1>3, <1>4, <1>5, <1>6, <1>7, <1>8, <1>9, <1>10
       DEF Next, Reads, vars

\* read() returns what the client sent as SecureStream promises: a prefix of
\* it, and Ok(0) only after close_notify and all of the data, whatever the
\* network loses, repeats, exchanges or damages and wherever a read gives up.
THEOREM InboundRefines == Spec => InboundSpec
  <1>1. Init => Inbound!Init
    <2>1. Bytes(0, 0) = <<>>
      BY BytesEmpty
    <2> QED
      BY <2>1 DEF Init, Inbound!Init
  <1>2. IndInv /\ [Next]_vars => [Inbound!Next]_(Inbound!vars)
    BY InboundStep DEF IndInv
  <1> QED
    BY Invariance, <1>1, <1>2, PTL DEF Spec, InboundSpec, Inbound!Spec
=============================================================================
