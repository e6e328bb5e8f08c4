---------------------------- MODULE TlsTransport ----------------------------
(***************************************************************************)
(* A TLS 1.3 connection after its handshake: Tls13ApplicationState and     *)
(* Tls13RecordProtection of tls.rs under TlsApplicationTransport of        *)
(* tls_probe.rs, which gives the HTTP code a Read and Write over records,  *)
(* as handle_https_connection of server.rs uses them.                      *)
(* The client and the network are external: the client seals records with  *)
(* its own sequence numbers, and the network may lose, repeat, exchange or *)
(* damage them.                                                            *)
(*                                                                         *)
(* The cipher is ideal: a record opens exactly when it is undamaged and    *)
(* was sealed with the sequence number its reader expects.  Bytes are      *)
(* numbered in the order their sender wrote them.                          *)
(***************************************************************************)
EXTENDS Naturals, Sequences, SequencesExt

CONSTANTS
    MaxSeq,         \* u64::MAX, the last sequence number
    FragmentLimit,  \* TLS_PLAINTEXT_FRAGMENT_LIMIT
    Worlds          \* what clients and networks do

ASSUME MaxSeqNat == MaxSeq \in Nat
ASSUME FragmentLimitPositive == FragmentLimit \in Nat \ {0}

\* in, out: bounds on the bytes the client and the server send.
\* faults: faults of the network that are still to come, at most.
\* timeouts: whether reads and writes may time out.
\* others: records the client sends besides data and close_notify.
WorldType ==
    [in : Nat, out : Nat, faults : Nat, timeouts : BOOLEAN,
     others : SUBSET {"user_canceled", "fatal", "handshake", "plaintext"}]

ASSUME WorldsTyped == Worlds \subseteq WorldType

VARIABLES
    clientSent,     \* bytes the client has sealed
    clientSeq,      \* its next sequence number
    clientClosed,   \* it has sent close_notify
    clientFin,      \* it has closed the TCP connection
    toServer,       \* records on their way to the server
    world,          \* what client and network may still do
    readSeq,        \* read_sequence_number
    buffer,         \* read_buffer from read_position on
    peerClosed,     \* peer_closed, set together with close_notify_received
    got,            \* bytes read() has returned
    eof,            \* read() has returned Ok(0)
    writeSeq,       \* write_sequence_number
    closeSent,      \* close_notify_sent
    failed,         \* failed: a fatal alert was received, the keys are gone
    handler,        \* handle_https_connection: "serving" while in its loop
                    \* over requests, "done" once the stream ended or a
                    \* response was the last, "broken" after an error
    pending,        \* bytes of the current write() not sealed yet
    written,        \* bytes sealed so far
    sealed,         \* every record sealed: its number and content
    toClient,       \* what the client receives
    clientRead,     \* records it has opened
    clientGot,      \* bytes it has received
    clientEof       \* it has received close_notify

client   == <<clientSent, clientSeq, clientClosed, clientFin>>
network  == <<toServer, world>>
reader   == <<readSeq, buffer, peerClosed, got, eof>>
writer   == <<writeSeq, closeSent, pending, written, sealed, toClient>>
receiver == <<clientRead, clientGot, clientEof>>

vars == <<client, network, reader, writer, receiver, failed, handler>>

\* An Option<u64> that is None: past the last number, or erased.
None == MaxSeq + 1

Bytes(from, n) == [i \in 1..n |-> from + i]

Record(type, seq, data) == [type |-> type, seq |-> seq, data |-> data]

\* A record whose ciphertext or header was changed on the way.
Damaged == Record("damaged", None, <<>>)

Init ==
    /\ clientSent = 0 /\ clientSeq = 0
    /\ clientClosed = FALSE /\ clientFin = FALSE
    /\ toServer = <<>> /\ world \in Worlds
    /\ readSeq = 0 /\ buffer = <<>> /\ peerClosed = FALSE
    /\ got = <<>> /\ eof = FALSE /\ handler = "serving"
    /\ writeSeq = 0 /\ closeSent = FALSE /\ failed = FALSE
    /\ pending = 0 /\ written = 0 /\ sealed = <<>> /\ toClient = <<>>
    /\ clientRead = 0 /\ clientGot = <<>> /\ clientEof = FALSE

-----------------------------------------------------------------------------
(* The client and the network.                                             *)

ClientSeals(type, data) ==
    /\ clientSeq # None /\ ~clientClosed /\ ~clientFin
    /\ toServer' = Append(toServer, Record(type, clientSeq, data))
    /\ clientSeq' = clientSeq + 1
    /\ clientClosed' = (type = "close_notify")
    /\ clientSent' = clientSent + Len(data)
    /\ UNCHANGED <<clientFin, world, reader, writer, receiver, failed, handler>>

\* Data of any length up to the limit, an empty record included.
ClientSends ==
    \E n \in 0..FragmentLimit :
        /\ clientSent + n <= world.in
        /\ ClientSeals("data", Bytes(clientSent, n))

ClientCloses == ClientSeals("close_notify", <<>>)

ClientSendsOther == \E type \in world.others : ClientSeals(type, <<>>)

ClientFinishes ==
    /\ ~clientFin /\ clientFin' = TRUE
    /\ UNCHANGED <<clientSent, clientSeq, clientClosed, network, reader,
                   writer, receiver, failed, handler>>

\* The client opens what it receives; a record that does not open ends its
\* connection, and so does a torn one.
ClientReceives ==
    /\ clientRead < Len(toClient) /\ ~clientEof
    /\ LET record == toClient[clientRead + 1]
       IN /\ record.seq = clientRead /\ record.type # "torn"
          /\ clientGot' = clientGot \o record.data
          /\ clientEof' = (record.type = "close_notify")
    /\ clientRead' = clientRead + 1
    /\ UNCHANGED <<client, network, reader, writer, failed, handler>>

\* What can become of one record, or two neighbours, on the way.
NetworkFaults ==
    /\ world.faults > 0
    /\ \E i \in 1..Len(toServer) :
          \/ toServer' = RemoveAt(toServer, i)
          \/ toServer' = InsertAt(toServer, i, toServer[i])
          \/ toServer' = [toServer EXCEPT ![i] = Damaged]
          \/ toServer' = InsertAt(toServer, i, Damaged)
          \/ /\ i < Len(toServer)
             /\ toServer' = [toServer EXCEPT ![i] = toServer[i + 1],
                                             ![i + 1] = toServer[i]]
    /\ world' = [world EXCEPT !.faults = @ - 1]
    /\ UNCHANGED <<client, reader, writer, receiver, failed, handler>>

-----------------------------------------------------------------------------
(* Read for TlsApplicationTransport.                                       *)

\* No write() is under way: the connection has one thread.
Idle == pending = 0

\* Only the handler's loop reads, and it returns after the first error and
\* after Ok(0).
MayRead == Idle /\ handler = "serving"

\* Bytes of the last record, as many as fit into the caller's buffer.
ReadBuffered ==
    /\ MayRead /\ buffer # <<>>
    /\ \E n \in 1..Len(buffer) :
          /\ got' = got \o SubSeq(buffer, 1, n)
          /\ buffer' = SubSeq(buffer, n + 1, Len(buffer))
    /\ UNCHANGED <<client, network, readSeq, peerClosed, eof, writer,
                   receiver, failed, handler>>

\* decrypt_record: the number the reader expects is part of the nonce.  A
\* plaintext record is refused before any key is used.
Opens(record) ==
    /\ ~failed /\ readSeq # None
    /\ record.type \notin {"damaged", "plaintext"} /\ record.seq = readSeq

\* Takes a record off the socket; only a whole record is looked at.
NextRecord ==
    /\ MayRead /\ buffer = <<>> /\ ~peerClosed /\ toServer # <<>>
    /\ toServer' = Tail(toServer)

\* Mutant: an empty record does not use up its number.
ReadDataLeavingNumber ==
    /\ NextRecord /\ Opens(Head(toServer)) /\ Head(toServer).type = "data"
    /\ readSeq' = IF Head(toServer).data = <<>> THEN readSeq ELSE readSeq + 1
    /\ buffer' = Head(toServer).data
    /\ UNCHANGED <<client, world, peerClosed, got, eof, writer, receiver,
                   failed, handler>>

\* A record of application data; an empty one makes read() go on to the
\* next record.
ReadData ==
    /\ NextRecord /\ Opens(Head(toServer)) /\ Head(toServer).type = "data"
    /\ readSeq' = readSeq + 1
    /\ buffer' = Head(toServer).data
    /\ UNCHANGED <<client, world, peerClosed, got, eof, writer, receiver,
                   failed, handler>>

\* Ok(0): the client has finished, in the middle of a request or not.
ReadCloseNotify ==
    /\ NextRecord /\ Opens(Head(toServer))
    /\ Head(toServer).type = "close_notify"
    /\ readSeq' = readSeq + 1
    /\ peerClosed' = TRUE /\ eof' = TRUE /\ handler' = "done"
    /\ UNCHANGED <<client, world, buffer, got, writer, receiver, failed>>

\* user_canceled opens, and the read is an error of kind Interrupted: the
\* read_exact calls of the body reader try again, the other reads return it.
ReadUserCanceled ==
    /\ NextRecord /\ Opens(Head(toServer))
    /\ Head(toServer).type = "user_canceled"
    /\ readSeq' = readSeq + 1
    /\ handler' \in {"serving", "broken"}
    /\ UNCHANGED <<client, world, buffer, peerClosed, got, eof, writer,
                   receiver, failed>>

\* A handshake message opens and is not supported.
ReadHandshake ==
    /\ NextRecord /\ Opens(Head(toServer))
    /\ Head(toServer).type = "handshake"
    /\ readSeq' = readSeq + 1
    /\ handler' = "broken"
    /\ UNCHANGED <<client, world, buffer, peerClosed, got, eof, writer,
                   receiver, failed>>

\* A fatal alert: fail() erases the keys and both sequence numbers.
ReadFatalAlert ==
    /\ NextRecord /\ Opens(Head(toServer)) /\ Head(toServer).type = "fatal"
    /\ failed' = TRUE
    /\ readSeq' = None /\ writeSeq' = None
    /\ handler' = "broken"
    /\ UNCHANGED <<client, world, buffer, peerClosed, got, eof, closeSent,
                   pending, written, sealed, toClient, receiver>>

\* A record that does not open is an error and leaves readSeq alone.
ReadFails ==
    /\ NextRecord /\ ~Opens(Head(toServer))
    /\ handler' = "broken"
    /\ UNCHANGED <<client, world, reader, writer, receiver, failed>>

\* Mutant: a clean end of the TCP stream counts as the end of the data.
ReadTcpEndAsClose ==
    /\ MayRead /\ buffer = <<>> /\ toServer = <<>> /\ clientFin
    /\ eof' = TRUE /\ handler' = "done"
    /\ UNCHANGED <<client, network, readSeq, buffer, peerClosed, got, writer,
                   receiver, failed>>

\* UnexpectedEof: the TCP stream ends where close_notify was due.
ReadTcpEnd ==
    /\ MayRead /\ buffer = <<>> /\ toServer = <<>> /\ clientFin
    /\ handler' = "broken"
    /\ UNCHANGED <<client, network, reader, writer, receiver, failed>>

\* The read timeout expires, between records or inside one.
ReadTimesOut ==
    /\ world.timeouts /\ MayRead /\ buffer = <<>>
    /\ handler' = "broken"
    /\ UNCHANGED <<client, network, reader, writer, receiver, failed>>

Reads ==
    \/ ReadBuffered \/ ReadData \/ ReadCloseNotify \/ ReadUserCanceled
    \/ ReadHandshake \/ ReadFatalAlert \/ ReadFails \/ ReadTcpEnd

-----------------------------------------------------------------------------
(* Write for TlsApplicationTransport, and send_close_notify.               *)

\* Mutant: only the end of the connection is looked at, not its failure.
CanSealAfterFailure == ~closeSent

\* Whether encrypt_record is reached and has a number left.
CanSeal == ~failed /\ ~closeSent /\ writeSeq # None

\* Mutant: the number is kept for the next record when the write fails.
SealsWritten(type, data) ==
    /\ CanSeal
    /\ \/ /\ toClient' = Append(toClient, Record(type, writeSeq, data))
          /\ writeSeq' = writeSeq + 1
       \/ /\ world.timeouts
          /\ toClient' = Append(toClient, Record("torn", writeSeq, <<>>))
          /\ UNCHANGED writeSeq
    /\ sealed' = Append(sealed, Record(type, writeSeq, data))
    /\ written' = written + Len(data)

\* encrypt_record, then write_all of the record: sequence_number is used up
\* before the write, which may time out inside the record (or before it).
Seals(type, data) ==
    /\ CanSeal
    /\ writeSeq' = writeSeq + 1
    /\ \/ toClient' = Append(toClient, Record(type, writeSeq, data))
       \/ /\ world.timeouts
          /\ toClient' = Append(toClient, Record("torn", writeSeq, <<>>))
    /\ sealed' = Append(sealed, Record(type, writeSeq, data))
    /\ written' = written + Len(data)

\* A part of a response, or a 400 after a read that was an error.
WriteCall ==
    /\ Idle /\ handler # "done" /\ ~closeSent
    /\ \E n \in 1..(world.out - written) : pending' = n
    /\ UNCHANGED <<client, network, reader, writeSeq, closeSent, written,
                   sealed, toClient, receiver, failed, handler>>

Min2(a, b) == IF a < b THEN a ELSE b

\* Mutant: the number of bytes left is not reduced by a full fragment.
WriteChunkRepeating ==
    LET n == Min2(pending, FragmentLimit) IN
    /\ pending > 0
    /\ Seals("data", Bytes(IF written > 0 THEN written - 1 ELSE 0, n))
    /\ pending' = pending - n
    /\ UNCHANGED <<client, network, reader, closeSent, receiver, failed,
                   handler>>

\* One fragment of input.chunks(TLS_PLAINTEXT_FRAGMENT_LIMIT); the rest of
\* the input is given up when the write of a record fails.
WriteChunk ==
    LET n == Min2(pending, FragmentLimit) IN
    /\ pending > 0
    /\ Seals("data", Bytes(written, n))
    /\ IF Last(toClient').type = "torn"
         THEN pending' = 0 /\ handler' = "broken"
         ELSE pending' = pending - n /\ UNCHANGED handler
    /\ UNCHANGED <<client, network, reader, closeSent, receiver, failed>>

\* The state refuses to encrypt: write() is an error.
WriteRefused ==
    /\ pending > 0 /\ ~CanSeal
    /\ pending' = 0 /\ handler' = "broken"
    /\ UNCHANGED <<client, network, reader, writeSeq, closeSent, written,
                   sealed, toClient, receiver, failed>>

\* The response was the last one on this connection: handle_connection_io
\* returns without another read.
FinishServing ==
    /\ MayRead /\ written > 0
    /\ handler' = "done"
    /\ UNCHANGED <<client, network, reader, writer, receiver, failed>>

\* After the handler, unless it returned an error of some other kind than a
\* disconnect: a failed write inside a response is not one of those.
SendCloseNotify ==
    /\ Idle /\ handler # "serving"
    /\ Seals("close_notify", <<>>)
    /\ closeSent' = TRUE
    /\ UNCHANGED <<client, network, reader, pending, receiver, failed,
                   handler>>

-----------------------------------------------------------------------------

Next ==
    \/ ClientSends \/ ClientCloses \/ ClientSendsOther \/ ClientFinishes
    \/ ClientReceives \/ NetworkFaults \/ ReadTimesOut \/ Reads
    \/ WriteCall \/ WriteChunk \/ WriteRefused
    \/ FinishServing \/ SendCloseNotify

Spec == Init /\ [][Next]_vars

\* The handler's thread runs: while its loop serves, it comes back to a read
\* or returns once a response is written (a response is finite), and a
\* write() under way goes on.  Nothing is read after the loop.  The client,
\* the network and the handler's wish to write owe nothing.
FairSpec ==
    /\ Spec
    /\ WF_vars(Reads \/ FinishServing)
    /\ WF_vars(WriteChunk \/ WriteRefused)

-----------------------------------------------------------------------------
(* Properties.                                                             *)

\* Inbound: whatever the network does to records and wherever a read gives
\* up, read() returns a prefix of what the client sent, and Ok(0) only after
\* all of it: a cut connection is never taken for a finished one.
Inbound == INSTANCE SecureStream WITH
    sent <- Bytes(0, clientSent), got <- got,
    closed <- clientClosed, ended <- eof

InboundSpec == Inbound!Spec

\* Outbound: the client gets a prefix of what was written, and sees the end
\* only behind all of it, although a write may fail inside a record and
\* close_notify may still follow it.
Outbound == INSTANCE SecureStream WITH
    sent <- Bytes(0, written), got <- clientGot,
    closed <- closeSent, ended <- clientEof

OutboundSpec == Outbound!Spec

\* No two records are sealed under one nonce: the number advances before the
\* write can fail, and there is no record after the last number.
NonceUsedOnce ==
    \A i, j \in 1..Len(sealed) : sealed[i].seq = sealed[j].seq => i = j

\* After a fatal alert nothing more is read or written: the keys are gone.
SilentAfterFailure ==
    [][failed => UNCHANGED <<got, sealed, eof, readSeq>>]_vars

\* On an undisturbed connection the handler of a client that closes returns
\* without an error, whatever records, empty ones too, carry the data: after
\* its last response, or at the close_notify, which it reads behind all of
\* the data (Inbound).
CloseIsSeen == clientClosed ~> handler = "done"
=============================================================================
