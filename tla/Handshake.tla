------------------------------ MODULE Handshake ------------------------------
(***************************************************************************)
(* The TLS 1.3 handshake: the server's driver handle_connection of         *)
(* tls_probe.rs over the flights of tls.rs, against a client that is       *)
(* either the repository's own tls_client_probe.rs or an external one that *)
(* completes the handshake.  The external client follows TLS 1.3, but its  *)
(* hellos are arbitrary and its second hello may differ from its first;    *)
(* the network may alter one plaintext hello on its way.                   *)
(*                                                                         *)
(* Cryptography is symbolic: a hash is the sequence it covers, a shared    *)
(* secret the pair of the keys it was made from, a derived secret the      *)
(* record of its inputs, and a sealed record opens under its own key and   *)
(* number only.                                                            *)
(***************************************************************************)
EXTENDS Naturals, Sequences, SequencesExt

CONSTANTS
    FirstHellos,   \* hellos a client starts with
    SecondHellos,  \* hellos it may answer a HelloRetryRequest with
    Known,         \* names TlsIdentityStore::select finds an identity for
    Routed,        \* names Config::route_for_host finds a route for
    Clients,       \* "probe" (tls_client_probe.rs), "full" (external)
    Compat,        \* ChangeCipherSpec records a client may add
    Calm,          \* whether worlds are calm: TRUE, FALSE or both
    MaxAltered,    \* bound on the hellos altered on the way
    ProbeNames,    \* names the client probe may be run for
    NoName         \* the server name of a hello without SNI

ASSUME ClientsKnown == Clients \subseteq {"probe", "full"}
ASSUME BoundsNat == {Compat, MaxAltered} \subseteq Nat
ASSUME CalmBool == Calm \subseteq BOOLEAN

VARIABLES
    spc,          \* the server: what it waits for, or how it ended
    identity,     \* the name its identity was selected for
    first,        \* the first hello as it received it
    partial,      \* bytes of an unfinished message in the deframer
    interleaved,  \* it took another record between two parts of a message
    transcript,   \* its transcript
    hs,           \* its handshake secrets, from the hello transcript
    sealed,       \* records it has sealed: key, number, message
    app,          \* its application secrets
    kind,         \* which client it is
    cpc,          \* what the client waits for, or how it ended
    hellos,       \* hellos the client has sent
    ctranscript,  \* its transcript
    chs,          \* its handshake secrets
    capp,         \* its application secrets
    ccsLeft,      \* ChangeCipherSpec records it may still send
    toServer,     \* records in flight
    toClient,
    world         \* calm: clients frame their hellos well, the server's
                  \* reads and writes succeed, nothing is altered;
                  \* altered: hellos altered on the way

server  == <<spc, identity, first, partial, interleaved, transcript, hs,
             sealed, app>>
client  == <<kind, cpc, hellos, ctranscript, chs, capp, ccsLeft>>
vars    == <<server, client, toServer, toClient, world>>

None == <<>>

-----------------------------------------------------------------------------
(* Messages, records and secrets.                                          *)

Handshake(message, part) ==
    [content |-> "handshake", message |-> message, part |-> part]

Ccs == [content |-> "ccs"]

Alert == [content |-> "alert"]

Protected(key, seq, message) ==
    [content |-> "data", key |-> key, seq |-> seq, message |-> message]

ServerHello(hello) ==
    [type |-> "server_hello", session |-> hello.session, key |-> "server"]

HelloRetryRequest(hello) ==
    [type |-> "hello_retry_request", session |-> hello.session]

EncryptedExtensions(hello) ==
    [type |-> "encrypted_extensions", http |-> hello.alpn = <<"http/1.1">>]

Certificate(name) == [type |-> "certificate", name |-> name]

CertificateVerify(name, hash) ==
    [type |-> "certificate_verify", name |-> name, hash |-> hash]

\* build_tls13_finished: a MAC of the transcript under the sender's secret.
Finished(secret, hash) ==
    [type |-> "finished", secret |-> secret, hash |-> hash]

\* Mutant: the retried transcript starts with the HelloRetryRequest.
AfterHelloRetryOnly(hello, retry) == <<retry>>

\* TlsTranscript::after_hello_retry: the first hello enters as its hash.
AfterHelloRetry(hello, retry) ==
    <<[type |-> "message_hash", of |-> hello], retry>>

\* derive_tls13_handshake_key_schedule and the keys of a secret.
HandshakeSecrets(shared, hash) ==
    [c |-> [label |-> "c hs traffic", shared |-> shared, hash |-> hash],
     s |-> [label |-> "s hs traffic", shared |-> shared, hash |-> hash],
     main |-> shared]

\* Mutant: the application secrets are the handshake's.
ApplicationSecretsReused(secrets, hash) == [c |-> secrets.c, s |-> secrets.s]

\* derive_tls13_application_key_schedule.
ApplicationSecrets(secrets, hash) ==
    [c |-> [label |-> "c ap traffic", shared |-> secrets.main, hash |-> hash],
     s |-> [label |-> "s ap traffic", shared |-> secrets.main, hash |-> hash]]

\* p256_ecdh: both sides get the same secret from one pair of keys.
Ecdh(clientKey, serverKey) == <<clientKey, serverKey>>

-----------------------------------------------------------------------------

Init ==
    /\ spc = "hello1" /\ identity = NoName /\ first = None
    /\ partial = None /\ interleaved = FALSE
    /\ transcript = <<>> /\ hs = None /\ sealed = <<>> /\ app = None
    /\ kind \in Clients /\ cpc = "start" /\ hellos = <<>> /\ ctranscript = <<>>
    /\ chs = None /\ capp = None /\ ccsLeft = Compat
    /\ toServer = <<>> /\ toClient = <<>>
    /\ world \in [calm : Calm, altered : {0}]

-----------------------------------------------------------------------------
(* The server reads a hello: read_client_hello and HandshakeDeframer.      *)

Waiting == spc \in {"hello1", "hello2"} /\ toServer # <<>>

Consume == toServer' = Tail(toServer)

\* Mutant: a ChangeCipherSpec is refused before the second hello as well.
SkipNoCcs ==
    /\ spc = "finished" /\ toServer # <<>> /\ Head(toServer) = Ccs /\ Consume
    /\ interleaved' = (interleaved \/ partial # None)
    /\ UNCHANGED <<spc, identity, first, partial, transcript, hs, sealed,
                   app, client, toClient, world>>

\* A compatibility ChangeCipherSpec is skipped before the second hello and
\* before the client's Finished, whatever the deframer holds.
SkipCcs ==
    /\ spc \in {"hello2", "finished"} /\ toServer # <<>>
    /\ Head(toServer) = Ccs /\ Consume
    /\ interleaved' = (interleaved \/ partial # None)
    /\ UNCHANGED <<spc, identity, first, partial, transcript, hs, sealed,
                   app, client, toClient, world>>

\* push_record keeps the first part of a message.
BufferPart ==
    /\ Waiting /\ Head(toServer).content = "handshake"
    /\ Head(toServer).part = "begin" /\ partial = None
    /\ Consume /\ partial' = Head(toServer).message
    /\ UNCHANGED <<spc, identity, first, interleaved, transcript, hs,
                   sealed, app, client, toClient, world>>

\* A record completes exactly one message and leaves nothing behind it
\* ("more" has another message behind it); the first hello may come in a
\* record of an older version ("old").
Completes(record) ==
    /\ record.content = "handshake"
    /\ \/ record.part = "whole" /\ partial = None
       \/ record.part = "old" /\ partial = None /\ spc = "hello1"
       \/ record.part = "rest" /\ partial = record.message

\* Anything else is an error: no alert is sent.
RefuseRecord ==
    /\ Waiting
    /\ \/ Head(toServer).content \notin {"handshake", "ccs"}
       \/ Head(toServer) = Ccs /\ spc = "hello1"
       \/ /\ Head(toServer).content = "handshake"
          /\ ~Completes(Head(toServer))
          /\ ~(Head(toServer).part = "begin" /\ partial = None)
    /\ Consume /\ spc' = "failed"
    /\ UNCHANGED <<identity, first, partial, interleaved, transcript, hs,
                   sealed, app, client, toClient, world>>

\* The message of the record that completes one.
Hello == Head(toServer).message

HelloComplete == Waiting /\ Completes(Head(toServer))

-----------------------------------------------------------------------------
(* The server answers a hello.                                             *)

\* validate_tls13_server_client_hello.
Supported(hello) ==
    /\ "chacha20" \in ToSet(hello.suites)
    /\ "secp256r1" \in ToSet(hello.groups)
    /\ "ecdsa" \in ToSet(hello.sigs)

P256Shares(hello) == SelectSeq(hello.shares, LAMBDA s : s.group = "secp256r1")

\* What negotiate_tls13_server_hello_from_client_hello and
\* build_tls13_encrypted_extensions still refuse.
Negotiable(hello) ==
    /\ P256Shares(hello) # <<>> /\ P256Shares(hello)[1].key # "invalid"
    /\ hello.alpn \in {<<>>, <<"http/1.1">>}

\* Mutant: extensions are compared without the server name.
RetryInvariantWithoutName(hello) ==
    <<hello.groups, hello.sigs, hello.alpn, hello.others>>

\* retry_invariant_extensions: all but key_share, padding, pre_shared_key
\* and early_data.
RetryInvariant(hello) ==
    <<hello.sni, hello.groups, hello.sigs, hello.alpn, hello.others>>

\* validate_retry_client_hello.
ValidRetry(original, retry) ==
    /\ original.random = retry.random /\ original.session = retry.session
    /\ original.suites = retry.suites
    /\ retry.psk => original.psk
    /\ ~retry.early /\ "cookie" \notin ToSet(retry.others)
    /\ Len(retry.shares) = 1 /\ retry.shares[1].group = "secp256r1"
    /\ RetryInvariant(original) = RetryInvariant(retry)

\* TlsIdentityStore::select, then Config::route_for_host.
Served(name) == name \in Known /\ name \in Routed

\* No identity or no route for the name: a fatal alert in the clear, and the
\* connection ends without an error.
RejectName ==
    /\ spc = "hello1" /\ HelloComplete
    /\ Hello.ok /\ Hello.sni # NoName /\ ~Served(Hello.sni)
    /\ Consume /\ toClient' = Append(toClient, Alert)
    /\ spc' = "rejected" /\ partial' = None
    /\ UNCHANGED <<identity, first, interleaved, transcript, hs, sealed,
                   app, client, world>>

\* A hello that does not parse, has no name, or offers nothing this server
\* can use; a second one that does not continue the first.
RefuseHello ==
    /\ HelloComplete
    /\ \/ ~Hello.ok
       \/ /\ spc = "hello1"
          /\ \/ Hello.sni = NoName
             \/ Served(Hello.sni) /\ ~Supported(Hello)
             \/ /\ Served(Hello.sni) /\ P256Shares(Hello) # <<>>
                /\ ~Negotiable(Hello)
       \/ /\ spc = "hello2"
          /\ ~(Supported(Hello) /\ ValidRetry(first, Hello)
               /\ Negotiable(Hello))
    /\ Consume /\ spc' = "failed" /\ partial' = None
    /\ UNCHANGED <<identity, first, interleaved, transcript, hs, sealed,
                   app, client, toClient, world>>

\* negotiate_tls13_server_hello_from_client_hello: the keys, and the
\* EncryptedExtensions record, exist before the ServerHello is written.
Negotiate(hello, before) ==
    LET hash == before \o <<hello, ServerHello(hello)>>
        secrets == HandshakeSecrets(
                       Ecdh(P256Shares(hello)[1].key, "server"), hash)
    IN /\ transcript' = Append(hash, EncryptedExtensions(hello))
       /\ hs' = secrets
       /\ sealed' = <<Protected(secrets.s, 0, EncryptedExtensions(hello))>>

CompatibilityCcs(hello) == IF hello.session = "empty" THEN <<>> ELSE <<Ccs>>

SendServerHello ==
    /\ spc = "hello1" /\ HelloComplete
    /\ Hello.ok /\ Served(Hello.sni) /\ Supported(Hello) /\ Negotiable(Hello)
    /\ Consume /\ spc' = "authenticate" /\ partial' = None
    /\ identity' = Hello.sni /\ first' = Hello
    /\ Negotiate(Hello, <<>>)
    /\ toClient' = toClient \o <<Handshake(ServerHello(Hello), "whole")>>
                            \o CompatibilityCcs(Hello)
    /\ UNCHANGED <<interleaved, app, client, world>>

\* No key share for P-256, but the group is supported.
SendHelloRetryRequest ==
    /\ spc = "hello1" /\ HelloComplete
    /\ Hello.ok /\ Served(Hello.sni) /\ Supported(Hello)
    /\ P256Shares(Hello) = <<>>
    /\ Consume /\ spc' = "hello2" /\ partial' = None
    /\ identity' = Hello.sni /\ first' = Hello
    /\ transcript' = AfterHelloRetry(Hello, HelloRetryRequest(Hello))
    /\ toClient' = toClient \o <<Handshake(HelloRetryRequest(Hello), "whole")>>
                            \o CompatibilityCcs(Hello)
    /\ UNCHANGED <<interleaved, hs, sealed, app, client, world>>

\* continue_with_client_hello.
ContinueAfterRetry ==
    /\ spc = "hello2" /\ HelloComplete
    /\ Hello.ok /\ Supported(Hello) /\ ValidRetry(first, Hello)
    /\ Negotiable(Hello)
    /\ Consume /\ spc' = "authenticate" /\ partial' = None
    /\ Negotiate(Hello, transcript)
    /\ toClient' = Append(toClient, Handshake(ServerHello(Hello), "whole"))
    /\ UNCHANGED <<identity, first, interleaved, app, client, world>>

-----------------------------------------------------------------------------
(* The server authenticates itself and waits for the client's Finished.    *)

\* authenticate_server, and the writes of the four messages.  They are
\* sealed one after the other, EncryptedExtensions already was.
Authenticate ==
    LET certified == Append(transcript, Certificate(identity))
        verified  == Append(certified, CertificateVerify(identity, certified))
        finished  == Finished(hs.s, verified)
        records   == sealed \o
            <<Protected(hs.s, 1, Certificate(identity)),
              Protected(hs.s, 2, CertificateVerify(identity, certified)),
              Protected(hs.s, 3, finished)>>
    IN /\ spc = "authenticate" /\ spc' = "finished"
       /\ transcript' = Append(verified, finished)
       /\ sealed' = records
       /\ toClient' = toClient \o records
       /\ UNCHANGED <<identity, first, partial, interleaved, hs, app,
                      client, toServer, world>>

\* decrypt_tls13_client_finished, and the comparison of complete_handshake.
Expected(record) ==
    /\ record.content = "data"
    /\ record.key = hs.c /\ record.seq = 0
    /\ record.message = Finished(hs.c, transcript)

\* complete_handshake: application keys exist only from here on.
CompleteHandshake ==
    /\ spc = "finished" /\ toServer # <<>> /\ Expected(Head(toServer))
    /\ Consume /\ spc' = "app"
    /\ app' = ApplicationSecrets(hs, transcript)
    /\ transcript' = Append(transcript, Head(toServer).message)
    /\ UNCHANGED <<identity, first, partial, interleaved, hs, sealed,
                   client, toClient, world>>

RefuseFinished ==
    /\ spc = "finished" /\ toServer # <<>>
    /\ Head(toServer) # Ccs /\ ~Expected(Head(toServer))
    /\ Consume /\ spc' = "failed"
    /\ UNCHANGED <<identity, first, partial, interleaved, transcript, hs,
                   sealed, app, client, toClient, world>>

\* The first record of the application, under the new keys, from number 0.
Respond ==
    /\ spc = "app" /\ spc' = "served"
    /\ sealed' = Append(sealed, Protected(app.s, 0, [type |-> "response"]))
    /\ toClient' = Append(toClient, Last(sealed'))
    /\ UNCHANGED <<identity, first, partial, interleaved, transcript, hs,
                   app, client, toServer, world>>

\* A read or write of the driver fails or times out: the connection ends.
ServerIoFails ==
    /\ ~world.calm /\ spc \in {"hello1", "hello2", "authenticate", "finished"}
    /\ spc' = "failed"
    /\ UNCHANGED <<identity, first, partial, interleaved, transcript, hs,
                   sealed, app, client, toServer, toClient, world>>

Server ==
    \/ SkipCcs \/ BufferPart \/ RefuseRecord \/ RejectName \/ RefuseHello
    \/ SendServerHello \/ SendHelloRetryRequest \/ ContinueAfterRetry
    \/ Authenticate \/ CompleteHandshake \/ RefuseFinished \/ Respond

-----------------------------------------------------------------------------
(* The clients.                                                            *)

\* The ways a hello goes onto the wire, ChangeCipherSpec records included.
Carried(hello) ==
    LET whole == Handshake(hello, "whole")
        begin == Handshake(hello, "begin")
        rest  == Handshake(hello, "rest")
    IN {<<whole>>, <<begin, rest>>}
       \cup (IF ccsLeft = 0 \/ (Len(hellos) = 0 /\ world.calm)
             THEN {} ELSE {<<Ccs, whole>>, <<begin, Ccs, rest>>})
       \cup (IF world.calm THEN {}
             ELSE {<<Handshake(hello, "more")>>, <<Handshake(hello, "old")>>})

SendHello(hello, before) ==
    /\ hellos' = Append(hellos, hello)
    /\ ctranscript' = Append(before, hello)
    /\ \E records \in Carried(hello) :
          /\ toServer' = toServer \o records
          /\ ccsLeft' = IF Ccs \in ToSet(records) THEN ccsLeft - 1
                                                  ELSE ccsLeft
    /\ UNCHANGED <<kind, chs, capp, server, world>>

ClientSendsHello ==
    /\ kind = "full" /\ cpc = "start" /\ cpc' = "hello"
    /\ \E hello \in FirstHellos : SendHello(hello, <<>>)
    /\ UNCHANGED toClient

Received == Head(toClient)

ServerSent(type) ==
    /\ cpc = "hello" /\ toClient # <<>> /\ Received.content = "handshake"
    /\ Received.message.type = type

ClientRetries ==
    /\ kind = "full" /\ ServerSent("hello_retry_request")
    /\ Len(hellos) = 1 /\ toClient' = Tail(toClient)
    /\ \E hello \in SecondHellos :
          SendHello(hello, AfterHelloRetry(hellos[1], Received.message))
    /\ UNCHANGED cpc

ClientSkipsCcs ==
    /\ toClient # <<>> /\ Received = Ccs
    /\ cpc = "keys" \/ (kind = "full" /\ cpc = "hello" /\ Len(hellos) = 2)
    /\ toClient' = Tail(toClient)
    /\ UNCHANGED <<server, client, toServer, world>>

\* receive_server_hello: the same derivation on the client's side.
ReceiveServerHello ==
    /\ ServerSent("server_hello")
    /\ Received.message.session = Last(hellos).session
    /\ toClient' = Tail(toClient)
    /\ ctranscript' = Append(ctranscript, Received.message)
    /\ chs' = HandshakeSecrets(
                  Ecdh(Last(hellos).shares[1].key, Received.message.key),
                  ctranscript')
    /\ cpc' = "keys"
    /\ UNCHANGED <<kind, hellos, capp, ccsLeft, server, toServer, world>>

\* The transcript after the first n messages of the server's flight.
Through(n) == ctranscript \o [i \in 1..n |-> toClient[i].message]

FlightVerifies ==
    /\ \A i \in 1..4 : toClient[i].key = chs.s /\ toClient[i].seq = i - 1
    /\ toClient[3].message =
           CertificateVerify(toClient[2].message.name, Through(2))
    /\ toClient[4].message = Finished(chs.s, Through(3))

FlightArrived ==
    /\ kind = "full" /\ cpc = "keys" /\ Len(toClient) >= 4
    /\ Received.content = "data"

\* The external client checks the server's flight and finishes.
ClientFinishes ==
    LET finished == Finished(chs.c, Through(4)) IN
    /\ FlightArrived /\ FlightVerifies
    /\ toClient' = SubSeq(toClient, 5, Len(toClient))
    /\ capp' = ApplicationSecrets(chs, Through(4))
    /\ ctranscript' = Append(Through(4), finished)
    /\ \E ccs \in 0..(IF ccsLeft = 0 THEN 0 ELSE 1) :
          /\ toServer' = toServer \o [i \in 1..ccs |-> Ccs]
                                  \o <<Protected(chs.c, 0, finished)>>
          /\ ccsLeft' = ccsLeft - ccs
    /\ cpc' = "app"
    /\ UNCHANGED <<kind, hellos, chs, server, world>>

\* A flight that does not verify is answered with a protected alert.
ClientAborts ==
    /\ FlightArrived /\ ~FlightVerifies
    /\ toServer' = Append(toServer, Protected(chs.c, 0, [type |-> "alert"]))
    /\ cpc' = "failed"
    /\ UNCHANGED <<kind, hellos, ctranscript, chs, capp, ccsLeft, server,
                   toClient, world>>

\* build_tls13_client_hello: what the client probe offers.
ProbeHello(name) ==
    [ok |-> TRUE, sni |-> name, random |-> "r1", session |-> "empty",
     suites |-> <<"chacha20">>, groups |-> <<"secp256r1">>,
     sigs |-> <<"ecdsa">>, alpn |-> <<"http/1.1">>,
     shares |-> <<[group |-> "secp256r1", key |-> "c1"]>>,
     psk |-> FALSE, early |-> FALSE, others |-> <<>>]

\* tls_client_probe::run connects and sends its hello in one record.
ProbeSendsHello ==
    /\ kind = "probe" /\ cpc = "start" /\ cpc' = "hello"
    /\ \E name \in ProbeNames :
          /\ hellos' = <<ProbeHello(name)>>
          /\ ctranscript' = <<ProbeHello(name)>>
          /\ toServer' = <<Handshake(ProbeHello(name), "whole")>>
    /\ UNCHANGED <<kind, chs, capp, ccsLeft, server, toClient, world>>

\* The first protected record opens: the probe has seen that both sides
\* have the same handshake keys, and ends.
ProbeOpensRecord ==
    /\ kind = "probe" /\ cpc = "keys" /\ toClient # <<>>
    /\ Received.content = "data"
    /\ cpc' = IF Received.key = chs.s /\ Received.seq = 0 THEN "done"
                                                          ELSE "failed"
    /\ toClient' = Tail(toClient)
    /\ UNCHANGED <<kind, hellos, ctranscript, chs, capp, ccsLeft, server,
                   toServer, world>>

\* An alert, a ChangeCipherSpec before the ServerHello, a retry request or
\* another session, or a server that has gone: the probe ends with an error.
ProbeFails ==
    /\ kind = "probe" /\ cpc \in {"hello", "keys"}
    /\ \/ toClient = <<>> /\ spc = "failed"
       \/ /\ toClient # <<>>
          /\ \/ Received = Alert
             \/ cpc = "hello" /\ Received = Ccs
             \/ ServerSent("hello_retry_request")
             \/ /\ ServerSent("server_hello")
                /\ Received.message.session # Last(hellos).session
    /\ cpc' = "failed"
    /\ UNCHANGED <<kind, hellos, ctranscript, chs, capp, ccsLeft, server,
                   toServer, toClient, world>>

ClientSteps ==
    \/ ClientSendsHello \/ ClientRetries \/ ClientSkipsCcs \/ ReceiveServerHello
    \/ ClientFinishes \/ ClientAborts
    \/ ProbeSendsHello \/ ProbeOpensRecord \/ ProbeFails

\* A plaintext hello is changed on its way: the client's key shares are
\* dropped, or its name, or the session or key of the server's hello.
Alter ==
    /\ ~world.calm /\ world.altered < MaxAltered
    /\ world' = [world EXCEPT !.altered = @ + 1]
    /\ \/ \E i \in 1..Len(toServer) :
             /\ toServer[i].content = "handshake"
             /\ \E message \in {[toServer[i].message EXCEPT !.shares = <<>>],
                                [toServer[i].message EXCEPT !.random = "r9"]} :
                   toServer' = [toServer EXCEPT ![i].message = message]
             /\ UNCHANGED toClient
       \/ \E i \in 1..Len(toClient) :
             /\ toClient[i].content = "handshake"
             /\ toClient[i].message.type = "server_hello"
             /\ toClient' = [toClient EXCEPT ![i].message.key = "other"]
             /\ UNCHANGED toServer
    /\ UNCHANGED <<server, client>>

-----------------------------------------------------------------------------

Next == Server \/ ServerIoFails \/ ClientSteps \/ Alter

Spec == Init /\ [][Next]_vars

\* The server's thread and the client run; the network need not interfere.
FairSpec == Spec /\ WF_vars(Server) /\ WF_vars(ClientSteps)

-----------------------------------------------------------------------------
(* Properties.                                                             *)

\* A server that completes a handshake has the client it completed it with:
\* both have the same hellos, the first one included, the same transcript
\* and the same application secrets, although hellos may be altered.
Agreement ==
    spc \in {"app", "served"} =>
        /\ cpc = "app" /\ app = capp /\ transcript = ctranscript
        /\ first = hellos[1]

\* The certificate was selected for the name of the hello the keys were
\* derived from: a retry cannot change the name under a chosen identity.
IdentityForFinalHello ==
    spc \in {"app", "served"} => identity = Last(hellos).sni

\* No two records are sealed under one key and number, from the handshake
\* into the application.
NonceFresh ==
    \A i, j \in 1..Len(sealed) :
        (sealed[i].key = sealed[j].key /\ sealed[i].seq = sealed[j].seq)
            => i = j

\* A client that offers what this server supports for a name it serves, and
\* repeats its hello as asked.
Conforming ==
    /\ hellos # <<>> /\ hellos[1].ok
    /\ Served(hellos[1].sni) /\ Supported(hellos[1])
    /\ hellos[1].alpn \in {<<>>, <<"http/1.1">>}
    /\ \A i \in 1..Len(hellos[1].shares) : hellos[1].shares[i].key # "invalid"
    /\ Len(hellos) = 2 => /\ hellos[2].ok
                          /\ ValidRetry(hellos[1], hellos[2])
                          /\ Negotiable(hellos[2])

\* On a calm connection a conforming client completes the handshake, with or
\* without a retry, in one record or two, with ChangeCipherSpec where it is
\* allowed; and the client probe ends, and ends well exactly when it has the
\* keys of a server that serves the name it was run for.
HandshakeCompletes ==
    /\ (world.calm /\ kind = "full" /\ cpc = "hello")
          ~> (spc = "served" \/ ~Conforming)
    /\ (world.calm /\ kind = "probe" /\ cpc = "hello") ~>
          \/ cpc = "done" /\ chs = hs /\ Served(hellos[1].sni)
          \/ cpc = "failed" /\ ~Served(hellos[1].sni)

\* What a test of HandshakeDeframer says of fragmented handshake messages:
\* no other record type comes between their parts.
NotInterleaved == ~interleaved
=============================================================================
