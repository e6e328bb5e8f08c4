-------------------------- MODULE HandshakeProofs --------------------------
(***************************************************************************)
(* What the TLS 1.3 handshake of tls.rs and tls_probe.rs agrees on,        *)
(* proved for arbitrary hellos of the client, any number of altered        *)
(* hellos and any number of ChangeCipherSpec records.                      *)
(*                                                                         *)
(* Agreement follows from one record, the client's Finished: its key names *)
(* the transcript up to the ServerHello, its hash the rest.  The invariant *)
(* says what is in those transcripts on each side, and that nobody but the *)
(* client makes such a record.                                             *)
(***************************************************************************)
EXTENDS Handshake, SequenceTheorems, TLAPS

-----------------------------------------------------------------------------
(* The inductive invariant.                                                *)

\* What the handshake keys are derived from, without and with a retry.
Direct(hello, answer) == <<hello, answer>>

Retried(hello, retry, again, answer) ==
    <<[type |-> "message_hash", of |-> hello], retry, again, answer>>

\* The server has handshake keys.
Keyed == {"authenticate", "finished", "app", "served"}

ServerKeys ==
    /\ spc = "hello2" =>
          /\ transcript = AfterHelloRetry(first, HelloRetryRequest(first))
          /\ identity = first.sni
    /\ spc \in Keyed =>
          LET hash == hs.c.hash
          IN /\ identity = first.sni
             /\ hs = HandshakeSecrets(hs.main, hash)
             /\ \/ hash = Direct(first, ServerHello(first))
                \/ /\ hash = Retried(first, HelloRetryRequest(first), hash[3],
                                     ServerHello(hash[3]))
                   /\ hash[3].sni = first.sni

ClientKeys ==
    /\ cpc = "start" => hellos = <<>>
    /\ cpc = "hello" =>
          \/ hellos = <<hellos[1]>> /\ ctranscript = <<hellos[1]>>
          \/ /\ hellos = <<hellos[1], hellos[2]>>
             /\ ctranscript = <<[type |-> "message_hash", of |-> hellos[1]],
                                ctranscript[2], hellos[2]>>
    /\ cpc \in {"keys", "app"} =>
          LET hash == chs.c.hash
          IN /\ chs = HandshakeSecrets(chs.main, hash)
             /\ \/ hellos = <<hellos[1]>> /\ hash = Direct(hellos[1], hash[2])
                \/ /\ hellos = <<hellos[1], hellos[2]>>
                   /\ hash = Retried(hellos[1], hash[2], hellos[2], hash[4])

\* A Finished in flight is the one the client ended its handshake with.
ClientFinished(record) ==
    LET hash == record.message.hash
    IN /\ cpc = "app"
       /\ record = Protected(chs.c, 0, Finished(chs.c, hash))
       /\ capp = ApplicationSecrets(chs, hash)
       /\ ctranscript = Append(hash, Finished(chs.c, hash))

FromClient(record) ==
    \/ record = Ccs
    \/ /\ record.content = "handshake"
       /\ record = Handshake(record.message, record.part)
    \/ /\ record.content = "data"
       /\ \/ record = Protected(record.key, 0, [type |-> "alert"])
          \/ ClientFinished(record)

Delivered ==
    /\ toServer \in Seq(ToSet(toServer))
    /\ \A record \in ToSet(toServer) : FromClient(record)

\* The numbers start at 0 under the handshake key, and again under the key
\* of the application.
Numbered ==
    /\ spc \in {"hello1", "hello2"} => sealed = <<>>
    /\ spc = "authenticate" => sealed = <<sealed[1]>>
    /\ spc \in {"finished", "app"} =>
          sealed = <<sealed[1], sealed[2], sealed[3], sealed[4]>>
    /\ \A i \in 1 .. Len(sealed) :
          IF i <= 4 THEN /\ sealed[i].key = hs.s /\ sealed[i].seq = i - 1
                         /\ hs.s.label = "s hs traffic"
                    ELSE i = 5 /\ sealed[i].key.label = "s ap traffic"
    /\ spc = "app" => app.s.label = "s ap traffic"

IndInv ==
    /\ ServerKeys
    /\ ClientKeys
    /\ Delivered
    /\ Numbered
    /\ Agreement
    /\ IdentityForFinalHello

-----------------------------------------------------------------------------
(* Sequences of arbitrary values.                                          *)

\* A sequence is one over its own elements.
LEMMA OverItsElements ==
    ASSUME NEW S, NEW s \in Seq(S)
    PROVE  s \in Seq(ToSet(s)) /\ ToSet(s) \subseteq S
  <1>1. \A i \in 1 .. Len(s) : s[i] \in S /\ s[i] \in ToSet(s)
    BY ElementOfSeq DEF ToSet
  <1>2. s = [i \in 1 .. Len(s) |-> s[i]] /\ Len(s) \in Nat
    BY LenProperties
  <1>3. s \in Seq(ToSet(s))
    <2>1. s \in [1 .. Len(s) -> ToSet(s)]
      BY <1>1, <1>2
    <2> QED
      BY <1>2, <2>1, SeqDef
  <1>4. ToSet(s) \subseteq S
    BY <1>1 DEF ToSet
  <1> QED
    BY <1>3, <1>4

\* A sequence over a set is one over every larger set.
LEMMA Widen ==
    ASSUME NEW S, NEW T, S \subseteq T, NEW s \in Seq(S)
    PROVE  s \in Seq(T)
  OBVIOUS

\* Tuples put together.
LEMMA Appended ==
    ASSUME NEW S, NEW s \in Seq(S), NEW e \in S, NEW t \in Seq(S),
           Len(t) = Len(s) + 1, \A i \in 1 .. Len(s) : t[i] = s[i],
           t[Len(s) + 1] = e
    PROVE  Append(s, e) = t
  <1>1. PICK a \in Seq(S) :
          /\ a = Append(s, e) /\ Len(a) = Len(s) + 1
          /\ \A i \in 1 .. Len(s) : a[i] = s[i]
          /\ a[Len(s) + 1] = e
    BY AppendProperties
  <1>2. Len(s) \in Nat
    BY LenProperties
  <1>3. \A i \in 1 .. Len(t) : i \in 1 .. Len(s) \/ i = Len(s) + 1
    BY <1>2
  <1>4. \A i \in 1 .. Len(t) : a[i] = t[i]
    BY <1>1, <1>3
  <1> QED
    BY <1>1, <1>4, SeqEqual

\* What two sequences put together are, element by element.
LEMMA Concatenated ==
    ASSUME NEW S, NEW s \in Seq(S), NEW t \in Seq(S), NEW u \in Seq(S),
           Len(u) = Len(s) + Len(t),
           \A i \in 1 .. Len(u) : u[i] = IF i <= Len(s) THEN s[i]
                                                        ELSE t[i - Len(s)]
    PROVE  s \o t = u
  <1>1. /\ s \o t \in Seq(S) /\ Len(s \o t) = Len(s) + Len(t)
        /\ \A i \in 1 .. Len(s) + Len(t) :
              (s \o t)[i] = IF i <= Len(s) THEN s[i] ELSE t[i - Len(s)]
    BY ConcatProperties
  <1>2. PICK a : a = s \o t
    OBVIOUS
  <1>3. /\ a \in Seq(S) /\ Len(a) = Len(u)
        /\ \A i \in 1 .. Len(u) : a[i] = u[i]
    BY <1>1, <1>2
  <1> QED
    BY <1>2, <1>3, SeqEqual

\* The short tuples that transcripts and flights are made of.
LEMMA Tuples ==
    ASSUME NEW a, NEW b, NEW c, NEW d
    PROVE  /\ Append(<<>>, a) = <<a>>
           /\ Append(<<a>>, b) = <<a, b>>
           /\ Append(<<a, b>>, c) = <<a, b, c>>
           /\ <<>> \o <<a, b>> = <<a, b>>
           /\ <<a, b>> \o <<c, d>> = <<a, b, c, d>>
  <1> DEFINE S == {a, b, c, d}
  <1>1. Append(<<>>, a) = <<a>>
    OBVIOUS
  <1>2. Append(<<a>>, b) = <<a, b>>
    <2>1. /\ <<a>> \in Seq(S) /\ <<a, b>> \in Seq(S) /\ b \in S
          /\ Len(<<a>>) = 1 /\ Len(<<a, b>>) = 2
      OBVIOUS
    <2> HIDE DEF S
    <2>2. PICK s, t : s = <<a>> /\ t = <<a, b>>
      OBVIOUS
    <2>3. t[2] = b /\ \A i \in 1 .. 1 : t[i] = s[i]
      BY <2>2
    <2>4. /\ Len(t) = Len(s) + 1 /\ t[Len(s) + 1] = b
          /\ \A i \in 1 .. Len(s) : t[i] = s[i]
      BY <2>1, <2>2, <2>3
    <2>5. s \in Seq(S) /\ t \in Seq(S) /\ b \in S
      BY <2>1, <2>2
    <2>6. Append(s, b) = t
      BY <2>4, <2>5, Appended
    <2> QED
      BY <2>2, <2>6
  <1>3. Append(<<a, b>>, c) = <<a, b, c>>
    <2>1. /\ <<a, b>> \in Seq(S) /\ <<a, b, c>> \in Seq(S) /\ c \in S
          /\ Len(<<a, b>>) = 2 /\ Len(<<a, b, c>>) = 3
      OBVIOUS
    <2> HIDE DEF S
    <2>2. PICK s, t : s = <<a, b>> /\ t = <<a, b, c>>
      OBVIOUS
    <2>3. t[3] = c /\ \A i \in 1 .. 2 : t[i] = s[i]
      BY <2>2
    <2>4. /\ Len(t) = Len(s) + 1 /\ t[Len(s) + 1] = c
          /\ \A i \in 1 .. Len(s) : t[i] = s[i]
      BY <2>1, <2>2, <2>3
    <2>5. s \in Seq(S) /\ t \in Seq(S) /\ c \in S
      BY <2>1, <2>2
    <2>6. Append(s, c) = t
      BY <2>4, <2>5, Appended
    <2> QED
      BY <2>2, <2>6
  <1>4. <<>> \o <<a, b>> = <<a, b>>
    OBVIOUS
  <1>5. <<a, b>> \o <<c, d>> = <<a, b, c, d>>
    <2>1. /\ <<a, b>> \in Seq(S) /\ <<c, d>> \in Seq(S)
          /\ <<a, b, c, d>> \in Seq(S)
          /\ Len(<<a, b>>) = 2 /\ Len(<<c, d>>) = 2 /\ Len(<<a, b, c, d>>) = 4
      OBVIOUS
    <2> HIDE DEF S
    <2>2. PICK s, t, u : s = <<a, b>> /\ t = <<c, d>> /\ u = <<a, b, c, d>>
      OBVIOUS
    <2>3. \A i \in 1 .. 4 : u[i] = IF i <= 2 THEN s[i] ELSE t[i - 2]
      BY <2>2
    <2>4. /\ Len(u) = Len(s) + Len(t)
          /\ \A i \in 1 .. Len(u) : u[i] = IF i <= Len(s) THEN s[i]
                                                          ELSE t[i - Len(s)]
      BY <2>1, <2>2, <2>3
    <2>5. s \in Seq(S) /\ t \in Seq(S) /\ u \in Seq(S)
      BY <2>1, <2>2
    <2>6. s \o t = u
      BY <2>4, <2>5, Concatenated
    <2> QED
      BY <2>2, <2>6
  <1> QED
    BY <1>1, <1>2, <1>3, <1>4, <1>5

\* The server's four records, put together in either way.
LEMMA TupleOfFour ==
    ASSUME NEW a, NEW b, NEW c, NEW d
    PROVE  /\ Append(<<a, b, c>>, d) = <<a, b, c, d>>
           /\ <<a>> \o <<b, c, d>> = <<a, b, c, d>>
  <1> DEFINE S == {a, b, c, d}
  <1>1. <<a>> \o <<b, c, d>> = <<a, b, c, d>>
    <2>1. /\ <<a>> \in Seq(S) /\ <<b, c, d>> \in Seq(S)
          /\ <<a, b, c, d>> \in Seq(S)
          /\ Len(<<a>>) = 1 /\ Len(<<b, c, d>>) = 3 /\ Len(<<a, b, c, d>>) = 4
      OBVIOUS
    <2> HIDE DEF S
    <2>2. PICK s, t, u : s = <<a>> /\ t = <<b, c, d>> /\ u = <<a, b, c, d>>
      OBVIOUS
    <2>3. \A i \in 1 .. 4 : u[i] = IF i <= 1 THEN s[i] ELSE t[i - 1]
      BY <2>2
    <2>4. /\ Len(u) = Len(s) + Len(t)
          /\ \A i \in 1 .. Len(u) : u[i] = IF i <= Len(s) THEN s[i]
                                                          ELSE t[i - Len(s)]
      BY <2>1, <2>2, <2>3
    <2>5. s \in Seq(S) /\ t \in Seq(S) /\ u \in Seq(S)
      BY <2>1, <2>2
    <2>6. s \o t = u
      BY <2>4, <2>5, Concatenated
    <2> QED
      BY <2>2, <2>6
  <1>2. Append(<<a, b, c>>, d) = <<a, b, c, d>>
    <2>1. /\ <<a, b, c>> \in Seq(S) /\ <<a, b, c, d>> \in Seq(S) /\ d \in S
          /\ Len(<<a, b, c>>) = 3 /\ Len(<<a, b, c, d>>) = 4
      OBVIOUS
    <2> HIDE DEF S
    <2>2. PICK s, t : s = <<a, b, c>> /\ t = <<a, b, c, d>>
      OBVIOUS
    <2>3. t[4] = d /\ \A i \in 1 .. 3 : t[i] = s[i]
      BY <2>2
    <2>4. /\ Len(t) = Len(s) + 1 /\ t[Len(s) + 1] = d
          /\ \A i \in 1 .. Len(s) : t[i] = s[i]
      BY <2>1, <2>2, <2>3
    <2>5. s \in Seq(S) /\ t \in Seq(S) /\ d \in S
      BY <2>1, <2>2
    <2>6. Append(s, d) = t
      BY <2>4, <2>5, Appended
    <2> QED
      BY <2>2, <2>6
  <1> QED
    BY <1>1, <1>2

\* Which positions the numbers of records are.
LEMMA Positions ==
    /\ \A i \in 1 .. 1 : i = 1 /\ i <= 4 /\ i - 1 = 0
    /\ \A i \in 1 .. 4 : /\ i <= 4
                         /\ \/ (i = 1 /\ i - 1 = 0) \/ (i = 2 /\ i - 1 = 1)
                            \/ (i = 3 /\ i - 1 = 2) \/ (i = 4 /\ i - 1 = 3)
    /\ \A i \in 1 .. 5 : i \in 1 .. 4 \/ (i = 5 /\ ~(i <= 4))
  <1>1. ASSUME NEW i \in 1 .. 1 PROVE i = 1 /\ i <= 4 /\ i - 1 = 0
    OBVIOUS
  <1>2. ASSUME NEW i \in 1 .. 4
        PROVE  /\ i <= 4
               /\ \/ (i = 1 /\ i - 1 = 0) \/ (i = 2 /\ i - 1 = 1)
                  \/ (i = 3 /\ i - 1 = 2) \/ (i = 4 /\ i - 1 = 3)
    OBVIOUS
  <1>3. ASSUME NEW i \in 1 .. 5 PROVE i \in 1 .. 4 \/ (i = 5 /\ ~(i <= 4))
    OBVIOUS
  <1> QED
    BY <1>1, <1>2, <1>3

\* A key schedule keeps what it was made from.
LEMMA SecretsKeep ==
    ASSUME NEW shared, NEW hash
    PROVE  /\ HandshakeSecrets(shared, hash).c.shared = shared
           /\ HandshakeSecrets(shared, hash).c.hash = hash
           /\ HandshakeSecrets(shared, hash).main = shared
           /\ HandshakeSecrets(shared, hash).s.label = "s hs traffic"
  BY DEF HandshakeSecrets

-----------------------------------------------------------------------------
(* Records in flight to the server.                                        *)

\* It suffices that the records come from a set of the client's.
LEMMA DeliveredFrom ==
    ASSUME NEW S, toServer' \in Seq(S), \A record \in S : FromClient(record)'
    PROVE  Delivered'
  <1>1. PICK s \in Seq(S) : s = toServer'
    OBVIOUS
  <1>2. s \in Seq(ToSet(s)) /\ ToSet(s) \subseteq S
    BY OverItsElements
  <1>3. ToSet(toServer)' = ToSet(s)
    BY <1>1 DEF ToSet
  <1> QED
    BY <1>1, <1>2, <1>3 DEF Delivered

\* A step of the server leaves what the client did.
LEMMA FromClientStays ==
    ASSUME UNCHANGED client, NEW record, FromClient(record)
    PROVE  FromClient(record)'
  BY DEF client, FromClient, ClientFinished

\* Before the client has finished, nothing in flight depends on its state.
LEMMA FromClientBefore ==
    ASSUME cpc # "app", NEW record, FromClient(record)
    PROVE  FromClient(record)'
  BY DEF FromClient, ClientFinished

\* Anyone may send plaintext, and an alert says nothing.
LEMMA PlainFromClient ==
    ASSUME NEW message, NEW part, NEW key
    PROVE  /\ FromClient(Handshake(message, part))
           /\ FromClient(Ccs)
           /\ FromClient(Protected(key, 0, [type |-> "alert"]))
  BY DEF FromClient, Handshake, Protected, Ccs

\* The server takes the next record, or none.
LEMMA TakesRecord ==
    ASSUME Delivered, UNCHANGED client,
           UNCHANGED toServer \/ (toServer # <<>> /\ Consume)
    PROVE  Delivered'
  <1>1. PICK S : S = ToSet(toServer)
    OBVIOUS
  <1>2. toServer \in Seq(S) /\ \A record \in S : FromClient(record)
    BY <1>1 DEF Delivered
  <1>3. toServer' \in Seq(S)
    BY <1>2, HeadTailProperties DEF Consume
  <1>4. \A record \in S : FromClient(record)'
    BY <1>2, FromClientStays
  <1> QED
    BY <1>3, <1>4, DeliveredFrom

\* The client puts records behind the others.
LEMMA SendsRecords ==
    ASSUME Delivered, cpc # "app", NEW T, NEW records \in Seq(T),
           \A record \in T : FromClient(record)',
           toServer' = toServer \o records
    PROVE  Delivered'
  <1>1. PICK S : S = ToSet(toServer)
    OBVIOUS
  <1>2. toServer \in Seq(S) /\ \A record \in S : FromClient(record)
    BY <1>1 DEF Delivered
  <1>3. PICK U : U = S \cup T
    OBVIOUS
  <1>4. toServer \in Seq(U) /\ records \in Seq(U)
    BY <1>2, <1>3, Widen
  <1>5. toServer' \in Seq(U)
    BY <1>4, ConcatProperties
  <1>6. \A record \in U : FromClient(record)'
    BY <1>2, <1>3, FromClientBefore
  <1> QED
    BY <1>5, <1>6, DeliveredFrom

-----------------------------------------------------------------------------
(* Steps of the server.                                                    *)

\* The server goes on waiting or gives up: a ChangeCipherSpec, a part of a
\* message, a refusal or an error.
LEMMA ServerPasses ==
    ASSUME IndInv, UNCHANGED client,
           UNCHANGED <<identity, first, transcript, hs, sealed, app>>,
           spc' = spc \/ spc' \in {"failed", "rejected"},
           UNCHANGED toServer \/ (toServer # <<>> /\ Consume)
    PROVE  IndInv'
  <1>1. ServerKeys'
    BY DEF IndInv, ServerKeys, Keyed
  <1>2. ClientKeys'
    BY DEF IndInv, ClientKeys, client
  <1>3. Delivered'
    BY TakesRecord DEF IndInv
  <1>4. Numbered'
    BY DEF IndInv, Numbered
  <1>5. Agreement' /\ IdentityForFinalHello'
    BY DEF IndInv, Agreement, IdentityForFinalHello, client
  <1> QED
    BY <1>1, <1>2, <1>3, <1>4, <1>5 DEF IndInv

\* The steps after which the server waits or has ended.
LEMMA PassingSteps ==
    ASSUME IndInv,
           \/ SkipCcs \/ BufferPart \/ RefuseRecord \/ RejectName
           \/ RefuseHello \/ RefuseFinished \/ ServerIoFails
    PROVE  IndInv'
  <1>1. CASE SkipCcs
    BY <1>1, ServerPasses DEF SkipCcs
  <1>2. CASE BufferPart
    BY <1>2, ServerPasses DEF BufferPart, Waiting
  <1>3. CASE RefuseRecord
    BY <1>3, ServerPasses DEF RefuseRecord, Waiting
  <1>4. CASE RejectName
    BY <1>4, ServerPasses DEF RejectName, HelloComplete, Waiting
  <1>5. CASE RefuseHello
    BY <1>5, ServerPasses DEF RefuseHello, HelloComplete, Waiting
  <1>6. CASE RefuseFinished
    BY <1>6, ServerPasses DEF RefuseFinished
  <1>7. CASE ServerIoFails
    BY <1>7, ServerPasses DEF ServerIoFails
  <1> QED
    BY <1>1, <1>2, <1>3, <1>4, <1>5, <1>6, <1>7

\* What Negotiate leaves behind, with the transcript it started from.
LEMMA Negotiated ==
    ASSUME NEW hello, NEW before, NEW hash,
           hash = before \o <<hello, ServerHello(hello)>>,
           Negotiate(hello, before)
    PROVE  /\ hs' = HandshakeSecrets(hs'.main, hash)
           /\ hs'.c.hash = hash /\ hs'.s.label = "s hs traffic"
           /\ sealed' = <<sealed'[1]>>
           /\ sealed'[1].key = hs'.s /\ sealed'[1].seq = 0
  BY DEF Negotiate, HandshakeSecrets, Protected

\* The server has derived its keys and sealed its first record.
LEMMA KeysDerived ==
    ASSUME IndInv, UNCHANGED client, toServer # <<>>, Consume,
           spc' = "authenticate", ServerKeys', sealed' = <<sealed'[1]>>,
           sealed'[1].key = hs'.s, sealed'[1].seq = 0,
           hs'.s.label = "s hs traffic"
    PROVE  IndInv'
  <1>1. ClientKeys'
    BY DEF IndInv, ClientKeys, client
  <1>2. Delivered'
    BY TakesRecord DEF IndInv
  <1>3. Numbered'
    <2>1. PICK record : sealed' = <<record>>
      OBVIOUS
    <2>2. Len(sealed') = 1
      BY <2>1
    <2> QED
      BY <2>2, Positions DEF Numbered
  <1>4. Agreement' /\ IdentityForFinalHello'
    BY DEF Agreement, IdentityForFinalHello
  <1> QED
    BY <1>1, <1>2, <1>3, <1>4 DEF IndInv

\* SendServerHello: the keys are derived from the one hello.
LEMMA SendServerHelloStep ==
    ASSUME IndInv, SendServerHello
    PROVE  IndInv'
  <1>1. PICK hello : hello = Hello
    OBVIOUS
  <1>2. /\ toServer # <<>> /\ Consume /\ spc' = "authenticate"
        /\ identity' = hello.sni /\ first' = hello /\ Negotiate(hello, <<>>)
        /\ UNCHANGED client
    BY <1>1 DEF SendServerHello, HelloComplete, Waiting
  <1>3. Direct(hello, ServerHello(hello)) = <<>> \o <<hello, ServerHello(hello)>>
    BY Tuples DEF Direct
  <1>4. /\ hs' = HandshakeSecrets(hs'.main, Direct(hello, ServerHello(hello)))
        /\ hs'.c.hash = Direct(hello, ServerHello(hello))
        /\ hs'.s.label = "s hs traffic" /\ sealed' = <<sealed'[1]>>
        /\ sealed'[1].key = hs'.s /\ sealed'[1].seq = 0
    BY <1>2, <1>3, Negotiated
  <1>5. ServerKeys'
    BY <1>2, <1>4 DEF ServerKeys
  <1> QED
    BY <1>2, <1>4, <1>5, KeysDerived

\* SendHelloRetryRequest: the first hello is replaced by its hash.
LEMMA SendHelloRetryRequestStep ==
    ASSUME IndInv, SendHelloRetryRequest
    PROVE  IndInv'
  <1>1. PICK hello : hello = Hello
    OBVIOUS
  <1>2. /\ toServer # <<>> /\ Consume /\ spc = "hello1" /\ spc' = "hello2"
        /\ identity' = hello.sni /\ first' = hello
        /\ transcript' = AfterHelloRetry(hello, HelloRetryRequest(hello))
        /\ UNCHANGED client /\ UNCHANGED <<hs, sealed, app>>
    BY <1>1 DEF SendHelloRetryRequest, HelloComplete, Waiting
  <1>3. ServerKeys'
    BY <1>2 DEF ServerKeys, Keyed
  <1>4. ClientKeys'
    BY <1>2 DEF IndInv, ClientKeys, client
  <1>5. Delivered'
    BY <1>2, TakesRecord DEF IndInv
  <1>6. Numbered'
    BY <1>2 DEF IndInv, Numbered
  <1>7. Agreement' /\ IdentityForFinalHello'
    BY <1>2 DEF Agreement, IdentityForFinalHello
  <1> QED
    BY <1>3, <1>4, <1>5, <1>6, <1>7 DEF IndInv

\* validate_retry_client_hello keeps the name the identity was chosen for.
LEMMA ContinueAfterRetryStep ==
    ASSUME IndInv, ContinueAfterRetry
    PROVE  IndInv'
  <1>1. PICK hello : hello = Hello
    OBVIOUS
  <1>2. /\ toServer # <<>> /\ Consume /\ spc = "hello2"
        /\ spc' = "authenticate" /\ ValidRetry(first, hello)
        /\ Negotiate(hello, transcript)
        /\ UNCHANGED client /\ UNCHANGED <<identity, first>>
    BY <1>1 DEF ContinueAfterRetry, HelloComplete, Waiting
  <1>3. /\ transcript = AfterHelloRetry(first, HelloRetryRequest(first))
        /\ identity = first.sni
    BY <1>2 DEF IndInv, ServerKeys
  <1>4. hello.sni = first.sni
    BY <1>2 DEF ValidRetry, RetryInvariant
  <1>5. PICK hash : hash = Retried(first, HelloRetryRequest(first), hello,
                                   ServerHello(hello))
    OBVIOUS
  <1>6. hash = transcript \o <<hello, ServerHello(hello)>> /\ hash[3] = hello
    BY <1>3, <1>5, Tuples DEF Retried, AfterHelloRetry
  <1>7. /\ hs' = HandshakeSecrets(hs'.main, hash) /\ hs'.c.hash = hash
        /\ hs'.s.label = "s hs traffic" /\ sealed' = <<sealed'[1]>>
        /\ sealed'[1].key = hs'.s /\ sealed'[1].seq = 0
    BY <1>2, <1>6, Negotiated
  <1>8. ServerKeys'
    BY <1>2, <1>3, <1>4, <1>5, <1>6, <1>7 DEF ServerKeys
  <1> QED
    BY <1>2, <1>7, <1>8, KeysDerived

\* Four records under one key, with the next numbers.
LEMMA AuthenticateStep ==
    ASSUME IndInv, Authenticate
    PROVE  IndInv'
  <1>1. PICK p, q, r :
          /\ p.key = hs.s /\ p.seq = 1 /\ q.key = hs.s /\ q.seq = 2
          /\ r.key = hs.s /\ r.seq = 3 /\ sealed' = sealed \o <<p, q, r>>
    BY DEF Authenticate, Protected
  <1>2. /\ spc = "authenticate" /\ spc' = "finished"
        /\ UNCHANGED <<identity, first, hs, app, toServer>> /\ UNCHANGED client
    BY DEF Authenticate
  <1>3. PICK o : sealed = <<o>>
    BY <1>2 DEF IndInv, Numbered
  <1>4. o.key = hs.s /\ o.seq = 0 /\ hs.s.label = "s hs traffic"
    <2>1. Len(sealed) = 1 /\ sealed[1] = o
      BY <1>3
    <2>2. 1 \in 1 .. Len(sealed) /\ 1 <= 4 /\ 1 - 1 = 0
      BY <2>1
    <2> QED
      BY <2>1, <2>2 DEF IndInv, Numbered
  <1>5. sealed' = <<o, p, q, r>>
    <2>1. <<o>> \o <<p, q, r>> = <<o, p, q, r>>
      BY TupleOfFour
    <2> QED
      BY <1>1, <1>3, <2>1, Zenon
  <1>6. Numbered'
    <2>1. /\ Len(sealed') = 4 /\ sealed'[1] = o /\ sealed'[2] = p
          /\ sealed'[3] = q /\ sealed'[4] = r
      BY <1>5
    <2>2. ASSUME NEW i \in 1 .. 4
          PROVE  /\ sealed'[i].key = hs.s /\ sealed'[i].seq = i - 1
                 /\ i <= 4
      <3>1. CASE i = 1 /\ i - 1 = 0
        <4>1. sealed'[1].key = hs.s /\ sealed'[1].seq = 0
          BY <1>4, <2>1
        <4> QED
          BY <3>1, <4>1
      <3>2. CASE i = 2 /\ i - 1 = 1
        BY <1>1, <2>1, <3>2
      <3>3. CASE i = 3 /\ i - 1 = 2
        BY <1>1, <2>1, <3>3
      <3>4. CASE i = 4 /\ i - 1 = 3
        BY <1>1, <2>1, <3>4
      <3> QED
        BY <3>1, <3>2, <3>3, <3>4, Positions
    <2>3. sealed' = <<sealed'[1], sealed'[2], sealed'[3], sealed'[4]>>
      BY <1>5, <2>1
    <2> QED
      BY <1>2, <1>4, <2>1, <2>2, <2>3 DEF Numbered
  <1>7. ServerKeys'
    BY <1>2 DEF IndInv, ServerKeys, Keyed
  <1>8. ClientKeys'
    BY <1>2 DEF IndInv, ClientKeys, client
  <1>9. Delivered'
    BY <1>2, TakesRecord DEF IndInv
  <1>10. Agreement' /\ IdentityForFinalHello'
    BY <1>2 DEF Agreement, IdentityForFinalHello
  <1> QED
    BY <1>6, <1>7, <1>8, <1>9, <1>10 DEF IndInv

\* One hash names both hellos and, after a retry, the first of them.
LEMMA SameHellos ==
    ASSUME ServerKeys, ClientKeys, spc \in Keyed, cpc = "app", hs.c = chs.c
    PROVE  /\ hs = chs
           /\ first = hellos[1] /\ identity = Last(hellos).sni
  <1>1. PICK hash : hash = hs.c.hash /\ hash = chs.c.hash
    OBVIOUS
  <1>2. /\ identity = first.sni /\ hs = HandshakeSecrets(hs.main, hash)
        /\ \/ hash = Direct(first, ServerHello(first))
           \/ /\ hash = Retried(first, HelloRetryRequest(first), hash[3],
                                ServerHello(hash[3]))
              /\ hash[3].sni = first.sni
    BY <1>1 DEF ServerKeys
  <1>3. /\ chs = HandshakeSecrets(chs.main, hash)
        /\ \/ hellos = <<hellos[1]>> /\ hash = Direct(hellos[1], hash[2])
           \/ /\ hellos = <<hellos[1], hellos[2]>>
              /\ hash = Retried(hellos[1], hash[2], hellos[2], hash[4])
    BY <1>1 DEF ClientKeys
  <1>4. hs = chs
    <2>1. PICK x : x = hs.main
      OBVIOUS
    <2>2. PICK y : y = chs.main
      OBVIOUS
    <2>3. hs = HandshakeSecrets(x, hash) /\ chs = HandshakeSecrets(y, hash)
      BY <1>2, <1>3, <2>1, <2>2
    <2>4. hs.c.shared = x /\ chs.c.shared = y
      BY <2>3, SecretsKeep, Zenon
    <2> QED
      BY <2>3, <2>4
  <1>5. \A a, b, c, d, e, f : Direct(a, b) # Retried(c, d, e, f)
    <2> SUFFICES ASSUME NEW a, NEW b, NEW c, NEW d, NEW e, NEW f
                 PROVE  Direct(a, b) # Retried(c, d, e, f)
      OBVIOUS
    <2>1. Len(Direct(a, b)) = 2 /\ Len(Retried(c, d, e, f)) = 4
      BY DEF Direct, Retried
    <2> QED
      BY <2>1
  <1>6. CASE /\ hash = Direct(first, ServerHello(first))
             /\ hellos = <<hellos[1]>> /\ hash = Direct(hellos[1], hash[2])
    <2>1. first = hellos[1]
      BY <1>6 DEF Direct
    <2>2. Last(hellos) = hellos[1]
      <3>1. PICK a : hellos = <<a>>
        BY <1>6
      <3> QED
        BY <3>1 DEF Last
    <2> QED
      BY <1>2, <1>4, <2>1, <2>2
  <1>7. CASE /\ hash = Retried(first, HelloRetryRequest(first), hash[3],
                               ServerHello(hash[3]))
             /\ hash[3].sni = first.sni
             /\ hellos = <<hellos[1], hellos[2]>>
             /\ hash = Retried(hellos[1], hash[2], hellos[2], hash[4])
    <2>1. first = hellos[1] /\ hash[3] = hellos[2]
      BY <1>7 DEF Retried
    <2>2. Last(hellos) = hellos[2]
      <3>1. PICK a, b : hellos = <<a, b>>
        BY <1>7
      <3> QED
        BY <3>1 DEF Last
    <2> QED
      BY <1>2, <1>4, <1>7, <2>1, <2>2
  <1> QED
    BY <1>2, <1>3, <1>5, <1>6, <1>7

\* The Finished the server expects is the one its client has sent.
LEMMA CompleteHandshakeStep ==
    ASSUME IndInv, CompleteHandshake
    PROVE  IndInv'
  <1>1. PICK record : record = Head(toServer)
    OBVIOUS
  <1>2. /\ spc = "finished" /\ spc' = "app" /\ toServer # <<>> /\ Consume
        /\ Expected(record)
        /\ app' = ApplicationSecrets(hs, transcript)
        /\ transcript' = Append(transcript, record.message)
        /\ UNCHANGED <<identity, first, hs, sealed>> /\ UNCHANGED client
    BY <1>1 DEF CompleteHandshake
  <1>3. FromClient(record)
    <2>1. PICK S : S = ToSet(toServer)
      OBVIOUS
    <2>2. toServer \in Seq(S) /\ \A r \in S : FromClient(r)
      BY <2>1 DEF IndInv, Delivered
    <2> QED
      BY <1>1, <1>2, <2>2, HeadTailProperties
  <1>4. record.content = "data" /\ record.message = Finished(hs.c, transcript)
    BY <1>2 DEF Expected
  <1>5. record.message.type = "finished" /\ record.message.hash = transcript
    BY <1>4 DEF Finished
  <1>6. ClientFinished(record)
    <2>1. record # Ccs \/ record.content = "ccs"
      BY DEF Ccs
    <2>2. record = Protected(record.key, 0, [type |-> "alert"]) =>
             record.message.type = "alert"
      <3>1. ASSUME NEW key PROVE Protected(key, 0, [type |-> "alert"]).message.type = "alert"
        BY DEF Protected
      <3> QED
        BY <3>1
    <2> QED
      BY <1>3, <1>4, <1>5, <2>1, <2>2 DEF FromClient
  <1>7. /\ cpc = "app"
        /\ record = Protected(chs.c, 0, Finished(chs.c, transcript))
        /\ capp = ApplicationSecrets(chs, transcript)
        /\ ctranscript = Append(transcript, Finished(chs.c, transcript))
    BY <1>5, <1>6 DEF ClientFinished
  <1>8. hs.c = chs.c
    <2>1. record.message = Finished(chs.c, transcript)
      BY <1>7 DEF Protected
    <2> QED
      BY <1>4, <2>1 DEF Finished
  <1>9. hs = chs /\ first = hellos[1] /\ identity = Last(hellos).sni
    BY <1>2, <1>7, <1>8, SameHellos DEF IndInv, Keyed
  <1>10. Agreement' /\ IdentityForFinalHello'
    BY <1>2, <1>4, <1>7, <1>8, <1>9 DEF Agreement, IdentityForFinalHello, client
  <1>11. ServerKeys'
    BY <1>2 DEF IndInv, ServerKeys, Keyed
  <1>12. ClientKeys'
    BY <1>2 DEF IndInv, ClientKeys, client
  <1>13. Delivered'
    BY <1>2, TakesRecord DEF IndInv
  <1>14. Numbered'
    <2>1. app'.s.label = "s ap traffic"
      BY <1>2 DEF ApplicationSecrets
    <2> QED
      BY <1>2, <2>1 DEF IndInv, Numbered
  <1> QED
    BY <1>10, <1>11, <1>12, <1>13, <1>14 DEF IndInv

\* Respond: the first record under the application key.
LEMMA RespondStep ==
    ASSUME IndInv, Respond
    PROVE  IndInv'
  <1>1. PICK r : /\ r.key = app.s /\ sealed' = Append(sealed, r)
    BY DEF Respond, Protected
  <1>2. /\ spc = "app" /\ spc' = "served"
        /\ UNCHANGED <<identity, first, transcript, hs, app, toServer>>
        /\ UNCHANGED client
    BY DEF Respond
  <1>3. Numbered'
    <2>1. PICK a, b, c, d : sealed = <<a, b, c, d>>
      <3>1. sealed = <<sealed[1], sealed[2], sealed[3], sealed[4]>>
        BY <1>2 DEF IndInv, Numbered
      <3> QED
        BY <3>1, Zenon
    <2>2. PICK S : S = {a, b, c, d, r}
      OBVIOUS
    <2>3. sealed \in Seq(S) /\ Len(sealed) = 4 /\ r \in S
      BY <2>1, <2>2
    <2>4. /\ Len(sealed') = 5 /\ sealed'[5] = r
          /\ \A i \in 1 .. 4 : sealed'[i] = sealed[i]
      <3>1. /\ Len(Append(sealed, r)) = 5 /\ Append(sealed, r)[5] = r
            /\ \A i \in 1 .. 4 : Append(sealed, r)[i] = sealed[i]
        <4>1. /\ Len(Append(sealed, r)) = Len(sealed) + 1
              /\ \A i \in 1 .. Len(sealed) : Append(sealed, r)[i] = sealed[i]
              /\ Append(sealed, r)[Len(sealed) + 1] = r
          <5>1. PICK t \in Seq(S) : t = sealed
            BY <2>3
          <5>2. /\ Len(Append(t, r)) = Len(t) + 1
                /\ \A i \in 1 .. Len(t) : Append(t, r)[i] = t[i]
                /\ Append(t, r)[Len(t) + 1] = r
            BY <2>3, AppendProperties
          <5> QED
            BY <5>1, <5>2, Zenon
        <4> QED
          BY <2>3, <4>1
      <3> QED
        BY <1>1, <3>1, Zenon
    <2>5. r.key.label = "s ap traffic"
      BY <1>1, <1>2 DEF IndInv, Numbered
    <2>6. ASSUME NEW i \in 1 .. 5
          PROVE  IF i <= 4 THEN /\ sealed'[i].key = hs.s /\ sealed'[i].seq = i - 1
                                /\ hs.s.label = "s hs traffic"
                           ELSE i = 5 /\ sealed'[i].key.label = "s ap traffic"
      <3>1. CASE i \in 1 .. 4
        <4>1. /\ sealed[i].key = hs.s /\ sealed[i].seq = i - 1
              /\ hs.s.label = "s hs traffic"
          BY <2>3, <3>1, Positions DEF IndInv, Numbered
        <4> QED
          BY <2>4, <3>1, <4>1, Positions
      <3>2. CASE i = 5 /\ ~(i <= 4)
        BY <2>4, <2>5, <3>2
      <3> QED
        BY <3>1, <3>2, Positions
    <2> QED
      BY <1>2, <2>4, <2>6 DEF Numbered
  <1>4. ServerKeys'
    BY <1>2 DEF IndInv, ServerKeys, Keyed
  <1>5. ClientKeys'
    BY <1>2 DEF IndInv, ClientKeys, client
  <1>6. Delivered'
    BY <1>2, TakesRecord DEF IndInv
  <1>7. Agreement' /\ IdentityForFinalHello'
    BY <1>2 DEF IndInv, Agreement, IdentityForFinalHello, client
  <1> QED
    BY <1>3, <1>4, <1>5, <1>6, <1>7 DEF IndInv

-----------------------------------------------------------------------------
(* Steps of the client and of the network.                                 *)

\* The client moves before it has finished, so the server has not.
LEMMA ClientMoves ==
    ASSUME IndInv, cpc # "app", UNCHANGED server, ClientKeys', Delivered'
    PROVE  IndInv'
  <1>1. ServerKeys'
    BY DEF IndInv, ServerKeys, server
  <1>2. Numbered'
    BY DEF IndInv, Numbered, server
  <1>3. Agreement' /\ IdentityForFinalHello'
    BY DEF IndInv, Agreement, IdentityForFinalHello, server
  <1> QED
    BY <1>1, <1>2, <1>3 DEF IndInv

\* Whatever way a hello goes onto the wire.
LEMMA SendHelloDelivered ==
    ASSUME IndInv, cpc # "app", NEW hello, NEW before, SendHello(hello, before)
    PROVE  Delivered'
  <1> DEFINE T == {Ccs, Handshake(hello, "whole"), Handshake(hello, "begin"),
                   Handshake(hello, "rest"), Handshake(hello, "more"),
                   Handshake(hello, "old")}
  <1>1. PICK records \in Carried(hello) : toServer' = toServer \o records
    BY DEF SendHello
  <1>2. records \in Seq(T)
    <2>1. PICK a, b, c, d, e, f :
            /\ a = Ccs /\ b = Handshake(hello, "whole")
            /\ c = Handshake(hello, "begin") /\ d = Handshake(hello, "rest")
            /\ e = Handshake(hello, "more") /\ f = Handshake(hello, "old")
      OBVIOUS
    <2>2. records \in {<<b>>, <<c, d>>, <<a, b>>, <<c, a, d>>, <<e>>, <<f>>}
      BY <2>1 DEF Carried
    <2>3. PICK S : S = {a, b, c, d, e, f}
      OBVIOUS
    <2>4. /\ <<b>> \in Seq(S) /\ <<c, d>> \in Seq(S) /\ <<a, b>> \in Seq(S)
          /\ <<c, a, d>> \in Seq(S) /\ <<e>> \in Seq(S) /\ <<f>> \in Seq(S)
      BY <2>3
    <2>5. records \in Seq(S)
      BY <2>2, <2>4, Zenon
    <2> QED
      BY <2>1, <2>3, <2>5
  <1>3. \A record \in T : FromClient(record)
    BY PlainFromClient
  <1>4. \A record \in T : FromClient(record)'
    BY <1>3, FromClientBefore
  <1> HIDE DEF T
  <1> QED
    BY <1>1, <1>2, <1>4, SendsRecords DEF IndInv

\* ClientSendsHello: the first hello, whatever it offers.
LEMMA ClientSendsHelloStep ==
    ASSUME IndInv, ClientSendsHello
    PROVE  IndInv'
  <1>1. PICK hello : SendHello(hello, <<>>)
    BY DEF ClientSendsHello
  <1>2. cpc = "start" /\ cpc' = "hello" /\ UNCHANGED server
    BY <1>1 DEF ClientSendsHello, SendHello
  <1>3. hellos' = <<hello>> /\ ctranscript' = <<hello>>
    <2>1. hellos = <<>> /\ Append(<<>>, hello) = <<hello>>
      BY <1>2, Tuples DEF IndInv, ClientKeys
    <2> QED
      BY <1>1, <2>1 DEF SendHello
  <1>4. ClientKeys'
    <2>1. hellos'[1] = hello
      BY <1>3
    <2> QED
      BY <1>2, <1>3, <2>1 DEF ClientKeys
  <1>5. Delivered'
    BY <1>1, <1>2, SendHelloDelivered
  <1> QED
    BY <1>2, <1>4, <1>5, ClientMoves

\* ClientRetries: the second hello, after the hash of the first.
LEMMA ClientRetriesStep ==
    ASSUME IndInv, ClientRetries
    PROVE  IndInv'
  <1>1. PICK hello, retry :
          retry = Received.message
          /\ SendHello(hello, AfterHelloRetry(hellos[1], retry))
    BY DEF ClientRetries
  <1>2. /\ cpc = "hello" /\ cpc' = "hello" /\ Len(hellos) = 1
        /\ UNCHANGED server
    BY <1>1 DEF ClientRetries, ServerSent, SendHello
  <1>3. PICK a : hellos = <<a>>
    <2>1. ASSUME NEW x, NEW y PROVE Len(<<x, y>>) # 1
      OBVIOUS
    <2> QED
      BY <1>2, <2>1 DEF IndInv, ClientKeys
  <1>4. PICK h : h = [type |-> "message_hash", of |-> a]
    OBVIOUS
  <1>5. hellos' = <<a, hello>> /\ ctranscript' = <<h, retry, hello>>
    <2>1. Append(<<a>>, hello) = <<a, hello>>
      BY Tuples
    <2>2. Append(<<h, retry>>, hello) = <<h, retry, hello>>
      BY Tuples
    <2>3. hellos[1] = a
      BY <1>3
    <2>4. AfterHelloRetry(hellos[1], retry) = <<h, retry>>
      BY <1>4, <2>3 DEF AfterHelloRetry
    <2> QED
      BY <1>1, <1>3, <2>1, <2>2, <2>4 DEF SendHello
  <1>6. ClientKeys'
    <2>1. hellos'[1] = a /\ hellos'[2] = hello /\ ctranscript'[2] = retry
      BY <1>5
    <2> QED
      BY <1>2, <1>4, <1>5, <2>1 DEF ClientKeys
  <1>7. Delivered'
    BY <1>1, <1>2, SendHelloDelivered
  <1> QED
    BY <1>2, <1>6, <1>7, ClientMoves

\* ClientSkipsCcs, ProbeOpensRecord and ProbeFails: nothing is sent.
LEMMA ClientPasses ==
    ASSUME IndInv, cpc # "app", UNCHANGED server,
           UNCHANGED <<hellos, ctranscript, chs, toServer>>,
           cpc' = cpc \/ cpc' \in {"done", "failed"}
    PROVE  IndInv'
  <1>1. ClientKeys'
    BY DEF IndInv, ClientKeys
  <1>2. Delivered'
    <2>1. PICK S : S = ToSet(toServer)
      OBVIOUS
    <2>2. toServer' \in Seq(S) /\ \A record \in S : FromClient(record)
      BY <2>1 DEF IndInv, Delivered
    <2> QED
      BY <2>2, FromClientBefore, DeliveredFrom
  <1> QED
    BY <1>1, <1>2, ClientMoves

\* ReceiveServerHello: the client derives its keys.
LEMMA ReceiveServerHelloStep ==
    ASSUME IndInv, ReceiveServerHello
    PROVE  IndInv'
  <1>1. PICK m, shared :
          /\ ctranscript' = Append(ctranscript, m)
          /\ chs' = HandshakeSecrets(shared, ctranscript')
    BY DEF ReceiveServerHello
  <1>2. /\ cpc = "hello" /\ cpc' = "keys" /\ UNCHANGED server
        /\ UNCHANGED <<hellos, toServer>>
    BY DEF ReceiveServerHello, ServerSent
  <1>3. PICK hash : hash = ctranscript'
    OBVIOUS
  <1>4. chs' = HandshakeSecrets(chs'.main, hash) /\ chs'.c.hash = hash
    <2>1. chs' = HandshakeSecrets(shared, hash)
      BY <1>1, <1>3
    <2>2. chs'.main = shared /\ chs'.c.hash = hash
      BY <2>1, SecretsKeep, Zenon
    <2> QED
      BY <2>1, <2>2
  <1>5. \/ hellos = <<hellos[1]>> /\ hash = Direct(hellos[1], hash[2])
        \/ /\ hellos = <<hellos[1], hellos[2]>>
           /\ hash = Retried(hellos[1], hash[2], hellos[2], hash[4])
    <2>1. CASE hellos = <<hellos[1]>> /\ ctranscript = <<hellos[1]>>
      <3>1. PICK a : a = hellos[1]
        OBVIOUS
      <3>2. hash = <<a, m>>
        <4>1. Append(<<a>>, m) = <<a, m>>
          BY Tuples
        <4> QED
          BY <1>1, <1>3, <2>1, <3>1, <4>1
      <3>3. hash[2] = m
        BY <3>2
      <3> QED
        BY <2>1, <3>1, <3>2, <3>3 DEF Direct
    <2>2. CASE /\ hellos = <<hellos[1], hellos[2]>>
               /\ ctranscript = <<[type |-> "message_hash", of |-> hellos[1]],
                                  ctranscript[2], hellos[2]>>
      <3>1. PICK a, b, h, q :
              /\ a = hellos[1] /\ b = hellos[2] /\ q = ctranscript[2]
              /\ h = [type |-> "message_hash", of |-> hellos[1]]
        OBVIOUS
      <3>2. hash = <<h, q, b, m>>
        <4>1. Append(<<h, q, b>>, m) = <<h, q, b, m>>
          BY TupleOfFour
        <4>2. ctranscript = <<h, q, b>>
          BY <2>2, <3>1
        <4> QED
          BY <1>1, <1>3, <4>1, <4>2
      <3>3. hash[2] = q /\ hash[4] = m
        BY <3>2
      <3> QED
        BY <2>2, <3>1, <3>2, <3>3 DEF Retried
    <2> QED
      BY <1>2, <2>1, <2>2 DEF IndInv, ClientKeys
  <1>6. ClientKeys'
    BY <1>2, <1>4, <1>5 DEF ClientKeys
  <1>7. Delivered'
    <2>1. PICK S : S = ToSet(toServer)
      OBVIOUS
    <2>2. toServer' \in Seq(S) /\ \A record \in S : FromClient(record)
      BY <1>2, <2>1 DEF IndInv, Delivered
    <2> QED
      BY <1>2, <2>2, FromClientBefore, DeliveredFrom
  <1> QED
    BY <1>2, <1>6, <1>7, ClientMoves

\* The one step that makes a Finished.
LEMMA ClientFinishesStep ==
    ASSUME IndInv, ClientFinishes
    PROVE  IndInv'
  <1>1. PICK t : t = Through(4)
    OBVIOUS
  <1>2. PICK record : record = Protected(chs.c, 0, Finished(chs.c, t))
    OBVIOUS
  <1>3. /\ cpc = "keys" /\ cpc' = "app" /\ UNCHANGED server
        /\ UNCHANGED <<hellos, chs>> /\ capp' = ApplicationSecrets(chs, t)
        /\ ctranscript' = Append(t, Finished(chs.c, t))
    BY <1>1 DEF ClientFinishes, FlightArrived
  <1>4. PICK n \in 0 .. 1 :
          toServer' = toServer \o [i \in 1 .. n |-> Ccs] \o <<record>>
    <2>1. PICK n \in 0 .. (IF ccsLeft = 0 THEN 0 ELSE 1) :
            toServer' = toServer \o [i \in 1 .. n |-> Ccs] \o
                        <<Protected(chs.c, 0, Finished(chs.c, Through(4)))>>
      BY Zenon DEF ClientFinishes
    <2>2. n \in 0 .. 1
      OBVIOUS
    <2> QED
      BY <1>1, <1>2, <2>1, <2>2, Zenon
  <1>5. FromClient(record)'
    <2>1. record.message.hash = t /\ record.content = "data"
      BY <1>2 DEF Protected, Finished
    <2>2. ClientFinished(record)'
      BY <1>2, <1>3, <2>1 DEF ClientFinished
    <2> QED
      BY <2>1, <2>2 DEF FromClient
  <1>6. Delivered'
    <2>1. PICK S : S = ToSet(toServer)
      OBVIOUS
    <2>2. toServer \in Seq(S) /\ \A r \in S : FromClient(r)
      BY <2>1 DEF IndInv, Delivered
    <2>3. PICK U : U = S \cup {Ccs, record}
      OBVIOUS
    <2>4. toServer \in Seq(U)
      BY <2>2, <2>3, Widen
    <2>5. [i \in 1 .. n |-> Ccs] \in Seq(U)
      BY <2>3
    <2>6. <<record>> \in Seq(U)
      BY <2>3
    <2>7. toServer' \in Seq(U)
      BY <1>4, <2>4, <2>5, <2>6, ConcatProperties
    <2>8. FromClient(Ccs)'
      BY <1>3, PlainFromClient, FromClientBefore
    <2>9. \A r \in U : FromClient(r)'
      BY <1>3, <1>5, <2>2, <2>3, <2>8, FromClientBefore
    <2> QED
      BY <2>7, <2>9, DeliveredFrom
  <1>7. ClientKeys'
    BY <1>3 DEF IndInv, ClientKeys
  <1> QED
    BY <1>3, <1>6, <1>7, ClientMoves

\* ClientAborts: a protected alert instead of a Finished.
LEMMA ClientAbortsStep ==
    ASSUME IndInv, ClientAborts
    PROVE  IndInv'
  <1>1. PICK record : record = Protected(chs.c, 0, [type |-> "alert"])
    OBVIOUS
  <1>2. /\ cpc = "keys" /\ cpc' = "failed" /\ UNCHANGED server
        /\ toServer' = Append(toServer, record)
    BY <1>1 DEF ClientAborts, FlightArrived
  <1>3. FromClient(record)'
    BY <1>1, <1>2, PlainFromClient, FromClientBefore
  <1>4. Delivered'
    <2>1. PICK S : S = ToSet(toServer)
      OBVIOUS
    <2>2. toServer \in Seq(S) /\ \A r \in S : FromClient(r)
      BY <2>1 DEF IndInv, Delivered
    <2>3. PICK U : U = S \cup {record}
      OBVIOUS
    <2>4. toServer \in Seq(U) /\ record \in U
      BY <2>2, <2>3, Widen
    <2>5. toServer' \in Seq(U)
      BY <1>2, <2>4, AppendProperties
    <2>6. \A r \in U : FromClient(r)'
      BY <1>2, <1>3, <2>2, <2>3, FromClientBefore
    <2> QED
      BY <2>5, <2>6, DeliveredFrom
  <1>5. ClientKeys'
    BY <1>2 DEF ClientKeys
  <1> QED
    BY <1>2, <1>4, <1>5, ClientMoves

\* ProbeSendsHello: the probe's one hello.
LEMMA ProbeSendsHelloStep ==
    ASSUME IndInv, ProbeSendsHello
    PROVE  IndInv'
  <1>1. PICK hello :
          /\ hellos' = <<hello>> /\ ctranscript' = <<hello>>
          /\ toServer' = <<Handshake(hello, "whole")>>
    BY DEF ProbeSendsHello
  <1>2. cpc = "start" /\ cpc' = "hello" /\ UNCHANGED server
    BY DEF ProbeSendsHello
  <1>3. ClientKeys'
    <2>1. hellos'[1] = hello
      BY <1>1
    <2> QED
      BY <1>1, <1>2, <2>1 DEF ClientKeys
  <1>4. Delivered'
    <2>1. PICK record : record = Handshake(hello, "whole")
      OBVIOUS
    <2>2. toServer' \in Seq({record})
      BY <1>1, <2>1
    <2>3. FromClient(record)'
      BY <1>2, <2>1, PlainFromClient, FromClientBefore
    <2> QED
      BY <2>2, <2>3, DeliveredFrom
  <1> QED
    BY <1>2, <1>3, <1>4, ClientMoves

\* All the steps of both clients.
LEMMA ClientStepsStep ==
    ASSUME IndInv, ClientSteps
    PROVE  IndInv'
  <1>1. CASE ClientSkipsCcs
    <2>1. /\ cpc # "app" /\ UNCHANGED server /\ cpc' = cpc
          /\ UNCHANGED <<hellos, ctranscript, chs, toServer>>
      BY <1>1 DEF ClientSkipsCcs, client
    <2> QED
      BY <2>1, ClientPasses
  <1>2. CASE ProbeOpensRecord
    <2>1. /\ cpc # "app" /\ UNCHANGED server /\ cpc' \in {"done", "failed"}
          /\ UNCHANGED <<hellos, ctranscript, chs, toServer>>
      BY <1>2 DEF ProbeOpensRecord
    <2> QED
      BY <2>1, ClientPasses
  <1>3. CASE ProbeFails
    <2>1. /\ cpc # "app" /\ UNCHANGED server /\ cpc' = "failed"
          /\ UNCHANGED <<hellos, ctranscript, chs, toServer>>
      BY <1>3 DEF ProbeFails
    <2> QED
      BY <2>1, ClientPasses
  <1> QED
    BY <1>1, <1>2, <1>3, ClientSendsHelloStep, ClientRetriesStep,
       ReceiveServerHelloStep, ClientFinishesStep, ClientAbortsStep,
       ProbeSendsHelloStep DEF ClientSteps

\* An altered hello is a plaintext record like any other.
LEMMA AlterStep ==
    ASSUME IndInv, Alter
    PROVE  IndInv'
  <1>1. UNCHANGED server /\ UNCHANGED client
    BY DEF Alter
  <1>2. Delivered'
    <2>1. PICK S : S = ToSet(toServer)
      OBVIOUS
    <2>2. toServer \in Seq(S) /\ \A r \in S : FromClient(r)
      BY <2>1 DEF IndInv, Delivered
    <2>3. CASE UNCHANGED toServer
      BY <1>1, <2>2, <2>3, FromClientStays, DeliveredFrom
    <2>4. CASE \E i \in 1 .. Len(toServer) : \E message :
                  /\ toServer[i].content = "handshake"
                  /\ toServer' = [toServer EXCEPT ![i].message = message]
      <3>1. PICK i \in 1 .. Len(toServer) : \E message :
              /\ toServer[i].content = "handshake"
              /\ toServer' = [toServer EXCEPT ![i].message = message]
        BY <2>4
      <3>2. PICK message :
              /\ toServer[i].content = "handshake"
              /\ toServer' = [toServer EXCEPT ![i].message = message]
        BY <3>1
      <3>3. PICK old \in S : old = toServer[i]
        BY <2>2, ElementOfSeq
      <3>4. PICK part : old = Handshake(old.message, part)
        <4>1. FromClient(old) /\ old.content = "handshake"
          BY <2>2, <3>2, <3>3
        <4> QED
          BY <4>1 DEF FromClient, Ccs
      <3>5. PICK new : new = Handshake(message, part)
        OBVIOUS
      <3>6. toServer' = [toServer EXCEPT ![i] = new]
        <4>1. ASSUME NEW x PROVE [Handshake(x, part) EXCEPT !.message = message]
                                   = Handshake(message, part)
          BY DEF Handshake
        <4>2. [old EXCEPT !.message = message] = new
          BY <3>4, <3>5, <4>1
        <4> QED
          BY <3>2, <3>3, <4>2
      <3>7. PICK U : U = S \cup {new}
        OBVIOUS
      <3>8. toServer' \in Seq(U)
        <4>1. toServer \in Seq(U) /\ new \in U
          BY <2>2, <3>7, Widen
        <4> QED
          BY <3>6, <4>1, ExceptSeq
      <3>9. FromClient(new)'
        BY <1>1, <3>5, PlainFromClient, FromClientStays
      <3>10. \A r \in U : FromClient(r)'
        BY <1>1, <2>2, <3>7, <3>9, FromClientStays
      <3> QED
        BY <3>8, <3>10, DeliveredFrom
    <2> QED
      BY <2>3, <2>4 DEF Alter
  <1>3. ServerKeys' /\ Numbered'
    BY <1>1 DEF IndInv, ServerKeys, Numbered, server
  <1>4. ClientKeys'
    BY <1>1 DEF IndInv, ClientKeys, client
  <1>5. Agreement' /\ IdentityForFinalHello'
    BY <1>1 DEF IndInv, Agreement, IdentityForFinalHello, server, client
  <1> QED
    BY <1>2, <1>3, <1>4, <1>5 DEF IndInv

-----------------------------------------------------------------------------
(* Theorems.                                                               *)

\* The invariant holds before anything is sent.
LEMMA InitInv ==
    Init => IndInv
  <1> SUFFICES ASSUME Init PROVE IndInv
    OBVIOUS
  <1>1. ServerKeys /\ ClientKeys /\ Agreement /\ IdentityForFinalHello
    BY DEF Init, ServerKeys, ClientKeys, Keyed, Agreement,
           IdentityForFinalHello
  <1>2. Delivered
    <2>1. toServer = <<>> /\ <<>> \in Seq({})
      BY EmptySeq DEF Init
    <2>2. toServer \in Seq(ToSet(toServer)) /\ ToSet(toServer) \subseteq {}
      <3>1. PICK s \in Seq({}) : s = toServer
        BY <2>1
      <3>2. s \in Seq(ToSet(s)) /\ ToSet(s) \subseteq {}
        BY OverItsElements
      <3> QED
        BY <3>1, <3>2
    <2> QED
      BY <2>2 DEF Delivered
  <1>3. Numbered
    <2>1. sealed = <<>> /\ Len(<<>>) = 0 /\ 1 .. 0 = {}
      BY DEF Init
    <2> QED
      BY <2>1 DEF Init, Numbered
  <1> QED
    BY <1>1, <1>2, <1>3 DEF IndInv

\* Every reachable state of the handshake satisfies the inductive invariant,
\* whatever the hellos are and however often one is altered.
THEOREM Invariance ==
    Spec => []IndInv
  <1>1. IndInv /\ [Next]_vars => IndInv'
    <2> SUFFICES ASSUME IndInv, [Next]_vars PROVE IndInv'
      OBVIOUS
    <2>1. CASE UNCHANGED vars
      <3>1. UNCHANGED client /\ UNCHANGED server /\ UNCHANGED toServer
        BY <2>1 DEF vars
      <3> QED
        BY <3>1, ServerPasses DEF server
    <2> QED
      BY <2>1, PassingSteps, SendServerHelloStep, SendHelloRetryRequestStep,
         ContinueAfterRetryStep, AuthenticateStep, CompleteHandshakeStep,
         RespondStep, ClientStepsStep, AlterStep DEF Next, Server
  <1> QED
    BY <1>1, InitInv, PTL DEF Spec

\* complete_handshake accepts only the Finished of a client that has the
\* same hellos, transcript and application secrets, although plaintext
\* hellos may have been altered and a retry may lie between them.
THEOREM BothAgree ==
    Spec => []Agreement
  <1>1. IndInv => Agreement
    BY DEF IndInv
  <1> QED
    BY <1>1, Invariance, PTL

\* The identity selected for the first hello is the one for the hello the
\* keys come from: validate_retry_client_hello lets no name change.
THEOREM IdentityKept ==
    Spec => []IdentityForFinalHello
  <1>1. IndInv => IdentityForFinalHello
    BY DEF IndInv
  <1> QED
    BY <1>1, Invariance, PTL

\* From the EncryptedExtensions to the first record of the application, no
\* number is used twice with one key.
THEOREM NoncesFresh ==
    Spec => []NonceFresh
  <1>1. IndInv => NonceFresh
    <2> SUFFICES ASSUME IndInv, NEW i \in 1 .. Len(sealed),
                        NEW j \in 1 .. Len(sealed),
                        sealed[i].key = sealed[j].key,
                        sealed[i].seq = sealed[j].seq
                 PROVE  i = j
      BY DEF NonceFresh
    <2>1. \A k \in 1 .. Len(sealed) :
             /\ k <= 4 => /\ sealed[k].key = hs.s /\ sealed[k].seq = k - 1
                          /\ hs.s.label = "s hs traffic"
             /\ ~(k <= 4) => k = 5 /\ sealed[k].key.label = "s ap traffic"
      BY DEF IndInv, Numbered
    <2>2. CASE i <= 4 /\ j <= 4
      <3>1. sealed[i].seq = i - 1 /\ sealed[j].seq = j - 1
        BY <2>1, <2>2
      <3>2. i - 1 = j - 1
        BY <3>1
      <3> QED
        BY <3>2
    <2>3. CASE ~(i <= 4) /\ ~(j <= 4)
      BY <2>1, <2>3
    <2>4. CASE i <= 4 /\ ~(j <= 4)
      BY <2>1, <2>4
    <2>5. CASE ~(i <= 4) /\ j <= 4
      BY <2>1, <2>5
    <2> QED
      BY <2>2, <2>3, <2>4, <2>5
  <1> QED
    BY <1>1, Invariance, PTL
=============================================================================
