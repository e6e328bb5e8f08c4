# A verification of BareProxy

TLA+ models of [BareProxy](../src/README.md), a reverse proxy in Rust without
dependencies, the TLC runs that check them on small instances, and TLAPS proofs
of the runtime's safety for every instance. File and line references are to the
repository under `src/`; `PROJECT.json` maps each definition to its lines.

## The system

| Component | Source | State it keeps | Operations |
|---|---|---|---|
| Server runtime | `server.rs` 1–483 | two listeners, active configuration and TLS identities, `active_connections`, worker handles, counters, two signal flags | poll, admit or reject, spawn, reap, reload (SIGHUP), drain (SIGINT) |
| Connection loop | `server.rs` 485–863 | read-ahead buffer, the `Session` | read a head, route, exchange, keep alive or close, answer errors |
| Upstream exchange | `proxy.rs` | the kept upstream connection | connect or reuse, rewrite and send, await 100, stream the body, relay the response |
| Upgrade tunnel | `proxy.rs` 389–470 | two sockets, two threads | copy, half-close, join |
| HTTP parser | `http.rs` | none | parse a head, build a response |
| Configuration, routing | `config.rs` | none after loading | load, validate, look a host up |
| TLS identities | `tls_identity.rs` | identity store | load, select by server name |
| TLS server transport | `tls_probe.rs` | handshake state, plaintext buffer | drive the handshake, read and write records |
| TLS 1.3 | `tls.rs` | transcript, traffic secrets, sequence numbers, close flags | handshake messages, HelloRetryRequest, deframing, sealing and opening |
| TLS client probe | `tls_client_probe.rs` | the client's side of the same | diagnostic command |
| Start-up | `app.rs`, `main.rs` | none | load the configuration, bind, serve |
| ASN.1, PEM, X.509 | `asn1.rs` | a private key file | parse, encode, store a key |
| Cryptography | `crypto.rs`, `p256.rs` | digest buffer, accumulator, block counter | hashes, AEAD, ECDH, ECDSA |

**How they interact.** `start_proxy` loads a configuration and its identities and
calls `serve_until_with_tls`. Its one thread polls both listeners and spawns a
worker per admitted connection, with a clone of the configuration and of the
identity store. Workers share two things with it: `active_connections` and the
counters. The signal handlers share two flags with it. A worker runs
`handle_connection_io`, directly or over a TLS transport, which owns one
`proxy::Session`; a successful upgrade turns the worker into a tunnel with a
thread of its own. On the HTTPS listener the worker first drives the handshake,
which selects an identity by server name and refuses names without a route; the
transport then turns records into the bytes the connection loop reads.

**What is hard here.** The limit check reads a counter that workers change while
it is made. Reload reads a file, reads identities and binds a socket, and any of
it can fail, while another SIGHUP arrives. A SIGINT has to wait for workers it
cannot interrupt. On a connection, reads fall anywhere across requests;
upstreams close kept connections, answer early, late, partly or not at all;
timeouts race late answers. A tunnel has two threads that learn of a failure
separately, and no timeout. The handshake splices two hellos into one transcript
and changes keys twice; records may be lost, repeated or cut, a write may fail
inside one, and a closed connection must not look like a finished one. A key file
is replaced in four steps on a path that may hold another. Formats have limits,
lengths inside lengths and more than one spelling of a value; the arithmetic has
cases that no random operand reaches. The `hazards` of `PROJECT.json` list these
at the lines where they bite, with the properties that would catch them.

**What makes each part correct.**

- Runtime: slots are counted exactly and taken only below the limit; a reload is
  all or nothing and no SIGHUP is lost; neither listener starves; the drain loses
  no worker, no connection and no count, and ends when the handlers do.
- Connection and exchange: every request is answered once, in order, by the
  answer its own upstream gave to it; no byte of the client is lost or repeated;
  nothing is closed without an answer while the client is there and reads; nothing
  but a client that does not read keeps the worker; both ends agree with the proxy
  where a body ends.
- Tunnel: both directions deliver everything in order; a half-close is passed on
  only when earned; the tunnel ends when it can.
- Head parser: the verdict on a head does not depend on how it is cut into reads;
  exactly the head is consumed; the buffer is bounded.
- TLS: a completed handshake is one both sides agree on, with the identity of the
  name the client finally asked for; no nonce repeats; each direction delivers a
  prefix of what was sent and tells truncation from a close.
- Formats and files: exactly the encodings of a value are read, whatever the cut;
  a configuration that loads means what it says; a stored key is private, and whole
  until it is replaced.
- Arithmetic: equal to its definition for every operand of the scaled types.

## The modules

| Module | Models | Checked by |
|---|---|---|
| `Server` | `serve_until_with_tls`, `reload_runtime_configuration`, both `accept_*_and_spawn`, signal handlers, counters | `MCServer` |
| `ServerProofs` | inductive invariant of `Server` and the theorems | tlapm |
| `Connection` | `handle_connection_io`, its callers, `Session::exchange_with_proto` and everything it calls | `MCConnection` |
| `ConnectionProofs` | inductive invariant of `Connection`, its theorems and the refinement of `ResponseStream` | tlapm |
| `ResponseStream` | abstract: what one client is promised | refined by `Connection` |
| `Tunnel` | `Session::tunnel_upgraded`, `copy_tunnel_direction` | itself |
| `TunnelProofs` | inductive invariant of `Tunnel` and the theorems | tlapm |
| `Handshake` | the driver of `tls_probe.rs`, the flights of `tls.rs`, `tls_client_probe.rs` | `MCHandshake` |
| `HandshakeProofs` | inductive invariant of `Handshake` and the theorems | tlapm |
| `TlsTransport` | `Tls13ApplicationState`, record protection, `TlsApplicationTransport` | `MCTlsTransport` |
| `TlsTransportProofs` | inductive invariant of `TlsTransport`, its theorems and the two refinements | tlapm |
| `SecureStream` | abstract: one direction of a TLS connection | refined twice by `TlsTransport` |
| `RequestHead` | `read_request_head`, `parse_request_with_consumed` | `MCFormats`, `MCRequestHead` |
| `Fields`, `RequestFields` | field syntax; `serialize_request_head` and the framing rules of `http.rs` | `MCFormats` |
| `ResponseFields` | `forward_response`'s decisions about one head | `MCFormats` |
| `Configuration` | the loader and `route_for_host` | `MCFormats` |
| `TlsIdentities` | loading and `select` | `MCFormats` |
| `Deframing`, `InnerPlaintext` | the three incremental decoders, the content type behind padding | `MCFormats` |
| `HelloVectors`, `ClientHello` | the lists inside extensions, the hello around them | `MCFormats` |
| `Der`, `Pem`, `KeyStorage` | DER, PEM and Base64, `persist_p256_private_key_pem` | `MCFormats` |
| `RequestHeadProofs` | what `RequestHead` accepts and refuses, for every stream and cut | tlapm |
| `TlsInputs` | the decoders of `tls.rs` as parts of `Formats` | `MCFormats` |
| `TlsInputProofs` | inductive invariants of `Deframing`, `InnerPlaintext`, `HelloVectors` and `ClientHello` | tlapm |
| `Formats` | the readers and writers side by side, their inputs as constants | `MCFormats` |
| `FormatsProofs` | invariants of `KeyStorage`, `Configuration` and `TlsIdentities`, and the theorems of `Formats` | tlapm |
| `Limbs`, `Curve`, `CurveLaws`, `Ecdsa` | `p256.rs`, bottom up | `MCArithmetic` |
| `Poly1305`, `Aead`, `Sha256` | `crypto.rs` | `MCArithmetic` |
| `FormatInputs`, `HeadInputs` | the inputs of `MCFormats` and `MCRequestHead` | |

Definitions whose comment begins with "Mutant" are not part of a model: each is a
plausible bug in one definition of the code, kept with the property that finds it.

`Formats` and `MCArithmetic` put parts together that do not interact. A
behaviour belongs to one part, named by `part`; the variables `v1`, `v2`, … are
that part's own, in the order its module declares them, and the rest stay empty.
Their properties are conjunctions, one conjunct per part and claim, each defined
and explained in the module of the part.

### Server

The accept thread's place in its loop is `phase`; each step between two
operations on shared state is an action of its own, so the load of
`active_connections` (`PollHttp`, `PollHttps`) and the `fetch_add` (`Admit*`) are
separate, and workers release slots in between. A reload is `TakeReload`,
`LoadReplacement`, then `RejectReplacement` or `CommitReplacement`: the file may be
edited and the flag set again between them. A worker is a thread that counts
(`WorkerCounts`), gives its slot back (`WorkerReleases`) and ends (`WorkerEnds`),
or panics and leaks its slot (`WorkerPanics`). A connection may come back after it
is closed, so connections are reused without bound. `committed` and `rejected`
are history variables. An accept error other than `WouldBlock` is `AcceptFails`.

### Connection and ResponseStream

The client's bytes are segments `[req, part]`; heads and bodies have one or more.
A read moves any non-empty prefix of the wire to the buffer, so heads, bodies and
pipelined requests are cut everywhere a segment ends. `pc` names the function the
worker is in, `tls` the listener it came from. Header syntax, rewriting and
framing fields are abstracted to their verdict: a request kind says which check
refuses it (`flaw`), a reply which of the code's cases it falls in (`Framings`,
1xx, 101, malformed). The verdicts themselves are worked out in `RequestHead`,
`RequestFields` and `ResponseFields`. The upstream is assumed to speak HTTP as far
as one final response per request goes; it may send it before it has the body,
send interim responses, close or reset at any time and stay silent. A write to a
client that is gone, or to an upstream, may fail. A client may also stop reading for
good (`stalled`): over HTTPS a write to it then fails with the write timeout that
`configure_stream` sets (`tls_probe.rs:104`), over plain HTTP, where only reads have
a timeout (`server.rs:493`), it does not return (`Blocked`). A relayed response is
written in many pieces, so a client may stop reading in the middle of one.
`Refuse` is an error counted, answered and the connection closed; `Break` is `ProxyError::ResponseStarted`:
counted and closed with nothing more written.

`ResponseStream` is the promise: requests are taken one at a time, each answer
begins once, is completed before the next request is taken, and nothing follows an
answer that broke off. `Connection` is checked to implement it under the mapping
of `ClientView`: `received` is the current request, `begun` and `answered` count
what has been written to the client, `over` is the end of the loop.

### Tunnel

Two threads and two ends with blocking writes: a socket takes `Window` segments
its peer has not read. The worker writes the read-ahead first, then copies from
the upstream while the second thread copies from the client; each shuts the write
half of its target down when it ends, a failure of the worker's direction shuts
the client down both ways, and `Join` waits for the thread.

### Handshake

Cryptography is symbolic: a hash is the sequence it covers, a shared secret the
pair of keys it was made from, a derived secret the record of its inputs, and a
sealed record opens under its own key and number only. `spc` and `cpc` are the
places of the two sides. The client is either the repository's own probe, which
stops after the server's flight, or an external one that completes the handshake;
the external one follows TLS 1.3 but may send any hello of `FirstHellos`, and any
of `SecondHellos` when asked to retry. A world that is not `calm` has sockets that
fail and a network that alters plaintext hellos. Hellos may come in two records,
ChangeCipherSpec records anywhere. The key schedule, `TlsTranscript::after_hello_retry`,
the retry checks and the order of records in `complete_handshake` follow the code.

### TlsTransport and SecureStream

The cipher is ideal: a record opens exactly when it is undamaged and was sealed
with the number its reader expects. The network may lose, repeat, exchange and
damage records; a read may time out, and a write may fail inside a record.
`handler` is where the caller, `handle_connection_io`, is: "serving" while it may read
and write; "done" once it has returned without an error, after Ok(0) (`ReadCloseNotify`)
or after a last response (`FinishServing`); "broken" after the first error of a read or
a write. Nothing is read after either, so what `read_exact` drops at a timeout is never
missed; user_canceled alone may be followed by another read, because its error kind is
the one `read_exact` repeats on. After an error the handler may still write a 400, and
`SendCloseNotify` comes when it has returned.

Sequence numbers end at `MaxSeq`, after which there is none (`None`), as with the `Option` of the code. `SecureStream` promises one direction: bytes arrive
in order, each once, and the end is reported only when the sender has closed and
everything has arrived. `TlsTransport` implements it for both directions.

### Readers, writers and files

`RequestHead` has bytes CR, LF and everything else; `Parse` follows
`parse_request_with_consumed` check by check and `ValidHead` is an independent
definition of a head within the limits. The initial buffer is any prefix of the
stream, because it holds what the previous request left.

In `Fields` a field is a name and the list of its elements. `RequestFields` follows
a request from the parser to the head that goes upstream; its reference is the set
of bodies that different readers could see in a head, which must have one element
and be the same on both sides. `ResponseFields`
compares what the proxy decides with what a client reading the rewritten head
would decide. `Configuration` reads a file line by line and is compared with a
definition of the first line that cannot stand. `TlsIdentities` compares `select`
with a definition of which identity claims a name.

`Deframing` pushes every cut of every short stream into each decoder: `Turn` is one
turn of the loop in `push()`, and the reference, `GoodFrames`, asks only whether the
bytes can be cut into good frames and knows nothing of pushes. In
`HelloVectors` the reader's position walks through the bytes; `ClientHello` has the
values that it yields. `Der` and `Pem` compare reader and writer with each other
and with the values. `KeyStorage` has an action per system call, an error at each,
crashes that take the file back to any moment since the last sync, and calls one
after another on one path. `saved` is the last call that returned Ok and `opened` the
last that truncated the file. The code truncates in place: a call that then fails or
is cut off by a crash has lost the key that an earlier call reported as saved.
`SavedSurvives` says when that can happen, from the truncation on, and what can be
found instead, a beginning of a later key.

### Arithmetic

The algorithms are those of the code on smaller words, so that all operands can be
tried and the exceptional ones are met: limbs of 2 bits (64 in the code), in the
same numbers and with the same carry chains; a curve y² = x³ − 3x + 15 over 23
elements with 17 points and the generator (1, 6), of prime order and with a field
larger than its order, as P-256, so that the x of a point may need reducing;
Poly1305 with five limbs of 5 bits modulo 2²⁵ − 5 (which is what the code's
reduction needs; that it is not prime does not matter to exactness); block and
counter sizes of a few bytes. `CurveLaws` compares Jacobian formulas with the
chord-and-tangent law on affine points for every representation of every point.
In `Ecdsa` the candidates of the RFC 6979 generator are arbitrary, so every
rejection of the loop happens; a claimed signature may have zeros and numbers from
the order up. In `Poly1305` r is any number: the clamp (`crypto.rs` 873–879), which
only narrows it, is left out. In `Sha256` the length in bits takes one place of the
padding instead of eight bytes, and the limit of 2⁶⁴ bits (393–397) is left out.

## The runs

| Run | Bounds | Shows |
|---|---|---|
| `server` | 2 connections, 2 files, 1 counted event | slots, limit, reload, snapshots, drain; no SIGHUP lost, backlogs served, shutdown completes |
| `server_accept_error` | 1 connection | **violation** of `ExitDrains` |
| `connection` | 2 requests, 5 kinds over HTTP and 8 over HTTPS, 2 upstreams, 1 interim response | answers, routes and streams are right; implements `ResponseStream`; a worker leaves unless it writes to a client that does not read |
| `connection_tls_upgrade` | 1 upgrade request over TLS | **violation** of `SwitchedIsTunnelled` |
| `tunnel` | 1 buffered segment, 2 sent by each end, window 1 | order, completeness, half-close; the threads do not wait for each other |
| `handshake` | 14 first and 13 second hellos, 2 ChangeCipherSpecs, 2 alterations, both clients | agreement, identity, fresh nonces; conforming clients complete, the probe ends |
| `handshake_interleaved` | conforming clients | **violation** of `NotInterleaved` |
| `tls_transport` | 3 bytes in with 2 faults, or 4 out; fragments of 2, numbers 0 to 2 | implements `SecureStream` both ways; nonces; silence after failure |
| `tls_close_live` | 2 bytes in, 2 out, undisturbed | a close is read after everything sent, or the handler has returned before |
| `request_head_split` | the streams of `HeadInputs`, every cut | **violation** of `FragmentationInvisible` |
| `formats` | `FormatInputs` and the limits of the configuration | every reader and writer against its definition |
| `arithmetic` | the scaled types above | every algorithm against its definition |

The properties of `formats` are `HeadsAreExact`, `FieldsKeepTheirMeaning`,
`TlsInputIsExact`, `EncodingsAreExact`, `KeyFileIsSafe` and
`ConfigurationIsFollowed`; those of `arithmetic` `CurveIsExact` and `SealingIsExact`.

**Why the bounds are enough to be interesting.** Two connections and limits 1 and 2
let two listeners compete for the last slot, and let a reload lower the limit below
what is in use; the two files make HTTPS appear and vanish, and a reload may find
the active file again. A listener that moves to another address would take a third
file and four times the states: the safety of `server` is proved for any number of
connections and files, this case included. Two
requests on one connection are what reuse, pipelining and late answers need; with
two upstreams a kept connection may be the wrong one. (The HTTP kinds also pass
with three requests, in 5.6 million states.) A window of one segment makes every
write block at some point. Each unusable hello differs from a good one in one
respect, so that no other check hides the one that should refuse it. Two faults
are what it takes to exchange a record and repeat it; four bytes out need more
records than there are numbers. The limits of heads are 2, 2, 4 and 1, so that
texts of up to three bytes lie on both sides of each, and the other formats are
scaled the same way: a length byte can exceed its limit, a form can change, a list
can end inside an element. The largest byte is one that is no letter of a name and no
content type of an inner plaintext; in `Deframing` it is 3, which leaves the type of an
alert to the proof. `KeyStorage` has three calls and any number of
crashes: a key over a key over a foreign file.

`CHECK_DEADLOCK FALSE` stands in every configuration because everything modelled
really ends: the process after a drain, a connection when it is closed, a
handshake when it has succeeded or failed, a pure function when it has returned.

**Fairness.** `Server`: the accept thread never blocks except in `join`, and a
worker past its handler runs to its end; handlers need not return, clients and
signals need not come. `Connection`: weak fairness of the worker alone, because
every read of the client has the idle timeout, every call on an upstream its own, and
over HTTPS every write to the client the same; client and upstream may stop at any
point. A write to a plain HTTP client has no timeout: while the client is connected
and does not read, the steps that write are disabled and a relay is not fair, and
`WorkerEnds` allows that worker to stay for ever (`<>[]Blocked`), with its slot. It is
one of the handlers that `Server` does not expect to return. `Tunnel`: weak fairness of each
thread, neither end need act; `EndsWithBothEnds` is conditional on both ends
ending and reading, since nothing in the code bounds the wait. A failure of the
tunnel's set-up is fair only when the upstream is gone. `Handshake`: weak fairness
of the server and of the client's steps; `HandshakeCompletes` speaks of calm worlds
only, where no socket fails and nothing is altered. `TlsTransport`: weak fairness of
the handler while it serves, which reads on or returns after its last response, and
weak fairness of a write that has begun; none of anything after it has returned, of
the client or of the network. `CloseIsSeen` is checked on an undisturbed connection:
the client may or may not close, and if it does the handler returns without an error.

### What the violations show

- `server_accept_error`: any `accept()` error but `WouldBlock`, such as a client
  that aborts in the backlog or a lack of descriptors, ends
  `serve_until_with_tls` with `?`, under its running workers and without a drain
  (`server.rs:196`, `215`), against TODO.md lines 57, 290 and 294.
- `connection_tls_upgrade`: over HTTPS the upstream's 101 is forwarded before
  `handle_https_connection` finds that it cannot tunnel and closes
  (`server.rs:581`), against TODO.md lines 264 and 265.
- `request_head_split`: a request line of exactly 8192 bytes is refused if a read
  ends between its CR and LF (`http.rs:342`), against TODO.md lines 89 and 96.
  `RejectsNoValidHead` shows that this is the only cut that matters.
- `handshake_interleaved`: `read_client_hello` skips a ChangeCipherSpec before the
  deframer sees it (`tls_probe.rs:289`), so one between the two parts of the second
  hello is accepted, against what the test at `tls.rs:3944` says.

## The proofs

Each theorem holds for every value of the constants that the module's `ASSUME`s
admit; a run checks the same property on one instance. Every proof has the same
shape: an inductive invariant `IndInv`, checked by TLC before it was proved; one
lemma per conjunct or per action that it survives a step; a theorem `Invariance`;
and the properties as its consequences.

### ServerProofs

`ServerProofs` proves, for every set of connections, limits, addresses, identity
stores and files, that `Spec` implies always `TypeOK`, `SlotAccounting`,
`RuntimeMatchesReload`, `WorkerSnapshotWhole`, `DrainedBeforeComplete` and
`NoneStranded`, and the action property `AdmissionWithinLimit`.

They rest on the assumptions named in `Server`: the set of connections is finite,
limits are positive, `Files` is a non-empty set of file contents, and the values
that stand for `None` are different from the others.

`SlotAccounting` alone is not inductive: the step that spawns a worker adds one to
`active`, which keeps the equation only if that connection holds no slot yet. The
inductive invariant `IndInv` therefore adds

- `Backlogs`: a connection is queued exactly if it is in one backlog, once;
- `Checking`: while the limit is checked there is exactly one accepted connection,
  and the count that was loaded is not below the real one, because between load
  and `fetch_add` only releases happen. This is also what makes the stale check safe;
- `Applying`: what a reload is about to activate is a whole file.

There is one lemma per conjunct (`TypeStep`, `BacklogsStep`, `CheckingStep`,
`SlotStep`, `ReloadStep`, `DrainStep`), each with one step per action that can
disturb it and a frame lemma for the rest. `LimitRespected` follows from
`Checking` and the guard of `Admit`.

### ConnectionProofs

`Spec` implies always `TypeOK`, `AnswersOwnRequest`, `RoutedToItsUpstream`,
`ContinueBeforeBody`, `NoSilentDrop` and `StreamIntact`, and implements
`ResponseStream` (`ServesResponseStream`). Assumed: what a request kind consists
of (`KindsAreRequests`), that only a request with a body can have a broken one,
that `NoRoute` is no address, and that the bounds are numbers. Any number of
requests, of segments in a head or body and of interim responses is covered.

No promise is inductive alone, because each depends on where the worker is in
three streams at once. The invariant states these places:

- `Ordered`: the client's stream is its requests one after the other, whole except
  for the last;
- `Position`: what was taken from the stream ends where `current` and `left` say,
  and `buffer` followed by `wire` is what comes after it. `StreamIntact` follows;
- `Upstreams`: every reply in the upstream connection is to the request it is
  serving, with at most the end of a body behind a final response; before a head
  is sent and between requests nothing is left in it. This is why a kept
  connection cannot answer the next request with the last one's response;
- `Answers`: how many answers have been begun and ended at each place. Their
  difference is what `ResponseStream` sees.

### TunnelProofs

`TypeOK`, `CopiedInOrder` and `EofIsEarned`, for every prefix, number of segments
and positive window. A segment is delivered from the thread that holds it, and
held after it was the first in flight: `ToClient` and `ToUpstream` say that the
segments delivered, held and in flight are consecutive, and all that was sent while
the sender is not reset. `Causes` adds that without a reset neither thread fails
and each ends only when its source has, with nothing left to copy; without it an
end of stream could be passed on by a thread that gave up.

### HandshakeProofs

`Agreement`, `IdentityForFinalHello` and `NonceFresh`, for arbitrary hellos of the
client and any number of altered ones and of ChangeCipherSpec records. Nothing is
assumed of the hellos. The cryptography is symbolic, as in the model: a key or a
hash is the term it was computed from, and records under a key are made only by
who derived it.

The argument uses one record, the client's Finished. Its key names the transcript
up to the ServerHello and its hash the rest, so a server that accepts it has the
client's hellos, the first one included, since a retry puts its hash in the
transcript. `ServerKeys` and `ClientKeys` say what is in the transcripts at each
place, `Delivered` that a Finished on its way to the server is the one the client
ended its handshake with, and `Numbered` which number the server uses next.

### TlsTransportProofs

`NonceUsedOnce`, the action property `SilentAfterFailure`, and both refinements of
`SecureStream` (`OutboundSpec`, `InboundSpec`), for every last sequence number,
positive fragment limit and set of worlds. The stream properties are not inductive
in terms of bytes: a record that arrives twice or late must be told from the one
expected. The invariant therefore says that there is a *cut* of the bytes sent such
that the record with number s carries the piece s. `Outgoing` does so for the
records sealed, numbered in their order, and what the client has opened; `Incoming`
for every record the network holds, wherever and however often, unless it is
damaged, and for what has been read. `Erased` says what a fatal alert takes away.
That the numbers end is part of both: `None` is the number after the last.

### RequestHeadProofs

`TypeOK`, `AcceptsTheHead` and `RejectsNoValidHead`, for every stream of bytes, every
way it is cut into reads and all limits, from `Assumptions` of `RequestHead`: the three
bytes differ, the limits are numbers and the streams consist of those bytes. The state
invariant adds only that the buffer is no longer than the stream; the work lies in two
facts about `Parse`. `AcceptedIsValid`: the places at which `Parse` finds the first
CRLF and the first empty line split the bytes into lines as `ValidHead`, which knows
nothing of searching, demands; the number of header lines is found by a bijection
between the places where lines start and those where they end. `RefusedIsCut`: a
buffer that is the start of a stream with a valid head passes every check of `Parse`,
unless it ends behind the CR of a request line that is as long as is allowed. This is
the finding of `request_head_split`, shown to be the only exception for every limit.

### TlsInputProofs

The four decoders of `TlsInputs`, for every size of a byte, all limits, every input
and every cut of it. Each has an inductive invariant, which `FormatsProofs` carries
through the composition; a step of another part leaves the variables alone.

- `FrameIndInv`, for the three deframers. `Lossless` needs what the loop of `push()`
  has found at every turn (`Reached`); that the loop ends follows from every turn
  taking a byte. `AcceptsGoodStreams` speaks only of the end of a stream, so it is not
  inductive: the invariant says of all bytes, pushed or not, that for *every* way to
  cut them into good frames the frames returned so far end at one of the cuts. One
  turn then reaches the next cut (`GoodTurn`), and no error can lie between two.
- `VectorIndInv`, for the lists in extensions. `Progress` has the cut the reader has
  made so far, the tags it has seen there, and that every cut of the whole list into
  entries contains it: what is refused cannot be cut in another way. That
  `is_valid_server_name`, which looks at labels, and `NameShape`, which looks at
  characters and their neighbours, accept the same names is `ValidNameShape` and
  `NameShapeValid`.
- `HelloIndInv`, for the hello. `HelloProgress` says what has been checked at each place
  of the two loops, over the extensions and over the key shares; `CheckedFollow` and
  `FollowChecked` relate the walk over the key shares, each behind the last in the
  client's list of groups, to a list in that order.
- `InnerIndInv` adds little to the state; `DecodesEncodings` and `EncodesDecoded` show
  decoding and encoding to be inverse to each other.

### FormatsProofs

`Formats` takes what it reads as constants, so its theorems hold for every set of
inputs that its `ASSUME`s admit, which are the `Assumptions` of the parts: they only
say what an input consists of. A behaviour belongs to one part; for each there is an
invariant `part = "..." => ...` that is inductive alone.

- `KeyFileSafe`, `Spec => []KeyFileIsSafe`, for every number of parts, calls and
  crashes. A crash may bring back any state of the file since the last sync, so
  `KeyIndInv` says of all of them (`v3`, which is `since`) what the promises say of
  the file, and what the call in progress has done so far (`WriteUnderway`). `Durable`
  needs the order of calls (`CallsInOrder`): a call truncates the file before it
  reports its key as saved, so what it writes belongs to a later key than the saved one.
- `HeadsExact`, `Spec => []HeadsAreExact`, carries `RequestHeadProofs` over to its
  instance in `Formats`.
- `ConfigurationFollowed`, `Spec => []ConfigurationIsFollowed`, has two halves. In the
  loader, `ConfigIndInv` says that every line before the current one could stand, that
  settings, routes and pairs are the ones those lines give and that each comes from a
  line, the routes in the order of the lines. The operators need the most work: that
  `Value`, a recursive function, is the number its digits mean (`ValueIsNumber`), that
  cutting final dots and lowering letters gives equal names exactly for names the
  reference calls equal (`SameNormalized`), and that a host with a port finds the route
  of its name. In the identity store, `OneClaimant` shows that of identities with
  distinct names at most one claims a server name exactly and at most one through a
  wildcard; so `select` finds it wherever it stands, and a permutation of the files
  changes nothing.
- `TlsInputExact`, `Spec => []TlsInputIsExact`, puts the four invariants of
  `TlsInputProofs` together.

What the definitions compute for every length of input is shown without an induction
rule, which the provers cannot instantiate: from a least counterexample. The set of
lengths at which the claim fails would have a least element (`LeastExists`), which is
not the first and which its predecessor refutes.

Four things changed in the model because of the proofs, none of which TLC could have
found on the inputs at hand. Two `CASE` expressions of `Configuration` had arms that
overlap, whose value is then unspecified. The guard of a refused line was `ENABLED` of
the others and is now their negated conditions, which have names (`NewSetting`,
`NewPair`, `NewRoute`). The decoder of `Deframing` recursed over sequences, an infinite
domain; it is now the loop of the code. And `Deframing`, `InnerPlaintext` and
`HelloVectors` had only bytes that were content types or letters of a name; the largest
byte is now a constant, and a byte that is neither is refused as in the code.

### Only model-checked

- Liveness, which is beyond the prover: `ReloadTakesEffect`, `BacklogServed`,
  `ShutdownCompletes`, `WorkerEnds`, `EndsWithBothEnds`, `UpstreamFailureEnds`,
  `HandshakeCompletes`, `CloseIsSeen`.
- In `Formats`: `FieldsKeepTheirMeaning`, which compares all that different readers
  could see in a head, and `EncodingsAreExact`, which rests on what folds over digits
  and the regrouping of bits yield. No proof of them has been attempted; each would
  take the argument from a least counterexample for every definition it uses.
- `CurveIsExact` and `SealingIsExact`: their statements compare with sums and tables
  over all operands of the scaled types, and say nothing for other moduli.
- The runs that expect a violation: a counterexample needs no proof.

## Not modelled

- The SHA-256 and ChaCha20 rounds and HKDF: fixed mixing steps that published test
  vectors pin down and a small instance would not resemble. The HMAC chain of
  RFC 6979 is replaced by arbitrary candidates.
- The element order of certificates, key files and signing requests in `asn1.rs`;
  `TlsIdentities` takes what they yield. Validity dates are parsed by the code and
  consulted nowhere.
- The byte syntax of chunks, of status lines and of Host authorities: verdicts only.
- The parsers of the server's handshake messages, and `encrypt_fatal_alert` and
  `decrypt_protected_record`, which the runtime does not call. The transport never
  reaches the state in which a record after close_notify is ignored. A client
  Finished split over two records is refused by the driver and is no hello of the
  external client.
- The single-request mode of the TLS probe command and what both probes print.
- An upstream that sends more than one final response to a request.
- Over HTTPS a damaged record in the middle of a request is an error of kind
  InvalidData, answered with a 400 where it can still be sealed; the reads of
  `Connection` end by end of stream, reset or timeout only. A client that stops reading
  and starts again within the timeout is one that is slow.
- A list of several ALPN names (a hello offers one value, `tls.rs:3523` looks for any),
  and a transfer coding with a blank before its parameters (`proxy.rs:1755`).
- In `Configuration`, the directory that relative paths of identities are resolved
  against. `OrderDecidesNothing` is about which identity is selected from files that
  load, not about whether they do.
- What the kernel does to data already written when a socket with unread input is
  closed.
- The number of 1xx responses is bounded in the model and not in the code.
- The response builder, the logging, the command line, the smoke and
  interoperability scripts.

## Plan

All components that keep state are modelled, and the safety properties of the
server, the connection, the tunnel, the handshake, the transport, the key file, the
request heads, the configuration with its identities and the TLS decoders are proved.
What is left, in this order:

1. `EncodingsAreExact` for `Der`: that `Number` and the writer of lengths are inverse
   to each other, with the lemmas on sequences of `TlsInputProofs`.
2. Proofs for the buffer of `Sha256`, as far as it goes without induction.
3. The structure of certificates and keys, as verdicts over sequences of elements.
