------------------------------ MODULE Formats -------------------------------
(***************************************************************************)
(* The readers and writers of bytes, messages and files, side by side.     *)
(* They do not interact: a behaviour belongs to one of them, which `part`  *)
(* names, and v1 to v8 are its variables in the order in which its module  *)
(* declares them.  The ones it does not have stay empty.  What they read   *)
(* and write is a parameter.  The decoders of TLS come from TlsInputs.     *)
(***************************************************************************)
EXTENDS TlsInputs

CONSTANTS
    CR, LF, X, HeadStreams,                      \* RequestHead
    MaxRequestLine, MaxHeader, MaxHeaderBlock, MaxHeaderCount,
    Requests,                                    \* RequestFields
    Heads, Requested,                            \* ResponseFields
    Inputs, Contents, Numbers,                   \* Der
    PemFiles, Ders, PemLineWidth,                \* Pem
    ConfigFiles, ConfigHosts,                    \* Configuration
    NoPort, MaxNumber, MaxPort,
    FileLists, ServerNames,                      \* TlsIdentities
    Parts, MaxCalls                              \* KeyStorage

VARIABLES part, v7, v8

all == <<part, v1, v2, v3, v4, v5, v6, v7, v8>>

-----------------------------------------------------------------------------

RequestHeads == INSTANCE RequestHead WITH
    Streams <- HeadStreams,
    stream <- v1, size <- v2, outcome <- v3, consumed <- v4

Request == INSTANCE RequestFields WITH
    Hosts <- {"a", "b"}, ClientIp <- "ip", Proto <- "https",
    fields <- v1, outcome <- v2

Response == INSTANCE ResponseFields WITH
    Methods <- {"GET", "HEAD"},
    method <- v1, requested <- v2, head <- v3, outcome <- v4

Asn1 == INSTANCE Der WITH
    job <- v1, output <- v2, done <- v3

Blocks == INSTANCE Pem WITH
    Label <- "label", Files <- PemFiles,
    mode <- v1, file <- v2, written <- v3, line <- v4, inside <- v5,
    base64 <- v6, decoded <- v7, result <- v8

Key == INSTANCE KeyStorage WITH
    pc <- v1, file <- v2, since <- v3, calls <- v4, saved <- v5, opened <- v6

Config == INSTANCE Configuration WITH
    Files <- ConfigFiles, Hosts <- ConfigHosts,
    file <- v1, line <- v2, settings <- v3, routes <- v4, pairs <- v5,
    outcome <- v6, asked <- v7, found <- v8

Identities == INSTANCE TlsIdentities WITH
    files <- v1, identities <- v2, store <- v3, asked <- v4, selected <- v5

ASSUME RequestHeadAssumptions == RequestHeads!Assumptions
ASSUME BlockAssumptions == Blocks!Assumptions
ASSUME KeyAssumptions == Key!Assumptions
ASSUME ConfigAssumptions == Config!Assumptions
ASSUME IdentityAssumptions == Identities!Assumptions

Empty7 == v7 = 0 /\ v8 = 0
Empty6 == v6 = 0 /\ Empty7
Empty5 == v5 = 0 /\ Empty6
Empty4 == v4 = 0 /\ Empty5
Empty3 == v3 = 0 /\ Empty4

Init ==
    \/ part = "request head" /\ RequestHeads!Init /\ Empty5
    \/ part = "frames" /\ Frames!Init /\ Empty7
    \/ part = "inner" /\ Inner!Init /\ Empty7
    \/ part = "vectors" /\ Vectors!Init /\ Empty7
    \/ part = "hello" /\ Hello!Init /\ Empty7
    \/ part = "request" /\ Request!Init /\ Empty3
    \/ part = "response" /\ Response!Init /\ Empty5
    \/ part = "asn1" /\ Asn1!Init /\ Empty4
    \/ part = "blocks" /\ Blocks!Init
    \/ part = "key" /\ Key!Init /\ Empty7
    \/ part = "config" /\ Config!Init
    \/ part = "identities" /\ Identities!Init /\ Empty6

Step ==
    \/ part = "request head" /\ RequestHeads!Next /\ UNCHANGED <<v5, v6, v7, v8>>
    \/ part = "frames" /\ Frames!Next /\ UNCHANGED <<v7, v8>>
    \/ part = "inner" /\ Inner!Next /\ UNCHANGED <<v7, v8>>
    \/ part = "vectors" /\ Vectors!Next /\ UNCHANGED <<v7, v8>>
    \/ part = "hello" /\ Hello!Next /\ UNCHANGED <<v7, v8>>
    \/ part = "request" /\ Request!Next /\ UNCHANGED <<v3, v4, v5, v6, v7, v8>>
    \/ part = "response" /\ Response!Next /\ UNCHANGED <<v5, v6, v7, v8>>
    \/ part = "asn1" /\ Asn1!Next /\ UNCHANGED <<v4, v5, v6, v7, v8>>
    \/ part = "blocks" /\ Blocks!Next
    \/ part = "key" /\ Key!Next /\ UNCHANGED <<v7, v8>>
    \/ part = "config" /\ Config!Next
    \/ part = "identities" /\ Identities!Next /\ UNCHANGED <<v6, v7, v8>>

Next == Step /\ UNCHANGED part

Spec == Init /\ [][Next]_all

-----------------------------------------------------------------------------
(* Properties.  Each names those of its parts, which say what they mean.   *)

\* read_request_head, parse_request_with_consumed: for every stream and every
\* cut into reads, exactly a valid head is consumed, the buffer stays within
\* its limit, and a valid head is refused in one place only.
HeadsAreExact ==
    part = "request head" =>
        /\ RequestHeads!TypeOK
        /\ RequestHeads!AcceptsTheHead
        /\ RequestHeads!RejectsNoValidHead

\* serialize_request_head, forward_response: both ends of each connection
\* agree with the proxy on where a body ends and whether the connection goes
\* on, whatever fields the other side sent; the proxy speaks for itself, no
\* field of one connection crosses to the other, and the client is switched
\* only to a protocol it asked for.
FieldsKeepTheirMeaning ==
    /\ part = "request" =>
          /\ Request!BodyIsUnambiguous
          /\ Request!SpeaksForItself
          /\ Request!HopIsRenewed
    /\ part = "response" =>
          /\ Response!ClientAgrees
          /\ Response!HopStaysBehind
          /\ Response!SwitchedAsRequested

\* The decoders of tls.rs: no byte of a stream is lost or moved to another
\* frame, none is kept back or skipped, wherever the stream is cut; and
\* exactly the encodings of frames, inner plaintexts, extensions and
\* conforming hellos are accepted.
TlsInputIsExact ==
    /\ part = "frames" =>
          Frames!Lossless /\ Frames!Prompt /\ Frames!AcceptsGoodStreams
    /\ part = "inner" => Inner!RoundTrip /\ Inner!OnlyEncodings
    /\ part = "vectors" => Vectors!AcceptsExactly /\ Vectors!NothingSkipped
    /\ part = "hello" =>
          Hello!AcceptsOnlyConforming /\ Hello!RefusesNoConforming

\* DER and PEM of asn1.rs: what is written is read back, no value has two
\* encodings and no two values one, the first bad block of a file decides,
\* and no block is dropped, repeated or out of order.
EncodingsAreExact ==
    /\ part = "asn1" =>
          /\ Asn1!ReadsWhatIsWritten
          /\ Asn1!IntegersKeepTheirValue
          /\ Asn1!OidsDiffer
    /\ part = "blocks" =>
          /\ Blocks!WrittenIsRead
          /\ Blocks!FirstBadBlockDecides
          /\ Blocks!KeepsEveryBlock

\* persist_p256_private_key_pem, over errors and crashes and with an older file
\* at the path: a key is never readable by others, no file holds parts of two
\* keys, and the last key that was reported as saved stays whole until a later
\* call truncates the file, after which only a beginning of a later key may
\* have taken its place.
KeyFileIsSafe ==
    part = "key" =>
        Key!SecretIsRestricted /\ Key!OneKeyInFile /\ Key!SavedSurvives

\* config.rs and tls_identity.rs: the first line that cannot stand is the one
\* refused, a loaded file means what it says, a host finds the route and a
\* server name the identity that claim it, and the order of the identities
\* decides nothing.
ConfigurationIsFollowed ==
    /\ part = "config" =>
          /\ Config!RefusesTheFirstBadLine
          /\ Config!LoadsWhatTheFileSays
          /\ Config!RoutesByName
    /\ part = "identities" =>
          Identities!SelectsTheClaimant /\ Identities!OrderDecidesNothing
=============================================================================
