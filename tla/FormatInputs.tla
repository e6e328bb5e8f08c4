---------------------------- MODULE FormatInputs ----------------------------
(***************************************************************************)
(* What MCFormats has the readers and writers of the project read and      *)
(* write: sequences small enough to take all of them, of elements that the *)
(* code tells apart, on both sides of every limit.                         *)
(***************************************************************************)
EXTENDS Naturals, Sequences, Fields, HeadInputs

SeqsUpTo(S, max) == UNION {[1..n -> S] : n \in 0..max}

-----------------------------------------------------------------------------
(* ClientHello: every list of up to five extensions, every list of groups  *)
(* with every list of shares, and every defect of the fields.              *)

ExtensionTypes == {"server_name", "groups", "signatures", "psk", "versions",
                   "key_share", "other"}

Usual == <<"server_name", "groups", "signatures", "versions", "key_share">>

\* Hellos that are usual in all but the extensions, groups and shares.
HellosWith(extensions, groups, shares) ==
    [lengthGood : {TRUE}, session : {0}, suites : {2}, nullOnly : {TRUE},
     extensions : extensions, tls13 : {TRUE}, groups : groups, shares : shares]

HellosOf(maxSessionId) ==
    HellosWith(SeqsUpTo(ExtensionTypes, 5), {<<1, 2, 3>>}, {<<1, 3>>})
    \cup HellosWith({Usual}, SeqsUpTo(1..3, 4) \ {<<>>},
                 {list \in SeqsUpTo(1..4, 3) : IsInjective(list)})
    \cup [lengthGood : BOOLEAN, session : 0..(maxSessionId + 1), suites : 0..4,
          nullOnly : BOOLEAN, extensions : {Usual}, tls13 : BOOLEAN,
          groups : {<<1, 2, 3>>}, shares : {<<1, 3>>}]

-----------------------------------------------------------------------------
(* RequestFields: a Host and up to three other fields.                     *)

RequestFieldSet ==
    {Field("content-length", <<v>>) : v \in {"5", "05", "7", "", "big"}}
    \cup {Field("content-length", v) : v \in {<<"5", "5">>, <<"5", "7">>}}
    \cup {Field("transfer-encoding", v) :
             v \in {<<"chunked">>, <<"chunked", "chunked">>, <<"gzip", "chunked">>, <<"">>}}
    \cup {Field("connection", <<v>>) :
             v \in {"close", "te", "upgrade", "trailer", "x", "content-length", "host",
                    "x-forwarded-for"}}
    \cup {Field("connection", <<"te", "upgrade">>), Field("te", <<"trailers">>),
          Field("te", <<"gzip">>), Field("upgrade", <<"ws">>), Field("upgrade", <<"h/2", "">>),
          Field("trailer", <<"x">>), Field("trailer", <<"host">>), Field("keep-alive", <<"t">>),
          Field("x", <<"1">>), Field("host", <<"b">>), Field("x-forwarded-for", <<"client">>),
          Field("x-forwarded-host", <<"b">>), Field("x-forwarded-proto", <<"gopher">>)}

RequestInputs ==
    SeqsUpTo(RequestFieldSet, 2)
    \cup {<<Field("host", <<host>>)>> \o others :
             host \in {"a", "bad"}, others \in SeqsUpTo(RequestFieldSet, 2)}
    \cup {others \o <<Field("host", <<"a">>)>> : others \in [1..3 -> RequestFieldSet]}

-----------------------------------------------------------------------------
(* ResponseFields: up to three fields, of every kind of value that the     *)
(* code tells apart.                                                       *)

FramingFields ==
    {Field("content-length", <<"5">>), Field("content-length", <<"5", "5">>),
     Field("content-length", <<"big">>),
     Field("transfer-encoding", <<"chunked">>), Field("transfer-encoding", <<"gzip">>),
     Field("transfer-encoding", <<"gzip", "chunked">>),
     Field("transfer-encoding", <<"chunked", "gzip">>),
     Field("transfer-encoding", <<"chunked;p">>), Field("transfer-encoding", <<"">>)}

HopFields ==
    {Field("connection", <<token>>) :
        token \in {"close", "keep-alive", "upgrade", "", "x", "content-length",
                   "transfer-encoding"}}
    \cup {Field("connection", <<"x", "upgrade">>), Field("keep-alive", <<"t">>),
          Field("trailer", <<"x">>), Field("trailer", <<"host">>), Field("te", <<"trailers">>),
          Field("upgrade", <<"WS">>), Field("upgrade", <<"H/2", "ws">>),
          Field("upgrade", <<"h/3">>), Field("upgrade", <<"">>), Field("x", <<"1">>),
          Field("", <<"1">>)}

ResponseInputs ==
    [version : {"1.0", "1.1"}, status : {100, 101, 200, 204},
     fields : SeqsUpTo(FramingFields \cup HopFields, 2)]
    \cup [version : {"1.1"}, status : {101, 200},
          fields : [1..3 -> FramingFields \cup HopFields]]
    \cup [version : {"2.0"}, status : {200}, fields : {<<>>}]
    \cup [version : {"1.1"}, status : {99, 600}, fields : {<<>>}]

UpgradeInputs == {{}, {"ws"}, {"ws", "h/2"}}

-----------------------------------------------------------------------------
(* Der: every choice of up to three length bytes before contents of up to  *)
(* ten bytes, and every short content; a tag of each kind, bytes 0 to 7.   *)

Fillers == {[i \in 1..n |-> 1] : n \in 0..10}

DerContents == Fillers \cup SeqsUpTo({0, 1, 4, 7}, 4)

DerInputs ==
    {<<>>} \cup {<<tag>> \o length \o content :
                    tag \in {0, 1, 7}, length \in SeqsUpTo(0..7, 3),
                    content \in Fillers \cup SeqsUpTo({0, 1, 4}, 3)}

OidNumbers == {0, 1, 2, 3, 4, 5, 7, 15, 16, 39, 40, 63, 64}

-----------------------------------------------------------------------------
(* Pem: every sequence of up to three lines, four lines that begin with a  *)
(* block, quartets over a few characters of each kind, and chains of up to *)
(* three blocks with lines between them.  A character is 0 to 7, 8 for the *)
(* pad, 9 for any other and 10 for a blank.                                *)

Mark(mark, label) == [mark |-> mark, label |-> label, text |-> <<9>>]

Line(characters) == [mark |-> "none", label |-> "none", text |-> characters]

BeginLine == Mark("begin", "label")
EndLine   == Mark("end", "label")

TextLines ==
    {Line(<<1, 2, 3, 4>>), Line(<<1, 4>>), Line(<<10, 8, 8>>), Line(<<5, 6, 8, 8>>),
     Line(<<2, 3, 6, 8>>), Line(<<2, 3, 5, 8>>), Line(<<1, 9, 2, 3>>), Line(<<>>)}

PemLines ==
    TextLines \cup {BeginLine, EndLine, Mark("begin", "other"), Mark("end", "other")}

ChainBlocks ==
    {<<BeginLine>> \o body \o <<EndLine>> : body \in SeqsUpTo(TextLines, 1)}
    \cup {<<BeginLine, Line(<<1, 4>>), Line(<<8, 8>>), EndLine>>,
          <<BeginLine, Line(<<1, 2, 3, 4>>), Line(<<7, 0, 6, 8>>), EndLine>>,
          <<BeginLine, Line(<<1, 4, 8, 8>>), Line(<<1, 2, 3, 4>>), EndLine>>,
          <<Line(<<1, 2, 3, 4>>)>>, <<EndLine>>, <<Mark("begin", "other")>>,
          <<BeginLine, Line(<<1, 2, 3, 4>>)>>}

PemInputs ==
    SeqsUpTo(PemLines, 3) \cup {<<BeginLine>> \o f : f \in SeqsUpTo(PemLines, 3)}
    \cup {<<BeginLine, Line(q), EndLine>> : q \in [1..4 -> {0, 1, 2, 4, 7, 8, 9}]}
    \cup {FlattenSeq(blocks) : blocks \in [1..2 -> ChainBlocks] \cup [1..3 -> ChainBlocks]}

PemDers == SeqsUpTo({0, 1, 7, 8, 15}, 3) \cup {[i \in 1..n |-> i] : n \in 4..12}

-----------------------------------------------------------------------------
(* Configuration: files of up to three lines: settings with good values    *)
(* and values just outside their range, routes with one name in several    *)
(* spellings, pairs of paths, blank lines and lines of none of these       *)
(* forms.                                                                  *)

Setting(name, text) == [directive |-> name, value |-> text]

Route(name, port, arrows) ==
    [directive |-> "route", hostname |-> name, upstream |-> "name",
     bracketed |-> FALSE, port |-> port, separators |-> arrows]

Pair(certificate, key, bars) ==
    [directive |-> "tls_identity", certificate |-> certificate, key |-> key,
     separators |-> bars]

ConfigLines ==
    {[directive |-> "blank"], [directive |-> "other"]}
    \cup {Setting("max_connections", t) :
             t \in {<<>>, <<0>>, <<0, 3>>, <<2, 0>>, <<2, 1>>, <<1, 10>>}}
    \cup {Setting("client_idle", <<5>>), Setting("upstream_timeout", <<7>>)}
    \cup {Setting("https_listen", v) : v \in {<<1>>, <<>>}}
    \cup {Route(n, <<8>>, 1) : n \in {<<"a">>, <<"A", "">>, <<"a", "", "">>,
                                      <<"b", "a">>, <<"b", "", "a">>, <<"">>,
                                      <<"b", "-">>}}
    \cup {Route(<<"a">>, p, 1) : p \in {<<0>>, <<9>>, <<2, 1>>}}
    \cup {Route(<<"b">>, <<9>>, 1), Route(<<"b">>, <<9>>, 2)}
    \cup {[Route(<<"b">>, <<9>>, 1) EXCEPT !.upstream = u, !.bracketed = b] :
             u \in {"v4", "v6", "bad"}, b \in BOOLEAN}
    \cup {Pair("relative.pem", "/k.pem", 1), Pair("/c.pem", "/k.pem", 1),
          Pair("", "/k.pem", 1), Pair("/c.pem", "/k.pem", 2)}

ConfigInputs == SeqsUpTo(ConfigLines, 3)

HostsOf(noPort) ==
    {[name |-> n, port |-> noPort] :
        n \in {<<"a">>, <<"A">>, <<"a", "">>, <<"b", "A">>, <<"a", "b">>, <<"-">>, <<"">>}}
    \cup {[name |-> <<"a">>, port |-> p] : p \in {<<>>, <<0>>, <<2, 1>>, <<10>>}}

-----------------------------------------------------------------------------
(* TlsIdentities: up to three pairs of files, of one or two names each,    *)
(* with wildcards over and under exact names and the same name in two      *)
(* spellings.                                                              *)

Patterns == {<<"a", "b">>, <<"A", "B">>, <<"*", "b">>, <<"*", "B">>,
             <<"*", "a", "b">>, <<"b">>}

IdentityFile(names, defect) == [names |-> names, defect |-> defect]

GoodFiles ==
    {IdentityFile(names, "none") :
        names \in {<<p>> : p \in Patterns} \cup {<<p, q>> : p, q \in Patterns}}

BadFiles ==
    {IdentityFile(<<<<"b">>>>, d) :
        d \in {"certificate", "chain", "no names", "key", "mismatch"}}

Singles == {IdentityFile(<<p>>, "none") : p \in Patterns}

IdentityInputs ==
    {<<>>} \cup {<<f>> : f \in GoodFiles \cup BadFiles}
    \cup {<<f, g>> : f \in GoodFiles, g \in GoodFiles}
    \cup {<<f, g>> : f \in Singles \cup BadFiles, g \in Singles \cup BadFiles}
    \cup {<<f, g, h>> : f \in Singles, g \in Singles, h \in Singles \cup BadFiles}

NameInputs == SeqsUpTo({"a", "B", ""}, 3) \ {<<>>}
=============================================================================
