----------------------------- MODULE MCHandshake -----------------------------
(***************************************************************************)
(* Hellos for TLC: one that the server can serve at once, and the ones     *)
(* that differ from it in a single respect.  "a" is served, "b" has an     *)
(* identity but no route, "z" a route but no identity.                     *)
(***************************************************************************)
EXTENDS Handshake

Base == ProbeHello("a")

Share(group, key) == <<[group |-> group, key |-> key]>>

\* Hellos that make the server ask for a share.
NoShare == {[Base EXCEPT !.shares = <<>>],
            [Base EXCEPT !.shares = Share("x25519", "c0"), !.session = "s1",
                         !.groups = <<"x25519", "secp256r1">>]}

Unusable ==
    {[Base EXCEPT !.ok = FALSE], [Base EXCEPT !.sni = NoName],
     [Base EXCEPT !.sni = "b"], [Base EXCEPT !.sni = "z"],
     [Base EXCEPT !.suites = <<"aes">>],
     [Base EXCEPT !.groups = <<"x25519">>, !.shares = <<>>],
     [Base EXCEPT !.sigs = <<"rsa">>], [Base EXCEPT !.alpn = <<"h2">>],
     [Base EXCEPT !.shares = Share("secp256r1", "invalid")]}

First == {Base, [Base EXCEPT !.session = "s1"], [Base EXCEPT !.alpn = <<>>]}
            \cup NoShare

Retry(hello) == [hello EXCEPT !.shares = Share("secp256r1", "c2")]

Conformant == {Retry(hello) : hello \in NoShare}

Deviating ==
    LET again == Retry([Base EXCEPT !.shares = <<>>])
    IN {[again EXCEPT !.sni = "c"], [again EXCEPT !.random = "r2"],
        [again EXCEPT !.session = "s2"], [again EXCEPT !.psk = TRUE],
        [again EXCEPT !.suites = <<"aes", "chacha20">>],
        [again EXCEPT !.early = TRUE], [again EXCEPT !.others = <<"cookie">>],
        [again EXCEPT !.alpn = <<>>], [again EXCEPT !.shares = <<>>],
        [again EXCEPT !.ok = FALSE],
        [again EXCEPT !.shares = Share("secp256r1", "invalid")]}

MCFirst == First \cup Unusable
MCSecond == Conformant \cup Deviating
=============================================================================
