---------------------------- MODULE MCConnection ----------------------------
(***************************************************************************)
(* Small instances of Connection for TLC.                                  *)
(***************************************************************************)
EXTENDS Connection

CONSTANTS u1, u2

Get(address) ==
    [route |-> address, head |-> 1, body |-> 0, flaw |-> "none",
     expects |-> FALSE, upgrade |-> FALSE, keepAlive |-> TRUE]

\* A GET whose head comes in two segments and asks for the connection to be
\* closed.
LastGet(address) == [Get(address) EXCEPT !.head = 2, !.keepAlive = FALSE]

Post(address) == [Get(address) EXCEPT !.body = 2]

ExpectingPost(address) ==
    [Get(address) EXCEPT !.body = 1, !.expects = TRUE]

Upgrade(address) == [Get(address) EXCEPT !.upgrade = TRUE]

Flawed(flaw) == [Get(u1) EXCEPT !.flaw = flaw, !.body = 1]

\* Two upstreams, so that a kept connection may or may not be reusable.
OrdinaryKinds == {Get(u1), Get(u2), Post(u1), ExpectingPost(u1), Upgrade(u1)}

\* The requests that end a connection, one after an ordinary one.
EndingKinds ==
    {Get(u1), LastGet(u1), Upgrade(u1), Get(NoRoute), Flawed("head"),
     Flawed("upgrade"), Flawed("trailer"), Flawed("body")}

MCKinds == [tlsUsed \in BOOLEAN |-> IF tlsUsed THEN EndingKinds ELSE OrdinaryKinds]

MCUpgrades == [tlsUsed \in BOOLEAN |-> IF tlsUsed THEN {Upgrade(u1)} ELSE {}]
=============================================================================
