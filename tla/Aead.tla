-------------------------------- MODULE Aead --------------------------------
(***************************************************************************)
(* chacha20_poly1305_encrypt and _decrypt of crypto.rs: the counters of    *)
(* the key stream and the data that is authenticated.  A byte is one bit,  *)
(* so that data and lengths may look alike, and a length takes two bytes.  *)
(* Poly1305 stands for its argument: no two have the same tag.             *)
(***************************************************************************)
EXTENDS Integers, Sequences

CONSTANTS
    StreamBlock,   \* CHACHA20_BLOCK_SIZE
    MacBlock,      \* POLY1305_BLOCK_SIZE
    MaxCounter,    \* u32::MAX
    KeyStream,     \* chacha20_block: <<counter, place in the block>> to a byte
    MaxLength      \* bound on the lengths of associated data and text

Assumptions ==
    /\ {StreamBlock, MacBlock, MaxCounter} \subseteq Nat \ {0}
    /\ MaxLength \in 0..3

VARIABLES
    aad, plaintext,
    sealed,    \* <<>>, or <<[good, text, tag]>>
    offered,   \* what is opened: [aad, text, tag]
    opened     \* <<>>, or <<[good, text]>>

vars == <<aad, plaintext, sealed, offered, opened>>

Byte == 0..1
Strings == UNION {[1..n -> Byte] : n \in 0..MaxLength}
Xor(a, b) == (a + b) % 2

Error == [good |-> FALSE, text |-> <<>>, tag |-> <<>>]
Nothing == [aad |-> <<>>, text |-> <<>>, tag |-> <<>>]

-----------------------------------------------------------------------------

BlockCount(length) == (length + StreamBlock - 1) \div StreamBlock

\* Mutant: one block too many is taken for available.
FitsOneMore(counter, length) == BlockCount(length) <= MaxCounter - counter + 2

\* The check of chacha20_xor before it starts.
Fits(counter, length) == BlockCount(length) <= MaxCounter - counter + 1

\* The place in the key stream of byte i; a counter that overflows wraps.
Place(counter, i) ==
    <<(counter + ((i - 1) \div StreamBlock)) % (MaxCounter + 1), (i - 1) % StreamBlock>>

Xored(counter, text) ==
    [i \in DOMAIN text |-> Xor(text[i], KeyStream[Place(counter, i)])]

\* append_pad16
Pad(length) ==
    [i \in 1..((MacBlock - (length % MacBlock)) % MacBlock) |-> 0]

Length(n) == <<n % 2, n \div 2>>

\* chacha20_poly1305_mac_data
MacData(associated, text) ==
    associated \o Pad(Len(associated)) \o text \o Pad(Len(text))
    \o Length(Len(associated)) \o Length(Len(text))

-----------------------------------------------------------------------------

Init ==
    /\ aad \in Strings /\ plaintext \in Strings
    /\ sealed = <<>> /\ offered = Nothing /\ opened = <<>>

\* chacha20_poly1305_encrypt: block 0 of the key stream is the one-time key,
\* the text begins at block 1.
Encrypt ==
    /\ sealed = <<>>
    /\ sealed' = IF ~Fits(1, Len(plaintext)) THEN <<Error>>
                 ELSE LET text == Xored(1, plaintext)
                      IN <<[good |-> TRUE, text |-> text, tag |-> MacData(aad, text)]>>
    /\ UNCHANGED <<aad, plaintext, offered, opened>>

\* chacha20_poly1305_decrypt of anything, with the tag that was computed.
Decrypt ==
    /\ sealed # <<>> /\ sealed[1].good /\ opened = <<>>
    /\ \E a \in Strings, text \in Strings :
          /\ offered' = [aad |-> a, text |-> text, tag |-> sealed[1].tag]
          /\ opened' = IF MacData(a, text) # offered'.tag \/ ~Fits(1, Len(text))
                       THEN <<Error>>
                       ELSE <<[good |-> TRUE, text |-> Xored(1, text), tag |-> <<>>]>>
    /\ UNCHANGED <<aad, plaintext, sealed>>

Next == Encrypt \/ Decrypt

Spec == Init /\ [][Next]_vars

-----------------------------------------------------------------------------
(* Properties.                                                             *)

\* No byte of the key stream hides two bytes of the text, and none is taken
\* from the block that is the one-time key, up to the last counter.
KeyStreamUsedOnce ==
    (sealed # <<>> /\ sealed[1].good) =>
        \A i, j \in DOMAIN plaintext :
            /\ Place(1, i)[1] # 0
            /\ Place(1, i) = Place(1, j) => i = j

\* Exactly the associated data and text that were sealed are opened, with no
\* byte moved between them, padded or cut, and the plaintext comes back.
OpensOnlyWhatWasSealed ==
    (opened # <<>>) =>
        /\ opened[1].good <=> (offered.aad = aad /\ offered.text = sealed[1].text)
        /\ opened[1].good => opened[1].text = plaintext
=============================================================================
