---------------------------- MODULE FormatsProofs ----------------------------
(***************************************************************************)
(* Promises of the readers and writers of Formats, proved for every input  *)
(* and all limits.  Those of the TLS decoders rest on TlsInputProofs.      *)
(***************************************************************************)
EXTENDS Formats, TlsInputProofs

\* RequestHead, with what is proved of it.
HeadProofs == INSTANCE RequestHeadProofs WITH
    Streams <- HeadStreams,
    stream <- v1, size <- v2, outcome <- v3, consumed <- v4

-----------------------------------------------------------------------------
(* Key files.  The variables are, in this order: pc, file, since, calls,   *)
(* saved and opened.                                                       *)
(*                                                                         *)
(* None of the three promises is inductive as it stands, since a crash may *)
(* bring back any state of the file since the last sync: the invariant     *)
(* says of all of those what the promises say of the file, and ties the    *)
(* file to the place the call has reached.                                 *)

KeyFiles == [exists : BOOLEAN, restricted : BOOLEAN, content : Seq(Nat \X Nat)]

\* The first n parts of key k.
FirstParts(k, n) == [p \in 1 .. n |-> Key!Part(k, p)]

\* f holds the first parts of one key, and if that key was given to the
\* function nobody else may read them.
HoldsOneKey(f, k, n) ==
    /\ f.content = FirstParts(k, n)
    /\ k # 0 /\ n # 0 => f.restricted

SafeFile(f) == \E k \in Nat, n \in Nat : HoldsOneKey(f, k, n)

KeyTyped ==
    /\ v1 \in {"idle", "open", "restrict", "write"}
    /\ v2 \in KeyFiles
    /\ v3 \subseteq KeyFiles
    /\ v4 \in Nat
    /\ v5 \in Nat
    /\ v6 \in Nat

\* A crash may bring back any of these.
AllSafe == v2 \in v3 /\ \A f \in v3 : SafeFile(f)

\* What the call has done to the file so far.
Halfway(n) == n <= Parts /\ v2.content = FirstParts(v4, n)

WriteUnderway ==
    /\ v1 = "restrict" => v2.content = <<>>
    /\ v1 = "write" => v2.restricted /\ \E n \in Nat : Halfway(n)

\* A call truncates the file before it reports its key as saved.
CallsInOrder ==
    /\ v5 <= v6 /\ v6 <= v4
    /\ v1 = "open" => v6 < v4
    /\ v1 \in {"restrict", "write"} => v5 < v6 /\ v6 = v4

\* f holds key s, or a beginning of a key given to a call after s up to o.
Kept(f, s, o) ==
    \/ f.content = FirstParts(s, Parts)
    \/ \E k \in s + 1 .. o, n \in 0 .. Parts : f.content = FirstParts(k, n)

\* No crash brings back anything older than the last key reported as saved.
Durable == v5 > 0 => \A f \in v3 : Kept(f, v5, v6)

KeyIndInv == KeyTyped /\ AllSafe /\ WriteUnderway /\ CallsInOrder /\ Durable

\* A cut-off key is a sequence of parts as long as the cut.
LEMMA PartsAreSeq ==
    ASSUME NEW k \in Nat, NEW n \in Nat
    PROVE  FirstParts(k, n) \in Seq(Nat \X Nat) /\ Len(FirstParts(k, n)) = n
  <1>1. \A p \in 1 .. n : Key!Part(k, p) \in Nat \X Nat
    BY DEF Key!Part
  <1> QED
    BY <1>1 DEF FirstParts

\* Nothing written is the cut at 0, of any key.
LEMMA NoParts ==
    ASSUME NEW k \in Nat
    PROVE  FirstParts(k, 0) = <<>>
  <1>1. FirstParts(k, 0) \in Seq(Nat \X Nat) /\ Len(FirstParts(k, 0)) = 0
    BY PartsAreSeq
  <1> QED
    BY <1>1, EmptySeq

\* One more write moves the cut by one.
LEMMA OneMorePart ==
    ASSUME NEW k \in Nat, NEW n \in Nat
    PROVE  Append(FirstParts(k, n), Key!Part(k, n + 1)) = FirstParts(k, n + 1)
  <1>1. FirstParts(k, n) \in Seq(Nat \X Nat) /\ Len(FirstParts(k, n)) = n
    BY PartsAreSeq
  <1>2. FirstParts(k, n + 1) \in Seq(Nat \X Nat) /\ Len(FirstParts(k, n + 1)) = n + 1
    BY PartsAreSeq
  <1>3. Key!Part(k, n + 1) \in Nat \X Nat
    BY DEF Key!Part
  <1>4. PICK a \in Seq(Nat \X Nat) :
          /\ a = Append(FirstParts(k, n), Key!Part(k, n + 1)) /\ Len(a) = n + 1
          /\ \A i \in 1 .. n : a[i] = FirstParts(k, n)[i]
          /\ a[n + 1] = Key!Part(k, n + 1)
    <2>1. PICK s \in Seq(Nat \X Nat), e \in Nat \X Nat :
            s = FirstParts(k, n) /\ e = Key!Part(k, n + 1) /\ Len(s) = n
      BY <1>1, <1>3
    <2>2. /\ Append(s, e) \in Seq(Nat \X Nat) /\ Len(Append(s, e)) = n + 1
          /\ \A i \in 1 .. n : Append(s, e)[i] = s[i]
          /\ Append(s, e)[n + 1] = e
      BY <2>1, AppendProperties
    <2> QED
      BY <2>1, <2>2
  <1>5. ASSUME NEW i \in 1 .. n + 1 PROVE a[i] = FirstParts(k, n + 1)[i]
    <2>1. FirstParts(k, n + 1)[i] = Key!Part(k, i)
      BY DEF FirstParts
    <2>2. CASE i \in 1 .. n
      BY <1>4, <2>1, <2>2 DEF FirstParts
    <2>3. CASE i = n + 1
      BY <1>4, <2>1, <2>3
    <2> QED
      BY <2>2, <2>3
  <1> QED
    BY <1>2, <1>4, <1>5, SeqEqual

\* An empty file is safe whoever may read it.
LEMMA EmptyIsSafe ==
    ASSUME NEW f, f.content = <<>>
    PROVE  SafeFile(f)
  <1>1. FirstParts(0, 0) = <<>>
    BY NoParts
  <1> QED
    BY <1>1 DEF SafeFile, HoldsOneKey

-----------------------------------------------------------------------------
(* What a call, its steps and a crash do to it.                            *)

\* Whatever was at the path before the first call.
LEMMA KeyInitHolds ==
    Key!Init => KeyIndInv
  <1> SUFFICES ASSUME Key!Init PROVE KeyIndInv
    OBVIOUS
  <1>1. <<>> \in Seq(Nat \X Nat) /\ <<Key!Part(0, 1)>> \in Seq(Nat \X Nat)
    <2>1. Key!Part(0, 1) \in Nat \X Nat
      BY DEF Key!Part
    <2> QED
      BY <2>1, EmptySeq
  <1>2. v2 \in KeyFiles
    <2>1. CASE v2 = Key!Absent
      BY <1>1, <2>1 DEF KeyFiles, Key!Absent
    <2>2. CASE v2 \in [exists : {TRUE}, restricted : BOOLEAN,
                         content : {<<>>, <<Key!Part(0, 1)>>}]
      BY <1>1, <2>2 DEF KeyFiles
    <2> QED
      BY <2>1, <2>2 DEF Key!Init
  <1>3. KeyTyped
    BY <1>2 DEF Key!Init, KeyTyped
  <1>4. SafeFile(v2)
    <2>1. CASE v2.content = <<>>
      BY <2>1, EmptyIsSafe
    <2>2. CASE v2.content = <<Key!Part(0, 1)>>
      <3>1. FirstParts(0, 1) = <<Key!Part(0, 1)>>
        BY DEF FirstParts
      <3> QED
        BY <2>2, <3>1 DEF SafeFile, HoldsOneKey
    <2> QED
      <3>1. CASE v2 = Key!Absent
        BY <2>1, <3>1 DEF Key!Absent
      <3>2. CASE v2 \in [exists : {TRUE}, restricted : BOOLEAN,
                           content : {<<>>, <<Key!Part(0, 1)>>}]
        BY <2>1, <2>2, <3>2
      <3> QED
        BY <3>1, <3>2 DEF Key!Init
  <1>5. AllSafe
    BY <1>4 DEF Key!Init, AllSafe
  <1>6. WriteUnderway /\ CallsInOrder /\ Durable
    BY DEF Key!Init, WriteUnderway, CallsInOrder, Durable
  <1> QED
    BY <1>3, <1>5, <1>6 DEF KeyIndInv

\* A change of the file keeps every state a crash may bring back safe when
\* the new one is.
LEMMA BecomesSafe ==
    ASSUME NEW new \in KeyFiles, SafeFile(new), KeyTyped, AllSafe, Key!Becomes(new)
    PROVE  v2' \in KeyFiles /\ v3' \subseteq KeyFiles /\ AllSafe'
  <1>1. v2' = new /\ v3' = v3 \cup {new}
    BY DEF Key!Becomes
  <1>2. v2' \in KeyFiles /\ v3' \subseteq KeyFiles
    BY <1>1 DEF KeyTyped
  <1>3. v2' \in v3' /\ \A f \in v3' : SafeFile(f)
    BY <1>1 DEF AllSafe
  <1> QED
    BY <1>2, <1>3 DEF AllSafe, SafeFile, HoldsOneKey

\* What a file may hold only grows with the calls that truncate it.
LEMMA KeptOn ==
    ASSUME NEW f, NEW s \in Nat, NEW o \in Nat, NEW p \in Nat, o <= p, Kept(f, s, o)
    PROVE  Kept(f, s, p)
  <1>1. CASE f.content = FirstParts(s, Parts)
    BY <1>1 DEF Kept
  <1>2. CASE \E k \in s + 1 .. o, n \in 0 .. Parts : f.content = FirstParts(k, n)
    <2>1. PICK k \in s + 1 .. o, n \in 0 .. Parts : f.content = FirstParts(k, n)
      BY <1>2
    <2>2. k \in s + 1 .. p
      OBVIOUS
    <2> QED
      BY <2>1, <2>2 DEF Kept
  <1> QED
    BY <1>1, <1>2 DEF Kept

\* A change of the file by a later call loses the saved key to a beginning of
\* its own one.
LEMMA BecomesKept ==
    ASSUME KeyTyped, Durable, NEW new, Key!Becomes(new),
           v5' = v5, v6' \in Nat, v6 <= v6', v5 < v6',
           NEW n \in 0 .. Parts, new.content = FirstParts(v6', n)
    PROVE  Durable'
  <1>1. v5 \in Nat /\ v6 \in Nat
    BY DEF KeyTyped
  <1>2. ASSUME v5 > 0, NEW f \in v3' PROVE Kept(f, v5, v6')
    <2>1. CASE f \in v3
      BY <1>1, <1>2, <2>1, KeptOn DEF Durable
    <2>2. CASE f = new
      <3>1. v6' \in v5 + 1 .. v6'
        BY <1>1
      <3> QED
        BY <2>2, <3>1 DEF Kept
    <2> QED
      BY <2>1, <2>2 DEF Key!Becomes
  <1>3. ASSUME v5 > 0, NEW f \in v3' PROVE Kept(f, v5', v6')
    BY <1>2, <1>3
  <1> QED
    BY <1>3 DEF Durable, Kept, FirstParts

\* Call: a new key is given to the function.
LEMMA CallStep ==
    KeyIndInv /\ Key!Call => KeyIndInv'
  <1> SUFFICES ASSUME KeyIndInv, Key!Call PROVE KeyIndInv'
    OBVIOUS
  <1>1. KeyTyped'
    <2>1. v4' \in Nat
      BY DEF KeyIndInv, KeyTyped, Key!Call
    <2>2. /\ v1' \in {"idle", "open", "restrict", "write"} /\ v2' \in KeyFiles
          /\ v3' \subseteq KeyFiles /\ v5' \in Nat /\ v6' \in Nat
      BY Zenon DEF KeyIndInv, KeyTyped, Key!Call
    <2> QED
      BY <2>1, <2>2 DEF KeyTyped
  <1>2. AllSafe'
    BY DEF KeyIndInv, AllSafe, SafeFile, HoldsOneKey, Key!Call
  <1>3. WriteUnderway'
    BY DEF WriteUnderway, Key!Call
  <1>4. CallsInOrder'
    BY DEF KeyIndInv, KeyTyped, CallsInOrder, Key!Call
  <1>5. Durable'
    BY DEF KeyIndInv, Durable, Kept, Key!Call
  <1> QED
    BY <1>1, <1>2, <1>3, <1>4, <1>5 DEF KeyIndInv

\* Open: the file is created or truncated.
LEMMA OpenStep ==
    ASSUME Key!Assumptions, KeyIndInv, Key!Open
    PROVE  KeyIndInv'
  <1>1. PICK new \in KeyFiles : new.content = <<>> /\ Key!Becomes(new)
    <2>1. <<>> \in Seq(Nat \X Nat)
      BY EmptySeq
    <2>2. (v2.restricted \/ ~v2.exists) \in BOOLEAN
      BY DEF KeyIndInv, KeyTyped, KeyFiles
    <2> QED
      BY <2>1, <2>2 DEF Key!Open, KeyFiles
  <1>2. v2' \in KeyFiles /\ v3' \subseteq KeyFiles /\ AllSafe'
    BY <1>1, EmptyIsSafe, BecomesSafe DEF KeyIndInv
  <1>3. KeyTyped'
    BY <1>2 DEF KeyIndInv, KeyTyped, Key!Open
  <1>4. WriteUnderway'
    BY <1>1 DEF WriteUnderway, Key!Open, Key!Becomes
  <1>5. v5' = v5 /\ v6' \in Nat /\ v6 <= v6' /\ v5 < v6' /\ v6' = v4 /\ v4' = v4
    BY DEF KeyIndInv, KeyTyped, CallsInOrder, Key!Open
  <1>6. CallsInOrder'
    BY <1>5 DEF KeyIndInv, KeyTyped, CallsInOrder, Key!Open
  <1>7. Durable'
    <2>1. new.content = FirstParts(v6', 0) /\ 0 \in 0 .. Parts
      BY <1>1, <1>5, NoParts DEF Key!Assumptions
    <2> QED
      BY <1>1, <1>5, <2>1, BecomesKept DEF KeyIndInv
  <1> QED
    BY <1>2, <1>3, <1>4, <1>6, <1>7 DEF KeyIndInv

\* SetPermissions: from here on the file is restricted.
LEMMA SetPermissionsStep ==
    ASSUME Key!Assumptions, KeyIndInv, Key!SetPermissions
    PROVE  KeyIndInv'
  <1>1. PICK new \in KeyFiles :
          new.content = <<>> /\ new.restricted = TRUE /\ Key!Becomes(new)
    BY DEF Key!SetPermissions, KeyIndInv, KeyTyped, WriteUnderway, KeyFiles
  <1>2. v2' \in KeyFiles /\ v3' \subseteq KeyFiles /\ AllSafe'
    BY <1>1, EmptyIsSafe, BecomesSafe DEF KeyIndInv
  <1>3. KeyTyped'
    BY <1>2 DEF KeyIndInv, KeyTyped, Key!SetPermissions
  <1>4. v2'.restricted /\ v2'.content = FirstParts(v4, 0) /\ v4' = v4
    BY <1>1, NoParts DEF KeyIndInv, KeyTyped, Key!SetPermissions, Key!Becomes
  <1>5. WriteUnderway'
    <2>1. 0 \in Nat /\ 0 <= Parts
      BY DEF Key!Assumptions
    <2> QED
      BY <1>4, <2>1 DEF WriteUnderway, Key!SetPermissions, Halfway
  <1>6. CallsInOrder'
    BY DEF KeyIndInv, CallsInOrder, Key!SetPermissions
  <1>7. Durable'
    <2>1. v5' = v5 /\ v6' \in Nat /\ v6 <= v6' /\ v5 < v6' /\ v6' = v4
      BY DEF KeyIndInv, KeyTyped, CallsInOrder, Key!SetPermissions
    <2>2. new.content = FirstParts(v6', 0) /\ 0 \in 0 .. Parts
      BY <1>1, <2>1, NoParts DEF Key!Assumptions
    <2> QED
      BY <1>1, <2>1, <2>2, BecomesKept DEF KeyIndInv
  <1> QED
    BY <1>2, <1>3, <1>5, <1>6, <1>7 DEF KeyIndInv

\* Write: the next part of the key is appended.
LEMMA WriteStep ==
    ASSUME Key!Assumptions, KeyIndInv, Key!Write
    PROVE  KeyIndInv'
  <1>1. PICK n \in Nat : n <= Parts /\ v2.content = FirstParts(v4, n)
    BY DEF KeyIndInv, WriteUnderway, Key!Write, Halfway
  <1>2. Len(v2.content) = n /\ n < Parts
    BY <1>1, PartsAreSeq DEF KeyIndInv, KeyTyped, Key!Write
  <1>3. /\ FirstParts(v4, n + 1) \in Seq(Nat \X Nat)
        /\ Append(v2.content, Key!Part(v4, Len(v2.content) + 1))
             = FirstParts(v4, n + 1)
    <2>1. v4 \in Nat /\ n + 1 \in Nat
      BY DEF KeyIndInv, KeyTyped
    <2>2. FirstParts(v4, n + 1) \in Seq(Nat \X Nat)
      BY <2>1, PartsAreSeq
    <2>3. Append(FirstParts(v4, n), Key!Part(v4, n + 1)) = FirstParts(v4, n + 1)
      BY <2>1, OneMorePart
    <2> QED
      BY <1>1, <1>2, <2>2, <2>3
  <1>4. PICK new \in KeyFiles :
          /\ new.content = FirstParts(v4, n + 1)
          /\ new.restricted = v2.restricted /\ Key!Becomes(new)
    BY <1>3 DEF Key!Write, KeyIndInv, KeyTyped, KeyFiles
  <1>5. v2.restricted
    BY DEF KeyIndInv, WriteUnderway, Key!Write
  <1>6. SafeFile(new)
    BY <1>4, <1>5 DEF SafeFile, HoldsOneKey, KeyIndInv, KeyTyped
  <1>7. v2' \in KeyFiles /\ v3' \subseteq KeyFiles /\ AllSafe'
    BY <1>4, <1>6, BecomesSafe DEF KeyIndInv
  <1>8. KeyTyped'
    BY <1>7 DEF KeyIndInv, KeyTyped, Key!Write
  <1>9. WriteUnderway'
    <2>1. n + 1 \in Nat /\ n + 1 <= Parts
      BY <1>2 DEF Key!Assumptions
    <2>2. /\ v2'.content = FirstParts(v4, n + 1) /\ v4' = v4
          /\ v2'.restricted /\ v1' = "write"
      BY <1>4, <1>5 DEF Key!Becomes, Key!Write
    <2> QED
      BY <2>1, <2>2 DEF WriteUnderway, Halfway
  <1>10. CallsInOrder'
    BY DEF KeyIndInv, CallsInOrder, Key!Write
  <1>11. Durable'
    <2>1. v5' = v5 /\ v6' \in Nat /\ v6 <= v6' /\ v5 < v6' /\ v6' = v4
      BY DEF KeyIndInv, KeyTyped, CallsInOrder, Key!Write
    <2>2. new.content = FirstParts(v6', n + 1) /\ n + 1 \in 0 .. Parts
      BY <1>2, <1>4, <2>1 DEF Key!Assumptions
    <2> QED
      BY <1>4, <2>1, <2>2, BecomesKept DEF KeyIndInv
  <1> QED
    BY <1>7, <1>8, <1>9, <1>10, <1>11 DEF KeyIndInv

\* Sync: only the file as it is can be found from now on.
LEMMA SyncStep ==
    ASSUME Key!Assumptions, KeyIndInv, Key!Sync
    PROVE  KeyIndInv'
  <1>1. PICK n \in Nat : n <= Parts /\ v2.content = FirstParts(v4, n)
    BY DEF KeyIndInv, WriteUnderway, Key!Sync, Halfway
  <1>2. n = Parts
    <2>1. Len(v2.content) = n
      BY <1>1, PartsAreSeq DEF KeyIndInv, KeyTyped
    <2> QED
      BY <1>1, <2>1 DEF Key!Sync, Key!Assumptions
  <1>3. KeyTyped' /\ WriteUnderway'
    BY DEF KeyIndInv, KeyTyped, WriteUnderway, Key!Sync
  <1>4. AllSafe'
    BY DEF KeyIndInv, AllSafe, SafeFile, HoldsOneKey, Key!Sync
  <1>5. CallsInOrder'
    BY DEF KeyIndInv, KeyTyped, CallsInOrder, Key!Sync
  <1>6. Durable'
    <2>1. v3' = {v2} /\ v5' = v4 /\ v2.content = FirstParts(v4, Parts)
      BY <1>1, <1>2 DEF Key!Sync
    <2>2. \A f \in v3' : Kept(f, v5', v6')
      BY <2>1 DEF Kept
    <2> QED
      BY <2>2 DEF Durable, Kept, FirstParts
  <1> QED
    BY <1>3, <1>4, <1>5, <1>6 DEF KeyIndInv

\* StepFails: the call returns an error and leaves the file.
LEMMA StepFailsStep ==
    KeyIndInv /\ Key!StepFails => KeyIndInv'
  BY DEF KeyIndInv, KeyTyped, AllSafe, SafeFile, HoldsOneKey, WriteUnderway,
         CallsInOrder, Durable, Kept, Key!StepFails

\* A crash brings back one of the states of the file since the last sync.
LEMMA CrashStep ==
    KeyIndInv /\ Key!Crash => KeyIndInv'
  <1> SUFFICES ASSUME KeyIndInv, Key!Crash PROVE KeyIndInv'
    OBVIOUS
  <1>1. KeyTyped'
    BY DEF KeyIndInv, KeyTyped, Key!Crash
  <1>2. AllSafe'
    BY DEF KeyIndInv, AllSafe, SafeFile, HoldsOneKey, Key!Crash
  <1>3. WriteUnderway'
    BY DEF WriteUnderway, Key!Crash
  <1>4. CallsInOrder'
    BY DEF KeyIndInv, CallsInOrder, Key!Crash
  <1>5. Durable'
    BY DEF KeyIndInv, Durable, Kept, Key!Crash
  <1> QED
    BY <1>1, <1>2, <1>3, <1>4, <1>5 DEF KeyIndInv

\* Every step keeps the invariant.
LEMMA KeyStepHolds ==
    ASSUME Key!Assumptions, KeyIndInv, [Key!Next]_(Key!vars)
    PROVE  KeyIndInv'
  <1>1. CASE UNCHANGED Key!vars
    BY <1>1 DEF KeyIndInv, KeyTyped, AllSafe, SafeFile, HoldsOneKey, WriteUnderway,
                Halfway, CallsInOrder, Durable, Kept, Key!vars
  <1> QED
    BY <1>1, CallStep, OpenStep, SetPermissionsStep, WriteStep, SyncStep,
       StepFailsStep, CrashStep DEF Key!Next

-----------------------------------------------------------------------------
(* What the invariant says of the file.                                    *)

\* A key in the file is restricted.
LEMMA KeyRestricted == KeyIndInv => Key!SecretIsRestricted
  <1> SUFFICES ASSUME KeyIndInv,
                      NEW i \in DOMAIN v2.content, v2.content[i][1] # 0
               PROVE  v2.restricted
    BY DEF Key!SecretIsRestricted
  <1>1. PICK k \in Nat, n \in Nat : HoldsOneKey(v2, k, n)
    BY DEF KeyIndInv, AllSafe, SafeFile
  <1>2. i \in 1 .. n /\ v2.content[i] = Key!Part(k, i)
    BY <1>1 DEF HoldsOneKey, FirstParts
  <1>3. k # 0
    BY <1>2 DEF Key!Part
  <1> QED
    BY <1>1, <1>2, <1>3 DEF HoldsOneKey

\* It is one key.
LEMMA KeyIsOne == KeyIndInv => Key!OneKeyInFile
  <1> SUFFICES ASSUME KeyIndInv, NEW i \in DOMAIN v2.content
               PROVE  v2.content[i] = Key!Part(v2.content[1][1], i)
    BY DEF Key!OneKeyInFile
  <1>1. PICK k \in Nat, n \in Nat : HoldsOneKey(v2, k, n)
    BY DEF KeyIndInv, AllSafe, SafeFile
  <1>2. i \in 1 .. n /\ v2.content[i] = Key!Part(k, i)
    BY <1>1 DEF HoldsOneKey, FirstParts
  <1>3. 1 \in 1 .. n
    BY <1>2
  <1>4. v2.content[1] = Key!Part(k, 1)
    BY <1>1, <1>3 DEF HoldsOneKey, FirstParts
  <1> QED
    BY <1>2, <1>4 DEF Key!Part

\* The last saved key is in it, or a beginning of a later one.
LEMMA KeySurvives == KeyIndInv => Key!SavedSurvives
  <1> SUFFICES ASSUME KeyIndInv, v5 > 0
               PROVE  \/ v2.content = Key!Beginning(v5, Parts)
                      \/ \E k \in v5 + 1 .. v6, n \in 0 .. Parts :
                            v2.content = Key!Beginning(k, n)
    BY DEF Key!SavedSurvives
  <1>1. Kept(v2, v5, v6)
    BY DEF KeyIndInv, AllSafe, Durable
  <1> QED
    BY <1>1, Zenon DEF Kept, FirstParts, Key!Beginning

KeyInv == part = "key" => KeyIndInv

\* Every behaviour of the key's part keeps it.
LEMMA KeyInvHolds == Spec => []KeyInv
  <1>1. Init => KeyInv
    BY KeyInitHolds DEF Init, KeyInv
  <1>2. KeyInv /\ [Next]_all => KeyInv'
    <2> SUFFICES ASSUME KeyInv, [Next]_all, part' = "key" PROVE KeyIndInv'
      BY DEF KeyInv
    <2>1. part = "key" /\ KeyIndInv
      BY DEF KeyInv, Next, all
    <2>2. [Key!Next]_(Key!vars)
      BY <2>1 DEF Next, Step, all, Key!vars
    <2> QED
      BY <2>1, <2>2, KeyAssumptions, KeyStepHolds
  <1> QED
    BY <1>1, <1>2, PTL DEF Spec

\* persist_p256_private_key_pem: a key is never readable by others and never
\* mixed with another one, and the last one reported as saved stays whole,
\* over errors and crashes, until a later call truncates the file; from then
\* on nothing but a beginning of a later key may have taken its place.
THEOREM KeyFileSafe == Spec => []KeyFileIsSafe
  <1>1. KeyInv => KeyFileIsSafe
    BY KeyRestricted, KeyIsOne, KeySurvives DEF KeyInv, KeyFileIsSafe
  <1> QED
    BY <1>1, KeyInvHolds, PTL

-----------------------------------------------------------------------------
(* Request heads.                                                          *)

HeadInv == part = "request head" => HeadProofs!IndInv

\* Both instances of RequestHead parse alike.
LEMMA SameParse ==
    ASSUME NEW input
    PROVE  /\ HeadProofs!Parse(input) = RequestHeads!Parse(input)
           /\ HeadProofs!Consumed(input) = RequestHeads!Consumed(input)
  <1>1. /\ HeadProofs!LineEnds(input) = RequestHeads!LineEnds(input)
        /\ HeadProofs!HeadEnds(input) = RequestHeads!HeadEnds(input)
    BY DEF HeadProofs!LineEnds, RequestHeads!LineEnds,
           HeadProofs!HeadEnds, RequestHeads!HeadEnds
  <1>2. ASSUME NEW S PROVE HeadProofs!First(S) = RequestHeads!First(S)
    BY DEF HeadProofs!First, RequestHeads!First
  <1>3. HeadProofs!LineTooLong(input) <=> RequestHeads!LineTooLong(input)
    BY DEF HeadProofs!LineTooLong, RequestHeads!LineTooLong
  <1>4. ASSUME NEW lineEnd, NEW headEnd
        PROVE  /\ HeadProofs!BlockSize(lineEnd, headEnd)
                    = RequestHeads!BlockSize(lineEnd, headEnd)
               /\ HeadProofs!ParsesAsRequestLine(input, lineEnd)
                    <=> RequestHeads!ParsesAsRequestLine(input, lineEnd)
               /\ HeadProofs!ParsesAsHeaders(input, lineEnd, headEnd)
                    <=> RequestHeads!ParsesAsHeaders(input, lineEnd, headEnd)
    <2>1. HeadProofs!BlockSize(lineEnd, headEnd) = RequestHeads!BlockSize(lineEnd, headEnd)
      BY DEF HeadProofs!BlockSize, RequestHeads!BlockSize
    <2>2. HeadProofs!ParsesAsRequestLine(input, lineEnd)
            <=> RequestHeads!ParsesAsRequestLine(input, lineEnd)
      BY DEF HeadProofs!ParsesAsRequestLine, RequestHeads!ParsesAsRequestLine,
             HeadProofs!Text, RequestHeads!Text
    <2>3. HeadProofs!ParsesAsHeaders(input, lineEnd, headEnd)
            <=> RequestHeads!ParsesAsHeaders(input, lineEnd, headEnd)
      BY DEF HeadProofs!Cardinality, RequestHeads!Cardinality,
             HeadProofs!ParsesAsHeaders, RequestHeads!ParsesAsHeaders,
             HeadProofs!Text, RequestHeads!Text, HeadProofs!First, RequestHeads!First,
             HeadProofs!LineEnds, RequestHeads!LineEnds
    <2> QED
      BY <2>1, <2>2, <2>3
  <1>5. HeadProofs!Consumed(input) = RequestHeads!Consumed(input)
    BY <1>1, <1>2 DEF HeadProofs!Consumed, RequestHeads!Consumed
  <1>6. HeadProofs!Parse(input) = RequestHeads!Parse(input)
    BY <1>1, <1>2, <1>3, <1>4 DEF HeadProofs!Parse, RequestHeads!Parse,
       HeadProofs!MaxHead, RequestHeads!MaxHead
  <1> QED
    BY <1>5, <1>6

\* Every behaviour of the request head's part keeps what RequestHeadProofs
\* proves.
LEMMA HeadInvHolds == Spec => []HeadInv
  <1>1. HeadProofs!Assumptions
    BY RequestHeadAssumptions DEF HeadProofs!Assumptions, RequestHeads!Assumptions
  <1>2. Init => HeadInv
    <2> SUFFICES ASSUME Init, part = "request head" PROVE HeadProofs!IndInv
      BY DEF HeadInv
    <2>1. RequestHeads!Init
      BY DEF Init
    <2>2. HeadProofs!Init
      BY <2>1 DEF HeadProofs!Init, RequestHeads!Init,
                  HeadProofs!MaxHead, RequestHeads!MaxHead
    <2> QED
      BY <1>1, <2>2, HeadProofs!InitHolds
  <1>3. HeadInv /\ [Next]_all => HeadInv'
    <2> SUFFICES ASSUME HeadInv, [Next]_all, part' = "request head"
                 PROVE  HeadProofs!IndInv'
      BY DEF HeadInv
    <2>1. part = "request head" /\ HeadProofs!IndInv
      BY DEF HeadInv, Next, all
    <2>2. RequestHeads!Next \/ UNCHANGED <<v1, v2, v3, v4>>
      BY <2>1 DEF Next, Step, all
    <2>3. [HeadProofs!Next]_(HeadProofs!vars)
      BY <2>2, SameParse DEF
         HeadProofs!vars, HeadProofs!Next, RequestHeads!Next,
         HeadProofs!Accept, RequestHeads!Accept, HeadProofs!Reject, RequestHeads!Reject,
         HeadProofs!Read, RequestHeads!Read, HeadProofs!ReadEof, RequestHeads!ReadEof,
         HeadProofs!Buffer, RequestHeads!Buffer, HeadProofs!MaxHead, RequestHeads!MaxHead,
         HeadProofs!ReadLimit, RequestHeads!ReadLimit
    <2> QED
      BY <1>1, <2>1, <2>3, HeadProofs!StepHolds
  <1> QED
    BY <1>2, <1>3, PTL DEF Spec

\* read_request_head: however a stream is cut into reads, exactly a valid head
\* is consumed, the buffer stays within its limit and a valid head is refused
\* at one cut only.
THEOREM HeadsExact == Spec => []HeadsAreExact
  <1>1. HeadProofs!TypeOK <=> RequestHeads!TypeOK
    BY DEF HeadProofs!TypeOK, RequestHeads!TypeOK, HeadProofs!MaxHead, RequestHeads!MaxHead
  <1>2. ASSUME NEW bytes PROVE HeadProofs!HeadsOf(bytes) = RequestHeads!HeadsOf(bytes)
    <2>1. ASSUME NEW head PROVE HeadProofs!ValidHead(head) <=> RequestHeads!ValidHead(head)
      BY DEF HeadProofs!ValidHead, RequestHeads!ValidHead,
             HeadProofs!Cardinality, RequestHeads!Cardinality
    <2> QED
      BY <2>1 DEF HeadProofs!HeadsOf, RequestHeads!HeadsOf
  <1>3. HeadProofs!AcceptsTheHead <=> RequestHeads!AcceptsTheHead
    BY <1>2 DEF HeadProofs!AcceptsTheHead, RequestHeads!AcceptsTheHead
  <1>4. HeadProofs!RejectsNoValidHead <=> RequestHeads!RejectsNoValidHead
    BY <1>2 DEF HeadProofs!RejectsNoValidHead, RequestHeads!RejectsNoValidHead,
                HeadProofs!CrAtTheLimit, RequestHeads!CrAtTheLimit
  <1>5. HeadInv => HeadsAreExact
    BY <1>1, <1>3, <1>4 DEF HeadInv, HeadsAreExact, HeadProofs!IndInv
  <1> QED
    BY <1>5, HeadInvHolds, PTL

-----------------------------------------------------------------------------
(* Numbers and hostnames of the configuration.                             *)

\* The digits of a text stand for a number.
LEMMA ValueIsNumber ==
    ASSUME NEW text \in Seq(Nat)
    PROVE  Config!Value(text) \in Nat
  <1> DEFINE Digits(f, m) ==
               \A n \in 0 .. m : f[n] = IF n = 0 THEN 0 ELSE 10 * f[n - 1] + text[n]
             Undefined == {m \in 0 .. Len(text) :
                             ~ \E f \in [0 .. m -> Nat] : Digits(f, m)}
  <1>1. Undefined = {}
    <2> SUFFICES ASSUME Undefined # {} PROVE FALSE
      OBVIOUS
    <2>1. Undefined \in SUBSET Nat
      OBVIOUS
    <2>2. PICK m \in Undefined : \A k \in Undefined : m <= k
      BY <2>1, LeastExists
    <2>3. m # 0
      <3>1. [n \in 0 .. 0 |-> 0] \in [0 .. 0 -> Nat]
        OBVIOUS
      <3>2. Digits([n \in 0 .. 0 |-> 0], 0)
        OBVIOUS
      <3> QED
        BY <3>1, <3>2
    <2>4. PICK k \in 0 .. Len(text) : m = k + 1 /\ k \notin Undefined /\ k \in Nat
      <3>1. /\ m - 1 \in 0 .. Len(text) /\ m = (m - 1) + 1 /\ ~(m <= m - 1)
            /\ m - 1 \in Nat
        BY <2>3
      <3> HIDE DEF Undefined
      <3>2. m - 1 \notin Undefined
        BY <2>2, <3>1
      <3> QED
        BY <3>1, <3>2
    <2>5. PICK f \in [0 .. k -> Nat] : Digits(f, k)
      BY <2>4
    <2> DEFINE g == [n \in 0 .. m |-> IF n = m THEN 10 * f[k] + text[m] ELSE f[n]]
    <2>6. m \in 1 .. Len(text) /\ text[m] \in Nat /\ f[k] \in Nat
      BY <2>4
    <2>7. g \in [0 .. m -> Nat]
      <3>1. 10 * f[k] + text[m] \in Nat
        BY <2>6
      <3>2. ASSUME NEW n \in 0 .. m, n # m PROVE f[n] \in Nat
        <4>1. n \in 0 .. k
          BY <2>4, <3>2
        <4> QED
          BY <4>1
      <3> QED
        BY <3>1, <3>2
    <2>8. Digits(g, m)
      <3> SUFFICES ASSUME NEW n \in 0 .. m
                   PROVE  g[n] = IF n = 0 THEN 0 ELSE 10 * g[n - 1] + text[n]
        OBVIOUS
      <3>1. CASE n = m
        BY <2>4, <3>1
      <3>2. CASE n # m
        <4>1. n \in 0 .. k /\ g[n] = f[n]
          BY <2>4, <3>2
        <4>2. n # 0 => n - 1 \in 0 .. m /\ n - 1 # m /\ g[n - 1] = f[n - 1]
          BY <2>4, <4>1
        <4> QED
          BY <2>5, <4>1, <4>2
      <3> QED
        BY <3>1, <3>2
    <2> QED
      BY <2>7, <2>8
  <1>2. PICK f \in [0 .. Len(text) -> Nat] : Digits(f, Len(text))
    <2>1. Len(text) \in 0 .. Len(text)
      OBVIOUS
    <2> HIDE DEF Digits
    <2> QED
      BY <1>1, <2>1
  <1> DEFINE Read == CHOOSE h : h = [n \in 0 .. Len(text) |->
                                       IF n = 0 THEN 0 ELSE 10 * h[n - 1] + text[n]]
  <1>3. f = [n \in 0 .. Len(text) |-> IF n = 0 THEN 0 ELSE 10 * f[n - 1] + text[n]]
    BY <1>2
  <1>4. Read = [n \in 0 .. Len(text) |-> IF n = 0 THEN 0 ELSE 10 * Read[n - 1] + text[n]]
    BY <1>3, Zenon
  <1>5. Config!Value(text) = Read[Len(text)]
    BY Zenon DEF Config!Value
  <1>6. PICK h : h = Read
    OBVIOUS
  <1> HIDE DEF Read
  <1>7. \A n \in 0 .. Len(text) : h[n] = IF n = 0 THEN 0 ELSE 10 * h[n - 1] + text[n]
    BY <1>4, <1>6
  <1> DEFINE Wrong == {n \in 0 .. Len(text) : h[n] \notin Nat}
  <1>8. Wrong = {}
    <2> SUFFICES ASSUME Wrong # {} PROVE FALSE
      OBVIOUS
    <2>1. Wrong \in SUBSET Nat
      OBVIOUS
    <2>2. PICK n \in Wrong : \A k \in Wrong : n <= k
      BY <2>1, LeastExists
    <2>3. n # 0
      BY <1>7
    <2>4. n - 1 \in 0 .. Len(text) /\ ~(n <= n - 1) /\ n \in 1 .. Len(text)
      BY <2>3
    <2>5. h[n - 1] \in Nat /\ text[n] \in Nat
      BY <2>2, <2>4
    <2>6. h[n] = 10 * h[n - 1] + text[n]
      BY <1>7, <2>3
    <2>7. h[n] \in Nat
      BY <2>5, <2>6
    <2> QED
      BY <2>7
  <1> QED
    BY <1>5, <1>6, <1>8

\* Lower of a label is a label.
LEMMA LowerLabels ==
    ASSUME NEW a \in Config!Labels, NEW b \in Config!Labels
    PROVE  /\ Config!Lower(a) \in Config!Labels
           /\ Config!Lower(a) = Config!Lower(b) <=> (a = b \/ {a, b} = {"a", "A"})
  <1>1. Config!Empty # "a" /\ Config!Empty # "A"
    BY Zenon DEF Config!Empty
  <1> QED
    BY <1>1 DEF Config!Labels, Config!Lower

\* The length of a hostname without its final dots.
CutAt(name, t) ==
    /\ t \in 0 .. Len(name) /\ (t # 0 => name[t] # Config!Empty)
    /\ \A j \in (t + 1) .. Len(name) : name[j] = Config!Empty

\* What trimming and normalizing do to a hostname.
LEMMA NameIsCut ==
    ASSUME NEW name \in Seq(Config!Labels)
    PROVE  \E t \in Nat :
              /\ CutAt(name, t)
              /\ Config!WithoutFinalDots(name) \in Seq(Config!Labels)
              /\ Len(Config!WithoutFinalDots(name)) = t
              /\ \A i \in 1 .. t : Config!WithoutFinalDots(name)[i] = name[i]
              /\ Config!Normalized(name) = [i \in 1 .. t |-> Config!Lower(name[i])]
              /\ Config!Normalized(name) \in Seq(Config!Labels)
  <1> DEFINE S == {0} \cup {i \in 1 .. Len(name) : name[i] # Config!Empty}
  <1>0. Len(name) \in Nat
    OBVIOUS
  <1>1. S \in SUBSET (0 .. Len(name)) /\ S # {} /\ Len(name) \in Nat
    BY <1>0
  <1>2. \E x \in S : \A y \in S : y <= x
    BY <1>1, GreatestExists
  <1>3. PICK t : t = Config!Max(S)
    OBVIOUS
  <1>4. t \in S /\ \A y \in S : t >= y
    <2>1. \E x \in S : \A y \in S : x >= y
      BY <1>1, <1>2
    <2> QED
      BY <1>3, <2>1, Zenon DEF Config!Max
  <1>5. t \in Nat /\ CutAt(name, t)
    <2>1. t \in Nat /\ t \in 0 .. Len(name) /\ (t # 0 => name[t] # Config!Empty)
      BY <1>0, <1>4
    <2>2. ASSUME NEW j \in (t + 1) .. Len(name), name[j] # Config!Empty PROVE FALSE
      <3>1. j \in S /\ ~(t >= j)
        BY <1>0, <2>1, <2>2
      <3> QED
        BY <1>4, <3>1
    <2> QED
      BY <2>1, <2>2 DEF CutAt
  <1>6. PICK w : w = Config!WithoutFinalDots(name)
    OBVIOUS
  <1>7. w = SubSeq(name, 1, t)
    BY <1>3, <1>6, Zenon DEF Config!WithoutFinalDots
  <1>8. w \in Seq(Config!Labels) /\ Len(w) = t /\ \A i \in 1 .. t : w[i] = name[i]
    <2>1. t \in Nat /\ t \in 0 .. Len(name)
      BY <1>5 DEF CutAt
    <2> QED
      BY <1>7, <2>1, SubSeqProperties
  <1>9. Config!Normalized(name) = [i \in 1 .. Len(w) |-> Config!Lower(w[i])]
    BY <1>6, Zenon DEF Config!Normalized
  <1>10. Config!Normalized(name) = [i \in 1 .. t |-> Config!Lower(name[i])]
    BY <1>8, <1>9
  <1>11. Config!Normalized(name) \in Seq(Config!Labels)
    <2>1. \A i \in 1 .. t : Config!Lower(w[i]) \in Config!Labels
      BY <1>8, LowerLabels
    <2> QED
      BY <1>5, <1>8, <1>9, <2>1
  <1> QED
    BY <1>5, <1>6, <1>8, <1>10, <1>11

\* Two spellings of one name are normalized alike, and no others.
LEMMA SameNormalized ==
    ASSUME NEW n \in Seq(Config!Labels), NEW k \in Seq(Config!Labels)
    PROVE  Config!SameName(n, k) <=> Config!Normalized(n) = Config!Normalized(k)
  <1>1. PICK t \in Nat :
          /\ CutAt(n, t)
          /\ Config!Normalized(n) = [i \in 1 .. t |-> Config!Lower(n[i])]
    BY NameIsCut
  <1>2. PICK u \in Nat :
          /\ CutAt(k, u)
          /\ Config!Normalized(k) = [i \in 1 .. u |-> Config!Lower(k[i])]
    BY NameIsCut
  <1> DEFINE Ends(name, i) ==
               i \in 0 .. Len(name) /\ \A j \in (i + 1) .. Len(name) : name[j] = Config!Empty
             Alike(i) == \A x \in 1 .. i : n[x] = k[x] \/ {n[x], k[x]} = {"a", "A"}
  <1>0. Len(n) \in Nat /\ Len(k) \in Nat
    OBVIOUS
  <1>3. Config!SameName(n, k) <=> \E i \in Nat : Ends(n, i) /\ Ends(k, i) /\ Alike(i)
    <2> DEFINE Of(name) == {i \in 0 .. Len(name) :
                              \A j \in (i + 1) .. Len(name) : name[j] = Config!Empty}
    <2>1. Config!SameName(n, k) <=> \E i \in Of(n), j \in Of(k) : i = j /\ Alike(i)
      BY Zenon DEF Config!SameName
    <2>2. ASSUME NEW i PROVE (i \in Of(n) <=> Ends(n, i)) /\ (i \in Of(k) <=> Ends(k, i))
      BY Zenon
    <2>3. ASSUME NEW i, Ends(n, i) PROVE i \in Nat
      BY <1>0, <2>3
    <2> HIDE DEF Of, Ends, Alike
    <2> QED
      BY <2>1, <2>2, <2>3, Zenon
  <1>4. ASSUME NEW i \in Nat, Ends(n, i), Ends(k, i), Alike(i)
        PROVE  Config!Normalized(n) = Config!Normalized(k)
    <2>1. t <= i /\ u <= i
      BY <1>0, <1>1, <1>2, <1>4 DEF CutAt
    <2>2. \A x \in 1 .. i : n[x] = Config!Empty <=> k[x] = Config!Empty
      <3>1. Config!Empty # "a" /\ Config!Empty # "A"
        BY Zenon DEF Config!Empty
      <3> QED
        BY <1>4, <3>1
    <2>3. ~(t < u) /\ ~(u < t)
      <3>1. ASSUME t < u PROVE FALSE
        <4>1. u \in (t + 1) .. Len(n) /\ u \in 1 .. i /\ u # 0
          BY <1>0, <1>4, <2>1, <3>1
        <4> QED
          BY <1>1, <1>2, <2>2, <4>1 DEF CutAt
      <3>2. ASSUME u < t PROVE FALSE
        <4>1. t \in (u + 1) .. Len(k) /\ t \in 1 .. i /\ t # 0
          BY <1>0, <1>4, <2>1, <3>2
        <4> QED
          BY <1>1, <1>2, <2>2, <4>1 DEF CutAt
      <3> QED
        BY <3>1, <3>2
    <2>4. t = u
      BY <2>3
    <2>5. \A x \in 1 .. t : Config!Lower(n[x]) = Config!Lower(k[x])
      <3> SUFFICES ASSUME NEW x \in 1 .. t PROVE Config!Lower(n[x]) = Config!Lower(k[x])
        OBVIOUS
      <3>1. x \in 1 .. Len(n) /\ x \in 1 .. Len(k) /\ x \in 1 .. i
        BY <1>0, <1>4, <2>1
      <3>2. n[x] \in Config!Labels /\ k[x] \in Config!Labels
        BY <3>1
      <3> QED
        BY <1>4, <3>1, <3>2, LowerLabels
    <2> QED
      BY <1>1, <1>2, <2>4, <2>5
  <1>5. ASSUME Config!Normalized(n) = Config!Normalized(k)
        PROVE  Ends(n, t) /\ Ends(k, t) /\ Alike(t)
    <2>1. 1 .. t = 1 .. u
      <3>1. DOMAIN [i \in 1 .. t |-> Config!Lower(n[i])] = 1 .. t
        OBVIOUS
      <3>2. DOMAIN [i \in 1 .. u |-> Config!Lower(k[i])] = 1 .. u
        OBVIOUS
      <3> QED
        BY <1>1, <1>2, <1>5, <3>1, <3>2
    <2>2. t = u
      <3>1. \A x \in Nat : x \in 1 .. t <=> x \in 1 .. u
        BY <2>1
      <3>2. (t \in 1 .. t <=> t \in 1 .. u) /\ (u \in 1 .. t <=> u \in 1 .. u)
        BY <3>1
      <3> QED
        BY <3>2
    <2>3. ASSUME NEW x \in 1 .. t PROVE n[x] = k[x] \/ {n[x], k[x]} = {"a", "A"}
      <3>1. Config!Lower(n[x]) = Config!Lower(k[x])
        <4>1. [i \in 1 .. t |-> Config!Lower(n[i])][x] = Config!Lower(n[x])
          OBVIOUS
        <4>2. [i \in 1 .. u |-> Config!Lower(k[i])][x] = Config!Lower(k[x])
          BY <2>2
        <4> QED
          BY <1>1, <1>2, <1>5, <4>1, <4>2
      <3>2. n[x] \in Config!Labels /\ k[x] \in Config!Labels
        <4>1. x \in 1 .. Len(n) /\ x \in 1 .. Len(k)
          BY <1>0, <1>1, <1>2, <2>2 DEF CutAt
        <4> QED
          BY <4>1
      <3> QED
        BY <3>1, <3>2, LowerLabels
    <2> QED
      BY <1>1, <1>2, <2>2, <2>3 DEF CutAt
  <1> QED
    BY <1>3, <1>4, <1>5

\* is_valid_hostname, as a set of labels.
LEMMA GoodNameMeans ==
    ASSUME NEW name \in Seq(Config!Labels)
    PROVE  Config!GoodHostname(name) <=>
             Config!ToSet(Config!WithoutFinalDots(name)) \in (SUBSET {"a", "A", "b"}) \ {{}}
  <1>1. PICK w \in Seq(Config!Labels) : w = Config!WithoutFinalDots(name)
    BY NameIsCut
  <1>2. Config!GoodHostname(name) <=>
          w # <<>> /\ \A i \in 1 .. Len(w) : w[i] \notin {Config!Empty, "-"}
    BY <1>1, Zenon DEF Config!GoodHostname, Config!IsValidHostname
  <1>3. Config!ToSet(w) = {w[i] : i \in 1 .. Len(w)}
    BY DEF Config!ToSet
  <1>4. w # <<>> <=> Config!ToSet(w) # {}
    BY <1>3, EmptySeq
  <1>5. \A i \in 1 .. Len(w) : w[i] \in {"a", "A", "b", "-", Config!Empty}
    BY DEF Config!Labels
  <1>6. Config!Empty \notin {"a", "A", "b"}
    BY Zenon DEF Config!Empty
  <1>7. (\A i \in 1 .. Len(w) : w[i] \notin {Config!Empty, "-"})
          <=> Config!ToSet(w) \in SUBSET {"a", "A", "b"}
    BY <1>3, <1>5, <1>6
  <1> QED
    BY <1>1, <1>2, <1>4, <1>7

\* The fields of a line.
LEMMA LineFields ==
    ASSUME NEW l \in Config!Lines
    PROVE  /\ l.directive \in {"blank", "other", "tls_identity", "route"} \cup Config!Names
           /\ l.directive \in Config!Names => l.value \in Config!Text
           /\ l.directive = "tls_identity" => l.certificate \in STRING /\ l.key \in STRING
           /\ l.directive = "route" =>
                 /\ l.hostname \in Seq(Config!Labels) /\ l.port \in Config!Text
                 /\ l.upstream \in {"name", "v4", "v6", "bad"} /\ l.bracketed \in BOOLEAN
  BY DEF Config!Lines, Config!Names

\* The number rules agree with what a text stands for.
LEMMA NumberMeans ==
    ASSUME NEW text \in Config!Text, NEW max \in Nat
    PROVE  Config!StandsForPositive(text, max) <=>
             Config!AllDigits(text) /\ Config!Value(text) <= max /\ Config!Value(text) # 0
  <1>1. text \in Seq(Nat)
    BY DEF Config!Text
  <1>2. Config!Value(text) \in Nat
    BY <1>1, ValueIsNumber
  <1> QED
    BY <1>2 DEF Config!StandsForPositive, Config!AllDigits, Config!Digit

\* What the loader asks of a line by itself.
Passes(l) ==
    \/ l.directive = "blank"
    \/ l.directive \in Config!Names /\ Config!GoodSetting(l)
    \/ l.directive = "tls_identity" /\ Config!GoodPair(l)
    \/ l.directive = "route" /\ Config!GoodRoute(l)

\* It is that the line is well formed.
LEMMA PassesMeans ==
    ASSUME NEW l \in Config!Lines
    PROVE  Config!Wellformed(l) <=> Passes(l)
  <1>0. MaxNumber \in Nat /\ MaxPort \in Nat
    BY ConfigAssumptions DEF Config!Assumptions
  <1>1. CASE l.directive = "blank"
    BY <1>1 DEF Config!Wellformed, Passes, Config!Names
  <1>2. CASE l.directive = "other"
    BY <1>2 DEF Config!Wellformed, Passes, Config!Names
  <1>3. CASE l.directive = "https_listen"
    BY <1>3 DEF Config!Wellformed, Passes, Config!Names, Config!GoodSetting
  <1>4. CASE l.directive \in Config!Names \ {"https_listen"}
    <2>1. Config!Wellformed(l) <=> Config!StandsForPositive(l.value, MaxNumber)
      BY <1>4 DEF Config!Wellformed, Config!Names
    <2>2. Passes(l) <=> Config!GoodNumber(l.value)
      BY <1>4 DEF Passes, Config!Names, Config!GoodSetting
    <2>3. l.value \in Config!Text
      BY <1>4, LineFields
    <2> QED
      BY <1>0, <2>1, <2>2, <2>3, NumberMeans DEF Config!GoodNumber
  <1>5. CASE l.directive = "tls_identity"
    BY <1>5 DEF Config!Wellformed, Passes, Config!Names
  <1>6. CASE l.directive = "route"
    <2>1. /\ l.hostname \in Seq(Config!Labels) /\ l.port \in Config!Text
          /\ l.upstream \in {"name", "v4", "v6", "bad"} /\ l.bracketed \in BOOLEAN
      BY <1>6, LineFields
    <2>2. Config!Wellformed(l) <=>
            /\ l.separators = 1 /\ Config!StandsForPositive(l.port, MaxPort)
            /\ l.upstream # "bad" /\ (l.bracketed <=> l.upstream = "v6")
            /\ Config!ToSet(Config!WithoutFinalDots(l.hostname))
                 \in (SUBSET {"a", "A", "b"}) \ {{}}
      BY <1>6 DEF Config!Wellformed, Config!Names
    <2>3. Config!StandsForPositive(l.port, MaxPort) <=> Config!GoodPort(l.port)
      BY <1>0, <2>1, NumberMeans DEF Config!GoodPort
    <2>4. (l.upstream # "bad" /\ (l.bracketed <=> l.upstream = "v6"))
            <=> l.upstream \in IF l.bracketed THEN {"v6"} ELSE {"name", "v4"}
      BY <2>1
    <2>5. Passes(l) <=> Config!GoodRoute(l)
      BY <1>6 DEF Passes, Config!Names
    <2> QED
      BY <2>1, <2>2, <2>3, <2>4, <2>5, GoodNameMeans
         DEF Config!GoodRoute, Config!GoodUpstream
  <1> QED
    BY <1>1, <1>2, <1>3, <1>4, <1>5, <1>6, LineFields

\* What the loader refuses a second line for.
Clashes(l, k) ==
    /\ l.directive = k.directive
    /\ \/ l.directive \in Config!Names
       \/ /\ l.directive = "route"
          /\ Config!Normalized(l.hostname) = Config!Normalized(k.hostname)
       \/ l.directive = "tls_identity" /\ l.certificate = k.certificate /\ l.key = k.key

\* It is that the two are in conflict.
LEMMA ClashesMeans ==
    ASSUME NEW l \in Config!Lines, NEW k \in Config!Lines
    PROVE  Config!Conflict(l, k) <=> Clashes(l, k)
  <1>1. l.directive = "route" /\ k.directive = "route" =>
          (Config!SameName(l.hostname, k.hostname) <=>
             Config!Normalized(l.hostname) = Config!Normalized(k.hostname))
    BY LineFields, SameNormalized
  <1> QED
    BY <1>1 DEF Config!Conflict, Clashes

-----------------------------------------------------------------------------
(* Loading the configuration.  The variables are, in this order: file,     *)
(* line, settings, routes, pairs, outcome, asked and found.                *)

Upstreams == {"name", "v4", "v6", "bad"}

Routes == [hostname : Seq(Config!Labels), upstream : Upstreams \X Nat]

ConfigTyped ==
    /\ v1 \in Seq(Config!Lines) /\ v2 \in 1 .. (Len(v1) + 1)
    /\ v3 \in [Config!Names -> Config!Text]
    /\ v4 \in Seq(Routes)
    /\ v6 # "loaded" => v5 \in Seq(STRING \X STRING)
    /\ v6 \in {"reading", "loaded", "refused"}

\* The lines read so far.
Before == 1 .. (v2 - 1)

\* Every setting has the value of a line that set it, or is unset.
SettingsKept ==
    \A s \in Config!Names :
        IF v3[s] = Config!Default THEN \A i \in Before : v1[i].directive # s
        ELSE \E i \in Before : v1[i].directive = s /\ v1[i].value = v3[s]

\* r is the route of line l.
RouteOf(l, r) ==
    /\ l.directive = "route"
    /\ r.hostname = Config!Normalized(l.hostname)
    /\ r.upstream = <<l.upstream, Config!Value(l.port)>>

RoutesKept ==
    /\ \A k \in 1 .. Len(v4) : \E i \in Before : RouteOf(v1[i], v4[k])
    /\ \A i \in Before : v1[i].directive = "route" =>
          \E k \in 1 .. Len(v4) : RouteOf(v1[i], v4[k])

\* p is the pair of line l.
PairOf(l, p) == l.directive = "tls_identity" /\ p = <<l.certificate, l.key>>

\* Until the paths are resolved.
PairsKept ==
    v6 # "loaded" =>
        /\ \A k \in 1 .. Len(v5) : \E i \in Before : PairOf(v1[i], v5[k])
        /\ \A i \in Before : v1[i].directive = "tls_identity" =>
              \E k \in 1 .. Len(v5) : PairOf(v1[i], v5[k])

Ended ==
    /\ v6 = "loaded" => v2 = Len(v1) + 1
    /\ v6 = "refused" => v2 <= Len(v1) /\ ~Config!Acceptable(v2)

Answered ==
    /\ v6 # "loaded" => v7 = Config!Nothing
    /\ v7 # Config!Nothing => v7 \in ConfigHosts /\ v8 = Config!RouteForHost(v7)

\* The inductive invariant.  RoutesByName and LoadsWhatTheFileSays say nothing
\* before the end of the file; this says of every line read what it left.
ConfigIndInv ==
    /\ ConfigTyped /\ Config!Acceptable(v2 - 1)
    /\ SettingsKept /\ RoutesKept /\ PairsKept
    /\ Ended /\ Answered

\* A line that passes and clashes with none before it may stand.
LEMMA LineMayStand ==
    ASSUME ConfigTyped, v2 <= Len(v1), Config!Acceptable(v2 - 1)
    PROVE  Config!Acceptable(v2) <=>
             Passes(v1[v2]) /\ \A i \in Before : ~Clashes(v1[i], v1[v2])
  <1>1. v2 \in Nat /\ Len(v1) \in Nat /\ v2 >= 1
    BY DEF ConfigTyped
  <1>2. \A i \in 1 .. v2 : v1[i] \in Config!Lines
    BY <1>1 DEF ConfigTyped
  <1>3. \A i \in 1 .. v2 : i \in Before \/ i = v2
    BY <1>1 DEF Before
  <1>4. \A i \in Before : i \in 1 .. v2 /\ i # v2
    BY <1>1 DEF Before
  <1>5. v2 \in 1 .. v2
    BY <1>1
  <1>6. /\ \A i \in Before : Config!Wellformed(v1[i])
        /\ \A i, j \in Before : i # j => ~Config!Conflict(v1[i], v1[j])
    BY Zenon DEF Config!Acceptable, Before
  <1>7. Config!Acceptable(v2) <=>
          /\ \A i \in 1 .. v2 : Config!Wellformed(v1[i])
          /\ \A i, j \in 1 .. v2 : i # j => ~Config!Conflict(v1[i], v1[j])
    BY Zenon DEF Config!Acceptable
  <1>8. Config!Wellformed(v1[v2]) <=> Passes(v1[v2])
    BY <1>2, <1>5, PassesMeans
  <1>9. \A i \in Before : /\ Config!Conflict(v1[i], v1[v2]) <=> Clashes(v1[i], v1[v2])
                          /\ Config!Conflict(v1[v2], v1[i]) <=> Clashes(v1[i], v1[v2])
    <2> SUFFICES ASSUME NEW i \in Before
                 PROVE  /\ Config!Conflict(v1[i], v1[v2]) <=> Clashes(v1[i], v1[v2])
                        /\ Config!Conflict(v1[v2], v1[i]) <=> Clashes(v1[i], v1[v2])
      OBVIOUS
    <2>1. v1[i] \in Config!Lines /\ v1[v2] \in Config!Lines
      BY <1>2, <1>4, <1>5
    <2>2. Clashes(v1[i], v1[v2]) <=> Clashes(v1[v2], v1[i])
      BY DEF Clashes
    <2> QED
      BY <2>1, <2>2, ClashesMeans
  <1> QED
    BY <1>3, <1>4, <1>5, <1>6, <1>7, <1>8, <1>9, Zenon

\* A read line moves on to the next.
LEMMA OneMoreLine ==
    ASSUME ConfigTyped, v2 <= Len(v1), v1' = v1, v2' = v2 + 1
    PROVE  /\ v1' \in Seq(Config!Lines) /\ v2' \in 1 .. (Len(v1') + 1)
           /\ Config!Acceptable(v2) => Config!Acceptable(v2 - 1)'
           /\ Before' = Before \cup {v2} /\ v2 \notin Before
           /\ v1[v2] \in Config!Lines
  <1>1. v2 \in Nat /\ Len(v1) \in Nat /\ v2 >= 1 /\ v2 \in 1 .. Len(v1)
    BY DEF ConfigTyped
  <1>2. v2' - 1 = v2
    BY <1>1
  <1>3. Config!Acceptable(v2) => Config!Acceptable(v2 - 1)'
    BY <1>2 DEF Config!Acceptable
  <1>4. Before' = Before \cup {v2} /\ v2 \notin Before
    BY <1>1, <1>2 DEF Before
  <1>5. v1[v2] \in Config!Lines /\ v1' \in Seq(Config!Lines)
    BY <1>1 DEF ConfigTyped
  <1> QED
    BY <1>1, <1>3, <1>4, <1>5

\* The settings after a line that sets none.
LEMMA SettingsStay ==
    ASSUME SettingsKept, v1' = v1, v3' = v3, Before' = Before \cup {v2},
           v1[v2].directive \notin Config!Names
    PROVE  SettingsKept'
  BY DEF SettingsKept, Config!Default

\* The routes after a line that adds none.
LEMMA RoutesStay ==
    ASSUME RoutesKept, v1' = v1, v4' = v4, Before' = Before \cup {v2},
           v1[v2].directive # "route"
    PROVE  RoutesKept'
  BY DEF RoutesKept, RouteOf

\* The pairs after a line that adds none.
LEMMA PairsStay ==
    ASSUME PairsKept, v1' = v1, v5' = v5, v6' = v6, Before' = Before \cup {v2},
           v1[v2].directive # "tls_identity"
    PROVE  PairsKept'
  BY DEF PairsKept, PairOf

\* The answers while the file is read.
LEMMA AnswersStay ==
    ASSUME Answered, Ended, v6 = "reading", v6' = "reading", v7' = v7
    PROVE  Answered' /\ Ended'
  BY DEF Answered, Ended, Config!Nothing

\* SkipLine keeps the invariant.
LEMMA SkipLineStep ==
    ASSUME ConfigIndInv, Config!SkipLine
    PROVE  ConfigIndInv'
  <1>1. /\ v6 = "reading" /\ v2 <= Len(v1) /\ v1[v2].directive = "blank"
        /\ v2' = v2 + 1 /\ v1' = v1 /\ v3' = v3 /\ v4' = v4 /\ v5' = v5 /\ v6' = v6
        /\ v7' = v7 /\ v8' = v8
    BY DEF Config!SkipLine, Config!Reading, Config!Current
  <1>2. ConfigTyped /\ Config!Acceptable(v2 - 1) /\ SettingsKept /\ RoutesKept
        /\ PairsKept /\ Ended /\ Answered
    BY DEF ConfigIndInv
  <1>3. v1[v2].directive \notin Config!Names
    BY <1>1 DEF Config!Names
  <1>4. Config!Acceptable(v2)
    <2>1. Passes(v1[v2]) /\ \A i \in Before : ~Clashes(v1[i], v1[v2])
      BY <1>1, <1>3 DEF Passes, Clashes
    <2> QED
      BY <1>1, <1>2, <2>1, LineMayStand
  <1>5. /\ v1' \in Seq(Config!Lines) /\ v2' \in 1 .. (Len(v1') + 1)
        /\ Config!Acceptable(v2 - 1)' /\ Before' = Before \cup {v2}
    BY <1>1, <1>2, <1>4, OneMoreLine
  <1>6. ConfigTyped'
    BY <1>1, <1>2, <1>5 DEF ConfigTyped
  <1>7. SettingsKept' /\ RoutesKept' /\ PairsKept'
    BY <1>1, <1>2, <1>3, <1>5, SettingsStay, RoutesStay, PairsStay
  <1> QED
    BY <1>1, <1>2, <1>5, <1>6, <1>7, AnswersStay DEF ConfigIndInv

\* SetSetting keeps the invariant.
LEMMA SetSettingStep ==
    ASSUME ConfigIndInv, Config!SetSetting
    PROVE  ConfigIndInv'
  <1>1. /\ v6 = "reading" /\ v2 <= Len(v1) /\ Config!NewSetting
        /\ v3' = [v3 EXCEPT ![v1[v2].directive] = v1[v2].value]
        /\ v2' = v2 + 1 /\ v1' = v1 /\ v4' = v4 /\ v5' = v5 /\ v6' = v6
        /\ v7' = v7 /\ v8' = v8
    BY DEF Config!SetSetting, Config!Reading, Config!Current
  <1>2. ConfigTyped /\ Config!Acceptable(v2 - 1) /\ SettingsKept /\ RoutesKept
        /\ PairsKept /\ Ended /\ Answered
    BY DEF ConfigIndInv
  <1>3. PICK d \in Config!Names :
          d = v1[v2].directive /\ v3[d] = Config!Default /\ Config!GoodSetting(v1[v2])
    BY <1>1 DEF Config!NewSetting, Config!Current
  <1>4. d # "route" /\ d # "tls_identity"
    BY <1>3 DEF Config!Names
  <1>5. Config!Acceptable(v2)
    <2>1. Passes(v1[v2])
      BY <1>3 DEF Passes
    <2>2. \A i \in Before : v1[i].directive # d
      BY <1>2, <1>3 DEF SettingsKept
    <2>3. \A i \in Before : ~Clashes(v1[i], v1[v2])
      BY <1>3, <2>2 DEF Clashes
    <2> QED
      BY <1>1, <1>2, <2>1, <2>3, LineMayStand
  <1>6. /\ v1' \in Seq(Config!Lines) /\ v2' \in 1 .. (Len(v1') + 1)
        /\ Config!Acceptable(v2 - 1)' /\ Before' = Before \cup {v2}
        /\ v1[v2] \in Config!Lines /\ v2 \notin Before
    BY <1>1, <1>2, <1>5, OneMoreLine
  <1>7. PICK value \in Config!Text : value = v1[v2].value /\ value # Config!Default
    <2>1. v1[v2].value \in Config!Text
      BY <1>3, <1>6, LineFields
    <2>2. v1[v2].value # <<>>
      <3>1. Config!AnAddress # <<>>
        BY DEF Config!AnAddress
      <3> QED
        BY <1>3, <3>1, Zenon DEF Config!GoodSetting, Config!GoodNumber, Config!AllDigits
    <2> QED
      BY <2>1, <2>2 DEF Config!Default
  <1>8. /\ v3' \in [Config!Names -> Config!Text] /\ v3'[d] = value
        /\ \A s \in Config!Names \ {d} : v3'[s] = v3[s]
    BY <1>1, <1>2, <1>3, <1>7 DEF ConfigTyped
  <1>9. ConfigTyped'
    BY <1>1, <1>2, <1>6, <1>8 DEF ConfigTyped
  <1>10. SettingsKept'
    <2> SUFFICES ASSUME NEW s \in Config!Names
                 PROVE  IF v3'[s] = Config!Default
                        THEN \A i \in Before' : v1'[i].directive # s
                        ELSE \E i \in Before' : v1'[i].directive = s /\ v1'[i].value = v3'[s]
      BY DEF SettingsKept, Config!Default
    <2>1. CASE s = d
      BY <1>1, <1>3, <1>6, <1>7, <1>8, <2>1
    <2>2. CASE s # d
      <3>1. v3'[s] = v3[s]
        BY <1>8, <2>2
      <3>2. IF v3[s] = Config!Default THEN \A i \in Before : v1[i].directive # s
            ELSE \E i \in Before : v1[i].directive = s /\ v1[i].value = v3[s]
        BY <1>2 DEF SettingsKept
      <3> QED
        BY <1>1, <1>3, <1>6, <2>2, <3>1, <3>2
    <2> QED
      BY <2>1, <2>2
  <1>11. RoutesKept' /\ PairsKept'
    BY <1>1, <1>2, <1>3, <1>4, <1>6, RoutesStay, PairsStay
  <1> QED
    BY <1>1, <1>2, <1>6, <1>9, <1>10, <1>11, AnswersStay DEF ConfigIndInv

\* A list with one more at its end.
LEMMA OneMore ==
    ASSUME NEW S, NEW list \in Seq(S), NEW e \in S, NEW new, new = Append(list, e)
    PROVE  /\ new \in Seq(S) /\ Len(new) = Len(list) + 1
           /\ \A i \in 1 .. Len(list) : i \in 1 .. Len(new) /\ new[i] = list[i]
           /\ Len(new) \in 1 .. Len(new) /\ new[Len(new)] = e
           /\ \A i \in 1 .. Len(new) : i \in 1 .. Len(list) \/ i = Len(new)
  BY AppendProperties

\* AddPair keeps the invariant.
LEMMA AddPairStep ==
    ASSUME ConfigIndInv, Config!AddPair
    PROVE  ConfigIndInv'
  <1>1. /\ v6 = "reading" /\ v2 <= Len(v1) /\ Config!NewPair
        /\ v5' = Append(v5, <<v1[v2].certificate, v1[v2].key>>)
        /\ v2' = v2 + 1 /\ v1' = v1 /\ v3' = v3 /\ v4' = v4 /\ v6' = v6
        /\ v7' = v7 /\ v8' = v8
    BY DEF Config!AddPair, Config!Reading, Config!Current
  <1>2. ConfigTyped /\ Config!Acceptable(v2 - 1) /\ SettingsKept /\ RoutesKept
        /\ PairsKept /\ Ended /\ Answered
    BY DEF ConfigIndInv
  <1>3. /\ v1[v2].directive = "tls_identity" /\ Config!GoodPair(v1[v2])
        /\ \A k \in 1 .. Len(v5) : v5[k] # <<v1[v2].certificate, v1[v2].key>>
    BY <1>1 DEF Config!NewPair, Config!Current, Config!Contains
  <1>4. v1[v2].directive \notin Config!Names /\ v1[v2].directive # "route"
    BY <1>3 DEF Config!Names
  <1>5. Config!Acceptable(v2)
    <2>1. Passes(v1[v2])
      BY <1>3 DEF Passes
    <2>2. ASSUME NEW i \in Before, Clashes(v1[i], v1[v2]) PROVE FALSE
      <3>1. /\ v1[i].directive = "tls_identity"
            /\ v1[i].certificate = v1[v2].certificate /\ v1[i].key = v1[v2].key
        BY <1>3, <1>4, <2>2 DEF Clashes
      <3>2. PICK k \in 1 .. Len(v5) : PairOf(v1[i], v5[k])
        BY <1>1, <1>2, <3>1 DEF PairsKept
      <3> QED
        BY <1>3, <3>1, <3>2 DEF PairOf
    <2> QED
      BY <1>1, <1>2, <2>1, <2>2, LineMayStand
  <1>6. /\ v1' \in Seq(Config!Lines) /\ v2' \in 1 .. (Len(v1') + 1)
        /\ Config!Acceptable(v2 - 1)' /\ Before' = Before \cup {v2}
        /\ v1[v2] \in Config!Lines /\ v2 \notin Before
    BY <1>1, <1>2, <1>5, OneMoreLine
  <1>7. PICK pair \in STRING \X STRING : pair = <<v1[v2].certificate, v1[v2].key>>
    BY <1>3, <1>6, LineFields
  <1>8. /\ v5' \in Seq(STRING \X STRING)
        /\ \A i \in 1 .. Len(v5) : i \in 1 .. Len(v5') /\ v5'[i] = v5[i]
        /\ Len(v5') \in 1 .. Len(v5') /\ v5'[Len(v5')] = pair
        /\ \A i \in 1 .. Len(v5') : i \in 1 .. Len(v5) \/ i = Len(v5')
    <2>1. v5 \in Seq(STRING \X STRING) /\ v5' = Append(v5, pair)
      BY <1>1, <1>2, <1>7 DEF ConfigTyped
    <2> QED
      BY <2>1, OneMore
  <1>9. ConfigTyped'
    BY <1>1, <1>2, <1>6, <1>8 DEF ConfigTyped
  <1>10. PairsKept'
    <2>0. PairOf(v1[v2], pair)
      BY <1>3, <1>7 DEF PairOf
    <2>1. ASSUME NEW k \in 1 .. Len(v5') PROVE \E i \in Before' : PairOf(v1'[i], v5'[k])
      <3>1. CASE k \in 1 .. Len(v5)
        BY <1>1, <1>2, <1>6, <1>8, <3>1 DEF PairsKept
      <3>2. CASE k = Len(v5')
        BY <1>1, <1>6, <1>8, <2>0, <3>2
      <3> QED
        BY <1>8, <3>1, <3>2
    <2>2. ASSUME NEW i \in Before', v1'[i].directive = "tls_identity"
          PROVE  \E k \in 1 .. Len(v5') : PairOf(v1'[i], v5'[k])
      <3>1. CASE i \in Before
        <4>1. PICK k \in 1 .. Len(v5) : PairOf(v1[i], v5[k])
          BY <1>1, <1>2, <2>2, <3>1 DEF PairsKept
        <4> QED
          BY <1>1, <1>8, <4>1
      <3>2. CASE i = v2
        BY <1>1, <1>8, <2>0, <3>2
      <3> QED
        BY <1>6, <3>1, <3>2
    <2> QED
      BY <2>1, <2>2 DEF PairsKept, PairOf
  <1>11. SettingsKept' /\ RoutesKept'
    BY <1>1, <1>2, <1>4, <1>6, SettingsStay, RoutesStay
  <1> QED
    BY <1>1, <1>2, <1>6, <1>9, <1>10, <1>11, AnswersStay DEF ConfigIndInv

\* AddRoute keeps the invariant.
LEMMA AddRouteStep ==
    ASSUME ConfigIndInv, Config!AddRoute
    PROVE  ConfigIndInv'
  <1>1. /\ v6 = "reading" /\ v2 <= Len(v1) /\ Config!NewRoute
        /\ v4' = Append(v4, [hostname |-> Config!Normalized(v1[v2].hostname),
                             upstream |-> <<v1[v2].upstream, Config!Value(v1[v2].port)>>])
        /\ v2' = v2 + 1 /\ v1' = v1 /\ v3' = v3 /\ v5' = v5 /\ v6' = v6
        /\ v7' = v7 /\ v8' = v8
    BY DEF Config!AddRoute, Config!Reading, Config!Current
  <1>2. ConfigTyped /\ Config!Acceptable(v2 - 1) /\ SettingsKept /\ RoutesKept
        /\ PairsKept /\ Ended /\ Answered
    BY DEF ConfigIndInv
  <1>3. /\ v1[v2].directive = "route" /\ Config!GoodRoute(v1[v2])
        /\ \A k \in 1 .. Len(v4) : v4[k].hostname # Config!Normalized(v1[v2].hostname)
    BY <1>1 DEF Config!NewRoute, Config!Current
  <1>4. v1[v2].directive \notin Config!Names /\ v1[v2].directive # "tls_identity"
    BY <1>3 DEF Config!Names
  <1>5. Config!Acceptable(v2)
    <2>1. Passes(v1[v2])
      BY <1>3 DEF Passes
    <2>2. ASSUME NEW i \in Before, Clashes(v1[i], v1[v2]) PROVE FALSE
      <3>1. /\ v1[i].directive = "route"
            /\ Config!Normalized(v1[i].hostname) = Config!Normalized(v1[v2].hostname)
        BY <1>3, <1>4, <2>2 DEF Clashes
      <3>2. PICK k \in 1 .. Len(v4) : RouteOf(v1[i], v4[k])
        BY <1>1, <1>2, <3>1 DEF RoutesKept
      <3> QED
        BY <1>3, <3>1, <3>2 DEF RouteOf
    <2> QED
      BY <1>1, <1>2, <2>1, <2>2, LineMayStand
  <1>6. /\ v1' \in Seq(Config!Lines) /\ v2' \in 1 .. (Len(v1') + 1)
        /\ Config!Acceptable(v2 - 1)' /\ Before' = Before \cup {v2}
        /\ v1[v2] \in Config!Lines /\ v2 \notin Before
    BY <1>1, <1>2, <1>5, OneMoreLine
  <1>7. PICK route \in Routes :
          /\ route = [hostname |-> Config!Normalized(v1[v2].hostname),
                      upstream |-> <<v1[v2].upstream, Config!Value(v1[v2].port)>>]
          /\ RouteOf(v1[v2], route)
    <2>1. /\ v1[v2].hostname \in Seq(Config!Labels) /\ v1[v2].port \in Config!Text
          /\ v1[v2].upstream \in Upstreams
      BY <1>3, <1>6, LineFields DEF Upstreams
    <2>2. Config!Normalized(v1[v2].hostname) \in Seq(Config!Labels)
      BY <2>1, NameIsCut
    <2>3. Config!Value(v1[v2].port) \in Nat
      <3>1. PICK p \in Config!Text : p = v1[v2].port
        BY <2>1
      <3>2. p \in Seq(Nat)
        BY DEF Config!Text
      <3> QED
        BY <3>1, <3>2, ValueIsNumber
    <2>4. PICK h \in Seq(Config!Labels), u \in Upstreams, n \in Nat :
            /\ h = Config!Normalized(v1[v2].hostname) /\ u = v1[v2].upstream
            /\ n = Config!Value(v1[v2].port)
      BY <2>1, <2>2, <2>3
    <2>5. [hostname |-> h, upstream |-> <<u, n>>] \in Routes
      BY DEF Routes
    <2>6. RouteOf(v1[v2], [hostname |-> h, upstream |-> <<u, n>>])
      BY <1>3, <2>4 DEF RouteOf
    <2> QED
      BY <2>4, <2>5, <2>6
  <1>8. /\ v4' \in Seq(Routes)
        /\ \A i \in 1 .. Len(v4) : i \in 1 .. Len(v4') /\ v4'[i] = v4[i]
        /\ Len(v4') \in 1 .. Len(v4') /\ v4'[Len(v4')] = route
        /\ \A i \in 1 .. Len(v4') : i \in 1 .. Len(v4) \/ i = Len(v4')
    <2>1. v4 \in Seq(Routes) /\ v4' = Append(v4, route)
      BY <1>1, <1>2, <1>7 DEF ConfigTyped
    <2> QED
      BY <2>1, OneMore
  <1>9. ConfigTyped'
    BY <1>1, <1>2, <1>6, <1>8 DEF ConfigTyped
  <1>10. RoutesKept'
    <2>1. ASSUME NEW k \in 1 .. Len(v4') PROVE \E i \in Before' : RouteOf(v1'[i], v4'[k])
      <3>1. CASE k \in 1 .. Len(v4)
        BY <1>1, <1>2, <1>6, <1>8, <3>1 DEF RoutesKept
      <3>2. CASE k = Len(v4')
        BY <1>1, <1>6, <1>7, <1>8, <3>2
      <3> QED
        BY <1>8, <3>1, <3>2
    <2>2. ASSUME NEW i \in Before', v1'[i].directive = "route"
          PROVE  \E k \in 1 .. Len(v4') : RouteOf(v1'[i], v4'[k])
      <3>1. CASE i \in Before
        <4>1. PICK k \in 1 .. Len(v4) : RouteOf(v1[i], v4[k])
          BY <1>1, <1>2, <2>2, <3>1 DEF RoutesKept
        <4> QED
          BY <1>1, <1>8, <4>1
      <3>2. CASE i = v2
        BY <1>1, <1>7, <1>8, <3>2
      <3> QED
        BY <1>6, <3>1, <3>2
    <2> QED
      BY <2>1, <2>2 DEF RoutesKept, RouteOf
  <1>11. SettingsKept' /\ PairsKept'
    BY <1>1, <1>2, <1>4, <1>6, SettingsStay, PairsStay
  <1> QED
    BY <1>1, <1>2, <1>6, <1>9, <1>10, <1>11, AnswersStay DEF ConfigIndInv

\* RefuseLine names a line that could not stand there.
LEMMA RefuseLineStep ==
    ASSUME ConfigIndInv, Config!RefuseLine
    PROVE  ConfigIndInv'
  <1>1. /\ v6 = "reading" /\ v2 <= Len(v1) /\ v1[v2].directive # "blank"
        /\ ~Config!NewSetting /\ ~Config!NewPair /\ ~Config!NewRoute
        /\ v2' = v2 /\ v1' = v1 /\ v3' = v3 /\ v4' = v4 /\ v5' = v5
        /\ v6' = "refused" /\ v7' = v7 /\ v8' = v8
    BY DEF Config!RefuseLine, Config!Reading, Config!Current
  <1>2. ConfigTyped /\ Config!Acceptable(v2 - 1) /\ SettingsKept /\ RoutesKept
        /\ PairsKept /\ Ended /\ Answered
    BY DEF ConfigIndInv
  <1>3. ASSUME Config!Acceptable(v2) PROVE FALSE
    <2>1. Passes(v1[v2]) /\ \A i \in Before : ~Clashes(v1[i], v1[v2])
      BY <1>1, <1>2, <1>3, LineMayStand
    <2>2. CASE v1[v2].directive \in Config!Names /\ Config!GoodSetting(v1[v2])
      <3>1. v3[v1[v2].directive] # Config!Default
        BY <1>1, <2>2 DEF Config!NewSetting, Config!Current
      <3>2. PICK i \in Before : v1[i].directive = v1[v2].directive
        BY <1>2, <2>2, <3>1 DEF SettingsKept
      <3> QED
        BY <2>1, <2>2, <3>2 DEF Clashes
    <2>3. CASE v1[v2].directive = "tls_identity" /\ Config!GoodPair(v1[v2])
      <3>1. PICK k \in 1 .. Len(v5) : v5[k] = <<v1[v2].certificate, v1[v2].key>>
        BY <1>1, <2>3 DEF Config!NewPair, Config!Current, Config!Contains
      <3>2. PICK i \in Before : PairOf(v1[i], v5[k])
        BY <1>1, <1>2 DEF PairsKept
      <3> QED
        BY <2>1, <2>3, <3>1, <3>2 DEF PairOf, Clashes
    <2>4. CASE v1[v2].directive = "route" /\ Config!GoodRoute(v1[v2])
      <3>1. PICK k \in 1 .. Len(v4) : v4[k].hostname = Config!Normalized(v1[v2].hostname)
        BY <1>1, <2>4 DEF Config!NewRoute, Config!Current
      <3>2. PICK i \in Before : RouteOf(v1[i], v4[k])
        BY <1>1, <1>2 DEF RoutesKept
      <3> QED
        BY <2>1, <2>4, <3>1, <3>2 DEF RouteOf, Clashes
    <2> QED
      BY <1>1, <2>1, <2>2, <2>3, <2>4 DEF Passes
  <1>4. ConfigTyped'
    BY <1>1, <1>2 DEF ConfigTyped
  <1>5. Before' = Before /\ Config!Acceptable(v2 - 1)' /\ ~Config!Acceptable(v2)'
    BY <1>1, <1>2, <1>3 DEF Before, Config!Acceptable
  <1>6. SettingsKept' /\ RoutesKept' /\ PairsKept'
    <2>1. SettingsKept'
      BY <1>1, <1>2, <1>5 DEF SettingsKept, Config!Default
    <2>2. RoutesKept'
      BY <1>1, <1>2, <1>5 DEF RoutesKept, RouteOf
    <2>3. PairsKept'
      <3>1. v6 # "loaded"
        BY <1>1
      <3> QED
        BY <1>1, <1>2, <1>5, <3>1 DEF PairsKept, PairOf
    <2> QED
      BY <2>1, <2>2, <2>3
  <1>7. Ended' /\ Answered'
    BY <1>1, <1>2, <1>5 DEF Ended, Answered, Config!Nothing
  <1> QED
    BY <1>4, <1>5, <1>6, <1>7 DEF ConfigIndInv

\* Load resolves the paths of the pairs and ends the reading.
LEMMA LoadStep ==
    ASSUME ConfigIndInv, Config!Load
    PROVE  ConfigIndInv'
  <1>1. /\ v6 = "reading" /\ v2 > Len(v1)
        /\ v2' = v2 /\ v1' = v1 /\ v3' = v3 /\ v4' = v4
        /\ v6' = "loaded" /\ v7' = v7 /\ v8' = v8
    BY DEF Config!Load
  <1>2. ConfigTyped /\ Config!Acceptable(v2 - 1) /\ SettingsKept /\ RoutesKept
        /\ PairsKept /\ Ended /\ Answered
    BY DEF ConfigIndInv
  <1>4. ConfigTyped'
    BY <1>1, <1>2 DEF ConfigTyped
  <1>5. Before' = Before /\ Config!Acceptable(v2 - 1)'
    BY <1>1, <1>2 DEF Before, Config!Acceptable
  <1>6. SettingsKept'
    BY <1>1, <1>2, <1>5 DEF SettingsKept, Config!Default
  <1>7. RoutesKept' /\ PairsKept'
    BY <1>1, <1>2, <1>5 DEF RoutesKept, RouteOf, PairsKept
  <1>8. v2 = Len(v1) + 1
    BY <1>1, <1>2 DEF ConfigTyped
  <1>9. Ended' /\ Answered'
    BY <1>1, <1>2, <1>8 DEF Ended, Answered, Config!Nothing
  <1> QED
    BY <1>4, <1>5, <1>6, <1>7, <1>9 DEF ConfigIndInv

\* LookUp changes nothing that was loaded.
LEMMA LookUpStep ==
    ASSUME ConfigIndInv, NEW host \in ConfigHosts, Config!LookUp(host)
    PROVE  ConfigIndInv'
  <1>1. /\ v6 = "loaded" /\ v7' = host /\ v8' = Config!RouteForHost(host)
        /\ v2' = v2 /\ v1' = v1 /\ v3' = v3 /\ v4' = v4 /\ v5' = v5 /\ v6' = v6
    BY DEF Config!LookUp
  <1>2. ConfigTyped /\ Config!Acceptable(v2 - 1) /\ SettingsKept /\ RoutesKept
        /\ PairsKept /\ Ended /\ Answered
    BY DEF ConfigIndInv
  <1>3. ConfigTyped'
    BY <1>1, <1>2 DEF ConfigTyped
  <1>4. Before' = Before /\ Config!Acceptable(v2 - 1)'
    BY <1>1, <1>2 DEF Before, Config!Acceptable
  <1>5. SettingsKept'
    BY <1>1, <1>2, <1>4 DEF SettingsKept, Config!Default
  <1>6. RoutesKept' /\ PairsKept'
    BY <1>1, <1>2, <1>4 DEF RoutesKept, RouteOf, PairsKept
  <1>7. Ended'
    BY <1>1, <1>2 DEF Ended
  <1>8. Answered'
    BY <1>1 DEF Answered, Config!RouteForHost
  <1> QED
    BY <1>3, <1>4, <1>5, <1>6, <1>7, <1>8 DEF ConfigIndInv

\* Nothing has been read yet.
LEMMA ConfigInitHolds ==
    ASSUME Config!Init
    PROVE  ConfigIndInv
  <1>1. v1 \in Seq(Config!Lines) /\ Len(v1) \in Nat
    BY ConfigAssumptions DEF Config!Init, Config!Assumptions
  <1>2. /\ v2 = 1 /\ v4 = <<>> /\ v5 = <<>> /\ v6 = "reading" /\ v7 = Config!Nothing
        /\ v3 = [s \in Config!Names |-> <<>>]
    BY DEF Config!Init, Config!Default
  <1>3. <<>> \in Seq(Routes) /\ <<>> \in Seq(STRING \X STRING) /\ <<>> \in Config!Text
    BY EmptySeq DEF Config!Text
  <1>4. ConfigTyped
    <2>1. v3 \in [Config!Names -> Config!Text]
      BY <1>2, <1>3
    <2>2. v2 \in 1 .. (Len(v1) + 1)
      BY <1>1, <1>2
    <2> QED
      BY <1>1, <1>2, <1>3, <2>1, <2>2 DEF ConfigTyped
  <1>5. Before = {} /\ 1 .. (v2 - 1) = {}
    BY <1>2 DEF Before
  <1>6. Config!Acceptable(v2 - 1)
    BY <1>5 DEF Config!Acceptable
  <1>7. SettingsKept
    BY <1>2, <1>5 DEF SettingsKept, Config!Default
  <1>8. RoutesKept /\ PairsKept
    <2>1. 1 .. Len(v4) = {} /\ 1 .. Len(v5) = {}
      BY <1>2
    <2> QED
      BY <1>5, <2>1 DEF RoutesKept, PairsKept
  <1>9. Ended /\ Answered
    BY <1>2 DEF Ended, Answered
  <1> QED
    BY <1>4, <1>6, <1>7, <1>8, <1>9 DEF ConfigIndInv

ConfigInv == part = "config" => ConfigIndInv

\* Every behaviour of the configuration's part keeps it.
LEMMA ConfigInvHolds == Spec => []ConfigInv
  <1>1. Init => ConfigInv
    BY ConfigInitHolds DEF Init, ConfigInv
  <1>2. ConfigInv /\ [Next]_all => ConfigInv'
    <2> SUFFICES ASSUME ConfigInv, [Next]_all, part' = "config" PROVE ConfigIndInv'
      BY DEF ConfigInv
    <2>1. part = "config" /\ ConfigIndInv
      BY DEF ConfigInv, Next, all
    <2>2. Config!Next \/ UNCHANGED <<v1, v2, v3, v4, v5, v6, v7, v8>>
      BY <2>1 DEF Next, Step, all
    <2>3. CASE UNCHANGED <<v1, v2, v3, v4, v5, v6, v7, v8>>
      <3>1. /\ v1' = v1 /\ v2' = v2 /\ v3' = v3 /\ v4' = v4 /\ v5' = v5
            /\ v6' = v6 /\ v7' = v7 /\ v8' = v8
        BY <2>3
      <3> QED
        <4>1. ConfigTyped' /\ Before' = Before /\ Config!Acceptable(v2 - 1)'
          BY <2>1, <3>1 DEF ConfigIndInv, ConfigTyped, Before, Config!Acceptable
        <4>2. SettingsKept'
          BY <2>1, <3>1, <4>1 DEF ConfigIndInv, SettingsKept, Config!Default
        <4>3. RoutesKept'
          BY <2>1, <3>1, <4>1 DEF ConfigIndInv, RoutesKept, RouteOf
        <4>4. PairsKept'
          BY <2>1, <3>1, <4>1 DEF ConfigIndInv, PairsKept, PairOf
        <4>5. Ended'
          BY <2>1, <3>1 DEF ConfigIndInv, Ended, Config!Acceptable
        <4>6. Answered'
          BY <2>1, <3>1 DEF ConfigIndInv, Answered, Config!RouteForHost, Config!Nothing
        <4> QED
          BY <4>1, <4>2, <4>3, <4>4, <4>5, <4>6 DEF ConfigIndInv
    <2> QED
      BY <2>1, <2>2, <2>3, SkipLineStep, SetSettingStep, AddPairStep, AddRouteStep,
         RefuseLineStep, LoadStep, LookUpStep DEF Config!Next
  <1> QED
    BY <1>1, <1>2, PTL DEF Spec

\* The loaded settings are those of the file.
LEMMA SettingsAsSaid ==
    ASSUME ConfigIndInv
    PROVE  Config!LoadsWhatTheFileSays
  <1> SUFFICES ASSUME v6 = "loaded", NEW s \in Config!Names
               PROVE  LET lines == {i \in 1 .. Len(v1) : v1[i].directive = s}
                      IN IF lines = {} THEN v3[s] = Config!Default
                         ELSE \A i \in lines : v3[s] = v1[i].value
    BY DEF Config!LoadsWhatTheFileSays
  <1>1. Len(v1) \in Nat /\ v2 = Len(v1) + 1 /\ v2 - 1 = Len(v1)
    BY DEF ConfigIndInv, ConfigTyped, Ended
  <1>2. Before = 1 .. Len(v1)
    BY <1>1 DEF Before
  <1>3. IF v3[s] = Config!Default THEN \A i \in Before : v1[i].directive # s
        ELSE \E i \in Before : v1[i].directive = s /\ v1[i].value = v3[s]
    BY DEF ConfigIndInv, SettingsKept
  <1>4. ASSUME NEW i \in Before, NEW j \in Before,
               v1[i].directive = s, v1[j].directive = s
        PROVE  i = j
    <2>1. Config!Conflict(v1[i], v1[j])
      BY <1>4 DEF Config!Conflict
    <2> QED
      BY <2>1 DEF ConfigIndInv, Config!Acceptable, Before
  <1> QED
    BY <1>2, <1>3, <1>4

\* The line named by the error is the first bad one.
LEMMA FirstBadLine ==
    ASSUME ConfigIndInv
    PROVE  Config!RefusesTheFirstBadLine
  <1>1. v6 \in {"reading", "loaded", "refused"}
    BY DEF ConfigIndInv, ConfigTyped
  <1>2. v6 = "loaded" => v2 - 1 = Len(v1)
    <2>1. Len(v1) \in Nat
      BY DEF ConfigIndInv, ConfigTyped
    <2> QED
      BY <2>1 DEF ConfigIndInv, Ended
  <1>3. v6 = "loaded" => Config!Acceptable(Len(v1))
    BY <1>2 DEF ConfigIndInv
  <1>4. v6 = "refused" => Config!Acceptable(v2 - 1) /\ ~Config!Acceptable(v2)
    BY DEF ConfigIndInv, Ended
  <1> QED
    BY <1>1, <1>3, <1>4 DEF Config!RefusesTheFirstBadLine

\* A host finds the route of its name.
LEMMA HostsByName ==
    ASSUME ConfigIndInv
    PROVE  Config!RoutesByName
  <1> DEFINE lines == {i \in 1 .. Len(v1) :
                         v1[i].directive = "route"
                         /\ Config!SameName(v1[i].hostname, v7.name)}
             matching == {k \in 1 .. Len(v4) :
                            v4[k].hostname = Config!Normalized(v7.name)}
  <1> SUFFICES ASSUME v6 = "loaded", v7 # Config!Nothing
               PROVE  IF v8 = Config!BadHost THEN ~Config!GoodRequestHost(v7)
                      ELSE IF lines = {} THEN v8 = Config!NoRoute
                      ELSE \A i \in lines : v8 = <<v1[i].upstream, Config!Value(v1[i].port)>>
    BY Zenon DEF Config!RoutesByName
  <1>1. /\ ConfigTyped /\ RoutesKept /\ Config!Acceptable(v2 - 1)
        /\ v7 \in ConfigHosts /\ v8 = Config!RouteForHost(v7)
        /\ Len(v1) \in Nat /\ v2 = Len(v1) + 1 /\ v2 - 1 = Len(v1)
    BY DEF ConfigIndInv, ConfigTyped, Ended, Answered
  <1>2. Before = 1 .. Len(v1)
    BY <1>1 DEF Before
  <1>3. v7.name \in Seq(Config!Labels)
    BY <1>1, ConfigAssumptions DEF Config!Assumptions
  <1>4. v8 = IF ~Config!GoodRequestHost(v7) THEN Config!BadHost
             ELSE IF matching = {} THEN Config!NoRoute
             ELSE v4[Config!Min(matching)].upstream
    BY <1>1, Zenon DEF Config!RouteForHost
  <1>5. \A i \in 1 .. Len(v1) : v1[i] \in Config!Lines
    BY <1>1 DEF ConfigTyped
  <1>6. \A i \in lines : Config!Normalized(v1[i].hostname) = Config!Normalized(v7.name)
    BY <1>3, <1>5, LineFields, SameNormalized
  <1>7. \A i \in 1 .. Len(v1) :
           (v1[i].directive = "route"
              /\ Config!Normalized(v1[i].hostname) = Config!Normalized(v7.name))
             => i \in lines
    BY <1>3, <1>5, LineFields, SameNormalized
  <1>8. ASSUME NEW k \in matching PROVE \E i \in lines : RouteOf(v1[i], v4[k])
    <2>1. PICK i \in Before : RouteOf(v1[i], v4[k])
      BY <1>1 DEF RoutesKept
    <2>2. i \in lines
      BY <1>2, <1>7, <2>1 DEF RouteOf
    <2> QED
      BY <2>1, <2>2
  <1>9. ASSUME NEW i \in lines PROVE \E k \in matching : RouteOf(v1[i], v4[k])
    <2>1. PICK k \in 1 .. Len(v4) : RouteOf(v1[i], v4[k])
      BY <1>1, <1>2 DEF RoutesKept
    <2>2. k \in matching
      BY <1>6, <2>1 DEF RouteOf
    <2> QED
      BY <2>1, <2>2
  <1>10. ASSUME NEW i \in lines, NEW j \in lines PROVE i = j
    <2>1. Config!Conflict(v1[i], v1[j])
      <3>1. Clashes(v1[i], v1[j])
        BY <1>6 DEF Clashes
      <3> QED
        BY <1>5, <3>1, ClashesMeans
    <2> QED
      BY <1>1, <2>1 DEF Config!Acceptable
  <1>11. \A k \in matching : v4[k].upstream \in Upstreams \X Nat
    <2>1. \A k \in matching : v4[k] \in Routes
      BY <1>1 DEF ConfigTyped
    <2> QED
      BY <2>1 DEF Routes
  <1>12. ASSUME NEW u \in Upstreams \X Nat PROVE u # Config!BadHost
    <2>1. PICK a \in Upstreams, n \in Nat : u = <<a, n>>
      OBVIOUS
    <2>2. Len(<<a, n>>) = 2 /\ Len(Config!BadHost) = 1
      BY DEF Config!BadHost
    <2> QED
      BY <2>1, <2>2
  <1>13. Config!BadHost # Config!NoRoute
    BY DEF Config!BadHost, Config!NoRoute
  <1>14. matching # {} => Config!Min(matching) \in matching
    <2> SUFFICES ASSUME matching # {} PROVE Config!Min(matching) \in matching
      OBVIOUS
    <2>1. matching \in SUBSET Nat
      OBVIOUS
    <2> HIDE DEF matching
    <2>2. \E x \in matching : \A y \in matching : x <= y
      BY <2>1, LeastExists
    <2> QED
      BY <2>2, Zenon DEF Config!Min
  <1> HIDE DEF lines, matching
  <1>15. CASE ~Config!GoodRequestHost(v7)
    BY <1>4, <1>15
  <1>16. CASE Config!GoodRequestHost(v7) /\ matching = {}
    <2>1. lines = {}
      BY <1>9, <1>16
    <2> QED
      BY <1>4, <1>13, <1>16, <2>1
  <1>17. CASE Config!GoodRequestHost(v7) /\ matching # {}
    <2>1. PICK k \in matching : v8 = v4[k].upstream
      BY <1>4, <1>14, <1>17
    <2>2. PICK i \in lines : RouteOf(v1[i], v4[k])
      BY <1>8
    <2>3. v8 # Config!BadHost
      BY <1>11, <1>12, <2>1
    <2>4. v8 = <<v1[i].upstream, Config!Value(v1[i].port)>>
      BY <2>1, <2>2 DEF RouteOf
    <2> QED
      BY <1>10, <2>2, <2>3, <2>4
  <1> QED
    BY <1>15, <1>16, <1>17

-----------------------------------------------------------------------------
(* Names of TLS identities.                                                *)

\* What a certificate may present, and what a client may ask for.
DnsNames == Seq(STRING \ {Identities!Empty}) \ {<<>>}

Asked == STRING \cup {"*"}

\* Lower changes neither a wildcard nor an empty label.
LEMMA LowerKeeps ==
    ASSUME NEW label
    PROVE  /\ Identities!Lower(label) = "*" <=> label = "*"
           /\ Identities!Lower(label) = Identities!Empty <=> label = Identities!Empty
  <1>1. Identities!Empty \notin {"a", "b", "A", "B", "*"}
    BY Zenon DEF Identities!Empty
  <1> QED
    BY <1>1 DEF Identities!Lower

\* Normalized names are compared label by label.
LEMMA NormalizedEqual ==
    ASSUME NEW n, NEW k, Len(n) \in Nat, Len(k) \in Nat
    PROVE  Identities!Normalized(n) = Identities!Normalized(k) <=>
             /\ Len(n) = Len(k)
             /\ \A i \in 1 .. Len(n) : Identities!Lower(n[i]) = Identities!Lower(k[i])
  <1>1. PICK a, b : a = Identities!Normalized(n) /\ b = Identities!Normalized(k)
    OBVIOUS
  <1>2. /\ DOMAIN a = 1 .. Len(n) /\ \A i \in 1 .. Len(n) : a[i] = Identities!Lower(n[i])
        /\ DOMAIN b = 1 .. Len(k) /\ \A i \in 1 .. Len(k) : b[i] = Identities!Lower(k[i])
    BY <1>1 DEF Identities!Normalized
  <1>3. ASSUME a = b
        PROVE  /\ Len(n) = Len(k)
               /\ \A i \in 1 .. Len(n) : Identities!Lower(n[i]) = Identities!Lower(k[i])
    <2>1. 1 .. Len(n) = 1 .. Len(k)
      BY <1>2, <1>3
    <2>2. PICK t \in Nat, u \in Nat : t = Len(n) /\ u = Len(k)
      OBVIOUS
    <2>3. t = u
      <3>1. (t \in 1 .. t <=> t \in 1 .. u) /\ (u \in 1 .. t <=> u \in 1 .. u)
        BY <2>1, <2>2
      <3> QED
        BY <3>1
    <2> QED
      BY <1>2, <1>3, <2>2, <2>3
  <1>4. ASSUME Len(n) = Len(k),
               \A i \in 1 .. Len(n) : Identities!Lower(n[i]) = Identities!Lower(k[i])
        PROVE  a = b
    BY <1>1, <1>4 DEF Identities!Normalized
  <1> QED
    BY <1>1, <1>3, <1>4

\* The wildcard just above a name.
Above(server) == <<"*">> \o Tail(server)

\* What it consists of.
LEMMA AboveIs ==
    ASSUME NEW server \in Seq(Asked), Len(server) > 1
    PROVE  /\ Above(server) \in Seq(Asked) /\ Len(Above(server)) = Len(server)
           /\ Above(server)[1] = "*"
           /\ \A i \in 2 .. Len(server) : Above(server)[i] = server[i]
           /\ Tail(server) \in Seq(Asked) /\ Len(Tail(server)) = Len(server) - 1
           /\ \A i \in 1 .. Len(server) - 1 : Tail(server)[i] = server[i + 1]
  <1>1. server # <<>> /\ Len(server) \in Nat
    OBVIOUS
  <1>2. PICK t \in Seq(Asked) :
          /\ t = Tail(server) /\ Len(t) = Len(server) - 1
          /\ \A i \in 1 .. Len(t) : t[i] = server[i + 1]
    BY <1>1, HeadTailProperties
  <1>3. PICK star \in Seq(Asked) : star = <<"*">> /\ Len(star) = 1 /\ star[1] = "*"
    <2>1. PICK e \in Asked : e = "*"
      BY DEF Asked
    <2>2. <<e>> \in Seq(Asked) /\ Len(<<e>>) = 1 /\ <<e>>[1] = e
      OBVIOUS
    <2> QED
      BY <2>1, <2>2
  <1>4. PICK w : w = star \o t
    OBVIOUS
  <1>5. /\ w \in Seq(Asked) /\ Len(w) = 1 + (Len(server) - 1)
        /\ \A i \in 1 .. Len(server) : w[i] = IF i <= 1 THEN star[i] ELSE t[i - 1]
    <2>1. /\ w \in Seq(Asked) /\ Len(w) = Len(star) + Len(t)
          /\ \A i \in 1 .. Len(star) + Len(t) :
                w[i] = IF i <= Len(star) THEN star[i] ELSE t[i - Len(star)]
      BY <1>4, ConcatProperties
    <2>2. Len(star) + Len(t) = Len(server)
      BY <1>1, <1>2, <1>3
    <2> QED
      BY <1>1, <1>2, <1>3, <2>1, <2>2
  <1>6. w[1] = "*"
    <2>1. 1 \in 1 .. Len(server)
      BY <1>1
    <2> QED
      BY <1>3, <1>5, <2>1
  <1>7. \A i \in 2 .. Len(server) : w[i] = server[i]
    <2> SUFFICES ASSUME NEW i \in 2 .. Len(server) PROVE w[i] = server[i]
      OBVIOUS
    <2>1. /\ i \in 1 .. Len(server) /\ ~(i <= 1) /\ i - 1 \in 1 .. Len(t)
          /\ (i - 1) + 1 = i
      BY <1>1, <1>2
    <2> QED
      BY <1>2, <1>5, <2>1
  <1>8. w = Above(server)
    BY <1>2, <1>3, <1>4 DEF Above
  <1> QED
    BY <1>1, <1>2, <1>5, <1>6, <1>7, <1>8

\* dns_name_matches, as two names that may be presented.
LEMMA MatchesMeans ==
    ASSUME NEW n \in DnsNames, NEW server \in Seq(Asked)
    PROVE  Identities!DnsNameMatches(n, server) <=>
             /\ server # <<>> /\ Identities!Last(server) # Identities!Empty
             /\ \/ Identities!Normalized(n) = Identities!Normalized(server)
                \/ /\ Len(server) > 1 /\ server[1] # Identities!Empty
                   /\ Identities!Normalized(n) = Identities!Normalized(Above(server))
  <1>1. Len(n) \in Nat /\ Len(server) \in Nat
    BY DEF DnsNames
  <1>2. ASSUME Len(server) > 1
        PROVE  (Identities!IsWildcard(n)
                  /\ Identities!Normalized(Tail(server)) = Identities!Normalized(Tail(n)))
               <=> Identities!Normalized(n) = Identities!Normalized(Above(server))
    <2>1. /\ Len(Above(server)) = Len(server) /\ Above(server)[1] = "*"
          /\ \A i \in 2 .. Len(server) : Above(server)[i] = server[i]
          /\ Len(Tail(server)) = Len(server) - 1
          /\ \A i \in 1 .. Len(server) - 1 : Tail(server)[i] = server[i + 1]
      BY <1>2, AboveIs
    <2>2. Identities!Normalized(n) = Identities!Normalized(Above(server)) <=>
            /\ Len(n) = Len(server)
            /\ \A i \in 1 .. Len(n) :
                  Identities!Lower(n[i]) = Identities!Lower(Above(server)[i])
      BY <1>1, <2>1, NormalizedEqual
    <2>3. Len(Tail(n)) = Len(n) - 1 /\ \A i \in 1 .. Len(n) - 1 : Tail(n)[i] = n[i + 1]
      <3>1. n \in Seq(STRING \ {Identities!Empty}) /\ n # <<>>
        BY DEF DnsNames
      <3>2. Len(Tail(n)) = Len(n) - 1 /\ \A i \in 1 .. Len(Tail(n)) : Tail(n)[i] = n[i + 1]
        BY <3>1, HeadTailProperties
      <3> QED
        BY <1>1, <3>2
    <2>4. Len(n) # 0
      <3>1. n \in Seq(STRING \ {Identities!Empty}) /\ n # <<>>
        BY DEF DnsNames
      <3> QED
        BY <3>1, EmptySeq
    <2>5. Identities!Normalized(Tail(server)) = Identities!Normalized(Tail(n)) <=>
            /\ Len(server) - 1 = Len(n) - 1
            /\ \A i \in 1 .. Len(server) - 1 :
                  Identities!Lower(server[i + 1]) = Identities!Lower(n[i + 1])
      <3>1. Len(Tail(server)) \in Nat /\ Len(Tail(n)) \in Nat
        BY <1>1, <1>2, <2>1, <2>3, <2>4
      <3>2. Identities!Normalized(Tail(server)) = Identities!Normalized(Tail(n)) <=>
              /\ Len(Tail(server)) = Len(Tail(n))
              /\ \A i \in 1 .. Len(Tail(server)) :
                    Identities!Lower(Tail(server)[i]) = Identities!Lower(Tail(n)[i])
        BY <3>1, NormalizedEqual
      <3>3. ASSUME Len(Tail(server)) = Len(Tail(n)), NEW i \in 1 .. Len(server) - 1
            PROVE  Tail(server)[i] = server[i + 1] /\ Tail(n)[i] = n[i + 1]
        <4>1. Len(server) - 1 = Len(n) - 1
          BY <2>1, <2>3, <3>3
        <4> QED
          BY <2>1, <2>3, <4>1
      <3> QED
        BY <2>1, <2>3, <3>2, <3>3
    <2>6. ASSUME Len(n) = Len(server)
          PROVE  (\A i \in 1 .. Len(n) :
                    Identities!Lower(n[i]) = Identities!Lower(Above(server)[i]))
                 <=> /\ n[1] = "*"
                     /\ \A i \in 1 .. Len(server) - 1 :
                          Identities!Lower(server[i + 1]) = Identities!Lower(n[i + 1])
      <3>1. ASSUME \A i \in 1 .. Len(n) :
                     Identities!Lower(n[i]) = Identities!Lower(Above(server)[i])
            PROVE  /\ n[1] = "*"
                   /\ \A i \in 1 .. Len(server) - 1 :
                        Identities!Lower(server[i + 1]) = Identities!Lower(n[i + 1])
        <4>1. 1 \in 1 .. Len(n)
          BY <1>1, <1>2, <2>6
        <4>2. Identities!Lower(n[1]) = Identities!Lower("*")
          BY <2>1, <3>1, <4>1
        <4>3. n[1] = "*"
          BY <4>2, LowerKeeps
        <4>4. ASSUME NEW i \in 1 .. Len(server) - 1
              PROVE  Identities!Lower(server[i + 1]) = Identities!Lower(n[i + 1])
          <5>1. i + 1 \in 1 .. Len(n) /\ i + 1 \in 2 .. Len(server)
            BY <1>1, <2>6
          <5> QED
            BY <2>1, <3>1, <5>1
        <4> QED
          BY <4>3, <4>4
      <3>2. ASSUME n[1] = "*",
                   \A i \in 1 .. Len(server) - 1 :
                     Identities!Lower(server[i + 1]) = Identities!Lower(n[i + 1]),
                   NEW i \in 1 .. Len(n)
            PROVE  Identities!Lower(n[i]) = Identities!Lower(Above(server)[i])
        <4>1. CASE i = 1
          BY <2>1, <3>2, <4>1
        <4>2. CASE i # 1
          <5>1. i - 1 \in 1 .. Len(server) - 1 /\ (i - 1) + 1 = i /\ i \in 2 .. Len(server)
            BY <1>1, <2>6, <4>2
          <5>2. Identities!Lower(server[(i - 1) + 1]) = Identities!Lower(n[(i - 1) + 1])
            BY <3>2, <5>1
          <5> QED
            BY <2>1, <5>1, <5>2
        <4> QED
          BY <4>1, <4>2
      <3> QED
        BY <3>1, <3>2
    <2>7. Len(server) - 1 = Len(n) - 1 <=> Len(n) = Len(server)
      BY <1>1
    <2>8. Identities!IsWildcard(n) <=> Len(n) > 1 /\ n[1] = "*"
      BY Zenon DEF Identities!IsWildcard
    <2>9. Len(n) = Len(server) => Len(n) > 1
      BY <1>2
    <2> QED
      BY <2>2, <2>5, <2>6, <2>7, <2>8, <2>9
  <1> QED
    BY <1>2, Zenon DEF Identities!DnsNameMatches, Identities!NoName

-----------------------------------------------------------------------------
(* Choosing an identity.                                                   *)

Presents(names, name) ==
    \E k \in 1 .. Len(names) :
        Identities!Normalized(names[k]) = Identities!Normalized(name)

Presenters(list, name) == {i \in 1 .. Len(list) : Presents(list[i], name)}

\* No name is presented twice, within one certificate or by two.
Distinct(list) ==
    \A i, j \in 1 .. Len(list) :
        \A k \in 1 .. Len(list[i]), l \in 1 .. Len(list[j]) :
            Identities!Normalized(list[i][k]) = Identities!Normalized(list[j][l])
               => i = j /\ k = l

Lists == Seq(Seq(DnsNames))

Unanswerable(server) ==
    server = <<>> \/ Identities!Last(server) = Identities!Empty

Wildcards(list, server) ==
    IF Len(server) > 1 /\ server[1] # Identities!Empty
    THEN Presenters(list, Above(server)) ELSE {}

Claimants(list, server) ==
    IF Unanswerable(server) THEN {}
    ELSE IF Presenters(list, server) # {} THEN Presenters(list, server)
    ELSE Wildcards(list, server)

Exact(list, server) ==
    {i \in 1 .. Len(list) : Identities!MatchesServerNameExactly(list[i], server)}

Matching(list, server) ==
    {i \in 1 .. Len(list) : Identities!MatchesServerName(list[i], server)}

\* The names of a list.
LEMMA ListedNames ==
    ASSUME NEW list \in Lists, NEW i \in 1 .. Len(list)
    PROVE  /\ list[i] \in Seq(DnsNames) /\ Len(list[i]) \in Nat
           /\ \A k \in 1 .. Len(list[i]) : list[i][k] \in DnsNames
  <1>1. list[i] \in Seq(DnsNames)
    BY DEF Lists
  <1> QED
    BY <1>1

\* A name in a certificate is a sequence of labels, none of them empty.
LEMMA NamesHaveLabels ==
    ASSUME NEW n \in DnsNames
    PROVE  /\ Len(n) \in Nat /\ Len(n) # 0
           /\ \A k \in 1 .. Len(n) : n[k] # Identities!Empty
  <1>1. n \in Seq(STRING \ {Identities!Empty}) /\ n # <<>>
    BY DEF DnsNames
  <1>2. Len(n) \in Nat /\ \A k \in 1 .. Len(n) : n[k] \in STRING \ {Identities!Empty}
    BY <1>1
  <1> QED
    BY <1>1, <1>2, EmptySeq

\* Without duplicates, at most one identity presents a name.
LEMMA OnePresenter ==
    ASSUME NEW list, Distinct(list), NEW name,
           NEW i \in Presenters(list, name), NEW j \in Presenters(list, name)
    PROVE  i = j
  BY DEF Distinct, Presenters, Presents

\* What matches a server name: the name itself and the wildcard above it.
LEMMA MatchingIs ==
    ASSUME NEW list \in Lists, NEW server \in Seq(Asked)
    PROVE  Matching(list, server) =
             IF Unanswerable(server) THEN {}
             ELSE Presenters(list, server) \cup Wildcards(list, server)
  <1> DEFINE Wild == Len(server) > 1 /\ server[1] # Identities!Empty
  <1>1. ASSUME NEW i \in 1 .. Len(list)
        PROVE  Identities!MatchesServerName(list[i], server) <=>
                 /\ ~Unanswerable(server)
                 /\ \/ Presents(list[i], server)
                    \/ Wild /\ Presents(list[i], Above(server))
    <2>1. ASSUME NEW k \in 1 .. Len(list[i])
          PROVE  Identities!DnsNameMatches(list[i][k], server) <=>
                   /\ ~Unanswerable(server)
                   /\ \/ Identities!Normalized(list[i][k]) = Identities!Normalized(server)
                      \/ /\ Wild
                         /\ Identities!Normalized(list[i][k])
                              = Identities!Normalized(Above(server))
      <3>1. list[i][k] \in DnsNames
        BY ListedNames
      <3>2. PICK n \in DnsNames : n = list[i][k]
        BY <3>1
      <3> QED
        BY <3>2, MatchesMeans, Zenon DEF Unanswerable
    <2> HIDE DEF Wild
    <2> QED
      BY <2>1, Zenon DEF Identities!MatchesServerName, Presents
  <1>2. Wildcards(list, server) =
          {i \in 1 .. Len(list) : Wild /\ Presents(list[i], Above(server))}
    BY DEF Wildcards, Presenters
  <1> HIDE DEF Wild
  <1> QED
    BY <1>1, <1>2 DEF Matching, Presenters

\* An exact match presents the name, and is none for a name without answer.
LEMMA ExactIs ==
    ASSUME NEW list \in Lists, NEW server \in Seq(Asked)
    PROVE  /\ Exact(list, server) \subseteq Presenters(list, server)
           /\ Unanswerable(server) => Presenters(list, server) = {}
  <1>1. Exact(list, server) \subseteq Presenters(list, server)
    BY Zenon DEF Exact, Presenters, Presents, Identities!MatchesServerNameExactly
  <1>2. ASSUME Unanswerable(server), NEW i \in Presenters(list, server)
        PROVE  FALSE
    <2>1. i \in 1 .. Len(list) /\ Presents(list[i], server)
      BY <1>2 DEF Presenters
    <2>2. PICK k \in 1 .. Len(list[i]) :
            Identities!Normalized(list[i][k]) = Identities!Normalized(server)
      BY <2>1 DEF Presents
    <2>3. PICK n \in DnsNames : n = list[i][k]
      BY <2>1, ListedNames
    <2>4. Len(server) \in Nat /\ Len(n) \in Nat /\ Len(n) # 0
          /\ \A x \in 1 .. Len(n) : n[x] # Identities!Empty
      BY NamesHaveLabels
    <2>5. /\ Len(n) = Len(server)
          /\ \A x \in 1 .. Len(n) : Identities!Lower(n[x]) = Identities!Lower(server[x])
      BY <2>2, <2>3, <2>4, NormalizedEqual
    <2>6. Len(n) \in 1 .. Len(n)
      BY <2>4
    <2>7. server # <<>>
      BY <2>4, <2>5, EmptySeq
    <2>8. server[Len(server)] = Identities!Empty
      BY <1>2, <2>7 DEF Unanswerable, Identities!Last
    <2>9. Identities!Lower(n[Len(n)]) = Identities!Lower(server[Len(server)])
      BY <2>5, <2>6
    <2>10. n[Len(n)] = Identities!Empty
      BY <2>8, <2>9, LowerKeeps
    <2> QED
      BY <2>4, <2>6, <2>10
  <1> QED
    BY <1>1, <1>2

\* A wildcard that is asked for by itself is its own wildcard.
LEMMA WildcardAsked ==
    ASSUME NEW n \in DnsNames, NEW server \in Seq(Asked), Identities!IsWildcard(n),
           Identities!Normalized(n) = Identities!Normalized(server)
    PROVE  /\ Len(server) > 1 /\ server[1] # Identities!Empty
           /\ Identities!Normalized(Above(server)) = Identities!Normalized(server)
  <1>1. Len(n) \in Nat /\ Len(server) \in Nat
    BY NamesHaveLabels
  <1>2. /\ Len(n) = Len(server)
        /\ \A x \in 1 .. Len(n) : Identities!Lower(n[x]) = Identities!Lower(server[x])
    BY <1>1, NormalizedEqual
  <1>3. Len(n) > 1 /\ n[1] = "*"
    BY DEF Identities!IsWildcard
  <1>4. 1 \in 1 .. Len(n) /\ Len(server) > 1
    BY <1>1, <1>2, <1>3
  <1>5. server[1] = "*"
    <2>1. Identities!Lower(server[1]) = Identities!Lower("*")
      BY <1>2, <1>3, <1>4
    <2> QED
      BY <2>1, LowerKeeps
  <1>6. "*" # Identities!Empty
    BY Zenon DEF Identities!Empty
  <1>7. /\ Len(Above(server)) = Len(server) /\ Above(server)[1] = "*"
        /\ \A i \in 2 .. Len(server) : Above(server)[i] = server[i]
    BY <1>4, AboveIs
  <1>8. \A i \in 1 .. Len(server) : Above(server)[i] = server[i]
    <2>1. \A i \in 1 .. Len(server) : i = 1 \/ i \in 2 .. Len(server)
      BY <1>1
    <2> QED
      BY <1>5, <1>7, <2>1
  <1>9. Identities!Normalized(Above(server)) = Identities!Normalized(server)
    <2>1. Len(Above(server)) \in Nat
      BY <1>1, <1>7
    <2> QED
      BY <1>1, <1>7, <1>8, <2>1, NormalizedEqual
  <1> QED
    BY <1>4, <1>5, <1>6, <1>9

\* Without duplicates select() is the first claimant.
LEMMA SelectIs ==
    ASSUME NEW list \in Lists, Distinct(list), NEW server \in Seq(Asked)
    PROVE  Identities!Select(list, server) = Identities!First(Claimants(list, server))
  <1>1. Identities!Select(list, server) =
          IF Exact(list, server) # {} THEN Identities!First(Exact(list, server))
          ELSE Identities!First(Matching(list, server))
    BY Zenon DEF Identities!Select, Exact, Matching
  <1>2. /\ Exact(list, server) \subseteq Presenters(list, server)
        /\ Unanswerable(server) => Presenters(list, server) = {}
    BY ExactIs
  <1>3. Matching(list, server) =
          IF Unanswerable(server) THEN {}
          ELSE Presenters(list, server) \cup Wildcards(list, server)
    BY MatchingIs
  <1>4. CASE Unanswerable(server)
    BY <1>1, <1>2, <1>3, <1>4 DEF Claimants
  <1>5. CASE ~Unanswerable(server) /\ Exact(list, server) # {}
    <2>1. Exact(list, server) = Presenters(list, server)
      <3>1. \A i, j \in Presenters(list, server) : i = j
        BY OnePresenter
      <3> QED
        BY <1>2, <1>5, <3>1
    <2> QED
      BY <1>1, <1>5, <2>1 DEF Claimants
  <1>6. CASE ~Unanswerable(server) /\ Exact(list, server) = {} /\ Presenters(list, server) = {}
    BY <1>1, <1>3, <1>6 DEF Claimants
  <1>7. CASE ~Unanswerable(server) /\ Exact(list, server) = {} /\ Presenters(list, server) # {}
    <2>0. PICK i \in 1 .. Len(list) : Presents(list[i], server)
      BY <1>7 DEF Presenters
    <2>1. PICK k \in 1 .. Len(list[i]) :
            Identities!Normalized(list[i][k]) = Identities!Normalized(server)
      BY <2>0 DEF Presents
    <2>2. PICK n \in DnsNames : n = list[i][k]
      BY ListedNames
    <2>3. Identities!IsWildcard(n)
      <3>1. ~Identities!MatchesServerNameExactly(list[i], server)
        BY <1>7 DEF Exact
      <3> QED
        BY <2>1, <2>2, <3>1, Zenon DEF Identities!MatchesServerNameExactly
    <2>4. /\ Len(server) > 1 /\ server[1] # Identities!Empty
          /\ Identities!Normalized(Above(server)) = Identities!Normalized(server)
      BY <2>1, <2>2, <2>3, WildcardAsked
    <2>5. Wildcards(list, server) = Presenters(list, server)
      BY <2>4 DEF Wildcards, Presenters, Presents
    <2> QED
      BY <1>1, <1>3, <1>7, <2>5 DEF Claimants
  <1> QED
    BY <1>4, <1>5, <1>6, <1>7

\* No two identities claim one server name.
LEMMA OneClaimant ==
    ASSUME NEW list, Distinct(list), NEW server
    PROVE  /\ Claimants(list, server) \subseteq 1 .. Len(list)
           /\ \A i, j \in Claimants(list, server) : i = j
  <1>1. \A name : /\ Presenters(list, name) \subseteq 1 .. Len(list)
                  /\ \A i, j \in Presenters(list, name) : i = j
    <2>1. \A name : Presenters(list, name) \subseteq 1 .. Len(list)
      BY DEF Presenters
    <2> QED
      BY <2>1, OnePresenter
  <1> QED
    BY <1>1 DEF Claimants, Wildcards

\* find() on what holds one place at most.
LEMMA FirstIs ==
    ASSUME NEW S \in SUBSET Nat, \A i, j \in S : i = j
    PROVE  /\ S = {} => Identities!First(S) = 0
           /\ \A x \in S : S = {x} /\ Identities!First(S) = x
  <1>1. ASSUME NEW x \in S PROVE S = {x} /\ Identities!First(S) = x
    <2>1. S = {x}
      BY <1>1
    <2>2. Identities!Min(S) = CHOOSE m \in S : \A y \in S : m <= y
      BY Zenon DEF Identities!Min
    <2>3. x \in S /\ \A y \in S : x <= y
      BY <2>1
    <2>4. Identities!Min(S) \in S
      BY <2>2, <2>3
    <2>5. Identities!Min(S) = x
      BY <2>4
    <2> QED
      BY <2>1, <2>5 DEF Identities!First
  <1> QED
    BY <1>1 DEF Identities!First

-----------------------------------------------------------------------------
(* Loading and answering.                                                  *)

FilePairs == [names : Seq(DnsNames), defect : Identities!Defects \cup {"none"}]

IdentityIndInv ==
    /\ v1 \in Seq(FilePairs)
    /\ v2 \in Lists
    /\ v4 \in Seq(STRING)
    /\ v3 = "ready" => Distinct(v2)
    /\ v4 # <<>> => v3 = "ready" /\ v5 = Identities!Select(v2, v4)

\* Duplicate is exactly the absence of Distinct.
LEMMA DuplicateMeans ==
    ASSUME v2 \in Lists
    PROVE  Distinct(v2) <=> ~Identities!Duplicate
  <1>1. \A i, k : <<i, k>> \in Identities!Places
                    <=> i \in 1 .. Len(v2) /\ k \in 1 .. Len(v2[i])
    BY DEF Identities!Places
  <1>2. ASSUME Distinct(v2), NEW p \in Identities!Places, NEW q \in Identities!Places,
               Identities!PresentedName(p) = Identities!PresentedName(q)
        PROVE  p = q
    <2>1. PICK i \in 1 .. Len(v2) : \E k \in 1 .. Len(v2[i]) : p = <<i, k>>
      BY DEF Identities!Places
    <2>2. PICK k \in 1 .. Len(v2[i]) : p = <<i, k>>
      BY <2>1
    <2>3. PICK j \in 1 .. Len(v2) : \E l \in 1 .. Len(v2[j]) : q = <<j, l>>
      BY DEF Identities!Places
    <2>4. PICK l \in 1 .. Len(v2[j]) : q = <<j, l>>
      BY <2>3
    <2>5. p[1] = i /\ p[2] = k /\ q[1] = j /\ q[2] = l
      BY <2>2, <2>4
    <2>6. Identities!Normalized(v2[i][k]) = Identities!Normalized(v2[j][l])
      BY <1>2, <2>5 DEF Identities!PresentedName
    <2>7. i = j /\ k = l
      BY <1>2, <2>6 DEF Distinct
    <2> QED
      BY <2>2, <2>4, <2>7
  <1>3. ASSUME ~Identities!Duplicate,
               NEW i \in 1 .. Len(v2), NEW j \in 1 .. Len(v2),
               NEW k \in 1 .. Len(v2[i]), NEW l \in 1 .. Len(v2[j]),
               Identities!Normalized(v2[i][k]) = Identities!Normalized(v2[j][l])
        PROVE  i = j /\ k = l
    <2>1. PICK p, q : p = <<i, k>> /\ q = <<j, l>>
      OBVIOUS
    <2>2. p \in Identities!Places /\ q \in Identities!Places
      BY <1>1, <2>1
    <2>3. p[1] = i /\ p[2] = k /\ q[1] = j /\ q[2] = l
      BY <2>1
    <2>4. Identities!PresentedName(p) = Identities!PresentedName(q)
      BY <1>3, <2>3 DEF Identities!PresentedName
    <2>5. p = q
      BY <1>3, <2>2, <2>4, Zenon DEF Identities!Duplicate
    <2> QED
      BY <2>3, <2>5
  <1> QED
    BY <1>2, <1>3 DEF Distinct, Identities!Duplicate

\* Init of tls_identity.rs establishes the invariant.
LEMMA IdentityInitHolds ==
    ASSUME Identities!Init
    PROVE  IdentityIndInv
  <1>1. v1 \in Seq(FilePairs)
    BY IdentityAssumptions DEF Identities!Init, Identities!Assumptions, FilePairs, DnsNames
  <1>2. v2 = <<>> /\ v4 = <<>> /\ v3 \in {"none", "loading"}
    BY DEF Identities!Init, Identities!NoName
  <1>3. v2 \in Lists /\ v4 \in Seq(STRING)
    BY <1>2, EmptySeq DEF Lists
  <1> QED
    BY <1>1, <1>2, <1>3 DEF IdentityIndInv

\* Every step keeps it.
LEMMA IdentityStepHolds ==
    ASSUME IdentityIndInv, Identities!Next
    PROVE  IdentityIndInv'
  <1> USE DEF IdentityIndInv
  <1>1. CASE Identities!LoadIdentity
    <2>1. /\ v3 = "loading" /\ Len(v2) < Len(v1)
          /\ v2' = Append(v2, Identities!Current.names)
          /\ UNCHANGED <<v1, v3, v4, v5>>
      BY <1>1 DEF Identities!LoadIdentity
    <2>2. v4 = <<>>
      BY <2>1
    <2>3. Identities!Current.names \in Seq(DnsNames)
      <3>1. Len(v2) + 1 \in 1 .. Len(v1)
        <4>1. Len(v2) \in Nat /\ Len(v1) \in Nat
          BY DEF Lists
        <4> QED
          BY <2>1, <4>1
      <3>2. v1[Len(v2) + 1] \in FilePairs
        BY <3>1
      <3> QED
        BY <3>2 DEF Identities!Current, FilePairs
    <2>4. v2' \in Lists
      BY <2>1, <2>3, AppendProperties DEF Lists
    <2> QED
      BY <2>1, <2>2, <2>4
  <1>2. CASE Identities!LoadFails
    <2>1. /\ v3 = "loading" /\ v3' \in Identities!Defects
          /\ UNCHANGED <<v1, v2, v4, v5>>
      BY <1>2 DEF Identities!LoadFails
    <2>2. "ready" \notin Identities!Defects
      BY Zenon DEF Identities!Defects
    <2>3. v3' # "ready" /\ v4 = <<>> /\ v1' = v1 /\ v2' = v2 /\ v4' = v4
      BY <2>1, <2>2
    <2> QED
      BY <2>3
  <1>3. CASE Identities!BuildStore
    <2>1. /\ v3 = "loading" /\ v3' = IF Identities!Duplicate THEN "duplicate" ELSE "ready"
          /\ UNCHANGED <<v1, v2, v4, v5>>
      BY <1>3 DEF Identities!BuildStore
    <2>2. Distinct(v2) <=> ~Identities!Duplicate
      BY DuplicateMeans
    <2>3. v2' = v2 /\ (v3' = "ready" => Distinct(v2))
      BY <2>1, <2>2
    <2>4. v3' = "ready" => Distinct(v2')
      BY <2>3
    <2> QED
      BY <2>1, <2>4
  <1>4. ASSUME NEW server \in ServerNames, Identities!LookUp(server)
        PROVE  IdentityIndInv'
    <2>1. /\ v3 = "ready" /\ v4' = server /\ v5' = Identities!Select(v2, server)
          /\ UNCHANGED <<v1, v2, v3>>
      BY <1>4 DEF Identities!LookUp
    <2>2. server \in Seq(STRING)
      BY IdentityAssumptions DEF Identities!Assumptions
    <2>3. (Identities!Select(v2, v4))' = Identities!Select(v2, server)
      BY <2>1, Zenon
    <2>4. Distinct(v2')
      BY <2>1
    <2> QED
      BY <2>1, <2>2, <2>3, <2>4
  <1> QED
    BY <1>1, <1>2, <1>3, <1>4 DEF Identities!Next

IdentityInv == part = "identities" => IdentityIndInv

\* The invariant holds whenever the identities are the part in question.
LEMMA IdentityInvHolds == Spec => []IdentityInv
  <1>1. Init => IdentityInv
    BY IdentityInitHolds DEF Init, IdentityInv
  <1>2. IdentityInv /\ [Next]_all => IdentityInv'
    <2> SUFFICES ASSUME IdentityInv, [Next]_all, part' = "identities"
                 PROVE  IdentityIndInv'
      BY DEF IdentityInv
    <2>1. CASE UNCHANGED all
      <3>1. IdentityIndInv /\ UNCHANGED <<v1, v2, v3, v4, v5>>
        BY <2>1 DEF all, IdentityInv
      <3> QED
        BY <3>1 DEF IdentityIndInv, Distinct
    <2>2. CASE Next
      <3>1. part = "identities" /\ Step
        BY <2>2 DEF Next
      <3>2. Identities!Next
        BY <3>1 DEF Step
      <3> QED
        BY <3>1, <3>2, IdentityStepHolds DEF IdentityInv
    <2> QED
      BY <2>1, <2>2
  <1> QED
    BY <1>1, <1>2, PTL DEF Spec

\* A client's name is a sequence of labels.
LEMMA AskedName ==
    ASSUME IdentityIndInv
    PROVE  v4 \in Seq(Asked)
  <1>1. v4 \in Seq(STRING)
    BY DEF IdentityIndInv
  <1>2. PICK n \in Nat : n = Len(v4) /\ v4 \in [1 .. n -> STRING]
    BY <1>1, LenProperties
  <1>3. v4 \in [1 .. n -> Asked]
    BY <1>2 DEF Asked
  <1> QED
    BY <1>3, SeqDef

\* The identity selected is the one that claims the name.
LEMMA ClaimantIsSelected ==
    ASSUME IdentityIndInv
    PROVE  Identities!SelectsTheClaimant
  <1> SUFFICES ASSUME v3 = "ready", v4 # <<>>
               PROVE  Identities!SelectsTheClaimant
    BY DEF Identities!SelectsTheClaimant, Identities!NoName
  <1>1. v2 \in Lists /\ Distinct(v2) /\ v5 = Identities!Select(v2, v4) /\ v4 \in Seq(Asked)
    BY AskedName DEF IdentityIndInv
  <1>2. v5 = Identities!First(Claimants(v2, v4))
    BY <1>1, SelectIs
  <1>3. /\ Claimants(v2, v4) = {} => v5 = 0
        /\ \A x \in Claimants(v2, v4) : Claimants(v2, v4) = {x} /\ v5 = x
    <2>1. /\ Claimants(v2, v4) \subseteq 1 .. Len(v2)
          /\ \A i, j \in Claimants(v2, v4) : i = j
      BY <1>1, OneClaimant
    <2>2. Claimants(v2, v4) \in SUBSET Nat
      <3>1. 1 .. Len(v2) \subseteq Nat
        BY <1>1 DEF Lists
      <3> QED
        BY <2>1, <3>1
    <2>3. PICK S \in SUBSET Nat : S = Claimants(v2, v4)
      BY <2>2
    <2> QED
      BY <1>2, <2>1, <2>3, FirstIs
  <1>4. ASSUME NEW name PROVE Identities!Presenting(name) = Presenters(v2, name)
    <2>1. ASSUME NEW i \in 1 .. Len(v2)
          PROVE  (\E n \in Identities!ToSet(v2[i]) :
                    Identities!Normalized(n) = Identities!Normalized(name))
                 <=> Presents(v2[i], name)
      <3>1. DOMAIN v2[i] = 1 .. Len(v2[i])
        BY <1>1, ListedNames
      <3> QED
        BY <3>1, Zenon DEF Identities!ToSet, Presents
    <2> QED
      BY <2>1, Zenon DEF Identities!Presenting, Presenters
  <1>5. Identities!Presenting(v4) = Presenters(v2, v4)
        /\ Identities!Presenting(<<"*">> \o Tail(v4)) = Presenters(v2, Above(v4))
    BY <1>4, Zenon DEF Above
  <1> DEFINE exact == Presenters(v2, v4)
             claimed == IF exact # {} THEN exact ELSE Wildcards(v2, v4)
  <1>6. Claimants(v2, v4) = IF Identities!Last(v4) = Identities!Empty THEN {} ELSE claimed
    BY Zenon DEF Claimants, Unanswerable
  <1>7. IF Identities!Last(v4) = Identities!Empty \/ claimed = {}
        THEN v5 = 0 ELSE claimed = {v5}
    <2> HIDE DEF claimed
    <2> QED
      BY <1>3, <1>6
  <1> QED
    BY <1>5, <1>7, Zenon DEF Identities!SelectsTheClaimant, Wildcards

\* An injective map of the places of a list onto themselves reaches each.
LEMMA ReachesEach ==
    ASSUME NEW n \in Nat, NEW p \in [1 .. n -> 1 .. n],
           \A a, b \in 1 .. n : p[a] = p[b] => a = b
    PROVE  \A y \in 1 .. n : \E x \in 1 .. n : p[x] = y
  <1>1. PICK S : S = 1 .. n
    OBVIOUS
  <1>2. IsFiniteSet(S)
    BY <1>1, FS_Interval
  <1>3. p \in Injection(S, S)
    BY <1>1 DEF Injection, IsInjective
  <1>4. p \in Surjection(S, S)
    BY <1>2, <1>3, FS_Injection
  <1> QED
    BY <1>1, <1>4 DEF Surjection

Reordered(list, p) == [i \in 1 .. Len(list) |-> list[p[i]]]

\* Reordered lists present the same names, each at its new place.
LEMMA ReorderedList ==
    ASSUME NEW list \in Lists, NEW p \in [1 .. Len(list) -> 1 .. Len(list)],
           NEW new, new = Reordered(list, p)
    PROVE  /\ new \in Lists /\ Len(new) = Len(list)
           /\ \A i \in 1 .. Len(list) : p[i] \in 1 .. Len(list) /\ new[i] = list[p[i]]
  <1>1. PICK n \in Nat : n = Len(list)
    BY DEF Lists
  <1>2. \A i \in 1 .. n : p[i] \in 1 .. n /\ list[p[i]] \in Seq(DnsNames)
    <2>1. \A i \in 1 .. n : p[i] \in 1 .. n
      BY <1>1
    <2>2. \A j \in 1 .. n : list[j] \in Seq(DnsNames)
      BY <1>1 DEF Lists
    <2> QED
      BY <2>1, <2>2
  <1>3. /\ new \in [1 .. n -> Seq(DnsNames)]
        /\ \A i \in 1 .. n : new[i] = list[p[i]]
    BY <1>1, <1>2 DEF Reordered
  <1>4. new \in Lists
    BY <1>3, SeqDef DEF Lists
  <1>5. Len(new) = n
    <2>1. DOMAIN new = 1 .. n
      BY <1>3
    <2>2. new \in Seq(Seq(DnsNames))
      BY <1>4 DEF Lists
    <2>3. Len(new) \in Nat /\ DOMAIN new = 1 .. Len(new)
      BY <2>2
    <2>4. PICK t \in Nat : t = Len(new)
      BY <2>3, Zenon
    <2>5. (n \in 1 .. t <=> n \in 1 .. n) /\ (t \in 1 .. t <=> t \in 1 .. n)
      BY <2>1, <2>3, <2>4
    <2>6. t = n
      BY <2>5
    <2> QED
      BY <2>4, <2>6
  <1> QED
    BY <1>1, <1>2, <1>3, <1>4, <1>5

\* The order of the identities decides nothing.
LEMMA OrderIsNothing ==
    ASSUME IdentityIndInv
    PROVE  Identities!OrderDecidesNothing
  <1>1. v2 \in Lists /\ v4 \in Seq(Asked) /\ (v3 = "ready" => Distinct(v2))
    BY AskedName DEF IdentityIndInv
  <1>2. ASSUME NEW p \in [1 .. Len(v2) -> 1 .. Len(v2)], Identities!IsInjective(p),
               v3 = "ready", NEW new, new = Reordered(v2, p)
        PROVE  (IF Identities!Select(new, v4) = 0 THEN 0 ELSE p[Identities!Select(new, v4)])
                  = Identities!Select(v2, v4)
    <2>1. /\ new \in Lists /\ Len(new) = Len(v2)
          /\ \A i \in 1 .. Len(v2) : p[i] \in 1 .. Len(v2) /\ new[i] = v2[p[i]]
      BY <1>1, <1>2, ReorderedList
    <2>2. \A a, b \in 1 .. Len(v2) : p[a] = p[b] => a = b
      BY <1>2 DEF Identities!IsInjective
    <2>3. Len(v2) \in Nat
      BY <1>1 DEF Lists
    <2>4. \A y \in 1 .. Len(v2) : \E x \in 1 .. Len(v2) : p[x] = y
      BY <2>2, <2>3, ReachesEach
    <2>5. Distinct(new)
      <3>1. ASSUME NEW i \in 1 .. Len(new), NEW j \in 1 .. Len(new),
                   NEW k \in 1 .. Len(new[i]), NEW l \in 1 .. Len(new[j]),
                   Identities!Normalized(new[i][k]) = Identities!Normalized(new[j][l])
            PROVE  i = j /\ k = l
        <4>1. i \in 1 .. Len(v2) /\ j \in 1 .. Len(v2)
          BY <2>1
        <4>2. PICK a \in 1 .. Len(v2), b \in 1 .. Len(v2) :
                a = p[i] /\ b = p[j] /\ new[i] = v2[a] /\ new[j] = v2[b]
          BY <2>1, <4>1
        <4>3. a = b /\ k = l
          <5>1. k \in 1 .. Len(v2[a]) /\ l \in 1 .. Len(v2[b])
                /\ Identities!Normalized(v2[a][k]) = Identities!Normalized(v2[b][l])
            BY <3>1, <4>2
          <5>2. Distinct(v2)
            BY <1>1, <1>2
          <5> QED
            BY <5>1, <5>2 DEF Distinct
        <4> QED
          BY <2>2, <4>1, <4>2, <4>3
      <3> QED
        BY <3>1 DEF Distinct
    <2>6. ASSUME NEW name
          PROVE  /\ \A i \in 1 .. Len(v2) :
                       i \in Presenters(new, name) <=> p[i] \in Presenters(v2, name)
                 /\ Presenters(new, name) = {} <=> Presenters(v2, name) = {}
      <3>1. \A i \in 1 .. Len(v2) :
              i \in Presenters(new, name) <=> p[i] \in Presenters(v2, name)
        BY <2>1 DEF Presenters
      <3>2. Presenters(new, name) \subseteq 1 .. Len(v2)
            /\ Presenters(v2, name) \subseteq 1 .. Len(v2)
        BY <2>1 DEF Presenters
      <3> QED
        BY <2>4, <3>1, <3>2
    <2>7. /\ \A i \in 1 .. Len(v2) :
                i \in Claimants(new, v4) <=> p[i] \in Claimants(v2, v4)
          /\ Claimants(new, v4) = {} <=> Claimants(v2, v4) = {}
      BY <2>6 DEF Claimants, Wildcards
    <2>8. Identities!Select(new, v4) = Identities!First(Claimants(new, v4))
          /\ Identities!Select(v2, v4) = Identities!First(Claimants(v2, v4))
      BY <1>1, <1>2, <2>1, <2>5, SelectIs
    <2>9. PICK old \in SUBSET Nat, moved \in SUBSET Nat :
            /\ old = Claimants(v2, v4) /\ moved = Claimants(new, v4)
            /\ \A i, j \in old : i = j
            /\ \A i, j \in moved : i = j
            /\ moved \subseteq 1 .. Len(v2)
      <3>1. /\ Claimants(v2, v4) \subseteq 1 .. Len(v2)
            /\ \A i, j \in Claimants(v2, v4) : i = j
        BY <1>1, <1>2, OneClaimant
      <3>2. /\ Claimants(new, v4) \subseteq 1 .. Len(v2)
            /\ \A i, j \in Claimants(new, v4) : i = j
        BY <2>1, <2>5, OneClaimant
      <3>3. 1 .. Len(v2) \subseteq Nat
        BY <2>3
      <3> QED
        BY <3>1, <3>2, <3>3
    <2>10. CASE moved = {}
      <3>1. Identities!First(moved) = 0 /\ Identities!First(old) = 0
        BY <2>7, <2>9, <2>10, FirstIs
      <3> QED
        BY <2>8, <2>9, <3>1
    <2>11. CASE moved # {}
      <3>1. PICK x \in moved : x \in 1 .. Len(v2) /\ p[x] \in old
        BY <2>7, <2>9, <2>11
      <3>2. Identities!First(moved) = x
        BY <2>9, <3>1, FirstIs
      <3>3. Identities!First(old) = p[x]
        BY <2>9, <3>1, FirstIs
      <3>4. x # 0
        BY <2>3, <3>1
      <3> QED
        BY <2>8, <2>9, <3>2, <3>3, <3>4
    <2> QED
      BY <2>10, <2>11
  <1> QED
    BY <1>2, Zenon DEF Identities!OrderDecidesNothing, Reordered

\* config.rs and tls_identity.rs, for every file, every host and every server
\* name: the first line that cannot stand is the one refused, a loaded file
\* means what it says, a host finds its route and a server name the one
\* identity that claims it, whatever the order of the identities.
THEOREM ConfigurationFollowed == Spec => []ConfigurationIsFollowed
  <1>1. ConfigInv /\ IdentityInv => ConfigurationIsFollowed
    BY SettingsAsSaid, FirstBadLine, HostsByName, ClaimantIsSelected, OrderIsNothing
    DEF ConfigInv, IdentityInv, ConfigurationIsFollowed
  <1> QED
    BY <1>1, ConfigInvHolds, IdentityInvHolds, PTL

-----------------------------------------------------------------------------
(* The decoders of TLS, with the invariants of TlsInputProofs.             *)

TlsInv ==
    /\ part = "frames" => FrameIndInv
    /\ part = "inner" => InnerIndInv
    /\ part = "vectors" => VectorIndInv
    /\ part = "hello" => HelloIndInv

\* Every behaviour of these parts keeps them.
LEMMA TlsInvHolds == Spec => []TlsInv
  <1>1. Init => TlsInv
    BY FrameInitHolds, InnerInitHolds, VectorInitHolds, HelloInitHolds DEF Init, TlsInv
  <1>2. TlsInv /\ [Next]_all => TlsInv'
    <2> SUFFICES ASSUME TlsInv, [Next]_all PROVE TlsInv'
      OBVIOUS
    <2>1. part' = part
      BY DEF Next, all
    <2>2. CASE part = "frames"
      <3>1. Frames!Next \/ UNCHANGED <<v1, v2, v3, v4, v5, v6>>
        BY <2>2 DEF Next, Step, all
      <3>2. FrameIndInv'
        BY <2>2, <3>1, FrameKept DEF TlsInv
      <3> QED
        BY <2>1, <2>2, <3>2 DEF TlsInv
    <2>3. CASE part = "inner"
      <3>1. Inner!Next \/ UNCHANGED <<v1, v2, v3, v4, v5, v6>>
        BY <2>3 DEF Next, Step, all
      <3>2. InnerIndInv'
        BY <2>3, <3>1, InnerKept DEF TlsInv
      <3> QED
        BY <2>1, <2>3, <3>2 DEF TlsInv
    <2>4. CASE part = "vectors"
      <3>1. Vectors!Next \/ UNCHANGED <<v1, v2, v3, v4, v5, v6>>
        BY <2>4 DEF Next, Step, all
      <3>2. VectorIndInv'
        BY <2>4, <3>1, VectorKept DEF TlsInv
      <3> QED
        BY <2>1, <2>4, <3>2 DEF TlsInv
    <2>5. CASE part = "hello"
      <3>1. Hello!Next \/ UNCHANGED <<v1, v2, v3, v4, v5, v6>>
        BY <2>5 DEF Next, Step, all
      <3>2. HelloIndInv'
        BY <2>5, <3>1, HelloKept DEF TlsInv
      <3> QED
        BY <2>1, <2>5, <3>2 DEF TlsInv
    <2> QED
      BY <2>1, <2>2, <2>3, <2>4, <2>5 DEF TlsInv
  <1> QED
    BY <1>1, <1>2, PTL DEF Spec

\* The decoders of tls.rs, for every input and wherever it is cut: no byte of a
\* stream is lost, moved to another frame or kept back; exactly the encodings
\* of inner plaintexts are decoded, exactly the well formed lists of an
\* extension are taken apart, byte for byte; and a hello is accepted only when
\* it conforms to TLS 1.3, and then always.
THEOREM TlsInputExact == Spec => []TlsInputIsExact
  <1>1. TlsInv => TlsInputIsExact
    BY FramesAreExact, InnerPlaintextsAreExact, VectorsAreExact, HellosAreExact
    DEF TlsInv, TlsInputIsExact
  <1> QED
    BY <1>1, TlsInvHolds, PTL
=============================================================================
