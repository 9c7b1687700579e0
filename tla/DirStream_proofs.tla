-------------------------- MODULE DirStream_proofs --------------------------
(***************************************************************************)
(* Theorems about DirStream for any names and bounds: which listings end   *)
(* in an error, and what a reader is given.                                *)
(*                                                                         *)
(* The argument: opendir's count is never more than the entries, unless    *)
(* one of them was removed since it was taken, or it is not a count at     *)
(* all, and then opendir has replied already.  So only an entry that was   *)
(* removed leaves a zeroed one in the buffer.  The entries that stay keep  *)
(* their order, at the first count places, and so are copied; the buffer   *)
(* holds no entry twice and is given from its beginning to its end.        *)
(***************************************************************************)
EXTENDS DirStream, SequenceTheorems, WellFoundedInduction, TLAPS

Ent == [name : Names, ino : Nat \ {0}]
Rec == [name : Names \cup {"", "?"}, ino : Nat]
Opened == {"open", "end", "error"}

\* What is needed of the types.
Typed ==
  /\ dirent \in Seq(Ent) /\ changes \in 0..MaxChanges
  /\ Len(dirent) <= MaxInitial + changes
  /\ count \in 0..Huge
  /\ vec \in Seq(Rec) /\ offset \in Nat

\* A count that is no count was never replied with success, and others are of
\* entries that were there.
Counted ==
  /\ count = Huge => replied
  /\ Opening => replied \/ shrunk \/ raced \/ count <= Len(dirent)

\* A zeroed entry, which has no name, is what a removed one left.
Listed ==
  /\ \A i \in 1..Len(vec) : vec[i].name # "" => vec[i].ino # 0
  /\ pc \in Opened => \A i \in 1..Len(vec) : vec[i].name = "" => shrunk \/ raced

\* No two entries have one number, and no entry to come has one of theirs.
Numbered ==
  /\ \A i \in 1..Len(dirent) : dirent[i].ino <= MaxInitial + changes
  /\ \A i, j \in 1..Len(dirent) : dirent[i].ino = dirent[j].ino => i = j

\* What has stayed is where opendir will find it.
Waiting ==
  Opening /\ ~replied =>
    \A e \in stayed : \E i \in 1..Len(dirent) : i <= count /\ dirent[i] = e

\* The buffer has what stayed, nothing twice, and its zeroed entries last.
Copies ==
  /\ \A e \in stayed : e.name \notin LongNames =>
       \E i \in 1..Len(vec) : vec[i] = e /\ vec[i].name # ""
  /\ \A i, j \in 1..Len(vec) : vec[i].name # "" /\ vec[i] = vec[j] => i = j
  /\ \A i, j \in 1..Len(vec) : i <= j /\ vec[i].name = "" => vec[j].name = ""

\* The reader has been given the buffer up to the offset.
Given ==
  /\ offset <= Len(vec) /\ ~twice
  /\ got = {vec[i] : i \in 1..offset} /\ \A i \in 1..offset : vec[i].name # ""
  /\ pc = "end" => offset = Len(vec)
  /\ pc = "error" => offset < Len(vec) /\ vec[offset + 1].name = ""

Delivers == Numbered /\ Waiting /\ (pc \in Opened /\ ~raced => Copies /\ Given)

IInv == Typed /\ Counted /\ Listed /\ ErrorsExplained

-----------------------------------------------------------------------------
(* Lemmas about sequences and numbers.                                     *)

\* RemoveAt shortens a sequence by one.
LEMMA RemoveAtFacts ==
  ASSUME NEW S, NEW s \in Seq(S), NEW k \in DOMAIN s
  PROVE  /\ RemoveAt(s, k) \in Seq(S) /\ Len(RemoveAt(s, k)) = Len(s) - 1
         /\ \A i \in 1..(Len(s) - 1) : RemoveAt(s, k)[i] = IF i < k THEN s[i] ELSE s[i + 1]
<1> DEFINE a == SubSeq(s, 1, k - 1)
           b == SubSeq(s, k + 1, Len(s))
<1>1. k \in 1..Len(s) /\ Len(s) \in Nat
  OBVIOUS
<1>2. a \in Seq(S) /\ Len(a) = k - 1 /\ \A i \in 1..(k - 1) : a[i] = s[i]
  BY <1>1
<1>3. b \in Seq(S) /\ Len(b) = Len(s) - k /\ \A i \in 1..(Len(s) - k) : b[i] = s[i + k]
  BY <1>1
<1>4. RemoveAt(s, k) = a \o b
  BY DEF RemoveAt
<1> HIDE DEF a, b
<1>5. /\ a \o b \in Seq(S) /\ Len(a \o b) = Len(a) + Len(b)
      /\ \A i \in 1..(Len(a) + Len(b)) : (a \o b)[i] = IF i <= Len(a) THEN a[i] ELSE b[i - Len(a)]
  BY <1>2, <1>3, ConcatProperties
<1>6. ASSUME NEW i \in 1..(Len(s) - 1)
      PROVE  (a \o b)[i] = IF i < k THEN s[i] ELSE s[i + 1]
  <2>1. CASE i < k
    BY <1>1, <1>2, <1>3, <1>5, <2>1, SMTT(30)
  <2>2. CASE ~(i < k)
    <3>1. i - (k - 1) \in 1..(Len(s) - k) /\ i - (k - 1) + k = i + 1 /\ ~(i <= k - 1)
      BY <1>1, <2>2
    <3>2. (a \o b)[i] = b[i - (k - 1)]
      <4>1. i \in 1..(Len(a) + Len(b)) /\ ~(i <= Len(a)) /\ Len(a) = k - 1
        BY <1>1, <1>2, <1>3, <3>1, SMTT(30)
      <4> QED  BY <1>5, <4>1
    <3>3. b[i - (k - 1)] = s[i - (k - 1) + k]
      BY <1>3, <3>1
    <3> QED  BY <2>2, <3>1, <3>2, <3>3
  <2> QED  BY <2>1, <2>2
<1>7. a \o b \in Seq(S) /\ Len(a \o b) = Len(s) - 1
  <2>1. Len(a) + Len(b) = Len(s) - 1
    BY <1>1, <1>2, <1>3
  <2> QED  BY <1>5, <2>1
<1> QED  BY <1>4, <1>6, <1>7

\* A set of natural numbers has a least one.
LEMMA Least ==
  ASSUME NEW T, T \subseteq Nat, T # {}
  PROVE  \E x \in T : \A y \in T : x <= y
<1>1. PICK x \in T : \A y \in T : ~ (<<y, x>> \in OpToRel(<, Nat))
  BY NatLessThanWellFounded, WFMin
<1>2. \A y \in T : ~(y < x)
  BY <1>1 DEF OpToRel
<1>3. \A y \in T : x <= y
  BY <1>2
<1> QED  BY <1>3

\* What is copied of d: entries with a name and a number, then zeroed ones.
LEMMA CopiedFacts ==
  ASSUME NEW d \in Seq(Ent), count \in Nat
  PROVE  /\ Copied(d) \in Seq(Rec) /\ Len(Copied(d)) = count
         /\ \A i \in 1..count : Copied(d)[i].name # "" => Copied(d)[i].ino # 0
         /\ \A i \in 1..count : Copied(d)[i].name = "" => i > Len(d)
<1> DEFINE c == Copied(d)
<1>1. c = [i \in 1..count |-> IF i <= Len(d) THEN Dumped(d[i]) ELSE Zeroed]
  BY DEF Copied
<1>2. ASSUME NEW e \in Ent
      PROVE  Dumped(e) \in Rec /\ Dumped(e).name # "" /\ Dumped(e).ino # 0
  <2>1. CASE e.name \in LongNames
    <3>1. Dumped(e) = [e EXCEPT !.name = "?"]
      BY <2>1 DEF Dumped
    <3> QED  BY <3>1 DEF Ent, Rec
  <2>2. CASE e.name \notin LongNames
    <3>1. Dumped(e) = e
      BY <2>2 DEF Dumped
    <3> QED  BY <3>1, StreamAssumption DEF Ent, Rec
  <2> QED  BY <2>1, <2>2
<1>3. Zeroed \in Rec /\ Zeroed.name = ""
  BY DEF Zeroed, Rec
<1> HIDE DEF c
<1>4. ASSUME NEW i \in 1..count
      PROVE  /\ c[i] \in Rec
             /\ c[i].name # "" => c[i].ino # 0
             /\ c[i].name = "" => i > Len(d)
  <2>0. i \in Nat /\ i >= 1 /\ Len(d) \in Nat
    OBVIOUS
  <2>1. CASE i <= Len(d)
    <3>1. d[i] \in Ent
      BY <2>0, <2>1
    <3>2. c[i] = Dumped(d[i])
      BY <1>1, <2>1
    <3> QED  BY <1>2, <3>1, <3>2
  <2>2. CASE i > Len(d)
    <3>1. c[i] = Zeroed
      BY <1>1, <2>0, <2>2
    <3> QED  BY <1>3, <2>2, <3>1
  <2>3. i <= Len(d) \/ i > Len(d)
    BY <2>0
  <2> QED  BY <2>1, <2>2, <2>3
<1>5. c \in Seq(Rec) /\ Len(c) = count
  <2>1. \A i \in 1..count : c[i] \in Rec
    BY <1>4
  <2>2. c \in [1..count -> Rec]
    BY <1>1, <2>1
  <2> QED  BY <2>2
<1> QED  BY <1>4, <1>5 DEF c

-----------------------------------------------------------------------------
(* The invariant is inductive.                                             *)

\* The bounds are natural numbers, and Huge is above what a directory holds.
LEMMA Bounds ==
  /\ MaxInitial \in Nat /\ MaxChanges \in Nat
  /\ Huge = MaxInitial + MaxChanges + 1
BY StreamAssumption DEF Huge

\* Nothing is listed at first.
LEMMA InitInv == Init => IInv
<1> SUFFICES ASSUME Init PROVE IInv
  OBVIOUS
<1>1. PICK n \in 0..MaxInitial, f \in [1..MaxInitial -> Names] :
        dirent = [i \in 1..n |-> [name |-> f[i], ino |-> i]]
  BY DEF Init
<1>2. n \in Nat /\ n <= MaxInitial
  BY Bounds
<1>3. \A i \in 1..n : [name |-> f[i], ino |-> i] \in Ent
  BY <1>2, Bounds DEF Ent
<1>4. dirent \in Seq(Ent) /\ Len(dirent) = n
  BY <1>1, <1>2, <1>3
<1>5. vec \in Seq(Rec) /\ Len(vec) = 0 /\ count = 0 /\ offset = 0 /\ changes = 0
  BY DEF Init
<1>6. Typed
  BY <1>2, <1>4, <1>5, Bounds DEF Typed
<1>7. pc = "closed" /\ got = {}
  BY DEF Init
<1>8. Counted /\ Listed
  BY <1>5, <1>7, Bounds DEF Counted, Listed, Opening, Opened
<1>9. ErrorsExplained
  BY <1>7 DEF ErrorsExplained
<1> QED  BY <1>6, <1>8, <1>9 DEF IInv

\* A change of the directory keeps the invariant when it takes nothing from
\* the entries, or says that it has.
LEMMA ChangeInv ==
  ASSUME IInv, Live, NEW d \in Seq(Ent), Change(d), Len(d) <= Len(dirent) + 1,
         shrunk => shrunk', Opening => shrunk' \/ Len(dirent) <= Len(d)
  PROVE  IInv'
<1>1. dirent' = d /\ changes' = changes + 1 /\ changes < MaxChanges
  BY DEF Change
<1>2. UNCHANGED <<pc, count, replied, vec, offset, got>>
  BY DEF Change, listing
<1>3. raced => raced'
  BY DEF Change
<1>4. pc # "fault"
  BY DEF Live
<1>5. Typed'
  BY <1>1, <1>2, Bounds DEF IInv, Typed
<1>6. Counted'
  <2>1. Len(d) \in Nat /\ Len(dirent) \in Nat /\ count \in Int
    BY Bounds DEF IInv, Typed
  <2>2. count <= Len(dirent) /\ Len(dirent) <= Len(d) => count <= Len(d)
    BY <2>1
  <2> QED  BY <1>1, <1>2, <1>3, <2>2 DEF IInv, Counted, Opening
<1>7. Listed'
  BY <1>2, <1>3 DEF IInv, Listed
<1>8. ErrorsExplained'
  BY <1>2, <1>3 DEF IInv, ErrorsExplained
<1> QED  BY <1>5, <1>6, <1>7, <1>8 DEF IInv

\* A new entry.
LEMMA CreateInv ==
  ASSUME IInv, Live, NEW name \in Names, Create(name)
  PROVE  IInv'
<1> DEFINE e == [name |-> name, ino |-> MaxInitial + changes + 1]
           d == Append(dirent, e)
<1>1. e \in Ent
  BY Bounds DEF IInv, Typed, Ent
<1>2. dirent \in Seq(Ent)
  BY DEF IInv, Typed
<1>3. Change(d) /\ UNCHANGED shrunk
  BY DEF Create
<1> HIDE DEF e
<1>4. d \in Seq(Ent) /\ Len(d) = Len(dirent) + 1 /\ Len(dirent) \in Nat
  BY <1>1, <1>2
<1> HIDE DEF d
<1>5. Len(d) <= Len(dirent) + 1 /\ Len(dirent) <= Len(d)
  BY <1>4
<1> QED  BY <1>3, <1>4, <1>5, ChangeInv

\* An entry less.
LEMMA UnlinkInv ==
  ASSUME IInv, Live, NEW i \in DOMAIN dirent, Unlink(i)
  PROVE  IInv'
<1> DEFINE d == RemoveAt(dirent, i)
<1>1. dirent \in Seq(Ent)
  BY DEF IInv, Typed
<1>2. d \in Seq(Ent) /\ Len(d) = Len(dirent) - 1 /\ Len(dirent) \in Nat
  BY <1>1, RemoveAtFacts
<1>3. Change(d)
  BY DEF Unlink
<1>4. (shrunk => shrunk') /\ (Opening => shrunk')
  BY DEF Unlink
<1> HIDE DEF d
<1>5. Len(d) <= Len(dirent) + 1
  BY <1>2
<1> QED  BY <1>2, <1>3, <1>4, <1>5, ChangeInv

\* opendir begins with the number of entries, or with garbage and a reply.
LEMMA GetSizeInv ==
  ASSUME IInv, GetSize \/ GetSizeRefused \/ GetSizeFails
  PROVE  IInv'
<1>1. UNCHANGED <<dirent, changes, vec, offset, got>> /\ pc' = "fetch"
  BY DEF GetSize, GetSizeRefused, GetSizeFails, SizeFailed, listing, counters
<1>2. Len(dirent) \in Nat /\ Len(dirent) < Huge /\ dirent \in Seq(Ent)
  BY Bounds DEF IInv, Typed
<1>3. \/ count' = Len(dirent) /\ replied' = replied
      \/ count' \in 0..Huge /\ replied'
  BY Bounds DEF GetSize, GetSizeRefused, GetSizeFails, SizeFailed
<1>4. count' \in 0..Huge
  BY <1>2, <1>3, Bounds
<1>5. Typed'
  BY <1>1, <1>4 DEF IInv, Typed
<1>6. Counted'
  <2>1. Len(dirent) # Huge /\ Len(dirent) <= Len(dirent)
    BY <1>2, Bounds
  <2> QED  BY <1>1, <1>3, <2>1 DEF Counted
<1>7. Listed'
  BY <1>1 DEF IInv, Listed, Opened
<1>8. ErrorsExplained'
  BY <1>1 DEF IInv, ErrorsExplained
<1> QED  BY <1>5, <1>6, <1>7, <1>8 DEF IInv

\* The second ecall begins, or is refused.
LEMMA GetInv ==
  ASSUME IInv, BeginCopy \/ GetFails
  PROVE  IInv'
<1>1. /\ UNCHANGED <<dirent, changes, count, replied, vec, offset, got, shrunk, raced>>
      /\ pc = "fetch"
  BY DEF BeginCopy, GetFails, listing, counters, history
<1>2. pc' = "copy" \/ pc' = "closed" \/ (pc' = "fault" /\ replied)
  BY DEF BeginCopy, GetFails, Replies
<1>3. Typed'
  BY <1>1 DEF IInv, Typed
<1>4. Counted'
  BY <1>1, <1>2 DEF IInv, Counted, Opening
<1>5. Listed'
  BY <1>1, <1>2 DEF IInv, Listed, Opened
<1>6. ErrorsExplained'
  BY <1>1, <1>2 DEF IInv, ErrorsExplained
<1> QED  BY <1>3, <1>4, <1>5, <1>6 DEF IInv

\* The copy ends: in a fault with a cause, or in a buffer without a zeroed
\* entry but for a cause.
LEMMA EndCopyInv ==
  ASSUME IInv, EndCopy
  PROVE  IInv'
<1>1. /\ UNCHANGED <<dirent, changes, count, replied, shrunk, raced>>
      /\ pc = "copy"
  BY DEF EndCopy, counters, history
<1>2. count \in Nat /\ dirent \in Seq(Ent) /\ Len(dirent) \in Nat
  BY Bounds DEF IInv, Typed
<1>3. CASE (CopyFaults \/ raced) /\ pc' = "fault" /\ UNCHANGED listing
  <2>1. UNCHANGED <<vec, offset, got>>
    BY <1>3 DEF listing
  <2>2. Typed'
    BY <1>1, <2>1 DEF IInv, Typed
  <2>3. Counted' /\ Listed'
    BY <1>1, <1>3, <2>1 DEF IInv, Counted, Listed, Opening, Opened
  <2>4. ErrorsExplained'
    BY <1>1, <1>3, <2>1 DEF IInv, ErrorsExplained
  <2> QED  BY <2>2, <2>3, <2>4 DEF IInv
<1>4. CASE /\ ~CopyFaults /\ offset' = 0 /\ got' = {} /\ Replies("open")
           /\ \E d \in {dirent} \cup (IF raced THEN {RemoveAt(dirent, i) : i \in DOMAIN dirent} ELSE {}) :
                vec' = Copied(d)
  <2>1. PICK d \in {dirent} \cup (IF raced THEN {RemoveAt(dirent, i) : i \in DOMAIN dirent} ELSE {}) :
          vec' = Copied(d)
    BY <1>4
  <2>2. d = dirent \/ (raced /\ \E i \in DOMAIN dirent : d = RemoveAt(dirent, i))
    BY <2>1
  <2>3. d \in Seq(Ent)
    BY <1>2, <2>2, RemoveAtFacts
  <2>4. /\ vec' \in Seq(Rec) /\ Len(vec') = count
        /\ \A i \in 1..count : vec'[i].name # "" => vec'[i].ino # 0
        /\ \A i \in 1..count : vec'[i].name = "" => i > Len(d)
    BY <1>2, <2>1, <2>3, CopiedFacts
  <2>5. Typed'
    BY <1>1, <1>4, <2>4 DEF IInv, Typed
  <2>6. pc' = "fault" \/ pc' = "open"
    BY <1>4 DEF Replies
  <2>7. pc' = "open" => ~replied
    BY <1>4 DEF Replies
  <2>8. Counted'
    BY <1>1, <2>6 DEF IInv, Counted, Opening
  <2>9. ASSUME NEW i \in 1..count, vec'[i].name = "", pc' = "open"
        PROVE  shrunk \/ raced
    <3>1. i > Len(d)
      BY <2>4, <2>9
    <3>2. CASE d = dirent
      <4>1. i <= count /\ i > Len(dirent) /\ i \in Nat
        BY <1>2, <3>1, <3>2
      <4>2. ~(count <= Len(dirent))
        BY <1>2, <4>1
      <4> QED  BY <1>1, <2>7, <2>9, <4>2 DEF IInv, Counted, Opening
    <3> QED  BY <2>2, <3>2
  <2>10. Listed'
    BY <1>1, <2>4, <2>6, <2>9 DEF Listed, Opened
  <2>11. ErrorsExplained'
    BY <1>1, <1>4, <2>6, <2>7 DEF ErrorsExplained, Replies
  <2> QED  BY <2>5, <2>8, <2>10, <2>11 DEF IInv
<1> QED  BY <1>3, <1>4 DEF EndCopy

\* The reader is given what comes before the first zeroed entry.
LEMMA ReaddirInv ==
  ASSUME IInv, NEW n \in 1..2, Readdir(n)
  PROVE  IInv'
<1> DEFINE last == IF offset + n < Len(vec) THEN offset + n ELSE Len(vec)
           bad == {i \in (offset + 1)..last : vec[i].name = ""}
           least == CHOOSE i \in bad : \A j \in bad : i <= j
           good == IF bad = {} THEN last ELSE least - 1
           given == {vec[i] : i \in (offset + 1)..good}
<1>1. /\ UNCHANGED <<dirent, changes, count, replied, vec, shrunk, raced>>
      /\ pc = "open"
      /\ got' = got \cup given
      /\ offset' = (IF good > offset THEN NextOffset(good) ELSE offset)
      /\ pc' = (IF bad # {} THEN "error" ELSE IF last = offset THEN "end" ELSE "open")
  BY DEF Readdir, counters, history
<1>2. offset \in Nat /\ Len(vec) \in Nat /\ last \in Nat /\ last <= Len(vec)
  BY DEF IInv, Typed
<1> HIDE DEF last
<1> HIDE DEF bad
<1>3. bad \subseteq Nat /\ bad \subseteq 1..Len(vec) /\ \A i \in bad : i <= last
  <2>1. bad \subseteq (offset + 1)..last
    BY DEF bad
  <2>2. \A i \in (offset + 1)..last : i \in Nat /\ i \in 1..Len(vec) /\ i <= last
    BY <1>2
  <2> QED  BY <2>1, <2>2
<1>4. bad # {} => least \in bad /\ \A j \in bad : least <= j
  BY <1>3, Least
<1> HIDE DEF least
<1>5. good \in Int /\ good <= last
  <2>1. CASE bad = {}
    BY <1>2, <2>1
  <2>2. CASE bad # {}
    <3>1. least \in Nat /\ least <= last
      BY <1>3, <1>4, <2>2
    <3> QED  BY <1>2, <2>2, <3>1
  <2> QED  BY <2>1, <2>2
<1>6. ASSUME NEW i \in (offset + 1)..good
      PROVE  i \in 1..Len(vec) /\ vec[i].name # ""
  <2>1. i \in (offset + 1)..last /\ i \in 1..Len(vec)
    BY <1>2, <1>5
  <2>2. i \notin bad
    <3>1. CASE bad # {}
      <4>1. least \in Nat
        BY <1>3, <1>4, <3>1
      <4>2. i < least
        BY <1>2, <3>1, <4>1
      <4> QED  BY <1>2, <1>4, <3>1, <4>1, <4>2
    <3> QED  BY <3>1
  <2> QED  BY <2>1, <2>2 DEF bad
<1> HIDE DEF good
<1>7. \A e \in given : e.ino # 0
  BY <1>6 DEF IInv, Listed
<1> HIDE DEF given
<1>8. offset' \in Nat
  BY <1>1, <1>2, <1>5 DEF NextOffset
<1>9. bad # {} => shrunk \/ raced
  <2>1. \A i \in bad : vec[i].name = ""
    BY DEF bad
  <2> QED  BY <1>1, <1>3, <2>1 DEF IInv, Listed, Opened
<1>10. Typed'
  BY <1>1, <1>8 DEF IInv, Typed
<1>11. Counted' /\ Listed'
  BY <1>1 DEF IInv, Counted, Listed, Opening, Opened
<1>12. ErrorsExplained'
  BY <1>1, <1>7, <1>9 DEF IInv, ErrorsExplained
<1> QED  BY <1>10, <1>11, <1>12 DEF IInv

\* The same buffer from its beginning.
LEMMA RewindInv ==
  ASSUME IInv, Rewind
  PROVE  IInv'
<1>1. /\ UNCHANGED <<dirent, changes, count, replied, vec, shrunk, raced>>
      /\ pc \in Opened /\ pc' = "open" /\ offset' = 0 /\ got' = {}
  BY DEF Rewind, Opened, history
<1>2. Typed'
  BY <1>1 DEF IInv, Typed
<1>3. Counted' /\ Listed'
  BY <1>1 DEF IInv, Counted, Listed, Opening, Opened
<1>4. ErrorsExplained'
  BY <1>1 DEF ErrorsExplained
<1> QED  BY <1>2, <1>3, <1>4 DEF IInv

\* The listing is closed.
LEMMA ReleaseInv ==
  ASSUME IInv, Release
  PROVE  IInv'
<1>1. /\ UNCHANGED <<dirent, changes, replied>> /\ pc' = "closed"
      /\ vec' = <<>> /\ offset' = 0 /\ got' = {} /\ count' = 0
  BY DEF Release, counters
<1>2. vec' \in Seq(Rec) /\ Len(vec') = 0
  BY <1>1
<1>3. Typed'
  BY <1>1, <1>2, Bounds DEF IInv, Typed
<1>4. Counted' /\ Listed'
  BY <1>1, <1>2, Bounds DEF Counted, Listed, Opening, Opened
<1>5. ErrorsExplained'
  BY <1>1 DEF ErrorsExplained
<1> QED  BY <1>3, <1>4, <1>5 DEF IInv

\* Every step keeps the invariant.
LEMMA NextInv == IInv /\ [Next]_vars => IInv'
<1> SUFFICES ASSUME IInv, [Next]_vars PROVE IInv'
  OBVIOUS
<1>1. CASE Next
  <2>1. Live
    BY <1>1 DEF Next
  <2>2. CASE \E name \in Names : Create(name)
    BY <2>1, <2>2, CreateInv
  <2>3. CASE \E i \in DOMAIN dirent : Unlink(i)
    BY <2>1, <2>3, UnlinkInv
  <2>4. CASE GetSize \/ GetSizeRefused \/ GetSizeFails
    BY <2>4, GetSizeInv
  <2>5. CASE BeginCopy \/ GetFails
    BY <2>5, GetInv
  <2>6. CASE EndCopy
    BY <2>6, EndCopyInv
  <2>7. CASE Reads
    BY <2>7, ReaddirInv DEF Reads
  <2>8. CASE Rewind
    BY <2>8, RewindInv
  <2>9. CASE Release
    BY <2>9, ReleaseInv
  <2> QED
    BY <1>1, <2>2, <2>3, <2>4, <2>5, <2>6, <2>7, <2>8, <2>9 DEF Next
<1>2. CASE UNCHANGED vars
  <2>1. UNCHANGED <<dirent, changes, pc, count, replied, vec, offset, got, shrunk, raced>>
    BY <1>2 DEF vars, counters, listing, history
  <2>2. Typed'
    BY <2>1 DEF IInv, Typed
  <2>3. Counted' /\ Listed'
    BY <2>1 DEF IInv, Counted, Listed, Opening
  <2>4. ErrorsExplained'
    BY <2>1 DEF IInv, ErrorsExplained
  <2> QED  BY <2>2, <2>3, <2>4 DEF IInv
<1> QED  BY <1>1, <1>2

\* So it always holds.
LEMMA InvAlways == Spec => []IInv
BY InitInv, NextInv, PTL DEF Spec

-----------------------------------------------------------------------------
(* What a reader is given.                                                 *)

LEMMA InitDelivers == Init => Delivers
<1> SUFFICES ASSUME Init PROVE Delivers
  OBVIOUS
<1>1. PICK n \in 0..MaxInitial, f \in [1..MaxInitial -> Names] :
        dirent = [i \in 1..n |-> [name |-> f[i], ino |-> i]]
  BY DEF Init
<1>2. Len(dirent) = n /\ n \in Nat /\ n <= MaxInitial
  BY <1>1, Bounds
<1>3. changes = 0 /\ pc = "closed"
  BY DEF Init
<1>4. Numbered
  <2>1. \A i \in 1..n : dirent[i].ino = i
    BY <1>1
  <2> QED  BY <1>2, <1>3, <2>1, Bounds DEF Numbered
<1> QED  BY <1>3, <1>4 DEF Delivers, Waiting, Opening, Opened

\* A change of the directory.
LEMMA ChangeDelivers ==
  ASSUME Delivers, NEW d, Change(d), Numbered', Waiting',
         stayed' \subseteq stayed
  PROVE  Delivers'
<1>1. UNCHANGED <<pc, vec, offset, got, twice>> /\ (raced => raced')
  BY DEF Change, listing
<1>2. Copies => Copies'
  BY <1>1 DEF Copies
<1>3. Given => Given'
  BY <1>1 DEF Given
<1> QED  BY <1>1, <1>2, <1>3 DEF Delivers

LEMMA CreateDelivers ==
  ASSUME Typed, Delivers, NEW name \in Names, Create(name)
  PROVE  Delivers'
<1> DEFINE e == [name |-> name, ino |-> MaxInitial + changes + 1]
           d == Append(dirent, e)
<1>1. /\ Change(d) /\ dirent' = d /\ changes' = changes + 1
      /\ UNCHANGED <<pc, count, replied, stayed>>
  BY DEF Create, Change
<1>2. dirent \in Seq(Ent) /\ Len(dirent) \in Nat /\ changes \in Nat
  BY Bounds DEF Typed
<1>3. /\ Len(d) = Len(dirent) + 1 /\ d[Len(dirent) + 1] = e
      /\ \A i \in 1..Len(dirent) : d[i] = dirent[i]
  BY <1>2
<1>4. e.ino = MaxInitial + changes + 1
  OBVIOUS
<1> HIDE DEF d, e
<1>5. \A i \in 1..Len(d) : i \in 1..Len(dirent) \/ i = Len(dirent) + 1
  BY <1>2, <1>3
<1>6. \A i \in 1..Len(dirent) : d[i].ino \in Nat /\ d[i].ino <= MaxInitial + changes
  <2>1. \A i \in 1..Len(dirent) : dirent[i].ino \in Nat
    <3>1. \A i \in 1..Len(dirent) : dirent[i] \in Ent
      BY <1>2
    <3> QED  BY <3>1 DEF Ent
  <2> QED  BY <1>3, <2>1 DEF Delivers, Numbered
<1>7. ASSUME NEW i \in 1..Len(d), NEW j \in 1..Len(d), d[i].ino = d[j].ino
      PROVE  i = j
  <2>1. CASE i \in 1..Len(dirent) /\ j \in 1..Len(dirent)
    BY <1>3, <1>7, <2>1 DEF Delivers, Numbered
  <2>2. \A m \in 1..Len(dirent) : d[m].ino # e.ino
    BY <1>2, <1>4, <1>6, Bounds
  <2> QED  BY <1>3, <1>5, <1>7, <2>1, <2>2
<1>8. Numbered'
  <2>1. \A i \in 1..Len(d) : d[i].ino <= MaxInitial + changes + 1
    BY <1>2, <1>3, <1>4, <1>5, <1>6, Bounds
  <2> QED  BY <1>1, <1>2, <1>7, <2>1, Bounds DEF Numbered
<1>9. Waiting'
  <2>1. \A i \in 1..Len(dirent) : i \in 1..Len(d)
    BY <1>2, <1>3
  <2> QED  BY <1>1, <1>3, <2>1 DEF Delivers, Waiting, Opening
<1> QED  BY <1>1, <1>8, <1>9, ChangeDelivers

\* What is not erased moves to the front, if at all.
LEMMA UnlinkDelivers ==
  ASSUME Typed, Delivers, NEW k \in DOMAIN dirent, Unlink(k)
  PROVE  Delivers'
<1> DEFINE d == RemoveAt(dirent, k)
<1>1. /\ Change(d) /\ dirent' = d /\ changes' = changes + 1
      /\ UNCHANGED <<pc, count, replied>> /\ stayed' = stayed \ {dirent[k]}
  BY DEF Unlink, Change
<1>2. dirent \in Seq(Ent) /\ Len(dirent) \in Nat /\ changes \in Nat /\ count \in Nat
  BY Bounds DEF Typed
<1>3. /\ d \in Seq(Ent) /\ Len(d) = Len(dirent) - 1 /\ k \in 1..Len(dirent)
      /\ \A i \in 1..(Len(dirent) - 1) : d[i] = IF i < k THEN dirent[i] ELSE dirent[i + 1]
  <2>1. k \in 1..Len(dirent)
    BY <1>2
  <2>2. /\ RemoveAt(dirent, k) \in Seq(Ent) /\ Len(RemoveAt(dirent, k)) = Len(dirent) - 1
        /\ \A i \in 1..(Len(dirent) - 1) :
             RemoveAt(dirent, k)[i] = IF i < k THEN dirent[i] ELSE dirent[i + 1]
    BY <1>2, RemoveAtFacts
  <2> QED  BY <2>1, <2>2
<1> HIDE DEF d
<1>4. ASSUME NEW i \in 1..Len(d)
      PROVE  \E m \in 1..Len(dirent) : d[i] = dirent[m] /\ m = IF i < k THEN i ELSE i + 1
  <2>1. i \in 1..Len(dirent) /\ i + 1 \in 1..Len(dirent)
    BY <1>2, <1>3
  <2>2. CASE i < k
    BY <1>3, <2>1, <2>2
  <2>3. CASE ~(i < k)
    BY <1>3, <2>1, <2>3
  <2> QED  BY <2>2, <2>3
<1>5. Numbered'
  <2>1. ASSUME NEW i \in 1..Len(d)
        PROVE  d[i].ino <= MaxInitial + changes + 1
    <3>1. \A m \in 1..Len(dirent) : dirent[m].ino \in Nat
      <4>1. \A m \in 1..Len(dirent) : dirent[m] \in Ent
        BY <1>2
      <4> QED  BY <4>1 DEF Ent
    <3>2. PICK m \in 1..Len(dirent) : d[i] = dirent[m]
      BY <1>4
    <3>3. dirent[m].ino <= MaxInitial + changes
      BY DEF Delivers, Numbered
    <3> QED  BY <1>2, <3>1, <3>2, <3>3, Bounds
  <2>2. ASSUME NEW i \in 1..Len(d), NEW j \in 1..Len(d), d[i].ino = d[j].ino
        PROVE  i = j
    <3>1. PICK m \in 1..Len(dirent) : d[i] = dirent[m] /\ m = IF i < k THEN i ELSE i + 1
      BY <1>4
    <3>2. PICK l \in 1..Len(dirent) : d[j] = dirent[l] /\ l = IF j < k THEN j ELSE j + 1
      BY <1>4
    <3>3. m = l
      BY <2>2, <3>1, <3>2 DEF Delivers, Numbered
    <3>4. i \in Int /\ j \in Int /\ k \in Int
      BY <1>2, <1>3
    <3> QED  BY <3>1, <3>2, <3>3, <3>4
  <2>3. MaxInitial + (changes + 1) = MaxInitial + changes + 1
    BY <1>2, Bounds
  <2> QED  BY <1>1, <2>1, <2>2, <2>3 DEF Numbered
<1>6. Waiting'
  <2> SUFFICES ASSUME Opening, ~replied, NEW e \in stayed, e # dirent[k]
               PROVE  \E i \in 1..Len(d) : i <= count /\ d[i] = e
    BY <1>1 DEF Waiting, Opening
  <2>1. PICK i \in 1..Len(dirent) : i <= count /\ dirent[i] = e
    BY DEF Delivers, Waiting
  <2>2. CASE i < k
    <3>1. i \in 1..Len(d) /\ d[i] = e
      BY <1>2, <1>3, <2>1, <2>2
    <3> QED  BY <2>1, <3>1
  <2>3. CASE i > k
    <3>1. i - 1 \in 1..Len(d) /\ i - 1 <= count /\ ~(i - 1 < k) /\ (i - 1) + 1 = i
      BY <1>2, <1>3, <2>1, <2>3
    <3>2. d[i - 1] = e
      BY <1>3, <2>1, <3>1
    <3> QED  BY <3>1, <3>2
  <2>4. i # k
    BY <2>1
  <2> QED  BY <1>3, <2>2, <2>3, <2>4
<1> QED  BY <1>1, <1>5, <1>6, ChangeDelivers

LEMMA OpendirDelivers ==
  ASSUME Typed, Delivers, GetSize \/ GetSizeRefused \/ GetSizeFails \/ BeginCopy \/ GetFails
  PROVE  Delivers'
<1>1. UNCHANGED <<dirent, changes>> /\ pc' \notin Opened
  BY DEF GetSize, GetSizeRefused, GetSizeFails, SizeFailed, BeginCopy, GetFails, Replies,
         Opened, counters
<1>2. Numbered'
  BY <1>1 DEF Delivers, Numbered
<1>3. CASE GetSize
  <2>1. dirent' = dirent /\ count' = Len(dirent) /\ stayed' = InDir
    BY <1>3 DEF GetSize
  <2>2. InDir = {dirent[i] : i \in 1..Len(dirent)} /\ Len(dirent) \in Nat
    BY DEF InDir, ToSet, Typed
  <2>3. Waiting'
    BY <2>1, <2>2 DEF Waiting
  <2> QED  BY <1>1, <1>2, <2>3 DEF Delivers
<1>4. CASE GetSizeRefused \/ GetSizeFails
  <2>1. Waiting'
    BY <1>4 DEF GetSizeRefused, GetSizeFails, SizeFailed, Waiting
  <2> QED  BY <1>1, <1>2, <2>1 DEF Delivers
<1>5. CASE BeginCopy \/ GetFails
  <2>1. UNCHANGED <<dirent, count, replied, stayed>> /\ pc = "fetch"
    BY <1>5 DEF BeginCopy, GetFails, history
  <2>2. Waiting'
    BY <2>1 DEF Delivers, Waiting, Opening
  <2> QED  BY <1>1, <1>2, <2>2 DEF Delivers
<1> QED  BY <1>3, <1>4, <1>5

\* What waited is copied.
LEMMA EndCopyDelivers ==
  ASSUME Typed, Delivers, EndCopy
  PROVE  Delivers'
<1>1. /\ UNCHANGED <<dirent, changes, count, replied, stayed, raced>>
      /\ pc = "copy" /\ pc' \in {"fault", "open"}
  BY DEF EndCopy, Replies, counters, history
<1>2. Numbered' /\ Waiting'
  BY <1>1 DEF Delivers, Numbered, Waiting, Opening
<1>3. ASSUME pc' = "open", ~raced
      PROVE  Copies' /\ Given'
  <2>1. vec' = Copied(dirent) /\ offset' = 0 /\ got' = {} /\ twice' = FALSE /\ ~replied
    BY <1>3 DEF EndCopy, Replies
  <2>2. dirent \in Seq(Ent) /\ Len(dirent) \in Nat /\ count \in Nat
    BY Bounds DEF Typed
  <2>3. /\ Len(vec') = count
        /\ \A i \in 1..count : vec'[i].name = "" => i > Len(dirent)
    BY <2>1, <2>2, CopiedFacts
  <2>4. \A i \in 1..count : vec'[i] = IF i <= Len(dirent) THEN Dumped(dirent[i]) ELSE Zeroed
    BY <2>1, <2>2 DEF Copied
  <2>5. \A e \in Ent : Dumped(e).ino = e.ino /\ (e.name \notin LongNames => Dumped(e) = e)
    BY DEF Dumped, Ent
  <2>6. Zeroed.name = ""
    BY DEF Zeroed
  <2>7. ASSUME NEW e \in stayed, e.name \notin LongNames
        PROVE  \E i \in 1..count : vec'[i] = e /\ vec'[i].name # ""
    <3>1. PICK i \in 1..Len(dirent) : i <= count /\ dirent[i] = e
      BY <1>1, <2>1 DEF Delivers, Waiting, Opening
    <3>2. i \in 1..count /\ i <= Len(dirent) /\ ~(i > Len(dirent)) /\ e \in Ent
      BY <2>2, <3>1
    <3> QED  BY <2>3, <2>4, <2>5, <2>7, <3>1, <3>2
  <2>8. ASSUME NEW i \in 1..count, NEW j \in 1..count, vec'[i].name # "", vec'[i] = vec'[j]
        PROVE  i = j
    <3>1. i <= Len(dirent) /\ j <= Len(dirent)
      BY <2>4, <2>6, <2>8
    <3>2. i \in 1..Len(dirent) /\ j \in 1..Len(dirent)
      BY <2>2, <3>1
    <3>3. dirent[i] \in Ent /\ dirent[j] \in Ent
      BY <2>2, <3>2
    <3>4. vec'[i] = Dumped(dirent[i]) /\ vec'[j] = Dumped(dirent[j])
      BY <2>4, <3>1
    <3>5. dirent[i].ino = dirent[j].ino
      BY <2>5, <2>8, <3>3, <3>4
    <3> QED  BY <3>2, <3>5 DEF Delivers, Numbered
  <2>9. ASSUME NEW i \in 1..count, NEW j \in 1..count, i <= j, vec'[i].name = ""
        PROVE  vec'[j].name = ""
    <3>0. i > Len(dirent)
      BY <2>3, <2>9
    <3>1. ~(j <= Len(dirent))
      <4>1. i \in Nat /\ j \in Nat /\ i <= j /\ Len(dirent) \in Nat
        <5>1. \A m \in 1..count : m \in Nat
          BY <2>2
        <5> QED  BY <2>2, <2>9, <5>1
      <4> QED  BY <3>0, <4>1
    <3> QED  BY <2>4, <2>6, <3>1
  <2>10. Copies'
    BY <1>1, <2>3, <2>7, <2>8, <2>9 DEF Copies
  <2>11. Given'
    <3>1. {vec'[i] : i \in 1..0} = {} /\ \A i \in 1..0 : FALSE
      OBVIOUS
    <3>2. 0 <= Len(vec')
      <4>1. Len(vec') = count /\ count \in Nat
        BY <2>2, <2>3
      <4>2. 0 <= count
        BY <4>1
      <4> QED  BY <4>1, <4>2
    <3> QED  BY <1>3, <2>1, <3>1, <3>2 DEF Given
  <2> QED  BY <2>10, <2>11
<1> QED  BY <1>1, <1>2, <1>3 DEF Delivers, Opened

\* The reader gets the next entries, up to a zeroed one.
LEMMA ReaddirDelivers ==
  ASSUME Typed, Delivers, NEW n \in 1..2, Readdir(n)
  PROVE  Delivers'
<1> DEFINE last == IF offset + n < Len(vec) THEN offset + n ELSE Len(vec)
           bad == {i \in (offset + 1)..last : vec[i].name = ""}
           least == CHOOSE i \in bad : \A j \in bad : i <= j
           good == IF bad = {} THEN last ELSE least - 1
           given == {vec[i] : i \in (offset + 1)..good}
<1>1. /\ UNCHANGED <<dirent, changes, count, replied, vec, stayed, raced>>
      /\ pc = "open"
      /\ got' = got \cup given /\ twice' = (twice \/ given \cap got # {})
      /\ offset' = (IF good > offset THEN NextOffset(good) ELSE offset)
      /\ pc' = (IF bad # {} THEN "error" ELSE IF last = offset THEN "end" ELSE "open")
  BY DEF Readdir, counters, history
<1>2. Numbered' /\ Waiting'
  BY <1>1 DEF Delivers, Numbered, Waiting, Opening
<1> SUFFICES ASSUME ~raced PROVE Copies' /\ Given'
  BY <1>1, <1>2 DEF Delivers
<1>3. Copies /\ Given
  BY <1>1 DEF Delivers, Opened
<1>4. Copies'
  BY <1>1, <1>3 DEF Copies
<1>5. /\ offset \in Nat /\ Len(vec) \in Nat /\ offset <= Len(vec)
      /\ last \in Nat /\ offset <= last /\ last <= Len(vec)
      /\ last = offset => offset = Len(vec)
  <2>1. offset \in Nat /\ Len(vec) \in Nat
    BY DEF Typed
  <2>2. offset <= Len(vec)
    BY <1>3 DEF Given
  <2>3. n \in {1, 2}
    OBVIOUS
  <2> QED  BY <2>1, <2>2, <2>3
<1> HIDE DEF last
<1>6. \A i : i \in bad <=> i \in (offset + 1)..last /\ vec[i].name = ""
  BY DEF bad
<1> HIDE DEF bad
<1>7. bad # {} => least \in bad /\ \A j \in bad : least <= j
  <2>1. bad \subseteq Nat
    <3>1. \A i \in (offset + 1)..last : i \in Nat
      BY <1>5
    <3> QED  BY <1>6, <3>1
  <2> QED  BY <2>1, Least
<1> HIDE DEF least
<1>8. /\ good \in Nat /\ offset <= good /\ good <= Len(vec)
      /\ bad # {} => good + 1 = least /\ good < Len(vec)
  <2>1. CASE bad = {}
    BY <1>5, <2>1
  <2>2. CASE bad # {}
    <3>1. least \in (offset + 1)..last
      BY <1>6, <1>7, <2>2
    <3> QED  BY <1>5, <2>2, <3>1
  <2> QED  BY <2>1, <2>2
<1>9. ASSUME NEW i \in (offset + 1)..good
      PROVE  vec[i].name # ""
  <2>1. i \notin bad
    <3> SUFFICES ASSUME i \in bad PROVE FALSE
      OBVIOUS
    <3>1. least <= i /\ good + 1 = least /\ i <= good /\ i \in Int
      BY <1>5, <1>7, <1>8, <1>9
    <3> QED  BY <1>8, <3>1
  <2>2. i \in (offset + 1)..last
    <3>1. good <= last
      <4>1. CASE bad = {}
        BY <1>5, <4>1 DEF good
      <4>2. CASE bad # {}
        <5>1. least \in (offset + 1)..last /\ good + 1 = least
          BY <1>6, <1>7, <1>8, <4>2
        <5> QED  BY <1>5, <1>8, <5>1
      <4> QED  BY <4>1, <4>2
    <3> QED  BY <1>5, <1>8, <1>9, <3>1
  <2> QED  BY <1>6, <2>1, <2>2
<1>10. offset' = good
  BY <1>1, <1>5, <1>8 DEF NextOffset
<1> HIDE DEF good
<1>11. /\ got = {vec[i] : i \in 1..offset} /\ ~twice
       /\ \A i \in 1..offset : vec[i].name # ""
  BY <1>3 DEF Given
<1>12. \A i \in 1..good : i \in 1..offset \/ i \in (offset + 1)..good
  BY <1>5, <1>8
<1>13. \A i : i \in 1..offset \/ i \in (offset + 1)..good => i \in 1..good
  BY <1>5, <1>8
<1>14. got \cup given = {vec[i] : i \in 1..good}
  BY <1>11, <1>12, <1>13
<1>15. given \cap got = {}
  <2> SUFFICES ASSUME NEW i \in (offset + 1)..good, NEW j \in 1..offset, vec[i] = vec[j]
               PROVE  FALSE
    BY <1>11
  <2>1. i \in 1..Len(vec) /\ j \in 1..Len(vec) /\ i # j
    BY <1>5, <1>8
  <2> QED  BY <1>3, <1>9, <2>1 DEF Copies
<1> HIDE DEF given
<1>16. \A i \in 1..good : vec[i].name # ""
  BY <1>9, <1>11, <1>12
<1>17. pc' = "end" => good = Len(vec)
  <2>1. pc' = "end" => bad = {} /\ last = offset
    BY <1>1
  <2> QED  BY <1>5, <1>8, <2>1
<1>18. pc' = "error" => good < Len(vec) /\ vec[good + 1].name = ""
  <2>1. pc' = "error" => bad # {}
    BY <1>1
  <2> QED  BY <1>6, <1>7, <1>8, <2>1
<1>19. Given'
  BY <1>1, <1>8, <1>10, <1>11, <1>14, <1>15, <1>16, <1>17, <1>18 DEF Given
<1> QED  BY <1>4, <1>19

LEMMA RewindDelivers ==
  ASSUME Typed, Delivers, Rewind
  PROVE  Delivers'
<1>1. /\ UNCHANGED <<dirent, changes, count, replied, vec, stayed, raced>>
      /\ pc \in Opened /\ pc' = "open" /\ offset' = 0 /\ got' = {} /\ twice' = FALSE
  BY DEF Rewind, Opened, history
<1>2. Numbered' /\ Waiting'
  BY <1>1 DEF Delivers, Numbered, Waiting, Opening
<1>3. Copies => Copies'
  BY <1>1 DEF Copies
<1>4. Given'
  <2>1. 1..0 = {} /\ Len(vec) \in Nat
    BY DEF Typed
  <2> QED  BY <1>1, <2>1 DEF Given
<1> QED  BY <1>1, <1>2, <1>3, <1>4 DEF Delivers

LEMMA ReleaseDelivers ==
  ASSUME Delivers, Release
  PROVE  Delivers'
<1>1. UNCHANGED <<dirent, changes>> /\ pc' = "closed"
  BY DEF Release, counters
<1> QED  BY <1>1 DEF Delivers, Numbered, Waiting, Opening, Opened

LEMMA NextDelivers == IInv /\ Delivers /\ [Next]_vars => Delivers'
<1> SUFFICES ASSUME IInv, Delivers, [Next]_vars PROVE Delivers'
  OBVIOUS
<1>1. Typed
  BY DEF IInv
<1>2. CASE Next
  BY <1>1, <1>2, CreateDelivers, UnlinkDelivers, OpendirDelivers, EndCopyDelivers, ReaddirDelivers,
     RewindDelivers, ReleaseDelivers DEF Next, Reads
<1>3. CASE UNCHANGED vars
  <2>1. UNCHANGED <<dirent, changes, pc, count, replied, vec, offset, got, twice, stayed, raced>>
    BY <1>3 DEF vars, counters, listing, history
  <2>2. Numbered' /\ Waiting'
    BY <2>1 DEF Delivers, Numbered, Waiting, Opening
  <2>3. (Copies => Copies') /\ (Given => Given')
    BY <2>1 DEF Copies, Given
  <2> QED  BY <2>1, <2>2, <2>3 DEF Delivers
<1> QED  BY <1>2, <1>3

LEMMA DeliversAlways == Spec => [](IInv /\ Delivers)
BY InitInv, InitDelivers, NextInv, NextDelivers, PTL DEF Spec

-----------------------------------------------------------------------------
(* Theorems.                                                               *)

\* A reader meets an error only after an entry was removed between the two
\* ecalls, or the directory changed during the copy, and is never given a
\* zeroed entry (fuse_operations.cpp, secfs_readdir).
THEOREM ErrorsHaveCauses == Spec => []ErrorsExplained
<1>1. IInv => ErrorsExplained
  BY DEF IInv
<1> QED  BY <1>1, InvAlways, PTL

\* A reader that came to the end or to an error has been given every entry
\* that was there from the opendir to its copy, but long names, and nothing
\* twice, whatever other threads created or removed outside the copy and
\* however the kernel cut its reads (fuse_operations.cpp, secfs_opendir and
\* secfs_readdir; ecall_fs.cpp, ecall_fs_get_dirent).
THEOREM ListingsComplete == Spec => []ListsWhatStayed
<1>1. ASSUME Typed, Delivers, Done, ~raced
      PROVE  {e \in stayed : e.name \notin LongNames} \subseteq got /\ ~twice
  <2>1. Copies /\ Given
    BY <1>1 DEF Delivers, Done, Opened
  <2>2. offset \in Nat /\ Len(vec) \in Nat /\ offset <= Len(vec)
    <3>1. offset \in Nat /\ Len(vec) \in Nat
      BY <1>1 DEF Typed
    <3> QED  BY <2>1, <3>1 DEF Given
  <2>3. ASSUME NEW e \in stayed, e.name \notin LongNames
        PROVE  e \in got
    <3>1. PICK i \in 1..Len(vec) : vec[i] = e /\ vec[i].name # ""
      BY <2>1, <2>3 DEF Copies
    <3>2. i <= offset
      <4>1. CASE pc = "end"
        <5>1. offset = Len(vec)
          BY <2>1, <4>1 DEF Given
        <5>2. i <= Len(vec)
          BY <2>2
        <5> QED  BY <5>1, <5>2
      <4>2. CASE pc = "error"
        <5>1. offset < Len(vec)
          BY <2>1, <4>2 DEF Given
        <5>2. vec[offset + 1].name = ""
          BY <2>1, <4>2 DEF Given
        <5>3. offset + 1 \in 1..Len(vec)
          BY <2>2, <5>1
        <5>4. ~(offset + 1 <= i)
          BY <2>1, <3>1, <5>2, <5>3 DEF Copies
        <5> QED  BY <2>2, <5>4
      <4> QED  BY <1>1, <4>1, <4>2 DEF Done
    <3>3. i \in 1..offset
      BY <2>2, <3>2
    <3> QED  BY <2>1, <3>1, <3>3 DEF Given
  <2> QED  BY <2>1, <2>3 DEF Given
<1>2. IInv /\ Delivers => ListsWhatStayed
  BY <1>1 DEF IInv, ListsWhatStayed
<1> QED  BY <1>2, DeliversAlways, PTL

=============================================================================
