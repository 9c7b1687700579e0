---------------------------- MODULE ByteFile_proofs ----------------------------
(***************************************************************************)
(* Theorem: FileIO implements ByteFile, for any chunk size, cache size and *)
(* bounds.                                                                 *)
(*                                                                         *)
(* The argument: a chunk that leaves the cache leaves its data in its file *)
(* under the tag in the table, or was not the chunk's any more; uuids are  *)
(* drawn for one chunk, so that nothing is saved over another chunk than   *)
(* the one at its index; and each write writes bytes of its own, so that   *)
(* data left behind are never taken for the ones a tag was made from.      *)
(***************************************************************************)
EXTENDS FileIO_proofs

-----------------------------------------------------------------------------
(* The refinement invariant.  It is stated of the entries es of the cache, *)
(* a table cs, files ds, the chunks dt written since the last flush and    *)
(* the job j, so that it can be said of the states in the middle of a step.*)

\* Chunk i of the table cs as the files ds have it.
Kept(cs, ds, i) ==
  IF i \notin DOMAIN cs \/ cs[i].uuid = Hole THEN Zeros
  ELSE IF ds[cs[i].uuid] = cs[i].tag THEN cs[i].tag ELSE Lost

\* What a read of chunk i returns.
Holds(e, cs, i) == i \in DOMAIN cs /\ cs[i].uuid = e.key /\ e.live
Seen(es, cs, ds, i) ==
  IF \E e \in es : Holds(e, cs, i) THEN (CHOOSE e \in es : Holds(e, cs, i)).data
  ELSE Kept(cs, ds, i)

\* A uuid was drawn for one chunk, and whoever still has it has it for that.
Has(t, u, i) == i \in DOMAIN t /\ t[i].uuid = u
Home(es, cs, j, u, i) ==
  \/ Has(cs, u, i) \/ Has(stored.chunks, u, i) \/ Has(j.table, u, i)
  \/ \E e \in es : e.key = u /\ e.idx = i
OneHome(es, cs, j) ==
  \A u \in 1..NumUuids, i, k \in Index : Home(es, cs, j, u, i) /\ Home(es, cs, j, u, k) => i = k

\* Data of chunk i were written by writes before the one under way, if that
\* has yet to come to the chunk.
Now(j, i) == IF j.op = "write" /\ i >= j.idx THEN j.byte ELSE writes + 1
Before(d, n) == d # Lost => \A o \in 0..(C - 1) : d[o] < n
Old(j, i, d) == d # Zeros /\ Before(d, Now(j, i))
Ages(es, cs, ds, j) ==
  /\ \A e \in es : Old(j, e.idx, e.data)
  /\ \A i \in DOMAIN cs : Old(j, i, cs[i].tag)
  /\ \A i \in DOMAIN stored.chunks : Old(j, i, stored.chunks[i].tag)
  /\ \A u \in 0..NumUuids : Before(ds[u], writes + 1)

\* What has yet to be saved is not what was saved for the chunk.
Saves(e, t) == e.idx \in DOMAIN t /\ t[e.idx].tag = e.data
Apart(es, cs) ==
  \A e \in es : e.modified =>
    /\ ~Saves(e, cs) /\ ~Saves(e, stored.chunks)
    /\ \A f \in es : f.modified /\ f.idx = e.idx /\ f.data = e.data => f = e

\* A chunk that loses an entry that need not be saved stays as it is, or
\* changes as ByteFile allows.
Cold(es, cs, ds, j) ==
  j.op # "trunc" =>
    \A e \in es, i \in Index : Holds(e, cs, i) /\ ~e.modified =>
      \/ Kept(cs, ds, i) = e.data
      \/ Kept(cs, ds, i) = Lost /\ i \in removed
      \/ <<i, Kept(cs, ds, i)>> \in stale

\* An entry to be saved is its chunk's, written since the last flush, or was
\* left behind by a truncation or a forget.
Warm(es, cs, dt) ==
  \A e \in es : e.modified =>
    \/ <<e.idx, e.data>> \in stale
    \/ Holds(e, cs, e.idx) /\ e.idx \in dt

\* What was flushed is there, but for chunks touched since.
Durable(ds, dt) ==
  \A i \in Index :
    \/ Kept(stored.chunks, ds, i) = saved.arr[i]
    \/ Kept(stored.chunks, ds, i) = Lost /\ (i \in dt \/ \E s \in stale : s[1] = i)

Agrees(es, cs, ds, dt, j) ==
  /\ OneHome(es, cs, j) /\ Ages(es, cs, ds, j) /\ Apart(es, cs)
  /\ Cold(es, cs, ds, j) /\ Warm(es, cs, dt) /\ Durable(ds, dt)

\* What the last flush has stored.
Flushed ==
  /\ saved.size = stored.size /\ DOMAIN saved.arr = Index /\ DOMAIN saved = {"arr", "size"}
  /\ \A i \in Index :
       IF i \in DOMAIN stored.chunks /\ stored.chunks[i].uuid # Hole
       THEN saved.arr[i] \in {stored.chunks[i].tag, Lost} ELSE saved.arr[i] = Zeros

\* The ecall in progress.
Going ==
  /\ job.op = "write" =>
       /\ job.byte = writes /\ job.byte > 0 /\ job.len > 0
       /\ job.off + job.len <= C * MaxChunks /\ job.off \div C + 1 <= job.idx
       /\ job.surplus = (size + C - 1) % C
  /\ job.op = "flush" =>
       \A i \in DOMAIN chunks : i < job.idx => \A e \in Entries : e.key # chunks[i].uuid
  /\ job.op = "trunc" =>
       dirty = Index /\ \A e \in Entries : e.modified => <<e.idx, e.data>> \in stale
  /\ IF job.op = "unlink" THEN stored.chunks = <<>> ELSE job.table = <<>>
  /\ \A i \in DOMAIN job.table : job.table[i].uuid # Hole => i \in removed
  /\ linked => removed = {}

RInv == IInv /\ Agrees(Entries, chunks, disk, dirty, job) /\ Flushed /\ Going
-----------------------------------------------------------------------------
(* What reads return.                                                      *)

Alone(es) == \A e, f \in es : e.key = f.key => e = f
SeenAll(es, cs, ds) == [i \in Index |-> Seen(es, cs, ds, i)]

LEMMA SeenFacts ==
  ASSUME NEW es, Alone(es), NEW cs, NEW ds, NEW i
  PROVE  /\ \A e \in es : Holds(e, cs, i) => Seen(es, cs, ds, i) = e.data
         /\ (\A e \in es : ~Holds(e, cs, i)) => Seen(es, cs, ds, i) = Kept(cs, ds, i)
<1>1. ASSUME NEW e \in es, Holds(e, cs, i)
      PROVE  Seen(es, cs, ds, i) = e.data
  <2> DEFINE f == CHOOSE f \in es : Holds(f, cs, i)
  <2>1. f \in es /\ Holds(f, cs, i)
    BY <1>1
  <2>2. Seen(es, cs, ds, i) = f.data
    BY <1>1 DEF Seen
  <2> HIDE DEF f
  <2>3. f = e
    BY <1>1, <2>1 DEF Holds, Alone
  <2> QED  BY <2>2, <2>3
<1> QED  BY <1>1 DEF Seen

LEMMA KeysAlone ==
  ASSUME NEW q, UniqueKeys(q)
  PROVE  Alone(ToSet(q))
BY DEF UniqueKeys, Alone, ToSet

\* How an eviction, or the flush of a chunk, may change what reads return.
Moves(V, W) ==
  \E k \in Index :
    /\ \A i \in Index \ {k} : W[i] = V[i]
    /\ \/ W[k] = V[k]
       \/ W[k] = Lost /\ k \in removed
       \/ <<k, W[k]>> \in stale

\* An entry leaves the cache, and is saved.
Takes(old, es, cs, ds, fs, ct, dk) ==
  /\ old \in es /\ fs = es \ {old}
  /\ \/ ~old.modified /\ ct = cs /\ dk = ds
     \/ /\ old.modified /\ old.idx \notin DOMAIN cs
        /\ ct = cs /\ dk = [ds EXCEPT ![old.key] = old.data]
     \/ /\ old.modified /\ old.idx \in DOMAIN cs
        /\ ct = [cs EXCEPT ![old.idx].tag = old.data]
        /\ dk = [ds EXCEPT ![cs[old.idx].uuid] = old.data]

\* What holds of the cache, the table and the files throughout.
Sound(es, cs, ds) ==
  /\ es \subseteq Entry /\ Alone(es) /\ ds \in Files /\ Distinct(cs)
  /\ cs \in Seq(Chunk) /\ DOMAIN cs \subseteq Index
  /\ stored.chunks \in Seq(Chunk) /\ DOMAIN stored.chunks \subseteq Index

LEMMA TakesFacts ==
  ASSUME NEW es, NEW cs, NEW ds, NEW fs, NEW ct, NEW dk, NEW old,
         Sound(es, cs, ds), Takes(old, es, cs, ds, fs, ct, dk)
  PROVE  /\ old \in Entry /\ old.idx \in Index /\ old.key \in 1..NumUuids
         /\ old.data \in Bytes /\ old.data # Lost
         /\ fs \subseteq es /\ DOMAIN ct = DOMAIN cs
         /\ \A i \in DOMAIN cs : ct[i].uuid = cs[i].uuid
         /\ \A i \in DOMAIN cs : i # old.idx \/ ~old.modified => ct[i] = cs[i]
         /\ old.modified /\ old.idx \in DOMAIN cs =>
              /\ ct[old.idx].tag = old.data
              /\ dk[cs[old.idx].uuid] = old.data
         /\ \A u \in 0..NumUuids :
              \/ dk[u] = ds[u]
              \/ /\ old.modified /\ dk[u] = old.data
                 /\ u = IF old.idx \in DOMAIN cs THEN cs[old.idx].uuid ELSE old.key
<1>1. old \in es /\ old \in Entry /\ fs = es \ {old}
  BY DEF Takes, Sound
<1>2. old.idx \in Index /\ old.key \in 1..NumUuids /\ old.data \in Bytes /\ old.data # Lost
  BY <1>1, BytesNotLost DEF Entry
<1>3. old.key \in 0..NumUuids /\ ds \in Files
  BY <1>2 DEF Sound
<1>4. \A i \in DOMAIN cs : cs[i] \in Chunk /\ cs[i].uuid \in 0..NumUuids
  <2>1. \A i \in DOMAIN cs : cs[i] \in Chunk
    BY DEF Sound
  <2> QED  BY <2>1 DEF Chunk
<1>5. CASE ~old.modified /\ ct = cs /\ dk = ds
  BY <1>1, <1>2, <1>5
<1>6. CASE /\ old.modified /\ old.idx \notin DOMAIN cs
           /\ ct = cs /\ dk = [ds EXCEPT ![old.key] = old.data]
  BY <1>1, <1>2, <1>3, <1>6 DEF Files
<1>7. CASE /\ old.modified /\ old.idx \in DOMAIN cs
           /\ ct = [cs EXCEPT ![old.idx].tag = old.data]
           /\ dk = [ds EXCEPT ![cs[old.idx].uuid] = old.data]
  <2>1. DOMAIN ct = DOMAIN cs /\ \A i \in DOMAIN cs : i # old.idx => ct[i] = cs[i]
    BY <1>7
  <2>2. ct[old.idx].tag = old.data /\ ct[old.idx].uuid = cs[old.idx].uuid
    BY <1>4, <1>7 DEF Chunk
  <2>3. dk[cs[old.idx].uuid] = old.data
    BY <1>3, <1>4, <1>7 DEF Files
  <2>4. \A u \in 0..NumUuids : u # cs[old.idx].uuid => dk[u] = ds[u]
    BY <1>3, <1>7 DEF Files
  <2> QED  BY <1>1, <1>2, <1>7, <2>1, <2>2, <2>3, <2>4
<1> QED  BY <1>5, <1>6, <1>7 DEF Takes

\* An entry is saved for the chunk at its index and for no other.
LEMMA TakesKept ==
  ASSUME NEW es, NEW cs, NEW ds, NEW fs, NEW ct, NEW dk, NEW old, NEW j,
         Sound(es, cs, ds), Takes(old, es, cs, ds, fs, ct, dk), OneHome(es, cs, j)
  PROVE  /\ \A i \in Index : i # old.idx => Kept(ct, dk, i) = Kept(cs, ds, i)
         /\ \/ Kept(ct, dk, old.idx) = Kept(cs, ds, old.idx)
            \/ /\ Kept(ct, dk, old.idx) = old.data /\ old.modified
               /\ old.idx \in DOMAIN cs
         /\ old.modified /\ Holds(old, cs, old.idx) => Kept(ct, dk, old.idx) = old.data
         /\ ~old.modified => Kept(ct, dk, old.idx) = Kept(cs, ds, old.idx)
<1>1. /\ old \in Entry /\ old.idx \in Index /\ old.key \in 1..NumUuids
      /\ old.data \in Bytes /\ old.data # Lost
      /\ fs \subseteq es /\ DOMAIN ct = DOMAIN cs
      /\ \A i \in DOMAIN cs : ct[i].uuid = cs[i].uuid
      /\ \A i \in DOMAIN cs : i # old.idx \/ ~old.modified => ct[i] = cs[i]
      /\ old.modified /\ old.idx \in DOMAIN cs =>
           ct[old.idx].tag = old.data /\ dk[cs[old.idx].uuid] = old.data
      /\ \A u \in 0..NumUuids :
           \/ dk[u] = ds[u]
           \/ /\ old.modified /\ dk[u] = old.data
              /\ u = IF old.idx \in DOMAIN cs THEN cs[old.idx].uuid ELSE old.key
  BY TakesFacts
<1>2. old \in es
  BY DEF Takes
<1>3. \A i \in DOMAIN cs : cs[i].uuid \in 0..NumUuids /\ i \in Index
  <2>1. \A i \in DOMAIN cs : cs[i] \in Chunk /\ i \in Index
    BY DEF Sound
  <2> QED  BY <2>1 DEF Chunk
<1>4. ASSUME NEW i \in Index, i # old.idx
      PROVE  Kept(ct, dk, i) = Kept(cs, ds, i)
  <2>1. CASE i \notin DOMAIN cs \/ cs[i].uuid = Hole
    BY <1>1, <2>1 DEF Kept
  <2>2. CASE i \in DOMAIN cs /\ cs[i].uuid # Hole
    <3>1. ct[i] = cs[i] /\ cs[i].uuid \in 0..NumUuids /\ cs[i].uuid \in 1..NumUuids
      BY <1>1, <1>3, <1>4, <2>2, Sizes DEF Hole
    <3>2. old.idx \in DOMAIN cs => cs[i].uuid # cs[old.idx].uuid
      BY <1>4, <2>2 DEF Sound, Distinct
    <3>3. cs[i].uuid # old.key
      BY <1>1, <1>2, <1>4, <2>2, <3>1 DEF OneHome, Home, Has
    <3>4. dk[cs[i].uuid] = ds[cs[i].uuid]
      BY <1>1, <3>1, <3>2, <3>3
    <3> QED  BY <1>1, <2>2, <3>1, <3>4 DEF Kept
  <2> QED  BY <2>1, <2>2
<1>5. CASE old.idx \notin DOMAIN cs
  BY <1>1, <1>4, <1>5 DEF Kept, Holds
<1>6. CASE old.idx \in DOMAIN cs
  <2>1. CASE ~old.modified
    <3>1. dk[cs[old.idx].uuid] = ds[cs[old.idx].uuid]
      BY <1>1, <1>3, <1>6, <2>1
    <3>2. Kept(ct, dk, old.idx) = Kept(cs, ds, old.idx)
      BY <1>1, <1>6, <2>1, <3>1 DEF Kept
    <3> QED  BY <1>4, <2>1, <3>2
  <2>2. CASE old.modified /\ cs[old.idx].uuid = Hole
    <3>1. Kept(ct, dk, old.idx) = Kept(cs, ds, old.idx)
      BY <1>1, <1>6, <2>2 DEF Kept
    <3>2. ~Holds(old, cs, old.idx)
      BY <1>1, <2>2, Sizes DEF Holds, Hole
    <3> QED  BY <1>4, <2>2, <3>1, <3>2
  <2>3. CASE old.modified /\ cs[old.idx].uuid # Hole
    <3>1. Kept(ct, dk, old.idx) = old.data
      BY <1>1, <1>6, <2>3 DEF Kept
    <3> QED  BY <1>4, <1>6, <2>3, <3>1
  <2> QED  BY <2>1, <2>2, <2>3
<1> QED  BY <1>5, <1>6

\* What was flushed last is lost only where an entry is saved.
LEMMA TakesStored ==
  ASSUME NEW es, NEW cs, NEW ds, NEW fs, NEW ct, NEW dk, NEW old, NEW j,
         Sound(es, cs, ds), Takes(old, es, cs, ds, fs, ct, dk), OneHome(es, cs, j),
         Apart(es, cs), NEW i \in Index
  PROVE  \/ Kept(stored.chunks, dk, i) = Kept(stored.chunks, ds, i)
         \/ Kept(stored.chunks, dk, i) = Lost /\ i = old.idx /\ old.modified
<1> DEFINE t == stored.chunks
<1>1. /\ old \in Entry /\ old.idx \in Index /\ old.key \in 1..NumUuids
      /\ \A u \in 0..NumUuids :
           \/ dk[u] = ds[u]
           \/ /\ old.modified /\ dk[u] = old.data
              /\ u = IF old.idx \in DOMAIN cs THEN cs[old.idx].uuid ELSE old.key
  BY TakesFacts
<1>2. old \in es
  BY DEF Takes
<1>3. t \in Seq(Chunk)
  BY DEF Sound
<1> HIDE DEF t
<1>4. CASE i \notin DOMAIN t \/ t[i].uuid = Hole
  BY <1>4 DEF Kept, t
<1>5. CASE i \in DOMAIN t /\ t[i].uuid # Hole
  <2> DEFINE u == t[i].uuid
  <2>1. u \in 0..NumUuids /\ u \in 1..NumUuids
    <3>1. t[i] \in Chunk
      BY <1>3, <1>5
    <3> QED  BY <1>5, <3>1, Sizes DEF Chunk, Hole
  <2>2. CASE dk[u] = ds[u]
    BY <2>2 DEF Kept, t
  <2>3. CASE /\ old.modified /\ dk[u] = old.data
             /\ u = IF old.idx \in DOMAIN cs THEN cs[old.idx].uuid ELSE old.key
    <3>1. Home(es, cs, j, u, i) /\ Home(es, cs, j, u, old.idx)
      BY <1>2, <1>5, <2>3 DEF Home, Has, t
    <3>2. i = old.idx
      BY <1>1, <2>1, <3>1 DEF OneHome
    <3>3. t[i].tag # old.data
      BY <1>2, <1>5, <2>3, <3>2 DEF Apart, Saves, t
    <3>4. Kept(t, dk, i) = Lost
      BY <1>5, <2>3, <3>3 DEF Kept
    <3> QED  BY <2>3, <3>2, <3>4 DEF t
  <2> QED  BY <1>1, <2>1, <2>2, <2>3
<1> QED  BY <1>4, <1>5

\* Saving an entry keeps everything in order.
LEMMA TakesAgrees ==
  ASSUME NEW es, NEW cs, NEW ds, NEW fs, NEW ct, NEW dk, NEW old, NEW dt, NEW j,
         Sound(es, cs, ds), Takes(old, es, cs, ds, fs, ct, dk), Agrees(es, cs, ds, dt, j),
         writes \in Nat, j.op = "write" => j.byte \in Nat /\ j.byte <= writes
  PROVE  Agrees(fs, ct, dk, dt, j)
<1>1. /\ old \in Entry /\ old.idx \in Index /\ old.key \in 1..NumUuids
      /\ old.data \in Bytes /\ old.data # Lost
      /\ fs \subseteq es /\ DOMAIN ct = DOMAIN cs
      /\ \A i \in DOMAIN cs : ct[i].uuid = cs[i].uuid
      /\ \A i \in DOMAIN cs : i # old.idx \/ ~old.modified => ct[i] = cs[i]
      /\ old.modified /\ old.idx \in DOMAIN cs =>
           ct[old.idx].tag = old.data /\ dk[cs[old.idx].uuid] = old.data
      /\ \A u \in 0..NumUuids : dk[u] = ds[u] \/ dk[u] = old.data
  BY TakesFacts
<1>2. old \in es /\ fs = es \ {old}
  BY DEF Takes
<1>3. /\ OneHome(es, cs, j) /\ Ages(es, cs, ds, j) /\ Apart(es, cs)
      /\ Cold(es, cs, ds, j) /\ Warm(es, cs, dt) /\ Durable(ds, dt)
  BY DEF Agrees
<1>4. /\ \A i \in Index : i # old.idx => Kept(ct, dk, i) = Kept(cs, ds, i)
      /\ \/ Kept(ct, dk, old.idx) = Kept(cs, ds, old.idx)
         \/ /\ Kept(ct, dk, old.idx) = old.data /\ old.modified
            /\ old.idx \in DOMAIN cs
  BY <1>3, TakesKept
<1>5. \A e \in fs, i \in Index : Holds(e, ct, i) => Holds(e, cs, i) /\ e \in es
  BY <1>1 DEF Holds
<1>6. OneHome(fs, ct, j)
  <2>1. ASSUME NEW u, NEW i, Home(fs, ct, j, u, i)
        PROVE  Home(es, cs, j, u, i)
    BY <1>1, <2>1 DEF Home, Has
  <2> QED  BY <1>3, <2>1 DEF OneHome
<1>7. Ages(fs, ct, dk, j)
  <2>1. Old(j, old.idx, old.data)
    BY <1>2, <1>3 DEF Ages
  <2>2. Before(old.data, writes + 1)
    <3>1. \A o \in 0..(C - 1) : old.data[o] \in Nat
      <4>1. old.data \in Bytes
        BY <1>1
      <4> QED  BY <4>1, Sizes DEF Bytes
    <3> QED  BY <1>1, <2>1, <3>1 DEF Old, Before, Now
  <2>3. \A i \in DOMAIN ct : ct[i].tag = cs[i].tag \/ (i = old.idx /\ ct[i].tag = old.data)
    BY <1>1
  <2>4. \A i \in DOMAIN ct : Old(j, i, ct[i].tag)
    BY <1>1, <1>3, <2>1, <2>3 DEF Ages
  <2>5. \A u \in 0..NumUuids : Before(dk[u], writes + 1)
    <3>1. \A u \in 0..NumUuids : Before(ds[u], writes + 1)
      BY <1>3 DEF Ages
    <3> QED  BY <1>1, <2>2, <3>1
  <2> QED  BY <1>1, <1>3, <2>4, <2>5 DEF Ages
<1>8. Apart(fs, ct)
  <2> SUFFICES ASSUME NEW e \in fs, e.modified, Saves(e, ct)
               PROVE  FALSE
    BY <1>1, <1>3 DEF Apart
  <2>1. e \in es /\ e # old /\ ~Saves(e, cs)
    BY <1>2, <1>3 DEF Apart
  <2>2. e.idx = old.idx /\ old.modified /\ e.data = old.data
    BY <1>1, <2>1 DEF Saves
  <2> QED  BY <1>2, <1>3, <2>1, <2>2 DEF Apart
<1>9. Cold(fs, ct, dk, j)
  <2> SUFFICES ASSUME j.op # "trunc", NEW e \in fs, NEW i \in Index, Holds(e, ct, i), ~e.modified
               PROVE  \/ Kept(ct, dk, i) = e.data
                      \/ Kept(ct, dk, i) = Lost /\ i \in removed
                      \/ <<i, Kept(ct, dk, i)>> \in stale
    BY DEF Cold
  <2>1. e \in es /\ e # old /\ Holds(e, cs, i)
    BY <1>2, <1>5
  <2>2. CASE Kept(ct, dk, i) = Kept(cs, ds, i)
    BY <1>3, <2>1, <2>2 DEF Cold
  <2>3. CASE Kept(ct, dk, i) # Kept(cs, ds, i)
    <3>1. i = old.idx /\ Kept(ct, dk, i) = old.data /\ old.modified
      BY <1>4, <2>3
    <3>2. ~Holds(old, cs, i)
      BY <1>2, <2>1 DEF Sound, Alone, Holds
    <3> QED  BY <1>2, <1>3, <3>1, <3>2 DEF Warm
  <2> QED  BY <2>2, <2>3
<1>10. Warm(fs, ct, dt)
  <2>1. \A e \in fs, i \in Index : Holds(e, cs, i) => Holds(e, ct, i)
    BY <1>1 DEF Holds
  <2>2. \A e \in fs : e \in es /\ e.idx \in Index
    BY <1>1 DEF Sound, Entry
  <2> QED  BY <1>3, <2>1, <2>2 DEF Warm
<1>11. Durable(dk, dt)
  <2> SUFFICES ASSUME NEW i \in Index
               PROVE  \/ Kept(stored.chunks, dk, i) = saved.arr[i]
                      \/ /\ Kept(stored.chunks, dk, i) = Lost
                         /\ i \in dt \/ \E s \in stale : s[1] = i
    BY DEF Durable
  <2>1. CASE Kept(stored.chunks, dk, i) = Kept(stored.chunks, ds, i)
    BY <1>3, <2>1 DEF Durable
  <2>2. CASE Kept(stored.chunks, dk, i) = Lost /\ i = old.idx /\ old.modified
    BY <1>2, <1>3, <2>2 DEF Warm
  <2> QED  BY <1>3, <2>1, <2>2, TakesStored
<1> QED  BY <1>6, <1>7, <1>8, <1>9, <1>10, <1>11 DEF Agrees

\* What reads return changes in at most one chunk, which was not to be saved.
LEMMA TakesMoves ==
  ASSUME NEW es, NEW cs, NEW ds, NEW fs, NEW ct, NEW dk, NEW old, NEW dt, NEW j,
         Sound(es, cs, ds), Takes(old, es, cs, ds, fs, ct, dk), Agrees(es, cs, ds, dt, j),
         j.op # "trunc"
  PROVE  /\ Moves(SeenAll(es, cs, ds), SeenAll(fs, ct, dk))
         /\ \A i \in Index, e \in es : Holds(e, cs, i) /\ e.modified => Seen(fs, ct, dk, i) = e.data
<1>1. /\ old \in Entry /\ old.idx \in Index /\ fs \subseteq es /\ DOMAIN ct = DOMAIN cs
      /\ \A i \in DOMAIN cs : ct[i].uuid = cs[i].uuid
  BY TakesFacts
<1>2. old \in es /\ fs = es \ {old} /\ Alone(es) /\ Alone(fs)
  BY DEF Takes, Sound, Alone
<1>3. OneHome(es, cs, j) /\ Cold(es, cs, ds, j) /\ Warm(es, cs, dt)
  BY DEF Agrees
<1>4. /\ \A i \in Index : i # old.idx => Kept(ct, dk, i) = Kept(cs, ds, i)
      /\ \/ Kept(ct, dk, old.idx) = Kept(cs, ds, old.idx)
         \/ Kept(ct, dk, old.idx) = old.data /\ old.modified
      /\ old.modified /\ Holds(old, cs, old.idx) => Kept(ct, dk, old.idx) = old.data
      /\ ~old.modified => Kept(ct, dk, old.idx) = Kept(cs, ds, old.idx)
  BY <1>3, TakesKept
<1>5. \A e, i : Holds(e, ct, i) <=> Holds(e, cs, i)
  BY <1>1 DEF Holds
<1>6. \A i \in Index : Holds(old, cs, i) => i = old.idx
  <2> TAKE i \in Index
  <2>1. Holds(old, cs, i) => Home(es, cs, j, old.key, i) /\ Home(es, cs, j, old.key, old.idx)
    BY <1>2 DEF Holds, Home, Has
  <2>2. old.key \in 1..NumUuids
    BY <1>1 DEF Entry
  <2> QED  BY <1>1, <1>3, <2>1, <2>2 DEF OneHome
<1> DEFINE V(i) == Seen(es, cs, ds, i)
           W(i) == Seen(fs, ct, dk, i)
<1>7. \A i \in Index :
        /\ \A e \in es : Holds(e, cs, i) => V(i) = e.data
        /\ (\A e \in es : ~Holds(e, cs, i)) => V(i) = Kept(cs, ds, i)
        /\ \A e \in es : Holds(e, cs, i) /\ e # old => W(i) = e.data
        /\ (\A e \in es : e # old => ~Holds(e, cs, i)) => W(i) = Kept(ct, dk, i)
  <2> TAKE i \in Index
  <2>1. /\ \A e \in es : Holds(e, cs, i) => V(i) = e.data
        /\ (\A e \in es : ~Holds(e, cs, i)) => V(i) = Kept(cs, ds, i)
    BY <1>2, SeenFacts
  <2>2. /\ \A e \in fs : Holds(e, ct, i) => W(i) = e.data
        /\ (\A e \in fs : ~Holds(e, ct, i)) => W(i) = Kept(ct, dk, i)
    BY <1>2, SeenFacts
  <2> QED  BY <1>2, <1>5, <2>1, <2>2
<1> HIDE DEF V, W
<1>8. ASSUME NEW i \in Index, i # old.idx
      PROVE  W(i) = V(i)
  BY <1>4, <1>6, <1>7, <1>8
<1>9. LET k == old.idx IN
      \/ W(k) = V(k)
      \/ W(k) = Lost /\ k \in removed
      \/ <<k, W(k)>> \in stale
  <2> DEFINE k == old.idx
  <2>1. CASE \E e \in es : e # old /\ Holds(e, cs, k)
    BY <1>1, <1>7, <2>1
  <2>2. CASE (\A e \in es : e # old => ~Holds(e, cs, k)) /\ Holds(old, cs, k)
    <3>1. V(k) = old.data /\ W(k) = Kept(ct, dk, k)
      BY <1>1, <1>2, <1>7, <2>2
    <3>2. CASE old.modified
      BY <1>4, <2>2, <3>1, <3>2
    <3>3. CASE ~old.modified
      BY <1>1, <1>2, <1>3, <1>4, <2>2, <3>1, <3>3 DEF Cold
    <3> QED  BY <3>2, <3>3
  <2>3. CASE \A e \in es : ~Holds(e, cs, k)
    <3>1. V(k) = Kept(cs, ds, k) /\ W(k) = Kept(ct, dk, k)
      BY <1>1, <1>7, <2>3
    <3>2. CASE Kept(ct, dk, k) = old.data /\ old.modified
      BY <1>2, <1>3, <2>3, <3>1, <3>2 DEF Warm
    <3> QED  BY <1>4, <3>1, <3>2
  <2> QED  BY <2>1, <2>2, <2>3
<1>10. Moves(SeenAll(es, cs, ds), SeenAll(fs, ct, dk))
  <2>1. \A i \in Index : SeenAll(es, cs, ds)[i] = V(i) /\ SeenAll(fs, ct, dk)[i] = W(i)
    BY DEF SeenAll, V, W
  <2> QED  BY <1>1, <1>8, <1>9, <2>1 DEF Moves
<1>11. ASSUME NEW i \in Index, NEW e \in es, Holds(e, cs, i), e.modified
       PROVE  W(i) = e.data
  <2>1. CASE e # old
    BY <1>7, <1>11, <2>1
  <2>2. CASE e = old
    <3>1. i = old.idx
      BY <1>6, <1>11, <2>2
    <3>2. \A f \in es : f # old => ~Holds(f, cs, i)
      BY <1>2, <1>11, <2>2 DEF Holds, Alone
    <3> QED  BY <1>4, <1>7, <1>11, <2>2, <3>1, <3>2
  <2> QED  BY <2>1, <2>2
<1> QED  BY <1>10, <1>11 DEF W

-----------------------------------------------------------------------------
(* The mapping.                                                            *)

Shown ==
  [i \in Index |->
     IF ~loaded THEN Kept(stored.chunks, disk, i)
     ELSE IF job.op = "trunc" THEN Zeros ELSE Seen(Entries, chunks, disk, i)]

\* The facts about types and positions that the proofs need.
Basics ==
  /\ Sound(Entries, chunks, disk) /\ job \in Jobs /\ writes \in 0..MaxWrites
  /\ UniqueKeys(cache) /\ TypeOK

LEMMA BasicFacts == IInv => Basics
<1> SUFFICES ASSUME IInv PROVE Basics
  OBVIOUS
<1>1. TypeOK /\ job \in Jobs /\ Len(stored.chunks) <= MaxChunks
  BY DEF IInv, Typed
<1>2. Distinct(chunks) /\ UniqueKeys(cache)
  BY DEF IInv, Data
<1>3. /\ chunks \in Seq(Chunk) /\ Len(chunks) <= MaxChunks
      /\ stored.chunks \in Seq(Chunk) /\ disk \in Files
  BY <1>1 DEF TypeOK, Files
<1>4. MaxChunks \in Nat
  BY Sizes
<1>5. DOMAIN chunks \subseteq Index
  BY <1>3, <1>4 DEF Index
<1>6. DOMAIN stored.chunks \subseteq Index
  BY <1>1, <1>3, <1>4 DEF Index
<1>7. Alone(Entries) /\ Entries \subseteq Entry
  BY <1>1, <1>2, KeysAlone, EntryFacts DEF Entries
<1>8. writes \in 0..MaxWrites
  BY <1>1 DEF TypeOK
<1> QED  BY <1>1, <1>2, <1>3, <1>5, <1>6, <1>7, <1>8 DEF Basics, Sound

LEMMA StoredKept ==
  ASSUME NEW cs \in Seq(Chunk), NEW i \in Index
  PROVE  StoredChunk(cs, i) = Kept(cs, disk, i)
<1>1. Len(cs) \in Nat /\ DOMAIN cs = 1..Len(cs) /\ i \in Nat /\ i >= 1
  BY DEF Index
<1>2. (i > Len(cs)) <=> i \notin DOMAIN cs
  BY <1>1
<1>3. (i <= Len(cs)) <=> i \in DOMAIN cs
  BY <1>1
<1> QED  BY <1>2, <1>3 DEF StoredChunk, Kept

Viewed == View = Shown

LEMMA ViewFacts == IInv => Viewed
<1> SUFFICES ASSUME IInv, NEW i \in Index
             PROVE  View[i] = Shown[i]
  BY DEF View, Shown, Viewed
<1>1. Basics
  BY BasicFacts
<1>2. /\ chunks \in Seq(Chunk) /\ stored.chunks \in Seq(Chunk) /\ TypeOK /\ UniqueKeys(cache)
      /\ Alone(Entries)
  BY <1>1 DEF Basics, Sound
<1>3. /\ StoredChunk(chunks, i) = Kept(chunks, disk, i)
      /\ StoredChunk(stored.chunks, i) = Kept(stored.chunks, disk, i)
  BY <1>2, StoredKept
<1>4. CASE ~loaded
  <2>1. job.op # "trunc"
    BY <1>4 DEF IInv, Typed
  <2>2. View[i] = StoredChunk(stored.chunks, i)
    BY <1>4, <2>1 DEF View
  <2>3. Shown[i] = Kept(stored.chunks, disk, i)
    BY <1>4 DEF Shown
  <2> QED  BY <1>3, <2>2, <2>3
<1>6. CASE loaded /\ job.op = "trunc"
  BY <1>6 DEF View, Shown
<1>5. CASE loaded /\ job.op # "trunc"
  <2> DEFINE u == chunks[i].uuid
             held == i <= Len(chunks) /\ Cached(u) /\ EntryOf(u).live
  <2>1. View[i] = IF held THEN EntryOf(u).data ELSE StoredChunk(chunks, i)
    BY <1>5 DEF View
  <2>2. Shown[i] = Seen(Entries, chunks, disk, i)
    BY <1>5 DEF Shown
  <2>3. i \in DOMAIN chunks <=> i <= Len(chunks)
    BY <1>2 DEF Index
  <2>4. CASE held
    <3>1. EntryOf(u) \in Entries /\ Holds(EntryOf(u), chunks, i)
      BY <1>2, <2>3, <2>4, CachedFacts DEF Holds
    <3> QED  BY <1>2, <2>1, <2>2, <2>4, <3>1, SeenFacts
  <2>5. CASE ~held
    <3>1. \A e \in Entries : ~Holds(e, chunks, i)
      BY <1>2, <2>3, <2>5, EntryFacts DEF Holds
    <3>2. Seen(Entries, chunks, disk, i) = Kept(chunks, disk, i)
      BY <1>2, <3>1, SeenFacts
    <3> QED  BY <1>3, <2>1, <2>2, <2>5, <3>2
  <2> QED  BY <2>4, <2>5
<1> QED  BY <1>4, <1>5, <1>6

LEMMA BasicsNext == IInv' => Basics'
BY BasicFacts, PTL

LEMMA ViewNext == IInv' => Viewed'
BY ViewFacts, PTL

\* What is in progress, as ByteFile has it.
LEMMA PendingFacts ==
  /\ job.op \notin {"write", "trunc"} => ViewPending = File!Nothing
  /\ job.op = "trunc" => ViewPending = File!Truncation
  /\ job.op = "write" =>
       ViewPending = [off |-> job.off, len |-> job.len, byte |-> job.byte, next |-> job.idx]
BY DEF ViewPending, File!Nothing, File!Truncation

LEMMA PendingNext ==
  /\ job'.op \notin {"write", "trunc"} => ViewPending' = File!Nothing
  /\ job'.op = "trunc" => ViewPending' = File!Truncation
  /\ job'.op = "write" =>
       ViewPending' = [off |-> job'.off, len |-> job'.len, byte |-> job'.byte, next |-> job'.idx]
BY DEF ViewPending, File!Nothing, File!Truncation

\* A step that changes what reads return as making room may.
LEMMA MoveStep ==
  ASSUME View = SeenAll(Entries, chunks, disk), View' = SeenAll(Entries, chunks, disk)',
         Moves(SeenAll(Entries, chunks, disk), SeenAll(Entries, chunks, disk)'),
         ViewPending' = ViewPending, ViewSize' = ViewSize,
         UNCHANGED <<saved, dirty, stale, linked, removed>>
  PROVE  [File!Next]_(File!vars)
<1>1. PICK k \in Index :
        /\ \A i \in Index \ {k} : View'[i] = View[i]
        /\ \/ View'[k] = View[k]
           \/ View'[k] = Lost /\ k \in removed
           \/ <<k, View'[k]>> \in stale
  BY DEF Moves
<1>2. View = [i \in Index |-> View[i]] /\ View' = [i \in Index |-> View'[i]]
  BY DEF SeenAll
<1>3. View' = [View EXCEPT ![k] = View'[k]]
  BY <1>1, <1>2
<1>4. CASE View'[k] = View[k]
  <2>1. View' = View
    BY <1>1, <1>2, <1>4
  <2> QED  BY <2>1 DEF File!vars, File!name
<1>5. CASE View'[k] = Lost /\ k \in removed
  <2>1. \E i \in removed : View' = [View EXCEPT ![i] = Lost]
    BY <1>3, <1>5
  <2>2. File!Lose
    BY <2>1 DEF File!Lose, File!name, File!Lost, Lost
  <2> QED  BY <2>2 DEF File!Next
<1>6. CASE <<k, View'[k]>> \in stale
  <2> DEFINE s == <<k, View'[k]>>
  <2>1. s \in stale /\ s[1] = k /\ s[2] = View'[k]
    BY <1>6
  <2>2. \E t \in stale : View' = [View EXCEPT ![t[1]] = t[2]]
    BY <1>3, <2>1
  <2>3. File!Resurface
    BY <2>2 DEF File!Resurface, File!name
  <2> QED  BY <2>3 DEF File!Next
<1> QED  BY <1>1, <1>4, <1>5, <1>6

-----------------------------------------------------------------------------
(* Steps that touch neither the cache nor the files.                       *)

LEMMA BeforeLater ==
  ASSUME NEW d \in Bytes \cup {Lost}, NEW m \in Nat, NEW n \in Nat, m <= n, Before(d, m)
  PROVE  Before(d, n)
<1> SUFFICES ASSUME d # Lost, NEW o \in 0..(C - 1) PROVE d[o] < n
  BY DEF Before
<1>1. d[o] < m
  BY DEF Before
<1>2. d[o] \in Nat
  <2>1. d \in Bytes
    OBVIOUS
  <2> QED  BY <2>1, Sizes DEF Bytes
<1> QED  BY <1>1, <1>2

\* The data of entries and the tags of chunks.
LEMMA DataTypes ==
  ASSUME NEW es, NEW cs, NEW ds, Sound(es, cs, ds)
  PROVE  /\ \A e \in es : /\ e \in Entry /\ e.idx \in Index /\ e.key \in 1..NumUuids
                          /\ e.data \in Bytes /\ e.key # Hole
         /\ \A i \in DOMAIN cs :
              i \in Index /\ cs[i].tag \in Bytes \cup {Lost} /\ cs[i].uuid \in 0..NumUuids
         /\ \A i \in DOMAIN stored.chunks :
              /\ i \in Index /\ stored.chunks[i].tag \in Bytes \cup {Lost}
              /\ stored.chunks[i].uuid \in 0..NumUuids
         /\ \A u \in 0..NumUuids : ds[u] \in Bytes \cup {Lost}
<1>1. \A e \in es : e \in Entry
  BY DEF Sound
<1>2. \A i \in DOMAIN cs : i \in Index /\ cs[i] \in Chunk
  BY DEF Sound
<1>3. \A i \in DOMAIN stored.chunks : i \in Index /\ stored.chunks[i] \in Chunk
  BY DEF Sound
<1>4. \A u \in 0..NumUuids : ds[u] \in Bytes \cup {Lost}
  BY DEF Sound, Files
<1>5. \A e \in es : e.key # Hole
  BY <1>1, Sizes DEF Entry, Hole
<1>6. \A e \in es : e.idx \in Index /\ e.key \in 1..NumUuids /\ e.data \in Bytes
  BY <1>1 DEF Entry
<1>7. \A i \in DOMAIN cs : cs[i].tag \in Bytes \cup {Lost} /\ cs[i].uuid \in 0..NumUuids
  BY <1>2 DEF Chunk
<1>8. \A i \in DOMAIN stored.chunks :
        stored.chunks[i].tag \in Bytes \cup {Lost} /\ stored.chunks[i].uuid \in 0..NumUuids
  BY <1>3 DEF Chunk
<1> QED  BY <1>1, <1>2, <1>3, <1>4, <1>5, <1>6, <1>7, <1>8

\* Holes are added to the table, or nothing is.
Grown ==
  /\ DOMAIN chunks \subseteq DOMAIN chunks'
  /\ \A i \in DOMAIN chunks' :
       chunks'[i] = IF i \in DOMAIN chunks THEN chunks[i] ELSE NewChunk

LEMMA SameGrown == UNCHANGED chunks => Grown
BY DEF Grown

LEMMA NowType ==
  ASSUME NEW j \in Jobs, writes \in Nat, NEW i
  PROVE  Now(j, i) \in Nat
<1>1. j.byte \in 0..MaxWrites
  BY DEF Jobs
<1> QED  BY <1>1, Sizes DEF Now

LEMMA Succ ==
  ASSUME NEW m \in Nat, NEW n \in Nat, m <= n
  PROVE  m + 1 \in Nat /\ n + 1 \in Nat /\ m + 1 <= n + 1
<1>1. m + 1 \in Nat /\ n + 1 \in Nat
  OBVIOUS
<1>2. m + 1 <= n + 1
  OBVIOUS
<1> QED  BY <1>1, <1>2

LEMMA NowTypeNext ==
  ASSUME job' \in Jobs, writes' \in Nat, NEW i
  PROVE  Now(job, i)' \in Nat
<1>1. job'.byte \in 0..MaxWrites
  BY DEF Jobs
<1>2. writes' + 1 \in Nat
  <2>1. writes' <= writes'
    BY Sizes
  <2> QED  BY <2>1, Succ
<1>3. job'.byte \in Nat
  BY <1>1, Sizes
<1> QED  BY <1>2, <1>3 DEF Now

LEMMA GrownAgrees ==
  ASSUME RInv, Basics', Grown, UNCHANGED <<cache, disk, stored, saved, removed>>,
         dirty \subseteq dirty', stale \subseteq stale', writes <= writes',
         job'.table = job.table \/ job'.table = <<>>,
         \A i \in Index : Now(job, i) <= Now(job, i)',
         job.op = "trunc" => job'.op = "trunc"
  PROVE  Agrees(Entries, chunks, disk, dirty, job)'
<1>1. Basics
  BY BasicFacts DEF RInv
<1>2. /\ OneHome(Entries, chunks, job) /\ Ages(Entries, chunks, disk, job)
      /\ Apart(Entries, chunks) /\ Cold(Entries, chunks, disk, job)
      /\ Warm(Entries, chunks, dirty) /\ Durable(disk, dirty)
  BY DEF RInv, Agrees
<1>3. Entries' = Entries
  BY DEF Entries
<1>4. writes \in Nat /\ writes' \in Nat /\ job \in Jobs /\ job' \in Jobs
  BY <1>1, Sizes DEF Basics
<1>5. /\ \A e \in Entries : e.idx \in Index /\ e.key \in 1..NumUuids
                            /\ e.data \in Bytes /\ e.key # Hole
      /\ \A i \in DOMAIN chunks : i \in Index /\ chunks[i].tag \in Bytes \cup {Lost}
      /\ \A i \in DOMAIN stored.chunks :
           i \in Index /\ stored.chunks[i].tag \in Bytes \cup {Lost}
      /\ \A u \in 0..NumUuids : disk[u] \in Bytes \cup {Lost}
  BY <1>1, DataTypes DEF Basics
<1>6. NewChunk.uuid = Hole /\ NewChunk.tag = Lost /\ Lost # Zeros
  BY ZerosType, BytesNotLost DEF NewChunk
<1>7. /\ \A i \in DOMAIN chunks' \ DOMAIN chunks : chunks'[i] = NewChunk
      /\ \A i \in DOMAIN chunks : i \in DOMAIN chunks' /\ chunks'[i] = chunks[i]
      /\ DOMAIN chunks' \subseteq Index
  BY DEF Grown, Basics, Sound
<1>8. \A i \in Index : Kept(chunks', disk, i) = Kept(chunks, disk, i)
  BY <1>6, <1>7 DEF Kept
<1>9. \A e \in Entries, i \in Index : Holds(e, chunks', i) <=> Holds(e, chunks, i)
  BY <1>5, <1>6, <1>7 DEF Holds
<1>10. OneHome(Entries, chunks, job)'
  <2>1. 0 \notin 1..NumUuids
    BY Sizes
  <2>2. ASSUME NEW u \in 1..NumUuids, NEW i \in Index, Home(Entries, chunks', job', u, i)
        PROVE  Home(Entries, chunks, job, u, i)
    BY <1>6, <1>7, <2>1, <2>2 DEF Home, Has, Hole
  <2>3. \A u \in 1..NumUuids, i \in Index :
          Home(Entries, chunks, job, u, i)' => Home(Entries, chunks, job, u, i)
    BY <1>3, <2>2 DEF Home
  <2> QED  BY <1>2, <2>3 DEF OneHome
<1>11. Ages(Entries, chunks, disk, job)'
  <2>1. ASSUME NEW i \in Index, NEW d \in Bytes \cup {Lost}, Old(job, i, d)
        PROVE  Old(job, i, d)'
    <3>1. Now(job, i) \in Nat /\ Now(job, i)' \in Nat
      <4>1. Now(job, i) \in Nat
        BY <1>4, NowType
      <4>2. Now(job, i)' \in Nat
        BY <1>4, NowTypeNext
      <4> QED  BY <4>1, <4>2
    <3>2. Before(d, Now(job, i)) /\ d # Zeros
      BY <2>1 DEF Old
    <3> HIDE DEF Now
    <3>3. Before(d, Now(job, i)')
      BY <3>1, <3>2, BeforeLater
    <3> QED  BY <3>2, <3>3 DEF Old
  <2>2. \A u \in 0..NumUuids : Before(disk[u], writes + 1)'
    <3> TAKE u \in 0..NumUuids
    <3>1. writes + 1 \in Nat /\ writes' + 1 \in Nat /\ writes + 1 <= writes' + 1
      BY <1>4, Succ
    <3>2. Before(disk[u], writes + 1) /\ disk[u] \in Bytes \cup {Lost}
      BY <1>2, <1>5 DEF Ages
    <3>3. Before(disk[u], writes' + 1)
      BY <3>1, <3>2, BeforeLater
    <3> QED  BY <3>3
  <2>3. \A i \in DOMAIN chunks' : Old(job, i, chunks[i].tag)'
    <3> SUFFICES ASSUME NEW i \in DOMAIN chunks' PROVE Old(job, i, chunks[i].tag)'
      OBVIOUS
    <3>1. CASE i \in DOMAIN chunks
      <4>1. Old(job, i, chunks[i].tag) /\ i \in Index
        BY <1>2, <1>5, <3>1 DEF Ages
      <4>3. \A d \in Bytes \cup {Lost} : Old(job, i, d) => Old(job, i, d)'
        BY <2>1, <4>1
      <4>4. chunks'[i].tag = chunks[i].tag
        BY <1>7, <3>1
      <4> QED  BY <1>5, <3>1, <4>1, <4>3, <4>4 DEF Old
    <3>2. CASE i \notin DOMAIN chunks
      <4>1. chunks'[i].tag = Lost
        BY <1>6, <1>7, <3>2
      <4> QED  BY <1>6, <4>1 DEF Old, Before
    <3> QED  BY <3>1, <3>2
  <2>4. \A e \in Entries : Old(job, e.idx, e.data)'
    BY <1>2, <1>5, <2>1 DEF Ages
  <2>5. \A i \in DOMAIN stored.chunks : Old(job, i, stored.chunks[i].tag)'
    <3> SUFFICES ASSUME NEW i \in DOMAIN stored.chunks PROVE Old(job, i, stored.chunks[i].tag)'
      OBVIOUS
    <3>1. Old(job, i, stored.chunks[i].tag) /\ i \in Index /\ stored'.chunks[i].tag = stored.chunks[i].tag
      BY <1>2, <1>5 DEF Ages
    <3> QED  BY <1>5, <2>1, <3>1 DEF Old
  <2> QED  BY <1>3, <2>2, <2>3, <2>4, <2>5 DEF Ages
<1>12. Apart(Entries, chunks)'
  <2>1. \A e \in Entries : Saves(e, chunks') => Saves(e, chunks)
    <3> SUFFICES ASSUME NEW e \in Entries, Saves(e, chunks') PROVE Saves(e, chunks)
      OBVIOUS
    <3>1. e.data # Lost
      BY <1>5, BytesNotLost
    <3> QED  BY <1>6, <1>7, <3>1 DEF Saves
  <2> QED  BY <1>2, <1>3, <2>1 DEF Apart, Saves
<1>13. Cold(Entries, chunks, disk, job)'
  BY <1>2, <1>3, <1>8, <1>9 DEF Cold, Kept, Holds
<1>14. Warm(Entries, chunks, dirty)'
  BY <1>2, <1>3, <1>5, <1>9 DEF Warm, Holds
<1>15. Durable(disk, dirty)'
  BY <1>2 DEF Durable, Kept
<1> QED  BY <1>10, <1>11, <1>12, <1>13, <1>14, <1>15 DEF Agrees

\* Reads return what they did.
LEMMA GrownSeen ==
  ASSUME RInv, Basics', Grown, UNCHANGED <<cache, disk>>
  PROVE  SeenAll(Entries, chunks, disk)' = SeenAll(Entries, chunks, disk)
<1>1. Basics
  BY BasicFacts DEF RInv
<1>2. Entries' = Entries /\ disk' = disk
  BY DEF Entries
<1>3. \A e \in Entries : e.key # Hole
  BY <1>1, DataTypes DEF Basics
<1>4. NewChunk.uuid = Hole
  BY DEF NewChunk
<1>5. /\ \A i \in DOMAIN chunks' \ DOMAIN chunks : chunks'[i] = NewChunk
      /\ \A i \in DOMAIN chunks : i \in DOMAIN chunks' /\ chunks'[i] = chunks[i]
  BY DEF Grown
<1>6. ASSUME NEW i \in Index
      PROVE  Seen(Entries, chunks', disk, i) = Seen(Entries, chunks, disk, i)
  <2>1. Kept(chunks', disk, i) = Kept(chunks, disk, i)
    BY <1>4, <1>5 DEF Kept
  <2>2. \A e \in Entries : Holds(e, chunks', i) <=> Holds(e, chunks, i)
    BY <1>3, <1>4, <1>5 DEF Holds
  <2>3. Alone(Entries)
    BY <1>1 DEF Basics, Sound
  <2> QED  BY <2>1, <2>2, <2>3, SeenFacts
<1> QED  BY <1>2, <1>6 DEF SeenAll

Sized ==
  /\ ~loaded => ViewSize = stored.size
  /\ loaded /\ job.op = "trunc" => ViewSize = 0
  /\ loaded /\ job.op # "trunc" => ViewSize = size

LEMMA SizeFacts == IInv => Sized
<1> SUFFICES ASSUME IInv PROVE Sized
  OBVIOUS
<1>1. ~loaded => job.op # "trunc"
  BY DEF IInv, Typed
<1>2. CASE ~loaded
  BY <1>1, <1>2 DEF ViewSize, Sized
<1>3. CASE loaded /\ job.op = "trunc"
  BY <1>3 DEF ViewSize, Sized
<1>4. CASE loaded /\ job.op # "trunc"
  BY <1>4 DEF ViewSize, Sized
<1> QED  BY <1>2, <1>3, <1>4

LEMMA SizeNext == IInv' => Sized'
BY SizeFacts, PTL

\* A step that changes neither the cache nor a chunk of the file.
Quiet ==
  /\ UNCHANGED <<cache, disk, stored, linked, saved, dirty, stale, removed>>
  /\ loaded /\ loaded' /\ Grown /\ writes <= writes'
  /\ \A i \in Index : Now(job, i) <= Now(job, i)'
  /\ job.op # "trunc" /\ job'.op # "trunc"
  /\ job'.table = job.table \/ job'.table = <<>>

LEMMA QuietKeeps ==
  ASSUME RInv, IInv', Quiet
  PROVE  /\ Agrees(Entries, chunks, disk, dirty, job)' /\ Flushed'
         /\ View' = View /\ ViewSize = size /\ ViewSize' = size'
<1>1. Basics' /\ Viewed' /\ Sized' /\ Viewed /\ Sized
  BY BasicsNext, ViewNext, SizeNext, ViewFacts, SizeFacts DEF RInv
<1>2. Agrees(Entries, chunks, disk, dirty, job)'
  BY <1>1, GrownAgrees DEF Quiet
<1>3. SeenAll(Entries, chunks, disk)' = SeenAll(Entries, chunks, disk)
  BY <1>1, GrownSeen DEF Quiet
<1>4. View = SeenAll(Entries, chunks, disk)
  BY <1>1 DEF Viewed, Shown, SeenAll, Quiet
<1>5. View' = SeenAll(Entries, chunks, disk)'
  BY <1>1 DEF Viewed, Shown, SeenAll, Quiet
<1>6. Flushed'
  BY DEF RInv, Flushed, Quiet
<1> QED  BY <1>1, <1>2, <1>3, <1>4, <1>5, <1>6 DEF Sized, Quiet

\* A step that ByteFile does not see.
LEMMA HiddenStep ==
  ASSUME RInv, IInv', Quiet, Going', size' = size, ViewPending' = ViewPending
  PROVE  RInv' /\ [File!Next]_(File!vars)
<1>1. /\ Agrees(Entries, chunks, disk, dirty, job)' /\ Flushed'
      /\ View' = View /\ ViewSize = size /\ ViewSize' = size'
  BY QuietKeeps
<1>2. RInv'
  BY <1>1 DEF RInv
<1>3. UNCHANGED File!vars
  BY <1>1 DEF Quiet, File!vars, File!name
<1> QED  BY <1>2, <1>3

LEMMA NowSame ==
  ASSUME RInv, IInv', writes' = writes, job.op # "write", job'.op # "write"
  PROVE  \A i \in Index : Now(job, i) <= Now(job, i)'
<1>1. writes \in Nat
  BY Sizes DEF RInv, IInv, Typed, TypeOK
<1>2. \A i \in Index : Now(job, i) = writes + 1 /\ Now(job, i)' = writes + 1
  BY DEF Now
<1>3. writes + 1 <= writes + 1
  BY <1>1
<1> QED  BY <1>2, <1>3

LEMMA NoJobFacts ==
  /\ NoJob.op = "none" /\ NoJob.table = <<>> /\ NoJob.idx = 1 /\ DOMAIN <<>> = {}
  /\ [NoJob EXCEPT !.op = "trunc"].op = "trunc" /\ [NoJob EXCEPT !.op = "trunc"].table = <<>>
  /\ [NoJob EXCEPT !.op = "flush"].op = "flush" /\ [NoJob EXCEPT !.op = "flush"].table = <<>>
  /\ [NoJob EXCEPT !.op = "flush"].idx = 1
BY DEF NoJob

LEMMA BeginReadStep ==
  ASSUME RInv, IInv', NEW off \in 0..(C * MaxChunks - 1), NEW n \in 1..(C * MaxChunks),
         BeginRead(off, n)
  PROVE  RInv' /\ [File!Next]_(File!vars)
<1>1. /\ UNCHANGED <<loaded, size, chunks, cache, disk, stored, linked, user, writes,
                     saved, dirty, stale, removed>>
      /\ job.op = "none" /\ user # "closed" /\ job'.op = "read" /\ job'.table = <<>>
  BY DEF BeginRead, Using, Ready, node, storage, ghosts, NoJob
<1>2. loaded /\ writes <= writes'
  BY <1>1, Sizes DEF RInv, IInv, Typed, TypeOK
<1>3. Quiet
  BY <1>1, <1>2, NowSame, SameGrown DEF Quiet
<1>4. Going'
  BY <1>1, NoJobFacts DEF Going, RInv
<1> QED  BY <1>1, <1>3, <1>4, HiddenStep, PendingFacts, PendingNext

LEMMA BeginFlushStep ==
  ASSUME RInv, IInv', BeginFlush
  PROVE  RInv' /\ [File!Next]_(File!vars)
<1>1. /\ UNCHANGED <<loaded, size, chunks, cache, disk, stored, linked, user, writes,
                     saved, dirty, stale, removed>>
      /\ job.op = "none" /\ user # "closed"
      /\ job'.op = "flush" /\ job'.table = <<>> /\ job'.idx = 1
  BY NoJobFacts DEF BeginFlush, Ready, node, storage, ghosts
<1>2. loaded /\ writes <= writes'
  BY <1>1, Sizes DEF RInv, IInv, Typed, TypeOK
<1>3. Quiet
  BY <1>1, <1>2, NowSame, SameGrown DEF Quiet
<1>4. Going'
  <2>1. \A i \in DOMAIN chunks : ~(i < 1)
    BY BasicFacts DEF RInv, Basics, Sound, Index
  <2> QED  BY <1>1, <2>1, NoJobFacts DEF Going, RInv
<1> QED  BY <1>1, <1>3, <1>4, HiddenStep, PendingFacts, PendingNext

LEMMA UnmapStep ==
  ASSUME RInv, IInv', Unmap
  PROVE  RInv' /\ [File!Next]_(File!vars)
<1>1. /\ UNCHANGED <<loaded, size, chunks, cache, disk, stored, linked, job, writes,
                     saved, dirty, stale, removed>>
      /\ job.op = "none" /\ user # "closed"
  BY DEF Unmap, Ready, node, storage, ghosts
<1>2. loaded /\ writes <= writes'
  BY <1>1, Sizes DEF RInv, IInv, Typed, TypeOK
<1>3. Quiet
  BY <1>1, <1>2, NowSame, SameGrown DEF Quiet
<1>4. Going'
  BY <1>1, NoJobFacts DEF Going, RInv
<1> QED  BY <1>1, <1>3, <1>4, HiddenStep, PendingFacts, PendingNext

LEMMA FallocateStep ==
  ASSUME RInv, IInv', NEW off \in 0..(C * MaxChunks - 1), NEW len \in 1..(C * MaxChunks),
         Fallocate(off, len)
  PROVE  RInv' /\ [File!Next]_(File!vars)
<1>1. /\ job.op = "none" /\ user # "closed" /\ off + len <= C * MaxChunks
      /\ chunks' = Resized(CeilDiv(off + len)) /\ size' = NatMax(size, off + len)
      /\ UNCHANGED <<loaded, cache, disk, stored, linked, user, job, writes,
                     saved, dirty, stale, removed>>
  BY DEF Fallocate, Using, Ready, storage, ghosts
<1>2. loaded /\ writes <= writes' /\ size \in Nat /\ size <= C * MaxChunks /\ TypeOK
  <2>1. loaded /\ TypeOK
    BY <1>1 DEF RInv, IInv, Typed
  <2>2. writes \in Nat /\ size \in 0..(C * MaxChunks)
    BY <2>1, Sizes DEF TypeOK
  <2>3. writes <= writes'
    BY <1>1, <2>2
  <2> QED  BY <2>1, <2>2, <2>3, Sizes
<1>3. off + len \in Nat /\ CeilDiv(off + len) \in Nat
  <2>1. off + len \in Nat
    BY Sizes
  <2> QED  BY <2>1, CeilDivFits
<1> HIDE DEF CeilDiv
<1>4. Grown
  BY <1>1, <1>2, <1>3, ResizedFacts DEF Grown
<1>5. Quiet
  BY <1>1, <1>2, <1>4, NowSame DEF Quiet
<1>6. Going'
  BY <1>1 DEF Going, RInv
<1>7. /\ Agrees(Entries, chunks, disk, dirty, job)' /\ Flushed'
      /\ View' = View /\ ViewSize = size /\ ViewSize' = size'
  BY <1>5, QuietKeeps
<1>8. size' \in size..(C * MaxChunks)
  BY <1>1, <1>2, <1>3, Sizes DEF NatMax
<1>9. File!Allocate
  BY <1>1, <1>7, <1>8, PendingFacts, PendingNext DEF File!Allocate, File!name
<1> QED  BY <1>6, <1>7, <1>9 DEF RInv, File!Next

LEMMA BeginWriteStep ==
  ASSUME RInv, IInv', NEW off \in 0..(C * MaxChunks - 1), NEW len \in 1..(C * MaxChunks),
         BeginWrite(off, len)
  PROVE  RInv' /\ [File!Next]_(File!vars)
<1>1. /\ job.op = "none" /\ user # "closed" /\ off + len <= C * MaxChunks
      /\ writes < MaxWrites /\ writes' = writes + 1
      /\ chunks' = Resized(CeilDiv(off + len))
      /\ job'.op = "write" /\ job'.idx = off \div C + 1 /\ job'.off = off /\ job'.len = len
      /\ job'.byte = writes + 1 /\ job'.table = <<>> /\ job'.surplus = (size + C - 1) % C
      /\ UNCHANGED <<loaded, size, cache, disk, stored, linked, user,
                     saved, dirty, stale, removed>>
  BY DEF BeginWrite, Using, Ready, storage, ghosts
<1>2. loaded /\ writes \in Nat /\ TypeOK /\ MaxWrites \in Nat
  BY <1>1, Sizes DEF RInv, IInv, Typed, TypeOK
<1>3. off + len \in Nat /\ CeilDiv(off + len) \in Nat
  <2>1. off + len \in Nat
    BY Sizes
  <2> QED  BY <2>1, CeilDivFits
<1> HIDE DEF CeilDiv
<1>4. Grown
  BY <1>1, <1>2, <1>3, ResizedFacts DEF Grown
<1>5. \A i \in Index : Now(job, i) <= Now(job, i)'
  <2>1. \A i \in Index : Now(job, i) = writes + 1
    BY <1>1 DEF Now
  <2>2. \A i \in Index : Now(job, i)' = writes + 1 \/ Now(job, i)' = writes + 1 + 1
    BY <1>1 DEF Now
  <2>3. writes + 1 <= writes + 1 /\ writes + 1 <= writes + 1 + 1
    BY <1>2
  <2> QED  BY <2>1, <2>2, <2>3
<1>6. Quiet
  BY <1>1, <1>2, <1>4, <1>5 DEF Quiet
<1>7. Going'
  <2>1. writes + 1 > 0 /\ len > 0
    BY <1>2, Sizes
  <2>2. off \div C + 1 <= off \div C + 1
    BY Sizes, DivFacts
  <2> QED  BY <1>1, <2>1, <2>2, NoJobFacts DEF Going, RInv
<1>8. /\ Agrees(Entries, chunks, disk, dirty, job)' /\ Flushed'
      /\ View' = View /\ ViewSize = size /\ ViewSize' = size'
  BY <1>6, QuietKeeps
<1>9. File!BeginWrite(off, len, writes + 1)
  <2>1. ViewPending = File!Nothing
    BY <1>1, PendingFacts
  <2>2. ViewPending' = [off |-> off, len |-> len, byte |-> writes + 1, next |-> off \div C + 1]
    BY <1>1, PendingNext
  <2> QED  BY <1>1, <1>8, <2>1, <2>2 DEF File!BeginWrite, File!name
<1>10. writes + 1 \in 1..MaxWrites
  BY <1>1, <1>2
<1> QED  BY <1>1, <1>7, <1>8, <1>9, <1>10 DEF RInv, File!Next

LEMMA EndWriteStep ==
  ASSUME RInv, IInv', EndWrite
  PROVE  RInv' /\ [File!Next]_(File!vars)
<1>1. /\ job.op = "write" /\ job.idx > job.last
      /\ size' = NatMax(size, job.off + job.len) /\ job' = NoJob
      /\ UNCHANGED <<loaded, chunks, cache, disk, stored, linked, user, writes,
                     saved, dirty, stale, removed>>
  BY DEF EndWrite, storage, ghosts
<1>2. /\ loaded /\ writes \in Nat /\ job \in Jobs /\ job.last = CeilDiv(job.off + job.len)
      /\ job.byte = writes /\ job.len > 0
  BY <1>1, Sizes DEF RInv, IInv, Typed, TypeOK, Fits, Going
<1>3. /\ job.off \in Nat /\ job.len \in Nat /\ job.idx \in Nat \ {0} /\ job.last \in Nat
      /\ job.off + job.len \in Nat
  BY <1>2, Sizes DEF Jobs
<1>4. \A i \in Index : Now(job, i) <= Now(job, i)'
  <2>1. \A i \in Index : Now(job, i)' = writes + 1
    BY <1>1, NoJobFacts DEF Now
  <2>2. \A i \in Index : Now(job, i) = writes \/ Now(job, i) = writes + 1
    BY <1>2 DEF Now
  <2>3. writes <= writes + 1 /\ writes + 1 <= writes + 1
    BY <1>2
  <2> QED  BY <2>1, <2>2, <2>3
<1>5. Quiet
  BY <1>1, <1>2, <1>4, NoJobFacts, SameGrown DEF Quiet
<1>6. Going'
  BY <1>1, NoJobFacts DEF Going, RInv
<1>7. /\ Agrees(Entries, chunks, disk, dirty, job)' /\ Flushed'
      /\ View' = View /\ ViewSize = size /\ ViewSize' = size'
  BY <1>5, QuietKeeps
<1>8. (job.idx - 1) * C >= job.off + job.len
  <2> DEFINE n == job.off + job.len
             m == job.idx - 1
  <2>1. m \in Nat /\ job.last <= m
    BY <1>1, <1>3
  <2>2. n <= C * m
    BY <1>2, <1>3, <2>1, CeilDivFits
  <2>3. m * C = C * m /\ C * m \in Nat
    BY <2>1, Sizes, Times
  <2> QED  BY <1>3, <2>2, <2>3
<1>9. File!EndWrite
  <2>1. ViewPending = [off |-> job.off, len |-> job.len, byte |-> job.byte, next |-> job.idx]
    BY <1>1, PendingFacts
  <2>2. ViewPending' = File!Nothing
    BY <1>1, NoJobFacts, PendingNext
  <2>3. size' = File!NatMax(ViewSize, job.off + job.len)
    BY <1>1, <1>7 DEF NatMax, File!NatMax
  <2> QED  BY <1>1, <1>2, <1>7, <1>8, <2>1, <2>2, <2>3 DEF File!EndWrite, File!name
<1> QED  BY <1>6, <1>7, <1>9 DEF RInv, File!Next

\* The mapping when reads go to the cache.
LEMMA LoadedView ==
  ASSUME IInv, loaded, job.op # "trunc"
  PROVE  View = SeenAll(Entries, chunks, disk) /\ ViewSize = size
BY ViewFacts, SizeFacts DEF Viewed, Shown, SeenAll, Sized

LEMMA LoadedViewNext ==
  ASSUME IInv', loaded', job'.op # "trunc"
  PROVE  View' = SeenAll(Entries, chunks, disk)' /\ ViewSize' = size'
<1>1. Viewed' /\ Sized'
  BY ViewNext, SizeNext
<1> QED  BY <1>1 DEF Viewed, Shown, SeenAll, Sized

-----------------------------------------------------------------------------
(* Opening and truncating.                                                 *)

\* A modified entry left behind is data of a chunk not flushed yet, or was
\* left behind before.
LEMMA LeftBehind ==
  ASSUME RInv, loaded, job.op # "trunc"
  PROVE  Left \subseteq stale \cup {<<i, View[i]>> : i \in dirty}
<1>1. Basics /\ View = SeenAll(Entries, chunks, disk)
  BY BasicFacts, LoadedView DEF RInv
<1> SUFFICES ASSUME NEW x \in Left, x \notin stale
             PROVE  \E i \in dirty : x = <<i, View[i]>>
  OBVIOUS
<1>2. PICK e \in Entries : e.modified /\ x = <<e.idx, e.data>>
  BY DEF Left, Entries, ToSet
<1>3. Holds(e, chunks, e.idx) /\ e.idx \in dirty
  BY <1>2 DEF RInv, Agrees, Warm
<1>4. Alone(Entries) /\ e.idx \in Index
  BY <1>1, <1>2, DataTypes DEF Basics, Sound
<1>5. View[e.idx] = e.data
  BY <1>1, <1>3, <1>4, SeenFacts DEF SeenAll
<1> QED  BY <1>2, <1>3, <1>5

LEMMA LeftAll ==
  \A e \in Entries : e.modified => <<e.idx, e.data>> \in Left
BY DEF Left, Entries, ToSet

LEMMA OpenStep ==
  ASSUME RInv, IInv', NEW trunc \in BOOLEAN, Open(trunc)
  PROVE  RInv' /\ [File!Next]_(File!vars)
<1>1. /\ job.op = "none" /\ loaded
      /\ UNCHANGED <<loaded, size, chunks, cache, disk, stored, linked, writes, saved, removed>>
  BY DEF Open, Ready, node, storage
<1>2. \/ job' = job /\ dirty' = dirty /\ stale' = stale
      \/ /\ job' = [NoJob EXCEPT !.op = "trunc"]
         /\ dirty' = Index /\ stale' = stale \cup Left
  BY DEF Open
<1>3. writes <= writes'
  BY <1>1, Sizes DEF RInv, IInv, Typed, TypeOK
<1>4. CASE job' = job /\ dirty' = dirty /\ stale' = stale
  <2>1. Quiet
    BY <1>1, <1>3, <1>4, NowSame, SameGrown DEF Quiet
  <2>2. Going'
    BY <1>1, <1>4 DEF Going, RInv
  <2> QED  BY <1>1, <1>4, <2>1, <2>2, HiddenStep, PendingFacts, PendingNext
<1>5. CASE /\ job' = [NoJob EXCEPT !.op = "trunc"]
           /\ dirty' = Index /\ stale' = stale \cup Left
  <2>1. job'.op = "trunc" /\ job'.table = <<>>
    BY <1>5, NoJobFacts
  <2>2. dirty \subseteq dirty' /\ stale \subseteq stale'
    BY <1>5 DEF RInv, IInv, Typed, TypeOK
  <2>3. Basics'
    BY BasicsNext
  <2>4. Agrees(Entries, chunks, disk, dirty, job)'
    BY <1>1, <1>3, <2>1, <2>2, <2>3, NowSame, SameGrown, GrownAgrees
  <2>5. Flushed'
    BY <1>1 DEF RInv, Flushed
  <2>6. Going'
    <3>1. \A e \in Entries' : e.modified => <<e.idx, e.data>> \in stale'
      BY <1>1, <1>5, LeftAll DEF Entries
    <3> QED  BY <1>1, <1>5, <2>1, <3>1, NoJobFacts DEF Going, RInv
  <2>7. View' = [i \in Index |-> Zeros] /\ ViewSize' = 0
    <3>1. Viewed' /\ Sized'
      BY ViewNext, SizeNext
    <3> QED  BY <1>1, <2>1, <3>1 DEF Viewed, Shown, Sized
  <2>8. stale' \in SUBSET (stale \cup {<<i, View[i]>> : i \in dirty})
    BY <1>1, <1>5, LeftBehind
  <2>9. File!Truncate
    BY <1>1, <1>5, <2>1, <2>7, <2>8, PendingFacts, PendingNext
       DEF File!Truncate, File!name, File!Index, Index, File!Zeros, Zeros
  <2> QED  BY <2>4, <2>5, <2>6, <2>9 DEF RInv, File!Next
<1> QED  BY <1>2, <1>4, <1>5

\* A file is removed.
Gone(ds, u) == [ds EXCEPT ![u] = Lost]

LEMMA LostFile ==
  ASSUME NEW cs, NEW ds, ds \in Files, NEW u, u \in 1..NumUuids,
         NEW i, i \in DOMAIN cs => cs[i].uuid \in 0..NumUuids
  PROVE  \/ Kept(cs, Gone(ds, u), i) = Kept(cs, ds, i)
         \/ /\ Kept(cs, Gone(ds, u), i) = Lost
            /\ i \in DOMAIN cs /\ cs[i].uuid = u
<1> DEFINE dk == Gone(ds, u)
<1>1. \A v \in 0..NumUuids : v # u => dk[v] = ds[v]
  BY DEF Files, Gone
<1>2. dk[u] = Lost
  BY Sizes DEF Files, Gone
<1> QED  BY <1>1, <1>2 DEF Kept

LEMMA TruncChunkStep ==
  ASSUME RInv, IInv', TruncChunk
  PROVE  RInv' /\ [File!Next]_(File!vars)
<1> DEFINE u == chunks[job.idx].uuid
<1>1. /\ job.op = "trunc" /\ job.idx <= Len(chunks)
      /\ disk' = IF u = Hole THEN disk ELSE [disk EXCEPT ![u] = Lost]
      /\ job' = [job EXCEPT !.idx = job.idx + 1]
      /\ UNCHANGED <<loaded, size, chunks, cache, stored, linked, user, writes,
                     saved, dirty, stale, removed>>
  BY DEF TruncChunk, node, ghosts
<1>2. Basics /\ Basics'
  BY BasicFacts, BasicsNext DEF RInv
<1>3. loaded /\ job.idx \in DOMAIN chunks
  <2>1. loaded
    BY <1>1 DEF RInv, IInv, Typed
  <2>2. chunks \in Seq(Chunk) /\ job.idx \in 1..(MaxChunks + 1)
    BY <1>2 DEF Basics, TypeOK
  <2>3. job.idx \in 1..Len(chunks) /\ DOMAIN chunks = 1..Len(chunks)
    BY <1>1, <2>2, Sizes
  <2> QED  BY <2>1, <2>3
<1>4. /\ job'.op = "trunc" /\ job'.table = job.table
  BY <1>1, <1>2 DEF Basics, Jobs
<1>5. /\ OneHome(Entries, chunks, job) /\ Ages(Entries, chunks, disk, job)
      /\ Apart(Entries, chunks) /\ Warm(Entries, chunks, dirty) /\ Durable(disk, dirty)
      /\ dirty = Index /\ Entries' = Entries
  BY <1>1 DEF RInv, Agrees, Going, Entries
<1>6. u \in 0..NumUuids /\ disk \in Files
  BY <1>2, <1>3, DataTypes DEF Basics, Sound
<1>7. Ages(Entries, chunks, disk, job)'
  <2>1. \A v \in 0..NumUuids : disk'[v] = disk[v] \/ disk'[v] = Lost
    BY <1>1, <1>6 DEF Files
  <2>2. \A v \in 0..NumUuids : Before(disk'[v], writes + 1)
    BY <1>5, <2>1 DEF Ages, Before
  <2>3. \A i : Now(job, i)' = writes + 1 /\ Now(job, i) = writes + 1
    BY <1>1, <1>4 DEF Now
  <2>4. \A i, d : Old(job, i, d) => d # Zeros /\ Before(d, writes + 1)
    BY <2>3 DEF Old
  <2>5. /\ \A e \in Entries : e.data # Zeros /\ Before(e.data, writes + 1)
        /\ \A i \in DOMAIN chunks : chunks[i].tag # Zeros /\ Before(chunks[i].tag, writes + 1)
        /\ \A i \in DOMAIN stored.chunks :
             stored.chunks[i].tag # Zeros /\ Before(stored.chunks[i].tag, writes + 1)
    BY <1>5, <2>4 DEF Ages
  <2> QED  BY <1>1, <1>5, <2>2, <2>3, <2>5 DEF Ages, Old
<1>8. OneHome(Entries, chunks, job)'
  BY <1>1, <1>4, <1>5 DEF OneHome, Home, Has
<1>9. Apart(Entries, chunks)' /\ Warm(Entries, chunks, dirty)'
  BY <1>1, <1>5 DEF Apart, Warm, Saves, Holds
<1>10. Cold(Entries, chunks, disk, job)'
  BY <1>4 DEF Cold
<1>11. Durable(disk, dirty)'
  <2> SUFFICES ASSUME NEW i \in Index
               PROVE  \/ Kept(stored.chunks, disk', i) = saved.arr[i]
                      \/ Kept(stored.chunks, disk', i) = Lost /\ i \in dirty
    BY <1>1 DEF Durable
  <2>1. CASE u = Hole
    BY <1>1, <1>5, <2>1 DEF Durable
  <2>2. CASE u # Hole
    <3>1. u \in 1..NumUuids /\ disk' = Gone(disk, u)
      <4>1. u \in 1..NumUuids
        BY <1>6, <2>2, Sizes DEF Hole
      <4>2. disk' = Gone(disk, u)
        BY <1>1, <2>2 DEF Gone
      <4> QED  BY <4>1, <4>2
    <3>2. i \in DOMAIN stored.chunks => stored.chunks[i].uuid \in 0..NumUuids
      BY <1>2, DataTypes DEF Basics
    <3> HIDE DEF u
    <3>3. \/ Kept(stored.chunks, Gone(disk, u), i) = Kept(stored.chunks, disk, i)
          \/ Kept(stored.chunks, Gone(disk, u), i) = Lost
      BY <1>6, <3>1, <3>2, LostFile
    <3> QED  BY <1>5, <3>1, <3>3 DEF Durable
  <2> QED  BY <2>1, <2>2
<1>12. Flushed' /\ Going'
  BY <1>1, <1>4, <1>5 DEF RInv, Flushed, Going
<1>13. UNCHANGED File!vars
  <2>1. Viewed /\ Viewed' /\ Sized /\ Sized'
    BY ViewFacts, ViewNext, SizeFacts, SizeNext DEF RInv
  <2>2. View = [i \in Index |-> Zeros] /\ ViewSize = 0
    BY <1>1, <1>3, <2>1 DEF Viewed, Shown, Sized
  <2>3. View' = [i \in Index |-> Zeros] /\ ViewSize' = 0
    BY <1>1, <1>3, <1>4, <2>1 DEF Viewed, Shown, Sized
  <2> QED  BY <1>1, <1>4, <2>2, <2>3, PendingFacts, PendingNext DEF File!vars, File!name
<1> QED  BY <1>7, <1>8, <1>9, <1>10, <1>11, <1>12, <1>13 DEF RInv, Agrees

LEMMA EndTruncStep ==
  ASSUME RInv, IInv', EndTrunc
  PROVE  RInv' /\ [File!Next]_(File!vars)
<1>1. /\ job.op = "trunc" /\ chunks' = <<>> /\ size' = 0 /\ job' = NoJob
      /\ UNCHANGED <<loaded, cache, disk, stored, linked, user, writes,
                     saved, dirty, stale, removed>>
  BY DEF EndTrunc, storage, ghosts
<1>2. loaded /\ Entries' = Entries /\ job'.op = "none" /\ job'.table = <<>> /\ DOMAIN chunks' = {}
  BY <1>1, NoJobFacts DEF RInv, IInv, Typed, Entries
<1>3. /\ OneHome(Entries, chunks, job) /\ Ages(Entries, chunks, disk, job)
      /\ Apart(Entries, chunks) /\ Durable(disk, dirty)
      /\ \A e \in Entries : e.modified => <<e.idx, e.data>> \in stale
  BY <1>1 DEF RInv, Agrees, Going
<1>4. Ages(Entries, chunks, disk, job)'
  <2>1. \A i : Now(job, i)' = Now(job, i)
    BY <1>1, <1>2 DEF Now
  <2>2. \A i, d : Old(job, i, d) => d # Zeros /\ Before(d, Now(job, i)')
    BY <2>1 DEF Old
  <2> QED  BY <1>1, <1>2, <1>3, <2>2 DEF Ages, Old
<1>5. OneHome(Entries, chunks, job)'
  <2>1. \A v, i : Home(Entries, chunks, job, v, i)' => Home(Entries, chunks, job, v, i)
    BY <1>1, <1>2, NoJobFacts DEF Home, Has
  <2> QED  BY <1>3, <2>1 DEF OneHome
<1>6. /\ Apart(Entries, chunks)' /\ Warm(Entries, chunks, dirty)'
      /\ Cold(Entries, chunks, disk, job)' /\ Durable(disk, dirty)'
  BY <1>1, <1>2, <1>3 DEF Apart, Warm, Saves, Holds, Cold, Durable, Kept
<1>7. Flushed' /\ Going'
  BY <1>1, <1>2, NoJobFacts DEF RInv, Flushed, Going
<1>8. View = [i \in Index |-> Zeros] /\ ViewSize = 0
  BY <1>1, <1>2, ViewFacts, SizeFacts DEF Viewed, Shown, Sized, RInv
<1>9. View' = [i \in Index |-> Zeros] /\ ViewSize' = 0
  <2>1. View' = SeenAll(Entries, chunks, disk)' /\ ViewSize' = size'
    BY <1>1, <1>2, LoadedViewNext
  <2>2. \A i \in Index : Seen(Entries, chunks', disk, i) = Zeros
    BY <1>2 DEF Seen, Kept, Holds
  <2> QED  BY <1>1, <1>2, <2>1, <2>2 DEF SeenAll
<1>10. File!EndTruncate
  BY <1>1, <1>2, <1>8, <1>9, PendingFacts, PendingNext DEF File!EndTruncate, File!name
<1> QED  BY <1>4, <1>5, <1>6, <1>7, <1>10 DEF RInv, Agrees, File!Next

LEMMA LookupStep ==
  ASSUME RInv, IInv', Lookup
  PROVE  RInv' /\ [File!Next]_(File!vars)
<1>1. /\ job.op = "none" /\ ~loaded /\ linked
      /\ loaded' = TRUE /\ size' = stored.size /\ chunks' = stored.chunks
      /\ UNCHANGED <<cache, disk, stored, linked, user, job, writes, saved, dirty, stale, removed>>
  BY DEF Lookup, Ready, storage, ghosts
<1>2. Entries' = Entries /\ \A e \in Entries : ~e.live
  BY <1>1 DEF RInv, IInv, Data, Entries
<1>3. /\ OneHome(Entries, chunks, job) /\ Ages(Entries, chunks, disk, job)
      /\ Apart(Entries, chunks) /\ Warm(Entries, chunks, dirty) /\ Durable(disk, dirty)
  BY DEF RInv, Agrees
<1>4. OneHome(Entries, chunks, job)'
  <2>1. \A v, i : Home(Entries, chunks, job, v, i)' => Home(Entries, chunks, job, v, i)
    BY <1>1, <1>2 DEF Home
  <2> QED  BY <1>3, <2>1 DEF OneHome
<1>5. Ages(Entries, chunks, disk, job)'
  BY <1>1, <1>2, <1>3 DEF Ages, Old, Now
<1>6. Apart(Entries, chunks)' /\ Durable(disk, dirty)'
  BY <1>1, <1>2, <1>3 DEF Apart, Saves, Durable
<1>7. Warm(Entries, chunks, dirty)' /\ Cold(Entries, chunks, disk, job)'
  BY <1>1, <1>2, <1>3 DEF Warm, Cold, Holds
<1>8. Flushed' /\ Going'
  BY <1>1, <1>2 DEF RInv, Flushed, Going
<1>9. View' = View /\ ViewSize' = ViewSize
  <2>1. View = [i \in Index |-> Kept(stored.chunks, disk, i)] /\ ViewSize = stored.size
    BY <1>1, ViewFacts, SizeFacts DEF Viewed, Shown, Sized, RInv
  <2>2. View' = SeenAll(Entries, chunks, disk)' /\ ViewSize' = size'
    BY <1>1, LoadedViewNext
  <2>3. \A i \in Index : Seen(Entries, stored.chunks, disk, i) = Kept(stored.chunks, disk, i)
    BY <1>2 DEF Seen, Holds
  <2> QED  BY <1>1, <1>2, <2>1, <2>2, <2>3 DEF SeenAll
<1>10. UNCHANGED File!vars
  BY <1>1, <1>9, PendingFacts, PendingNext DEF File!vars, File!name
<1> QED  BY <1>4, <1>5, <1>6, <1>7, <1>8, <1>10 DEF RInv, Agrees

-----------------------------------------------------------------------------
(* Unlinking.                                                              *)

LEMMA UnlinkChunkStep ==
  ASSUME RInv, IInv', UnlinkChunk
  PROVE  RInv' /\ [File!Next]_(File!vars)
<1> DEFINE k == job.idx
           u == job.table[k].uuid
<1>1. /\ job.op = "unlink" /\ k <= Len(job.table)
      /\ disk' = IF u = Hole THEN disk ELSE Gone(disk, u)
      /\ job' = NoJob \/ job' = [job EXCEPT !.idx = job.idx + 1]
      /\ UNCHANGED <<loaded, size, chunks, cache, stored, linked, user, writes,
                     saved, dirty, stale, removed>>
  BY DEF UnlinkChunk, node, ghosts, Gone
<1>2. Basics /\ Basics'
  BY BasicFacts, BasicsNext DEF RInv
<1>3. /\ job'.op \in {"none", "unlink"}
      /\ job'.table = job.table \/ job'.table = <<>>
      /\ job'.op # "unlink" => job'.table = <<>>
  <2>1. CASE job' = NoJob
    BY <2>1, NoJobFacts
  <2>2. CASE job' = [job EXCEPT !.idx = job.idx + 1]
    BY <1>1, <1>2, <2>2 DEF Basics, Jobs
  <2> QED  BY <1>1, <2>1, <2>2
<1>4. loaded /\ k \in DOMAIN job.table /\ k \in Index /\ u \in 0..NumUuids
  <2>1. loaded /\ Len(job.table) <= MaxChunks
    BY <1>1 DEF RInv, IInv, Typed
  <2>2. job.table \in Seq(Chunk) /\ k \in Nat \ {0} /\ MaxChunks \in Nat
    <3>1. job.table \in Seq(Chunk) /\ k \in 1..(MaxChunks + 1)
      BY <1>2 DEF Basics, Jobs
    <3> QED  BY <3>1, Sizes
  <2>3. k \in 1..Len(job.table) /\ k \in 1..MaxChunks
    BY <1>1, <2>1, <2>2
  <2>4. k \in DOMAIN job.table
    BY <2>2, <2>3
  <2>5. job.table[k] \in Chunk
    BY <2>2, <2>4
  <2> QED  BY <2>1, <2>3, <2>4, <2>5 DEF Index, Chunk
<1>5. /\ OneHome(Entries, chunks, job) /\ Ages(Entries, chunks, disk, job)
      /\ Apart(Entries, chunks) /\ Cold(Entries, chunks, disk, job)
      /\ Warm(Entries, chunks, dirty) /\ Durable(disk, dirty)
      /\ stored.chunks = <<>> /\ Entries' = Entries
  BY <1>1 DEF RInv, Agrees, Going, Entries
<1>6. /\ \A i \in Index \ {k} : Kept(chunks, disk', i) = Kept(chunks, disk, i)
      /\ \/ Kept(chunks, disk', k) = Kept(chunks, disk, k)
         \/ Kept(chunks, disk', k) = Lost /\ k \in removed
  <2>1. CASE u = Hole
    BY <1>1, <2>1
  <2>2. CASE u # Hole
    <3>1. u \in 1..NumUuids /\ disk' = Gone(disk, u) /\ disk \in Files
      <4>1. u \in 1..NumUuids
        BY <1>4, <2>2, Sizes DEF Hole
      <4>2. disk \in Files
        BY <1>2 DEF Basics, Sound
      <4> QED  BY <1>1, <2>2, <4>1, <4>2
    <3>2. \A i \in DOMAIN chunks : chunks[i].uuid \in 0..NumUuids
      BY <1>2, DataTypes DEF Basics
    <3>3. Home(Entries, chunks, job, u, k)
      BY <1>4 DEF Home, Has
    <3>4. k \in removed
      BY <1>4, <2>2 DEF RInv, Going
    <3> HIDE DEF u, k
    <3>5. \A i \in Index : \/ Kept(chunks, disk', i) = Kept(chunks, disk, i)
                           \/ /\ Kept(chunks, disk', i) = Lost
                              /\ i \in DOMAIN chunks /\ chunks[i].uuid = u
      BY <3>1, <3>2, LostFile
    <3>6. \A i \in Index : i \in DOMAIN chunks /\ chunks[i].uuid = u => i = k
      BY <1>4, <1>5, <3>1, <3>3 DEF OneHome, Home, Has
    <3> QED  BY <1>4, <3>4, <3>5, <3>6
  <2> QED  BY <2>1, <2>2
<1>7. \A v \in 0..NumUuids : disk'[v] = disk[v] \/ disk'[v] = Lost
  BY <1>1, <1>2 DEF Gone, Basics, Sound, Files
<1> HIDE DEF u, k
<1>8. OneHome(Entries, chunks, job)'
  <2>1. \A v, i : Home(Entries, chunks, job, v, i)' => Home(Entries, chunks, job, v, i)
    BY <1>1, <1>3, <1>5, NoJobFacts DEF Home, Has
  <2> QED  BY <1>5, <2>1 DEF OneHome
<1>9. Ages(Entries, chunks, disk, job)'
  <2>1. \A v \in 0..NumUuids : Before(disk'[v], writes + 1)
    BY <1>5, <1>7 DEF Ages, Before
  <2>2. \A i : Now(job, i)' = Now(job, i)
    BY <1>1, <1>3 DEF Now
  <2>3. \A i, d : Old(job, i, d) => d # Zeros /\ Before(d, Now(job, i)')
    BY <2>2 DEF Old
  <2> QED  BY <1>1, <1>5, <2>1, <2>3 DEF Ages, Old
<1>10. Apart(Entries, chunks)' /\ Warm(Entries, chunks, dirty)'
  BY <1>1, <1>5 DEF Apart, Warm, Saves, Holds
<1>11. Cold(Entries, chunks, disk, job)'
  <2>1. \A i \in Index : \/ Kept(chunks, disk', i) = Kept(chunks, disk, i)
                         \/ Kept(chunks, disk', i) = Lost /\ i \in removed
    BY <1>6
  <2>2. job.op # "trunc"
    BY <1>1
  <2> QED  BY <1>1, <1>5, <2>1, <2>2 DEF Cold, Holds
<1>12. Durable(disk, dirty)'
  BY <1>1, <1>5, NoJobFacts DEF Durable, Kept
<1>13. Flushed' /\ Going'
  <2>1. Flushed'
    BY <1>1 DEF RInv, Flushed
  <2>2. Going'
    BY <1>1, <1>3, <1>5, NoJobFacts DEF RInv, Going
  <2> QED  BY <2>1, <2>2
<1>14. View = SeenAll(Entries, chunks, disk) /\ ViewSize = size
  BY <1>1, <1>4, LoadedView DEF RInv
<1>15. View' = SeenAll(Entries, chunks, disk)' /\ ViewSize' = size'
  BY <1>1, <1>3, <1>4, LoadedViewNext
<1>16. Moves(SeenAll(Entries, chunks, disk), SeenAll(Entries, chunks, disk)')
  <2>1. \A i \in Index : SeenAll(Entries, chunks, disk)[i] = Seen(Entries, chunks, disk, i)
    BY DEF SeenAll
  <2>2. \A i \in Index : SeenAll(Entries, chunks, disk)'[i] = Seen(Entries, chunks, disk', i)
    BY <1>1, <1>5 DEF SeenAll
  <2>3. \A i \in Index \ {k} : Seen(Entries, chunks, disk', i) = Seen(Entries, chunks, disk, i)
    BY <1>6 DEF Seen
  <2>4. \/ Seen(Entries, chunks, disk', k) = Seen(Entries, chunks, disk, k)
        \/ Seen(Entries, chunks, disk', k) = Lost /\ k \in removed
    BY <1>6 DEF Seen
  <2> QED  BY <1>4, <2>1, <2>2, <2>3, <2>4 DEF Moves
<1>17. [File!Next]_(File!vars)
  BY <1>1, <1>3, <1>14, <1>15, <1>16, MoveStep, PendingFacts, PendingNext
<1> QED  BY <1>8, <1>9, <1>10, <1>11, <1>12, <1>13, <1>17 DEF RInv, Agrees

LEMMA UnlinkStep ==
  ASSUME RInv, IInv', Unlink
  PROVE  RInv' /\ [File!Next]_(File!vars)
<1>1. /\ job.op = "none" /\ loaded /\ linked
      /\ linked' = FALSE /\ stored' = Empty
      /\ removed' = {i \in DOMAIN stored.chunks : stored.chunks[i].uuid # Hole}
      /\ saved' = [arr |-> [i \in Index |-> Zeros], size |-> 0]
      /\ UNCHANGED <<loaded, size, chunks, cache, disk, user, writes, dirty, stale>>
  BY DEF Unlink, Ready, node
<1>2. Basics /\ Basics'
  BY BasicFacts, BasicsNext DEF RInv
<1>3. /\ job'.op \in {"none", "unlink"}
      /\ job'.op = "unlink" => job'.table = stored.chunks
      /\ job'.op # "unlink" => job'.table = <<>>
  <2>1. CASE job' = NoJob
    BY <2>1, NoJobFacts
  <2>2. CASE job' = [NoJob EXCEPT !.op = "unlink", !.table = stored.chunks]
    <3>1. job'.op = "unlink" /\ job'.table = stored.chunks
      BY <2>2 DEF NoJob
    <3> QED  BY <3>1
  <2> QED  BY <2>1, <2>2 DEF Unlink
<1>4. stored'.chunks = <<>> /\ stored'.size = 0
  BY <1>1 DEF Empty
<1>5. /\ OneHome(Entries, chunks, job) /\ Ages(Entries, chunks, disk, job)
      /\ Apart(Entries, chunks) /\ Cold(Entries, chunks, disk, job)
      /\ Warm(Entries, chunks, dirty) /\ Entries' = Entries /\ removed = {}
  BY <1>1 DEF RInv, Agrees, Going, Entries
<1>6. OneHome(Entries, chunks, job)'
  <2>1. \A v, i : Home(Entries, chunks, job, v, i)' => Home(Entries, chunks, job, v, i)
    BY <1>1, <1>3, <1>4, <1>5, NoJobFacts DEF Home, Has
  <2> QED  BY <1>5, <2>1 DEF OneHome
<1>7. Ages(Entries, chunks, disk, job)'
  <2>1. \A i : Now(job, i)' = Now(job, i)
    BY <1>1, <1>3 DEF Now
  <2>2. \A i, d : Old(job, i, d) => d # Zeros /\ Before(d, Now(job, i)')
    BY <2>1 DEF Old
  <2> QED  BY <1>1, <1>4, <1>5, <2>2, NoJobFacts DEF Ages, Old
<1>8. Apart(Entries, chunks)' /\ Warm(Entries, chunks, dirty)'
  BY <1>1, <1>4, <1>5, NoJobFacts DEF Apart, Warm, Saves, Holds
<1>9. Cold(Entries, chunks, disk, job)'
  <2>1. job.op # "trunc"
    BY <1>1
  <2> QED  BY <1>1, <1>5, <2>1 DEF Cold, Holds, Kept
<1>10. Durable(disk, dirty)' /\ Flushed'
  BY <1>1, <1>4, NoJobFacts DEF Durable, Kept, Flushed
<1>11. Going'
  BY <1>1, <1>3, <1>4, NoJobFacts DEF Going
<1>12. View' = View /\ ViewSize' = ViewSize
  <2>1. View = SeenAll(Entries, chunks, disk) /\ ViewSize = size
    BY <1>1, LoadedView DEF RInv
  <2>2. View' = SeenAll(Entries, chunks, disk)' /\ ViewSize' = size'
    BY <1>1, <1>3, LoadedViewNext
  <2> QED  BY <1>1, <1>5, <2>1, <2>2 DEF SeenAll, Seen, Kept, Holds
<1>13. removed' \subseteq {i \in Index : saved.arr[i] # Zeros}
  <2> SUFFICES ASSUME NEW i \in DOMAIN stored.chunks, stored.chunks[i].uuid # Hole
               PROVE  i \in Index /\ saved.arr[i] # Zeros
    BY <1>1
  <2>1. i \in Index
    BY <1>2, DataTypes DEF Basics
  <2>2. saved.arr[i] \in {stored.chunks[i].tag, Lost}
    BY <2>1 DEF RInv, Flushed
  <2>3. stored.chunks[i].tag # Zeros
    BY <1>5 DEF Ages, Old
  <2>4. Lost # Zeros
    BY ZerosType, BytesNotLost
  <2> QED  BY <2>1, <2>2, <2>3, <2>4
<1>14. File!Unlink
  BY <1>1, <1>3, <1>12, <1>13, PendingFacts, PendingNext
     DEF File!Unlink, File!Index, Index, File!Zeros, Zeros
<1> QED  BY <1>6, <1>7, <1>8, <1>9, <1>10, <1>11, <1>14 DEF RInv, Agrees, File!Next

-----------------------------------------------------------------------------
(* Flushing.                                                               *)

LEMMA EndFlushStep ==
  ASSUME RInv, IInv', EndFlush
  PROVE  RInv' /\ [File!Next]_(File!vars)
<1>1. /\ job.op = "flush" /\ job.idx > Len(chunks)
      /\ stored'.size = size /\ stored'.chunks = chunks /\ job' = NoJob
      /\ saved' = [arr |-> View, size |-> size] /\ dirty' = {}
      /\ UNCHANGED <<loaded, size, chunks, cache, disk, linked, writes, stale, removed>>
  BY DEF EndFlush, node
<1>2. Basics /\ loaded /\ Entries' = Entries
  BY <1>1, BasicFacts DEF RInv, IInv, Typed, Entries
<1>3. /\ OneHome(Entries, chunks, job) /\ Ages(Entries, chunks, disk, job)
      /\ Apart(Entries, chunks) /\ Warm(Entries, chunks, dirty)
  BY DEF RInv, Agrees
<1>4. \A e \in Entries : \A i : ~Holds(e, chunks, i)
  <2>1. \A i \in DOMAIN chunks : i < job.idx
    <3>1. chunks \in Seq(Chunk) /\ job.idx \in Nat
      BY <1>2, Sizes DEF Basics, Jobs, Sound
    <3> QED  BY <1>1, <3>1
  <2> QED  BY <1>1, <2>1 DEF RInv, Going, Holds
<1>5. View = SeenAll(Entries, chunks, disk) /\ ViewSize = size
  BY <1>1, <1>2, LoadedView DEF RInv
<1>6. View' = View /\ ViewSize' = size
  <2>1. View' = SeenAll(Entries, chunks, disk)' /\ ViewSize' = size'
    BY <1>1, <1>2, NoJobFacts, LoadedViewNext
  <2> QED  BY <1>1, <1>2, <1>5, <2>1 DEF SeenAll
<1>7. DOMAIN View = Index /\ \A i \in Index : View[i] = Kept(chunks, disk, i)
  BY <1>4, <1>5 DEF SeenAll, Seen
<1>8. OneHome(Entries, chunks, job)'
  <2>1. \A v, i : Home(Entries, chunks, job, v, i)' => Home(Entries, chunks, job, v, i)
    BY <1>1, <1>2, NoJobFacts DEF Home, Has
  <2> QED  BY <1>3, <2>1 DEF OneHome
<1>9. Ages(Entries, chunks, disk, job)'
  <2>1. \A i : Now(job, i)' = Now(job, i)
    BY <1>1, NoJobFacts DEF Now
  <2>2. \A i, d : Old(job, i, d) => d # Zeros /\ Before(d, Now(job, i)')
    BY <2>1 DEF Old
  <2> QED  BY <1>1, <1>2, <1>3, <2>2 DEF Ages, Old
<1>10. Apart(Entries, chunks)'
  BY <1>1, <1>2, <1>3 DEF Apart, Saves
<1>11. Cold(Entries, chunks, disk, job)'
  BY <1>1, <1>2, <1>4 DEF Cold, Holds
<1>12. Warm(Entries, chunks, dirty)'
  BY <1>1, <1>2, <1>3, <1>4 DEF Warm
<1>13. Durable(disk, dirty)'
  BY <1>1, <1>7 DEF Durable, Kept
<1>14. Flushed'
  <2>1. saved'.size = stored'.size /\ DOMAIN saved'.arr = Index /\ DOMAIN saved' = {"arr", "size"}
    BY <1>1, <1>7
  <2>2. \A i \in Index : saved'.arr[i] = Kept(chunks, disk, i)
    BY <1>1, <1>7
  <2>3. \A i \in Index :
          IF i \in DOMAIN chunks /\ chunks[i].uuid # Hole
          THEN saved'.arr[i] \in {chunks[i].tag, Lost} ELSE saved'.arr[i] = Zeros
    BY <2>2 DEF Kept
  <2> QED  BY <1>1, <2>1, <2>3 DEF Flushed
<1>15. Going'
  BY <1>1, NoJobFacts DEF RInv, Going
<1>16. File!Flush
  BY <1>1, <1>5, <1>6, PendingFacts, PendingNext, NoJobFacts DEF File!Flush, File!name
<1> QED  BY <1>8, <1>9, <1>10, <1>11, <1>12, <1>13, <1>14, <1>15, <1>16
         DEF RInv, Agrees, File!Next

\* A step in which the cache makes room, or a chunk is flushed.
LEMMA RoomStep ==
  ASSUME RInv, IInv', loaded, loaded', job.op \notin {"trunc", "write"},
         job'.op \notin {"trunc", "write"}, job'.table = job.table \/ job'.table = <<>>,
         UNCHANGED <<size, stored, linked, writes, saved, dirty, stale, removed>>, Going',
         NEW es, Agrees(es, chunks, disk, dirty, job), Sound(es, chunks, disk),
         SeenAll(es, chunks, disk) = SeenAll(Entries, chunks, disk),
         \/ Entries' = es /\ chunks' = chunks /\ disk' = disk
         \/ \E old \in es : Takes(old, es, chunks, disk, Entries', chunks', disk')
  PROVE  RInv' /\ [File!Next]_(File!vars)
<1>1. writes \in Nat
  BY BasicFacts, Sizes DEF RInv, Basics
<1>2. /\ Agrees(Entries', chunks', disk', dirty, job)
      /\ Moves(SeenAll(Entries, chunks, disk), SeenAll(Entries', chunks', disk'))
  <2>1. CASE Entries' = es /\ chunks' = chunks /\ disk' = disk
    <3>1. 1 \in Index
      BY Sizes DEF Index
    <3> QED  BY <2>1, <3>1 DEF Moves
  <2>2. CASE \E old \in es : Takes(old, es, chunks, disk, Entries', chunks', disk')
    <3>1. PICK old \in es : Takes(old, es, chunks, disk, Entries', chunks', disk')
      BY <2>2
    <3>2. Agrees(Entries', chunks', disk', dirty, job)
      BY <1>1, <3>1, TakesAgrees
    <3>3. Moves(SeenAll(es, chunks, disk), SeenAll(Entries', chunks', disk'))
      BY <3>1, TakesMoves
    <3> QED  BY <3>2, <3>3
  <2> QED  BY <2>1, <2>2
<1>3. SeenAll(Entries, chunks, disk)' = SeenAll(Entries', chunks', disk')
  BY DEF SeenAll, Seen, Kept, Holds
<1>4. View = SeenAll(Entries, chunks, disk) /\ ViewSize = size
  BY LoadedView DEF RInv
<1>5. View' = SeenAll(Entries, chunks, disk)' /\ ViewSize' = size'
  BY LoadedViewNext
<1>6. [File!Next]_(File!vars)
  BY <1>2, <1>3, <1>4, <1>5, MoveStep, PendingFacts, PendingNext
<1>7. OneHome(Entries, chunks, job)'
  <2>1. \A v, i : Home(Entries, chunks, job, v, i)' => Home(Entries', chunks', job, v, i)
    BY NoJobFacts DEF Home, Has
  <2>2. OneHome(Entries', chunks', job)
    BY <1>2 DEF Agrees
  <2> QED  BY <2>1, <2>2 DEF OneHome
<1>8. Ages(Entries, chunks, disk, job)'
  <2>1. \A i : Now(job, i)' = writes + 1 /\ Now(job, i) = writes + 1
    BY DEF Now
  <2>2. \A i, d : Old(job, i, d) => d # Zeros /\ Before(d, writes + 1)
    BY <2>1 DEF Old
  <2>3. Ages(Entries', chunks', disk', job)
    BY <1>2 DEF Agrees
  <2> QED  BY <2>1, <2>2, <2>3 DEF Ages, Old
<1>9. Apart(Entries, chunks)' /\ Warm(Entries, chunks, dirty)' /\ Durable(disk, dirty)'
  BY <1>2 DEF Agrees, Apart, Warm, Durable, Saves, Holds, Kept
<1>10. Cold(Entries, chunks, disk, job)'
  BY <1>2 DEF Agrees, Cold, Holds, Kept
<1>11. Flushed'
  BY DEF RInv, Flushed
<1> QED  BY <1>6, <1>7, <1>8, <1>9, <1>10, <1>11 DEF RInv, Agrees

LEMMA FlushChunkStep ==
  ASSUME RInv, IInv', FlushChunk
  PROVE  RInv' /\ [File!Next]_(File!vars)
<1> DEFINE i == job.idx
           u == chunks[i].uuid
           e == EntryOf(u)
<1>1. /\ job.op = "flush" /\ i <= Len(chunks)
      /\ job' = [job EXCEPT !.idx = i + 1]
      /\ UNCHANGED <<loaded, size, stored, linked, user, writes, saved, dirty, stale, removed>>
  BY DEF FlushChunk, ghosts
<1>2. Basics /\ Basics'
  BY BasicFacts, BasicsNext DEF RInv
<1>3. loaded /\ i \in DOMAIN chunks /\ i \in Index /\ u \in 0..NumUuids /\ i \in Nat
  <2>1. loaded
    BY <1>1 DEF RInv, IInv, Typed
  <2>2. chunks \in Seq(Chunk) /\ i \in Nat \ {0}
    <3>1. chunks \in Seq(Chunk)
      BY <1>2 DEF Basics, Sound
    <3>2. i \in 1..(MaxChunks + 1)
      BY <1>2 DEF Basics, Jobs
    <3> QED  BY <3>1, <3>2, Sizes
  <2>3. i \in DOMAIN chunks
    BY <1>1, <2>2
  <2> QED  BY <1>2, <2>1, <2>2, <2>3, DataTypes DEF Basics
<1>4. /\ job'.op = "flush" /\ job'.table = job.table /\ job'.idx = i + 1
  BY <1>1, <1>2 DEF Basics, Jobs
<1>5. Agrees(Entries, chunks, disk, dirty, job) /\ Sound(Entries, chunks, disk)
  BY <1>2 DEF RInv, Basics
<1>6. Entries' = {f \in Entries : f.key # u}
  <2>1. CASE Cached(u)
    <3>1. cache' = Without(u)
      BY <2>1 DEF FlushChunk
    <3> QED  BY <1>2, <3>1, WithoutFacts DEF Basics, Entries
  <2>2. CASE ~Cached(u)
    <3>1. cache' = cache
      BY <2>2 DEF FlushChunk
    <3> QED  BY <2>2, <3>1 DEF Entries, ToSet, Cached
  <2> QED  BY <2>1, <2>2
<1>7. \/ Entries' = Entries /\ chunks' = chunks /\ disk' = disk
      \/ \E old \in Entries : Takes(old, Entries, chunks, disk, Entries', chunks', disk')
  <2>1. CASE Cached(u)
    <3>1. e \in Entries /\ e \in Entry /\ e.key = u
      BY <1>2, <2>1, CachedFacts DEF Basics
    <3>2. Entries' = Entries \ {e}
      BY <1>2, <1>6, <3>1 DEF Basics, Sound, Alone
    <3>3. e.idx = i
      <4>1. Home(Entries, chunks, job, u, i) /\ Home(Entries, chunks, job, u, e.idx)
        BY <1>3, <3>1 DEF Home, Has
      <4>2. u \in 1..NumUuids /\ e.idx \in Index
        BY <3>1 DEF Entry
      <4> QED  BY <1>3, <1>5, <4>1, <4>2 DEF Agrees, OneHome
    <3>4. CASE e.modified
      <4>1. chunks' = [chunks EXCEPT ![i].tag = e.data] /\ disk' = [disk EXCEPT ![u] = e.data]
        BY <2>1, <3>4 DEF FlushChunk
      <4> QED  BY <1>3, <3>1, <3>2, <3>3, <3>4, <4>1 DEF Takes
    <3>5. CASE ~e.modified
      <4>1. chunks' = chunks /\ disk' = disk
        BY <2>1, <3>5 DEF FlushChunk
      <4> QED  BY <3>1, <3>2, <3>5, <4>1 DEF Takes
    <3> QED  BY <3>4, <3>5
  <2>2. CASE ~Cached(u)
    BY <2>2 DEF FlushChunk, Entries
  <2> QED  BY <2>1, <2>2
<1>8. Going'
  <2>1. DOMAIN chunks' = DOMAIN chunks /\ \A k \in DOMAIN chunks : chunks'[k].uuid = chunks[k].uuid
    BY <1>5, <1>7, TakesFacts
  <2>2. ASSUME NEW k \in DOMAIN chunks, k < i + 1, NEW f \in Entries'
        PROVE  f.key # chunks[k].uuid
    <3>1. CASE k = i
      BY <1>6, <2>2, <3>1
    <3>2. CASE k # i
      <4>1. k \in Nat
        BY <1>5 DEF Sound, Index
      <4>2. k < i
        BY <1>3, <2>2, <3>2, <4>1
      <4> QED  BY <1>1, <1>6, <2>2, <4>2 DEF RInv, Going
    <3> QED  BY <3>1, <3>2
  <2> QED  BY <1>1, <1>4, <2>1, <2>2 DEF RInv, Going
<1> QED  BY <1>1, <1>3, <1>4, <1>5, <1>7, <1>8, RoomStep

-----------------------------------------------------------------------------
(* Reading.                                                                *)

LEMMA EvictedTakes ==
  ASSUME NEW es, NEW cs, NEW ds, Evicted(es, cs, ds)
  PROVE  \/ Entries' = es /\ chunks' = cs /\ disk' = ds
         \/ \E old \in es : Takes(old, es, cs, ds, Entries', chunks', disk')
BY DEF Evicted, Takes

LEMMA ReadChunkStep ==
  ASSUME RInv, IInv', ReadChunk
  PROVE  RInv' /\ [File!Next]_(File!vars)
<1> DEFINE i == job.idx
           u == chunks[i].uuid
           e == EntryOf(u)
           new == [key |-> u, idx |-> i, data |-> disk[u], modified |-> FALSE, live |-> TRUE]
<1>1. /\ job.op = "read"
      /\ UNCHANGED <<loaded, size, stored, linked, user, writes, saved, dirty, stale, removed>>
      /\ i <= job.last /\ job.last <= Len(chunks)
  BY DEF ReadChunk, ghosts, RInv, IInv, Typed
<1>2. Basics
  BY BasicFacts DEF RInv
<1>3. /\ loaded /\ i \in DOMAIN chunks /\ i \in Index /\ u \in 0..NumUuids
      /\ chunks \in Seq(Chunk) /\ disk \in Files /\ TypeOK /\ UniqueKeys(cache)
  <2>1. /\ loaded /\ job.idx \in Nat \ {0} /\ job.last \in Nat
        /\ Len(chunks) \in Nat /\ DOMAIN chunks = 1..Len(chunks)
        /\ chunks \in Seq(Chunk) /\ disk \in Files /\ TypeOK /\ UniqueKeys(cache)
    BY <1>1, AtChunk DEF RInv
  <2>2. i \in DOMAIN chunks
    BY <1>1, <2>1
  <2> QED  BY <1>2, <2>1, <2>2, DataTypes DEF Basics
<1>4. /\ job'.op \in {"read", "none"} /\ job'.table = <<>> /\ job.table = <<>>
  <2>1. job.table = <<>>
    BY <1>1 DEF RInv, Going
  <2>2. job' = NoJob \/ job' = IF i = job.last THEN NoJob ELSE [job EXCEPT !.idx = i + 1]
    BY DEF ReadChunk
  <2>3. job' = NoJob \/ job' = [job EXCEPT !.idx = i + 1]
    BY <2>2
  <2>4. CASE job' = NoJob
    BY <2>1, <2>4, NoJobFacts
  <2>5. CASE job' = [job EXCEPT !.idx = i + 1]
    BY <1>1, <1>2, <2>1, <2>5 DEF Basics, Jobs
  <2> QED  BY <2>3, <2>4, <2>5
<1>5. Going'
  BY <1>1, <1>4, NoJobFacts DEF RInv, Going
<1>6. Agrees(Entries, chunks, disk, dirty, job) /\ Sound(Entries, chunks, disk)
  BY <1>2 DEF RInv, Basics
<1>7. CASE UNCHANGED <<cache, chunks, disk>>
  <2>1. Entries' = Entries
    BY <1>7 DEF Entries
  <2> QED  BY <1>1, <1>3, <1>4, <1>5, <1>6, <1>7, <2>1, RoomStep
<1>8. CASE Cached(u) /\ Evict(Pushed(e), chunks, disk)
  <2>1. e \in Entry /\ e \in Entries /\ e.key = u
    BY <1>3, <1>8, CachedFacts
  <2>2. \A f \in Entries : f.key = u => f = e
    BY <1>6, <2>1 DEF Sound, Alone
  <2> HIDE DEF e
  <2>3. /\ Pushed(e) \in Seq(Entry) /\ Len(Pushed(e)) \in 1..(MaxCache + 1)
        /\ UniqueKeys(Pushed(e))
        /\ ToSet(Pushed(e)) = {e} \cup {f \in Entries : f.key # e.key}
    BY <1>3, <2>1, PushedFacts
  <2>4. ToSet(Pushed(e)) = Entries
    BY <2>1, <2>2, <2>3
  <2>5. Evicted(Entries, chunks, disk)
    BY <1>3, <1>8, <2>3, <2>4, EvictFacts
  <2> QED  BY <1>1, <1>3, <1>4, <1>5, <1>6, <2>5, EvictedTakes, RoomStep
<1>9. CASE u # Hole /\ ~Cached(u) /\ Loadable(u, chunks[i].tag)
           /\ Evict(Pushed(new), chunks, disk)
  <2>1. disk[u] \in Bytes /\ disk[u] = chunks[i].tag /\ u \in 1..NumUuids
    BY <1>3, <1>9, Sizes DEF Loadable, Files, Hole
  <2>2. new \in Entry
    BY <1>3, <2>1 DEF Entry
  <2>3. \A f \in Entries : f.key # u
    BY <1>3, <1>9, EntryFacts
  <2>4. new.key = u /\ new.idx = i /\ new.data = disk[u] /\ ~new.modified
    OBVIOUS
  <2> HIDE DEF new
  <2>5. /\ Pushed(new) \in Seq(Entry) /\ Len(Pushed(new)) \in 1..(MaxCache + 1)
        /\ UniqueKeys(Pushed(new))
        /\ ToSet(Pushed(new)) = {new} \cup {f \in Entries : f.key # new.key}
    BY <1>3, <2>2, PushedFacts
  <2> DEFINE es == {new} \cup Entries
  <2>6. ToSet(Pushed(new)) = es
    BY <2>3, <2>4, <2>5
  <2>7. Evicted(es, chunks, disk)
    BY <1>3, <1>9, <2>5, <2>6, EvictFacts
  <2>8. /\ OneHome(Entries, chunks, job) /\ Ages(Entries, chunks, disk, job)
        /\ Apart(Entries, chunks) /\ Cold(Entries, chunks, disk, job)
        /\ Warm(Entries, chunks, dirty) /\ Durable(disk, dirty)
    BY <1>6 DEF Agrees
  <2>9. \A k \in Index : k \in DOMAIN chunks /\ chunks[k].uuid = u => k = i
    BY <1>3, <1>6, <1>9 DEF Sound, Distinct
  <2>10. Kept(chunks, disk, i) = disk[u]
    BY <1>3, <1>9, <2>1 DEF Kept
  <2>11. Sound(es, chunks, disk)
    BY <1>6, <2>2, <2>3, <2>4 DEF Sound, Alone
  <2>12. OneHome(es, chunks, job)
    <3>1. \A v, k : Home(es, chunks, job, v, k) => Home(Entries, chunks, job, v, k)
      BY <1>3, <2>4 DEF Home, Has
    <3> QED  BY <2>8, <3>1 DEF OneHome
  <2>13. Ages(es, chunks, disk, job)
    BY <1>3, <2>1, <2>4, <2>8 DEF Ages
  <2>14. Apart(es, chunks)
    BY <2>4, <2>8 DEF Apart
  <2>15. Cold(es, chunks, disk, job)
    BY <2>4, <2>8, <2>9, <2>10 DEF Cold, Holds
  <2>16. Warm(es, chunks, dirty)
    BY <2>4, <2>8 DEF Warm
  <2>17. SeenAll(es, chunks, disk) = SeenAll(Entries, chunks, disk)
    <3> SUFFICES ASSUME NEW k \in Index
                 PROVE  Seen(es, chunks, disk, k) = Seen(Entries, chunks, disk, k)
      BY DEF SeenAll
    <3>1. Alone(Entries) /\ Alone(es)
      BY <1>6, <2>11 DEF Sound
    <3> HIDE DEF es, i, u
    <3>2. /\ \A f \in es : Holds(f, chunks, k) => Seen(es, chunks, disk, k) = f.data
          /\ (\A f \in es : ~Holds(f, chunks, k)) => Seen(es, chunks, disk, k) = Kept(chunks, disk, k)
      BY <3>1, SeenFacts
    <3>3. /\ \A f \in Entries : Holds(f, chunks, k) => Seen(Entries, chunks, disk, k) = f.data
          /\ (\A f \in Entries : ~Holds(f, chunks, k))
               => Seen(Entries, chunks, disk, k) = Kept(chunks, disk, k)
      BY <3>1, SeenFacts
    <3>4. Holds(new, chunks, k) => /\ k = i /\ new.data = Kept(chunks, disk, k)
                                   /\ \A f \in Entries : ~Holds(f, chunks, k)
      BY <2>3, <2>4, <2>9, <2>10 DEF Holds
    <3>5. \A f : f \in es <=> f = new \/ f \in Entries
      BY DEF es
    <3> QED  BY <3>2, <3>3, <3>4, <3>5
  <2>18. Agrees(es, chunks, disk, dirty, job)
    BY <2>8, <2>12, <2>13, <2>14, <2>15, <2>16 DEF Agrees
  <2> HIDE DEF es
  <2> QED  BY <1>1, <1>3, <1>4, <1>5, <2>7, <2>11, <2>17, <2>18, EvictedTakes, RoomStep
<1> QED  BY <1>7, <1>8, <1>9 DEF ReadChunk

-----------------------------------------------------------------------------
(* Forgetting and crashing.                                                *)

LEMMA UnloadedStep ==
  ASSUME RInv, IInv', Unloaded, UNCHANGED <<disk, stored, linked, writes>>,
         job'.op = "none", job'.table = <<>>,
         \A f \in Entries' : \E e \in Entries :
           e.key = f.key /\ e.idx = f.idx /\ e.data = f.data /\ e.modified = f.modified,
         \A f \in Entries' : f.modified => <<f.idx, f.data>> \in stale',
         stale' \subseteq stale \cup {<<i, View[i]>> : i \in dirty}
  PROVE  RInv' /\ [File!Next]_(File!vars)
<1>1. /\ loaded' = FALSE /\ chunks' = <<>> /\ DOMAIN chunks' = {}
      /\ saved' = [arr |-> [i \in Index |-> StoredChunk(stored.chunks, i)],
                   size |-> stored.size]
      /\ dirty' = {} /\ removed' = {}
  BY NoJobFacts DEF Unloaded
<1>2. Basics /\ Basics' /\ Viewed' /\ Sized'
  BY BasicFacts, BasicsNext, ViewNext, SizeNext DEF RInv
<1>3. \A i \in Index : saved'.arr[i] = Kept(stored.chunks, disk, i)
  BY <1>1, <1>2, StoredKept DEF Basics, Sound
<1>4. /\ OneHome(Entries, chunks, job) /\ Ages(Entries, chunks, disk, job)
      /\ Apart(Entries, chunks) /\ Durable(disk, dirty)
  BY DEF RInv, Agrees
<1>5. OneHome(Entries, chunks, job)'
  <2>1. \A v, i : Home(Entries, chunks, job, v, i)' => Home(Entries, chunks, job, v, i)
    BY <1>1, NoJobFacts DEF Home, Has
  <2> QED  BY <1>4, <2>1 DEF OneHome
<1>6. Ages(Entries, chunks, disk, job)'
  <2>1. writes \in Nat /\ job \in Jobs
    BY <1>2, Sizes DEF Basics
  <2>2. ASSUME NEW i, NEW d \in Bytes \cup {Lost}, Old(job, i, d)
        PROVE  d # Zeros /\ Before(d, writes + 1)
    <3>1. Now(job, i) \in Nat /\ writes + 1 \in Nat
      BY <2>1, NowType
    <3>2. Now(job, i) <= writes + 1
      BY <2>1 DEF Now, RInv, Going
    <3> HIDE DEF Now
    <3> QED  BY <2>2, <3>1, <3>2, BeforeLater DEF Old
  <2>3. \A i : Now(job, i)' = writes + 1
    BY DEF Now
  <2>4. /\ \A e \in Entries : e.data \in Bytes
        /\ \A i \in DOMAIN stored.chunks : stored.chunks[i].tag \in Bytes \cup {Lost}
    BY <1>2, DataTypes DEF Basics
  <2>5. \A e \in Entries : e.data # Zeros /\ Before(e.data, writes + 1)
    BY <1>4, <2>2, <2>4 DEF Ages
  <2>6. \A i \in DOMAIN stored.chunks :
          stored.chunks[i].tag # Zeros /\ Before(stored.chunks[i].tag, writes + 1)
    BY <1>4, <2>2, <2>4 DEF Ages
  <2>7. \A u \in 0..NumUuids : Before(disk[u], writes + 1)
    BY <1>4 DEF Ages
  <2> QED  BY <1>1, <2>3, <2>5, <2>6, <2>7 DEF Ages, Old
<1>7. Apart(Entries, chunks)'
  <2>1. \A f \in Entries' : f.modified => ~Saves(f, stored.chunks)
    BY <1>4 DEF Apart, Saves
  <2>2. Alone(Entries')
    BY <1>2 DEF Basics, Sound, Alone
  <2>3. ASSUME NEW f \in Entries', NEW g \in Entries', f.modified, g.modified,
               f.idx = g.idx, f.data = g.data
        PROVE  g = f
    <3>1. PICK e \in Entries :
            e.key = f.key /\ e.idx = f.idx /\ e.data = f.data /\ e.modified = f.modified
      OBVIOUS
    <3>2. PICK d \in Entries :
            d.key = g.key /\ d.idx = g.idx /\ d.data = g.data /\ d.modified = g.modified
      OBVIOUS
    <3>3. d = e
      <4>1. e.modified /\ d.modified
        BY <2>3, <3>1, <3>2
      <4>2. d.idx = e.idx /\ d.data = e.data
        BY <2>3, <3>1, <3>2
      <4> QED  BY <1>4, <4>1, <4>2 DEF Apart
    <3> QED  BY <2>2, <3>1, <3>2, <3>3 DEF Alone
  <2> QED  BY <1>1, <2>1, <2>3 DEF Apart, Saves
<1>8. Cold(Entries, chunks, disk, job)' /\ Warm(Entries, chunks, dirty)'
  BY <1>1 DEF Cold, Warm, Holds
<1>9. Durable(disk, dirty)'
  BY <1>3 DEF Durable, Kept
<1>10. Flushed'
  <2>1. saved'.size = stored.size /\ DOMAIN saved'.arr = Index /\ DOMAIN saved' = {"arr", "size"}
    BY <1>1
  <2>2. \A i \in Index :
          IF i \in DOMAIN stored.chunks /\ stored.chunks[i].uuid # Hole
          THEN saved'.arr[i] \in {stored.chunks[i].tag, Lost} ELSE saved'.arr[i] = Zeros
    BY <1>3 DEF Kept
  <2> QED  BY <2>1, <2>2 DEF Flushed
<1>11. Going'
  BY <1>1, NoJobFacts DEF Going
<1>12. View' = saved'.arr /\ ViewSize' = stored.size
  <2>1. View' = [i \in Index |-> Kept(stored.chunks, disk, i)]
    BY <1>1, <1>2 DEF Viewed, Shown, Kept
  <2>2. View' = [i \in Index |-> StoredChunk(stored.chunks, i)]
    BY <1>2, <2>1, StoredKept DEF Basics, Sound
  <2> QED  BY <1>1, <1>2, <2>2 DEF Sized
<1>13. File!Lapse
  <2> DEFINE gone == {i \in Index : Kept(stored.chunks, disk, i) # saved.arr[i]}
  <2>1. gone \in SUBSET (dirty \cup {s[1] : s \in stale})
    BY <1>4 DEF Durable
  <2>2. View' = [i \in Index |-> IF i \in gone THEN Lost ELSE saved.arr[i]]
    <3>1. \A i \in Index : View'[i] = IF i \in gone THEN Lost ELSE saved.arr[i]
      BY <1>3, <1>4, <1>12 DEF Durable
    <3>2. View' = [i \in Index |-> View'[i]]
      BY <1>1, <1>12
    <3> QED  BY <3>1, <3>2
  <2>3. ViewSize' = saved.size /\ saved' = [arr |-> View', size |-> ViewSize']
    BY <1>1, <1>12 DEF RInv, Flushed
  <2>4. ViewPending' = File!Nothing
    BY PendingNext
  <2> HIDE DEF gone
  <2> QED  BY <1>1, <2>1, <2>2, <2>3, <2>4 DEF File!Lapse, File!Index, Index, File!Lost, Lost
<1> QED  BY <1>5, <1>6, <1>7, <1>8, <1>9, <1>10, <1>11, <1>13 DEF RInv, Agrees, File!Next

LEMMA ForgetStep ==
  ASSUME RInv, IInv', Forget
  PROVE  RInv' /\ [File!Next]_(File!vars)
<1>1. /\ job.op = "none" /\ loaded /\ Unloaded
      /\ cache' = [p \in DOMAIN cache |-> [cache[p] EXCEPT !.live = FALSE]]
      /\ stale' = stale \cup Left
      /\ UNCHANGED <<disk, stored, linked, job, writes>>
  BY DEF Forget, Ready, storage
<1>2. job.table = <<>>
  BY <1>1 DEF RInv, Going
<1>3. ASSUME NEW f \in Entries'
      PROVE  \E e \in Entries :
               e.key = f.key /\ e.idx = f.idx /\ e.data = f.data /\ e.modified = f.modified
  <2>1. PICK p \in DOMAIN cache : f = [cache[p] EXCEPT !.live = FALSE]
    BY <1>1 DEF Entries, ToSet
  <2>2. cache[p] \in Entries /\ cache[p] \in Entry
    BY BasicFacts DEF RInv, Basics, TypeOK, Entries, ToSet
  <2>3. /\ cache[p].key = f.key /\ cache[p].idx = f.idx
        /\ cache[p].data = f.data /\ cache[p].modified = f.modified
    BY <2>1, <2>2 DEF Entry
  <2> QED  BY <2>2, <2>3
<1>4. \A f \in Entries' : f.modified => <<f.idx, f.data>> \in stale'
  BY <1>1, <1>3, LeftAll
<1>5. stale' \subseteq stale \cup {<<i, View[i]>> : i \in dirty}
  BY <1>1, LeftBehind
<1> QED  BY <1>1, <1>2, <1>3, <1>4, <1>5, UnloadedStep

LEMMA CrashStep ==
  ASSUME RInv, IInv', Crash
  PROVE  RInv' /\ [File!Next]_(File!vars)
<1>1. /\ Unloaded /\ cache' = <<>> /\ stale' = {} /\ job' = NoJob
      /\ UNCHANGED <<disk, stored, linked, writes>>
  BY DEF Crash, storage
<1>2. Entries' = {}
  BY <1>1 DEF Entries, ToSet
<1> QED  BY <1>1, <1>2, NoJobFacts, UnloadedStep

-----------------------------------------------------------------------------
(* Where a write lies in a chunk.                                          *)

LEMMA ModUnique ==
  ASSUME NEW n \in Nat, NEW d \in Nat \ {0}, NEW q \in Nat, d * q <= n, n < d * (q + 1)
  PROVE  n \div d = q /\ n % d = n - d * q
<1> DEFINE x == n \div d
<1>1. x \in Nat /\ n % d \in 0..(d - 1) /\ n = d * x + (n % d)
  BY DivFacts
<1> HIDE DEF x
<1>2. d * x \in Nat /\ d * (x + 1) = d * x + d /\ d * q \in Nat /\ d * (q + 1) = d * q + d
  BY <1>1, Times
<1>3. ~(x + 1 <= q)
  <2> SUFFICES ASSUME x + 1 <= q PROVE FALSE
    OBVIOUS
  <2>1. d * (x + 1) <= d * q
    <3>1. x + 1 \in Nat
      BY <1>1
    <3> QED  BY <3>1, Times
  <2> QED  BY <1>1, <1>2, <2>1
<1>4. ~(q + 1 <= x)
  <2> SUFFICES ASSUME q + 1 <= x PROVE FALSE
    OBVIOUS
  <2>1. d * (q + 1) <= d * x
    <3>1. q + 1 \in Nat
      OBVIOUS
    <3> QED  BY <1>1, <3>1, Times
  <2> QED  BY <1>1, <1>2, <2>1
<1>5. x = q
  BY <1>1, <1>3, <1>4
<1>6. n % d = n - d * q
  BY <1>1, <1>2, <1>5
<1> QED  BY <1>5, <1>6 DEF x

\* What the write in progress is about.
LEMMA WriteFacts ==
  ASSUME RInv, job.op = "write", job.idx <= job.last
  PROVE  /\ loaded /\ job \in Jobs /\ writes \in Nat /\ job.byte = writes /\ job.byte > 0
         /\ job.off \in Nat /\ job.len \in Nat \ {0} /\ job.off + job.len \in Nat
         /\ job.idx \in Nat \ {0} /\ job.idx - 1 \in Nat
         /\ job.off \div C + 1 <= job.idx
         /\ job.last = CeilDiv(job.off + job.len) /\ job.table = <<>>
         /\ job.idx \in DOMAIN chunks /\ job.idx \in Index
         /\ job.prev = CeilDiv(size) /\ job.surplus = (size + C - 1) % C /\ size \in Nat
<1>1. /\ job \in Jobs /\ loaded /\ job.last <= Len(chunks) /\ TypeOK
  BY DEF RInv, IInv, Typed
<1>2. writes \in 0..MaxWrites /\ size \in 0..(C * MaxChunks) /\ chunks \in Seq(Chunk)
  BY <1>1 DEF TypeOK
<1>3. writes \in Nat /\ size \in Nat
  BY <1>2, Sizes
<1>4. /\ job.byte = writes /\ job.byte > 0 /\ job.len > 0 /\ job.off \div C + 1 <= job.idx
      /\ job.surplus = (size + C - 1) % C /\ job.table = <<>>
  BY DEF RInv, Going
<1>5. job.last = CeilDiv(job.off + job.len) /\ job.prev = CeilDiv(size)
  BY DEF RInv, IInv, Fits
<1>6. /\ job.off \in Nat /\ job.len \in Nat /\ job.idx \in 1..(MaxChunks + 1)
      /\ job.last \in Nat
  BY <1>1 DEF Jobs
<1>7. job.idx \in Nat \ {0} /\ job.idx - 1 \in Nat
  BY <1>6, Sizes
<1>8. job.idx \in DOMAIN chunks
  BY <1>1, <1>2, <1>6, <1>7
<1>9. job.idx \in Index
  BY <1>8, BasicFacts DEF RInv, Basics, Sound
<1>10. job.len \in Nat \ {0} /\ job.off + job.len \in Nat
  BY <1>4, <1>6
<1> QED  BY <1>1, <1>3, <1>4, <1>5, <1>6, <1>7, <1>8, <1>9, <1>10

LEMMA Spans ==
  ASSUME RInv, job.op = "write", job.idx <= job.last
  PROVE  /\ OffSt \in 0..(C - 1) /\ OffEn \in 1..C /\ OffSt < OffEn
         /\ File!From(job.idx) = OffSt /\ File!To(job.idx) = OffEn
         /\ (job.idx - 1) * C < job.off + job.len
<1> DEFINE off == job.off
           n == job.off + job.len
           b == off \div C
           m == job.idx - 1
           r == off % C
<1>1. /\ off \in Nat /\ n \in Nat /\ job.len \in Nat \ {0} /\ n = off + job.len
      /\ m \in Nat /\ job.idx = m + 1 /\ b + 1 <= job.idx /\ job.last = CeilDiv(n)
      /\ C \in Nat \ {0}
  BY WriteFacts, Sizes
<1>2. b \in Nat /\ r \in 0..(C - 1) /\ off = C * b + r
  BY <1>1, DivFacts
<1>3. /\ ViewPending.off = off /\ ViewPending.len = job.len
  BY PendingFacts
<1>4. /\ OffSt = IF m = b THEN r ELSE 0
      /\ OffEn = IF m + 1 = job.last THEN ((n - 1) % C) + 1 ELSE C
  <2>1. job.idx = b + 1 <=> m = b
    BY <1>1, <1>2
  <2>2. OffSt = IF job.idx = b + 1 THEN r ELSE 0
    BY DEF OffSt
  <2>3. OffEn = IF job.idx = job.last THEN ((n - 1) % C) + 1 ELSE C
    BY <1>1, SMT DEF OffEn
  <2>4. job.idx = m + 1
    BY <1>1
  <2> HIDE DEF m, b, r, n
  <2> QED  BY <2>1, <2>2, <2>3, <2>4
<1>5. /\ File!From(job.idx) = IF m * C >= off THEN 0 ELSE off - m * C
      /\ File!To(job.idx) = IF n >= (m + 1) * C THEN C ELSE n - m * C
  <2>1. job.idx = m + 1
    BY <1>1
  <2>2. File!From(job.idx) = IF m * C >= off THEN 0 ELSE off - m * C
    BY <1>3 DEF File!From
  <2>3. File!To(job.idx) = IF n >= job.idx * C THEN C ELSE n - m * C
    <3> DEFINE p == ViewPending.off
               q == ViewPending.len
    <3>1. p \in Nat /\ q \in Nat /\ p + q = n
      BY <1>1, <1>3
    <3>2. File!To(job.idx) = IF p + q >= job.idx * C THEN C ELSE p + q - m * C
      BY Zenon DEF File!To
    <3> HIDE DEF n, m, p, q
    <3> QED  BY <1>1, <3>1, <3>2
  <2> QED  BY <2>1, <2>2, <2>3
<1>6. job.last \in Nat /\ (\A k \in Nat : job.last <= k <=> n <= C * k)
  <2> HIDE DEF CeilDiv, n
  <2> QED  BY <1>1, CeilDivFits
<1>7. m + 1 <= job.last
  BY <1>1
<1> HIDE DEF off, n, b, m, r
<1>8. /\ m * C = C * m /\ (m + 1) * C = C * (m + 1) /\ C * m \in Nat /\ C * b \in Nat
      /\ C * (m + 1) = C * m + C /\ C * (b + 1) = C * b + C
  <2>1. C * m \in Nat /\ C * b \in Nat /\ C * (m + 1) = C * m + C /\ C * (b + 1) = C * b + C
    BY <1>1, <1>2, Times
  <2>2. m * C = C * m
    BY <1>1
  <2>3. (m + 1) * C = C * (m + 1)
    BY <1>1
  <2> QED  BY <2>1, <2>2, <2>3
<1>9. C * m < n
  <2>1. ~(job.last <= m)
    BY <1>1, <1>6, <1>7
  <2>2. ~(n <= C * m)
    BY <1>1, <1>6, <2>1
  <2> QED  BY <1>1, <1>8, <2>2
<1>10. File!From(job.idx) = OffSt /\ OffSt \in 0..(C - 1) /\ OffSt + C * m < n
  <2>1. CASE m = b
    <3>1. OffSt = r /\ off = C * m + r
      BY <1>2, <1>4, <2>1
    <3>2. File!From(job.idx) = r
      BY <1>1, <1>2, <1>5, <1>8, <3>1
    <3>3. r + C * m < n
      BY <1>1, <1>2, <1>8, <3>1
    <3> QED  BY <1>2, <3>1, <3>2, <3>3
  <2>2. CASE m # b
    <3>1. OffSt = 0
      BY <1>4, <2>2
    <3>2. b + 1 <= m /\ b + 1 \in Nat
      BY <1>1, <1>2, <2>2
    <3>3. C * (b + 1) <= C * m
      BY <1>1, <3>2, Times
    <3>4. C * m >= off
      BY <1>1, <1>2, <1>8, <3>3
    <3>5. File!From(job.idx) = 0
      BY <1>5, <1>8, <3>4
    <3> QED  BY <1>1, <1>8, <1>9, <3>1, <3>5
  <2> QED  BY <2>1, <2>2
<1>11. File!To(job.idx) = OffEn /\ OffEn \in 1..C /\ (OffEn = C \/ OffEn = n - C * m)
  <2>1. CASE m + 1 = job.last
    <3>1. n <= C * (m + 1)
      BY <1>1, <1>6, <2>1
    <3>2. n - 1 \in Nat /\ C * m <= n - 1 /\ n - 1 < C * (m + 1)
      BY <1>1, <1>8, <1>9, <3>1
    <3>3. (n - 1) % C = (n - 1) - C * m
      BY <1>1, <3>2, ModUnique
    <3>4. OffEn = n - C * m
      BY <1>1, <1>4, <1>8, <2>1, <3>3
    <3>5. File!To(job.idx) = n - C * m
      BY <1>1, <1>5, <1>8, <3>1
    <3>6. n - C * m \in 1..C
      BY <1>1, <1>8, <1>9, <3>1
    <3> QED  BY <3>4, <3>5, <3>6
  <2>2. CASE m + 1 # job.last
    <3>1. ~(job.last <= m + 1) /\ m + 1 \in Nat
      BY <1>1, <1>6, <1>7, <2>2
    <3>2. ~(n <= C * (m + 1))
      BY <1>6, <3>1
    <3>3. File!To(job.idx) = C
      BY <1>1, <1>5, <1>8, <3>2
    <3>4. OffEn = C
      BY <1>4, <2>2
    <3> QED  BY <1>1, <3>3, <3>4
  <2> QED  BY <2>1, <2>2
<1>12. OffSt < OffEn
  BY <1>1, <1>8, <1>10, <1>11
<1>13. m * C < n
  BY <1>8, <1>9
<1> QED  BY <1>10, <1>11, <1>12, <1>13 DEF m, n

\* A write that covers the chunk but for its last byte's place.
LEMMA ShortSpan ==
  ASSUME RInv, job.op = "write", job.idx <= job.last, job.idx = job.prev
  PROVE  /\ size > 0 /\ (size - 1) % C = job.surplus /\ (size - 1) \div C = job.idx - 1
         /\ job.surplus \in 0..(C - 1)
<1> DEFINE m == job.idx - 1
           s == size
<1>1. /\ m \in Nat /\ job.idx = m + 1 /\ CeilDiv(s) = m + 1 /\ s \in Nat
      /\ job.surplus = (s + C - 1) % C /\ C \in Nat \ {0}
  BY WriteFacts, Sizes
<1> HIDE DEF m, s, CeilDiv
<1>2. /\ C * m \in Nat /\ C * (m + 1) = C * m + C /\ C * (m + 1) \in Nat
      /\ C * (m + 1 + 1) = C * (m + 1) + C
  <2>1. C * m \in Nat /\ C * (m + 1) = C * m + C
    BY <1>1, Times
  <2>2. m + 1 \in Nat
    BY <1>1
  <2>3. C * (m + 1) \in Nat /\ C * (m + 1 + 1) = C * (m + 1) + C
    BY <1>1, <2>2, Times
  <2> QED  BY <2>1, <2>3
<1>3. s <= C * (m + 1) /\ ~(s <= C * m)
  <2>1. m + 1 \in Nat /\ m + 1 <= m + 1 /\ ~(m + 1 <= m)
    BY <1>1
  <2>2. \A k \in Nat : CeilDiv(s) <= k <=> s <= C * k
    BY <1>1, CeilDivFits
  <2> QED  BY <1>1, <2>1, <2>2
<1>4. s > 0 /\ s - 1 \in Nat /\ C * m <= s - 1 /\ s - 1 < C * (m + 1)
  BY <1>1, <1>2, <1>3
<1>5. (s - 1) \div C = m /\ (s - 1) % C = (s - 1) - C * m
  BY <1>1, <1>4, ModUnique
<1>6. (s + C - 1) % C = (s + C - 1) - C * (m + 1)
  <2>1. /\ s + C - 1 \in Nat /\ m + 1 \in Nat
        /\ C * (m + 1) <= s + C - 1 /\ s + C - 1 < C * (m + 1 + 1)
    BY <1>1, <1>2, <1>4
  <2> QED  BY <1>1, <2>1, ModUnique
<1>7. (s + C - 1) % C = (s - 1) % C
  BY <1>1, <1>2, <1>4, <1>5, <1>6
<1>8. (s - 1) % C \in 0..(C - 1)
  BY <1>1, <1>4, DivFacts
<1> QED  BY <1>1, <1>4, <1>5, <1>7, <1>8 DEF m, s

-----------------------------------------------------------------------------
(* Writing.                                                                *)

\* The chunk that is written, and its uuid, drawn now if it was a hole.
Drawn(i, u, cs, ds) ==
  \/ chunks[i].uuid = u /\ cs = chunks /\ ds = disk
  \/ /\ chunks[i].uuid = Hole /\ u \notin InUse
     /\ cs = [chunks EXCEPT ![i].uuid = u] /\ ds = Gone(disk, u)

NewEntry(i, u, d) == [key |-> u, idx |-> i, data |-> d, modified |-> TRUE, live |-> TRUE]
WithEntry(e) == {e} \cup {f \in Entries : f.key # e.key}

LEMMA DrawnFacts ==
  ASSUME RInv, NEW i \in DOMAIN chunks, NEW u \in 1..NumUuids, NEW cs, NEW ds,
         Drawn(i, u, cs, ds)
  PROVE  /\ cs \in Seq(Chunk) /\ ds \in Files /\ DOMAIN cs = DOMAIN chunks /\ Distinct(cs)
         /\ cs[i].uuid = u /\ cs[i].tag = chunks[i].tag
         /\ \A k \in DOMAIN chunks \ {i} : cs[k] = chunks[k] /\ chunks[k].uuid # u
         /\ \A v \in 0..NumUuids : v # u => ds[v] = disk[v]
         /\ \A v \in 0..NumUuids : ds[v] = disk[v] \/ ds[v] = Lost
         /\ \/ chunks[i].uuid = u /\ ds = disk
            \/ /\ chunks[i].uuid = Hole /\ \A e \in Entries : e.key # u
               /\ \A k \in DOMAIN stored.chunks : stored.chunks[k].uuid # u
               /\ \A k \in DOMAIN chunks : chunks[k].uuid # u
<1>1. /\ chunks \in Seq(Chunk) /\ disk \in Files /\ Distinct(chunks) /\ u # Hole
      /\ u \in 0..NumUuids
  BY BasicFacts, Sizes DEF RInv, Basics, Sound, Hole
<1>2. chunks[i] \in Chunk
  BY <1>1
<1>3. CASE chunks[i].uuid = u /\ cs = chunks /\ ds = disk
  BY <1>1, <1>3 DEF Distinct
<1>4. CASE /\ chunks[i].uuid = Hole /\ u \notin InUse
           /\ cs = [chunks EXCEPT ![i].uuid = u] /\ ds = Gone(disk, u)
  <2>1. /\ \A e \in Entries : e.key # u
        /\ \A k \in DOMAIN stored.chunks : stored.chunks[k].uuid # u
        /\ \A k \in DOMAIN chunks : chunks[k].uuid # u
    BY <1>4 DEF InUse, Entries, ToSet
  <2>2. [chunks[i] EXCEPT !.uuid = u] \in Chunk /\ [chunks[i] EXCEPT !.uuid = u].uuid = u
        /\ [chunks[i] EXCEPT !.uuid = u].tag = chunks[i].tag
    BY <1>1, <1>2 DEF Chunk
  <2>3. cs = [chunks EXCEPT ![i] = [chunks[i] EXCEPT !.uuid = u]]
    BY <1>4
  <2>4. /\ cs \in Seq(Chunk) /\ DOMAIN cs = DOMAIN chunks
        /\ cs[i].uuid = u /\ cs[i].tag = chunks[i].tag
        /\ \A k \in DOMAIN chunks \ {i} : cs[k] = chunks[k]
    <3> DEFINE c == [chunks[i] EXCEPT !.uuid = u]
    <3>1. c \in Chunk /\ c.uuid = u /\ c.tag = chunks[i].tag /\ cs = [chunks EXCEPT ![i] = c]
      BY <2>2, <2>3
    <3> HIDE DEF c
    <3>2. cs \in Seq(Chunk)
      BY <1>1, <3>1
    <3>3. DOMAIN cs = DOMAIN chunks /\ cs[i] = c
      BY <3>1
    <3>4. \A k \in DOMAIN chunks \ {i} : cs[k] = chunks[k]
      BY <3>1
    <3> QED  BY <3>1, <3>2, <3>3, <3>4
  <2>5. Distinct(cs)
    BY <1>1, <2>1, <2>4 DEF Distinct
  <2>6. /\ ds \in Files /\ \A v \in 0..NumUuids : v # u => ds[v] = disk[v]
        /\ \A v \in 0..NumUuids : ds[v] = disk[v] \/ ds[v] = Lost
    BY <1>1, <1>4 DEF Gone, Files
  <2> QED  BY <1>4, <2>1, <2>4, <2>5, <2>6
<1> QED  BY <1>3, <1>4 DEF Drawn

\* The data written are new for the chunk.
LEMMA PatchNew ==
  ASSUME RInv, job.op = "write", job.idx <= job.last, NEW d \in Bytes, Before(d, writes + 1)
  PROVE  /\ Patch(d) \in Bytes /\ Old([job EXCEPT !.idx = job.idx + 1], job.idx, Patch(d))
         /\ \A x : Old(job, job.idx, x) => x # Patch(d)
<1> DEFINE P == Patch(d)
           j == [job EXCEPT !.idx = job.idx + 1]
<1>1. /\ OffSt \in 0..(C - 1) /\ OffEn \in 1..C /\ OffSt < OffEn
  BY Spans
<1>2. /\ job \in Jobs /\ writes \in Nat /\ job.byte = writes /\ job.byte > 0
      /\ job.idx \in Nat \ {0}
  BY WriteFacts
<1>3. P \in Bytes
  BY PatchType DEF RInv, IInv
<1>4. \A o \in 0..(C - 1) : P[o] = IF OffSt <= o /\ o < OffEn THEN job.byte ELSE d[o]
  BY DEF Patch
<1>5. P[OffSt] = job.byte
  BY <1>1, <1>4, Sizes
<1>6. d # Lost /\ P # Lost
  BY <1>3, BytesNotLost
<1> HIDE DEF P
<1>7. Before(P, writes + 1)
  <2> SUFFICES ASSUME NEW o \in 0..(C - 1) PROVE P[o] < writes + 1
    BY DEF Before
  <2>1. P[o] = job.byte \/ P[o] = d[o]
    BY <1>4
  <2>2. job.byte < writes + 1
    BY <1>2
  <2>3. d[o] < writes + 1
    BY <1>6 DEF Before
  <2> QED  BY <2>1, <2>2, <2>3
<1>8. P # Zeros
  <2>1. Zeros[OffSt] = 0
    BY <1>1 DEF Zeros
  <2> QED  BY <1>2, <1>5, <2>1
<1>9. Now(j, job.idx) = writes + 1 /\ Now(job, job.idx) = job.byte
  <2>1. j.op = "write" /\ j.idx = job.idx + 1
    BY <1>2 DEF Jobs
  <2>2. ~(job.idx >= job.idx + 1) /\ job.idx >= job.idx
    BY <1>2
  <2> QED  BY <2>1, <2>2 DEF Now
<1>10. ASSUME NEW x, Old(job, job.idx, x)
       PROVE  x # P
  <2> SUFFICES ASSUME x = P PROVE FALSE
    OBVIOUS
  <2>1. Before(P, job.byte)
    BY <1>9, <1>10 DEF Old
  <2>2. P[OffSt] < job.byte
    BY <1>1, <1>6, <2>1 DEF Before
  <2> QED  BY <1>2, <1>5, <2>2
<1>11. Old(j, job.idx, P)
  BY <1>7, <1>8, <1>9 DEF Old
<1> QED  BY <1>3, <1>10, <1>11 DEF P

LEMMA WrittenAgrees ==
  ASSUME RInv, job.op = "write", job.idx <= job.last, NEW d \in Bytes, Before(d, writes + 1),
         NEW u \in 1..NumUuids, NEW cs, NEW ds, Drawn(job.idx, u, cs, ds)
  PROVE  LET es == WithEntry(NewEntry(job.idx, u, Patch(d))) IN
         /\ Sound(es, cs, ds)
         /\ Agrees(es, cs, ds, dirty \cup {job.idx}, [job EXCEPT !.idx = job.idx + 1])
         /\ SeenAll(es, cs, ds) = [SeenAll(Entries, chunks, disk) EXCEPT ![job.idx] = Patch(d)]
<1> DEFINE i == job.idx
           P == Patch(d)
           new == NewEntry(i, u, P)
           es == WithEntry(new)
           j == [job EXCEPT !.idx = job.idx + 1]
           dt == dirty \cup {i}
<1>1. /\ job \in Jobs /\ writes \in Nat /\ job.byte = writes
      /\ i \in Nat \ {0} /\ i \in DOMAIN chunks /\ i \in Index
  BY WriteFacts
<1>2. P \in Bytes /\ Old(j, i, P) /\ \A x : Old(job, i, x) => x # P
  BY PatchNew
<1>3. /\ cs \in Seq(Chunk) /\ ds \in Files /\ DOMAIN cs = DOMAIN chunks /\ Distinct(cs)
      /\ cs[i].uuid = u /\ cs[i].tag = chunks[i].tag
      /\ \A k \in DOMAIN chunks \ {i} : cs[k] = chunks[k] /\ chunks[k].uuid # u
      /\ \A v \in 0..NumUuids : v # u => ds[v] = disk[v]
      /\ \A v \in 0..NumUuids : ds[v] = disk[v] \/ ds[v] = Lost
      /\ \/ chunks[i].uuid = u /\ ds = disk
         \/ /\ chunks[i].uuid = Hole /\ \A e \in Entries : e.key # u
            /\ \A k \in DOMAIN stored.chunks : stored.chunks[k].uuid # u
            /\ \A k \in DOMAIN chunks : chunks[k].uuid # u
  BY <1>1, DrawnFacts
<1>4. /\ OneHome(Entries, chunks, job) /\ Ages(Entries, chunks, disk, job)
      /\ Apart(Entries, chunks) /\ Cold(Entries, chunks, disk, job)
      /\ Warm(Entries, chunks, dirty) /\ Durable(disk, dirty)
  BY DEF RInv, Agrees
<1>5. Basics /\ Sound(Entries, chunks, disk)
  BY BasicFacts DEF RInv, Basics
<1>6. /\ \A e \in Entries : /\ e \in Entry /\ e.idx \in Index /\ e.key \in 1..NumUuids
                            /\ e.data \in Bytes /\ e.key # Hole
      /\ \A k \in DOMAIN chunks :
           /\ k \in Index /\ chunks[k].tag \in Bytes \cup {Lost}
           /\ chunks[k].uuid \in 0..NumUuids
      /\ \A k \in DOMAIN stored.chunks :
           /\ k \in Index /\ stored.chunks[k].tag \in Bytes \cup {Lost}
           /\ stored.chunks[k].uuid \in 0..NumUuids
      /\ \A v \in 0..NumUuids : disk[v] \in Bytes \cup {Lost}
  BY <1>5, DataTypes
<1>7. new \in Entry /\ new.key = u /\ new.idx = i /\ new.data = P /\ new.modified /\ new.live
  BY <1>1, <1>2 DEF NewEntry, Entry
<1>8. \A e : e \in es <=> e = new \/ (e \in Entries /\ e.key # u)
  BY <1>7 DEF WithEntry
<1>9. /\ j.op = "write" /\ j.idx = i + 1 /\ j.table = job.table /\ j.byte = job.byte
      /\ job.table = <<>>
  BY <1>1, WriteFacts DEF Jobs
<1> HIDE DEF i, P, new, es, j
<1>10. Sound(es, cs, ds)
  <2>1. es \subseteq Entry /\ Alone(es)
    BY <1>5, <1>6, <1>7, <1>8 DEF Sound, Alone
  <2> QED  BY <1>3, <1>5, <2>1 DEF Sound
<1>11. \A k \in Index : k # i => Kept(cs, ds, k) = Kept(chunks, disk, k)
  BY <1>3, <1>6 DEF Kept
<1>12. \A e \in Entries, k \in Index : e.key # u => (Holds(e, cs, k) <=> Holds(e, chunks, k) /\ k # i)
  BY <1>3, <1>6 DEF Holds
<1>13. \A e \in Entries : e.key # u => \A k \in Index : Holds(e, chunks, k) => k # i
  BY <1>3, <1>6 DEF Holds
<1>14. OneHome(es, cs, j)
  <2>1. ASSUME NEW v \in 1..NumUuids, NEW k \in Index, Home(es, cs, j, v, k)
        PROVE  \/ v = u /\ k = i
               \/ /\ Home(Entries, chunks, job, v, k)
                  /\ v = u => Home(Entries, chunks, job, u, i)
    <3>1. CASE Has(cs, v, k)
      BY <1>1, <1>3, <3>1 DEF Has, Home
    <3>2. CASE Has(stored.chunks, v, k)
      BY <1>1, <1>3, <3>2 DEF Has, Home
    <3>3. CASE Has(j.table, v, k)
      BY <1>9, <3>3, NoJobFacts DEF Has
    <3>4. CASE \E e \in es : e.key = v /\ e.idx = k
      BY <1>7, <1>8, <3>4 DEF Home
    <3> QED  BY <2>1, <3>1, <3>2, <3>3, <3>4 DEF Home
  <2> QED  BY <1>1, <1>4, <2>1 DEF OneHome
<1>15. Ages(es, cs, ds, j)
  <2>1. ASSUME NEW k \in Index, NEW x \in Bytes \cup {Lost}, Old(job, k, x)
        PROVE  Old(j, k, x)
    <3>1. Now(job, k) \in Nat /\ Now(j, k) \in Nat
      <4>1. Now(job, k) \in Nat
        BY <1>1, NowType
      <4>2. Now(j, k) = writes + 1 \/ Now(j, k) = writes
        BY <1>1, <1>9 DEF Now
      <4> QED  BY <1>1, <4>1, <4>2
    <3>2. Now(job, k) <= Now(j, k)
      <4>1. k \in Nat
        BY DEF Index
      <4>2. CASE k >= i + 1
        <5>1. Now(j, k) = writes /\ Now(job, k) = writes
          BY <1>1, <1>9, <4>1, <4>2 DEF Now, i
        <5> QED  BY <1>1, <5>1
      <4>3. CASE ~(k >= i + 1)
        <5>1. Now(j, k) = writes + 1
          BY <1>9, <4>3 DEF Now
        <5>2. Now(job, k) = writes + 1 \/ Now(job, k) = writes
          BY <1>1 DEF Now
        <5> QED  BY <1>1, <5>1, <5>2
      <4> QED  BY <4>2, <4>3
    <3>3. Before(x, Now(job, k)) /\ x # Zeros
      BY <2>1 DEF Old
    <3> HIDE DEF Now
    <3>4. Before(x, Now(j, k))
      BY <3>1, <3>2, <3>3, BeforeLater
    <3> QED  BY <3>3, <3>4 DEF Old
  <2>2. \A e \in es : Old(j, e.idx, e.data)
    BY <1>2, <1>4, <1>6, <1>7, <1>8, <2>1 DEF Ages
  <2>3. \A k \in DOMAIN cs : Old(j, k, cs[k].tag)
    <3>1. \A k \in DOMAIN cs : cs[k].tag = chunks[k].tag
      BY <1>3
    <3> QED  BY <1>3, <1>4, <1>6, <2>1, <3>1 DEF Ages
  <2>4. \A k \in DOMAIN stored.chunks : Old(j, k, stored.chunks[k].tag)
    BY <1>4, <1>6, <2>1 DEF Ages
  <2>5. \A v \in 0..NumUuids : Before(ds[v], writes + 1)
    <3>1. Before(Lost, writes + 1)
      BY DEF Before
    <3> QED  BY <1>3, <1>4, <3>1 DEF Ages
  <2> QED  BY <2>2, <2>3, <2>4, <2>5 DEF Ages
<1>16. Apart(es, cs)
  <2>1. \A e \in Entries : e.idx = i => e.data # P
    BY <1>2, <1>4 DEF Ages
  <2>2. ~Saves(new, cs) /\ ~Saves(new, stored.chunks)
    <3>1. chunks[i].tag # P
      BY <1>1, <1>2, <1>4 DEF Ages
    <3>2. i \in DOMAIN stored.chunks => stored.chunks[i].tag # P
      BY <1>2, <1>4 DEF Ages
    <3> QED  BY <1>3, <1>7, <3>1, <3>2 DEF Saves
  <2>3. \A e \in Entries : Saves(e, cs) => Saves(e, chunks)
    BY <1>3 DEF Saves
  <2> SUFFICES ASSUME NEW e \in es, e.modified
               PROVE  /\ ~Saves(e, cs) /\ ~Saves(e, stored.chunks)
                      /\ \A f \in es : f.modified /\ f.idx = e.idx /\ f.data = e.data => f = e
    BY DEF Apart
  <2>4. CASE e = new
    BY <1>7, <1>8, <2>1, <2>2, <2>4
  <2>5. CASE e # new
    <3>1. e \in Entries
      BY <1>8, <2>5
    <3>2. /\ ~Saves(e, chunks) /\ ~Saves(e, stored.chunks)
          /\ \A f \in Entries : f.modified /\ f.idx = e.idx /\ f.data = e.data => f = e
      BY <1>4, <3>1 DEF Apart
    <3> QED  BY <1>7, <1>8, <2>1, <2>3, <3>1, <3>2
  <2> QED  BY <2>4, <2>5
<1>17. Cold(es, cs, ds, j)
  <2> SUFFICES ASSUME NEW e \in es, NEW k \in Index, Holds(e, cs, k), ~e.modified
               PROVE  \/ Kept(cs, ds, k) = e.data
                      \/ Kept(cs, ds, k) = Lost /\ k \in removed
                      \/ <<k, Kept(cs, ds, k)>> \in stale
    BY DEF Cold
  <2>1. e \in Entries /\ e.key # u
    BY <1>7, <1>8
  <2>2. Holds(e, chunks, k) /\ k # i
    BY <1>12, <2>1
  <2>3. Kept(cs, ds, k) = Kept(chunks, disk, k)
    BY <1>11, <2>2
  <2> QED  BY <1>4, <2>1, <2>2, <2>3 DEF Cold
<1>18. Warm(es, cs, dt)
  <2> SUFFICES ASSUME NEW e \in es, e.modified, <<e.idx, e.data>> \notin stale
               PROVE  Holds(e, cs, e.idx) /\ e.idx \in dt
    BY DEF Warm
  <2>1. CASE e = new
    BY <1>1, <1>3, <1>7, <2>1 DEF Holds
  <2>2. CASE e # new
    <3>1. e \in Entries /\ e.key # u /\ e.idx \in Index
      BY <1>6, <1>8, <2>2
    <3>2. Holds(e, chunks, e.idx) /\ e.idx \in dirty
      BY <1>4, <3>1 DEF Warm
    <3> QED  BY <1>12, <1>13, <3>1, <3>2
  <2> QED  BY <2>1, <2>2
<1>19. Durable(ds, dt)
  <2>1. \A k \in Index : Kept(stored.chunks, ds, k) = Kept(stored.chunks, disk, k)
    BY <1>3, <1>6 DEF Kept
  <2> QED  BY <1>4, <2>1 DEF Durable
<1>20. SeenAll(es, cs, ds) = [SeenAll(Entries, chunks, disk) EXCEPT ![i] = P]
  <2>1. Alone(es) /\ Alone(Entries)
    BY <1>5, <1>10 DEF Sound
  <2>2. Seen(es, cs, ds, i) = P
    <3>1. Holds(new, cs, i) /\ new \in es
      BY <1>1, <1>3, <1>7, <1>8 DEF Holds
    <3> QED  BY <1>7, <2>1, <3>1, SeenFacts
  <2>3. ASSUME NEW k \in Index, k # i
        PROVE  Seen(es, cs, ds, k) = Seen(Entries, chunks, disk, k)
    <3>1. /\ \A f \in es : Holds(f, cs, k) => Seen(es, cs, ds, k) = f.data
          /\ (\A f \in es : ~Holds(f, cs, k)) => Seen(es, cs, ds, k) = Kept(cs, ds, k)
      BY <2>1, SeenFacts
    <3>2. /\ \A f \in Entries : Holds(f, chunks, k) => Seen(Entries, chunks, disk, k) = f.data
          /\ (\A f \in Entries : ~Holds(f, chunks, k))
               => Seen(Entries, chunks, disk, k) = Kept(chunks, disk, k)
      BY <2>1, SeenFacts
    <3>3. ~Holds(new, cs, k) /\ \A f \in Entries : f.key = u => ~Holds(f, chunks, k)
      BY <1>3, <1>7, <2>3 DEF Holds
    <3> QED  BY <1>8, <1>11, <1>12, <2>3, <3>1, <3>2, <3>3
  <2> QED  BY <1>1, <2>2, <2>3 DEF SeenAll
<1>21. Agrees(es, cs, ds, dt, j)
  BY <1>14, <1>15, <1>16, <1>17, <1>18, <1>19 DEF Agrees
<1> QED  BY <1>10, <1>20, <1>21 DEF i, P, new, es, j

\* The write is seen, and what making room does besides.
LEMMA MovedPut ==
  ASSUME NEW i \in Index, NEW d, DOMAIN View = Index, View = [k \in Index |-> View[k]],
         View' = [k \in Index |-> View'[k]], View'[i] = d,
         Moves([View EXCEPT ![i] = d], View')
  PROVE  \E a \in File!Moved : View' = [a EXCEPT ![i] = d]
<1> DEFINE V == [View EXCEPT ![i] = d]
<1>1. V[i] = d /\ \A k \in Index \ {i} : V[k] = View[k]
  OBVIOUS
<1> HIDE DEF V
<1>2. PICK k \in Index :
        /\ \A x \in Index \ {k} : View'[x] = V[x]
        /\ \/ View'[k] = V[k]
           \/ View'[k] = Lost /\ k \in removed
           \/ <<k, View'[k]>> \in stale
  BY DEF Moves, V
<1> DEFINE a == [View EXCEPT ![k] = View'[k]]
<1>3. View' = [a EXCEPT ![i] = d]
  <2>1. DOMAIN a = Index /\ a[k] = View'[k] /\ \A x \in Index \ {k} : a[x] = View[x]
    OBVIOUS
  <2>2. \A x \in Index : [a EXCEPT ![i] = d][x] = View'[x]
    BY <1>1, <1>2, <2>1
  <2>3. [a EXCEPT ![i] = d] = [x \in Index |-> [a EXCEPT ![i] = d][x]]
    BY <2>1
  <2> QED  BY <2>2, <2>3
<1>4. CASE View'[k] = V[k]
  <2>1. \A x \in Index : View'[x] = V[x]
    BY <1>2, <1>4
  <2>2. View' = [View EXCEPT ![i] = d]
    BY <1>1, <2>1
  <2>3. View \in File!Moved
    BY DEF File!Moved
  <2> QED  BY <2>2, <2>3
<1>5. CASE View'[k] = Lost /\ k \in removed
  <2>1. a \in File!Moved
    BY <1>5 DEF File!Moved, File!Lost, Lost
  <2> QED  BY <1>3, <2>1
<1>6. CASE <<k, View'[k]>> \in stale
  <2> DEFINE s == <<k, View'[k]>>
  <2>1. s \in stale /\ a = [View EXCEPT ![s[1]] = s[2]]
    BY <1>6
  <2> HIDE DEF s, a
  <2>2. a \in File!Moved
    BY <2>1 DEF File!Moved
  <2> QED  BY <1>3, <2>2 DEF a
<1> QED  BY <1>2, <1>4, <1>5, <1>6

\* What the write makes of the chunk, whose buffer held d before.
Base(d) ==
  \/ View[job.idx] = Lost
  \/ View[job.idx] = d
  \/ OffSt = 0 /\ OffEn = C
  \/ OffSt = 0 /\ OffEn = job.surplus /\ job.idx = job.prev /\ d = Zeros

LEMMA PutStep ==
  ASSUME RInv, IInv', job.op = "write", job.idx <= job.last,
         job' = [job EXCEPT !.idx = job.idx + 1], dirty' = dirty \cup {job.idx},
         UNCHANGED <<loaded, size, linked, saved, stale, removed>>,
         NEW d \in Bytes, Base(d),
         \E a \in File!Moved : View' = [a EXCEPT ![job.idx] = Patch(d)]
  PROVE  File!Next
<1> DEFINE i == job.idx
           P == Patch(d)
<1>1. /\ loaded /\ job \in Jobs /\ i \in Nat \ {0} /\ i \in Index
      /\ job.off \in Nat /\ job.len \in Nat \ {0}
  BY WriteFacts
<1>2. /\ OffSt \in 0..(C - 1) /\ OffEn \in 1..C /\ OffSt < OffEn
      /\ File!From(i) = OffSt /\ File!To(i) = OffEn /\ (i - 1) * C < job.off + job.len
  BY Spans
<1>3. ViewSize = size /\ ViewSize' = size
  <2>1. job'.op = "write"
    BY <1>1 DEF Jobs
  <2> QED  BY <1>1, <2>1, LoadedView, LoadedViewNext DEF RInv
<1>4. /\ ViewPending = [off |-> job.off, len |-> job.len, byte |-> job.byte, next |-> i]
      /\ ViewPending' = [ViewPending EXCEPT !.next = i + 1]
  <2>1. ViewPending = [off |-> job.off, len |-> job.len, byte |-> job.byte, next |-> i]
    BY PendingFacts
  <2>2. /\ job'.op = "write" /\ job'.off = job.off /\ job'.len = job.len
        /\ job'.byte = job.byte /\ job'.idx = i + 1
    BY <1>1 DEF Jobs
  <2>3. ViewPending' = [off |-> job.off, len |-> job.len, byte |-> job.byte, next |-> i + 1]
    BY <2>2, PendingNext
  <2> QED  BY <2>1, <2>3
<1>5. ViewPending.byte = job.byte
  BY <1>4
<1>6. File!PutChunk(i, P)
  BY <1>2, <1>3, <1>4 DEF File!PutChunk, File!name
<1>7. \A o \in 0..(C - 1) : P[o] = IF OffSt <= o /\ o < OffEn THEN job.byte ELSE d[o]
  BY DEF Patch
<1>8. P \in Bytes /\ P = [o \in 0..(C - 1) |-> P[o]] /\ C \in Nat \ {0}
  BY PatchType, Sizes DEF RInv, IInv, Bytes
<1>9. File!Written(i) = [o \in 0..(C - 1) |->
                           IF OffSt <= o /\ o < OffEn THEN job.byte ELSE View[i][o]]
  BY <1>2, <1>5 DEF File!Written
<1> HIDE DEF P
<1>10. CASE View[i] = Lost
  <2>1. \A o \in File!From(i)..(File!To(i) - 1) : P[o] = ViewPending.byte
    <3> TAKE o \in File!From(i)..(File!To(i) - 1)
    <3>1. o \in OffSt..(OffEn - 1)
      BY <1>2
    <3>2. o \in 0..(C - 1) /\ OffSt <= o /\ o < OffEn
      BY <1>2, <1>8, <3>1
    <3> QED  BY <1>5, <1>7, <3>2
  <2>2. P \in File!Bytes
    BY <1>8 DEF File!Bytes, Bytes
  <2>3. File!PutLost(i)
    BY <1>6, <1>10, <2>1, <2>2 DEF File!PutLost, File!Lost, Lost
  <2> QED  BY <1>1, <2>3 DEF File!Next, File!Index, Index
<1>11. CASE View[i] # Lost /\ P = File!Written(i)
  <2>1. File!Put(i)
    BY <1>6, <1>11 DEF File!Put, File!Lost, Lost
  <2> QED  BY <1>1, <2>1 DEF File!Next, File!Index, Index
<1>12. CASE View[i] = d
  <2>1. \A o \in 0..(C - 1) : P[o] = File!Written(i)[o]
    BY <1>7, <1>9, <1>12
  <2>2. P = File!Written(i)
    BY <1>8, <1>9, <2>1
  <2> QED  BY <1>10, <1>11, <2>2
<1>13. CASE OffSt = 0 /\ OffEn = C
  <2>1. ASSUME NEW o \in 0..(C - 1)
        PROVE  P[o] = File!Written(i)[o]
    <3>1. OffSt <= o /\ o < OffEn
      BY <1>8, <1>13
    <3> QED  BY <1>7, <1>9, <3>1
  <2>2. P = File!Written(i)
    BY <1>8, <1>9, <2>1
  <2> QED  BY <1>10, <1>11, <2>2
<1>14. CASE OffSt = 0 /\ OffEn = job.surplus /\ i = job.prev /\ d = Zeros /\ View[i] # Lost
  <2> DEFINE last == (size - 1) % C
             W == [o \in 0..(C - 1) |-> IF o >= last THEN 0 ELSE File!Written(i)[o]]
  <2>1. size > 0 /\ last = job.surplus /\ (size - 1) \div C = i - 1 /\ last \in 0..(C - 1)
    BY <1>14, ShortSpan
  <2>2. last = OffEn
    BY <1>14, <2>1
  <2> HIDE DEF last
  <2>3. ASSUME NEW o \in 0..(C - 1)
        PROVE  P[o] = W[o]
    <3>1. CASE o >= last
      <4>1. ~(o < OffEn)
        BY <1>2, <2>2, <3>1
      <4> QED  BY <1>7, <1>14, <3>1, <4>1 DEF Zeros
    <3>2. CASE ~(o >= last)
      <4>1. o < OffEn /\ OffSt <= o
        BY <1>2, <1>14, <2>2, <3>2
      <4> QED  BY <1>7, <1>9, <3>2, <4>1
    <3> QED  BY <3>1, <3>2
  <2>4. P = W
    BY <1>8, <2>3
  <2>5. File!From(i) = 0 /\ File!To(i) = last
    BY <1>2, <1>14, <2>2
  <2>6. File!PutShort(i)
    BY <1>3, <1>6, <1>14, <2>1, <2>4, <2>5 DEF File!PutShort, File!Lost, Lost, last
  <2> QED  BY <1>1, <2>6 DEF File!Next, File!Index, Index
<1> QED  BY <1>10, <1>12, <1>13, <1>14 DEF Base

\* TakesMoves for a job of the next state, where the provers want its
\* operation behind a name.
Truncates(j) == j.op = "trunc"

LEMMA TakesMovesToo ==
  ASSUME NEW es, NEW cs, NEW ds, NEW fs, NEW ct, NEW dk, NEW old, NEW dt, NEW j,
         Sound(es, cs, ds), Takes(old, es, cs, ds, fs, ct, dk), Agrees(es, cs, ds, dt, j),
         ~Truncates(j)
  PROVE  /\ Moves(SeenAll(es, cs, ds), SeenAll(fs, ct, dk))
         /\ \A i \in Index, e \in es : Holds(e, cs, i) /\ e.modified => Seen(fs, ct, dk, i) = e.data
BY TakesMoves DEF Truncates

LEMMA WrittenStep ==
  ASSUME RInv, IInv', job.op = "write", job.idx <= job.last,
         job' = [job EXCEPT !.idx = job.idx + 1], dirty' = dirty \cup {job.idx},
         UNCHANGED <<loaded, size, stored, linked, writes, saved, stale, removed>>,
         NEW d \in Bytes, Base(d), Before(d, writes + 1),
         NEW u \in 1..NumUuids, NEW cs, NEW ds, Drawn(job.idx, u, cs, ds),
         Evict(Pushed(NewEntry(job.idx, u, Patch(d))), cs, ds)
  PROVE  RInv' /\ [File!Next]_(File!vars)
<1> DEFINE i == job.idx
           P == Patch(d)
           new == NewEntry(i, u, P)
           es == WithEntry(new)
<1>1. /\ Sound(es, cs, ds) /\ Agrees(es, cs, ds, dirty', job')
      /\ SeenAll(es, cs, ds) = [SeenAll(Entries, chunks, disk) EXCEPT ![i] = P]
  BY WrittenAgrees
<1>2. /\ loaded /\ job \in Jobs /\ writes \in Nat /\ job.byte = writes
      /\ i \in Nat \ {0} /\ i \in DOMAIN chunks /\ i \in Index
      /\ job.off \div C + 1 <= i /\ job.table = <<>>
  BY WriteFacts
<1>3. /\ job'.op = "write" /\ job'.idx = i + 1 /\ job'.byte = job.byte /\ job'.table = job.table
      /\ job'.off = job.off /\ job'.len = job.len /\ job'.surplus = job.surplus
  BY <1>2 DEF Jobs
<1>4. /\ cs \in Seq(Chunk) /\ ds \in Files /\ DOMAIN cs = DOMAIN chunks /\ cs[i].uuid = u
  BY <1>2, DrawnFacts
<1>5. P \in Bytes
  BY PatchType DEF RInv, IInv
<1>6. new \in Entry /\ new.key = u /\ new.idx = i /\ new.data = P /\ new.modified /\ new.live
  BY <1>2, <1>5 DEF NewEntry, Entry
<1>7. Evicted(es, cs, ds)
  <2>1. TypeOK /\ UniqueKeys(cache)
    BY BasicFacts DEF RInv, Basics
  <2>2. Evict(Pushed(new), cs, ds)
    OBVIOUS
  <2> HIDE DEF new
  <2>3. /\ Pushed(new) \in Seq(Entry) /\ Len(Pushed(new)) \in 1..(MaxCache + 1)
        /\ UniqueKeys(Pushed(new)) /\ ToSet(Pushed(new)) = es
    BY <1>6, <2>1, PushedFacts DEF WithEntry
  <2> HIDE DEF es
  <2> QED  BY <1>4, <2>2, <2>3, EvictFacts
<1> HIDE DEF new
<1>8. new \in es /\ Holds(new, cs, i)
  BY <1>2, <1>4, <1>6 DEF WithEntry, Holds
<1> HIDE DEF es, P
<1>9. /\ Agrees(Entries', chunks', disk', dirty', job')
      /\ Moves(SeenAll(es, cs, ds), SeenAll(Entries', chunks', disk'))
      /\ Seen(Entries', chunks', disk', i) = P
  <2>1. CASE Entries' = es /\ chunks' = cs /\ disk' = ds
    <3>1. 1 \in Index
      BY Sizes DEF Index
    <3>2. Moves(SeenAll(es, cs, ds), SeenAll(es, cs, ds))
      BY <3>1 DEF Moves
    <3>3. Seen(es, cs, ds, i) = P
      BY <1>1, <1>6, <1>8, SeenFacts DEF Sound
    <3> QED  BY <1>1, <2>1, <3>2, <3>3
  <2>2. CASE \E old \in es : Takes(old, es, cs, ds, Entries', chunks', disk')
    <3>1. PICK old \in es : Takes(old, es, cs, ds, Entries', chunks', disk')
      BY <2>2
    <3>2. job'.byte \in Nat /\ job'.byte <= writes
      BY <1>2, <1>3
    <3>3. Agrees(Entries', chunks', disk', dirty', job')
      BY <1>1, <1>2, <3>1, <3>2, TakesAgrees
    <3>4. ~Truncates(job')
      BY <1>3 DEF Truncates
    <3>5. Moves(SeenAll(es, cs, ds), SeenAll(Entries', chunks', disk'))
      BY <1>1, <3>1, <3>4, TakesMovesToo
    <3>6. Seen(Entries', chunks', disk', job.idx) = new.data
      <4> HIDE DEF i
      <4>1. job.idx \in Index /\ Holds(new, cs, job.idx)
        BY <1>2, <1>8 DEF i
      <4> QED  BY <1>1, <1>6, <1>8, <3>1, <3>4, <4>1, TakesMovesToo
    <3> QED  BY <1>6, <3>3, <3>5, <3>6
  <2> QED  BY <1>7, <2>1, <2>2, EvictedTakes
<1>10. SeenAll(Entries, chunks, disk)' = SeenAll(Entries', chunks', disk')
  BY DEF SeenAll, Seen, Kept, Holds
<1>11. View = SeenAll(Entries, chunks, disk)
  BY <1>2, LoadedView DEF RInv
<1>12. View' = SeenAll(Entries, chunks, disk)'
  BY <1>2, <1>3, LoadedViewNext
<1>13. \E a \in File!Moved : View' = [a EXCEPT ![i] = P]
  <2>1. DOMAIN View = Index /\ View = [k \in Index |-> View[k]]
    BY <1>11 DEF SeenAll
  <2>2. View' = [k \in Index |-> View'[k]] /\ View'[i] = P
    BY <1>2, <1>9, <1>10, <1>12 DEF SeenAll
  <2>3. Moves([View EXCEPT ![i] = P], View')
    BY <1>1, <1>9, <1>10, <1>11, <1>12
  <2> QED  BY <1>2, <2>1, <2>2, <2>3, MovedPut
<1>14. File!Next
  BY <1>13, PutStep DEF P
<1>15. OneHome(Entries, chunks, job)'
  BY <1>9 DEF Agrees, OneHome, Home, Has
<1>16. Ages(Entries, chunks, disk, job)'
  <2>1. \A k : Now(job, k)' = Now(job', k)
    BY DEF Now
  <2>2. \A k, x : Old(job', k, x) => x # Zeros /\ Before(x, Now(job, k)')
    BY <2>1 DEF Old
  <2>3. Ages(Entries', chunks', disk', job')
    BY <1>9 DEF Agrees
  <2> QED  BY <2>2, <2>3 DEF Ages, Old
<1>17. Apart(Entries, chunks)' /\ Warm(Entries, chunks, dirty)' /\ Durable(disk, dirty)'
  BY <1>9 DEF Agrees, Apart, Warm, Durable, Saves, Holds, Kept
<1>18. Cold(Entries, chunks, disk, job)'
  BY <1>9 DEF Agrees, Cold, Holds, Kept
<1>19. Flushed' /\ Going'
  <2>1. Flushed'
    BY DEF RInv, Flushed
  <2>2. job.off \div C + 1 <= i + 1
    <3>1. job.off \div C \in Nat
      <4>1. job.off \in Nat
        BY <1>2 DEF Jobs
      <4> QED  BY <4>1, DivFacts, Sizes
    <3> QED  BY <1>2, <3>1
  <2>3. Going'
    BY <1>2, <1>3, <2>2, NoJobFacts DEF RInv, Going
  <2> QED  BY <2>1, <2>3
<1> QED  BY <1>14, <1>15, <1>16, <1>17, <1>18, <1>19 DEF RInv, Agrees

LEMMA WriteChunkStep ==
  ASSUME RInv, IInv', WriteChunk
  PROVE  RInv' /\ [File!Next]_(File!vars)
<1> DEFINE i == job.idx
           hole == chunks[i].uuid = Hole
           u == IF hole THEN Fresh ELSE chunks[i].uuid
           cs == [chunks EXCEPT ![i].uuid = u]
           ds == IF hole THEN Gone(disk, u) ELSE disk
           Put(d) == Evict(Pushed(NewEntry(i, u, Patch(d))), cs, ds)
<1>1. /\ job.op = "write" /\ i <= job.last
      /\ job' = [job EXCEPT !.idx = i + 1] /\ dirty' = dirty \cup {i}
      /\ UNCHANGED <<loaded, size, stored, linked, writes, saved, stale, removed>>
  BY DEF WriteChunk
<1>2. /\ \/ hole /\ Put(Zeros)
         \/ ~hole /\ ~Partial /\ Put(Zeros)
         \/ ~hole /\ Partial /\ Cached(u) /\ EntryOf(u).live /\ Put(EntryOf(u).data)
         \/ ~hole /\ Partial /\ ~Cached(u) /\ Put(IF disk[u] = Lost THEN Zeros ELSE disk[u])
  BY DEF WriteChunk, NewEntry, Gone
<1>3. Basics /\ Sound(Entries, chunks, disk)
  BY BasicFacts DEF RInv, Basics
<1>4. loaded /\ i \in DOMAIN chunks /\ i \in Index /\ writes \in Nat
  BY <1>1, WriteFacts
<1>5. chunks \in Seq(Chunk) /\ chunks[i] \in Chunk /\ chunks[i].uuid \in 0..NumUuids
  <2>1. chunks \in Seq(Chunk)
    BY <1>3 DEF Sound
  <2>2. chunks[i] \in Chunk
    BY <1>4, <2>1
  <2> QED  BY <2>1, <2>2 DEF Chunk
<1>6. u \in 1..NumUuids /\ Drawn(i, u, cs, ds)
  <2>1. CASE hole
    <3>1. Fresh \in 1..NumUuids /\ Fresh \notin InUse
      BY FreshFacts DEF RInv, IInv
    <3> QED  BY <2>1, <3>1 DEF Drawn
  <2>2. CASE ~hole
    <3>1. u \in 1..NumUuids
      BY <1>5, <2>2, Sizes DEF Hole
    <3>2. [chunks[i] EXCEPT !.uuid = u] = chunks[i]
      BY <1>5, <2>2 DEF Chunk
    <3>3. cs = chunks
      BY <1>4, <1>5, <2>2, <3>2
    <3> QED  BY <2>2, <3>1, <3>3 DEF Drawn
  <2> QED  BY <2>1, <2>2
<1>7. View[i] = Seen(Entries, chunks, disk, i) /\ Alone(Entries)
  BY <1>1, <1>3, <1>4, LoadedView DEF RInv, SeenAll, Sound
<1>8. /\ \A e \in Entries : Holds(e, chunks, i) => View[i] = e.data
      /\ (\A e \in Entries : ~Holds(e, chunks, i)) => View[i] = Kept(chunks, disk, i)
  BY <1>7, SeenFacts
<1>9. /\ \A e \in Entries : e.data \in Bytes /\ e.key # Hole
      /\ \A v \in 0..NumUuids : disk[v] \in Bytes \cup {Lost}
  BY <1>3, DataTypes
<1>10. /\ \A e \in Entries : Before(e.data, writes + 1)
       /\ \A v \in 0..NumUuids : Before(disk[v], writes + 1)
       /\ Before(Zeros, writes + 1) /\ Zeros \in Bytes
  <2>1. Ages(Entries, chunks, disk, job)
    BY DEF RInv, Agrees
  <2>2. ASSUME NEW e \in Entries
        PROVE  Before(e.data, writes + 1)
    <3>1. Before(e.data, Now(job, e.idx)) /\ e.data \in Bytes
      BY <1>9, <2>1 DEF Ages, Old
    <3>2. Now(job, e.idx) \in Nat /\ Now(job, e.idx) <= writes + 1 /\ writes + 1 \in Nat
      <4>1. Now(job, e.idx) = writes + 1 \/ Now(job, e.idx) = writes
        BY <1>1, WriteFacts DEF Now
      <4> QED  BY <1>4, <4>1
    <3> HIDE DEF Now
    <3> QED  BY <3>1, <3>2, BeforeLater
  <2>3. Before(Zeros, writes + 1)
    BY <1>4 DEF Before, Zeros
  <2> QED  BY <2>1, <2>2, <2>3, ZerosType DEF Ages
<1> HIDE DEF Put, cs, ds, u, hole
<1>11. \E d \in Bytes : Base(d) /\ Before(d, writes + 1) /\ Put(d)
  <2>1. CASE hole /\ Put(Zeros)
    <3>1. View[i] = Zeros
      BY <1>8, <1>9, <2>1 DEF hole, Kept, Holds
    <3> QED  BY <1>10, <2>1, <3>1 DEF Base
  <2>2. CASE ~hole /\ ~Partial /\ Put(Zeros)
    <3>1. OffSt = 0 /\ OffEn = IF i = job.prev THEN job.surplus ELSE C
      BY <2>2 DEF Partial
    <3>2. Base(Zeros)
      BY <3>1 DEF Base
    <3> QED  BY <1>10, <2>2, <3>2
  <2>3. CASE ~hole /\ Cached(u) /\ EntryOf(u).live /\ Put(EntryOf(u).data)
    <3>1. EntryOf(u) \in Entries /\ EntryOf(u).key = u
      BY <1>3, <2>3, CachedFacts DEF Basics
    <3>2. Holds(EntryOf(u), chunks, i)
      BY <1>4, <2>3, <3>1 DEF Holds, u
    <3>3. View[i] = EntryOf(u).data
      BY <1>8, <3>1, <3>2
    <3> QED  BY <1>9, <1>10, <2>3, <3>1, <3>3 DEF Base
  <2>4. CASE ~hole /\ ~Cached(u) /\ Put(IF disk[u] = Lost THEN Zeros ELSE disk[u])
    <3> DEFINE d == IF disk[u] = Lost THEN Zeros ELSE disk[u]
    <3>1. u \in 0..NumUuids /\ u = chunks[i].uuid
      BY <1>5, <2>4 DEF u
    <3>2. d \in Bytes /\ Before(d, writes + 1)
      BY <1>9, <1>10, <3>1
    <3>3. \A e \in Entries : ~Holds(e, chunks, i)
      <4>1. \A e \in Entries : e.key # u
        BY <2>4 DEF Cached, Entries, ToSet
      <4> QED  BY <3>1, <4>1 DEF Holds
    <3>4. View[i] = IF disk[u] = chunks[i].tag THEN chunks[i].tag ELSE Lost
      BY <1>4, <1>8, <2>4, <3>1, <3>3 DEF Kept, hole
    <3>5. View[i] = Lost \/ View[i] = d
      BY <3>4
    <3> QED  BY <2>4, <3>2, <3>5 DEF Base
  <2> QED  BY <1>2, <2>1, <2>2, <2>3, <2>4
<1>12. PICK d \in Bytes : Base(d) /\ Before(d, writes + 1) /\ Put(d)
  BY <1>11
<1> QED  BY <1>1, <1>6, <1>12, WrittenStep DEF Put

-----------------------------------------------------------------------------
(* The theorem.                                                            *)

LEMMA InitStep ==
  ASSUME Init
  PROVE  RInv /\ File!Init
<1>1. /\ loaded = TRUE /\ size = 0 /\ chunks = <<>> /\ cache = <<>>
      /\ disk = [u \in 0..NumUuids |-> Lost]
      /\ stored.size = 0 /\ stored.chunks = <<>> /\ linked = TRUE
      /\ job = NoJob /\ writes = 0
      /\ saved = [arr |-> [i \in Index |-> Zeros], size |-> 0]
      /\ dirty = {} /\ stale = {} /\ removed = {}
  BY DEF Init, Empty
<1>2. /\ DOMAIN chunks = {} /\ DOMAIN stored.chunks = {} /\ Entries = {}
      /\ job.op = "none" /\ job.table = <<>> /\ DOMAIN job.table = {}
  BY <1>1, NoJobFacts DEF Entries, ToSet
<1>3. IInv /\ Viewed /\ Sized
  BY InitInv, ViewFacts, SizeFacts
<1>4. \A i \in Index : Kept(chunks, disk, i) = Zeros /\ Kept(stored.chunks, disk, i) = Zeros
  BY <1>2 DEF Kept
<1>5. View = [i \in Index |-> Zeros] /\ ViewSize = 0
  <2>1. \A i \in Index : Seen(Entries, chunks, disk, i) = Zeros
    BY <1>2, <1>4 DEF Seen
  <2>2. View = [i \in Index |-> Seen(Entries, chunks, disk, i)]
    BY <1>1, <1>2, <1>3 DEF Viewed, Shown
  <2>3. ViewSize = 0
    BY <1>1, <1>2, <1>3 DEF Sized
  <2> QED  BY <2>1, <2>2, <2>3
<1>6. OneHome(Entries, chunks, job)
  BY <1>2 DEF OneHome, Home, Has
<1>7. Ages(Entries, chunks, disk, job)
  <2>1. \A u \in 0..NumUuids : Before(disk[u], writes + 1)
    BY <1>1 DEF Before
  <2> QED  BY <1>2, <2>1 DEF Ages
<1>8. Agrees(Entries, chunks, disk, dirty, job)
  <2>1. Durable(disk, dirty)
    BY <1>1, <1>4 DEF Durable
  <2> QED  BY <1>2, <1>6, <1>7, <2>1 DEF Agrees, Apart, Cold, Warm
<1>9. Flushed
  <2>1. DOMAIN saved = {"arr", "size"} /\ DOMAIN saved.arr = Index /\ saved.size = stored.size
    BY <1>1
  <2>2. \A i \in Index : saved.arr[i] = Zeros
    BY <1>1
  <2> QED  BY <1>2, <2>1, <2>2 DEF Flushed
<1>10. Going
  BY <1>1, <1>2 DEF Going
<1>11. File!Init
  BY <1>1, <1>2, <1>5, PendingFacts DEF File!Init, File!Index, Index, File!Zeros, Zeros
<1> QED  BY <1>3, <1>8, <1>9, <1>10, <1>11 DEF RInv

LEMMA StutterStep ==
  ASSUME RInv, IInv', UNCHANGED vars
  PROVE  RInv' /\ [File!Next]_(File!vars)
<1>1. UNCHANGED <<loaded, size, chunks, cache, disk, stored, linked, user, job, writes,
                  saved, dirty, removed, stale>>
  BY DEF vars, node, storage, ghosts
<1>2. Entries' = Entries
  BY <1>1 DEF Entries
<1>3. Agrees(Entries, chunks, disk, dirty, job)'
  <2>1. OneHome(Entries, chunks, job)'
    BY <1>1, <1>2 DEF RInv, Agrees, OneHome, Home, Has
  <2>2. Ages(Entries, chunks, disk, job)'
    BY <1>1, <1>2 DEF RInv, Agrees, Ages, Old, Now
  <2>3. Apart(Entries, chunks)' /\ Warm(Entries, chunks, dirty)'
    BY <1>1, <1>2 DEF RInv, Agrees, Apart, Saves, Warm, Holds
  <2>4. Cold(Entries, chunks, disk, job)' /\ Durable(disk, dirty)'
    BY <1>1, <1>2 DEF RInv, Agrees, Cold, Durable, Holds, Kept
  <2> QED  BY <2>1, <2>2, <2>3, <2>4 DEF Agrees
<1>4. Flushed' /\ Going'
  BY <1>1, <1>2 DEF RInv, Flushed, Going
<1>5. View' = View /\ ViewSize' = ViewSize /\ ViewPending' = ViewPending
  BY <1>1 DEF View, ViewSize, ViewPending, StoredChunk, Cached, EntryOf, EntryPos
<1>6. UNCHANGED File!vars
  BY <1>1, <1>5 DEF File!vars, File!name
<1> QED  BY <1>3, <1>4, <1>6 DEF RInv

LEMMA NextStep ==
  ASSUME RInv, [Next]_vars
  PROVE  RInv' /\ [File!Next]_(File!vars)
<1>0. IInv'
  BY NextInv DEF RInv
<1>1. CASE \E off \in 0..(C * MaxChunks - 1), len \in 1..(C * MaxChunks) :
             BeginRead(off, len) \/ BeginWrite(off, len) \/ Fallocate(off, len)
  BY <1>0, <1>1, BeginReadStep, BeginWriteStep, FallocateStep
<1>2. CASE ReadChunk \/ WriteChunk \/ EndWrite
  BY <1>0, <1>2, ReadChunkStep, WriteChunkStep, EndWriteStep
<1>3. CASE Lookup \/ Open(TRUE) \/ Open(FALSE) \/ TruncChunk \/ EndTrunc
  BY <1>0, <1>3, LookupStep, OpenStep, TruncChunkStep, EndTruncStep
<1>4. CASE BeginFlush \/ FlushChunk \/ EndFlush
  BY <1>0, <1>4, BeginFlushStep, FlushChunkStep, EndFlushStep
<1>5. CASE Unlink \/ UnlinkChunk \/ Unmap \/ Forget \/ Crash
  BY <1>0, <1>5, UnlinkStep, UnlinkChunkStep, UnmapStep, ForgetStep, CrashStep
<1>6. CASE UNCHANGED vars
  BY <1>0, <1>6, StutterStep
<1> QED  BY <1>1, <1>2, <1>3, <1>4, <1>5, <1>6 DEF Next

\* Whatever the sizes of a chunk, of the cache and of the file, each step of
\* the data path of the enclave is a step of ByteFile or one it does not see:
\* reads and evictions show nothing but the file, writes change nothing but
\* their bytes, and a crash gives back what was flushed, with no exception
\* but those that ByteFile names.
THEOREM Implements == Spec => ImplementsByteFile
<1>1. Init => RInv /\ File!Init
  BY InitStep
<1>2. RInv /\ [Next]_vars => RInv' /\ [File!Next]_(File!vars)
  BY NextStep
<1> QED  BY <1>1, <1>2, PTL DEF Spec, ImplementsByteFile, File!Spec
=============================================================================
