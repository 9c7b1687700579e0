---------------------------- MODULE FileIO_proofs ----------------------------
(***************************************************************************)
(* Theorems about FileIO for any chunk size, cache size and bounds: types, *)
(* that the metadata file can always be loaded again, and that the chunks  *)
(* of a file stay readable.                                                *)
(*                                                                         *)
(* The argument: the table of chunks is as long as the size asks for, but  *)
(* for a write under way, which knows how long it was.  A chunk's data is  *)
(* in its file under the tag in the table, or modified in the cache; what  *)
(* an entry that outlived its chunk is saved over is readable, too.        *)
(***************************************************************************)
EXTENDS FileIO, FiniteSetTheorems, SequenceTheorems, TLAPS

-----------------------------------------------------------------------------
(* The inductive invariant.                                                *)

Ops == {"none", "read", "write", "flush", "trunc", "unlink"}
Jobs == [op : Ops, idx : 1..(MaxChunks + 1), last : Nat, off : Nat, len : Nat,
         byte : 0..MaxWrites, prev : Nat, surplus : Nat, table : Seq(Chunk)]

\* An ecall in progress has the Filenode, and is at a chunk of its table or
\* past the last one.
Typed ==
  /\ TypeOK
  /\ job \in Jobs /\ stored \in [size : 0..(C * MaxChunks), chunks : Seq(Chunk)]
  /\ Len(stored.chunks) <= MaxChunks
  /\ job.op # "none" \/ user # "closed" => loaded
  /\ job.op = "read" => job.idx <= job.last /\ job.last <= Len(chunks)
  /\ job.op = "write" => job.idx <= job.last + 1 /\ job.last <= Len(chunks)
  /\ job.op \in {"trunc", "flush"} => job.idx <= Len(chunks) + 1
  /\ job.op = "unlink" =>
       job.idx <= Len(job.table) /\ Len(job.table) <= MaxChunks /\ ~linked

\* The table fits the size; a write first extends the one, then the other.
Fits ==
  /\ StoredLoads
  /\ job.op # "write" => CeilDiv(size) = Len(chunks)
  /\ job.op = "write" =>
       /\ CeilDiv(size) = job.prev
       /\ job.last = CeilDiv(job.off + job.len)
       /\ Len(chunks) = NatMax(job.prev, job.last)

\* No two chunks have one file, no two entries one key.
Distinct(cs) ==
  \A i, j \in DOMAIN cs : cs[i].uuid = cs[j].uuid /\ cs[i].uuid # Hole => i = j
UniqueKeys(q) == \A p, r \in DOMAIN q : q[p].key = q[r].key => p = r

\* An entry with the uuid of a chunk has its index, unless it has expired.
Placed(es, cs) ==
  \A e \in es : e.live => \A i \in DOMAIN cs : cs[i].uuid = e.key => e.idx = i

\* Chunk i can be read, or could not be when the file was last flushed or
\* loaded.
Good(es, cs, ds, i) ==
  \/ ds[cs[i].uuid] # Lost /\ ds[cs[i].uuid] = cs[i].tag
  \/ \E e \in es : e.key = cs[i].uuid /\ e.live /\ e.modified
  \/ saved.arr[i] = Lost /\ \A e \in es : e.key = cs[i].uuid => ~e.live

AllGood(es, cs, ds) == \A i \in DOMAIN cs : cs[i].uuid # Hole => Good(es, cs, ds, i)

Entries == ToSet(cache)

Data ==
  /\ Distinct(chunks) /\ Distinct(stored.chunks)
  /\ UniqueKeys(cache) /\ Placed(Entries, chunks)
  /\ \A e \in Entries : e.live => loaded
  /\ loaded /\ linked /\ job.op # "trunc" => AllGood(Entries, chunks, disk)
  /\ ~loaded => \A i \in Index : saved.arr[i] = StoredChunk(stored.chunks, i)

IInv == Typed /\ Fits /\ Data

-----------------------------------------------------------------------------
(* Lemmas about numbers: bytes and chunks.                                 *)

LEMMA DivFacts ==
  ASSUME NEW n \in Nat, NEW d \in Nat \ {0}
  PROVE  n \div d \in Nat /\ n % d \in 0..(d - 1) /\ n = d * (n \div d) + (n % d)
OBVIOUS

LEMMA Times ==
  ASSUME NEW a \in Nat, NEW b \in Nat, NEW d \in Nat
  PROVE  d * a \in Nat /\ d * (a + 1) = d * a + d /\ (a <= b => d * a <= d * b)
<1>1. d * a \in Nat /\ d * b \in Nat /\ d * (a + 1) = d * a + d
  OBVIOUS
<1>2. ASSUME a <= b PROVE d * a <= d * b
  <2>1. b - a \in Nat /\ d * (b - a) \in Nat
    BY <1>2
  <2>2. d * b = d * a + d * (b - a)
    BY <1>2
  <2> QED  BY <1>1, <2>1, <2>2
<1> QED  BY <1>1, <1>2

\* The constants.
LEMMA Sizes ==
  /\ C \in Nat \ {0} /\ MaxChunks \in Nat \ {0} /\ MaxCache \in Nat
  /\ MaxWrites \in Nat /\ NumUuids \in Nat /\ C * MaxChunks \in Nat
  /\ NumUuids >= 2 * MaxChunks + MaxCache + 1
<1>1. C \in Nat /\ MaxChunks \in Nat
  BY FileIOAssumption
<1> QED  BY <1>1, FileIOAssumption, Times

\* n bytes fit into m chunks just when CeilDiv(n) is no more than m.
LEMMA CeilDivFits ==
  ASSUME NEW n \in Nat
  PROVE  /\ CeilDiv(n) \in Nat
         /\ \A m \in Nat : CeilDiv(n) <= m <=> n <= C * m
<1> DEFINE k == n + C - 1
           q == k \div C
<1>1. k \in Nat /\ C \in Nat \ {0} /\ k = n + C - 1
  BY Sizes
<1> HIDE DEF k
<1>2. q \in Nat /\ k % C \in 0..(C - 1) /\ k = C * q + (k % C)
  BY <1>1, DivFacts
<1>3. CeilDiv(n) = q
  BY DEF CeilDiv, k
<1> HIDE DEF q
<1>4. ASSUME NEW m \in Nat
      PROVE  q <= m <=> n <= C * m
  <2>1. C * m \in Nat /\ C * (m + 1) = C * m + C /\ C * q \in Nat
    BY <1>1, <1>2, Times
  <2>2. CASE q <= m
    <3>1. C * q <= C * m
      BY <1>1, <1>2, <2>2, Times
    <3> QED  BY <1>1, <1>2, <2>1, <2>2, <3>1
  <2>3. CASE ~(q <= m)
    <3>1. m + 1 <= q /\ m + 1 \in Nat
      BY <1>2, <2>3
    <3>2. C * (m + 1) <= C * q
      BY <1>1, <1>2, <3>1, Times
    <3> QED  BY <1>1, <1>2, <2>1, <2>3, <3>2
  <2> QED  BY <2>2, <2>3
<1> QED  BY <1>2, <1>3, <1>4

\* The larger size needs the longer table.
LEMMA CeilDivMax ==
  ASSUME NEW m \in Nat, NEW n \in Nat
  PROVE  CeilDiv(NatMax(m, n)) = NatMax(CeilDiv(m), CeilDiv(n))
<1>1. ASSUME NEW a \in Nat, NEW b \in Nat, a <= b
      PROVE  CeilDiv(a) <= CeilDiv(b)
  <2>1. CeilDiv(b) \in Nat /\ C * CeilDiv(b) \in Nat /\ b <= C * CeilDiv(b)
    BY CeilDivFits, Sizes, Times
  <2>2. a <= C * CeilDiv(b)
    BY <1>1, <2>1
  <2> QED  BY <2>1, <2>2, CeilDivFits
<1>2. CeilDiv(m) \in Nat /\ CeilDiv(n) \in Nat
  BY CeilDivFits
<1>3. CASE m >= n
  <2>1. NatMax(m, n) = m /\ CeilDiv(n) <= CeilDiv(m)
    BY <1>1, <1>3 DEF NatMax
  <2> QED  BY <1>2, <2>1 DEF NatMax
<1>4. CASE ~(m >= n)
  <2>1. NatMax(m, n) = n /\ CeilDiv(m) <= CeilDiv(n)
    BY <1>1, <1>4 DEF NatMax
  <2> QED  BY <1>2, <2>1 DEF NatMax
<1> QED  BY <1>3, <1>4

LEMMA CeilDivZero == CeilDiv(0) = 0
<1>1. C * 0 = 0
  BY Sizes
<1> QED  BY <1>1, CeilDivFits

\* A range that is not empty begins in a chunk before its end.
LEMMA BeginsBeforeEnd ==
  ASSUME NEW off \in Nat, NEW len \in Nat \ {0}
  PROVE  off \div C \in Nat /\ off \div C + 1 <= CeilDiv(off + len)
<1>1. C \in Nat \ {0}
  BY Sizes
<1>2. off \div C \in Nat /\ off % C \in Nat /\ off = C * (off \div C) + (off % C)
  BY <1>1, DivFacts
<1>3. C * (off \div C) \in Nat
  BY <1>1, <1>2, Times
<1>4. ~(off + len <= C * (off \div C))
  BY <1>2, <1>3
<1>5. off + len \in Nat
  OBVIOUS
<1> HIDE DEF CeilDiv
<1>6. CeilDiv(off + len) \in Nat /\ ~(CeilDiv(off + len) <= off \div C)
  BY <1>2, <1>4, <1>5, CeilDivFits
<1> QED  BY <1>2, <1>6

-----------------------------------------------------------------------------
(* Lemmas about the cache.                                                 *)

\* RemoveAt closes the gap at k and keeps every other element, in order.
LEMMA RemoveAtFacts ==
  ASSUME NEW S, NEW s \in Seq(S), NEW k \in DOMAIN s
  PROVE  /\ RemoveAt(s, k) \in Seq(S)
         /\ Len(RemoveAt(s, k)) = Len(s) - 1
         /\ \A p \in 1..(Len(s) - 1) :
              RemoveAt(s, k)[p] = IF p < k THEN s[p] ELSE s[p + 1]
<1> DEFINE n == Len(s)
           a == SubSeq(s, 1, k - 1)
           b == SubSeq(s, k + 1, Len(s))
<1>1. n \in Nat /\ k \in 1..n /\ DOMAIN s = 1..n
  OBVIOUS
<1>2. a \in Seq(S) /\ Len(a) = k - 1 /\ \A p \in 1..(k - 1) : a[p] = s[p]
  BY <1>1
<1>3. b \in Seq(S) /\ Len(b) = n - k /\ \A p \in 1..(n - k) : b[p] = s[k + p]
  BY <1>1
<1>4. RemoveAt(s, k) = a \o b
  BY DEF RemoveAt
<1>5. Len(a \o b) = n - 1 /\ a \o b \in Seq(S)
  BY <1>1, <1>2, <1>3
<1>6. ASSUME NEW p \in 1..(n - 1)
      PROVE  (a \o b)[p] = IF p < k THEN s[p] ELSE s[p + 1]
  <2> HIDE DEF a, b
  <2>0. p \in Nat /\ k \in Nat
    BY <1>1
  <2>1. CASE p < k
    <3>1. p \in 1..Len(a)
      BY <1>1, <1>2, <2>1
    <3>2. (a \o b)[p] = a[p]
      BY <1>2, <1>3, <3>1, ConcatProperties
    <3> QED  BY <1>1, <1>2, <2>1, <3>1, <3>2
  <2>2. CASE ~(p < k)
    <3>1. p - (k - 1) \in 1..(n - k)
      BY <1>1, <2>0, <2>2
    <3>2. p \in 1..(Len(a) + Len(b)) /\ ~(p <= Len(a))
      BY <1>1, <1>2, <1>3, <2>0, <2>2
    <3>3. (a \o b)[p] = b[p - Len(a)]
      BY <1>2, <1>3, <3>2, ConcatProperties
    <3>4. b[p - (k - 1)] = s[k + (p - (k - 1))] /\ k + (p - (k - 1)) = p + 1
      BY <1>1, <1>3, <2>0, <3>1
    <3> QED  BY <1>2, <2>2, <3>3, <3>4
  <2> QED  BY <2>1, <2>2
<1> QED  BY <1>4, <1>5, <1>6

LEMMA CachedFacts ==
  ASSUME TypeOK, NEW u, Cached(u)
  PROVE  /\ EntryPos(u) \in DOMAIN cache /\ EntryOf(u) \in Entries
         /\ EntryOf(u) \in Entry /\ EntryOf(u).key = u
<1>1. EntryPos(u) \in DOMAIN cache /\ cache[EntryPos(u)].key = u
  BY DEF Cached, EntryPos
<1>2. cache[EntryPos(u)] \in Entry
  BY <1>1 DEF TypeOK
<1> QED  BY <1>1, <1>2 DEF EntryOf, Entries, ToSet

LEMMA EntryFacts ==
  ASSUME TypeOK, UniqueKeys(cache), NEW e \in Entries
  PROVE  e \in Entry /\ Cached(e.key) /\ EntryOf(e.key) = e
<1>1. PICK p \in DOMAIN cache : cache[p] = e
  BY DEF Entries, ToSet
<1>2. e \in Entry /\ Cached(e.key)
  BY <1>1 DEF TypeOK, Cached
<1>3. EntryPos(e.key) = p
  BY <1>1 DEF EntryPos, UniqueKeys
<1> QED  BY <1>1, <1>2, <1>3 DEF EntryOf

\* The list without the entry of a key.
LEMMA WithoutFacts ==
  ASSUME TypeOK, UniqueKeys(cache), NEW u
  PROVE  /\ Without(u) \in Seq(Entry) /\ Len(Without(u)) <= Len(cache)
         /\ UniqueKeys(Without(u))
         /\ ToSet(Without(u)) = {e \in Entries : e.key # u}
<1>0. cache \in Seq(Entry)
  BY DEF TypeOK
<1>1. CASE ~Cached(u)
  <2>1. Without(u) = cache
    BY <1>1 DEF Without
  <2>2. \A e \in Entries : e.key # u
    BY <1>1 DEF Cached, Entries, ToSet
  <2> QED  BY <1>0, <2>1, <2>2 DEF Entries
<1>2. CASE Cached(u)
  <2> DEFINE k == EntryPos(u)
             r == RemoveAt(cache, k)
             n == Len(cache)
  <2>1. k \in DOMAIN cache /\ cache[k].key = u /\ Without(u) = r
    BY <1>2, CachedFacts DEF EntryOf, Without
  <2>2. /\ r \in Seq(Entry) /\ Len(r) = n - 1
        /\ \A p \in 1..(n - 1) : r[p] = IF p < k THEN cache[p] ELSE cache[p + 1]
    BY <1>0, <2>1, RemoveAtFacts
  <2> HIDE DEF r, k
  <2>3. n \in Nat /\ k \in 1..n /\ DOMAIN cache = 1..n /\ DOMAIN r = 1..(n - 1)
    BY <1>0, <2>1, <2>2
  <2>4. \A p, q \in 1..n : cache[p].key = cache[q].key => p = q
    BY <2>3 DEF UniqueKeys
  <2>5. ASSUME NEW p \in 1..(n - 1), NEW q \in 1..(n - 1), r[p].key = r[q].key
        PROVE  p = q
    BY <2>2, <2>3, <2>4, <2>5
  <2>6. ASSUME NEW p \in 1..(n - 1)
        PROVE  r[p] \in Entries /\ r[p].key # u
    <3>1. CASE p < k
      <4>1. p \in 1..n /\ p # k /\ r[p] = cache[p]
        BY <2>2, <2>3, <3>1
      <4> QED  BY <2>1, <2>3, <2>4, <4>1 DEF Entries, ToSet
    <3>2. CASE ~(p < k)
      <4>1. p + 1 \in 1..n /\ p + 1 # k /\ r[p] = cache[p + 1]
        BY <2>2, <2>3, <3>2
      <4> QED  BY <2>1, <2>3, <2>4, <4>1 DEF Entries, ToSet
    <3> QED  BY <3>1, <3>2
  <2>7. ASSUME NEW e \in Entries, e.key # u
        PROVE  \E p \in 1..(n - 1) : r[p] = e
    <3>1. PICK p \in 1..n : cache[p] = e
      BY <2>3 DEF Entries, ToSet
    <3>2. p # k
      BY <2>1, <2>7, <3>1
    <3>3. CASE p < k
      BY <2>2, <2>3, <3>1, <3>3
    <3>4. CASE p > k
      <4>1. p - 1 \in 1..(n - 1) /\ r[p - 1] = cache[p]
        BY <2>2, <2>3, <3>4
      <4> QED  BY <3>1, <4>1
    <3> QED  BY <2>3, <3>2, <3>3, <3>4
  <2>8. ToSet(r) = {e \in Entries : e.key # u}
    BY <2>3, <2>6, <2>7 DEF ToSet
  <2>9. UniqueKeys(r)
    BY <2>3, <2>5 DEF UniqueKeys
  <2> QED  BY <2>1, <2>2, <2>3, <2>8, <2>9
<1> QED  BY <1>1, <1>2

\* The list with an entry pushed.
LEMMA PushedFacts ==
  ASSUME TypeOK, UniqueKeys(cache), NEW e \in Entry
  PROVE  /\ Pushed(e) \in Seq(Entry) /\ Len(Pushed(e)) \in 1..(MaxCache + 1)
         /\ UniqueKeys(Pushed(e))
         /\ ToSet(Pushed(e)) = {e} \cup {f \in Entries : f.key # e.key}
<1> DEFINE w == Without(e.key)
           r == Append(w, e)
           n == Len(w)
<1>1. /\ w \in Seq(Entry) /\ Len(w) <= Len(cache) /\ UniqueKeys(w)
      /\ ToSet(w) = {f \in Entries : f.key # e.key}
  BY WithoutFacts
<1>2. Pushed(e) = r
  BY DEF Pushed
<1> HIDE DEF w
<1>3. /\ r \in Seq(Entry) /\ Len(r) = n + 1 /\ n \in Nat
      /\ \A p \in 1..n : r[p] = w[p]
      /\ r[n + 1] = e
  BY <1>1
<1>4. DOMAIN w = 1..n /\ DOMAIN r = 1..(n + 1)
  BY <1>1, <1>3
<1> HIDE DEF r, n
<1>5. Len(cache) \in Nat /\ Len(cache) <= MaxCache /\ MaxCache \in Nat
  BY Sizes DEF TypeOK
<1>6. n + 1 \in 1..(MaxCache + 1)
  BY <1>1, <1>3, <1>5 DEF n
<1>7. \A p \in 1..n : w[p].key # e.key
  BY <1>1, <1>4 DEF ToSet
<1>8. ASSUME NEW p \in 1..(n + 1), NEW q \in 1..(n + 1), r[p].key = r[q].key
      PROVE  p = q
  BY <1>1, <1>3, <1>4, <1>7, <1>8 DEF UniqueKeys
<1>9. ToSet(r) = ToSet(w) \cup {e}
  <2>1. \A x : x \in ToSet(r) <=> \E p \in 1..(n + 1) : r[p] = x
    BY <1>4 DEF ToSet
  <2>2. \A x : x \in ToSet(w) <=> \E p \in 1..n : w[p] = x
    BY <1>4 DEF ToSet
  <2>3. ASSUME NEW x \in ToSet(r) PROVE x \in ToSet(w) \cup {e}
    BY <1>3, <2>1, <2>2
  <2>4. ASSUME NEW x \in ToSet(w) \cup {e} PROVE x \in ToSet(r)
    BY <1>3, <2>1, <2>2
  <2> QED  BY <2>3, <2>4
<1>10. UniqueKeys(r)
  BY <1>4, <1>8 DEF UniqueKeys
<1> QED  BY <1>1, <1>2, <1>3, <1>6, <1>9, <1>10

\* The list without its front.
LEMMA TailFacts ==
  ASSUME NEW q \in Seq(Entry), q # <<>>, UniqueKeys(q)
  PROVE  /\ Tail(q) \in Seq(Entry) /\ Len(Tail(q)) = Len(q) - 1
         /\ UniqueKeys(Tail(q)) /\ Head(q) \in ToSet(q) /\ Head(q) \in Entry
         /\ ToSet(Tail(q)) = ToSet(q) \ {Head(q)}
<1> DEFINE r == Tail(q)
           n == Len(q)
<1>1. /\ n \in Nat \ {0} /\ r \in Seq(Entry) /\ Len(r) = n - 1
      /\ \A p \in 1..(n - 1) : r[p] = q[p + 1]
      /\ Head(q) = q[1] /\ q[1] \in Entry
  OBVIOUS
<1>2. DOMAIN q = 1..n /\ DOMAIN r = 1..(n - 1)
  BY <1>1
<1> HIDE DEF r, n
<1>3. \A p, s \in 1..n : q[p].key = q[s].key => p = s
  BY <1>2 DEF UniqueKeys
<1>4. ASSUME NEW p \in 1..(n - 1), NEW s \in 1..(n - 1), r[p].key = r[s].key
      PROVE  p = s
  <2>1. p + 1 \in 1..n /\ s + 1 \in 1..n /\ q[p + 1].key = q[s + 1].key
    BY <1>1, <1>4
  <2>2. p + 1 = s + 1
    BY <1>3, <2>1
  <2> QED  BY <1>1, <2>2
<1>5. ASSUME NEW p \in 1..(n - 1)
      PROVE  r[p] \in ToSet(q) /\ r[p] # q[1]
  <2>1. p + 1 \in 1..n /\ 1 \in 1..n /\ p + 1 # 1 /\ r[p] = q[p + 1]
    BY <1>1
  <2> QED  BY <1>2, <1>3, <2>1 DEF ToSet
<1>6. ASSUME NEW e \in ToSet(q), e # q[1]
      PROVE  \E p \in 1..(n - 1) : r[p] = e
  <2>1. PICK p \in 1..n : q[p] = e
    BY <1>2 DEF ToSet
  <2>2. p - 1 \in 1..(n - 1) /\ r[p - 1] = q[p]
    BY <1>1, <1>6, <2>1
  <2> QED  BY <2>1, <2>2
<1>7. ToSet(r) = ToSet(q) \ {q[1]}
  <2>1. \A x : x \in ToSet(r) <=> \E p \in 1..(n - 1) : r[p] = x
    BY <1>2 DEF ToSet
  <2>2. ASSUME NEW x \in ToSet(r) PROVE x \in ToSet(q) \ {q[1]}
    BY <1>5, <2>1
  <2>3. ASSUME NEW x \in ToSet(q) \ {q[1]} PROVE x \in ToSet(r)
    BY <1>6, <2>1
  <2> QED  BY <2>2, <2>3
<1>8. q[1] \in ToSet(q)
  BY <1>1, <1>2 DEF ToSet
<1> QED  BY <1>1, <1>2, <1>4, <1>7, <1>8 DEF r, n, UniqueKeys

-----------------------------------------------------------------------------
(* Evictions.                                                              *)

Files == [0..NumUuids -> Bytes \cup {Lost}]

LEMMA BytesNotLost == \A d \in Bytes : d # Lost
<1> SUFFICES ASSUME NEW d \in Bytes, d = Lost PROVE FALSE
  OBVIOUS
<1>1. DOMAIN d = 0..(C - 1) /\ C \in Nat \ {0}
  BY Sizes DEF Bytes
<1>2. 0 \in DOMAIN d
  BY <1>1
<1>3. DOMAIN Lost = {}
  BY DEF Lost
<1> QED  BY <1>2, <1>3

\* What an eviction makes of the entries es, the table cs and the files ds:
\* it is not needed, or takes an entry that has not expired, and saves it.
Evicted(es, cs, ds) ==
  \/ Entries' = es /\ chunks' = cs /\ disk' = ds
  \/ \E old \in es :
       /\ old.live /\ Entries' = es \ {old}
       /\ \/ ~old.modified /\ chunks' = cs /\ disk' = ds
          \/ /\ old.modified /\ old.idx \notin DOMAIN cs
             /\ chunks' = cs /\ disk' = [ds EXCEPT ![old.key] = old.data]
          \/ /\ old.modified /\ old.idx \in DOMAIN cs
             /\ chunks' = [cs EXCEPT ![old.idx].tag = old.data]
             /\ disk' = [ds EXCEPT ![cs[old.idx].uuid] = old.data]

\* Evict does that, and keeps the types.
LEMMA EvictFacts ==
  ASSUME NEW q \in Seq(Entry), Len(q) \in 1..(MaxCache + 1), UniqueKeys(q),
         NEW cs \in Seq(Chunk), NEW ds \in Files, Evict(q, cs, ds)
  PROVE  /\ cache' \in Seq(Entry) /\ Len(cache') <= MaxCache /\ UniqueKeys(cache)'
         /\ Evicted(ToSet(q), cs, ds)
         /\ chunks' \in Seq(Chunk) /\ Len(chunks') = Len(cs) /\ disk' \in Files
         /\ \A i \in DOMAIN cs : chunks'[i].uuid = cs[i].uuid
<1>1. CASE Len(q) <= MaxCache
  <2>1. cache' = q /\ chunks' = cs /\ disk' = ds
    BY <1>1 DEF Evict
  <2>2. Entries' = ToSet(q) /\ UniqueKeys(cache)'
    BY <2>1 DEF Entries, UniqueKeys
  <2> QED  BY <1>1, <2>1, <2>2 DEF Evicted
<1>2. CASE ~(Len(q) <= MaxCache)
  <2> DEFINE old == Head(q)
  <2>1. q # <<>>
    OBVIOUS
  <2>2. /\ Tail(q) \in Seq(Entry) /\ Len(Tail(q)) = Len(q) - 1
        /\ UniqueKeys(Tail(q)) /\ old \in ToSet(q) /\ old \in Entry
        /\ ToSet(Tail(q)) = ToSet(q) \ {old}
    BY <2>1, TailFacts
  <2>3. /\ old.live /\ cache' = Tail(q)
        /\ IF ~old.modified THEN chunks' = cs /\ disk' = ds
           ELSE IF old.idx > Len(cs)
             THEN chunks' = cs /\ disk' = [ds EXCEPT ![old.key] = old.data]
             ELSE /\ chunks' = [cs EXCEPT ![old.idx].tag = old.data]
                  /\ disk' = [ds EXCEPT ![cs[old.idx].uuid] = old.data]
    BY <1>2 DEF Evict
  <2> HIDE DEF old
  <2>4. old.key \in 1..NumUuids /\ old.idx \in Index /\ old.data \in Bytes /\ old.modified \in BOOLEAN
    BY <2>2 DEF Entry
  <2>5. cache' \in Seq(Entry) /\ Len(cache') <= MaxCache /\ UniqueKeys(cache)'
    <3>1. Len(Tail(q)) <= MaxCache
      BY <2>2, Sizes
    <3> QED  BY <2>2, <2>3, <3>1 DEF UniqueKeys
  <2>6. Entries' = ToSet(q) \ {old}
    BY <2>2, <2>3 DEF Entries
  <2>7. Len(cs) \in Nat /\ DOMAIN cs = 1..Len(cs) /\ \A i \in 1..Len(cs) : cs[i] \in Chunk
    OBVIOUS
  <2>8. (old.idx > Len(cs)) <=> old.idx \notin DOMAIN cs
    BY <2>4, <2>7 DEF Index
  <2>9. CASE ~old.modified
    BY <2>2, <2>3, <2>5, <2>6, <2>9 DEF Evicted
  <2>10. CASE old.modified /\ old.idx > Len(cs)
    <3>1. chunks' = cs /\ disk' = [ds EXCEPT ![old.key] = old.data]
      BY <2>3, <2>10
    <3>2. disk' \in Files
      BY <2>4, <3>1 DEF Files
    <3> QED  BY <2>2, <2>3, <2>5, <2>6, <2>8, <2>10, <3>1, <3>2 DEF Evicted
  <2>11. CASE old.modified /\ ~(old.idx > Len(cs))
    <3>1. /\ chunks' = [cs EXCEPT ![old.idx].tag = old.data]
          /\ disk' = [ds EXCEPT ![cs[old.idx].uuid] = old.data]
      BY <2>3, <2>11
    <3>2. old.idx \in 1..Len(cs) /\ cs[old.idx] \in Chunk
      BY <2>7, <2>8, <2>11
    <3>3. cs[old.idx].uuid \in 0..NumUuids
      BY <3>2 DEF Chunk
    <3>4. disk' \in Files
      BY <2>4, <3>1, <3>3 DEF Files
    <3>5. [cs[old.idx] EXCEPT !.tag = old.data] \in Chunk
      BY <2>4, <3>2 DEF Chunk
    <3>6. chunks' = [cs EXCEPT ![old.idx] = [cs[old.idx] EXCEPT !.tag = old.data]]
      BY <3>1
    <3>7. chunks' \in Seq(Chunk) /\ Len(chunks') = Len(cs)
      BY <3>2, <3>5, <3>6, <2>7
    <3>8. \A i \in DOMAIN cs : chunks'[i].uuid = cs[i].uuid
      BY <2>7, <3>2, <3>6 DEF Chunk
    <3> QED  BY <2>2, <2>3, <2>5, <2>6, <2>8, <2>11, <3>1, <3>4, <3>7, <3>8 DEF Evicted
  <2> QED  BY <2>4, <2>9, <2>10, <2>11
<1> QED  BY <1>1, <1>2

\* An eviction leaves every chunk readable that was, for it saves data and
\* tag together, and no entry is saved over another chunk than its own while
\* its own is there.
LEMMA EvictGood ==
  ASSUME NEW es, es \subseteq Entry, NEW cs \in Seq(Chunk), NEW ds \in Files,
         Distinct(cs), Placed(es, cs), Evicted(es, cs, ds),
         \A i \in DOMAIN cs : chunks'[i].uuid = cs[i].uuid,
         DOMAIN chunks' = DOMAIN cs
  PROVE  /\ Distinct(chunks') /\ Placed(Entries', chunks') /\ Entries' \subseteq es
         /\ AllGood(es, cs, ds) => AllGood(Entries', chunks', disk')
<1>1. Entries' \subseteq es
  BY DEF Evicted
<1>2. Distinct(chunks') /\ Placed(Entries', chunks')
  BY <1>1 DEF Distinct, Placed
<1> SUFFICES ASSUME AllGood(es, cs, ds), NEW i \in DOMAIN cs, cs[i].uuid # Hole
             PROVE  Good(Entries', chunks', disk', i)
  BY <1>1, <1>2 DEF AllGood
<1>3. Good(es, cs, ds, i)
  BY DEF AllGood
<1>4. \A j \in DOMAIN cs : cs[j] \in Chunk
  OBVIOUS
<1>5. cs[i].uuid \in 0..NumUuids
  BY <1>4 DEF Chunk
<1>6. CASE Entries' = es /\ chunks' = cs /\ disk' = ds
  BY <1>3, <1>6 DEF Good
<1>7. ASSUME NEW old \in es, old.live, Entries' = es \ {old}, ~old.modified,
             chunks' = cs, disk' = ds
      PROVE  Good(Entries', chunks', disk', i)
  BY <1>3, <1>7 DEF Good
<1>8. ASSUME NEW old \in es, old.live, Entries' = es \ {old}, old.modified,
             old.idx \notin DOMAIN cs, chunks' = cs,
             disk' = [ds EXCEPT ![old.key] = old.data]
      PROVE  Good(Entries', chunks', disk', i)
  <2>1. cs[i].uuid # old.key
    BY <1>8 DEF Placed
  <2>2. disk'[cs[i].uuid] = ds[cs[i].uuid]
    BY <1>5, <1>8, <2>1 DEF Files
  <2> QED  BY <1>3, <1>8, <2>1, <2>2 DEF Good
<1>9. ASSUME NEW old \in es, old.live, Entries' = es \ {old}, old.modified,
             old.idx \in DOMAIN cs,
             chunks' = [cs EXCEPT ![old.idx].tag = old.data],
             disk' = [ds EXCEPT ![cs[old.idx].uuid] = old.data]
      PROVE  Good(Entries', chunks', disk', i)
  <2>1. cs[old.idx] \in Chunk /\ cs[old.idx].uuid \in 0..NumUuids
    BY <1>4, <1>9 DEF Chunk
  <2>2. CASE i = old.idx
    <3>1. chunks'[i].tag = old.data /\ chunks'[i].uuid = cs[i].uuid
      BY <1>9, <2>1, <2>2 DEF Chunk
    <3>2. disk'[cs[i].uuid] = old.data
      BY <1>9, <2>1, <2>2 DEF Files
    <3>3. old.data # Lost
      BY BytesNotLost DEF Entry
    <3> QED  BY <3>1, <3>2, <3>3 DEF Good
  <2>3. CASE i # old.idx
    <3>1. cs[i].uuid # cs[old.idx].uuid
      BY <1>9, <2>3 DEF Distinct
    <3>2. disk'[cs[i].uuid] = ds[cs[i].uuid] /\ chunks'[i] = cs[i]
      BY <1>5, <1>9, <2>1, <2>3, <3>1 DEF Files
    <3>3. cs[i].uuid # old.key
      BY <1>9, <2>3 DEF Placed
    <3> QED  BY <1>3, <1>9, <3>2, <3>3 DEF Good
  <2> QED  BY <2>2, <2>3
<1> QED  BY <1>6, <1>7, <1>8, <1>9 DEF Evicted

-----------------------------------------------------------------------------
(* Data of chunks.                                                         *)

\* There is a uuid left: each one in use is that of a chunk in memory, of one
\* in the storage, or of an entry.
LEMMA FreshFacts ==
  ASSUME Typed
  PROVE  Fresh \in 1..NumUuids /\ Fresh \notin InUse
<1> DEFINE n == 2 * MaxChunks + MaxCache
           G == [p \in 1..n |->
                  IF p <= MaxChunks THEN chunks[p].uuid
                  ELSE IF p <= 2 * MaxChunks THEN stored.chunks[p - MaxChunks].uuid
                  ELSE cache[p - 2 * MaxChunks].key]
<1>1. /\ MaxChunks \in Nat /\ MaxCache \in Nat /\ n \in Nat /\ NumUuids \in Nat
      /\ NumUuids >= n + 1
  BY Sizes
<1>2. /\ DOMAIN chunks = 1..Len(chunks) /\ Len(chunks) \in Nat /\ Len(chunks) <= MaxChunks
      /\ DOMAIN stored.chunks = 1..Len(stored.chunks)
      /\ Len(stored.chunks) \in Nat /\ Len(stored.chunks) <= MaxChunks
      /\ DOMAIN cache = 1..Len(cache) /\ Len(cache) \in Nat /\ Len(cache) <= MaxCache
  BY DEF Typed, TypeOK
<1>3. ASSUME NEW u \in InUse
      PROVE  \E p \in 1..n : G[p] = u
  <2>1. CASE \E i \in DOMAIN chunks : u = chunks[i].uuid
    <3>1. PICK i \in DOMAIN chunks : u = chunks[i].uuid
      BY <2>1
    <3>2. i \in 1..n /\ i <= MaxChunks
      BY <1>1, <1>2
    <3>3. G[i] = u
      BY <3>1, <3>2
    <3> QED  BY <3>2, <3>3
  <2>2. CASE \E i \in DOMAIN stored.chunks : u = stored.chunks[i].uuid
    <3>1. PICK i \in DOMAIN stored.chunks : u = stored.chunks[i].uuid
      BY <2>2
    <3>2. /\ i + MaxChunks \in 1..n /\ ~(i + MaxChunks <= MaxChunks)
          /\ i + MaxChunks <= 2 * MaxChunks /\ (i + MaxChunks) - MaxChunks = i
      BY <1>1, <1>2
    <3>3. G[i + MaxChunks] = u
      BY <3>1, <3>2
    <3> QED  BY <3>2, <3>3
  <2>3. CASE \E i \in DOMAIN cache : u = cache[i].key
    <3>1. PICK i \in DOMAIN cache : u = cache[i].key
      BY <2>3
    <3>2. /\ i + 2 * MaxChunks \in 1..n /\ ~(i + 2 * MaxChunks <= MaxChunks)
          /\ ~(i + 2 * MaxChunks <= 2 * MaxChunks) /\ (i + 2 * MaxChunks) - 2 * MaxChunks = i
      BY <1>1, <1>2
    <3>3. G[i + 2 * MaxChunks] = u
      BY <3>1, <3>2
    <3> QED  BY <3>2, <3>3
  <2> QED  BY <2>1, <2>2, <2>3 DEF InUse
<1> HIDE DEF G, n
<1>4. ASSUME 1..NumUuids \subseteq InUse
      PROVE  FALSE
  <2> DEFINE f == [u \in 1..NumUuids |-> CHOOSE p \in 1..n : G[p] = u]
  <2>1. \A u \in 1..NumUuids : f[u] \in 1..n /\ G[f[u]] = u
    BY <1>3, <1>4
  <2>2. f \in [1..NumUuids -> 1..n]
    BY <2>1
  <2> HIDE DEF f
  <2>3. /\ IsFiniteSet(1..NumUuids) /\ Cardinality(1..NumUuids) = NumUuids
        /\ IsFiniteSet(1..n) /\ Cardinality(1..n) = n
    <3>1. \A k \in Nat : IsFiniteSet(1..k) /\ Cardinality(1..k) = k
      <4> TAKE k \in Nat
      <4>1. IsFiniteSet(1..k) /\ Cardinality(1..k) = IF 1 > k THEN 0 ELSE k - 1 + 1
        BY FS_Interval
      <4> QED  BY <4>1
    <3> QED  BY <1>1, <3>1
  <2>4. n < NumUuids
    BY <1>1
  <2>5. \E x, y \in 1..NumUuids : x # y /\ f[x] = f[y]
    BY <2>2, <2>3, <2>4, FS_PigeonHole
  <2> QED  BY <2>1, <2>5
<1> QED  BY <1>4 DEF Fresh

\* Whatever the cache does, the bytes of a write patch bytes.
LEMMA PatchType ==
  ASSUME Typed, NEW d \in Bytes
  PROVE  Patch(d) \in Bytes
BY DEF Typed, Jobs, Patch, Bytes

LEMMA ZerosType == Zeros \in Bytes
BY Sizes DEF Zeros, Bytes

\* The chunk table with room for n chunks.
LEMMA ResizedFacts ==
  ASSUME TypeOK, NEW n \in Nat
  PROVE  /\ Resized(n) \in Seq(Chunk) /\ Len(Resized(n)) = NatMax(Len(chunks), n)
         /\ DOMAIN Resized(n) = 1..NatMax(Len(chunks), n)
         /\ DOMAIN chunks \subseteq DOMAIN Resized(n)
         /\ \A i \in DOMAIN Resized(n) :
              Resized(n)[i] = IF i \in DOMAIN chunks THEN chunks[i] ELSE NewChunk
<1> DEFINE m == NatMax(Len(chunks), n)
<1>1. /\ chunks \in Seq(Chunk) /\ Len(chunks) \in Nat /\ DOMAIN chunks = 1..Len(chunks)
      /\ \A i \in 1..Len(chunks) : chunks[i] \in Chunk
  BY DEF TypeOK
<1>2. m \in Nat /\ Len(chunks) <= m
  BY <1>1 DEF NatMax
<1>3. NewChunk \in Chunk
  BY Sizes DEF NewChunk, Chunk, Hole
<1>4. Resized(n) = [i \in 1..m |-> IF i <= Len(chunks) THEN chunks[i] ELSE NewChunk]
  BY DEF Resized
<1> HIDE DEF m
<1>5. \A i \in 1..m : (i <= Len(chunks)) <=> i \in DOMAIN chunks
  BY <1>1, <1>2
<1>6. Resized(n) \in [1..m -> Chunk]
  BY <1>1, <1>3, <1>4, <1>5
<1>7. Resized(n) \in Seq(Chunk) /\ Len(Resized(n)) = m
  BY <1>2, <1>6
<1> QED  BY <1>1, <1>2, <1>4, <1>5, <1>7 DEF m

-----------------------------------------------------------------------------
(* The invariant is inductive.                                             *)

\* A step that leaves files, table and cache alone.
LEMMA DataSame ==
  ASSUME Data, UNCHANGED <<chunks, cache, disk, stored, loaded, linked, saved>>,
         job.op # "trunc" \/ job'.op = "trunc"
  PROVE  Data'
BY DEF Data, Distinct, UniqueKeys, Placed, Entries, AllGood, Good, StoredChunk

\* NoJob is one.
LEMMA NoJobType == NoJob \in Jobs /\ NoJob.op = "none"
<1>1. 1 \in 1..(MaxChunks + 1)
  BY Sizes
<1>2. <<>> \in Seq(Chunk)
  OBVIOUS
<1> QED  BY <1>1, <1>2, Sizes DEF NoJob, Jobs, Ops

LEMMA BeginReadInv ==
  ASSUME IInv, NEW off \in 0..(C * MaxChunks - 1), NEW n \in 1..(C * MaxChunks), BeginRead(off, n)
  PROVE  IInv'
<1> DEFINE len == IF n > size - off THEN size - off ELSE n
           en == CeilDiv(off + len)
<1>1. /\ UNCHANGED <<loaded, size, chunks, cache, disk, stored, linked, user, writes,
                     saved, dirty, stale, removed>>
      /\ job.op = "none" /\ user # "closed" /\ off < size /\ en <= Len(chunks)
      /\ job' = [NoJob EXCEPT !.op = "read", !.idx = off \div C + 1, !.last = en]
  BY DEF BeginRead, Using, Ready, node, storage, ghosts
<1>2. /\ off \in Nat /\ n \in Nat \ {0} /\ size \in Nat /\ Len(chunks) \in Nat
      /\ Len(chunks) <= MaxChunks /\ MaxChunks \in Nat
  BY Sizes DEF IInv, Typed, TypeOK
<1>3. len \in Nat \ {0}
  BY <1>1, <1>2
<1> HIDE DEF len
<1>4. off \div C \in Nat /\ off \div C + 1 <= en
  BY <1>2, <1>3, BeginsBeforeEnd
<1>5. off + len \in Nat
  BY <1>2, <1>3
<1>6. en \in Nat
  BY <1>5, CeilDivFits
<1> HIDE DEF en
<1>7. off \div C + 1 \in 1..(MaxChunks + 1)
  BY <1>1, <1>2, <1>4, <1>6
<1>8. /\ job' \in Jobs /\ job'.op = "read" /\ job'.idx = off \div C + 1 /\ job'.last = en
  BY <1>1, <1>6, <1>7, NoJobType DEF NoJob, Jobs, Ops
<1>9. TypeOK'
  BY <1>1, <1>8 DEF IInv, Typed, TypeOK, Jobs, Ops
<1>10. Typed'
  BY <1>1, <1>2, <1>4, <1>6, <1>8, <1>9 DEF IInv, Typed
<1>11. Fits'
  BY <1>1, <1>8 DEF IInv, Fits, StoredLoads, CeilDiv
<1>12. Data'
  BY <1>1, DataSame DEF IInv
<1> QED  BY <1>10, <1>11, <1>12 DEF IInv

\* Chunks added to the table are holes.
LEMMA ExtendedData ==
  ASSUME IInv, job.op = "none", loaded, DOMAIN chunks \subseteq DOMAIN chunks',
         \A i \in DOMAIN chunks' :
           chunks'[i] = IF i \in DOMAIN chunks THEN chunks[i] ELSE NewChunk,
         UNCHANGED <<cache, disk, stored, loaded, linked, saved>>
  PROVE  Data'
<1>1. NewChunk.uuid = Hole
  BY DEF NewChunk
<1>2. Distinct(chunks)' /\ Placed(Entries, chunks)'
  <2>1. ASSUME NEW e \in Entries
        PROVE  e.key # Hole
    <3>1. e \in Entry
      BY EntryFacts DEF IInv, Typed, Data
    <3>2. e.key \in 1..NumUuids
      BY <3>1 DEF Entry
    <3> QED  BY <3>2, Sizes DEF Hole
  <2>2. Entries' = Entries
    BY DEF Entries
  <2> QED  BY <1>1, <2>1, <2>2 DEF IInv, Data, Distinct, Placed
<1>3. linked => AllGood(Entries, chunks, disk)
  BY DEF IInv, Data
<1>4. (loaded /\ linked => AllGood(Entries, chunks, disk))'
  BY <1>1, <1>3 DEF AllGood, Good, Entries
<1> QED  BY <1>2, <1>4 DEF IInv, Data, Distinct, UniqueKeys, Entries

LEMMA BeginWriteInv ==
  ASSUME IInv, NEW off \in 0..(C * MaxChunks - 1), NEW len \in 1..(C * MaxChunks),
         BeginWrite(off, len)
  PROVE  IInv'
<1> DEFINE en == CeilDiv(off + len)
<1>1. /\ UNCHANGED <<loaded, size, cache, disk, stored, linked, user,
                     saved, dirty, stale, removed>>
      /\ job.op = "none" /\ user # "closed" /\ off + len <= C * MaxChunks
      /\ writes < MaxWrites /\ writes' = writes + 1
      /\ chunks' = Resized(en)
      /\ job' = [op |-> "write", idx |-> off \div C + 1, last |-> en, off |-> off,
                 len |-> len, byte |-> writes + 1, prev |-> Len(chunks),
                 surplus |-> (size + C - 1) % C, table |-> <<>>]
  BY DEF BeginWrite, Using, Ready, storage, ghosts
<1>2. /\ off \in Nat /\ len \in Nat \ {0} /\ off + len \in Nat /\ size \in Nat /\ Len(chunks) \in Nat
      /\ Len(chunks) <= MaxChunks /\ MaxChunks \in Nat /\ C \in Nat \ {0}
      /\ C * MaxChunks \in Nat /\ MaxWrites \in Nat /\ writes \in Nat
  BY Sizes DEF IInv, Typed, TypeOK
<1>3. off \div C \in Nat /\ off \div C + 1 <= en
  BY <1>2, BeginsBeforeEnd
<1>4. en \in Nat /\ en <= MaxChunks /\ en = CeilDiv(off + len)
  BY <1>1, <1>2, CeilDivFits
<1> HIDE DEF en
<1>5. TypeOK
  BY DEF IInv, Typed
<1>6. /\ chunks' \in Seq(Chunk) /\ Len(chunks') = NatMax(Len(chunks), en)
      /\ DOMAIN chunks' = 1..NatMax(Len(chunks), en) /\ DOMAIN chunks \subseteq DOMAIN chunks'
      /\ \A i \in DOMAIN chunks' :
           chunks'[i] = IF i \in DOMAIN chunks THEN chunks[i] ELSE NewChunk
  BY <1>1, <1>4, <1>5, ResizedFacts
<1>7. en <= Len(chunks') /\ Len(chunks') <= MaxChunks
  BY <1>2, <1>4, <1>6 DEF NatMax
<1>8. (size + C - 1) % C \in Nat /\ writes + 1 \in 0..MaxWrites
      /\ off \div C + 1 \in 1..(MaxChunks + 1) /\ <<>> \in Seq(Chunk)
  <2>1. size + C - 1 \in Nat
    BY <1>2
  <2> QED  BY <1>1, <1>2, <1>3, <1>4, <2>1, DivFacts, SMTT(30)
<1>9. /\ job' \in Jobs /\ job'.op = "write" /\ job'.idx = off \div C + 1
      /\ job'.last = en /\ job'.prev = Len(chunks) /\ job'.off = off /\ job'.len = len
  BY <1>1, <1>2, <1>4, <1>8 DEF Jobs, Ops
<1>10. TypeOK'
  BY <1>1, <1>5, <1>6, <1>7, <1>8, <1>9 DEF TypeOK, Jobs, Ops
<1>11. Typed'
  <2>1. loaded' /\ stored' \in [size : 0..(C * MaxChunks), chunks : Seq(Chunk)]
        /\ Len(stored'.chunks) <= MaxChunks
    BY <1>1 DEF IInv, Typed
  <2>2. job'.idx <= job'.last + 1 /\ job'.last <= Len(chunks')
    BY <1>2, <1>3, <1>4, <1>7, <1>9
  <2> QED  BY <1>9, <1>10, <2>1, <2>2 DEF Typed
<1>12. Fits'
  <2>1. CeilDiv(size) = Len(chunks)
    BY <1>1 DEF IInv, Fits
  <2>2. CeilDiv(size)' = CeilDiv(size) /\ CeilDiv(job.off + job.len)' = en
    BY <1>1, <1>4, <1>9 DEF CeilDiv
  <2>3. StoredLoads'
    BY <1>1 DEF IInv, Fits, StoredLoads, CeilDiv
  <2> QED  BY <1>6, <1>9, <2>1, <2>2, <2>3 DEF Fits, NatMax
<1>13. Data'
  BY <1>1, <1>5, <1>6, ExtendedData DEF IInv, Typed
<1> QED  BY <1>11, <1>12, <1>13 DEF IInv

\* An eviction while an ecall works on the file.
LEMMA EvictStep ==
  ASSUME IInv, loaded, job.op # "trunc",
         NEW q \in Seq(Entry), Len(q) \in 1..(MaxCache + 1), UniqueKeys(q),
         NEW cs \in Seq(Chunk), NEW ds \in Files, Evict(q, cs, ds),
         Distinct(cs), Placed(ToSet(q), cs), linked => AllGood(ToSet(q), cs, ds),
         UNCHANGED <<loaded, stored, linked, saved>>
  PROVE  /\ Data' /\ cache' \in Seq(Entry) /\ Len(cache') <= MaxCache
         /\ chunks' \in Seq(Chunk) /\ Len(chunks') = Len(cs) /\ disk' \in Files
<1>1. /\ cache' \in Seq(Entry) /\ Len(cache') <= MaxCache /\ UniqueKeys(cache)'
      /\ Evicted(ToSet(q), cs, ds)
      /\ chunks' \in Seq(Chunk) /\ Len(chunks') = Len(cs) /\ disk' \in Files
      /\ \A i \in DOMAIN cs : chunks'[i].uuid = cs[i].uuid
  BY EvictFacts
<1>2. ToSet(q) \subseteq Entry /\ DOMAIN chunks' = DOMAIN cs
  BY <1>1 DEF ToSet
<1>3. /\ Distinct(chunks') /\ Placed(Entries', chunks')
      /\ AllGood(ToSet(q), cs, ds) => AllGood(Entries', chunks', disk')
  BY <1>1, <1>2, EvictGood
<1>4. linked' => AllGood(Entries, chunks, disk)'
  BY <1>3 DEF AllGood, Good
<1>5. Distinct(stored.chunks)' /\ loaded'
  BY DEF IInv, Data, Distinct
<1>6. Distinct(chunks)' /\ Placed(Entries, chunks)'
  BY <1>3 DEF Distinct, Placed
<1>7. Data'
  BY <1>1, <1>4, <1>5, <1>6 DEF Data
<1> QED  BY <1>1, <1>7

\* Where an ecall that reads, writes or flushes the file is.
LEMMA AtChunk ==
  ASSUME IInv, job.op \in {"read", "write", "trunc", "flush"}
  PROVE  /\ loaded /\ job \in Jobs /\ job.idx \in Nat \ {0} /\ job.last \in Nat
         /\ Len(chunks) \in Nat /\ DOMAIN chunks = 1..Len(chunks)
         /\ Len(chunks) <= MaxChunks /\ MaxChunks \in Nat
         /\ \A i \in DOMAIN chunks :
              chunks[i] \in Chunk /\ chunks[i].uuid \in 0..NumUuids /\ i \in Index
         /\ disk \in Files /\ chunks \in Seq(Chunk) /\ TypeOK /\ UniqueKeys(cache)
         /\ \A i \in 1..(MaxChunks + 1) : [job EXCEPT !.idx = i] \in Jobs
<1>1. TypeOK /\ job \in Jobs /\ loaded /\ UniqueKeys(cache) /\ chunks \in Seq(Chunk)
  <2>1. TypeOK /\ job \in Jobs /\ loaded
    BY DEF IInv, Typed
  <2>2. UniqueKeys(cache)
    BY DEF IInv, Data
  <2> QED  BY <2>1, <2>2 DEF TypeOK
<1>2. job.idx \in Nat \ {0} /\ job.last \in Nat /\ MaxChunks \in Nat
  BY <1>1, Sizes DEF Jobs
<1>3. \A i \in 1..(MaxChunks + 1) : [job EXCEPT !.idx = i] \in Jobs
  BY <1>1 DEF Jobs
<1>4. Len(chunks) \in Nat /\ DOMAIN chunks = 1..Len(chunks) /\ Len(chunks) <= MaxChunks
  BY <1>1 DEF TypeOK
<1>5. \A i \in DOMAIN chunks : chunks[i] \in Chunk /\ i \in Index
  BY <1>1, <1>2, <1>4 DEF Index
<1>6. \A i \in DOMAIN chunks : chunks[i].uuid \in 0..NumUuids
  BY <1>5 DEF Chunk
<1>7. disk \in Files
  BY <1>1 DEF TypeOK, Files
<1> QED  BY <1>1, <1>2, <1>3, <1>4, <1>5, <1>6, <1>7

LEMMA ReadChunkInv ==
  ASSUME IInv, ReadChunk
  PROVE  IInv'
<1> DEFINE i == job.idx
           u == chunks[i].uuid
           e == EntryOf(u)
           fetched == [key |-> u, idx |-> i, data |-> disk[u], modified |-> FALSE,
                       live |-> TRUE]
<1>1. /\ job.op = "read"
      /\ UNCHANGED <<loaded, size, stored, linked, user, writes, saved, dirty, stale, removed>>
      /\ i <= job.last /\ job.last <= Len(chunks)
  BY DEF ReadChunk, ghosts, IInv, Typed
<1>2. /\ loaded /\ job \in Jobs /\ job.idx \in Nat \ {0} /\ job.last \in Nat
      /\ Len(chunks) \in Nat /\ DOMAIN chunks = 1..Len(chunks)
      /\ Len(chunks) <= MaxChunks /\ MaxChunks \in Nat
      /\ \A j \in DOMAIN chunks :
           chunks[j] \in Chunk /\ chunks[j].uuid \in 0..NumUuids /\ j \in Index
      /\ disk \in Files /\ chunks \in Seq(Chunk) /\ TypeOK /\ UniqueKeys(cache)
      /\ \A j \in 1..(MaxChunks + 1) : [job EXCEPT !.idx = j] \in Jobs
  BY <1>1, AtChunk
<1>3. i \in DOMAIN chunks /\ i \in Index /\ u \in 0..NumUuids
  BY <1>1, <1>2
<1>4. /\ Distinct(chunks) /\ Placed(Entries, chunks)
      /\ linked => AllGood(Entries, chunks, disk)
  BY <1>1, <1>2 DEF IInv, Data
<1>5. /\ job' \in Jobs /\ (job' = NoJob \/ (job' = [job EXCEPT !.idx = i + 1] /\ i # job.last))
  <2>1. i + 1 \in 1..(MaxChunks + 1)
    BY <1>1, <1>2
  <2>2. job' = NoJob \/ job' = IF i = job.last THEN NoJob ELSE [job EXCEPT !.idx = i + 1]
    BY DEF ReadChunk
  <2>3. job' = NoJob \/ (job' = [job EXCEPT !.idx = i + 1] /\ i # job.last)
    BY <2>2
  <2> QED  BY <1>2, <2>1, <2>3, NoJobType
<1>6. /\ Data' /\ cache' \in Seq(Entry) /\ Len(cache') <= MaxCache
      /\ chunks' \in Seq(Chunk) /\ Len(chunks') = Len(chunks) /\ disk' \in Files
  <2>1. CASE UNCHANGED <<cache, chunks, disk>>
    <3>1. Data'
      BY <1>1, <2>1, DataSame DEF IInv
    <3> QED  BY <1>2, <2>1, <3>1 DEF TypeOK
  <2>2. CASE Cached(u) /\ e.live /\ Evict(Pushed(e), chunks, disk)
    <3>1. e \in Entry /\ e \in Entries /\ e.key = u
      BY <1>2, <2>2, CachedFacts
    <3>2. \A f \in Entries : f.key = u => f = e
      BY <1>2, EntryFacts
    <3> HIDE DEF e
    <3>3. /\ Pushed(e) \in Seq(Entry) /\ Len(Pushed(e)) \in 1..(MaxCache + 1)
          /\ UniqueKeys(Pushed(e))
          /\ ToSet(Pushed(e)) = {e} \cup {f \in Entries : f.key # e.key}
      BY <1>2, <3>1, PushedFacts
    <3>4. ToSet(Pushed(e)) = Entries
      BY <3>1, <3>2, <3>3
    <3> QED  BY <1>1, <1>2, <1>4, <2>2, <3>3, <3>4, EvictStep
  <2>3. CASE u # Hole /\ ~Cached(u) /\ Loadable(u, chunks[i].tag)
             /\ Evict(Pushed(fetched), chunks, disk)
    <3>1. disk[u] \in Bytes /\ disk[u] = chunks[i].tag /\ disk[u] # Lost
      BY <1>2, <1>3, <2>3 DEF Loadable, Files
    <3>2. fetched \in Entry
      BY <1>3, <2>3, <3>1, Sizes DEF Entry, Hole
    <3>3. \A f \in Entries : f.key # u
      BY <1>2, <2>3, EntryFacts
    <3>4. fetched.key = u /\ fetched.idx = i
      OBVIOUS
    <3> HIDE DEF fetched
    <3>5. /\ Pushed(fetched) \in Seq(Entry) /\ Len(Pushed(fetched)) \in 1..(MaxCache + 1)
          /\ UniqueKeys(Pushed(fetched))
          /\ ToSet(Pushed(fetched)) = {fetched} \cup {f \in Entries : f.key # fetched.key}
      BY <1>2, <3>2, PushedFacts
    <3>6. ToSet(Pushed(fetched)) = {fetched} \cup Entries
      BY <3>3, <3>4, <3>5
    <3> DEFINE es == {fetched} \cup Entries
    <3>7. Placed(es, chunks)
      BY <1>3, <1>4, <2>3, <3>4 DEF Placed, Distinct
    <3>8. ASSUME AllGood(Entries, chunks, disk) PROVE AllGood(es, chunks, disk)
      <4> SUFFICES ASSUME NEW j \in DOMAIN chunks, chunks[j].uuid # Hole
                   PROVE  Good(es, chunks, disk, j)
        BY DEF AllGood
      <4>1. CASE j = i
        BY <3>1, <4>1 DEF Good
      <4>2. CASE j # i
        <5>1. chunks[j].uuid # u
          BY <1>3, <1>4, <4>2 DEF Distinct
        <5>2. Good(Entries, chunks, disk, j)
          BY <3>8 DEF AllGood
        <5> QED  BY <3>4, <5>1, <5>2 DEF Good
      <4> QED  BY <4>1, <4>2
    <3> QED  BY <1>1, <1>2, <1>4, <2>3, <3>5, <3>6, <3>7, <3>8, EvictStep
  <2> QED  BY <2>1, <2>2, <2>3 DEF ReadChunk
<1>7. TypeOK'
  BY <1>1, <1>2, <1>5, <1>6 DEF TypeOK, Files, Jobs, Ops
<1>8. Typed'
  <2>1. CASE job' = NoJob
    <3>1. job'.op = "none"
      BY <2>1, NoJobType
    <3> QED  BY <1>1, <1>2, <1>5, <1>7, <3>1 DEF IInv, Typed
  <2>2. CASE job' = [job EXCEPT !.idx = i + 1] /\ i # job.last
    <3>1. job'.op = "read" /\ job'.idx = i + 1 /\ job'.last = job.last
      BY <1>1, <1>2, <2>2 DEF Jobs
    <3> QED  BY <1>1, <1>2, <1>5, <1>6, <1>7, <2>2, <3>1 DEF IInv, Typed
  <2> QED  BY <1>5, <2>1, <2>2
<1>9. Fits'
  <2>1. job'.op # "write"
    BY <1>1, <1>2, <1>5, NoJobType DEF Jobs
  <2> QED  BY <1>1, <1>6, <2>1 DEF IInv, Fits, StoredLoads, CeilDiv
<1> QED  BY <1>6, <1>8, <1>9 DEF IInv

\* A chunk is written: its entry is the newest of the cache, and not saved.
LEMMA WrittenEvicted ==
  ASSUME IInv, job.op = "write", NEW i \in DOMAIN chunks, NEW d \in Bytes,
         NEW u \in 1..NumUuids, NEW cs \in Seq(Chunk), NEW ds \in Files,
         DOMAIN cs = DOMAIN chunks, cs[i].uuid = u,
         \A j \in DOMAIN chunks \ {i} : cs[j] = chunks[j] /\ chunks[j].uuid # u,
         \A v \in 0..NumUuids : v # u => ds[v] = disk[v],
         Evict(Pushed([key |-> u, idx |-> i, data |-> Patch(d), modified |-> TRUE,
                       live |-> TRUE]), cs, ds),
         UNCHANGED <<loaded, stored, linked, saved>>
  PROVE  /\ Data' /\ cache' \in Seq(Entry) /\ Len(cache') <= MaxCache
         /\ chunks' \in Seq(Chunk) /\ Len(chunks') = Len(cs) /\ disk' \in Files
<1> DEFINE e == [key |-> u, idx |-> i, data |-> Patch(d), modified |-> TRUE, live |-> TRUE]
           es == {e} \cup {f \in Entries : f.key # u}
<1>1. /\ loaded /\ DOMAIN chunks = 1..Len(chunks) /\ UniqueKeys(cache) /\ TypeOK
      /\ \A j \in DOMAIN chunks : chunks[j].uuid \in 0..NumUuids /\ j \in Index
  BY AtChunk
<1>2. /\ Distinct(chunks) /\ Placed(Entries, chunks)
      /\ linked => AllGood(Entries, chunks, disk)
  BY <1>1 DEF IInv, Data
<1>3. Patch(d) \in Bytes
  BY PatchType DEF IInv
<1>4. e \in Entry
  BY <1>1, <1>3 DEF Entry
<1>5. e.key = u /\ e.idx = i /\ e.modified /\ e.live
  OBVIOUS
<1> HIDE DEF e
<1>6. Pushed(e) \in Seq(Entry) /\ Len(Pushed(e)) \in 1..(MaxCache + 1)
      /\ UniqueKeys(Pushed(e)) /\ ToSet(Pushed(e)) = es
  BY <1>1, <1>4, <1>5, PushedFacts
<1>7. Distinct(cs)
  BY <1>2 DEF Distinct
<1>8. Placed(es, cs)
  BY <1>2, <1>5 DEF Placed
<1>9. ASSUME AllGood(Entries, chunks, disk) PROVE AllGood(es, cs, ds)
  <2> SUFFICES ASSUME NEW j \in DOMAIN chunks, cs[j].uuid # Hole
               PROVE  Good(es, cs, ds, j)
    BY DEF AllGood
  <2>1. CASE j = i
    BY <1>5, <2>1 DEF Good
  <2>2. CASE j # i
    <3>1. cs[j] = chunks[j] /\ chunks[j].uuid # u
      BY <2>2
    <3>2. ds[cs[j].uuid] = disk[chunks[j].uuid]
      BY <1>1, <3>1
    <3>3. Good(Entries, chunks, disk, j)
      BY <1>9, <3>1 DEF AllGood
    <3> QED  BY <1>5, <3>1, <3>2, <3>3 DEF Good
  <2> QED  BY <2>1, <2>2
<1>10. Evict(Pushed(e), cs, ds)
  BY DEF e
<1> QED  BY <1>1, <1>6, <1>7, <1>8, <1>9, <1>10, <1>2, EvictStep

LEMMA WriteChunkInv ==
  ASSUME IInv, WriteChunk
  PROVE  IInv'
<1> DEFINE i == job.idx
           hole == chunks[i].uuid = Hole
           u == IF hole THEN Fresh ELSE chunks[i].uuid
           cs == [chunks EXCEPT ![i].uuid = u]
           ds == IF hole THEN [disk EXCEPT ![u] = Lost] ELSE disk
           e(d) == [key |-> u, idx |-> i, data |-> Patch(d), modified |-> TRUE, live |-> TRUE]
<1>1. /\ job.op = "write" /\ i <= job.last /\ job.last <= Len(chunks)
      /\ job' = [job EXCEPT !.idx = i + 1] /\ dirty' = dirty \cup {i}
      /\ UNCHANGED <<loaded, size, stored, linked, user, writes, saved, stale, removed>>
  BY DEF WriteChunk, IInv, Typed
<1>2. /\ loaded /\ job \in Jobs /\ job.idx \in Nat \ {0} /\ job.last \in Nat
      /\ Len(chunks) \in Nat /\ DOMAIN chunks = 1..Len(chunks)
      /\ Len(chunks) <= MaxChunks /\ MaxChunks \in Nat
      /\ \A j \in DOMAIN chunks :
           chunks[j] \in Chunk /\ chunks[j].uuid \in 0..NumUuids /\ j \in Index
      /\ disk \in Files /\ chunks \in Seq(Chunk) /\ TypeOK /\ UniqueKeys(cache)
      /\ \A j \in 1..(MaxChunks + 1) : [job EXCEPT !.idx = j] \in Jobs
  BY <1>1, AtChunk
<1>3. i \in DOMAIN chunks /\ i \in Index
  BY <1>1, <1>2
<1>4. Distinct(chunks)
  BY DEF IInv, Data
<1>5. u \in 1..NumUuids /\ \A j \in DOMAIN chunks \ {i} : chunks[j].uuid # u
  <2>1. CASE hole
    BY <1>3, <2>1, FreshFacts DEF IInv, InUse
  <2>2. CASE ~hole
    BY <1>2, <1>3, <1>4, <2>2, Sizes, SMTT(30) DEF Distinct, Hole
  <2> QED  BY <2>1, <2>2
<1> HIDE DEF u
<1>6. /\ cs \in Seq(Chunk) /\ Len(cs) = Len(chunks) /\ DOMAIN cs = DOMAIN chunks
      /\ cs[i].uuid = u /\ \A j \in DOMAIN chunks \ {i} : cs[j] = chunks[j]
  <2>1. [chunks[i] EXCEPT !.uuid = u] \in Chunk /\ [chunks[i] EXCEPT !.uuid = u].uuid = u
    <3>1. chunks[i] \in Chunk
      BY <1>2, <1>3
    <3>2. u \in 0..NumUuids
      BY <1>5
    <3> QED  BY <3>1, <3>2 DEF Chunk
  <2>2. cs = [chunks EXCEPT ![i] = [chunks[i] EXCEPT !.uuid = u]]
    OBVIOUS
  <2> QED  BY <1>2, <1>3, <2>1, <2>2
<1>7. ds \in Files /\ \A v \in 0..NumUuids : v # u => ds[v] = disk[v]
  BY <1>2, <1>5 DEF Files
<1> HIDE DEF cs, ds
<1>8. \E d \in Bytes : Evict(Pushed(e(d)), cs, ds)
  <2>1. Zeros \in Bytes
    BY ZerosType
  <2>2. CASE Evict(Pushed(e(Zeros)), cs, ds)
    BY <2>1, <2>2
  <2>3. CASE Cached(u) /\ Evict(Pushed(e(EntryOf(u).data)), cs, ds)
    <3>1. EntryOf(u).data \in Bytes
      BY <1>2, <2>3, CachedFacts DEF Entry
    <3> QED  BY <2>3, <3>1
  <2>4. CASE Evict(Pushed(e(IF disk[u] = Lost THEN Zeros ELSE disk[u])), cs, ds)
    <3>1. disk[u] \in Bytes \cup {Lost}
      BY <1>2, <1>5 DEF Files
    <3>2. (IF disk[u] = Lost THEN Zeros ELSE disk[u]) \in Bytes
      BY <2>1, <3>1
    <3> QED  BY <2>4, <3>2
  <2> QED  BY <2>2, <2>3, <2>4 DEF WriteChunk, u, cs, ds
<1>9. /\ Data' /\ cache' \in Seq(Entry) /\ Len(cache') <= MaxCache
      /\ chunks' \in Seq(Chunk) /\ Len(chunks') = Len(cs) /\ disk' \in Files
  <2>1. PICK d \in Bytes : Evict(Pushed(e(d)), cs, ds)
    BY <1>8
  <2> QED  BY <1>1, <1>3, <1>5, <1>6, <1>7, <2>1, WrittenEvicted
<1>10. /\ job' \in Jobs /\ job'.op = "write" /\ job'.idx = i + 1 /\ job'.last = job.last
       /\ job'.prev = job.prev /\ job'.off = job.off /\ job'.len = job.len
  <2>1. i + 1 \in 1..(MaxChunks + 1)
    BY <1>1, <1>2
  <2>2. job' \in Jobs
    BY <1>1, <1>2, <2>1
  <2> QED  BY <1>1, <1>2, <2>2 DEF Jobs
<1>11. TypeOK'
  BY <1>1, <1>2, <1>3, <1>6, <1>9, <1>10 DEF TypeOK, Files, Jobs, Ops
<1>12. Typed'
  BY <1>1, <1>2, <1>6, <1>9, <1>10, <1>11 DEF IInv, Typed
<1>13. Fits'
  BY <1>1, <1>6, <1>9, <1>10 DEF IInv, Fits, StoredLoads, CeilDiv
<1> QED  BY <1>9, <1>12, <1>13 DEF IInv

LEMMA EndWriteInv ==
  ASSUME IInv, EndWrite
  PROVE  IInv'
<1>1. /\ job.op = "write" /\ job.idx > job.last
      /\ size' = NatMax(size, job.off + job.len) /\ job' = NoJob
      /\ UNCHANGED <<loaded, chunks, cache, disk, stored, linked, user, writes,
                     saved, dirty, stale, removed>>
  BY DEF EndWrite, storage, ghosts
<1>2. /\ job \in Jobs /\ size \in Nat /\ Len(chunks) \in Nat /\ size <= C * MaxChunks
      /\ C * MaxChunks \in Nat /\ Len(chunks) <= MaxChunks /\ MaxChunks \in Nat
  BY Sizes DEF IInv, Typed, TypeOK
<1>3. job.off + job.len \in Nat
  BY <1>2 DEF Jobs
<1>4. /\ CeilDiv(size) = job.prev /\ job.last = CeilDiv(job.off + job.len)
      /\ Len(chunks) = NatMax(job.prev, job.last)
  BY <1>1 DEF IInv, Fits
<1>5. CeilDiv(size') = Len(chunks)
  BY <1>1, <1>2, <1>3, <1>4, CeilDivMax
<1>6. size' \in Nat
  BY <1>1, <1>2, <1>3 DEF NatMax
<1>7. size' \in 0..(C * MaxChunks)
  <2> HIDE DEF CeilDiv
  <2>1. CeilDiv(size') <= MaxChunks
    BY <1>2, <1>5
  <2> QED  BY <1>2, <1>6, <2>1, CeilDivFits
<1>8. Typed'
  BY <1>1, <1>7, NoJobType DEF IInv, Typed, TypeOK, Jobs, Ops
<1>9. Fits'
  <2>1. CeilDiv(size)' = CeilDiv(size')
    BY DEF CeilDiv
  <2> QED  BY <1>1, <1>5, <2>1, NoJobType DEF IInv, Fits, StoredLoads, CeilDiv
<1>10. Data'
  BY <1>1, DataSame DEF IInv
<1> QED  BY <1>8, <1>9, <1>10 DEF IInv

LEMMA FallocateInv ==
  ASSUME IInv, NEW off \in 0..(C * MaxChunks - 1), NEW len \in 1..(C * MaxChunks),
         Fallocate(off, len)
  PROVE  IInv'
<1> DEFINE n == CeilDiv(off + len)
<1>1. /\ job.op = "none" /\ user # "closed" /\ off + len <= C * MaxChunks
      /\ chunks' = Resized(n) /\ size' = NatMax(size, off + len)
      /\ UNCHANGED <<loaded, cache, disk, stored, linked, user, job, writes,
                     saved, dirty, stale, removed>>
  BY DEF Fallocate, Using, Ready, storage, ghosts
<1>2. /\ off + len \in Nat /\ size \in 0..(C * MaxChunks) /\ Len(chunks) \in Nat
      /\ Len(chunks) <= MaxChunks /\ MaxChunks \in Nat /\ C * MaxChunks \in Nat
  BY Sizes DEF IInv, Typed, TypeOK
<1>3. n \in Nat /\ n <= MaxChunks
  BY <1>1, <1>2, CeilDivFits
<1>4. CeilDiv(size') = NatMax(CeilDiv(size), n)
  BY <1>1, <1>2, CeilDivMax
<1>5. CeilDiv(size) = Len(chunks)
  BY <1>1 DEF IInv, Fits
<1> HIDE DEF n
<1>6. TypeOK /\ loaded
  BY <1>1 DEF IInv, Typed
<1>7. /\ chunks' \in Seq(Chunk) /\ Len(chunks') = NatMax(Len(chunks), n)
      /\ DOMAIN chunks' = 1..NatMax(Len(chunks), n) /\ DOMAIN chunks \subseteq DOMAIN chunks'
      /\ \A i \in DOMAIN chunks' :
           chunks'[i] = IF i \in DOMAIN chunks THEN chunks[i] ELSE NewChunk
  BY <1>1, <1>3, <1>6, ResizedFacts
<1>8. Len(chunks') <= MaxChunks /\ size' \in 0..(C * MaxChunks)
  BY <1>1, <1>2, <1>3, <1>7 DEF NatMax
<1>9. TypeOK'
  BY <1>1, <1>6, <1>7, <1>8 DEF TypeOK
<1>10. Typed'
  BY <1>1, <1>9 DEF IInv, Typed
<1>11. Fits'
  <2>1. CeilDiv(size)' = CeilDiv(size') /\ CeilDiv(stored.size)' = CeilDiv(stored.size)
    BY <1>1 DEF CeilDiv
  <2> QED  BY <1>1, <1>4, <1>5, <1>7, <2>1 DEF IInv, Fits, StoredLoads
<1>12. Data'
  BY <1>1, <1>6, <1>7, ExtendedData
<1> QED  BY <1>10, <1>11, <1>12 DEF IInv

LEMMA LookupInv ==
  ASSUME IInv, Lookup
  PROVE  IInv'
<1>1. /\ job.op = "none" /\ ~loaded /\ linked
      /\ CeilDiv(stored.size) = Len(stored.chunks)
      /\ loaded' = TRUE /\ size' = stored.size /\ chunks' = stored.chunks
      /\ UNCHANGED <<cache, disk, stored, linked, user, job, writes, saved, dirty, stale, removed>>
  BY DEF Lookup, Ready, storage, ghosts
<1>2. Typed'
  BY <1>1 DEF IInv, Typed, TypeOK
<1>3. Fits'
  BY <1>1 DEF IInv, Fits, StoredLoads, CeilDiv
<1>4. /\ \A e \in Entries : ~e.live
      /\ Distinct(stored.chunks) /\ UniqueKeys(cache)
      /\ \A i \in Index : saved.arr[i] = StoredChunk(stored.chunks, i)
  BY <1>1 DEF IInv, Data
<1>5. Entries' = Entries /\ Distinct(chunks') /\ Distinct(stored.chunks')
  BY <1>1, <1>4 DEF Entries, Distinct
<1>6. ASSUME NEW i \in DOMAIN stored.chunks, stored.chunks[i].uuid # Hole
      PROVE  Good(Entries, stored.chunks, disk, i)
  <2>1. /\ stored.chunks \in Seq(Chunk) /\ Len(stored.chunks) \in Nat
        /\ DOMAIN stored.chunks = 1..Len(stored.chunks) /\ Len(stored.chunks) <= MaxChunks
        /\ MaxChunks \in Nat
    BY Sizes DEF IInv, Typed
  <2>2. i \in Index /\ ~(i > Len(stored.chunks)) /\ i <= Len(stored.chunks)
    BY <2>1 DEF Index
  <2>3. saved.arr[i] = IF disk[stored.chunks[i].uuid] = stored.chunks[i].tag
                         THEN stored.chunks[i].tag ELSE Lost
    BY <1>4, <1>6, <2>2 DEF StoredChunk
  <2> QED  BY <1>4, <2>3 DEF Good
<1>7. (loaded /\ linked /\ job.op # "trunc" => AllGood(Entries, chunks, disk))'
  BY <1>1, <1>5, <1>6 DEF AllGood, Good
<1>8. Data'
  BY <1>1, <1>4, <1>5, <1>7 DEF Data, UniqueKeys, Placed, Distinct
<1> QED  BY <1>2, <1>3, <1>8 DEF IInv

\* What is left behind in the cache.
LEMMA LeftType ==
  ASSUME TypeOK
  PROVE  Left \subseteq Index \X Bytes
<1> SUFFICES ASSUME NEW p \in DOMAIN cache
             PROVE  <<cache[p].idx, cache[p].data>> \in Index \X Bytes
  BY DEF Left
<1>1. cache[p] \in Entry
  BY DEF TypeOK
<1> QED  BY <1>1 DEF Entry

LEMMA OpenInv ==
  ASSUME IInv, NEW trunc \in BOOLEAN, Open(trunc)
  PROVE  IInv'
<1>1. /\ job.op = "none" /\ loaded /\ user' = "open"
      /\ UNCHANGED <<loaded, size, chunks, cache, disk, stored, linked, writes, saved, removed>>
  BY DEF Open, Ready, node, storage
<1>2. \/ job' = job /\ dirty' = dirty /\ stale' = stale
      \/ /\ job' = [NoJob EXCEPT !.op = "trunc"]
         /\ dirty' = Index /\ stale' = stale \cup Left
  BY DEF Open
<1>3. TypeOK /\ job \in Jobs /\ Len(chunks) \in Nat
  BY DEF IInv, Typed, TypeOK
<1>4. CASE job' = job /\ dirty' = dirty /\ stale' = stale
  <2>1. Typed'
    BY <1>1, <1>4 DEF IInv, Typed, TypeOK
  <2>2. Fits'
    BY <1>1, <1>4 DEF IInv, Fits, StoredLoads, CeilDiv
  <2>3. Data'
    BY <1>1, DataSame DEF IInv
  <2> QED  BY <2>1, <2>2, <2>3 DEF IInv
<1>5. CASE /\ job' = [NoJob EXCEPT !.op = "trunc"]
           /\ dirty' = Index /\ stale' = stale \cup Left
  <2>1. job' \in Jobs /\ job'.op = "trunc" /\ job'.idx = 1
    BY <1>5, NoJobType DEF NoJob, Jobs, Ops
  <2>2. TypeOK'
    BY <1>1, <1>3, <1>5, <2>1, LeftType DEF TypeOK, Jobs, Ops
  <2>3. Typed'
    BY <1>1, <1>3, <2>1, <2>2 DEF IInv, Typed
  <2>4. Fits'
    BY <1>1, <2>1 DEF IInv, Fits, StoredLoads, CeilDiv
  <2>5. Data'
    BY <1>1, <2>1, DataSame DEF IInv
  <2> QED  BY <2>3, <2>4, <2>5 DEF IInv
<1> QED  BY <1>2, <1>4, <1>5

LEMMA TruncChunkInv ==
  ASSUME IInv, TruncChunk
  PROVE  IInv'
<1> DEFINE u == chunks[job.idx].uuid
<1>1. /\ job.op = "trunc" /\ job.idx <= Len(chunks)
      /\ disk' = IF u = Hole THEN disk ELSE [disk EXCEPT ![u] = Lost]
      /\ job' = [job EXCEPT !.idx = job.idx + 1]
      /\ UNCHANGED <<loaded, size, chunks, cache, stored, linked, user, writes,
                     saved, dirty, stale, removed>>
  BY DEF TruncChunk, node, ghosts
<1>2. /\ loaded /\ job \in Jobs /\ job.idx \in Nat \ {0}
      /\ Len(chunks) \in Nat /\ DOMAIN chunks = 1..Len(chunks)
      /\ Len(chunks) <= MaxChunks /\ MaxChunks \in Nat
      /\ disk \in Files
      /\ \A j \in 1..(MaxChunks + 1) : [job EXCEPT !.idx = j] \in Jobs
  BY <1>1, AtChunk
<1>3. disk' \in Files
  BY <1>1, <1>2 DEF Files
<1>4. job' \in Jobs /\ job'.op = "trunc" /\ job'.idx = job.idx + 1
  <2>1. job.idx + 1 \in 1..(MaxChunks + 1)
    BY <1>1, <1>2
  <2> QED  BY <1>1, <1>2, <2>1 DEF Jobs
<1>5. TypeOK'
  BY <1>1, <1>3, <1>4 DEF IInv, Typed, TypeOK, Files, Jobs, Ops
<1>6. Typed'
  BY <1>1, <1>2, <1>4, <1>5 DEF IInv, Typed
<1>7. Fits'
  BY <1>1, <1>4 DEF IInv, Fits, StoredLoads, CeilDiv
<1>8. Data'
  BY <1>1, <1>2, <1>4 DEF IInv, Data, Distinct, UniqueKeys, Placed, Entries
<1> QED  BY <1>6, <1>7, <1>8 DEF IInv

\* An empty table.
LEMMA EmptyTable ==
  /\ <<>> \in Seq(Chunk) /\ Len(<<>>) = 0 /\ DOMAIN <<>> = {}
  /\ CeilDiv(0) = 0 /\ 0 \in 0..(C * MaxChunks)
BY CeilDivZero, Sizes

LEMMA EndTruncInv ==
  ASSUME IInv, EndTrunc
  PROVE  IInv'
<1>1. /\ job.op = "trunc" /\ chunks' = <<>> /\ size' = 0 /\ job' = NoJob
      /\ UNCHANGED <<loaded, cache, disk, stored, linked, user, writes,
                     saved, dirty, stale, removed>>
  BY DEF EndTrunc, storage, ghosts
<1>2. /\ chunks' \in Seq(Chunk) /\ Len(chunks') = 0 /\ DOMAIN chunks' = {}
      /\ CeilDiv(size') = 0 /\ size' \in 0..(C * MaxChunks) /\ MaxChunks \in Nat
  BY <1>1, EmptyTable, Sizes
<1>3. TypeOK'
  <2>1. Len(chunks') <= MaxChunks
    BY <1>2
  <2>2. job'.op = "none" /\ job'.idx \in 1..(MaxChunks + 1)
    BY <1>1, NoJobType DEF Jobs
  <2>3. TypeOK
    BY DEF IInv, Typed
  <2> QED  BY <1>1, <1>2, <2>1, <2>2, <2>3 DEF TypeOK
<1>4. Typed'
  BY <1>1, <1>3, NoJobType DEF IInv, Typed
<1>5. Fits'
  <2>1. CeilDiv(size)' = CeilDiv(size') /\ CeilDiv(stored.size)' = CeilDiv(stored.size)
    BY <1>1 DEF CeilDiv
  <2> QED  BY <1>1, <1>2, <2>1, NoJobType DEF IInv, Fits, StoredLoads
<1>6. loaded
  BY <1>1 DEF IInv, Typed
<1>7. Data'
  BY <1>1, <1>2, <1>6 DEF IInv, Data, Distinct, UniqueKeys, Placed, Entries, AllGood
<1> QED  BY <1>4, <1>5, <1>7 DEF IInv

LEMMA BeginFlushInv ==
  ASSUME IInv, BeginFlush
  PROVE  IInv'
<1>1. /\ job.op = "none" /\ user = "open" /\ job' = [NoJob EXCEPT !.op = "flush"]
      /\ UNCHANGED <<loaded, size, chunks, cache, disk, stored, linked, user, writes,
                     saved, dirty, stale, removed>>
  BY DEF BeginFlush, Ready, node, storage, ghosts
<1>2. job' \in Jobs /\ job'.op = "flush" /\ job'.idx = 1
  BY <1>1, NoJobType DEF NoJob, Jobs, Ops
<1>3. Len(chunks) \in Nat
  BY DEF IInv, Typed, TypeOK
<1>4. TypeOK'
  BY <1>1, <1>2 DEF IInv, Typed, TypeOK, Jobs, Ops
<1>5. Typed'
  BY <1>1, <1>2, <1>3, <1>4 DEF IInv, Typed
<1>6. Fits'
  BY <1>1, <1>2 DEF IInv, Fits, StoredLoads, CeilDiv
<1>7. Data'
  BY <1>1, DataSame DEF IInv
<1> QED  BY <1>5, <1>6, <1>7 DEF IInv

\* A chunk is flushed: its entry goes, and is saved if it was modified.
LEMMA FlushChunkInv ==
  ASSUME IInv, FlushChunk
  PROVE  IInv'
<1> DEFINE i == job.idx
           u == chunks[i].uuid
           e == EntryOf(u)
           es == {f \in Entries : f.key # u}
<1>1. /\ job.op = "flush" /\ i <= Len(chunks) /\ job' = [job EXCEPT !.idx = i + 1]
      /\ UNCHANGED <<loaded, size, stored, linked, user, writes, saved, dirty, stale, removed>>
      /\ \/ ~Cached(u) /\ UNCHANGED <<cache, chunks, disk>>
         \/ /\ Cached(u) /\ ~e.modified /\ cache' = Without(u) /\ UNCHANGED <<chunks, disk>>
         \/ /\ Cached(u) /\ e.modified /\ cache' = Without(u)
            /\ chunks' = [chunks EXCEPT ![i].tag = e.data]
            /\ disk' = [disk EXCEPT ![u] = e.data]
  BY DEF FlushChunk, ghosts
<1>2. /\ loaded /\ job \in Jobs /\ job.idx \in Nat \ {0}
      /\ Len(chunks) \in Nat /\ DOMAIN chunks = 1..Len(chunks)
      /\ Len(chunks) <= MaxChunks /\ MaxChunks \in Nat
      /\ \A j \in DOMAIN chunks :
           chunks[j] \in Chunk /\ chunks[j].uuid \in 0..NumUuids /\ j \in Index
      /\ disk \in Files /\ chunks \in Seq(Chunk) /\ TypeOK /\ UniqueKeys(cache)
      /\ \A j \in 1..(MaxChunks + 1) : [job EXCEPT !.idx = j] \in Jobs
  BY <1>1, AtChunk
<1>3. i \in DOMAIN chunks /\ chunks[i] \in Chunk /\ u \in 0..NumUuids
  BY <1>1, <1>2
<1>4. /\ Without(u) \in Seq(Entry) /\ Len(Without(u)) <= Len(cache)
      /\ UniqueKeys(Without(u)) /\ ToSet(Without(u)) = es
  BY <1>2, WithoutFacts
<1>5. /\ Distinct(chunks) /\ Placed(Entries, chunks)
      /\ linked => AllGood(Entries, chunks, disk)
  BY <1>1, <1>2 DEF IInv, Data
<1>6. /\ Data' /\ cache' \in Seq(Entry) /\ Len(cache') <= MaxCache
      /\ chunks' \in Seq(Chunk) /\ Len(chunks') = Len(chunks) /\ disk' \in Files
  <2>1. CASE ~Cached(u) /\ UNCHANGED <<cache, chunks, disk>>
    <3>1. Data'
      BY <1>1, <2>1, DataSame DEF IInv
    <3> QED  BY <1>2, <2>1, <3>1 DEF TypeOK
  <2>2. CASE Cached(u) /\ cache' = Without(u)
    <3>1. e \in Entries /\ e \in Entry /\ e.key = u
      BY <1>2, <2>2, CachedFacts
    <3>2. \A f \in Entries : f.key = u => f = e
      BY <1>2, EntryFacts
    <3> HIDE DEF e
    <3>3. e.data \in Bytes /\ e.data # Lost
      BY <3>1, BytesNotLost DEF Entry
    <3>4. cache' \in Seq(Entry) /\ Len(cache') <= MaxCache /\ UniqueKeys(cache)' /\ Entries' = es
      <4>1. /\ Len(cache) \in Nat /\ Len(cache) <= MaxCache
            /\ Len(Without(u)) \in Nat /\ MaxCache \in Nat
        <5>1. cache \in Seq(Entry) /\ Len(cache) <= MaxCache
          BY <1>2 DEF TypeOK
        <5>2. Len(cache) \in Nat
          BY <5>1
        <5>3. Len(Without(u)) \in Nat
          BY <1>4
        <5> QED  BY <5>1, <5>2, <5>3, Sizes
      <4>2. Entries' = ToSet(Without(u)) /\ UniqueKeys(cache)'
        BY <1>4, <2>2 DEF Entries, UniqueKeys
      <4> QED  BY <1>4, <2>2, <4>1, <4>2
    <3>5. /\ chunks' \in Seq(Chunk) /\ Len(chunks') = Len(chunks) /\ disk' \in Files
          /\ DOMAIN chunks' = DOMAIN chunks
          /\ \A j \in DOMAIN chunks : chunks'[j].uuid = chunks[j].uuid
          /\ \A j \in DOMAIN chunks \ {i} : chunks'[j] = chunks[j]
          /\ \A v \in 0..NumUuids : v # u => disk'[v] = disk[v]
      <4>1. CASE UNCHANGED <<chunks, disk>>
        BY <1>2, <4>1
      <4>2. CASE /\ chunks' = [chunks EXCEPT ![i].tag = e.data]
                 /\ disk' = [disk EXCEPT ![u] = e.data]
        <5>1. [chunks[i] EXCEPT !.tag = e.data] \in Chunk
              /\ [chunks[i] EXCEPT !.tag = e.data].uuid = u
          BY <1>3, <3>3 DEF Chunk
        <5>2. chunks' = [chunks EXCEPT ![i] = [chunks[i] EXCEPT !.tag = e.data]]
          BY <4>2
        <5>3. chunks' \in Seq(Chunk) /\ Len(chunks') = Len(chunks) /\ DOMAIN chunks' = DOMAIN chunks
          BY <1>2, <1>3, <5>1, <5>2
        <5>4. disk' \in Files /\ \A v \in 0..NumUuids : v # u => disk'[v] = disk[v]
          BY <1>2, <1>3, <3>3, <4>2 DEF Files
        <5> QED  BY <1>2, <1>3, <5>1, <5>2, <5>3, <5>4
      <4> QED  BY <1>1, <2>2, <4>1, <4>2 DEF e
    <3>6. Distinct(chunks)' /\ Placed(Entries, chunks)'
      BY <1>5, <3>4, <3>5 DEF Distinct, Placed
    <3>7. ASSUME AllGood(Entries, chunks, disk), NEW j \in DOMAIN chunks, chunks[j].uuid # Hole
          PROVE  Good(es, chunks', disk', j)
      <4>1. Good(Entries, chunks, disk, j)
        BY <3>7 DEF AllGood
      <4>2. CASE j # i
        <5>1. chunks[j].uuid # u
          BY <1>3, <1>5, <3>7, <4>2 DEF Distinct
        <5>2. disk'[chunks[j].uuid] = disk[chunks[j].uuid] /\ chunks'[j] = chunks[j]
          BY <1>2, <3>5, <4>2, <5>1
        <5> QED  BY <4>1, <5>1, <5>2 DEF Good
      <4>3. CASE j = i /\ ~e.modified /\ UNCHANGED <<chunks, disk>>
        BY <3>2, <4>1, <4>3 DEF Good
      <4>4. CASE /\ j = i /\ chunks' = [chunks EXCEPT ![i].tag = e.data]
                 /\ disk' = [disk EXCEPT ![u] = e.data]
        <5>1. chunks'[i].tag = e.data /\ chunks'[i].uuid = u
          BY <1>2, <1>3, <4>4 DEF Chunk
        <5>2. disk'[u] = e.data
          BY <1>2, <1>3, <4>4 DEF Files
        <5> QED  BY <3>3, <4>4, <5>1, <5>2 DEF Good
      <4> QED  BY <1>1, <2>2, <4>2, <4>3, <4>4 DEF e
    <3>8. (linked => AllGood(Entries, chunks, disk))'
      BY <1>1, <1>5, <3>4, <3>5, <3>7 DEF AllGood, Good
    <3>9. Data'
      BY <1>1, <1>2, <3>4, <3>6, <3>8 DEF IInv, Data, Distinct
    <3> QED  BY <3>4, <3>5, <3>9
  <2> QED  BY <1>1, <2>1, <2>2
<1>7. job' \in Jobs /\ job'.op = "flush" /\ job'.idx = i + 1
  <2>1. i + 1 \in 1..(MaxChunks + 1)
    BY <1>1, <1>2
  <2> QED  BY <1>1, <1>2, <2>1 DEF Jobs
<1>8. TypeOK'
  BY <1>1, <1>2, <1>6, <1>7 DEF TypeOK, Files, Jobs, Ops
<1>9. Typed'
  BY <1>1, <1>2, <1>6, <1>7, <1>8 DEF IInv, Typed
<1>10. Fits'
  BY <1>1, <1>6, <1>7 DEF IInv, Fits, StoredLoads, CeilDiv
<1> QED  BY <1>6, <1>9, <1>10 DEF IInv

LEMMA EndFlushInv ==
  ASSUME IInv, EndFlush
  PROVE  IInv'
<1>1. /\ job.op = "flush" /\ job.idx > Len(chunks)
      /\ stored' = [size |-> size, chunks |-> chunks] /\ job' = NoJob
      /\ user' \in {"open", "mapped", "closed"}
      /\ saved' = [arr |-> View, size |-> size] /\ dirty' = {}
      /\ UNCHANGED <<loaded, size, chunks, cache, disk, linked, writes, stale, removed>>
  BY DEF EndFlush, node
<1>2. /\ loaded /\ Len(chunks) \in Nat /\ DOMAIN chunks = 1..Len(chunks)
      /\ Len(chunks) <= MaxChunks /\ TypeOK /\ UniqueKeys(cache)
      /\ \A i \in DOMAIN chunks :
           chunks[i] \in Chunk /\ chunks[i].uuid \in 0..NumUuids /\ i \in Index
  BY <1>1, AtChunk
<1>3. stored'.size = size /\ stored'.chunks = chunks
      /\ stored' \in [size : 0..(C * MaxChunks), chunks : Seq(Chunk)]
  BY <1>1, <1>2 DEF TypeOK
<1>4. TypeOK'
  <2>1. job'.op = "none" /\ job'.idx \in 1..(MaxChunks + 1)
    BY <1>1, NoJobType DEF Jobs
  <2>2. dirty' \cup removed' \subseteq Index
    BY <1>1, <1>2 DEF TypeOK
  <2> QED  BY <1>1, <1>2, <1>3, <2>1, <2>2 DEF TypeOK
<1>5. Typed'
  BY <1>1, <1>2, <1>3, <1>4, NoJobType DEF IInv, Typed
<1>6. Fits'
  <2>1. CeilDiv(size) = Len(chunks)
    BY <1>1 DEF IInv, Fits
  <2>2. CeilDiv(size)' = CeilDiv(size) /\ CeilDiv(stored.size)' = CeilDiv(size)
    BY <1>1, <1>3 DEF CeilDiv
  <2> QED  BY <1>1, <1>3, <2>1, <2>2, NoJobType DEF Fits, StoredLoads
<1>7. ASSUME NEW i \in DOMAIN chunks, chunks[i].uuid # Hole, Good(Entries, chunks, disk, i)
      PROVE  Good(Entries, chunks, disk, i)'
  <2>1. i \in Index /\ i <= Len(chunks) /\ ~(i > Len(chunks))
    BY <1>2
  <2>2. CASE disk[chunks[i].uuid] = chunks[i].tag /\ chunks[i].tag # Lost
    BY <1>1, <2>2 DEF Good
  <2>3. CASE \E e \in Entries : e.key = chunks[i].uuid /\ e.live /\ e.modified
    BY <1>1, <2>3 DEF Good, Entries
  <2>4. CASE /\ ~(disk[chunks[i].uuid] = chunks[i].tag /\ chunks[i].tag # Lost)
             /\ \A e \in Entries : e.key = chunks[i].uuid => ~e.live
    <3>1. ~(Cached(chunks[i].uuid) /\ EntryOf(chunks[i].uuid).live)
      BY <1>2, <2>4, CachedFacts
    <3>2. View[i] = StoredChunk(chunks, i)
      BY <1>1, <1>2, <2>1, <3>1 DEF View
    <3>3. StoredChunk(chunks, i) = Lost
      BY <1>7, <2>1, <2>4 DEF StoredChunk
    <3>4. saved'.arr[i] = Lost
      BY <1>1, <3>2, <3>3
    <3> QED  BY <1>1, <2>4, <3>4 DEF Good, Entries
  <2> QED  BY <1>7, <2>2, <2>3, <2>4 DEF Good
<1>8. linked => AllGood(Entries, chunks, disk)
  BY <1>1, <1>2 DEF IInv, Data
<1>9. (linked => AllGood(Entries, chunks, disk))'
  BY <1>1, <1>7, <1>8 DEF AllGood
<1>10. Data'
  BY <1>1, <1>2, <1>3, <1>9 DEF IInv, Data, Distinct, UniqueKeys, Placed, Entries
<1> QED  BY <1>5, <1>6, <1>10 DEF IInv

LEMMA UnlinkInv ==
  ASSUME IInv, Unlink
  PROVE  IInv'
<1>1. /\ job.op = "none" /\ loaded /\ linked
      /\ linked' = FALSE /\ stored' = Empty
      /\ \/ job' = NoJob
         \/ stored.chunks # <<>> /\ job' = [NoJob EXCEPT !.op = "unlink", !.table = stored.chunks]
      /\ removed' = {i \in DOMAIN stored.chunks : stored.chunks[i].uuid # Hole}
      /\ UNCHANGED <<loaded, size, chunks, cache, disk, user, writes, dirty, stale>>
  BY DEF Unlink, Ready, node
<1>2. /\ stored.chunks \in Seq(Chunk) /\ Len(stored.chunks) \in Nat
      /\ DOMAIN stored.chunks = 1..Len(stored.chunks) /\ Len(stored.chunks) <= MaxChunks
      /\ MaxChunks \in Nat /\ TypeOK
  BY Sizes DEF IInv, Typed
<1>3. removed' \subseteq Index
  BY <1>1, <1>2 DEF Index
<1>4. /\ job' \in Jobs /\ job'.op \in {"none", "unlink"}
      /\ job'.op = "unlink" => job'.idx <= Len(job'.table) /\ Len(job'.table) <= MaxChunks
  <2>1. CASE job' = NoJob
    BY <2>1, NoJobType
  <2>2. CASE stored.chunks # <<>> /\ job' = [NoJob EXCEPT !.op = "unlink", !.table = stored.chunks]
    <3>1. job' \in Jobs /\ job'.op = "unlink" /\ job'.idx = 1 /\ job'.table = stored.chunks
      BY <1>2, <2>2, NoJobType DEF NoJob, Jobs, Ops
    <3> QED  BY <1>2, <2>2, <3>1
  <2> QED  BY <1>1, <2>1, <2>2
<1>5. /\ stored' \in [size : 0..(C * MaxChunks), chunks : Seq(Chunk)]
      /\ stored'.size = 0 /\ stored'.chunks = <<>> /\ CeilDiv(0) = 0
      /\ Len(stored'.chunks) = 0 /\ DOMAIN stored'.chunks = {}
  BY <1>1, EmptyTable DEF Empty
<1>6. TypeOK'
  BY <1>1, <1>2, <1>3, <1>4, <1>5 DEF TypeOK, Jobs, Ops
<1>7. Typed'
  <2>1. Len(stored'.chunks) <= MaxChunks
    BY <1>2, <1>5
  <2> QED  BY <1>1, <1>4, <1>5, <1>6, <2>1 DEF IInv, Typed
<1>8. Fits'
  <2>1. CeilDiv(size)' = CeilDiv(size) /\ CeilDiv(stored.size)' = CeilDiv(0)
    BY <1>1, <1>5 DEF CeilDiv
  <2> QED  BY <1>1, <1>4, <1>5, <2>1 DEF IInv, Fits, StoredLoads
<1>9. Data'
  BY <1>1, <1>5 DEF IInv, Data, Distinct, UniqueKeys, Placed, Entries
<1> QED  BY <1>7, <1>8, <1>9 DEF IInv

LEMMA UnlinkChunkInv ==
  ASSUME IInv, UnlinkChunk
  PROVE  IInv'
<1> DEFINE u == job.table[job.idx].uuid
<1>1. /\ job.op = "unlink" /\ job.idx <= Len(job.table) /\ Len(job.table) <= MaxChunks
      /\ ~linked /\ loaded
      /\ disk' = IF u = Hole THEN disk ELSE [disk EXCEPT ![u] = Lost]
      /\ \/ job' = NoJob
         \/ job' = [job EXCEPT !.idx = job.idx + 1] /\ job.idx # Len(job.table)
      /\ UNCHANGED <<loaded, size, chunks, cache, stored, linked, user, writes,
                     saved, dirty, stale, removed>>
  <2>1. job.op = "unlink"
    BY DEF UnlinkChunk
  <2> QED  BY <2>1 DEF UnlinkChunk, node, ghosts, IInv, Typed
<1>2. job \in Jobs /\ job.idx \in Nat \ {0} /\ Len(job.table) \in Nat /\ MaxChunks \in Nat
      /\ disk \in Files /\ TypeOK
  BY Sizes, SMTT(30) DEF IInv, Typed, TypeOK, Jobs, Files
<1>3. disk' \in Files
  BY <1>1, <1>2 DEF Files
<1>4. /\ job' \in Jobs /\ job'.op \in {"none", "unlink"}
      /\ job'.op = "unlink" => job'.idx <= Len(job'.table) /\ Len(job'.table) <= MaxChunks
  <2>1. CASE job' = NoJob
    BY <2>1, NoJobType
  <2>2. CASE job' = [job EXCEPT !.idx = job.idx + 1] /\ job.idx # Len(job.table)
    <3>1. job.idx + 1 \in 1..(MaxChunks + 1) /\ job.idx + 1 <= Len(job.table)
      BY <1>1, <1>2, <2>2
    <3>2. job' \in Jobs /\ job'.op = "unlink" /\ job'.idx = job.idx + 1 /\ job'.table = job.table
      BY <1>1, <1>2, <2>2, <3>1 DEF Jobs
    <3> QED  BY <1>1, <3>1, <3>2
  <2> QED  BY <1>1, <2>1, <2>2
<1>5. TypeOK'
  BY <1>1, <1>2, <1>3, <1>4 DEF TypeOK, Files, Jobs, Ops
<1>6. Typed'
  BY <1>1, <1>4, <1>5 DEF IInv, Typed
<1>7. Fits'
  BY <1>1, <1>4 DEF IInv, Fits, StoredLoads, CeilDiv
<1>8. Data'
  BY <1>1 DEF IInv, Data, Distinct, UniqueKeys, Placed, Entries
<1> QED  BY <1>6, <1>7, <1>8 DEF IInv

LEMMA UnmapInv ==
  ASSUME IInv, Unmap
  PROVE  IInv'
<1>1. /\ job.op = "none" /\ user = "mapped" /\ user' = "closed"
      /\ UNCHANGED <<loaded, size, chunks, cache, disk, stored, linked, job, writes,
                     saved, dirty, stale, removed>>
  BY DEF Unmap, Ready, node, storage, ghosts
<1>2. Typed'
  BY <1>1 DEF IInv, Typed, TypeOK
<1>3. Fits'
  BY <1>1 DEF IInv, Fits, StoredLoads, CeilDiv
<1>4. Data'
  BY <1>1, DataSame DEF IInv
<1> QED  BY <1>2, <1>3, <1>4 DEF IInv

\* The Filenode is gone, and what is left of its entries has expired.
LEMMA UnloadedInv ==
  ASSUME IInv, Unloaded, UNCHANGED <<disk, stored, linked, writes>>,
         cache' \in Seq(Entry), Len(cache') <= MaxCache, UniqueKeys(cache)',
         \A e \in Entries' : ~e.live, job' \in Jobs, job'.op = "none", user' = "closed",
         stale' \subseteq Index \X Bytes
  PROVE  IInv'
<1>1. /\ loaded' = FALSE /\ size' = 0 /\ chunks' = <<>> /\ dirty' = {} /\ removed' = {}
      /\ saved'.arr = [i \in Index |-> StoredChunk(stored.chunks, i)]
  BY DEF Unloaded
<1>2. /\ chunks' \in Seq(Chunk) /\ Len(chunks') = 0 /\ DOMAIN chunks' = {}
      /\ CeilDiv(0) = 0 /\ size' \in 0..(C * MaxChunks) /\ MaxChunks \in Nat
  BY <1>1, EmptyTable, Sizes
<1>3. TypeOK'
  <2>1. Len(chunks') <= MaxChunks
    BY <1>2
  <2>2. job'.op = "none" /\ job'.idx \in 1..(MaxChunks + 1)
    BY DEF Jobs
  <2>3. TypeOK
    BY DEF IInv, Typed
  <2> QED  BY <1>1, <1>2, <2>1, <2>2, <2>3 DEF TypeOK
<1>4. Typed'
  BY <1>1, <1>3 DEF IInv, Typed
<1>5. Fits'
  <2>1. CeilDiv(size)' = CeilDiv(0) /\ CeilDiv(stored.size)' = CeilDiv(stored.size)
    BY <1>1 DEF CeilDiv
  <2> QED  BY <1>1, <1>2, <2>1 DEF IInv, Fits, StoredLoads
<1>6. \A i \in Index : saved'.arr[i] = StoredChunk(stored.chunks, i)'
  BY <1>1 DEF StoredChunk
<1>7. Data'
  BY <1>1, <1>2, <1>6 DEF IInv, Data, Distinct, Placed
<1> QED  BY <1>4, <1>5, <1>7 DEF IInv

LEMMA ForgetInv ==
  ASSUME IInv, Forget
  PROVE  IInv'
<1>1. /\ job.op = "none" /\ user = "closed" /\ Unloaded
      /\ cache' = [p \in DOMAIN cache |-> [cache[p] EXCEPT !.live = FALSE]]
      /\ stale' = stale \cup Left
      /\ UNCHANGED <<disk, stored, linked, user, job, writes>>
  BY DEF Forget, Ready, storage
<1>2. TypeOK /\ UniqueKeys(cache) /\ job \in Jobs
  BY DEF IInv, Typed, Data
<1>3. /\ cache \in Seq(Entry) /\ Len(cache) \in Nat /\ DOMAIN cache = 1..Len(cache)
      /\ Len(cache) <= MaxCache /\ \A p \in 1..Len(cache) : cache[p] \in Entry
  BY <1>2 DEF TypeOK
<1>4. ASSUME NEW p \in 1..Len(cache)
      PROVE  cache'[p] \in Entry /\ cache'[p].key = cache[p].key /\ ~cache'[p].live
  BY <1>1, <1>3 DEF Entry
<1>5. cache' \in Seq(Entry) /\ Len(cache') = Len(cache) /\ DOMAIN cache' = 1..Len(cache)
  <2>1. cache' \in [1..Len(cache) -> Entry]
    BY <1>1, <1>3, <1>4
  <2> QED  BY <1>3, <2>1
<1>6. UniqueKeys(cache)' /\ \A e \in Entries' : ~e.live
  BY <1>2, <1>3, <1>4, <1>5 DEF UniqueKeys, Entries, ToSet
<1>7. stale' \subseteq Index \X Bytes
  BY <1>1, <1>2, LeftType DEF TypeOK
<1> QED  BY <1>1, <1>2, <1>3, <1>5, <1>6, <1>7, UnloadedInv

LEMMA CrashInv ==
  ASSUME IInv, Crash
  PROVE  IInv'
<1>1. /\ Unloaded /\ cache' = <<>> /\ stale' = {} /\ job' = NoJob /\ user' = "closed"
      /\ UNCHANGED <<disk, stored, linked, writes>>
  BY DEF Crash, storage
<1>2. /\ cache' \in Seq(Entry) /\ Len(cache') <= MaxCache /\ UniqueKeys(cache)'
      /\ \A e \in Entries' : ~e.live
  BY <1>1, Sizes DEF UniqueKeys, Entries, ToSet
<1> QED  BY <1>1, <1>2, NoJobType, UnloadedInv

LEMMA InitInv == Init => IInv
<1> SUFFICES ASSUME Init PROVE IInv
  OBVIOUS
<1>1. /\ loaded = TRUE /\ size = 0 /\ chunks = <<>> /\ cache = <<>>
      /\ disk = [u \in 0..NumUuids |-> Lost]
      /\ stored.size = 0 /\ stored.chunks = <<>> /\ linked = TRUE
      /\ stored = [size |-> 0, chunks |-> <<>>]
      /\ user = "open" /\ job = NoJob /\ writes = 0
      /\ dirty = {} /\ stale = {} /\ removed = {}
  BY DEF Init, Empty
<1>2. /\ chunks \in Seq(Chunk) /\ Len(chunks) = 0 /\ DOMAIN chunks = {}
      /\ CeilDiv(0) = 0 /\ 0 \in 0..(C * MaxChunks) /\ MaxChunks \in Nat
      /\ MaxCache \in Nat /\ MaxWrites \in Nat
  BY <1>1, EmptyTable, Sizes
<1>3. cache \in Seq(Entry) /\ Len(cache) = 0 /\ DOMAIN cache = {}
  BY <1>1
<1>4. Len(chunks) <= MaxChunks /\ Len(cache) <= MaxCache
  BY <1>2, <1>3
<1>5. job \in Jobs /\ job.op = "none" /\ job.idx \in 1..(MaxChunks + 1)
  BY <1>1, NoJobType DEF Jobs
<1>6. disk \in [0..NumUuids -> Bytes \cup {Lost}]
  BY <1>1
<1>7. TypeOK
  BY <1>1, <1>2, <1>3, <1>4, <1>5, <1>6 DEF TypeOK
<1>8. Typed
  BY <1>1, <1>2, <1>4, <1>5, <1>7 DEF Typed
<1>9. Fits
  <2> HIDE DEF CeilDiv
  <2> QED  BY <1>1, <1>2, <1>5 DEF Fits, StoredLoads
<1>10. Data
  BY <1>1, <1>2, <1>3 DEF Data, Distinct, UniqueKeys, Placed, Entries, ToSet, AllGood
<1> QED  BY <1>8, <1>9, <1>10 DEF IInv

LEMMA NextInv ==
  ASSUME IInv, [Next]_vars
  PROVE  IInv'
<1>1. CASE \E off \in 0..(C * MaxChunks - 1), len \in 1..(C * MaxChunks) :
             BeginRead(off, len) \/ BeginWrite(off, len) \/ Fallocate(off, len)
  BY <1>1, BeginReadInv, BeginWriteInv, FallocateInv
<1>2. CASE ReadChunk \/ WriteChunk \/ EndWrite
  BY <1>2, ReadChunkInv, WriteChunkInv, EndWriteInv
<1>3. CASE Lookup \/ Open(TRUE) \/ Open(FALSE) \/ TruncChunk \/ EndTrunc
  BY <1>3, LookupInv, OpenInv, TruncChunkInv, EndTruncInv
<1>4. CASE BeginFlush \/ FlushChunk \/ EndFlush
  BY <1>4, BeginFlushInv, FlushChunkInv, EndFlushInv
<1>5. CASE Unlink \/ UnlinkChunk \/ Unmap \/ Forget \/ Crash
  BY <1>5, UnlinkInv, UnlinkChunkInv, UnmapInv, ForgetInv, CrashInv
<1>6. CASE UNCHANGED vars
  <2>1. UNCHANGED <<loaded, size, chunks, cache, disk, stored, linked, user, job, writes,
                    saved, dirty, removed, stale>>
    BY <1>6 DEF vars, node, storage, ghosts
  <2>2. Typed'
    BY <2>1 DEF IInv, Typed, TypeOK
  <2>3. Fits'
    BY <2>1 DEF IInv, Fits, StoredLoads, CeilDiv
  <2>4. Data'
    BY <2>1, DataSame DEF IInv
  <2> QED  BY <2>2, <2>3, <2>4 DEF IInv
<1> QED  BY <1>1, <1>2, <1>3, <1>4, <1>5, <1>6 DEF Next

LEMMA Invariance == Spec => []IInv
<1>1. Init => IInv
  BY InitInv
<1>2. IInv /\ [Next]_vars => IInv'
  BY NextInv
<1> QED  BY <1>1, <1>2, PTL DEF Spec

-----------------------------------------------------------------------------
(* The theorems.                                                           *)

\* Every variable keeps its type: no ecall makes the cache longer than
\* MAX_CACHE_NUM, the table longer than the file, or works past its end.
THEOREM TypeCorrect == Spec => []TypeOK
<1>1. IInv => TypeOK
  BY DEF IInv, Typed
<1> QED  BY <1>1, Invariance, PTL

\* However many writes, truncations and crashes have come before, the
\* metadata file's chunk table is as long as its size asks for, so that
\* Filenode::load never rejects what save_metadata left behind.
THEOREM MetadataLoads == Spec => []StoredLoads
<1>1. IInv => StoredLoads
  BY DEF IInv, Fits
<1> QED  BY <1>1, Invariance, PTL

\* While a file is loaded and has its name, each chunk that a read cannot
\* get was one that the last flush, or the state found after a crash or a
\* forget, could not get either: neither an eviction nor a flush, even one
\* that saves the entry of a chunk that is no longer there, makes a chunk
\* unreadable.
THEOREM ChunksStayReadable == Spec => []ChunksReadable
<1>1. IInv => ChunksReadable
  <2> SUFFICES ASSUME IInv, loaded, linked, NEW i \in Index, View[i] = Lost
               PROVE  saved.arr[i] = Lost
    BY DEF ChunksReadable
  <2>1. /\ TypeOK /\ UniqueKeys(cache) /\ Len(chunks) \in Nat /\ DOMAIN chunks = 1..Len(chunks)
    <3>1. TypeOK
      BY DEF IInv, Typed
    <3>2. UniqueKeys(cache)
      BY DEF IInv, Data
    <3> QED  BY <3>1, <3>2 DEF TypeOK
  <2>2. Zeros # Lost
    BY ZerosType, BytesNotLost
  <2>3. job.op # "trunc"
    BY <2>2 DEF View
  <2> DEFINE u == chunks[i].uuid
             held == i <= Len(chunks) /\ Cached(u) /\ EntryOf(u).live
  <2>4. View[i] = IF held THEN EntryOf(u).data ELSE StoredChunk(chunks, i)
    BY <2>3 DEF View
  <2>5. ~held
    <3> SUFFICES ASSUME held PROVE FALSE
      OBVIOUS
    <3>1. EntryOf(u).data \in Bytes
      BY <2>1, CachedFacts DEF Entry
    <3> QED  BY <2>4, <3>1, BytesNotLost
  <2>6. StoredChunk(chunks, i) = Lost
    BY <2>4, <2>5
  <2>7. i \in Nat /\ i >= 1
    BY DEF Index
  <2>8. i \in DOMAIN chunks /\ u # Hole /\ (disk[u] # chunks[i].tag \/ chunks[i].tag = Lost)
    BY <2>1, <2>2, <2>6, <2>7 DEF StoredChunk
  <2>9. Good(Entries, chunks, disk, i)
    BY <2>3, <2>8 DEF IInv, Data, AllGood
  <2>10. \A e \in Entries : e.key = u => ~e.live
    BY <2>1, <2>5, <2>7, <2>8, EntryFacts
  <2> QED  BY <2>8, <2>9, <2>10 DEF Good
<1> QED  BY <1>1, Invariance, PTL

=============================================================================
