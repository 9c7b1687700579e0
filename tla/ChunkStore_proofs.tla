-------------------------- MODULE ChunkStore_proofs --------------------------
(***************************************************************************)
(* What ChunkStore guarantees for every number of threads, chunks and      *)
(* writes and every cache size, proved with TLAPS: its types, the          *)
(* agreement of the index and the list, and the bound on the list.         *)
(***************************************************************************)
EXTENDS ChunkStore, FiniteSetTheorems, SequenceTheorems, TLAPS

-----------------------------------------------------------------------------
(* The list and its index.                                                 *)

\* StoreIndexed of any list l and set of keys m.
Indexed(l, m) ==
  /\ m = {l[p].idx : p \in DOMAIN l}
  /\ \A p, q \in DOMAIN l : l[p].idx = l[q].idx => p = q

\* RemoveAt closes the gap at k and keeps every other element, in order.
LEMMA RemoveAtFacts ==
  ASSUME NEW S, NEW s \in Seq(S), NEW k \in DOMAIN s
  PROVE  /\ RemoveAt(s, k) \in Seq(S)
         /\ Len(RemoveAt(s, k)) = Len(s) - 1
         /\ \A p \in 1..(Len(s) - 1) :
              RemoveAt(s, k)[p] = IF p < k THEN s[p] ELSE s[p + 1]
<1> DEFINE n == Len(s)
           a == SubSeq(s, 1, k - 1)
           b == SubSeq(s, k + 1, Len(s))
<1>1. n \in Nat /\ k \in 1..n /\ DOMAIN s = 1..n
  OBVIOUS
<1>2. a \in Seq(S) /\ Len(a) = k - 1 /\ \A p \in 1..(k - 1) : a[p] = s[p]
  BY <1>1
<1>3. b \in Seq(S) /\ Len(b) = n - k /\ \A p \in 1..(n - k) : b[p] = s[k + p]
  BY <1>1
<1>4. RemoveAt(s, k) = a \o b
  BY DEF RemoveAt
<1>5. Len(a \o b) = n - 1 /\ a \o b \in Seq(S)
  BY <1>1, <1>2, <1>3
<1>6. ASSUME NEW p \in 1..(n - 1)
      PROVE  (a \o b)[p] = IF p < k THEN s[p] ELSE s[p + 1]
  <2> HIDE DEF a, b
  <2>0. p \in Nat /\ k \in Nat
    BY <1>1
  <2>1. CASE p < k
    <3>1. p \in 1..Len(a)
      BY <1>1, <1>2, <2>1
    <3>2. (a \o b)[p] = a[p]
      BY <1>2, <1>3, <3>1, ConcatProperties
    <3> QED  BY <1>1, <1>2, <2>1, <3>1, <3>2
  <2>2. CASE ~(p < k)
    <3>1. p - (k - 1) \in 1..(n - k)
      BY <1>1, <2>0, <2>2
    <3>2. p \in 1..(Len(a) + Len(b)) /\ ~(p <= Len(a))
      BY <1>1, <1>2, <1>3, <2>0, <2>2
    <3>3. (a \o b)[p] = b[p - Len(a)]
      BY <1>2, <1>3, <3>2, ConcatProperties
    <3>4. b[p - (k - 1)] = s[k + (p - (k - 1))] /\ k + (p - (k - 1)) = p + 1
      BY <1>1, <1>3, <2>0, <3>1
    <3> QED  BY <1>2, <2>2, <3>3, <3>4
  <2> QED  BY <2>1, <2>2
<1> QED  BY <1>4, <1>5, <1>6

\* Removing a node and its key keeps list and index in agreement.
LEMMA RemoveIndexed ==
  ASSUME NEW l \in Seq(Entry), NEW m, Indexed(l, m), NEW k \in DOMAIN l
  PROVE  /\ Indexed(RemoveAt(l, k), m \ {l[k].idx})
         /\ RemoveAt(l, k) \in Seq(Entry)
         /\ Len(RemoveAt(l, k)) = Len(l) - 1
<1> DEFINE r == RemoveAt(l, k)
           n == Len(l)
<1>1. /\ r \in Seq(Entry) /\ Len(r) = n - 1
      /\ \A p \in 1..(n - 1) : r[p] = IF p < k THEN l[p] ELSE l[p + 1]
  BY RemoveAtFacts
<1> HIDE DEF r
<1>2. n \in Nat /\ k \in 1..n /\ DOMAIN l = 1..n /\ DOMAIN r = 1..(n - 1)
  BY <1>1
<1>3. \A p, q \in 1..n : l[p].idx = l[q].idx => p = q
  BY <1>2 DEF Indexed
<1>4. ASSUME NEW p \in 1..(n - 1), NEW q \in 1..(n - 1), r[p].idx = r[q].idx
      PROVE  p = q
  BY <1>1, <1>2, <1>3, <1>4, SMTT(30)
<1>5. {r[p].idx : p \in 1..(n - 1)} \subseteq m \ {l[k].idx}
  BY <1>1, <1>2, <1>3, SMTT(30) DEF Indexed
<1>6. ASSUME NEW x \in m \ {l[k].idx}
      PROVE  \E p \in 1..(n - 1) : r[p].idx = x
  <2>1. PICK p \in 1..n : l[p].idx = x
    BY <1>2 DEF Indexed
  <2>2. p # k
    BY <2>1
  <2>3. CASE p < k
    BY <1>1, <1>2, <2>1, <2>3
  <2>4. CASE p > k
    <3>1. p - 1 \in 1..(n - 1) /\ r[p - 1] = l[p]
      BY <1>1, <1>2, <2>4
    <3> QED  BY <2>1, <3>1
  <2> QED  BY <1>2, <2>2, <2>3, <2>4
<1>7. m \ {l[k].idx} = {r[p].idx : p \in DOMAIN r}
  BY <1>2, <1>5, <1>6
<1> QED  BY <1>1, <1>2, <1>4, <1>7 DEF r, Indexed

\* So does appending a node whose key is not there.
LEMMA AppendIndexed ==
  ASSUME NEW l \in Seq(Entry), NEW m, Indexed(l, m),
         NEW e \in Entry, e.idx \notin m
  PROVE  /\ Indexed(Append(l, e), m \cup {e.idx})
         /\ Append(l, e) \in Seq(Entry)
         /\ Len(Append(l, e)) = Len(l) + 1
<1> DEFINE r == Append(l, e)
           n == Len(l)
<1>1. /\ r \in Seq(Entry) /\ Len(r) = n + 1 /\ n \in Nat
      /\ \A p \in 1..n : r[p] = l[p]
      /\ r[n + 1] = e
  OBVIOUS
<1>2. DOMAIN l = 1..n /\ DOMAIN r = 1..(n + 1)
  BY <1>1
<1> HIDE DEF r, n
<1>3. \A p, q \in 1..n : l[p].idx = l[q].idx => p = q
  BY <1>2 DEF Indexed
<1>4. \A p \in 1..n : l[p].idx # e.idx
  BY <1>2 DEF Indexed
<1>5. \A p, q \in 1..(n + 1) : r[p].idx = r[q].idx => p = q
  BY <1>1, <1>3, <1>4
<1>6. m \cup {e.idx} = {r[p].idx : p \in 1..(n + 1)}
  BY <1>1, <1>2 DEF Indexed
<1> QED  BY <1>1, <1>2, <1>5, <1>6 DEF Indexed, r, n

\* And removing the front with its key.
LEMMA TailIndexed ==
  ASSUME NEW l \in Seq(Entry), NEW m, Indexed(l, m), l # <<>>
  PROVE  /\ Indexed(Tail(l), m \ {Head(l).idx})
         /\ Tail(l) \in Seq(Entry)
         /\ Len(Tail(l)) = Len(l) - 1
         /\ Head(l) \in Entry
<1> DEFINE r == Tail(l)
           n == Len(l)
<1>1. /\ n \in Nat \ {0} /\ r \in Seq(Entry) /\ Len(r) = n - 1
      /\ \A p \in 1..(n - 1) : r[p] = l[p + 1]
      /\ Head(l) = l[1] /\ l[1] \in Entry
  OBVIOUS
<1>2. DOMAIN l = 1..n /\ DOMAIN r = 1..(n - 1)
  BY <1>1
<1> HIDE DEF r, n
<1>3. \A p, q \in 1..n : l[p].idx = l[q].idx => p = q
  BY <1>2 DEF Indexed
<1>4. \A p, q \in 1..(n - 1) : r[p].idx = r[q].idx => p = q
  BY <1>1, <1>3, SMTT(30)
<1>5. ASSUME NEW p \in 1..(n - 1)
      PROVE  r[p].idx \in m \ {l[1].idx}
  <2>1. p + 1 \in 1..n /\ 1 \in 1..n /\ p + 1 # 1 /\ r[p] = l[p + 1]
    BY <1>1
  <2>2. l[p + 1].idx \in m /\ l[p + 1].idx # l[1].idx
    BY <1>2, <1>3, <2>1 DEF Indexed
  <2> QED  BY <2>1, <2>2
<1>6. ASSUME NEW x \in m \ {l[1].idx}
      PROVE  \E p \in 1..(n - 1) : r[p].idx = x
  <2>1. PICK p \in 1..n : l[p].idx = x
    BY <1>2 DEF Indexed
  <2>2. p - 1 \in 1..(n - 1) /\ r[p - 1] = l[p]
    BY <1>1, <2>1
  <2> QED  BY <2>1, <2>2
<1>7. m \ {l[1].idx} = {r[p].idx : p \in 1..(n - 1)}
  BY <1>5, <1>6
<1> QED  BY <1>1, <1>2, <1>4, <1>7 DEF Indexed, r, n

-----------------------------------------------------------------------------
(* The inductive invariant.                                                *)

InRequest == {"take", "fetch", "decrypt", "push", "check", "pop", "save", "settag"}

\* What a thread in the middle of an ecall relies on: a write has a number,
\* a flush is not in the code of a read or a write, a buffer about to be
\* pushed holds data, and the iterator of a flush that no other thread has
\* invalidated points to a node.
InFlight ==
  /\ \A t \in Threads : job[t].op \in {"part", "full"} => job[t].id # 0
  /\ \A t \in Threads : pc[t] \in InRequest => job[t].op # "flush"
  /\ \A t \in Threads : pc[t] = "push" => buf[t] \in Entry
  /\ \A t \in Threads : pc[t] = "erase" /\ t \notin dangling => job[t].idx \in map

IInv == TypeOK /\ StoreIndexed /\ InFlight

LEMMA ConstantTypes ==
  /\ 1 \in Chunks /\ NoJob \in Job /\ Empty \in Entry /\ Entry \subseteq Buffer
  /\ NumChunks \in Chunks
BY StoreAssumption DEF Chunks, NoJob, Job, Empty, Entry, Buffer, Data

\* The iterator _map has for a key points to the node with that key.
LEMMA PosFacts ==
  ASSUME TypeOK, StoreIndexed, NEW i \in map
  PROVE  /\ Pos(i) \in DOMAIN list /\ list[Pos(i)].idx = i
         /\ Cached(i) \in Entry /\ i \in Chunks
<1>1. \E p \in DOMAIN list : list[p].idx = i
  BY DEF StoreIndexed
<1>2. Pos(i) \in DOMAIN list /\ list[Pos(i)].idx = i
  BY <1>1 DEF Pos
<1>3. list[Pos(i)] \in Entry
  BY <1>2 DEF TypeOK
<1> QED  BY <1>2, <1>3 DEF Cached, TypeOK

LEMMA UnlinkStep ==
  ASSUME TypeOK, StoreIndexed, NEW i \in map, Unlink(i)
  PROVE  /\ list' \in Seq(Entry) /\ Len(list') = Len(list) - 1
         /\ StoreIndexed'
         /\ map' = map \ {i} /\ dangling' = dangling \cup Iterators(i)
         /\ dangling' \subseteq Threads
<1>1. Pos(i) \in DOMAIN list /\ list[Pos(i)].idx = i
  BY PosFacts
<1>2. list \in Seq(Entry) /\ Indexed(list, map)
  BY DEF TypeOK, StoreIndexed, Indexed
<1>3. list' = RemoveAt(list, Pos(i)) /\ map' = map \ {list[Pos(i)].idx}
  BY <1>1 DEF Unlink
<1>4. /\ list' \in Seq(Entry) /\ Len(list') = Len(list) - 1
      /\ Indexed(list', map')
  BY <1>1, <1>2, <1>3, RemoveIndexed
<1>5. StoreIndexed'
  BY <1>4 DEF StoreIndexed, Indexed
<1> QED  BY <1>1, <1>3, <1>4, <1>5 DEF Unlink, Iterators, TypeOK

LEMMA PushStep ==
  ASSUME TypeOK, StoreIndexed, NEW e \in Entry, PushBack(e)
  PROVE  /\ list' \in Seq(Entry) /\ Len(list') <= Len(list) + 1
         /\ StoreIndexed'
         /\ map' = map \cup {e.idx}
         /\ dangling' \subseteq Threads /\ dangling \subseteq dangling'
<1>1. list \in Seq(Entry) /\ Indexed(list, map) /\ e.idx \in Chunks
  BY DEF TypeOK, StoreIndexed, Indexed, Entry
<1>2. map' = map \cup {e.idx}
  BY DEF PushBack
<1>3. dangling' \subseteq Threads /\ dangling \subseteq dangling'
  BY DEF PushBack, Iterators, TypeOK
<1>4. CASE e.idx \in map
  <2> DEFINE l == RemoveAt(list, Pos(e.idx))
             m == map \ {e.idx}
  <2>1. Pos(e.idx) \in DOMAIN list /\ list[Pos(e.idx)].idx = e.idx
    BY <1>4, PosFacts
  <2>2. l \in Seq(Entry) /\ Len(l) = Len(list) - 1 /\ Indexed(l, m)
    BY <1>1, <2>1, RemoveIndexed
  <2>3. list' = Append(l, e) /\ map' = m \cup {e.idx} /\ e.idx \notin m
    BY <1>2, <1>4 DEF PushBack
  <2> HIDE DEF l, m
  <2>4. Indexed(list', map') /\ list' \in Seq(Entry) /\ Len(list') = Len(l) + 1
    BY <2>2, <2>3, AppendIndexed
  <2>5. Len(list') <= Len(list) + 1
    BY <1>1, <2>2, <2>4
  <2>6. StoreIndexed'
    BY <2>4 DEF StoreIndexed, Indexed
  <2> QED  BY <1>2, <1>3, <2>4, <2>5, <2>6
<1>5. CASE e.idx \notin map
  <2>1. list' = Append(list, e)
    BY <1>5 DEF PushBack
  <2>2. Indexed(list', map') /\ list' \in Seq(Entry) /\ Len(list') = Len(list) + 1
    BY <1>1, <1>2, <1>5, <2>1, AppendIndexed
  <2>3. StoreIndexed'
    BY <2>2 DEF StoreIndexed, Indexed
  <2> QED  BY <1>1, <1>2, <1>3, <2>2, <2>3
<1> QED  BY <1>4, <1>5

\* The bytes a request leaves in its buffer are the bytes of writes.
LEMMA MineType ==
  ASSUME TypeOK, InFlight, NEW t \in Threads, NEW d \in Data, pc[t] \in InRequest
  PROVE  Mine(t, d) \in Data
<1>1. job[t] \in Job /\ job[t].op # "flush"
  BY DEF TypeOK, InFlight
<1>2. CASE job[t].op = "read"
  BY <1>2 DEF Mine
<1>3. CASE job[t].op # "read"
  <2>1. job[t].op \in {"part", "full"} /\ job[t].id \in 0..MaxWrites
    BY <1>1, <1>3 DEF Job
  <2>2. job[t].id \in 1..MaxWrites
    BY <2>1, StoreAssumption DEF InFlight
  <2> QED  BY <1>3, <2>2 DEF Mine, Data
<1> QED  BY <1>2, <1>3

-----------------------------------------------------------------------------
(* One lemma per action.                                                   *)

LEMMA ObserveType ==
  ASSUME TypeOK, Observe
  PROVE  overlap' \subseteq Chunks
BY DEF TypeOK, Observe, Contended

LEMMA TakeInv ==
  ASSUME IInv, NEW t \in Threads, Take(t), Observe
  PROVE  IInv'
<1> DEFINE i == job[t].idx
<1>0. TypeOK /\ StoreIndexed /\ InFlight /\ overlap' \subseteq Chunks
  BY ObserveType DEF IInv
<1>1. job[t] \in Job /\ i \in Chunks
  BY <1>0 DEF TypeOK, Job
<1>2. CASE i \in map
  <2>1. Cached(i) \in Entry
    BY <1>0, <1>2, PosFacts
  <2> DEFINE e == [idx |-> i, data |-> Mine(t, Cached(i).data),
                   modified |-> Cached(i).modified \/ job[t].op # "read"]
  <2>2. e \in Entry
    BY <1>0, <1>1, <2>1, MineType DEF Entry, Take, InRequest
  <2>3. /\ buf' = [buf EXCEPT ![t] = e]
        /\ pc' = [pc EXCEPT ![t] = "push"] /\ Unlink(i)
        /\ UNCHANGED <<filenode, storage, job, history>> /\ pc[t] = "take"
    BY <1>2 DEF Take, Goto
  <2> HIDE DEF e
  <2>4. /\ list' \in Seq(Entry) /\ StoreIndexed'
        /\ map' = map \ {i} /\ dangling' = dangling \cup Iterators(i)
        /\ dangling' \subseteq Threads
    BY <1>0, <1>2, <2>3, UnlinkStep
  <2>5. TypeOK'
    BY <1>0, <2>2, <2>3, <2>4, ConstantTypes
       DEF TypeOK, filenode, storage, history, Location
  <2>6. InFlight'
    BY <1>0, <2>2, <2>3, <2>4 DEF TypeOK, InFlight, InRequest, Iterators
  <2> QED  BY <2>4, <2>5, <2>6 DEF IInv
<1>3. CASE i \notin map
  <2>1. /\ pc' = [pc EXCEPT ![t] = "fetch"] /\ pc[t] = "take"
        /\ UNCHANGED <<store, buf, filenode, storage, job, history>>
    BY <1>3 DEF Take, Goto
  <2> QED  BY <1>0, <2>1
     DEF IInv, TypeOK, StoreIndexed, InFlight, InRequest, Location, store,
         filenode, storage, history
<1> QED  BY <1>2, <1>3

LEMMA BeginReadInv ==
  ASSUME IInv, NEW t \in Threads, NEW i \in Chunks, BeginRead(t, i), Observe
  PROVE  IInv'
<1>0. TypeOK /\ StoreIndexed /\ InFlight /\ overlap' \subseteq Chunks
  BY ObserveType DEF IInv
<1> DEFINE j == [op |-> "read", idx |-> i, id |-> 0]
<1>1. j \in Job /\ j.op = "read"
  BY StoreAssumption DEF Job
<1>2. /\ job' = [job EXCEPT ![t] = j] /\ pc' = [pc EXCEPT ![t] = "take"]
      /\ UNCHANGED <<store, filenode, storage, buf, history>>
  BY DEF BeginRead, Goto
<1> HIDE DEF j
<1> QED  BY <1>0, <1>1, <1>2
     DEF IInv, TypeOK, StoreIndexed, InFlight, InRequest, Location, store,
         filenode, storage, history

LEMMA BeginWriteInv ==
  ASSUME IInv, NEW t \in Threads, NEW i \in Chunks, NEW op \in {"part", "full"},
         BeginWrite(t, i, op), Observe
  PROVE  IInv'
<1>0. TypeOK /\ StoreIndexed /\ InFlight /\ overlap' \subseteq Chunks
  BY ObserveType DEF IInv
<1> DEFINE k == issued[i] + 1
           j == [op |-> op, idx |-> i, id |-> k]
           e == [idx |-> i, data |-> IF op = "full" THEN 1..k ELSE {k},
                 modified |-> TRUE]
<1>1. k \in 1..MaxWrites
  BY <1>0, StoreAssumption DEF BeginWrite, TypeOK
<1>2. 1..k \subseteq 1..MaxWrites
  BY <1>1, StoreAssumption
<1>3. j \in Job /\ j.op # "flush" /\ j.id # 0
  BY <1>1, StoreAssumption DEF Job
<1>4. e \in Entry
  BY <1>1, <1>2 DEF Entry, Data
<1>5. /\ job' = [job EXCEPT ![t] = j]
      /\ issued' = [issued EXCEPT ![i] = @ + 1]
      /\ uuid' = [uuid EXCEPT ![i] = TRUE]
      /\ \/ pc' = [pc EXCEPT ![t] = "take"] /\ buf' = buf
         \/ pc' = [pc EXCEPT ![t] = "push"] /\ buf' = [buf EXCEPT ![t] = e]
      /\ UNCHANGED <<store, tag, storage, done, goal>>
  BY DEF BeginWrite, Goto
<1>6. issued' \in [Chunks -> 0..MaxWrites]
  BY <1>0, <1>1, <1>5, StoreAssumption DEF TypeOK
<1> HIDE DEF j, e
<1>7. TypeOK'
  BY <1>0, <1>3, <1>4, <1>5, <1>6, ConstantTypes
     DEF TypeOK, Location, store, storage
<1>8. InFlight'
  BY <1>0, <1>3, <1>4, <1>5 DEF TypeOK, InFlight, InRequest, store
<1> QED  BY <1>0, <1>5, <1>7, <1>8 DEF IInv, StoreIndexed, store

LEMMA FetchInv ==
  ASSUME IInv, NEW t \in Threads, Fetch(t), Observe
  PROVE  IInv'
<1>0. TypeOK /\ StoreIndexed /\ InFlight /\ overlap' \subseteq Chunks
  BY ObserveType DEF IInv
<1> DEFINE i == job[t].idx
           e == [idx |-> i, data |-> disk[i], modified |-> FALSE]
<1>1. e \in Buffer
  BY <1>0 DEF TypeOK, Job, Buffer
<1>2. /\ buf' = [buf EXCEPT ![t] = e] /\ pc' = [pc EXCEPT ![t] = "decrypt"]
      /\ pc[t] = "fetch"
      /\ UNCHANGED <<store, filenode, storage, job, history>>
  BY DEF Fetch, Goto
<1> HIDE DEF e
<1> QED  BY <1>0, <1>1, <1>2
     DEF IInv, TypeOK, StoreIndexed, InFlight, InRequest, Location, store,
         filenode, storage, history

\* Returning from an ecall leaves a thread as it was at the beginning.
LEMMA ReturnInv ==
  ASSUME IInv, NEW t \in Threads, Return(t), Observe,
         UNCHANGED <<store, filenode, disk, issued>>,
         done' \in [Chunks -> Data],
         goal' \in [Threads -> SUBSET (Chunks \X (1..MaxWrites))],
         meta' \in [Chunks -> Data \cup {None}]
  PROVE  IInv'
<1>0. TypeOK /\ StoreIndexed /\ InFlight /\ overlap' \subseteq Chunks
  BY ObserveType DEF IInv
<1>1. /\ pc' = [pc EXCEPT ![t] = "idle"] /\ job' = [job EXCEPT ![t] = NoJob]
      /\ buf' = [buf EXCEPT ![t] = Empty]
  BY DEF Return, Goto
<1>2. NoJob.op = "read"
  BY DEF NoJob
<1>3. TypeOK'
  BY <1>0, <1>1, ConstantTypes DEF TypeOK, Location, store, filenode
<1>4. InFlight'
  BY <1>0, <1>1, <1>2, ConstantTypes DEF TypeOK, InFlight, InRequest, store
<1> QED  BY <1>0, <1>3, <1>4 DEF IInv, StoreIndexed, store

LEMMA DecryptInv ==
  ASSUME IInv, NEW t \in Threads, Decrypt(t), Observe
  PROVE  IInv'
<1>0. TypeOK /\ StoreIndexed /\ InFlight /\ overlap' \subseteq Chunks
  BY ObserveType DEF IInv
<1>1. CASE ~Verifies(t) /\ job[t].op = "read"
  BY <1>0, <1>1, ReturnInv DEF Decrypt, storage, history, TypeOK
<1>2. CASE ~(~Verifies(t) /\ job[t].op = "read")
  <2> DEFINE d == IF buf[t].data = None THEN {} ELSE buf[t].data
             e == [buf[t] EXCEPT !.data = Mine(t, d), !.modified = job[t].op # "read"]
  <2>1. buf[t] \in Buffer
    BY <1>0 DEF TypeOK
  <2>2. d \in Data
    BY <2>1 DEF Buffer, Data
  <2>3. Mine(t, d) \in Data
    BY <1>0, <2>2, MineType DEF Decrypt, InRequest
  <2>4. e \in Entry
    BY <2>1, <2>3 DEF Entry, Buffer
  <2>5. /\ buf' = [buf EXCEPT ![t] = e] /\ pc' = [pc EXCEPT ![t] = "push"]
        /\ pc[t] = "decrypt"
        /\ UNCHANGED <<store, filenode, storage, job, history>>
    BY <1>0, <1>2 DEF Decrypt, Goto, TypeOK
  <2> HIDE DEF e
  <2>6. TypeOK'
    BY <1>0, <2>4, <2>5, ConstantTypes
       DEF TypeOK, Location, store, filenode, storage, history
  <2>7. InFlight'
    BY <1>0, <2>4, <2>5 DEF TypeOK, InFlight, InRequest, store
  <2> QED  BY <1>0, <2>5, <2>6, <2>7 DEF IInv, StoreIndexed, store
<1> QED  BY <1>1, <1>2

LEMMA PushInv ==
  ASSUME IInv, NEW t \in Threads, Push(t), Observe
  PROVE  IInv'
<1>0. TypeOK /\ StoreIndexed /\ InFlight /\ overlap' \subseteq Chunks
  BY ObserveType DEF IInv
<1>1. buf[t] \in Entry /\ PushBack(buf[t])
  BY <1>0 DEF Push, InFlight
<1>2. /\ list' \in Seq(Entry) /\ StoreIndexed'
      /\ map' = map \cup {buf[t].idx}
      /\ dangling' \subseteq Threads /\ dangling \subseteq dangling'
  BY <1>0, <1>1, PushStep
<1>3. /\ buf' = [buf EXCEPT ![t] = Empty] /\ pc' = [pc EXCEPT ![t] = "check"]
      /\ pc[t] = "push"
      /\ UNCHANGED <<filenode, storage, job, history>>
  BY DEF Push, Goto
<1>4. map' \subseteq Chunks
  BY <1>0, <1>1, <1>2 DEF TypeOK, Entry
<1>5. TypeOK'
  BY <1>0, <1>2, <1>3, <1>4, ConstantTypes
     DEF TypeOK, Location, filenode, storage, history
<1>6. InFlight'
  BY <1>0, <1>2, <1>3 DEF TypeOK, InFlight, InRequest
<1> QED  BY <1>2, <1>5, <1>6 DEF IInv

LEMMA CheckInv ==
  ASSUME IInv, NEW t \in Threads, Check(t), Observe
  PROVE  IInv'
<1>0. TypeOK /\ StoreIndexed /\ InFlight /\ overlap' \subseteq Chunks
  BY ObserveType DEF IInv
<1>1. CASE Len(list) > MaxCache
  <2>1. /\ pc' = [pc EXCEPT ![t] = "pop"] /\ pc[t] = "check"
        /\ UNCHANGED <<store, filenode, storage, job, buf, issued, done, goal>>
    BY <1>1 DEF Check, Goto
  <2> QED  BY <1>0, <2>1
     DEF IInv, TypeOK, StoreIndexed, InFlight, InRequest, Location,
         store, filenode, storage
<1>2. CASE ~(Len(list) > MaxCache)
  <2>1. job[t].idx \in Chunks /\ job[t].id \in 0..MaxWrites
    BY <1>0 DEF TypeOK, Job
  <2>2. job[t].op # "read" => job[t].id \in 1..MaxWrites
    <3>1. job[t].op # "flush"
      BY <1>0 DEF Check, InFlight, InRequest
    <3>2. job[t].op \in {"read", "part", "full", "flush"}
      BY <1>0 DEF TypeOK, Job
    <3> QED  BY <1>0, <2>1, <3>1, <3>2, StoreAssumption DEF InFlight
  <2>3. done' \in [Chunks -> Data]
    <3> DEFINE d == done[job[t].idx] \cup {job[t].id}
    <3>1. \/ job[t].op = "read" /\ done' = done
          \/ job[t].op # "read" /\ done' = [done EXCEPT ![job[t].idx] = d]
      BY <1>2 DEF Check
    <3>2. done[job[t].idx] \in Data
      BY <1>0, <2>1 DEF TypeOK
    <3>3. job[t].op # "read" => d \in Data
      BY <2>2, <3>2 DEF Data
    <3> HIDE DEF d
    <3> QED  BY <1>0, <3>1, <3>3 DEF TypeOK
  <2> QED  BY <1>0, <1>2, <2>3, ReturnInv DEF Check, storage, TypeOK
<1> QED  BY <1>1, <1>2

LEMMA PopInv ==
  ASSUME IInv, NEW t \in Threads, Pop(t), Observe
  PROVE  IInv'
<1>0. TypeOK /\ StoreIndexed /\ InFlight /\ overlap' \subseteq Chunks
  BY ObserveType DEF IInv
<1>1. CASE list = <<>>
  <2>1. /\ pc' = [pc EXCEPT ![t] = "fault"] /\ pc[t] = "pop"
        /\ UNCHANGED <<store, buf, filenode, storage, job, history>>
    BY <1>1 DEF Pop, Goto
  <2> QED  BY <1>0, <2>1
     DEF IInv, TypeOK, StoreIndexed, InFlight, InRequest, Location,
         store, filenode, storage, history
<1>2. CASE list # <<>>
  <2> DEFINE e == Head(list)
  <2>1. list \in Seq(Entry) /\ Indexed(list, map)
    BY <1>0 DEF TypeOK, StoreIndexed, Indexed
  <2>2. /\ list' = Tail(list) /\ map' = map \ {e.idx}
        /\ dangling' = dangling \cup Iterators(e.idx)
        /\ buf' = [buf EXCEPT ![t] = e] /\ pc[t] = "pop"
        /\ \/ pc' = [pc EXCEPT ![t] = "save"]
           \/ pc' = [pc EXCEPT ![t] = "check"]
        /\ UNCHANGED <<filenode, storage, job, history>>
    BY <1>2 DEF Pop, Goto
  <2>3. e \in Entry /\ list' \in Seq(Entry) /\ Indexed(list', map')
    BY <1>2, <2>1, <2>2, TailIndexed
  <2>4. StoreIndexed'
    BY <2>3 DEF StoreIndexed, Indexed
  <2> HIDE DEF e
  <2>5. TypeOK'
    BY <1>0, <2>2, <2>3, ConstantTypes
       DEF TypeOK, Location, Iterators, filenode, storage, history
  <2>6. InFlight'
    BY <1>0, <2>2 DEF TypeOK, InFlight, InRequest, Iterators
  <2> QED  BY <2>4, <2>5, <2>6 DEF IInv
<1> QED  BY <1>1, <1>2

LEMMA SaveInv ==
  ASSUME IInv, NEW t \in Threads, Save(t) \/ SetTag(t), Observe
  PROVE  IInv'
<1>0. TypeOK /\ StoreIndexed /\ InFlight /\ overlap' \subseteq Chunks
  BY ObserveType DEF IInv
<1>1. buf[t].data \in Data \cup {None}
  BY <1>0 DEF TypeOK, Buffer
<1>2. /\ pc[t] \in {"save", "settag"}
      /\ \E l \in {"settag", "check"} : pc' = [pc EXCEPT ![t] = l]
      /\ disk' \in [Chunks -> Data \cup {None}]
      /\ tag' \in [Chunks -> Data \cup {None}]
      /\ UNCHANGED <<store, uuid, meta, job, buf, history>>
  BY <1>0, <1>1 DEF Save, SetTag, Goto, TypeOK, filenode, storage
<1> QED  BY <1>0, <1>2
     DEF IInv, TypeOK, StoreIndexed, InFlight, InRequest, Location, store, history

LEMMA BeginFlushInv ==
  ASSUME IInv, NEW t \in Threads, BeginFlush(t), Observe
  PROVE  IInv'
<1>0. TypeOK /\ StoreIndexed /\ InFlight /\ overlap' \subseteq Chunks
  BY ObserveType DEF IInv
<1> DEFINE j == [op |-> "flush", idx |-> 1, id |-> 0]
           g == {x \in Chunks \X (1..MaxWrites) : x[2] \in done[x[1]]}
<1>1. j \in Job /\ j.op = "flush"
  BY ConstantTypes, StoreAssumption DEF Job
<1>2. /\ job' = [job EXCEPT ![t] = j] /\ pc' = [pc EXCEPT ![t] = "find"]
      /\ goal' = [goal EXCEPT ![t] = g]
      /\ UNCHANGED <<store, filenode, storage, buf, issued, done>>
  BY DEF BeginFlush, Goto
<1>3. g \subseteq Chunks \X (1..MaxWrites)
  OBVIOUS
<1> HIDE DEF j, g
<1>4. goal' \in [Threads -> SUBSET (Chunks \X (1..MaxWrites))]
  BY <1>0, <1>2, <1>3 DEF TypeOK
<1> QED  BY <1>0, <1>1, <1>2, <1>4
     DEF IInv, TypeOK, StoreIndexed, InFlight, InRequest, Location, store,
         filenode, storage

\* Going on to the next chunk, after the entry of this one may have left the
\* list, keeps the rest of the invariant.
LEMMA NextChunkInv ==
  ASSUME IInv, NEW t \in Threads, NextChunk(t), Observe,
         list' \in Seq(Entry), StoreIndexed', map' \subseteq map,
         dangling' \subseteq Threads,
         \A u \in Threads : pc[u] = "erase" /\ u # t /\ u \notin dangling'
                              => u \notin dangling /\ job[u].idx \in map',
         buf' \in [Threads -> Buffer], \A u \in Threads \ {t} : buf'[u] = buf[u],
         disk' \in [Chunks -> Data \cup {None}],
         UNCHANGED <<filenode, meta, history>>
  PROVE  IInv'
<1>0. TypeOK /\ StoreIndexed /\ InFlight /\ overlap' \subseteq Chunks
  BY ObserveType DEF IInv
<1>1. \E l \in {"meta", "find"} : pc' = [pc EXCEPT ![t] = l]
  BY DEF NextChunk, Goto
<1>2. job' \in [Threads -> Job]
      /\ job'[t].op = job[t].op /\ job'[t].id = job[t].id
      /\ \A u \in Threads \ {t} : job'[u] = job[u]
  <2>1. CASE job[t].idx = NumChunks
    BY <1>0, <2>1 DEF NextChunk, TypeOK
  <2>2. CASE job[t].idx # NumChunks
    <3> DEFINE j == [job[t] EXCEPT !.idx = @ + 1]
    <3>1. job[t].idx \in Chunks /\ job[t] \in Job
      BY <1>0 DEF TypeOK, Job
    <3>2. job[t].idx + 1 \in Chunks
      BY <2>2, <3>1, StoreAssumption DEF Chunks
    <3>3. j \in Job /\ j.op = job[t].op /\ j.id = job[t].id
      BY <3>1, <3>2 DEF Job
    <3>4. job' = [job EXCEPT ![t] = j]
      BY <2>2 DEF NextChunk
    <3> HIDE DEF j
    <3> QED  BY <1>0, <3>3, <3>4 DEF TypeOK
  <2> QED  BY <2>1, <2>2
<1>3. TypeOK'
  BY <1>0, <1>1, <1>2, ZenonT(30) DEF TypeOK, Location, filenode, history
<1>4. InFlight'
  BY <1>0, <1>1, <1>2, ZenonT(30) DEF TypeOK, InFlight, InRequest
<1> QED  BY <1>3, <1>4 DEF IInv

LEMMA FindInv ==
  ASSUME IInv, NEW t \in Threads, Find(t), Observe
  PROVE  IInv'
<1>0. TypeOK /\ StoreIndexed /\ InFlight /\ overlap' \subseteq Chunks
  BY ObserveType DEF IInv
<1>1. CASE job[t].idx \in map
  <2>1. /\ pc' = [pc EXCEPT ![t] = "erase"] /\ pc[t] = "find"
        /\ dangling' = dangling \ {t}
        /\ UNCHANGED <<list, map, filenode, storage, buf, job, history>>
    BY <1>1 DEF Find, Goto
  <2> QED  BY <1>0, <1>1, <2>1
     DEF IInv, TypeOK, StoreIndexed, InFlight, InRequest, Location,
         filenode, storage, history
<1>2. CASE job[t].idx \notin map
  <2>1. /\ NextChunk(t) /\ pc[t] = "find"
        /\ UNCHANGED <<list, map, dangling, filenode, storage, buf, history>>
    BY <1>2 DEF Find
  <2>2. StoreIndexed'
    BY <1>0, <2>1 DEF StoreIndexed
  <2>3. \A u \in Threads : pc[u] = "erase" /\ u # t /\ u \notin dangling'
                              => u \notin dangling /\ job[u].idx \in map'
    BY <1>0, <2>1 DEF InFlight
  <2>4. /\ list' \in Seq(Entry) /\ map' \subseteq map
        /\ dangling' \subseteq Threads /\ buf' \in [Threads -> Buffer]
        /\ \A u \in Threads \ {t} : buf'[u] = buf[u]
        /\ disk' \in [Chunks -> Data \cup {None}]
        /\ UNCHANGED <<filenode, meta, history>>
    BY <1>0, <2>1 DEF TypeOK, storage
  <2> QED  BY <2>1, <2>2, <2>3, <2>4, NextChunkInv
<1> QED  BY <1>1, <1>2

LEMMA EraseInv ==
  ASSUME IInv, NEW t \in Threads, Erase(t), Observe
  PROVE  IInv'
<1>0. TypeOK /\ StoreIndexed /\ InFlight /\ overlap' \subseteq Chunks
  BY ObserveType DEF IInv
<1> DEFINE i == job[t].idx
           e == Cached(i)
<1>1. CASE t \in dangling
  <2>1. /\ pc' = [pc EXCEPT ![t] = "fault"] /\ pc[t] = "erase"
        /\ UNCHANGED <<store, buf, job, filenode, storage, history>>
    BY <1>1 DEF Erase, Goto
  <2> QED  BY <1>0, <2>1
     DEF IInv, TypeOK, StoreIndexed, InFlight, InRequest, Location,
         store, filenode, storage, history
<1>2. CASE t \notin dangling
  <2>1. i \in map /\ e \in Entry /\ pc[t] = "erase"
    BY <1>0, <1>2, PosFacts DEF Erase, InFlight
  <2>2. /\ buf' = [buf EXCEPT ![t] = e] /\ Unlink(i)
        /\ UNCHANGED <<filenode, storage, history>>
        /\ \/ pc' = [pc EXCEPT ![t] = "ftag"] /\ job' = job
           \/ NextChunk(t)
    BY <1>2 DEF Erase, Goto
  <2>3. /\ list' \in Seq(Entry) /\ StoreIndexed'
        /\ map' = map \ {i} /\ dangling' = dangling \cup Iterators(i)
        /\ dangling' \subseteq Threads
    BY <1>0, <2>1, <2>2, UnlinkStep
  <2>4. \A u \in Threads : pc[u] = "erase" /\ u \notin dangling'
                              => u \notin dangling /\ job[u].idx \in map'
    BY <1>0, <2>3 DEF InFlight, Iterators
  <2> HIDE DEF e
  <2>5. buf' \in [Threads -> Buffer] /\ \A u \in Threads \ {t} : buf'[u] = buf[u]
    BY <1>0, <2>1, <2>2, ConstantTypes DEF TypeOK
  <2>6. CASE pc' = [pc EXCEPT ![t] = "ftag"] /\ job' = job
    <3>1. TypeOK'
      BY <1>0, <2>2, <2>3, <2>5, <2>6
         DEF TypeOK, Location, filenode, storage, history
    <3>2. InFlight'
      BY <1>0, <2>3, <2>4, <2>5, <2>6 DEF TypeOK, InFlight, InRequest
    <3> QED  BY <2>3, <3>1, <3>2 DEF IInv
  <2>7. CASE NextChunk(t)
    BY <1>0, <2>2, <2>3, <2>4, <2>5, <2>7, NextChunkInv DEF TypeOK, storage
  <2> QED  BY <2>2, <2>6, <2>7
<1> QED  BY <1>1, <1>2

LEMMA FlushTagInv ==
  ASSUME IInv, NEW t \in Threads, FlushTag(t), Observe
  PROVE  IInv'
<1>0. TypeOK /\ StoreIndexed /\ InFlight /\ overlap' \subseteq Chunks
  BY ObserveType DEF IInv
<1>1. /\ pc' = [pc EXCEPT ![t] = "fsave"] /\ pc[t] = "ftag"
      /\ tag' \in [Chunks -> Data \cup {None}]
      /\ UNCHANGED <<store, uuid, storage, job, buf, history>>
  BY <1>0 DEF FlushTag, Goto, TypeOK, Buffer
<1> QED  BY <1>0, <1>1
     DEF IInv, TypeOK, StoreIndexed, InFlight, InRequest, Location, store,
         storage, history

LEMMA FlushSaveInv ==
  ASSUME IInv, NEW t \in Threads, FlushSave(t), Observe
  PROVE  IInv'
<1>0. TypeOK /\ StoreIndexed /\ InFlight
  BY DEF IInv
<1>1. /\ NextChunk(t) /\ pc[t] = "fsave"
      /\ disk' \in [Chunks -> Data \cup {None}]
      /\ UNCHANGED <<store, filenode, meta, buf, history>>
  BY <1>0 DEF FlushSave, TypeOK, Buffer
<1>2. StoreIndexed'
  BY <1>0, <1>1 DEF StoreIndexed, store
<1>3. \A u \in Threads : pc[u] = "erase" /\ u # t /\ u \notin dangling'
                            => u \notin dangling /\ job[u].idx \in map'
  BY <1>0, <1>1 DEF InFlight, store
<1>4. /\ list' \in Seq(Entry) /\ map' \subseteq map
      /\ dangling' \subseteq Threads /\ buf' \in [Threads -> Buffer]
      /\ \A u \in Threads \ {t} : buf'[u] = buf[u]
  BY <1>0, <1>1 DEF TypeOK, store
<1> QED  BY <1>1, <1>2, <1>3, <1>4, NextChunkInv

LEMMA SaveMetaInv ==
  ASSUME IInv, NEW t \in Threads, SaveMeta(t), Observe
  PROVE  IInv'
<1>1. TypeOK
  BY DEF IInv
<1>2. /\ Return(t) /\ meta' = tag /\ goal' = [goal EXCEPT ![t] = {}]
      /\ UNCHANGED <<store, filenode, disk, issued, done>>
  BY DEF SaveMeta
<1>3. goal' \in [Threads -> SUBSET (Chunks \X (1..MaxWrites))]
  BY <1>1, <1>2 DEF TypeOK
<1> QED  BY <1>1, <1>2, <1>3, ReturnInv DEF TypeOK

-----------------------------------------------------------------------------
(* The invariant holds of the specification.                               *)

LEMMA InitInv == Init => IInv
<1> SUFFICES ASSUME Init PROVE IInv
  OBVIOUS
<1>1. TypeOK
  BY ConstantTypes, StoreAssumption DEF Init, TypeOK, Location, Data, None
<1>2. StoreIndexed
  BY DEF Init, StoreIndexed
<1>3. InFlight
  BY DEF Init, InFlight, InRequest, NoJob
<1> QED  BY <1>1, <1>2, <1>3 DEF IInv

LEMMA NextInv == IInv /\ [Next]_vars => IInv'
<1> SUFFICES ASSUME IInv, [Next]_vars PROVE IInv'
  OBVIOUS
<1>1. CASE Next
  <2>1. PICK t \in Threads : Run(t) \/ Start(t)
    BY <1>1 DEF Next
  <2>2. Observe
    BY <2>1 DEF Run, Start
  <2>3. CASE Step(t)
    <3>1. CASE Take(t) \/ Fetch(t) \/ Decrypt(t)
      BY <2>2, <3>1, TakeInv, FetchInv, DecryptInv
    <3>2. CASE Push(t) \/ Check(t) \/ Pop(t) \/ Save(t) \/ SetTag(t)
      BY <2>2, <3>2, PushInv, CheckInv, PopInv, SaveInv
    <3>3. CASE Find(t) \/ Erase(t) \/ FlushTag(t) \/ FlushSave(t) \/ SaveMeta(t)
      BY <2>2, <3>3, FindInv, EraseInv, FlushTagInv, FlushSaveInv, SaveMetaInv
    <3> QED  BY <2>3, <3>1, <3>2, <3>3 DEF Step
  <2>4. CASE Request(t)
    <3>1. CASE BeginFlush(t)
      BY <2>2, <3>1, BeginFlushInv
    <3>2. ASSUME NEW i \in Chunks, BeginRead(t, i)
          PROVE  IInv'
      BY <2>2, <3>2, BeginReadInv
    <3>3. ASSUME NEW i \in Chunks, NEW op \in {"part", "full"}, BeginWrite(t, i, op)
          PROVE  IInv'
      BY <2>2, <3>3, BeginWriteInv
    <3> QED  BY <2>4, <3>1, <3>2, <3>3 DEF Request
  <2> QED  BY <2>1, <2>3, <2>4 DEF Run, Start
<1>2. CASE UNCHANGED vars
  BY <1>2
     DEF IInv, TypeOK, StoreIndexed, InFlight, vars, store, filenode, storage,
         threads, history
<1> QED  BY <1>1, <1>2

LEMMA Invariance == Spec => []IInv
BY InitInv, NextInv, PTL DEF Spec

\* The program counters, locals and shared data keep their types for any
\* number of threads and chunks.
THEOREM TypeCorrect == Spec => []TypeOK
BY Invariance, PTL DEF IInv

\* The index of the store and its list agree for every interleaving of any
\* number of threads: what findbykey and erase assert can never fail.
THEOREM IndexCorrect == Spec => []StoreIndexed
BY Invariance, PTL DEF IInv

-----------------------------------------------------------------------------
(* The bound on the list.  Len(list) exceeds MaxCache only by entries whose *)
(* pusher has not left save_chunk: a push adds one entry and one thread, a *)
(* pop removes one entry, and a thread leaves only when the list is short. *)

SavingAt == {"check", "pop", "save", "settag"}

LEMMA SavingFinite ==
  ASSUME TypeOK
  PROVE  /\ IsFiniteSet(Saving) /\ Cardinality(Saving) \in Nat
         /\ Len(list) \in Nat
<1>1. IsFiniteSet(Saving)
  BY FS_Subset, StoreAssumption DEF Saving
<1> QED  BY <1>1, FS_CardinalityType DEF TypeOK

\* A step that adds no entry and takes no thread out of save_chunk.
LEMMA BoundKept ==
  ASSUME TypeOK, TypeOK', CacheBound, Len(list') <= Len(list), Saving \subseteq Saving'
  PROVE  CacheBound'
<1>1. Cardinality(Saving) <= Cardinality(Saving')
  <2>1. IsFiniteSet(Saving')
    BY FS_Subset, StoreAssumption DEF Saving
  <2> QED  BY <2>1, FS_Subset
<1>2. /\ Cardinality(Saving) \in Nat /\ Cardinality(Saving') \in Nat
      /\ Len(list) \in Nat /\ Len(list') \in Nat
  <2>1. IsFiniteSet(Saving')
    BY FS_Subset, StoreAssumption DEF Saving
  <2> QED  BY <2>1, SavingFinite, FS_CardinalityType DEF TypeOK
<1> QED  BY <1>1, <1>2, StoreAssumption DEF CacheBound

\* A push: one more entry, one more thread.
LEMMA BoundPush ==
  ASSUME IInv, IInv', CacheBound, NEW t \in Threads, Push(t)
  PROVE  CacheBound'
<1>0. TypeOK /\ StoreIndexed /\ InFlight /\ TypeOK'
  BY DEF IInv
<1>1. t \notin Saving /\ Saving' = Saving \cup {t}
  BY <1>0 DEF Saving, Push, Goto, TypeOK
<1>2. Cardinality(Saving') = Cardinality(Saving) + 1
  BY <1>0, <1>1, SavingFinite, FS_AddElement
<1>3. Len(list') <= Len(list) + 1
  BY <1>0, PushStep DEF Push, InFlight
<1>4. Len(list') \in Nat
  BY <1>0 DEF TypeOK
<1> QED  BY <1>0, <1>2, <1>3, <1>4, SavingFinite, StoreAssumption DEF CacheBound

\* A thread that leaves has just seen a list that is short enough.
LEMMA BoundCheck ==
  ASSUME IInv, IInv', CacheBound, NEW t \in Threads, Check(t)
  PROVE  CacheBound'
<1>0. TypeOK /\ TypeOK'
  BY DEF IInv
<1>1. list' = list
  BY DEF Check, store
<1>2. CASE Len(list) > MaxCache
  <2>1. pc' = [pc EXCEPT ![t] = "pop"]
    BY <1>2 DEF Check, Goto
  <2>2. Saving \subseteq Saving' /\ Len(list') <= Len(list)
    BY <1>0, <1>1, <2>1, SavingFinite DEF Saving, TypeOK
  <2> QED  BY <1>0, <2>2, BoundKept
<1>3. CASE ~(Len(list) > MaxCache)
  <2>1. IsFiniteSet(Saving')
    BY FS_Subset, StoreAssumption DEF Saving
  <2>2. Cardinality(Saving') \in Nat
    BY <2>1, FS_CardinalityType
  <2> QED  BY <1>0, <1>1, <1>3, <2>2, SavingFinite, StoreAssumption DEF CacheBound
<1> QED  BY <1>2, <1>3

\* Any other step of a thread.  A pop of an empty list leaves the process
\* with a fault, which may take a thread out of save_chunk.
LEMMA BoundPop ==
  ASSUME IInv, IInv', CacheBound, NEW t \in Threads, Pop(t)
  PROVE  CacheBound'
<1>0. TypeOK /\ TypeOK'
  BY DEF IInv
<1>1. CASE list = <<>>
  <2>1. Len(list') = 0
    BY <1>1 DEF Pop, store
  <2>2. IsFiniteSet(Saving')
    BY FS_Subset, StoreAssumption DEF Saving
  <2>3. Cardinality(Saving') \in Nat
    BY <2>2, FS_CardinalityType
  <2> QED  BY <2>1, <2>3, StoreAssumption DEF CacheBound
<1>2. CASE list # <<>>
  <2>1. list' = Tail(list) /\ \E l \in SavingAt : pc' = [pc EXCEPT ![t] = l]
    BY <1>2 DEF Pop, Goto, SavingAt
  <2>2. Len(list') <= Len(list)
    BY <1>0, <1>2, <2>1 DEF TypeOK
  <2>3. Saving \subseteq Saving'
    BY <1>0, <2>1 DEF Saving, SavingAt, TypeOK
  <2> QED  BY <1>0, <2>2, <2>3, BoundKept
<1> QED  BY <1>1, <1>2

LEMMA BoundErase ==
  ASSUME IInv, IInv', CacheBound, NEW t \in Threads, Take(t) \/ Erase(t)
  PROVE  CacheBound'
<1>0. TypeOK /\ StoreIndexed /\ InFlight /\ TypeOK'
  BY DEF IInv
<1>1. Len(list') <= Len(list)
  <2>1. CASE list' = list
    BY <1>0, <2>1, SavingFinite
  <2>2. CASE list' # list
    <3>1. job[t].idx \in map /\ Unlink(job[t].idx)
      BY <1>0, <2>2 DEF Take, Erase, InFlight, store
    <3> QED  BY <1>0, <3>1, UnlinkStep, SavingFinite
  <2> QED  BY <2>1, <2>2
<1>2. pc[t] \in {"take", "erase"} /\ \E l \in Location : pc' = [pc EXCEPT ![t] = l]
  BY DEF Take, Erase, NextChunk, Goto, Location
<1>3. Saving \subseteq Saving'
  BY <1>0, <1>2 DEF Saving, TypeOK
<1> QED  BY <1>0, <1>1, <1>3, BoundKept

\* The steps that leave the list alone.
LEMMA BoundQuiet ==
  ASSUME IInv, IInv', CacheBound, NEW t \in Threads, list' = list,
         NEW l \in Location, pc' = [pc EXCEPT ![t] = l],
         pc[t] \in SavingAt => l \in SavingAt
  PROVE  CacheBound'
<1>0. TypeOK /\ TypeOK'
  BY DEF IInv
<1>1. Saving \subseteq Saving'
  BY <1>0 DEF Saving, SavingAt, TypeOK
<1> QED  BY <1>0, <1>1, BoundKept, SavingFinite

LEMMA BoundStep ==
  ASSUME IInv, IInv', CacheBound, [Next]_vars
  PROVE  CacheBound'
<1>1. CASE UNCHANGED vars
  BY <1>1 DEF CacheBound, Saving, vars, store, threads
<1>2. CASE Next
  <2>1. PICK t \in Threads : Run(t) \/ Start(t)
    BY <1>2 DEF Next
  <2>2. CASE Push(t) \/ Check(t) \/ Pop(t)
    BY <2>2, BoundPush, BoundCheck, BoundPop
  <2>3. CASE Take(t) \/ Erase(t)
    BY <2>3, BoundErase
  <2>4. CASE \/ Fetch(t) \/ Decrypt(t) \/ Save(t) \/ SetTag(t)
             \/ Find(t) \/ FlushTag(t) \/ FlushSave(t) \/ SaveMeta(t)
    <3>1. list' = list
      BY <2>4 DEF Fetch, Decrypt, Save, SetTag, Find, FlushTag, FlushSave,
                  SaveMeta, store
    <3>2. \E l \in Location : /\ pc' = [pc EXCEPT ![t] = l]
                              /\ pc[t] \in SavingAt => l \in SavingAt
      BY <2>4 DEF Fetch, Decrypt, Save, SetTag, Find, FlushTag, FlushSave,
                  SaveMeta, NextChunk, Return, Goto, Location, SavingAt
    <3> QED  BY <3>1, <3>2, BoundQuiet
  <2>5. CASE Request(t)
    <3>1. list' = list
      BY <2>5 DEF Request, BeginFlush, BeginRead, BeginWrite, store
    <3>2. \E l \in Location : /\ pc' = [pc EXCEPT ![t] = l]
                              /\ pc[t] \in SavingAt => l \in SavingAt
      BY <2>5 DEF Request, BeginFlush, BeginRead, BeginWrite, Goto, Location,
                  SavingAt
    <3> QED  BY <3>1, <3>2, BoundQuiet
  <2> QED  BY <2>1, <2>2, <2>3, <2>4, <2>5 DEF Run, Start, Step
<1> QED  BY <1>1, <1>2

\* However many threads push at once, the list outgrows MAX_CACHE_NUM only by
\* the threads inside save_chunk, so that the enclave's heap is bounded.
THEOREM CacheBounded == Spec => []CacheBound
<1>1. Init => CacheBound
  <2> SUFFICES ASSUME Init PROVE CacheBound
    OBVIOUS
  <2>1. IsFiniteSet(Saving)
    BY FS_Subset, StoreAssumption DEF Saving
  <2>2. Cardinality(Saving) \in Nat /\ Len(list) = 0
    BY <2>1, FS_CardinalityType DEF Init
  <2> QED  BY <2>2, StoreAssumption DEF CacheBound
<1>2. IInv /\ IInv' /\ CacheBound /\ [Next]_vars => CacheBound'
  BY BoundStep
<1> QED  BY <1>1, <1>2, Invariance, PTL DEF Spec

-----------------------------------------------------------------------------
(* One thread, as under secfs -s.  What it has seen of the store it may     *)
(* rely on: the list it found too long has an entry to pop, the iterator it *)
(* was given still has its node.                                            *)

Alone == \A t, u \in Threads : t = u

StillThere ==
  \A t \in Threads : /\ pc[t] = "pop" => list # <<>>
                     /\ pc[t] = "erase" => t \notin dangling

\* Where a step of thread t leads, and what it knows there.
LEMMA Arrives ==
  ASSUME TypeOK, NoFault, StillThere, NEW t \in Threads, Run(t) \/ Start(t)
  PROVE  \E l \in Location \ {"fault"} :
           /\ pc' = [pc EXCEPT ![t] = l]
           /\ l = "pop" => list' # <<>>
           /\ l = "erase" => t \notin dangling'
<1>1. CASE Take(t) \/ Fetch(t) \/ Decrypt(t) \/ Push(t)
  BY <1>1 DEF Take, Fetch, Decrypt, Push, Return, Goto, Location
<1>2. CASE Check(t)
  <2>1. CASE Len(list) > MaxCache
    <3>1. list # <<>>
      BY <2>1, StoreAssumption
    <3> QED  BY <1>2, <2>1, <3>1 DEF Check, Goto, Location, store
  <2>2. CASE ~(Len(list) > MaxCache)
    BY <1>2, <2>2 DEF Check, Return, Goto, Location
  <2> QED  BY <2>1, <2>2
<1>3. CASE Pop(t)
  <2>1. list # <<>>
    BY <1>3 DEF Pop, StillThere
  <2> QED  BY <1>3, <2>1 DEF Pop, Goto, Location
<1>4. CASE Save(t) \/ SetTag(t)
  BY <1>4 DEF Save, SetTag, Goto, Location
<1>5. CASE Find(t)
  BY <1>5 DEF Find, NextChunk, Goto, Location
<1>6. CASE Erase(t)
  <2>1. t \notin dangling
    BY <1>6 DEF Erase, StillThere
  <2> QED  BY <1>6, <2>1, SMTT(30) DEF Erase, NextChunk, Goto, Location
<1>7. CASE FlushTag(t) \/ FlushSave(t) \/ SaveMeta(t)
  BY <1>7 DEF FlushTag, FlushSave, SaveMeta, NextChunk, Return, Goto, Location
<1>8. CASE Request(t)
  BY <1>8 DEF Request, BeginFlush, BeginRead, BeginWrite, Goto, Location
<1> QED  BY <1>1, <1>2, <1>3, <1>4, <1>5, <1>6, <1>7, <1>8 DEF Run, Start, Step

\* With one thread front() is never called on an empty list and no iterator
\* to an erased node is used, for any number of chunks and writes and any
\* cache size, 0 included.
THEOREM NoFaultAlone == Spec => [](Alone => NoFault)
<1> DEFINE J == Alone => NoFault /\ StillThere
<1>1. Init => J
  BY DEF Init, NoFault, StillThere
<1>2. TypeOK /\ J /\ [Next]_vars => J'
  <2> SUFFICES ASSUME TypeOK, Alone, NoFault, StillThere, [Next]_vars
               PROVE  NoFault' /\ StillThere'
    BY DEF Alone
  <2>1. CASE UNCHANGED vars
    BY <2>1 DEF NoFault, StillThere, vars, store, threads
  <2>2. CASE Next
    <3>1. PICK t \in Threads : Run(t) \/ Start(t)
      BY <2>2 DEF Next
    <3>2. PICK l \in Location \ {"fault"} :
            /\ pc' = [pc EXCEPT ![t] = l]
            /\ l = "pop" => list' # <<>>
            /\ l = "erase" => t \notin dangling'
      BY <3>1, Arrives
    <3>3. Threads = {t} /\ pc'[t] = l
      BY <3>2 DEF Alone, TypeOK
    <3> QED  BY <3>2, <3>3 DEF NoFault, StillThere
  <2> QED  BY <2>1, <2>2
<1> QED  BY <1>1, <1>2, TypeCorrect, PTL DEF Spec
=============================================================================
