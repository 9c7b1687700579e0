-------------------------- MODULE ChunkData_proofs --------------------------
(***************************************************************************)
(* Where the newest data of a chunk is, for any number of threads, chunks  *)
(* and writes and any cache size: in the hands of one thread, in the list, *)
(* or in the storage under the tag the file has.  From this follow the     *)
(* promises ChunkStore makes about data: no write is lost, every load      *)
(* verifies and a flush is durable, for all chunks outside overlap.        *)
(***************************************************************************)
EXTENDS ChunkStore_proofs

-----------------------------------------------------------------------------
(* The inductive invariant.                                                *)

Writing(t) == job[t].op \in {"part", "full"}
Held(i) == \E t \in Threads : Holds(t, i)

\* Thread t has pushed the data of a write to chunk i and is still evicting.
Pending(t, i) == pc[t] \in SavingAt /\ Writing(t) /\ job[t].idx = i

\* d contains the writes to chunk i that returned and those that are about to.
Has(d, i) ==
  /\ done[i] \subseteq d
  /\ \A t \in Threads : Pending(t, i) => job[t].id \in d

\* The newest data of chunk i is in the storage, ...
Stored(i) == disk[i] \in Data /\ disk[i] = tag[i] /\ Has(disk[i], i)

\* ... in an entry of the list or of a thread that is about to push it, ...
Current(e, i) ==
  /\ e.data \in Data /\ Has(e.data, i)
  /\ ~e.modified => disk[i] = tag[i] /\ disk[i] = e.data

Listed(i) == \A p \in DOMAIN list : list[p].idx = i => Current(list[p], i)

\* ... or with thread t, in one of the places where Holds(t, i).
InHand(t, i) ==
  /\ pc[t] # "push" => i \notin map
  /\ pc[t] \in {"fetch", "decrypt"} => Stored(i)
  /\ pc[t] = "decrypt" => buf[t].data = disk[i]
  /\ pc[t] = "push" =>
       Current(buf[t], i) /\ (Writing(t) => job[t].id \in buf[t].data)
  /\ pc[t] \in {"save", "settag", "ftag", "fsave"} =>
       buf[t].data \in Data /\ Has(buf[t].data, i)
  /\ pc[t] = "settag" => disk[i] = buf[t].data
  /\ pc[t] = "fsave" => tag[i] = buf[t].data

Kept(i) ==
  /\ ~Held(i) /\ i \in map => Listed(i)
  /\ ~Held(i) /\ i \notin map /\ uuid[i] => Stored(i)
  /\ \A t \in Threads : Holds(t, i) => InHand(t, i)

\* Requests work on chunks that have a uuid, and a buffer is that of the chunk
\* its thread works on.
PlacedAt(t) ==
  /\ pc[t] \in InRequest => uuid[job[t].idx]
  /\ pc[t] \in {"find", "erase", "ftag", "fsave", "meta"} => job[t].op = "flush"
  /\ pc[t] \in {"erase", "ftag", "fsave"} => uuid[job[t].idx]
  /\ pc[t] \in {"decrypt", "push"} => buf[t].idx = job[t].idx
  /\ pc[t] \in {"save", "settag"} => uuid[buf[t].idx]

Placed == \A t \in Threads : PlacedAt(t)

\* A hole has no data anywhere.
Holes ==
  \A i \in Chunks :
    ~uuid[i] => i \notin map /\ done[i] = {} /\ tag[i] = None /\ disk[i] = None

\* Writes are numbered as they come.
Numbered ==
  /\ \A i \in Chunks : done[i] \subseteq 1..issued[i]
  /\ \A t \in Threads : Writing(t) => job[t].id \in 1..issued[job[t].idx]

\* What a flush is to make durable has returned, and it leaves no entry behind.
Swept ==
  \A t \in Threads :
    /\ \A g \in goal[t] : g \in Chunks \X (1..MaxWrites) /\ g[2] \in done[g[1]]
    /\ Flushing(t) =>
         \A i \in Chunks \ overlap :
           i < job[t].idx \/ pc[t] = "meta" => i \notin map

DInv ==
  /\ Contended \subseteq overlap
  /\ Placed /\ Holes /\ Numbered /\ Swept
  /\ \A i \in Chunks \ overlap : Kept(i)

-----------------------------------------------------------------------------
(* The list: where the entries of the next list come from.                 *)

LEMMA UnlinkEntries ==
  ASSUME TypeOK, StoreIndexed, NEW i \in map, Unlink(i)
  PROVE  /\ map' = map \ {i}
         /\ \A q \in DOMAIN list' : \E p \in DOMAIN list : list[p] = list'[q]
<1>1. Pos(i) \in DOMAIN list /\ list \in Seq(Entry)
  BY PosFacts DEF TypeOK
<1> DEFINE r == RemoveAt(list, Pos(i))
           n == Len(list)
<1>2. /\ r \in Seq(Entry) /\ Len(r) = n - 1
      /\ \A p \in 1..(n - 1) : r[p] = IF p < Pos(i) THEN list[p] ELSE list[p + 1]
  BY <1>1, RemoveAtFacts
<1>3. list' = r /\ map' = map \ {i}
  BY DEF Unlink
<1> HIDE DEF r
<1>4. n \in Nat /\ DOMAIN list = 1..n /\ DOMAIN r = 1..(n - 1)
  BY <1>1, <1>2
<1>5. ASSUME NEW q \in 1..(n - 1)
      PROVE  \E p \in 1..n : list[p] = r[q]
  <2>1. q \in 1..n /\ q + 1 \in 1..n
    BY <1>4
  <2> QED  BY <1>2, <2>1
<1> QED  BY <1>3, <1>4, <1>5

\* After a push the entry pushed is the only one of its chunk.
LEMMA PushEntries ==
  ASSUME TypeOK, StoreIndexed, NEW e \in Entry, PushBack(e)
  PROVE  /\ map' = map \cup {e.idx}
         /\ \A q \in DOMAIN list' :
              IF list'[q].idx = e.idx THEN list'[q] = e
              ELSE \E p \in DOMAIN list : list[p] = list'[q]
<1> DEFINE l == IF e.idx \in map THEN RemoveAt(list, Pos(e.idx)) ELSE list
<1>1. list' = Append(l, e) /\ map' = map \cup {e.idx} /\ StoreIndexed'
  BY PushStep DEF PushBack
<1>2. l \in Seq(Entry) /\ \A q \in DOMAIN l : \E p \in DOMAIN list : list[p] = l[q]
  <2>1. CASE e.idx \in map
    <3> DEFINE k == Pos(e.idx)
               r == RemoveAt(list, k)
               n == Len(list)
    <3>1. k \in DOMAIN list /\ list \in Seq(Entry)
      BY <2>1, PosFacts DEF TypeOK
    <3> HIDE DEF k
    <3>2. /\ r \in Seq(Entry) /\ Len(r) = n - 1
          /\ \A p \in 1..(n - 1) : r[p] = IF p < k THEN list[p] ELSE list[p + 1]
      BY <3>1, RemoveAtFacts
    <3> HIDE DEF r
    <3>3. n \in Nat /\ DOMAIN list = 1..n /\ DOMAIN r = 1..(n - 1)
      BY <3>1, <3>2
    <3>4. \A q \in 1..(n - 1) : q \in 1..n /\ q + 1 \in 1..n
      BY <3>3
    <3>5. l = r
      BY <2>1 DEF r, k
    <3> HIDE DEF l
    <3> QED  BY <3>2, <3>3, <3>4, <3>5
  <2>2. CASE e.idx \notin map
    BY <2>2 DEF TypeOK
  <2> QED  BY <2>1, <2>2
<1> HIDE DEF l
<1>3. /\ DOMAIN list' = 1..(Len(l) + 1) /\ list'[Len(l) + 1] = e
      /\ \A q \in DOMAIN l : list'[q] = l[q]
      /\ DOMAIN l = 1..Len(l) /\ Len(l) \in Nat
  BY <1>1, <1>2
<1>4. ASSUME NEW q \in DOMAIN list', list'[q].idx = e.idx
      PROVE  list'[q] = e
  <2>1. Len(l) + 1 \in DOMAIN list'
    BY <1>3
  <2>2. q = Len(l) + 1
    BY <1>1, <1>3, <1>4, <2>1 DEF StoreIndexed
  <2> QED  BY <1>3, <2>2
<1>5. ASSUME NEW q \in DOMAIN list', list'[q].idx # e.idx
      PROVE  \E p \in DOMAIN list : list[p] = list'[q]
  <2>1. q \in DOMAIN l
    BY <1>3, <1>5
  <2> QED  BY <1>2, <1>3, <2>1
<1> QED  BY <1>1, <1>4, <1>5

LEMMA TailEntries ==
  ASSUME TypeOK, list # <<>>, list' = Tail(list)
  PROVE  /\ Head(list) \in Entry /\ 1 \in DOMAIN list /\ list[1] = Head(list)
         /\ \A q \in DOMAIN list' : \E p \in DOMAIN list : list[p] = list'[q]
<1>1. /\ list \in Seq(Entry) /\ Len(list) \in Nat \ {0}
      /\ DOMAIN list = 1..Len(list)
  BY DEF TypeOK
<1>2. /\ DOMAIN list' = 1..(Len(list) - 1)
      /\ \A q \in 1..(Len(list) - 1) : list'[q] = list[q + 1]
  BY <1>1
<1>3. \A q \in 1..(Len(list) - 1) : q + 1 \in 1..Len(list)
  BY <1>1
<1> QED  BY <1>1, <1>2, <1>3

-----------------------------------------------------------------------------
(* One thread moves at a time.                                             *)

\* Every other thread stays where it is.
Moves(t) ==
  \A u \in Threads \ {t} : pc'[u] = pc[u] /\ job'[u] = job[u] /\ buf'[u] = buf[u]

\* pc, job and buf change at t only.
LEMMA RunMoves ==
  ASSUME TypeOK, NEW t \in Threads, Run(t) \/ Start(t)
  PROVE  Moves(t)
<1>0. \A l : Goto(t, l) => \A u \in Threads \ {t} : pc'[u] = pc[u]
  BY DEF Goto, TypeOK
<1>1. Return(t) => Moves(t)
  BY <1>0 DEF Return, Moves, TypeOK
<1>2. NextChunk(t) => \A u \in Threads \ {t} : pc'[u] = pc[u] /\ job'[u] = job[u]
  BY <1>0 DEF NextChunk, TypeOK
<1>3. CASE Take(t) \/ Fetch(t)
  BY <1>0, <1>3 DEF Take, Fetch, Moves, TypeOK
<1>4. CASE Decrypt(t)
  <2>1. CASE ~Verifies(t) /\ job[t].op = "read"
    BY <1>1, <1>4, <2>1 DEF Decrypt
  <2>2. CASE ~(~Verifies(t) /\ job[t].op = "read")
    <3>1. PICK b : buf' = [buf EXCEPT ![t] = b]
      BY <1>4, <2>2 DEF Decrypt
    <3>2. Goto(t, "push") /\ job' = job
      BY <1>4, <2>2 DEF Decrypt
    <3> QED  BY <1>0, <3>1, <3>2 DEF Moves, TypeOK
  <2> QED  BY <2>1, <2>2
<1>5. CASE Push(t) \/ Pop(t) \/ Save(t) \/ SetTag(t)
  BY <1>0, <1>5 DEF Push, Pop, Save, SetTag, Moves, TypeOK
<1>6. CASE Check(t)
  BY <1>0, <1>1, <1>6 DEF Check, Moves
<1>7. CASE Find(t)
  BY <1>0, <1>2, <1>7 DEF Find, Moves
<1>8. CASE Erase(t)
  BY <1>0, <1>2, <1>8 DEF Erase, Moves, TypeOK
<1>9. CASE FlushTag(t) \/ FlushSave(t)
  BY <1>0, <1>2, <1>9 DEF FlushTag, FlushSave, Moves
<1>10. CASE SaveMeta(t)
  BY <1>1, <1>10 DEF SaveMeta
<1>11. CASE Request(t)
  BY <1>0, <1>11 DEF Request, BeginFlush, BeginRead, BeginWrite, Moves, TypeOK
<1> QED  BY <1>3, <1>4, <1>5, <1>6, <1>7, <1>8, <1>9, <1>10, <1>11
            DEF Run, Start, Step

\* Outside overlap a chunk that a thread holds is held by no other, and no
\* other thread flushes.
LEMMA OneHolder ==
  ASSUME Contended \subseteq overlap, NEW i \in Chunks \ overlap,
         NEW t \in Threads, Holds(t, i), NEW u \in Threads \ {t}
  PROVE  ~Holds(u, i) /\ ~Flushing(u)
BY DEF Contended

LEMMA OneHolderNext ==
  ASSUME Observe, NEW i \in Chunks \ overlap',
         NEW t \in Threads, Holds(t, i)', NEW u \in Threads \ {t}
  PROVE  ~Holds(u, i)' /\ ~Flushing(u)'
BY DEF Observe, Contended

LEMMA HoldsStays ==
  ASSUME NEW t \in Threads, Moves(t), NEW u \in Threads \ {t}, NEW i \in Chunks
  PROVE  Holds(u, i)' <=> Holds(u, i)
BY DEF Moves, Holds

\* A chunk that comes into the hands of thread t was in nobody's.
LEMMA WasFree ==
  ASSUME Observe, NEW t \in Threads, Moves(t), NEW i \in Chunks \ overlap',
         Holds(t, i)', ~Holds(t, i)
  PROVE  ~Held(i)
BY OneHolderNext, HoldsStays DEF Held

\* A chunk that thread t lets go of is in nobody's.
LEMMA IsFree ==
  ASSUME Contended \subseteq overlap, NEW t \in Threads, Moves(t),
         NEW i \in Chunks \ overlap, Holds(t, i), ~Holds(t, i)'
  PROVE  ~Held(i)'
<1> SUFFICES ASSUME NEW u \in Threads, Holds(u, i)' PROVE FALSE
  BY DEF Held
<1> QED  BY OneHolder, HoldsStays

\* What t holds after a step is kept when t has it in hand.
LEMMA TakenOver ==
  ASSUME Observe, NEW t \in Threads, NEW i \in Chunks \ overlap',
         Holds(t, i)', InHand(t, i)'
  PROVE  Kept(i)'
BY OneHolderNext DEF Kept, Held

-----------------------------------------------------------------------------
(* What a step leaves alone.                                               *)

\* No write to chunk i is added to those that data must have.
LEMMA HasStays ==
  ASSUME NEW t \in Threads, Moves(t), NEW i \in Chunks, done'[i] = done[i],
         Pending(t, i)' => Pending(t, i) /\ job'[t] = job[t]
  PROVE  \A d : Has(d, i) => Has(d, i)'
<1> SUFFICES ASSUME NEW d, Has(d, i) PROVE Has(d, i)'
  OBVIOUS
<1>1. \A u \in Threads \ {t} : Pending(u, i)' <=> Pending(u, i)
  BY DEF Pending, Writing, Moves
<1>2. \A u \in Threads \ {t} : job'[u] = job[u]
  BY DEF Moves
<1>3. \A u \in Threads : Pending(u, i)' => job'[u].id \in d
  BY <1>1, <1>2 DEF Has
<1> QED  BY <1>3 DEF Has

\* The chunk stays where it is when the step of t is not about it.
LEMMA Others ==
  ASSUME NEW t \in Threads, Moves(t), NEW i \in Chunks, Kept(i),
         ~Holds(t, i), ~Holds(t, i)',
         disk'[i] = disk[i], tag'[i] = tag[i], uuid'[i] = uuid[i],
         i \in map' <=> i \in map,
         \A q \in DOMAIN list' :
           list'[q].idx = i => \E p \in DOMAIN list : list[p] = list'[q],
         \A d : Has(d, i) => Has(d, i)'
  PROVE  Kept(i)'
<1>1. \A u \in Threads : Holds(u, i)' <=> Holds(u, i)
  BY HoldsStays
<1>2. Held(i)' <=> Held(i)
  BY <1>1 DEF Held
<1>3. Stored(i) => Stored(i)'
  BY DEF Stored
<1>4. \A e : Current(e, i) => Current(e, i)'
  BY DEF Current
<1>5. Listed(i) => Listed(i)'
  BY <1>4 DEF Listed
<1>6. ASSUME NEW u \in Threads, Holds(u, i)'
      PROVE  InHand(u, i)'
  <2>1. u # t /\ Holds(u, i) /\ InHand(u, i)
    BY <1>1, <1>6 DEF Kept
  <2>2. pc'[u] = pc[u] /\ job'[u] = job[u] /\ buf'[u] = buf[u]
    BY <2>1 DEF Moves
  <2>3. Writing(u)' <=> Writing(u)
    BY <2>2 DEF Writing
  <2> QED  BY <1>3, <1>4, <2>1, <2>2, <2>3 DEF InHand
<1> QED  BY <1>2, <1>3, <1>5, <1>6 DEF Kept

-----------------------------------------------------------------------------
(* Places, holes, numbers and what a flush has swept.                      *)

\* A chunk keeps its uuid.
LEMMA UuidStays ==
  ASSUME TypeOK, NEW t \in Threads, Run(t) \/ Start(t), NEW i \in Chunks, uuid[i]
  PROVE  uuid'[i]
<1>1. CASE Step(t)
  BY <1>1 DEF Step, Take, Fetch, Decrypt, Push, Check, Pop, Save, SetTag, Find,
              Erase, FlushTag, FlushSave, SaveMeta, filenode
<1>2. CASE Request(t)
  BY <1>2 DEF Request, BeginFlush, BeginRead, BeginWrite, filenode, TypeOK
<1> QED  BY <1>1, <1>2 DEF Run, Start

\* Where the loop over the chunks goes on.
LEMMA NextChunkFacts ==
  ASSUME TypeOK, NEW t \in Threads, NextChunk(t)
  PROVE  /\ job'[t].op = job[t].op /\ job'[t].id = job[t].id
         /\ \/ pc'[t] = "meta" /\ job'[t].idx = job[t].idx /\ job[t].idx = NumChunks
            \/ pc'[t] = "find" /\ job'[t].idx = job[t].idx + 1
<1>0. job[t] \in Job /\ job[t].idx \in Chunks
  BY DEF TypeOK, Job
<1>1. CASE job[t].idx = NumChunks
  BY <1>1 DEF NextChunk, Goto, TypeOK
<1>2. CASE job[t].idx # NumChunks
  <2> DEFINE j == [job[t] EXCEPT !.idx = @ + 1]
  <2>1. job' = [job EXCEPT ![t] = j] /\ pc'[t] = "find"
    BY <1>2 DEF NextChunk, Goto, TypeOK
  <2>2. j.op = job[t].op /\ j.id = job[t].id /\ j.idx = job[t].idx + 1
    BY <1>0 DEF Job
  <2> HIDE DEF j
  <2> QED  BY <2>1, <2>2 DEF TypeOK
<1> QED  BY <1>1, <1>2

LEMMA PlacedStep ==
  ASSUME IInv, IInv', Placed, Holes, NEW t \in Threads, Run(t) \/ Start(t)
  PROVE  Placed'
<1>0. TypeOK /\ InFlight /\ TypeOK' /\ PlacedAt(t) /\ job[t] \in Job /\ job[t].idx \in Chunks
  BY DEF IInv, Placed, TypeOK, Job
<1>1. \A i \in Chunks : uuid[i] => uuid'[i]
  BY <1>0, UuidStays
<1>2. ASSUME NEW u \in Threads \ {t}
      PROVE  PlacedAt(u)'
  <2>1. PlacedAt(u) /\ pc'[u] = pc[u] /\ job'[u] = job[u] /\ buf'[u] = buf[u]
    BY <1>0, RunMoves DEF Placed, Moves
  <2>2. job[u].idx \in Chunks /\ buf[u].idx \in Chunks
    BY <1>0 DEF TypeOK, Job, Buffer
  <2> QED  BY <1>1, <2>1, <2>2 DEF PlacedAt
<1>3. PlacedAt(t)'
  <2>0. \A l \in Location : Goto(t, l) => pc'[t] = l
    BY <1>0 DEF Goto, TypeOK
  <2>1. Return(t) => PlacedAt(t)'
    BY <1>0, <2>0 DEF Return, PlacedAt, InRequest, Location
  <2>2. NextChunk(t) /\ job[t].op = "flush" => PlacedAt(t)'
    <3> SUFFICES ASSUME NextChunk(t), job[t].op = "flush" PROVE PlacedAt(t)'
      OBVIOUS
    <3>1. pc'[t] \in {"meta", "find"}
      BY <2>0 DEF NextChunk, Location
    <3>2. job'[t].op = "flush"
      BY <1>0, NextChunkFacts
    <3> QED  BY <3>1, <3>2 DEF PlacedAt, InRequest
  <2>3. CASE Take(t)
    <3>1. pc[t] = "take" /\ job' = job /\ pc'[t] \in {"push", "fetch"}
      BY <2>0, <2>3 DEF Take, Location
    <3>2. pc'[t] = "push" => buf'[t].idx = job[t].idx
      BY <1>0, <2>0, <2>3 DEF Take, Location, TypeOK
    <3> QED  BY <1>0, <1>1, <3>1, <3>2 DEF PlacedAt, InRequest
  <2>4. CASE Fetch(t)
    <3>1. /\ pc[t] = "fetch" /\ job' = job /\ pc'[t] = "decrypt"
          /\ buf'[t].idx = job[t].idx
      BY <1>0, <2>0, <2>4 DEF Fetch, Location, TypeOK
    <3> QED  BY <1>0, <1>1, <3>1 DEF PlacedAt, InRequest
  <2>5. CASE Decrypt(t)
    <3>1. CASE ~Verifies(t) /\ job[t].op = "read"
      BY <2>1, <2>5, <3>1 DEF Decrypt
    <3>2. CASE ~(~Verifies(t) /\ job[t].op = "read")
      <4> DEFINE d == Mine(t, IF buf[t].data = None THEN {} ELSE buf[t].data)
      <4>1. /\ pc[t] = "decrypt" /\ job' = job /\ pc'[t] = "push"
            /\ buf' = [buf EXCEPT ![t] = [@ EXCEPT !.data = d, !.modified = job[t].op # "read"]]
        BY <1>0, <2>0, <2>5, <3>2 DEF Decrypt, Location, TypeOK
      <4> HIDE DEF d
      <4>2. buf'[t].idx = buf[t].idx
        BY <1>0, <4>1 DEF TypeOK, Buffer
      <4> QED  BY <1>0, <1>1, <4>1, <4>2 DEF PlacedAt, InRequest
    <3> QED  BY <3>1, <3>2
  <2>6. CASE Push(t)
    <3>1. pc[t] = "push" /\ job' = job /\ pc'[t] = "check"
      BY <2>0, <2>6 DEF Push, Location
    <3> QED  BY <1>0, <1>1, <3>1 DEF PlacedAt, InRequest
  <2>7. CASE Check(t)
    <3>1. \/ Return(t)
          \/ pc[t] = "check" /\ job' = job /\ pc'[t] = "pop"
      BY <2>0, <2>7 DEF Check, Location
    <3> QED  BY <1>0, <1>1, <2>1, <3>1 DEF PlacedAt, InRequest
  <2>8. CASE Pop(t)
    <3>1. CASE list = <<>>
      <4>1. pc'[t] = "fault"
        BY <2>0, <2>8, <3>1 DEF Pop, Location
      <4> QED  BY <4>1 DEF PlacedAt, InRequest
    <3>2. CASE list # <<>>
      <4>1. pc[t] = "pop" /\ job' = job /\ pc'[t] \in {"save", "check"}
        BY <2>0, <2>8, <3>2 DEF Pop, Location
      <4>2. buf'[t] = Head(list) /\ uuid' = uuid
        BY <1>0, <2>8, <3>2 DEF Pop, TypeOK, filenode
      <4>3. Head(list) \in Entry /\ Head(list).idx \in map
        BY <1>0, <2>8, <3>2, TailEntries DEF Pop, IInv, StoreIndexed
      <4>4. Head(list).idx \in Chunks
        BY <4>3 DEF Entry
      <4>5. uuid'[buf'[t].idx]
        BY <4>2, <4>3, <4>4 DEF Holes
      <4> QED  BY <1>0, <1>1, <4>1, <4>5 DEF PlacedAt, InRequest
    <3> QED  BY <3>1, <3>2
  <2>9. CASE Save(t) \/ SetTag(t)
    <3>1. /\ pc[t] \in {"save", "settag"} /\ job' = job /\ buf' = buf
          /\ pc'[t] \in {"settag", "check"} /\ uuid' = uuid
      BY <2>0, <2>9 DEF Save, SetTag, Location, filenode
    <3> QED  BY <1>0, <3>1 DEF PlacedAt, InRequest
  <2>10. CASE Find(t)
    <3>1. \/ NextChunk(t) /\ pc[t] = "find"
          \/ /\ pc[t] = "find" /\ job' = job /\ pc'[t] = "erase"
             /\ job[t].idx \in map
      BY <2>0, <2>10 DEF Find, Location
    <3>2. job[t].idx \in map => uuid[job[t].idx]
      BY <1>0 DEF Holes
    <3> QED  BY <1>0, <1>1, <2>2, <3>1, <3>2 DEF PlacedAt, InRequest
  <2>11. CASE Erase(t)
    <3>1. \/ NextChunk(t) /\ pc[t] = "erase"
          \/ pc[t] = "erase" /\ job' = job /\ pc'[t] \in {"ftag", "fault"}
      BY <2>0, <2>11 DEF Erase, Location
    <3> QED  BY <1>0, <1>1, <2>2, <3>1 DEF PlacedAt, InRequest
  <2>12. CASE FlushTag(t) \/ FlushSave(t)
    <3>1. \/ NextChunk(t) /\ pc[t] = "fsave"
          \/ pc[t] = "ftag" /\ job' = job /\ pc'[t] = "fsave"
      BY <2>0, <2>12 DEF FlushTag, FlushSave, Location
    <3> QED  BY <1>0, <1>1, <2>2, <3>1 DEF PlacedAt, InRequest
  <2>13. CASE SaveMeta(t)
    BY <2>1, <2>13 DEF SaveMeta
  <2>14. CASE BeginFlush(t)
    <3>1. job'[t].op = "flush" /\ pc'[t] = "find"
      BY <1>0, <2>0, <2>14 DEF BeginFlush, Location, TypeOK
    <3> QED  BY <3>1 DEF PlacedAt, InRequest
  <2>15. ASSUME NEW i \in Chunks, BeginRead(t, i)
         PROVE  PlacedAt(t)'
    <3>1. job'[t].idx = i /\ pc'[t] = "take" /\ uuid' = uuid /\ uuid[i]
      BY <1>0, <2>0, <2>15 DEF BeginRead, Location, TypeOK, filenode
    <3> QED  BY <3>1 DEF PlacedAt, InRequest
  <2>16. ASSUME NEW i \in Chunks, NEW op \in {"part", "full"}, BeginWrite(t, i, op)
         PROVE  PlacedAt(t)'
    <3>1. job'[t].idx = i /\ pc'[t] \in {"take", "push"} /\ uuid'[i]
      BY <1>0, <2>0, <2>16 DEF BeginWrite, Location, TypeOK
    <3>2. pc'[t] = "push" => buf'[t].idx = i
      BY <1>0, <2>0, <2>16 DEF BeginWrite, Location, TypeOK
    <3> QED  BY <3>1, <3>2 DEF PlacedAt, InRequest
  <2> QED  BY <2>3, <2>4, <2>5, <2>6, <2>7, <2>8, <2>9, <2>10, <2>11, <2>12,
              <2>13, <2>14, <2>15, <2>16 DEF Run, Start, Step, Request
<1> QED  BY <1>2, <1>3 DEF Placed

LEMMA HolesStep ==
  ASSUME IInv, IInv', Placed, Holes, NEW t \in Threads, Run(t) \/ Start(t)
  PROVE  Holes'
<1> SUFFICES ASSUME NEW i \in Chunks, ~uuid'[i]
             PROVE  i \notin map' /\ done'[i] = {} /\ tag'[i] = None /\ disk'[i] = None
  BY DEF Holes
<1>0. TypeOK /\ StoreIndexed /\ InFlight /\ PlacedAt(t) /\ job[t].idx \in Chunks
      /\ buf[t].idx \in Chunks
  BY DEF IInv, Placed, TypeOK, Job, Buffer
<1>1. ~uuid[i] /\ i \notin map /\ done[i] = {} /\ tag[i] = None /\ disk[i] = None
  BY <1>0, UuidStays DEF Holes
<1>2. CASE Take(t)
  BY <1>0, <1>1, <1>2, UnlinkEntries DEF Take, filenode, storage, history, store
<1>3. CASE Fetch(t) \/ Decrypt(t) \/ Find(t) \/ Request(t)
  BY <1>1, <1>3 DEF Fetch, Decrypt, Find, Request, BeginFlush, BeginRead, BeginWrite,
                    filenode, storage, history, store
<1>4. CASE Push(t)
  <2>1. map' = map \cup {buf[t].idx}
    BY <1>0, <1>4 DEF Push, PushBack
  <2>2. i # buf[t].idx
    BY <1>0, <1>1, <1>4 DEF Push, PlacedAt, InRequest
  <2> QED  BY <1>1, <1>4, <2>1, <2>2 DEF Push, filenode, storage, history
<1>5. CASE Check(t)
  <2>1. i # job[t].idx
    BY <1>0, <1>1, <1>5 DEF Check, PlacedAt, InRequest
  <2> QED  BY <1>0, <1>1, <1>5, <2>1 DEF Check, filenode, storage, store, TypeOK
<1>6. CASE Pop(t)
  BY <1>1, <1>6 DEF Pop, filenode, storage, history, store
<1>7. CASE Save(t) \/ SetTag(t)
  <2>1. i # buf[t].idx
    BY <1>0, <1>1, <1>7 DEF Save, SetTag, PlacedAt
  <2> QED  BY <1>0, <1>1, <1>7, <2>1
           DEF Save, SetTag, TypeOK, filenode, storage, history, store
<1>8. CASE Erase(t)
  BY <1>1, <1>8 DEF Erase, Unlink, filenode, storage, history, store
<1>9. CASE FlushTag(t) \/ FlushSave(t)
  <2>1. i # job[t].idx
    BY <1>0, <1>1, <1>9 DEF FlushTag, FlushSave, PlacedAt
  <2> QED  BY <1>0, <1>1, <1>9, <2>1
           DEF FlushTag, FlushSave, TypeOK, filenode, storage, history, store
<1>10. CASE SaveMeta(t)
  BY <1>1, <1>10 DEF SaveMeta, filenode, store
<1> QED  BY <1>2, <1>3, <1>4, <1>5, <1>6, <1>7, <1>8, <1>9, <1>10 DEF Run, Start, Step

LEMMA NumberedStep ==
  ASSUME IInv, IInv', Placed, Numbered, NEW t \in Threads, Run(t) \/ Start(t)
  PROVE  Numbered'
<1>0. /\ TypeOK /\ InFlight /\ TypeOK' /\ Moves(t)
      /\ job[t] \in Job /\ job[t].idx \in Chunks
  BY RunMoves DEF IInv, TypeOK, Job
<1>1. \A i \in Chunks : issued[i] \in Nat /\ issued'[i] \in Nat /\ issued[i] <= issued'[i]
  <2>1. CASE issued' = issued
    BY <1>0, <2>1 DEF TypeOK
  <2>2. CASE issued' # issued
    <3>1. \E i \in Chunks : issued' = [issued EXCEPT ![i] = @ + 1]
      BY <2>2 DEF Run, Start, Step, Request, Take, Fetch, Decrypt, Push, Check, Pop,
                  Save, SetTag, Find, Erase, FlushTag, FlushSave, SaveMeta,
                  BeginFlush, BeginRead, BeginWrite, history
    <3> QED  BY <1>0, <3>1 DEF TypeOK
  <2> QED  BY <2>1, <2>2
<1>2. ASSUME NEW i \in Chunks
      PROVE  done'[i] \subseteq 1..issued'[i]
  <2>1. done[i] \subseteq 1..issued'[i]
    BY <1>1 DEF Numbered
  <2>2. CASE done' = done
    BY <2>1, <2>2
  <2>3. CASE done' # done
    <3>1. /\ Check(t) /\ job[t].op # "read" /\ issued' = issued
          /\ done' = [done EXCEPT ![job[t].idx] = @ \cup {job[t].id}]
      BY <2>3 DEF Run, Start, Step, Request, Take, Fetch, Decrypt, Push, Check, Pop,
                  Save, SetTag, Find, Erase, FlushTag, FlushSave, SaveMeta,
                  BeginFlush, BeginRead, BeginWrite, history
    <3>2. Writing(t)
      BY <1>0, <3>1 DEF Check, InFlight, InRequest, Job, Writing
    <3> QED  BY <1>0, <2>1, <3>1, <3>2 DEF Numbered, TypeOK
  <2> QED  BY <2>2, <2>3
<1>3. ASSUME NEW u \in Threads, Writing(u)'
      PROVE  job'[u].id \in 1..issued'[job'[u].idx]
  <2>0. job'[u].idx \in Chunks /\ job[u].idx \in Chunks
    BY <1>0 DEF TypeOK, Job
  <2>1. CASE job'[u] = job[u]
    <3>1. Writing(u) /\ job[u].id \in 1..issued[job[u].idx]
      BY <1>3, <2>1 DEF Numbered, Writing
    <3> QED  BY <1>1, <2>0, <2>1, <3>1
  <2>2. CASE job'[u] # job[u]
    <3>1. u = t
      BY <1>0, <2>2 DEF Moves
    <3>2. CASE Return(t)
      BY <1>0, <1>3, <3>1, <3>2 DEF Return, TypeOK, NoJob, Writing
    <3>3. CASE NextChunk(t) /\ pc[t] \in {"find", "erase", "fsave"}
      <4>1. job'[t].op = "flush"
        BY <1>0, <3>3, NextChunkFacts DEF Placed, PlacedAt
      <4> QED  BY <1>3, <3>1, <4>1 DEF Writing
    <3>4. CASE \E i \in Chunks, op \in {"part", "full"} : BeginWrite(t, i, op)
      <4>1. PICK i \in Chunks, op \in {"part", "full"} : BeginWrite(t, i, op)
        BY <3>4
      <4>2. /\ job'[t] = [op |-> op, idx |-> i, id |-> issued[i] + 1]
            /\ issued'[i] = issued[i] + 1 /\ issued[i] \in Nat
        BY <1>0, <1>1, <4>1 DEF BeginWrite, TypeOK
      <4> QED  BY <3>1, <4>2
    <3>5. CASE BeginFlush(t) \/ \E i \in Chunks : BeginRead(t, i)
      BY <1>0, <1>3, <3>1, <3>5 DEF BeginFlush, BeginRead, TypeOK, Writing
    <3> QED  BY <2>2, <3>1, <3>2, <3>3, <3>4, <3>5
             DEF Run, Start, Step, Request, Take, Fetch, Decrypt, Push, Check, Pop,
                 Save, SetTag, Find, Erase, FlushTag, FlushSave, SaveMeta
  <2> QED  BY <2>1, <2>2
<1> QED  BY <1>2, <1>3 DEF Numbered

LEMMA SweptStep ==
  ASSUME IInv, IInv', DInv, NEW t \in Threads, Run(t) \/ Start(t), Observe
  PROVE  Swept'
<1>0. /\ TypeOK /\ TypeOK' /\ InFlight /\ PlacedAt(t) /\ Moves(t)
      /\ job[t] \in Job /\ job[t].idx \in Chunks
      /\ overlap \subseteq overlap' /\ Contended \subseteq overlap
      /\ StoreIndexed /\ Swept
  BY RunMoves DEF IInv, DInv, Placed, TypeOK, Job, Observe
<1>1. ASSUME NEW u \in Threads, NEW g \in goal'[u]
      PROVE  g \in Chunks \X (1..MaxWrites) /\ g[2] \in done'[g[1]]
  <2>1. \A i \in Chunks : done[i] \subseteq done'[i]
    <3>1. CASE done' = done
      BY <3>1
    <3>2. CASE done' # done
      <4>1. done' = [done EXCEPT ![job[t].idx] = @ \cup {job[t].id}]
        BY <3>2 DEF Run, Start, Step, Request, Take, Fetch, Decrypt, Push, Check, Pop,
                    Save, SetTag, Find, Erase, FlushTag, FlushSave, SaveMeta,
                    BeginFlush, BeginRead, BeginWrite, history
      <4> QED  BY <1>0, <4>1 DEF TypeOK
    <3> QED  BY <3>1, <3>2
  <2>2. CASE goal'[u] \subseteq goal[u]
    <3>1. g \in Chunks \X (1..MaxWrites) /\ g[2] \in done[g[1]]
      BY <1>0, <1>1, <2>2 DEF Swept
    <3> QED  BY <2>1, <3>1
  <2>3. CASE ~(goal'[u] \subseteq goal[u])
    <3>1. /\ done' = done
          /\ goal' = [goal EXCEPT ![t] = {x \in Chunks \X (1..MaxWrites) : x[2] \in done[x[1]]}]
      BY <1>0, <2>3
         DEF Run, Start, Step, Request, Take, Fetch, Decrypt, Push, Check, Pop,
             Save, SetTag, Find, Erase, FlushTag, FlushSave, SaveMeta,
             BeginFlush, BeginRead, BeginWrite, history, TypeOK
    <3>2. u = t /\ g \in {x \in Chunks \X (1..MaxWrites) : x[2] \in done[x[1]]}
      BY <1>0, <1>1, <2>3, <3>1 DEF TypeOK
    <3> QED  BY <3>1, <3>2
  <2> QED  BY <2>2, <2>3
<1>2. \/ map' \subseteq map
      \/ Push(t) /\ map' = map \cup {job[t].idx}
  <2>1. CASE Push(t)
    BY <1>0, <2>1 DEF Push, PushBack, PlacedAt
  <2>2. CASE ~Push(t)
    BY <2>2 DEF Run, Start, Step, Request, Take, Fetch, Decrypt, Check, Pop,
                Save, SetTag, Find, Erase, FlushTag, FlushSave, SaveMeta,
                BeginFlush, BeginRead, BeginWrite, Unlink, store
  <2> QED  BY <2>1, <2>2
<1>3. ASSUME NEW u \in Threads \ {t}, Flushing(u)', NEW i \in Chunks \ overlap',
             i < job'[u].idx \/ pc'[u] = "meta"
      PROVE  i \notin map'
  <2>1. Flushing(u) /\ i \notin overlap /\ i \notin map
    BY <1>0, <1>3 DEF Flushing, Moves, Swept
  <2>2. CASE Push(t) /\ i = job[t].idx
    <3>1. Holds(t, i)
      BY <2>2 DEF Push, Holds
    <3> QED  BY <1>0, <1>3, <2>1, <3>1, OneHolder
  <2> QED  BY <1>2, <2>1, <2>2
<1>4. ASSUME Flushing(t)', NEW i \in Chunks \ overlap',
             i < job'[t].idx \/ pc'[t] = "meta"
      PROVE  i \notin map'
  <2>0. i \in Chunks \ overlap
    BY <1>0
  <2>1. CASE BeginFlush(t)
    BY <1>0, <1>4, <2>1 DEF BeginFlush, Goto, TypeOK, Chunks
  <2>2. CASE Find(t) \/ Erase(t) \/ FlushTag(t) \/ FlushSave(t)
    <3>1. Flushing(t) /\ map' \subseteq map
      BY <1>0, <1>2, <2>2 DEF Find, Erase, FlushTag, FlushSave, Push, PlacedAt, Flushing
    <3>2. i < job[t].idx => i \notin map'
      BY <1>0, <2>0, <3>1 DEF Swept
    <3>3. CASE NextChunk(t) /\ ~FlushTag(t)
      <4>1. i <= job[t].idx
        BY <1>0, <1>4, <3>3, NextChunkFacts, StoreAssumption DEF Chunks
      <4>2. job[t].idx \notin overlap => job[t].idx \notin map'
        <5>1. CASE Find(t)
          BY <1>0, <3>3, <5>1 DEF Find, Goto, NextChunk, TypeOK
        <5>2. CASE Erase(t)
          BY <1>0, <3>3, <5>2 DEF Erase, Unlink, NextChunk, Goto, TypeOK
        <5>3. CASE FlushSave(t)
          <6>1. Holds(t, job[t].idx) /\ pc[t] = "fsave" /\ map' = map
            BY <5>3 DEF FlushSave, Holds, store
          <6> QED  BY <1>0, <6>1 DEF DInv, Kept, InHand
        <5> QED  BY <2>2, <3>3, <5>1, <5>2, <5>3
      <4> QED  BY <1>0, <2>0, <3>2, <4>1, <4>2 DEF Chunks
    <3>4. CASE ~(NextChunk(t) /\ ~FlushTag(t))
      <4>1. job' = job /\ pc'[t] # "meta"
        BY <1>0, <2>2, <3>4 DEF Find, Erase, FlushTag, FlushSave, Goto, TypeOK
      <4> QED  BY <1>4, <3>2, <4>1
    <3> QED  BY <3>3, <3>4
  <2>3. CASE ~(BeginFlush(t) \/ Find(t) \/ Erase(t) \/ FlushTag(t) \/ FlushSave(t))
    <3>1. CASE pc[t] \in InRequest
      <4>1. job[t].op # "flush"
        BY <1>0, <3>1 DEF InFlight
      <4>2. job' = job \/ Return(t)
        BY <2>3, <3>1 DEF Run, Start, Step, Request, Take, Fetch, Decrypt, Push, Check,
              Pop, Save, SetTag, SaveMeta, BeginRead, BeginWrite, InRequest
      <4> QED  BY <1>0, <1>4, <4>1, <4>2 DEF Flushing, Return, Goto, TypeOK
    <3>2. CASE SaveMeta(t)
      BY <1>0, <1>4, <3>2 DEF SaveMeta, Return, Goto, Flushing, TypeOK
    <3>3. CASE \E k \in Chunks : \/ BeginRead(t, k)
                                 \/ \E op \in {"part", "full"} : BeginWrite(t, k, op)
      BY <1>0, <1>4, <3>3 DEF BeginRead, BeginWrite, Flushing, TypeOK
    <3> QED  BY <2>3, <3>1, <3>2, <3>3
             DEF Run, Start, Step, Request, Take, Fetch, Decrypt, Push, Check,
              Pop, Save, SetTag, InRequest
  <2> QED  BY <2>1, <2>2, <2>3
<1> QED  BY <1>1, <1>3, <1>4 DEF Swept

-----------------------------------------------------------------------------
(* The newest data is kept: one lemma per action.                          *)

\* A step of t that adds no entry of chunk i to the list and changes nothing
\* else about it.
LEMMA NotAbout ==
  ASSUME NEW t \in Threads, Moves(t), NEW i \in Chunks, Kept(i),
         ~Holds(t, i), ~Holds(t, i)',
         disk'[i] = disk[i], tag'[i] = tag[i], uuid'[i] = uuid[i], done'[i] = done[i],
         i \in map' <=> i \in map,
         \A q \in DOMAIN list' :
           list'[q].idx = i => \E p \in DOMAIN list : list[p] = list'[q],
         Pending(t, i)' => Pending(t, i) /\ job'[t] = job[t]
  PROVE  Kept(i)'
BY HasStays, Others

\* The same when the list and the index are as before.
LEMMA Quiet ==
  ASSUME NEW t \in Threads, Moves(t), NEW i \in Chunks, Kept(i),
         ~Holds(t, i), ~Holds(t, i)', list' = list, map' = map,
         disk'[i] = disk[i], tag'[i] = tag[i], uuid'[i] = uuid[i], done'[i] = done[i],
         Pending(t, i)' => Pending(t, i) /\ job'[t] = job[t]
  PROVE  Kept(i)'
<1>1. \A q \in DOMAIN list' :
        list'[q].idx = i => \E p \in DOMAIN list : list[p] = list'[q]
  OBVIOUS
<1> QED  BY <1>1, NotAbout

\* What every lemma below starts from.
LEMMA Before ==
  ASSUME IInv, IInv', DInv, NEW t \in Threads, Run(t) \/ Start(t), Observe,
         NEW i \in Chunks \ overlap'
  PROVE  /\ Moves(t) /\ Kept(i) /\ i \in Chunks \ overlap
         /\ TypeOK /\ StoreIndexed /\ InFlight /\ TypeOK' /\ StoreIndexed' /\ InFlight'
         /\ PlacedAt(t) /\ Contended \subseteq overlap
         /\ job[t] \in Job /\ job[t].idx \in Chunks
BY RunMoves DEF IInv, DInv, Placed, TypeOK, Job, Observe

LEMMA BeginFlushKept ==
  ASSUME IInv, IInv', DInv, NEW t \in Threads, Run(t) \/ Start(t), Observe,
         NEW i \in Chunks \ overlap', BeginFlush(t)
  PROVE  Kept(i)'
<1>0. Moves(t) /\ Kept(i) /\ i \in Chunks /\ TypeOK
  BY Before
<1>1. /\ pc[t] = "idle" /\ pc'[t] = "find"
      /\ UNCHANGED <<list, map, disk, tag, uuid, done>>
  BY <1>0 DEF BeginFlush, Goto, TypeOK, store, filenode, storage
<1>2. ~Holds(t, i) /\ ~Holds(t, i)' /\ ~Pending(t, i)'
  BY <1>1 DEF Holds, Pending, SavingAt
<1> QED  BY <1>0, <1>1, <1>2, Quiet

LEMMA BeginReadKept ==
  ASSUME IInv, IInv', DInv, NEW t \in Threads, Run(t) \/ Start(t), Observe,
         NEW i \in Chunks \ overlap', NEW k \in Chunks, BeginRead(t, k)
  PROVE  Kept(i)'
<1>0. Moves(t) /\ Kept(i) /\ i \in Chunks /\ TypeOK
  BY Before
<1>1. /\ pc[t] = "idle" /\ pc'[t] = "take"
      /\ UNCHANGED <<list, map, disk, tag, uuid, done>>
  BY <1>0 DEF BeginRead, Goto, TypeOK, store, filenode, storage, history
<1>2. ~Holds(t, i) /\ ~Holds(t, i)' /\ ~Pending(t, i)'
  BY <1>1 DEF Holds, Pending, SavingAt
<1> QED  BY <1>0, <1>1, <1>2, Quiet

LEMMA BeginWriteKept ==
  ASSUME IInv, IInv', DInv, NEW t \in Threads, Run(t) \/ Start(t), Observe,
         NEW i \in Chunks \ overlap', NEW k \in Chunks, NEW op \in {"part", "full"},
         BeginWrite(t, k, op)
  PROVE  Kept(i)'
<1>0. /\ Moves(t) /\ Kept(i) /\ i \in Chunks /\ TypeOK /\ Placed /\ Holes /\ Numbered
      /\ InFlight'
  BY Before DEF DInv
<1>1. /\ pc[t] = "idle" /\ uuid' = [uuid EXCEPT ![k] = TRUE]
      /\ UNCHANGED <<list, map, disk, tag, done>>
      /\ job'[t] = [op |-> op, idx |-> k, id |-> issued[k] + 1]
      /\ ~Holds(t, i)
  BY <1>0 DEF BeginWrite, TypeOK, store, storage, Holds
<1>2. CASE uuid[k] /\ op = "part"
  <2>1. pc'[t] = "take" /\ uuid'[i] = uuid[i]
    BY <1>0, <1>1, <1>2 DEF BeginWrite, Goto, TypeOK
  <2>2. ~Holds(t, i)' /\ ~Pending(t, i)'
    BY <2>1 DEF Holds, Pending, SavingAt
  <2> QED  BY <1>0, <1>1, <2>1, <2>2, Quiet
<1>3. CASE ~(uuid[k] /\ op = "part")
  <2>0. PICK d : d = IF op = "full" THEN 1..(issued[k] + 1) ELSE {issued[k] + 1}
    OBVIOUS
  <2>1. pc'[t] = "push" /\ buf'[t] = [idx |-> k, data |-> d, modified |-> TRUE]
    BY <1>0, <1>3, <2>0 DEF BeginWrite, Goto, TypeOK
  <2>2. ~Pending(t, i)'
    BY <2>1 DEF Pending, SavingAt
  <2>3. CASE i # k
    <3>1. ~Holds(t, i)' /\ uuid'[i] = uuid[i]
      BY <1>0, <1>1, <2>1, <2>3 DEF Holds, TypeOK
    <3> QED  BY <1>0, <1>1, <2>2, <3>1, Quiet
  <2>4. CASE i = k
    <3>1. Holds(t, i)' /\ issued[i] \in Nat
      BY <1>0, <1>1, <2>1, <2>4 DEF Holds, TypeOK
    <3>2. done[i] \subseteq d /\ \A u \in Threads : Pending(u, i) => job[u].id \in d
      <4>1. CASE op = "full"
        BY <1>0, <2>0, <2>4, <3>1, <4>1 DEF Numbered, Pending
      <4>2. CASE op # "full"
        <5>1. ~uuid[i]
          BY <1>3, <2>4, <4>2
        <5>2. done[i] = {} /\ \A u \in Threads : ~Pending(u, i)
          BY <1>0, <5>1 DEF Holes, Placed, PlacedAt, Pending, SavingAt, InRequest
        <5> QED  BY <5>2
      <4> QED  BY <4>1, <4>2
    <3>3. Has(d, i)
      BY <3>2 DEF Has
    <3>4. Has(d, i)'
      BY <1>0, <1>1, <2>2, <3>3, HasStays
    <3>5. d \in Data
      BY <1>0, <2>1 DEF InFlight, Entry
    <3>6. job'[t].id \in d
      BY <1>1, <2>0, <2>4, <3>1
    <3>7. InHand(t, i)'
      BY <1>1, <2>1, <3>4, <3>5, <3>6 DEF InHand, Current
    <3> QED  BY <3>1, <3>7, TakenOver
  <2> QED  BY <2>3, <2>4
<1> QED  BY <1>2, <1>3

\* The entry, or the chunk file, comes into the hands of t.
LEMMA TakeKept ==
  ASSUME IInv, IInv', DInv, NEW t \in Threads, Run(t) \/ Start(t), Observe,
         NEW i \in Chunks \ overlap', Take(t)
  PROVE  Kept(i)'
<1> DEFINE k == job[t].idx
<1>0. /\ Moves(t) /\ Kept(i) /\ i \in Chunks /\ TypeOK /\ StoreIndexed /\ InFlight
      /\ PlacedAt(t) /\ TypeOK' /\ InFlight'
  BY Before
<1>1. /\ pc[t] = "take" /\ pc'[t] \in {"push", "fetch"}
      /\ UNCHANGED <<disk, tag, uuid, done, job>> /\ uuid[k]
  BY <1>0 DEF Take, Goto, TypeOK, filenode, storage, history, PlacedAt, InRequest
<1>2. ~Holds(t, i) /\ ~Pending(t, i)'
  BY <1>1 DEF Holds, Pending, SavingAt
<1>3. \A d : Has(d, i) => Has(d, i)'
  BY <1>0, <1>1, <1>2, HasStays
<1>4. CASE i # k
  <2>1. ~Holds(t, i)'
    BY <1>1, <1>4 DEF Holds
  <2>2. CASE k \in map
    <3>1. /\ map' = map \ {k}
          /\ \A q \in DOMAIN list' : \E p \in DOMAIN list : list[p] = list'[q]
      BY <1>0, <2>2, UnlinkEntries DEF Take
    <3> QED  BY <1>0, <1>1, <1>2, <1>4, <2>1, <3>1, NotAbout
  <2>3. CASE k \notin map
    <3>1. list' = list /\ map' = map
      BY <2>3 DEF Take, store
    <3> QED  BY <1>0, <1>1, <1>2, <2>1, <3>1, Quiet
  <2> QED  BY <2>2, <2>3
<1>5. CASE i = k
  <2>1. Holds(t, i)'
    BY <1>1, <1>5 DEF Holds
  <2>2. ~Held(i)
    BY <1>0, <1>2, <2>1, WasFree
  <2>3. CASE k \in map
    <3>1. Pos(i) \in DOMAIN list /\ list[Pos(i)].idx = i /\ Cached(i) = list[Pos(i)]
      BY <1>0, <1>5, <2>3, PosFacts DEF Cached
    <3>2. PICK e : e = Cached(i)
      OBVIOUS
    <3>3. PICK d : d = Mine(t, e.data)
      OBVIOUS
    <3>4. Current(e, i)
      BY <1>0, <1>5, <2>2, <2>3, <3>1, <3>2 DEF Kept, Listed
    <3>5. /\ pc'[t] = "push"
          /\ buf'[t] = [idx |-> i, data |-> d,
                        modified |-> e.modified \/ job[t].op # "read"]
      BY <1>0, <1>5, <2>3, <3>2, <3>3 DEF Take, Goto, TypeOK
    <3>6. d \in Data
      BY <1>0, <3>5 DEF InFlight, Entry
    <3>7. /\ e.data \subseteq d /\ (job[t].op = "read" => d = e.data)
          /\ (Writing(t) => job[t].id \in d)
      BY <3>3 DEF Mine, Writing
    <3>8. Has(e.data, i)'
      BY <1>3, <3>4 DEF Current
    <3>9. Has(d, i)'
      BY <3>7, <3>8 DEF Has
    <3>10. Writing(t)' => job'[t].id \in d
      BY <1>1, <3>7 DEF Writing
    <3>11. ~buf'[t].modified => disk'[i] = tag'[i] /\ disk'[i] = d
      <4>1. e.modified \in BOOLEAN
        BY <1>0, <1>5, <2>3, <3>2, PosFacts DEF Entry
      <4>2. buf'[t].modified = (e.modified \/ job[t].op # "read")
        BY <3>5
      <4>3. ~buf'[t].modified => ~e.modified /\ job[t].op = "read"
        BY <4>1, <4>2
      <4> QED  BY <1>1, <3>4, <3>7, <4>3 DEF Current
    <3>12. InHand(t, i)'
      BY <3>5, <3>6, <3>9, <3>10, <3>11 DEF InHand, Current
    <3> QED  BY <1>0, <2>1, <3>12, TakenOver
  <2>4. CASE k \notin map
    <3>1. pc'[t] = "fetch" /\ map' = map
      BY <1>0, <2>4 DEF Take, Goto, TypeOK, store
    <3>2. Stored(i)
      BY <1>0, <1>1, <1>5, <2>2, <2>4 DEF Kept
    <3>3. Stored(i)'
      BY <1>1, <1>3, <3>2 DEF Stored
    <3>4. InHand(t, i)'
      BY <1>5, <2>4, <3>1, <3>3 DEF InHand
    <3> QED  BY <1>0, <2>1, <3>4, TakenOver
  <2> QED  BY <2>3, <2>4
<1> QED  BY <1>4, <1>5

LEMMA FetchKept ==
  ASSUME IInv, IInv', DInv, NEW t \in Threads, Run(t) \/ Start(t), Observe,
         NEW i \in Chunks \ overlap', Fetch(t)
  PROVE  Kept(i)'
<1> DEFINE k == job[t].idx
<1>0. /\ Moves(t) /\ Kept(i) /\ i \in Chunks /\ TypeOK
  BY Before
<1>1. /\ pc[t] = "fetch" /\ pc'[t] = "decrypt" /\ buf'[t].data = disk[k]
      /\ UNCHANGED <<list, map, disk, tag, uuid, done, job>>
  BY <1>0 DEF Fetch, Goto, TypeOK, store, filenode, storage, history
<1>2. ~Pending(t, i)' /\ (Holds(t, i) <=> i = k) /\ (Holds(t, i)' <=> i = k)
  BY <1>1 DEF Holds, Pending, SavingAt
<1>3. CASE i # k
  BY <1>0, <1>1, <1>2, <1>3, Quiet
<1>4. CASE i = k
  <2>1. Stored(i) /\ i \notin map
    BY <1>0, <1>1, <1>2, <1>4 DEF Kept, InHand
  <2>2. Stored(i)'
    BY <1>0, <1>1, <1>2, <2>1, HasStays DEF Stored
  <2>3. InHand(t, i)'
    BY <1>1, <1>4, <2>1, <2>2 DEF InHand
  <2> QED  BY <1>2, <1>4, <2>3, TakenOver
<1> QED  BY <1>3, <1>4

\* Outside overlap the load verifies.
LEMMA DecryptKept ==
  ASSUME IInv, IInv', DInv, NEW t \in Threads, Run(t) \/ Start(t), Observe,
         NEW i \in Chunks \ overlap', Decrypt(t)
  PROVE  Kept(i)'
<1> DEFINE k == job[t].idx
<1>0. /\ Moves(t) /\ Kept(i) /\ i \in Chunks /\ TypeOK /\ InFlight'
  BY Before
<1>1. /\ pc[t] = "decrypt" /\ pc'[t] \in {"push", "idle"}
      /\ UNCHANGED <<list, map, disk, tag, uuid, done>>
  BY <1>0 DEF Decrypt, Return, Goto, TypeOK, store, filenode, storage, history
<1>2. ~Pending(t, i)' /\ (Holds(t, i) <=> i = k)
  BY <1>1 DEF Holds, Pending, SavingAt
<1>3. job' = job \/ pc'[t] = "idle"
  BY <1>0 DEF Decrypt, Return, Goto, TypeOK
<1>4. CASE i # k
  <2>1. ~Holds(t, i)'
    BY <1>1, <1>3, <1>4 DEF Holds
  <2> QED  BY <1>0, <1>1, <1>2, <1>4, <2>1, Quiet
<1>5. CASE i = k
  <2>1. Stored(i) /\ buf[t].data = disk[i]
    BY <1>0, <1>1, <1>2, <1>5 DEF Kept, InHand
  <2>2. buf[t].data # None /\ Verifies(t)
    BY <1>5, <2>1 DEF Stored, Verifies, Data, None
  <2>3. PICK x : x = buf[t].data
    OBVIOUS
  <2>4. PICK d : d = Mine(t, x)
    OBVIOUS
  <2>5. /\ pc'[t] = "push" /\ job' = job
        /\ buf' = [buf EXCEPT ![t] = [@ EXCEPT !.data = d, !.modified = job[t].op # "read"]]
    BY <1>0, <2>2, <2>3, <2>4 DEF Decrypt, Goto, TypeOK
  <2>6. buf'[t].data = d /\ buf'[t].modified = (job[t].op # "read")
    BY <1>0, <2>5 DEF TypeOK, Buffer
  <2>7. x \subseteq d /\ (job[t].op = "read" => d = x) /\ (Writing(t) => job[t].id \in d)
    BY <2>4 DEF Mine, Writing
  <2>8. Has(x, i)
    BY <2>1, <2>3 DEF Stored
  <2>9. Has(x, i)'
    BY <1>0, <1>1, <1>2, <2>8, HasStays
  <2>10. Has(d, i)' /\ d \in Data
    BY <1>0, <2>5, <2>6, <2>7, <2>9 DEF Has, InFlight, Entry
  <2>11. Writing(t)' => job'[t].id \in d
    BY <2>5, <2>7 DEF Writing
  <2>12. ~buf'[t].modified => disk'[i] = tag'[i] /\ disk'[i] = d
    BY <1>1, <2>1, <2>3, <2>6, <2>7 DEF Stored
  <2>13. InHand(t, i)'
    BY <2>5, <2>6, <2>10, <2>11, <2>12 DEF InHand, Current
  <2>14. Holds(t, i)'
    BY <1>5, <2>5 DEF Holds
  <2> QED  BY <2>13, <2>14, TakenOver
<1> QED  BY <1>4, <1>5

\* The thread lets go of the chunk: its entry is the only one.
LEMMA PushKept ==
  ASSUME IInv, IInv', DInv, NEW t \in Threads, Run(t) \/ Start(t), Observe,
         NEW i \in Chunks \ overlap', Push(t)
  PROVE  Kept(i)'
<1> DEFINE k == job[t].idx
<1>0. /\ Moves(t) /\ Kept(i) /\ i \in Chunks \ overlap /\ TypeOK /\ StoreIndexed
      /\ InFlight /\ PlacedAt(t) /\ Contended \subseteq overlap
  BY Before
<1>1. /\ pc[t] = "push" /\ pc'[t] = "check" /\ buf[t] \in Entry /\ buf[t].idx = k
      /\ UNCHANGED <<disk, tag, uuid, done, job>>
  BY <1>0 DEF Push, Goto, TypeOK, filenode, storage, history, InFlight, PlacedAt
<1>2. PICK e : e = buf[t]
  OBVIOUS
<1>3. /\ map' = map \cup {k}
      /\ \A q \in DOMAIN list' :
           IF list'[q].idx = k THEN list'[q] = e
           ELSE \E p \in DOMAIN list : list[p] = list'[q]
  BY <1>0, <1>1, <1>2, PushEntries DEF Push
<1>4. (Holds(t, i) <=> i = k) /\ ~Holds(t, i)'
  BY <1>1 DEF Holds
<1>5. CASE i # k
  <2>1. ~Pending(t, i)'
    BY <1>1, <1>5 DEF Pending
  <2>2. \A q \in DOMAIN list' :
           list'[q].idx = i => \E p \in DOMAIN list : list[p] = list'[q]
    BY <1>3, <1>5
  <2>3. i \in map' <=> i \in map
    BY <1>3, <1>5
  <2> QED  BY <1>0, <1>1, <1>4, <1>5, <2>1, <2>2, <2>3, NotAbout
<1>6. CASE i = k
  <2>1. Current(e, i) /\ (Writing(t) => job[t].id \in e.data)
    BY <1>0, <1>1, <1>2, <1>4, <1>6 DEF Kept, InHand
  <2>2. \A u \in Threads \ {t} : Pending(u, i)' => Pending(u, i) /\ job'[u] = job[u]
    BY <1>0 DEF Moves, Pending, Writing
  <2>3. Pending(t, i)' => job'[t].id \in e.data
    BY <1>1, <2>1 DEF Pending, Writing
  <2>4. Has(e.data, i)'
    BY <1>1, <2>1, <2>2, <2>3 DEF Current, Has
  <2>5. Current(e, i)'
    BY <1>1, <2>1, <2>4 DEF Current
  <2>6. Listed(i)'
    BY <1>3, <1>6, <2>5 DEF Listed
  <2>7. ~Held(i)' /\ i \in map'
    BY <1>0, <1>3, <1>4, <1>6, IsFree
  <2> QED  BY <2>6, <2>7 DEF Kept, Held
<1> QED  BY <1>5, <1>6

\* A write that returns moves from the pending ones to those that are done.
LEMMA CheckKept ==
  ASSUME IInv, IInv', DInv, NEW t \in Threads, Run(t) \/ Start(t), Observe,
         NEW i \in Chunks \ overlap', Check(t)
  PROVE  Kept(i)'
<1> DEFINE k == job[t].idx
<1>0. /\ Moves(t) /\ Kept(i) /\ i \in Chunks /\ TypeOK /\ InFlight /\ job[t] \in Job
  BY Before
<1>1. /\ pc[t] = "check" /\ pc'[t] \in {"pop", "idle"}
      /\ UNCHANGED <<list, map, disk, tag, uuid>>
  BY <1>0 DEF Check, Return, Goto, TypeOK, store, filenode, storage
<1>2. ~Holds(t, i) /\ ~Holds(t, i)'
  BY <1>1 DEF Holds
<1>3. \A d : Has(d, i) => Has(d, i)'
  <2>1. CASE pc'[t] = "pop"
    <3>1. job' = job /\ done' = done
      BY <1>0, <2>1 DEF Check, Return, Goto, TypeOK
    <3>2. Pending(t, i)' => Pending(t, i) /\ job'[t] = job[t]
      BY <1>1, <3>1 DEF Pending, SavingAt, Writing
    <3> QED  BY <1>0, <3>1, <3>2, HasStays
  <2>2. CASE pc'[t] = "idle"
    <3>1. \/ job[t].op = "read" /\ done' = done
          \/ /\ job[t].op # "read" /\ Writing(t)
             /\ done' = [done EXCEPT ![k] = @ \cup {job[t].id}]
      BY <1>0, <2>2 DEF Check, Goto, TypeOK, InFlight, InRequest, Job, Writing
    <3>2. \/ done'[i] = done[i]
          \/ Pending(t, i) /\ done'[i] = done[i] \cup {job[t].id}
      BY <1>0, <1>1, <3>1 DEF TypeOK, Pending, SavingAt
    <3>3. \A u \in Threads : Pending(u, i)' => Pending(u, i) /\ job'[u] = job[u]
      BY <1>0, <2>2 DEF Moves, Pending, Writing, SavingAt
    <3> QED  BY <3>2, <3>3 DEF Has
  <2> QED  BY <1>1, <2>1, <2>2
<1>4. \A q \in DOMAIN list' :
        list'[q].idx = i => \E p \in DOMAIN list : list[p] = list'[q]
  BY <1>1
<1> QED  BY <1>0, <1>1, <1>2, <1>3, <1>4, Others

\* A modified entry comes into the hands of t, a clean one is in the storage.
LEMMA PopKept ==
  ASSUME IInv, IInv', DInv, NEW t \in Threads, Run(t) \/ Start(t), Observe,
         NEW i \in Chunks \ overlap', Pop(t)
  PROVE  Kept(i)'
<1>0. /\ Moves(t) /\ Kept(i) /\ i \in Chunks /\ TypeOK /\ StoreIndexed
  BY Before
<1>1. /\ pc[t] = "pop" /\ pc'[t] \in {"fault", "check", "save"}
      /\ UNCHANGED <<disk, tag, uuid, done, job>>
  BY <1>0 DEF Pop, Goto, TypeOK, filenode, storage, history
<1>2. ~Holds(t, i) /\ (Pending(t, i)' => Pending(t, i))
  BY <1>1 DEF Holds, Pending, SavingAt, Writing
<1>3. CASE list = <<>>
  <2>1. pc'[t] = "fault" /\ list' = list /\ map' = map
    BY <1>0, <1>3 DEF Pop, Goto, TypeOK, store
  <2>2. ~Holds(t, i)'
    BY <2>1 DEF Holds
  <2> QED  BY <1>0, <1>1, <1>2, <2>1, <2>2, Quiet
<1>4. CASE list # <<>>
  <2>1. PICK e : e = Head(list)
    OBVIOUS
  <2>2. /\ list' = Tail(list) /\ map' = map \ {e.idx} /\ buf'[t] = e
        /\ pc'[t] = IF e.modified THEN "save" ELSE "check"
    BY <1>0, <1>4, <2>1 DEF Pop, Goto, TypeOK
  <2>3. /\ e \in Entry /\ 1 \in DOMAIN list /\ list[1] = e
        /\ \A q \in DOMAIN list' : \E p \in DOMAIN list : list[p] = list'[q]
    BY <1>0, <1>4, <2>1, <2>2, TailEntries
  <2>4. CASE i # e.idx
    <3>1. ~Holds(t, i)'
      BY <1>1, <2>2, <2>4 DEF Holds
    <3> QED  BY <1>0, <1>1, <1>2, <2>2, <2>3, <2>4, <3>1, NotAbout
  <2>5. CASE i = e.idx
    <3>1. i \in map /\ i \notin map'
      BY <1>0, <2>2, <2>3, <2>5 DEF StoreIndexed
    <3>2. ~Held(i) => Current(e, i)
      BY <1>0, <2>3, <2>5, <3>1 DEF Kept, Listed
    <3>3. \A d : Has(d, i) => Has(d, i)'
      BY <1>0, <1>1, <1>2, HasStays
    <3>4. CASE e.modified
      <4>1. pc'[t] = "save" /\ Holds(t, i)'
        BY <2>2, <2>5, <3>4 DEF Holds
      <4>2. ~Held(i)
        BY <1>0, <1>2, <4>1, WasFree
      <4>3. e.data \in Data /\ Has(e.data, i)'
        BY <3>2, <3>3, <4>2 DEF Current
      <4>4. InHand(t, i)'
        BY <2>2, <3>1, <4>1, <4>3 DEF InHand
      <4> QED  BY <4>1, <4>4, TakenOver
    <3>5. CASE ~e.modified
      <4>1. pc'[t] = "check" /\ ~Holds(t, i)'
        BY <2>2, <3>5 DEF Holds
      <4>2. \A u \in Threads : Holds(u, i)' <=> Holds(u, i)
        BY <1>0, <1>2, <4>1, HoldsStays
      <4>3. ~Held(i)' => Stored(i)'
        <5>1. Held(i)' <=> Held(i)
          BY <4>2 DEF Held
        <5>2. SUFFICES ASSUME ~Held(i) PROVE Stored(i)'
          BY <5>1
        <5>3. Stored(i)
          BY <3>2, <3>5, <5>2 DEF Current, Stored
        <5> QED  BY <1>1, <3>3, <5>3 DEF Stored
      <4>4. ASSUME NEW u \in Threads, Holds(u, i)'
            PROVE  InHand(u, i)'
        <5>1. u # t /\ Holds(u, i) /\ InHand(u, i) /\ pc[u] = "push"
          BY <1>0, <3>1, <4>1, <4>2, <4>4 DEF Kept, InHand
        <5>2. pc'[u] = pc[u] /\ job'[u] = job[u] /\ buf'[u] = buf[u]
          BY <1>0, <5>1 DEF Moves
        <5>3. PICK b : b = buf[u]
          OBVIOUS
        <5>4. Current(b, i) /\ (Writing(u) => job[u].id \in b.data)
          BY <5>1, <5>3 DEF InHand
        <5>5. Current(b, i)'
          BY <1>1, <3>3, <5>4 DEF Current
        <5>6. Writing(u)' => job'[u].id \in b.data
          BY <5>2, <5>4 DEF Writing
        <5> QED  BY <5>1, <5>2, <5>3, <5>5, <5>6 DEF InHand
      <4> QED  BY <3>1, <4>3, <4>4 DEF Kept
    <3> QED  BY <3>4, <3>5
  <2> QED  BY <2>4, <2>5
<1> QED  BY <1>3, <1>4

LEMMA SaveKept ==
  ASSUME IInv, IInv', DInv, NEW t \in Threads, Run(t) \/ Start(t), Observe,
         NEW i \in Chunks \ overlap', Save(t)
  PROVE  Kept(i)'
<1> DEFINE k == buf[t].idx
<1>0. /\ Moves(t) /\ Kept(i) /\ i \in Chunks /\ TypeOK
  BY Before
<1>1. /\ pc[t] = "save" /\ pc'[t] = "settag"
      /\ disk' = [disk EXCEPT ![k] = buf[t].data]
      /\ UNCHANGED <<list, map, tag, uuid, done, job, buf>>
  BY <1>0 DEF Save, Goto, TypeOK, store, filenode, history
<1>2. (Holds(t, i) <=> i = k) /\ (Holds(t, i)' <=> i = k)
      /\ (Pending(t, i)' => Pending(t, i))
  BY <1>1 DEF Holds, Pending, SavingAt, Writing
<1>3. CASE i # k
  BY <1>0, <1>1, <1>2, <1>3, Quiet DEF TypeOK
<1>4. CASE i = k
  <2>1. PICK d : d = buf[t].data
    OBVIOUS
  <2>2. i \notin map /\ d \in Data /\ Has(d, i) /\ disk'[i] = d
    BY <1>0, <1>1, <1>2, <1>4, <2>1 DEF Kept, InHand, TypeOK
  <2>3. Has(d, i)'
    BY <1>0, <1>1, <1>2, <2>2, HasStays
  <2>4. InHand(t, i)'
    BY <1>1, <2>1, <2>2, <2>3 DEF InHand
  <2> QED  BY <1>2, <1>4, <2>4, TakenOver
<1> QED  BY <1>3, <1>4

LEMMA SetTagKept ==
  ASSUME IInv, IInv', DInv, NEW t \in Threads, Run(t) \/ Start(t), Observe,
         NEW i \in Chunks \ overlap', SetTag(t)
  PROVE  Kept(i)'
<1> DEFINE k == buf[t].idx
<1>0. /\ Moves(t) /\ Kept(i) /\ i \in Chunks \ overlap /\ TypeOK
      /\ Contended \subseteq overlap
  BY Before
<1>1. /\ pc[t] = "settag" /\ pc'[t] = "check"
      /\ tag' = [tag EXCEPT ![k] = buf[t].data]
      /\ UNCHANGED <<list, map, disk, uuid, done, job>>
  BY <1>0 DEF SetTag, Goto, TypeOK, store, storage, history
<1>2. (Holds(t, i) <=> i = k) /\ ~Holds(t, i)' /\ (Pending(t, i)' => Pending(t, i))
  BY <1>1 DEF Holds, Pending, SavingAt, Writing
<1>3. CASE i # k
  BY <1>0, <1>1, <1>2, <1>3, Quiet DEF TypeOK
<1>4. CASE i = k
  <2>1. PICK d : d = buf[t].data
    OBVIOUS
  <2>2. i \notin map /\ d \in Data /\ Has(d, i) /\ disk[i] = d /\ tag'[i] = d
    BY <1>0, <1>1, <1>2, <1>4, <2>1 DEF Kept, InHand, TypeOK
  <2>3. Has(d, i)'
    BY <1>0, <1>1, <1>2, <2>2, HasStays
  <2>4. Stored(i)' /\ i \notin map'
    BY <1>1, <2>2, <2>3 DEF Stored
  <2>5. ~Held(i)'
    BY <1>0, <1>2, <1>4, IsFree
  <2> QED  BY <2>4, <2>5 DEF Kept, Held
<1> QED  BY <1>3, <1>4

LEMMA FindKept ==
  ASSUME IInv, IInv', DInv, NEW t \in Threads, Run(t) \/ Start(t), Observe,
         NEW i \in Chunks \ overlap', Find(t)
  PROVE  Kept(i)'
<1>0. /\ Moves(t) /\ Kept(i) /\ i \in Chunks /\ TypeOK
  BY Before
<1>1. /\ pc[t] = "find" /\ pc'[t] \in {"erase", "find", "meta"}
      /\ UNCHANGED <<list, map, tag, disk, uuid, done>>
  BY <1>0, NextChunkFacts DEF Find, Goto, TypeOK, filenode, storage, history
<1>2. ~Holds(t, i) /\ ~Holds(t, i)' /\ ~Pending(t, i)'
  BY <1>1 DEF Holds, Pending, SavingAt
<1> QED  BY <1>0, <1>1, <1>2, Quiet

\* Nobody else has the chunk while a flush runs: the entry is the newest.
LEMMA EraseKept ==
  ASSUME IInv, IInv', DInv, NEW t \in Threads, Run(t) \/ Start(t), Observe,
         NEW i \in Chunks \ overlap', Erase(t)
  PROVE  Kept(i)'
<1> DEFINE k == job[t].idx
<1>0. /\ Moves(t) /\ Kept(i) /\ i \in Chunks \ overlap /\ TypeOK /\ StoreIndexed /\ InFlight
      /\ PlacedAt(t) /\ Contended \subseteq overlap /\ k \in Chunks
  BY Before
<1>1. /\ pc[t] = "erase" /\ pc'[t] \in {"fault", "ftag", "find", "meta"}
      /\ UNCHANGED <<tag, disk, uuid, done>> /\ Flushing(t)
  BY <1>0, NextChunkFacts
     DEF Erase, Goto, TypeOK, filenode, storage, history, PlacedAt, Flushing
<1>2. ~Holds(t, i) /\ ~Pending(t, i)'
  BY <1>1 DEF Holds, Pending, SavingAt
<1>3. CASE t \in dangling
  <2>1. pc'[t] = "fault" /\ list' = list /\ map' = map
    BY <1>0, <1>3 DEF Erase, Goto, TypeOK, store
  <2>2. ~Holds(t, i)'
    BY <2>1 DEF Holds
  <2> QED  BY <1>0, <1>1, <1>2, <2>1, <2>2, Quiet
<1>4. CASE t \notin dangling
  <2>1. k \in map /\ Unlink(k)
    BY <1>0, <1>1, <1>4 DEF InFlight, Erase
  <2>2. PICK e : e = Cached(k)
    OBVIOUS
  <2>3. /\ Pos(k) \in DOMAIN list /\ list[Pos(k)] = e /\ e.idx = k /\ e \in Entry
        /\ map' = map \ {k}
        /\ \A q \in DOMAIN list' : \E p \in DOMAIN list : list[p] = list'[q]
    BY <1>0, <2>1, <2>2, PosFacts, UnlinkEntries DEF Cached
  <2>4. /\ buf'[t] = e
        /\ IF e.modified THEN pc'[t] = "ftag" /\ job' = job
                         ELSE pc'[t] \in {"find", "meta"}
    BY <1>0, <1>4, <2>2, NextChunkFacts DEF Erase, Goto, TypeOK
  <2>5. CASE i # k
    <3>1. ~Holds(t, i)'
      BY <2>4, <2>5 DEF Holds
    <3> QED  BY <1>0, <1>1, <1>2, <2>3, <2>5, <3>1, NotAbout
  <2>6. CASE i = k
    <3>1. \A u \in Threads : ~Holds(u, i)
      <4> SUFFICES ASSUME NEW u \in Threads, Holds(u, i) PROVE FALSE
        OBVIOUS
      <4> QED  BY <1>0, <1>1, <1>2, OneHolder
    <3>2. Current(e, i)
      BY <1>0, <2>1, <2>3, <2>6, <3>1 DEF Kept, Held, Listed
    <3>3. \A d : Has(d, i) => Has(d, i)'
      BY <1>0, <1>1, <1>2, HasStays
    <3>4. CASE e.modified
      <4>1. pc'[t] = "ftag" /\ Holds(t, i)'
        BY <2>4, <2>6, <3>4 DEF Holds
      <4>2. InHand(t, i)'
        BY <2>3, <2>4, <2>6, <3>2, <3>3, <4>1 DEF InHand, Current
      <4> QED  BY <4>1, <4>2, TakenOver
    <3>5. CASE ~e.modified
      <4>1. \A u \in Threads : ~Holds(u, i)'
        BY <1>0, <2>4, <3>1, <3>5, HoldsStays DEF Holds
      <4>2. Stored(i)
        BY <3>2, <3>5 DEF Current, Stored
      <4>3. Stored(i)'
        BY <1>1, <3>3, <4>2 DEF Stored
      <4> QED  BY <2>3, <2>6, <4>1, <4>3 DEF Kept, Held
    <3> QED  BY <3>4, <3>5
  <2> QED  BY <2>5, <2>6
<1> QED  BY <1>3, <1>4

LEMMA FlushTagKept ==
  ASSUME IInv, IInv', DInv, NEW t \in Threads, Run(t) \/ Start(t), Observe,
         NEW i \in Chunks \ overlap', FlushTag(t)
  PROVE  Kept(i)'
<1> DEFINE k == job[t].idx
<1>0. /\ Moves(t) /\ Kept(i) /\ i \in Chunks /\ TypeOK
  BY Before
<1>1. /\ pc[t] = "ftag" /\ pc'[t] = "fsave"
      /\ tag' = [tag EXCEPT ![k] = buf[t].data]
      /\ UNCHANGED <<list, map, disk, uuid, done, job, buf>>
  BY <1>0 DEF FlushTag, Goto, TypeOK, store, storage, history
<1>2. (Holds(t, i) <=> i = k) /\ (Holds(t, i)' <=> i = k) /\ ~Pending(t, i)'
  BY <1>1 DEF Holds, Pending, SavingAt
<1>3. CASE i # k
  BY <1>0, <1>1, <1>2, <1>3, Quiet DEF TypeOK
<1>4. CASE i = k
  <2>1. PICK d : d = buf[t].data
    OBVIOUS
  <2>2. i \notin map /\ d \in Data /\ Has(d, i) /\ tag'[i] = d
    BY <1>0, <1>1, <1>2, <1>4, <2>1 DEF Kept, InHand, TypeOK
  <2>3. Has(d, i)'
    BY <1>0, <1>1, <1>2, <2>2, HasStays
  <2>4. InHand(t, i)'
    BY <1>1, <2>1, <2>2, <2>3 DEF InHand
  <2> QED  BY <1>2, <1>4, <2>4, TakenOver
<1> QED  BY <1>3, <1>4

LEMMA FlushSaveKept ==
  ASSUME IInv, IInv', DInv, NEW t \in Threads, Run(t) \/ Start(t), Observe,
         NEW i \in Chunks \ overlap', FlushSave(t)
  PROVE  Kept(i)'
<1> DEFINE k == job[t].idx
<1>0. /\ Moves(t) /\ Kept(i) /\ i \in Chunks \ overlap /\ TypeOK
      /\ Contended \subseteq overlap
  BY Before
<1>1. /\ pc[t] = "fsave" /\ pc'[t] \in {"find", "meta"}
      /\ disk' = [disk EXCEPT ![k] = buf[t].data]
      /\ UNCHANGED <<list, map, tag, uuid, done>>
  BY <1>0, NextChunkFacts DEF FlushSave, store, filenode, history
<1>2. (Holds(t, i) <=> i = k) /\ ~Holds(t, i)' /\ ~Pending(t, i)'
  BY <1>1 DEF Holds, Pending, SavingAt
<1>3. CASE i # k
  BY <1>0, <1>1, <1>2, <1>3, Quiet DEF TypeOK
<1>4. CASE i = k
  <2>1. PICK d : d = buf[t].data
    OBVIOUS
  <2>2. i \notin map /\ d \in Data /\ Has(d, i) /\ disk'[i] = d /\ tag[i] = d
    BY <1>0, <1>1, <1>2, <1>4, <2>1 DEF Kept, InHand, TypeOK
  <2>3. Has(d, i)'
    BY <1>0, <1>1, <1>2, <2>2, HasStays
  <2>4. Stored(i)' /\ i \notin map'
    BY <1>1, <2>2, <2>3 DEF Stored
  <2>5. ~Held(i)'
    BY <1>0, <1>2, <1>4, IsFree
  <2> QED  BY <2>4, <2>5 DEF Kept, Held
<1> QED  BY <1>3, <1>4

LEMMA SaveMetaKept ==
  ASSUME IInv, IInv', DInv, NEW t \in Threads, Run(t) \/ Start(t), Observe,
         NEW i \in Chunks \ overlap', SaveMeta(t)
  PROVE  Kept(i)'
<1>0. /\ Moves(t) /\ Kept(i) /\ i \in Chunks /\ TypeOK
  BY Before
<1>1. /\ pc[t] = "meta" /\ pc'[t] = "idle"
      /\ UNCHANGED <<list, map, disk, tag, uuid, done>>
  BY <1>0 DEF SaveMeta, Return, Goto, TypeOK, store, filenode
<1>2. ~Holds(t, i) /\ ~Holds(t, i)' /\ ~Pending(t, i)'
  BY <1>1 DEF Holds, Pending, SavingAt
<1> QED  BY <1>0, <1>1, <1>2, Quiet

-----------------------------------------------------------------------------
(* The invariant holds of the specification.                               *)

LEMMA KeptStep ==
  ASSUME IInv, IInv', DInv, NEW t \in Threads, Run(t) \/ Start(t), Observe,
         NEW i \in Chunks \ overlap'
  PROVE  Kept(i)'
<1>1. CASE Take(t) \/ Fetch(t) \/ Decrypt(t) \/ Push(t) \/ Check(t) \/ Pop(t)
  BY <1>1, TakeKept, FetchKept, DecryptKept, PushKept, CheckKept, PopKept
<1>2. CASE Save(t) \/ SetTag(t) \/ Find(t) \/ Erase(t)
  BY <1>2, SaveKept, SetTagKept, FindKept, EraseKept
<1>3. CASE FlushTag(t) \/ FlushSave(t) \/ SaveMeta(t) \/ BeginFlush(t)
  BY <1>3, FlushTagKept, FlushSaveKept, SaveMetaKept, BeginFlushKept
<1>4. ASSUME NEW k \in Chunks, BeginRead(t, k)
      PROVE  Kept(i)'
  BY <1>4, BeginReadKept
<1>5. ASSUME NEW k \in Chunks, NEW op \in {"part", "full"}, BeginWrite(t, k, op)
      PROVE  Kept(i)'
  BY <1>5, BeginWriteKept
<1> QED  BY <1>1, <1>2, <1>3, <1>4, <1>5 DEF Run, Start, Step, Request

LEMMA DataStep == IInv /\ IInv' /\ DInv /\ [Next]_vars => DInv'
<1> SUFFICES ASSUME IInv, IInv', DInv, [Next]_vars PROVE DInv'
  OBVIOUS
<1>1. CASE UNCHANGED vars
  <2> USE DEF vars, store, filenode, storage, threads, history
  <2>1. /\ UNCHANGED <<list, map, dangling, uuid, tag, disk, meta>>
        /\ UNCHANGED <<pc, job, buf, issued, done, goal, overlap>>
    BY <1>1
  <2>2. /\ Contended' = Contended /\ (Placed' <=> Placed) /\ (Holes' <=> Holes)
        /\ (Numbered' <=> Numbered) /\ (Swept' <=> Swept)
    BY <2>1 DEF Contended, Holds, Flushing, Placed, PlacedAt, Holes, Numbered, Writing, Swept
  <2>3. \A i \in Chunks \ overlap : Kept(i)' <=> Kept(i)
    BY <2>1 DEF Kept, Held, Holds, Listed, Stored, Current, Has, Pending, InHand, Writing
  <2> QED  BY <2>1, <2>2, <2>3 DEF DInv
<1>2. CASE Next
  <2>1. PICK t \in Threads : Run(t) \/ Start(t)
    BY <1>2 DEF Next
  <2>2. Observe
    BY <2>1 DEF Run, Start
  <2>3. Contended' \subseteq overlap'
    BY <2>2 DEF Observe
  <2>4. Placed' /\ Holes' /\ Numbered'
    BY <2>1, PlacedStep, HolesStep, NumberedStep DEF DInv
  <2>5. Swept'
    BY <2>1, <2>2, SweptStep
  <2>6. \A i \in Chunks \ overlap' : Kept(i)'
    BY <2>1, <2>2, KeptStep
  <2> QED  BY <2>3, <2>4, <2>5, <2>6 DEF DInv
<1> QED  BY <1>1, <1>2

LEMMA DataInit == Init => DInv
<1> SUFFICES ASSUME Init PROVE DInv
  OBVIOUS
<1>1. \A t \in Threads : pc[t] = "idle" /\ job[t] = NoJob /\ ~Writing(t)
  BY DEF Init, Writing, NoJob
<1>2. \A t \in Threads, i \in Chunks : ~Holds(t, i) /\ ~Pending(t, i) /\ ~Flushing(t)
  BY <1>1 DEF Holds, Pending, SavingAt, Flushing
<1>3. Contended \subseteq overlap
  BY <1>2 DEF Contended
<1>4. Placed /\ Holes
  BY <1>1 DEF Init, Placed, PlacedAt, Holes, InRequest
<1>5. Numbered /\ Swept
  BY <1>1, <1>2 DEF Init, Numbered, Swept
<1>6. ASSUME NEW i \in Chunks
      PROVE  Kept(i)
  <2>1. i \notin map /\ disk[i] = tag[i] /\ done[i] = {} /\ (uuid[i] => disk[i] = {})
    BY DEF Init
  <2>2. \A d : Has(d, i)
    BY <1>2, <2>1 DEF Has
  <2> QED  BY <1>2, <2>1, <2>2 DEF Kept, Stored, Data
<1> QED  BY <1>3, <1>4, <1>5, <1>6 DEF DInv

LEMMA DataInvariance == Spec => [](IInv /\ DInv)
BY Invariance, DataInit, DataStep, PTL DEF Spec

-----------------------------------------------------------------------------
(* The promises.                                                           *)

\* A write that returned is seen by every later read, whatever the threads
\* evict, load and flush, outside chunks that two of them held at once.
THEOREM WritesAreKept == Spec => []NoLostWrite
<1>1. IInv /\ DInv => NoLostWrite
  <2> SUFFICES ASSUME IInv, DInv, NEW i \in Chunks \ overlap,
                      \A t \in Threads : ~Holds(t, i)
               PROVE  done[i] \subseteq Visible(i)
    BY DEF NoLostWrite
  <2>0. Kept(i) /\ ~Held(i) /\ TypeOK /\ StoreIndexed /\ Holes
    BY DEF DInv, IInv, Held
  <2>1. CASE i \in map
    <3>1. Pos(i) \in DOMAIN list /\ list[Pos(i)].idx = i
      BY <2>0, <2>1, PosFacts
    <3>2. done[i] \subseteq list[Pos(i)].data
      BY <2>0, <2>1, <3>1 DEF Kept, Listed, Current, Has
    <3> QED  BY <2>1, <3>2 DEF Visible, Cached
  <2>2. CASE i \notin map /\ uuid[i]
    <3>1. disk[i] \in Data /\ disk[i] = tag[i] /\ done[i] \subseteq disk[i]
      BY <2>0, <2>2 DEF Kept, Stored, Has
    <3> QED  BY <2>2, <3>1 DEF Visible
  <2>3. CASE ~uuid[i]
    BY <2>0, <2>3 DEF Holes
  <2> QED  BY <2>1, <2>2, <2>3
<1> QED  BY <1>1, DataInvariance, PTL

\* decrypt_buffer accepts every file that save_cache wrote, with the same
\* exemption.
THEOREM EveryLoadVerifies == Spec => []LoadsVerify
<1>1. IInv /\ DInv => LoadsVerify
  <2> SUFFICES ASSUME IInv, DInv, NEW t \in Threads, pc[t] = "decrypt",
                      job[t].idx \notin overlap
               PROVE  Verifies(t)
    BY DEF LoadsVerify
  <2>1. job[t].idx \in Chunks \ overlap
    BY DEF IInv, TypeOK, Job
  <2>2. Stored(job[t].idx) /\ buf[t].data = disk[job[t].idx]
    BY <2>1 DEF DInv, Kept, InHand, Holds
  <2> QED  BY <2>2 DEF Stored, Verifies, Data, None
<1> QED  BY <1>1, DataInvariance, PTL

\* When ecall_fs_flush returns, what had returned before it is in the storage,
\* under the tags it stored, with the same exemption.
THEOREM FlushIsDurable == Spec => FlushPersists
<1> DEFINE A == \A t \in Threads : SaveMeta(t) =>
                  /\ \A i \in Chunks \ overlap : meta'[i] = disk[i]
                  /\ \A g \in goal[t] : g[1] \notin overlap => g[2] \in disk[g[1]]
<1>1. IInv /\ DInv => A
  <2> SUFFICES ASSUME IInv, DInv, NEW t \in Threads, SaveMeta(t)
               PROVE  /\ \A i \in Chunks \ overlap : meta'[i] = disk[i]
                      /\ \A g \in goal[t] : g[1] \notin overlap => g[2] \in disk[g[1]]
    OBVIOUS
  <2>1. pc[t] = "meta" /\ meta' = tag /\ Flushing(t)
    BY DEF SaveMeta, DInv, Placed, PlacedAt, Flushing
  <2>2. ASSUME NEW i \in Chunks \ overlap
        PROVE  i \notin map /\ ~Held(i) /\ Kept(i)
    <3>1. ~Holds(t, i)
      BY <2>1 DEF Holds
    <3>2. \A u \in Threads : ~Holds(u, i)
      BY <2>1, <3>1, OneHolder DEF DInv
    <3> QED  BY <2>1, <3>2 DEF DInv, Swept, Held
  <2>3. ASSUME NEW i \in Chunks \ overlap
        PROVE  tag[i] = disk[i] /\ (uuid[i] => done[i] \subseteq disk[i])
    BY <2>2 DEF Kept, Stored, Has, DInv, Holes
  <2>4. ASSUME NEW g \in goal[t], g[1] \notin overlap
        PROVE  g[2] \in disk[g[1]]
    <3>1. g[1] \in Chunks \ overlap /\ g[2] \in done[g[1]]
      BY <2>4 DEF DInv, Swept
    <3>2. uuid[g[1]]
      BY <3>1 DEF DInv, Holes
    <3> QED  BY <2>3, <3>1, <3>2
  <2> QED  BY <2>1, <2>3, <2>4
<1>2. IInv /\ DInv /\ [Next]_vars => [A]_vars
  BY <1>1
<1> QED  BY <1>2, DataInvariance, PTL DEF Spec, FlushPersists

=============================================================================
