----------------------------- MODULE ChunkStore -----------------------------
(***************************************************************************)
(* The enclave's chunk cache (enclave/volume.cpp, class ChunkStore) and    *)
(* the three users of it: ecall_fs_read, ecall_fs_write (ecall_fs.cpp) and *)
(* ecall_fs_flush, through load_chunk, save_chunk and flush_chunk          *)
(* (storage.cpp).  FUSE runs the ecalls on several threads                 *)
(* (fuse_session_loop_mt), so every step here is what one thread does      *)
(* between two points at which another may run: a critical section of the  *)
(* store's or of the file's mutex, an ocall, or an unlocked access to      *)
(* shared state.                                                           *)
(*                                                                         *)
(* One file with NumChunks chunks is modelled.  A chunk's uuid, once       *)
(* assigned, is stable here (truncation is the subject of FileIO), so its  *)
(* index stands for it.  The bytes of a chunk are abstracted to the set of *)
(* writes they contain: a partial write adds itself to what it loaded, a   *)
(* whole-chunk write supersedes every earlier one.  An authentication tag  *)
(* is the data it was computed from.                                       *)
(***************************************************************************)
EXTENDS Naturals, FiniteSets, Sequences, SequencesExt

CONSTANTS
  Threads,    \* enclave threads (at most TCSNum of them)
  NumChunks,  \* Filenode::chunks.size()
  MaxCache,   \* MAX_CACHE_NUM
  MaxWrites,  \* bound: writes issued to each chunk
  SameChunk   \* may the kernel have two requests on one chunk in flight

Chunks == 1..NumChunks
Data == SUBSET (1..MaxWrites)
None == {0}   \* no file in the storage, no tag computed yet

ASSUME StoreAssumption ==
  /\ IsFiniteSet(Threads)
  /\ NumChunks \in Nat \ {0}
  /\ MaxCache \in Nat
  /\ MaxWrites \in Nat
  /\ SameChunk \in BOOLEAN

VARIABLES
  list,      \* the std::list<ChunkCache>, oldest entry first
  map,       \* the keys of ChunkStore::_map
  uuid,      \* uuid[i]: chunks[i] has a uuid (it is not a hole)
  tag,       \* chunks[i].tag in the Filenode
  disk,      \* the chunk files in the storage
  meta,      \* the tags in the stored copy of the Filenode
  pc,        \* where each thread is
  job,       \* the ecall each thread runs, and on which chunk
  buf,       \* the ChunkCache a thread has outside the list
  dangling,  \* threads whose list iterator another thread erased
  issued,    \* history: writes issued to each chunk
  done,      \* history: writes that returned
  goal,      \* history: the writes that had returned when a flush began
  overlap    \* history: chunks two threads have worked on at once

store == <<list, map, dangling>>
filenode == <<uuid, tag>>
storage == <<disk, meta>>
threads == <<pc, job, buf>>
history == <<issued, done, goal>>
vars == <<store, filenode, storage, threads, history, overlap>>

Entry == [idx : Chunks, data : Data, modified : BOOLEAN]
Buffer == [idx : Chunks, data : Data \cup {None}, modified : BOOLEAN]
Job == [op : {"read", "part", "full", "flush"}, idx : Chunks, id : 0..MaxWrites]
NoJob == [op |-> "read", idx |-> 1, id |-> 0]
Empty == [idx |-> 1, data |-> {}, modified |-> FALSE]
Location == {"idle", "take", "fetch", "decrypt", "push", "check", "pop",
             "save", "settag", "find", "erase", "ftag", "fsave", "meta",
             "fault"}

Init ==
  /\ list = <<>> /\ map = {} /\ dangling = {}
  /\ uuid \in [Chunks -> BOOLEAN]
  /\ tag = [i \in Chunks |-> IF uuid[i] THEN {} ELSE None]
  /\ disk = tag /\ meta = tag
  /\ pc = [t \in Threads |-> "idle"]
  /\ job = [t \in Threads |-> NoJob]
  /\ buf = [t \in Threads |-> Empty]
  /\ issued = [i \in Chunks |-> 0]
  /\ done = [i \in Chunks |-> {}]
  /\ goal = [t \in Threads |-> {}]
  /\ overlap = {}

-----------------------------------------------------------------------------
(* The store.  Each operation runs under ChunkStore::mutex.                *)

Pos(i) == CHOOSE p \in DOMAIN list : list[p].idx = i
Cached(i) == list[Pos(i)]

\* Threads between findbykey and get_erase of chunk i: whoever erases the
\* node of chunk i leaves them with a dangling iterator.
Iterators(i) == {t \in Threads : pc[t] = "erase" /\ job[t].idx = i}

\* std::list::erase and _map.erase of the node of chunk i.
Unlink(i) ==
  /\ list' = RemoveAt(list, Pos(i))
  /\ map' = map \ {i}
  /\ dangling' = dangling \cup Iterators(i)

\* Variant: the entry that has the key already is not dropped.
PushBackKeepsOld(e) ==
  /\ list' = Append(list, e)
  /\ map' = map \cup {e.idx}
  /\ UNCHANGED dangling

\* ChunkStore::push_get_back: an entry with the same key is dropped first.
PushBack(e) ==
  /\ list' = Append(IF e.idx \in map THEN RemoveAt(list, Pos(e.idx)) ELSE list, e)
  /\ map' = map \cup {e.idx}
  /\ dangling' = IF e.idx \in map THEN dangling \cup Iterators(e.idx) ELSE dangling

-----------------------------------------------------------------------------
(* Threads.                                                                *)

Goto(t, l) == pc' = [pc EXCEPT ![t] = l]

\* The ecall returns; its locals are gone.
Return(t) ==
  /\ Goto(t, "idle")
  /\ job' = [job EXCEPT ![t] = NoJob]
  /\ buf' = [buf EXCEPT ![t] = Empty]

\* The chunk of a request in flight is not requested again, unless the
\* kernel allows it (SameChunk).
Free(i) ==
  SameChunk \/ \A u \in Threads :
                 pc[u] # "idle" /\ job[u].op # "flush" => job[u].idx # i

\* What a read or a partial write makes of the data it found.
Mine(t, d) == IF job[t].op = "read" THEN d ELSE d \cup {job[t].id}

\* The loop body of ecall_fs_read for chunk i; a hole is read as zeros and
\* touches nothing.
BeginRead(t, i) ==
  /\ pc[t] = "idle" /\ uuid[i] /\ Free(i)
  /\ job' = [job EXCEPT ![t] = [op |-> "read", idx |-> i, id |-> 0]]
  /\ Goto(t, "take")
  /\ UNCHANGED <<store, filenode, storage, buf, history>>

\* The loop body of ecall_fs_write.  A hole gets a uuid and a zeroed buffer,
\* a whole-chunk write a zeroed buffer, a partial one must load the chunk.
BeginWrite(t, i, op) ==
  /\ pc[t] = "idle" /\ Free(i)
  /\ issued[i] < MaxWrites
  /\ issued' = [issued EXCEPT ![i] = @ + 1]
  /\ job' = [job EXCEPT ![t] = [op |-> op, idx |-> i, id |-> issued[i] + 1]]
  /\ uuid' = [uuid EXCEPT ![i] = TRUE]
  /\ IF uuid[i] /\ op = "part"
       THEN Goto(t, "take") /\ UNCHANGED buf
       ELSE /\ Goto(t, "push")
            /\ buf' = [buf EXCEPT ![t] =
                 [idx |-> i,
                  data |-> IF op = "full" THEN 1..(issued[i] + 1)
                                          ELSE {issued[i] + 1},
                  modified |-> TRUE]]
  /\ UNCHANGED <<store, tag, storage, done, goal>>

\* Variant: the entry taken is treated as a freshly loaded one.
TakeForgetsModified(t) ==
  LET i == job[t].idx IN
  /\ pc[t] = "take"
  /\ IF i \in map
       THEN /\ buf' = [buf EXCEPT ![t] =
                 [idx |-> i, data |-> Mine(t, Cached(i).data),
                  modified |-> job[t].op # "read"]]
            /\ Unlink(i)
            /\ Goto(t, "push")
       ELSE Goto(t, "fetch") /\ UNCHANGED <<store, buf>>
  /\ UNCHANGED <<filenode, storage, job, history>>

\* load_chunk, first half: get_erase_by_key moves the entry out of the list.
Take(t) ==
  LET i == job[t].idx IN
  /\ pc[t] = "take"
  /\ IF i \in map
       THEN /\ buf' = [buf EXCEPT ![t] =
                 [idx |-> i, data |-> Mine(t, Cached(i).data),
                  modified |-> Cached(i).modified \/ job[t].op # "read"]]
            /\ Unlink(i)
            /\ Goto(t, "push")
       ELSE Goto(t, "fetch") /\ UNCHANGED <<store, buf>>
  /\ UNCHANGED <<filenode, storage, job, history>>

\* load_cache: ocall_load_file ...
Fetch(t) ==
  LET i == job[t].idx IN
  /\ pc[t] = "fetch"
  /\ buf' = [buf EXCEPT ![t] = [idx |-> i, data |-> disk[i], modified |-> FALSE]]
  /\ Goto(t, "decrypt")
  /\ UNCHANGED <<store, filenode, storage, job, history>>

Verifies(t) == buf[t].data # None /\ buf[t].data = tag[job[t].idx]

\* ... and decrypt_buffer against the tag the file holds now.  A read that
\* fails returns EINVAL; a write goes on with what the buffer holds, zeros
\* when nothing was fetched and the decrypted bytes otherwise.
Decrypt(t) ==
  /\ pc[t] = "decrypt"
  /\ IF ~Verifies(t) /\ job[t].op = "read"
       THEN Return(t)
       ELSE /\ buf' = [buf EXCEPT
                 ![t].data = Mine(t, IF @ = None THEN {} ELSE @),
                 ![t].modified = job[t].op # "read"]
            /\ Goto(t, "push")
            /\ UNCHANGED job
  /\ UNCHANGED <<store, filenode, storage, history>>

\* save_chunk: push_get_back ...
Push(t) ==
  /\ pc[t] = "push"
  /\ PushBack(buf[t])
  /\ buf' = [buf EXCEPT ![t] = Empty]
  /\ Goto(t, "check")
  /\ UNCHANGED <<filenode, storage, job, history>>

\* Variant: the loop stops one entry early.
CheckAllowsOneMore(t) ==
  LET i == job[t].idx IN
  /\ pc[t] = "check"
  /\ IF Len(list) > MaxCache + 1
       THEN Goto(t, "pop") /\ UNCHANGED <<job, buf, done>>
       ELSE /\ Return(t)
            /\ done' = IF job[t].op = "read" THEN done
                       ELSE [done EXCEPT ![i] = @ \cup {job[t].id}]
  /\ UNCHANGED <<store, filenode, storage, issued, goal>>

\* ... then the loop: store.size() is read without the mutex.  When the
\* list is short enough the chunk's part of the ecall is over.
Check(t) ==
  LET i == job[t].idx IN
  /\ pc[t] = "check"
  /\ IF Len(list) > MaxCache
       THEN Goto(t, "pop") /\ UNCHANGED <<job, buf, done>>
       ELSE /\ Return(t)
            /\ done' = IF job[t].op = "read" THEN done
                       ELSE [done EXCEPT ![i] = @ \cup {job[t].id}]
  /\ UNCHANGED <<store, filenode, storage, issued, goal>>

PopTo(t, next, kept) ==
  /\ pc[t] = "pop"
  /\ IF list = <<>>
       THEN Goto(t, "fault") /\ UNCHANGED <<store, buf>>
       ELSE /\ buf' = [buf EXCEPT ![t] = Head(list)]
            /\ list' = IF kept THEN list ELSE Tail(list)
            /\ map' = IF kept THEN map ELSE map \ {Head(list).idx}
            /\ dangling' = dangling \cup Iterators(Head(list).idx)
            /\ Goto(t, next)
  /\ UNCHANGED <<filenode, storage, job, history>>

\* Variants: a modified entry is dropped like a clean one; the size is read
\* once, before the loop; the entry is moved from but stays in the list.
PopDropsModified(t) == PopTo(t, "check", FALSE)
PopWithoutCheck(t) == PopTo(t, IF list # <<>> /\ Head(list).modified THEN "save" ELSE "pop", FALSE)
PopLeavesEntry(t) == PopTo(t, "check", TRUE)

\* get_pop_front: front() of an empty list is undefined.
Pop(t) ==
  /\ pc[t] = "pop"
  /\ IF list = <<>>
       THEN Goto(t, "fault") /\ UNCHANGED <<store, buf>>
       ELSE /\ buf' = [buf EXCEPT ![t] = Head(list)]
            /\ list' = Tail(list)
            /\ map' = map \ {Head(list).idx}
            /\ dangling' = dangling \cup Iterators(Head(list).idx)
            /\ Goto(t, IF Head(list).modified THEN "save" ELSE "check")
  /\ UNCHANGED <<filenode, storage, job, history>>

\* save_cache on a local Chunk: the encrypted data goes to the storage ...
Save(t) ==
  /\ pc[t] = "save"
  /\ disk' = [disk EXCEPT ![buf[t].idx] = buf[t].data]
  /\ Goto(t, "settag")
  /\ UNCHANGED <<store, filenode, meta, job, buf, history>>

\* Variant: the local Chunk is not copied back.
SetTagForgotten(t) ==
  /\ pc[t] = "settag"
  /\ Goto(t, "check")
  /\ UNCHANGED <<store, filenode, storage, job, buf, history>>

\* ... and its tag is copied into the file under Filenode::mutex.
SetTag(t) ==
  /\ pc[t] = "settag"
  /\ tag' = [tag EXCEPT ![buf[t].idx] = buf[t].data]
  /\ Goto(t, "check")
  /\ UNCHANGED <<store, uuid, storage, job, buf, history>>

-----------------------------------------------------------------------------
(* ecall_fs_flush: flush_chunk for every chunk, then save_metadata.        *)

BeginFlush(t) ==
  /\ pc[t] = "idle"
  /\ job' = [job EXCEPT ![t] = [op |-> "flush", idx |-> 1, id |-> 0]]
  /\ goal' = [goal EXCEPT ![t] = {g \in Chunks \X (1..MaxWrites) : g[2] \in done[g[1]]}]
  /\ Goto(t, "find")
  /\ UNCHANGED <<store, filenode, storage, buf, issued, done>>

\* Variant: the loop over the chunks runs one too far.
NextChunkOneTooFar(t) ==
  IF job[t].idx > NumChunks
    THEN Goto(t, "meta") /\ UNCHANGED job
    ELSE Goto(t, "find") /\ job' = [job EXCEPT ![t].idx = @ + 1]

NextChunk(t) ==
  IF job[t].idx = NumChunks
    THEN Goto(t, "meta") /\ UNCHANGED job
    ELSE Goto(t, "find") /\ job' = [job EXCEPT ![t].idx = @ + 1]

\* findbykey, in one critical section ...
Find(t) ==
  /\ pc[t] = "find"
  /\ IF job[t].idx \in map
       THEN Goto(t, "erase") /\ dangling' = dangling \ {t} /\ UNCHANGED job
       ELSE NextChunk(t) /\ UNCHANGED dangling
  /\ UNCHANGED <<list, map, filenode, storage, buf, history>>

\* Variant: the modified flag is tested the wrong way round.
EraseSavesClean(t) ==
  LET i == job[t].idx IN
  /\ pc[t] = "erase"
  /\ IF t \in dangling
       THEN Goto(t, "fault") /\ UNCHANGED <<store, buf, job>>
       ELSE /\ buf' = [buf EXCEPT ![t] = Cached(i)]
            /\ Unlink(i)
            /\ IF ~Cached(i).modified
                 THEN Goto(t, "ftag") /\ UNCHANGED job
                 ELSE NextChunk(t)
  /\ UNCHANGED <<filenode, storage, history>>

\* ... and get_erase through the iterator it returned, in another.  Moving
\* from and erasing a node that is gone is undefined.
Erase(t) ==
  LET i == job[t].idx IN
  /\ pc[t] = "erase"
  /\ IF t \in dangling
       THEN Goto(t, "fault") /\ UNCHANGED <<store, buf, job>>
       ELSE /\ buf' = [buf EXCEPT ![t] = Cached(i)]
            /\ Unlink(i)
            /\ IF Cached(i).modified
                 THEN Goto(t, "ftag") /\ UNCHANGED job
                 ELSE NextChunk(t)
  /\ UNCHANGED <<filenode, storage, history>>

\* Variant: encryption works on a copy of the Chunk.
FlushTagOfCopy(t) ==
  /\ pc[t] = "ftag"
  /\ Goto(t, "fsave")
  /\ UNCHANGED <<store, filenode, storage, job, buf, history>>

\* save_cache on the file's own Chunk: encryption sets its tag first ...
FlushTag(t) ==
  /\ pc[t] = "ftag"
  /\ tag' = [tag EXCEPT ![job[t].idx] = buf[t].data]
  /\ Goto(t, "fsave")
  /\ UNCHANGED <<store, uuid, storage, job, buf, history>>

\* Variant: the ocall fails and nobody looks at its result.
FlushSaveLost(t) ==
  /\ pc[t] = "fsave"
  /\ NextChunk(t)
  /\ UNCHANGED <<store, filenode, storage, buf, history>>

\* ... and then the data goes to the storage.
FlushSave(t) ==
  /\ pc[t] = "fsave"
  /\ disk' = [disk EXCEPT ![job[t].idx] = buf[t].data]
  /\ NextChunk(t)
  /\ UNCHANGED <<store, filenode, meta, buf, history>>

SaveMeta(t) ==
  /\ pc[t] = "meta"
  /\ meta' = tag
  /\ goal' = [goal EXCEPT ![t] = {}]
  /\ Return(t)
  /\ UNCHANGED <<store, filenode, disk, issued, done>>

-----------------------------------------------------------------------------
(* Which chunks two threads have worked on at once.                        *)

\* Thread t has chunk i in its own hands: nobody finds it in the list, and
\* its file in the storage is stale or half replaced.
Holds(t, i) ==
  \/ pc[t] \in {"fetch", "decrypt", "push", "ftag", "fsave"} /\ job[t].idx = i
  \/ pc[t] \in {"save", "settag"} /\ buf[t].idx = i

Flushing(t) == pc[t] # "idle" /\ job[t].op = "flush"

Contended ==
  {i \in Chunks : \E t, u \in Threads :
     t # u /\ Holds(t, i) /\ (Holds(u, i) \/ Flushing(u))}

Observe == overlap' = overlap \cup Contended'

-----------------------------------------------------------------------------
Step(t) ==
  \/ Take(t) \/ Fetch(t) \/ Decrypt(t)
  \/ Push(t) \/ Check(t) \/ Pop(t) \/ Save(t) \/ SetTag(t)
  \/ Find(t) \/ Erase(t) \/ FlushTag(t) \/ FlushSave(t) \/ SaveMeta(t)

Request(t) ==
  \/ BeginFlush(t)
  \/ \E i \in Chunks : \/ BeginRead(t, i)
                       \/ BeginWrite(t, i, "part")
                       \/ BeginWrite(t, i, "full")

\* Nothing is said of a process that executed undefined behaviour.
Faulted == \E t \in Threads : pc[t] = "fault"

Run(t) == ~Faulted /\ Step(t) /\ Observe
Start(t) == ~Faulted /\ Request(t) /\ Observe

Next == \E t \in Threads : Run(t) \/ Start(t)

Spec == Init /\ [][Next]_vars

\* The host schedules every thread that is inside the enclave.
FairSpec == Spec /\ \A t \in Threads : WF_vars(Run(t))

-----------------------------------------------------------------------------
(* Properties.                                                             *)

\* Every variable has its type.
TypeOK ==
  /\ list \in Seq(Entry) /\ map \subseteq Chunks /\ dangling \subseteq Threads
  /\ uuid \in [Chunks -> BOOLEAN]
  /\ tag \in [Chunks -> Data \cup {None}]
  /\ disk \in [Chunks -> Data \cup {None}]
  /\ meta \in [Chunks -> Data \cup {None}]
  /\ pc \in [Threads -> Location]
  /\ job \in [Threads -> Job]
  /\ buf \in [Threads -> Buffer]
  /\ issued \in [Chunks -> 0..MaxWrites]
  /\ done \in [Chunks -> Data]
  /\ goal \in [Threads -> SUBSET (Chunks \X (1..MaxWrites))]
  /\ overlap \subseteq Chunks

\* The index of the store and its list agree, whatever the interleaving: a
\* key is in _map exactly when one node of the list has it.  findbykey, erase
\* and erasebykey assert it, and every iterator in _map is valid because of
\* it.
StoreIndexed ==
  /\ map = {list[p].idx : p \in DOMAIN list}
  /\ \A p, q \in DOMAIN list : list[p].idx = list[q].idx => p = q

\* Threads in save_chunk, which have pushed an entry they may have to evict.
Saving == {t \in Threads : pc[t] \in {"check", "pop", "save", "settag"}}

\* The enclave's heap is bounded: the list outgrows MAX_CACHE_NUM only by the
\* entries of threads still inside save_chunk, although the size is read
\* without the mutex.
CacheBound == Len(list) <= MaxCache + Cardinality(Saving)

\* What a read of chunk i would return: the entry in the list, or the file in
\* the storage when it matches the tag.
Visible(i) ==
  IF i \in map THEN Cached(i).data
  ELSE IF disk[i] \in Data /\ disk[i] = tag[i] THEN disk[i] ELSE {}

\* A write that returned is never lost: whoever evicts, loads or flushes,
\* once no thread holds the chunk the next read sees the write.  Only a chunk
\* that two threads have held at once, or one held while a flush ran, is
\* exempt: that overlap is the only way to lose a write.
NoLostWrite ==
  \A i \in Chunks \ overlap :
    (\A t \in Threads : ~Holds(t, i)) => done[i] \subseteq Visible(i)

\* decrypt_buffer never rejects a file this program wrote: when a thread is
\* about to compare, file and tag match (same exemption).  A mismatch is an
\* EINVAL to a reader, and silently ignored in a write.
LoadsVerify ==
  \A t \in Threads :
    pc[t] = "decrypt" /\ job[t].idx \notin overlap => Verifies(t)

\* When ecall_fs_flush returns, every write that had returned before it is in
\* the storage, under the tag the stored Filenode has (same exemption).
FlushPersists ==
  [][\A t \in Threads : SaveMeta(t) =>
       /\ \A i \in Chunks \ overlap : meta'[i] = disk[i]
       /\ \A g \in goal[t] : g[1] \notin overlap => g[2] \in disk[g[1]]]_vars

\* Neither front() of an empty list nor an iterator to an erased node is used.
NoFault == \A t \in Threads : pc[t] # "fault"

\* Every ecall returns: the eviction loop ends.
RequestsReturn == \A t \in Threads : pc[t] # "idle" ~> pc[t] = "idle"
=============================================================================
