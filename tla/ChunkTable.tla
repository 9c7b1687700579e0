----------------------------- MODULE ChunkTable -----------------------------
(***************************************************************************)
(* Filenode::chunks as a vector that changes its length while threads use  *)
(* it: the resize of ecall_fs_write and ecall_fs_fallocate under           *)
(* Filenode::mutex and that of ecall_fs_open with O_TRUNC without it       *)
(* (ecall_fs.cpp), the references into the vector that a read, a flush and *)
(* a truncation keep across their ocalls, and the write-back of            *)
(* save_chunk, which finds its Chunk again under the mutex (storage.cpp).  *)
(* A write extends the table when it begins and the size when it ends, and *)
(* ends early when an ocall is refused; a flush may store what it left.    *)
(*                                                                         *)
(* Writes cover whole chunks, the n-th one writes version n, and only      *)
(* modified entries of the cache are kept.  What two threads that hold one *)
(* chunk do to it is the subject of ChunkStore, and what becomes of cache  *)
(* entries of chunks that were truncated that of FileIO; here their chunks *)
(* are only recorded.                                                      *)
(***************************************************************************)
EXTENDS Naturals, FiniteSets

CONSTANTS
  Threads,
  MaxChunks,  \* bound: chunks of the file
  MaxWrites,  \* bound: writes
  MaxTruncs,  \* bound: truncations
  MaxFails    \* bound: saves that fail

ASSUME TableAssumption ==
  /\ MaxChunks \in Nat \ {0} /\ MaxWrites \in Nat
  /\ MaxTruncs \in Nat /\ MaxFails \in Nat

VARIABLES
  len, cap,  \* chunks.size(), chunks.capacity()
  gen,       \* which of the vector's buffers is the current one
  tag,       \* the version each Chunk's tag belongs to
  size,      \* Filenode::size in chunks, rounded up
  cached,    \* the version of each modified chunk in local_cache
  disk,      \* the version in each chunk file
  stored,    \* the Filenode's metadata file
  pc, job,   \* threads
  writes,    \* bound: writes so far
  truncs,    \* bound: truncations so far
  fails,     \* bound: saves that failed so far
  newest,    \* history: the last version put into the cache
  lost,      \* history: chunks whose newest version may be lost
  cut,       \* history: the last truncation met a write or a fallocate
  early      \* history: stored was written while the size was catching up,
             \* or after it had lost the table

table == <<len, cap, gen, tag, size>>
bounds == <<writes, truncs, fails>>
vars == <<table, cached, disk, stored, pc, job, bounds, newest, lost, cut, early>>

Index == 1..MaxChunks
None == 0      \* no version: a hole, or not in the cache

\* The chunk a thread reads, writes or flushes; the version it has in hand
\* and of which chunk; the buffer its references point into, with its length.
NoJob == [op |-> "none", idx |-> 1, ver |-> None, old |-> 0, gen |-> 0, n |-> 0]

\* The file has one chunk, a hole.
Init ==
  /\ len = 1 /\ cap = 1 /\ gen = 1 /\ size = 1
  /\ tag = [i \in Index |-> None] /\ disk = tag /\ cached = tag
  /\ stored = [len |-> 1, size |-> 1]
  /\ pc = [t \in Threads |-> "idle"] /\ job = [t \in Threads |-> NoJob]
  /\ writes = 0 /\ truncs = 0 /\ fails = 0
  /\ newest = tag /\ lost = {} /\ cut = FALSE /\ early = FALSE

Goto(t, l, j) == pc' = [pc EXCEPT ![t] = l] /\ job' = [job EXCEPT ![t] = j]
NatMax(a, b) == IF a >= b THEN a ELSE b

Writing(t) == job[t].op = "write"

\* A truncation that has cleared the table and not yet the size, and the
\* chunks whose files one may have removed.
Shrinking(t) == pc[t] = "shrink"
Removed == {i \in Index : \E t \in Threads : pc[t] = "remove" /\ i < job[t].idx}

\* std::vector::resize to more elements: the new ones are holes, and past the
\* capacity all of them move.
Resize(n) ==
  /\ len' = NatMax(len, n)
  /\ tag' = [i \in Index |-> IF len < i /\ i <= n THEN None ELSE tag[i]]
  /\ IF n > cap THEN cap' = NatMax(2 * cap, n) /\ gen' = gen + 1
                ELSE UNCHANGED <<cap, gen>>
  /\ cut' = (cut \/ \E t \in Threads : Shrinking(t))

-----------------------------------------------------------------------------
(* ecall_fs_write, ecall_fs_fallocate.                                     *)

\* With -o writeback the kernel may have several writes of a file under way.
BeginWrite(t, i) ==
  /\ pc[t] = "idle" /\ writes < MaxWrites
  /\ writes' = writes + 1
  /\ Resize(i)
  /\ Goto(t, "put", [NoJob EXCEPT !.op = "write", !.idx = i, !.ver = writes + 1,
                                  !.gen = gen'])
  /\ UNCHANGED <<size, cached, disk, stored, truncs, fails, newest, early>>

\* What save_chunk still needs of the job when it has nothing in hand.
Saving(t) == [NoJob EXCEPT !.op = job[t].op, !.idx = job[t].idx]

\* A hole gets its uuid in the vector, outside the mutex; then save_chunk: the
\* chunk is pushed ...
Put(t) ==
  LET j == job[t] IN
  /\ pc[t] = "put"
  /\ cached' = [cached EXCEPT ![j.idx] = j.ver]
  /\ newest' = [newest EXCEPT ![j.idx] = j.ver]
  /\ Goto(t, "evict", Saving(t))
  /\ UNCHANGED <<table, disk, stored, bounds, cut, early>>

\* ... others are popped, whichever is the oldest ...
Pop(t, i) ==
  /\ pc[t] = "evict" /\ cached[i] # None
  /\ cached' = [cached EXCEPT ![i] = None]
  /\ Goto(t, "save", [job[t] EXCEPT !.ver = cached[i], !.old = i, !.gen = gen])
  /\ UNCHANGED <<table, disk, stored, bounds, newest, cut, early>>

\* ... and saved, with the tag in a local Chunk ...
EvictSave(t) ==
  /\ pc[t] = "save"
  /\ disk' = [disk EXCEPT ![job[t].old] = job[t].ver]
  /\ Goto(t, "settag", job[t])
  /\ UNCHANGED <<table, cached, stored, bounds, newest, cut, early>>

\* Variant: the tag is set through a reference from before the ocall.
EvictTagByReference(t) ==
  /\ pc[t] = "settag"
  /\ Goto(t, "evict", Saving(t))
  /\ tag' = IF job[t].gen = gen THEN [tag EXCEPT ![job[t].old] = job[t].ver] ELSE tag
  /\ UNCHANGED <<len, cap, gen, size, cached, disk, stored, bounds, newest, cut, early>>

\* ... that is copied to where the chunk is now, under the mutex.
EvictTag(t) ==
  /\ pc[t] = "settag"
  /\ tag' = [tag EXCEPT ![job[t].old] = job[t].ver]
  /\ Goto(t, "evict", Saving(t))
  /\ UNCHANGED <<len, cap, gen, size, cached, disk, stored, bounds, newest, cut, early>>

\* Variant: the size is where the last write ended.
EndSaveAtWrite(t) ==
  /\ pc[t] = "evict"
  /\ size' = IF Writing(t) THEN job[t].idx ELSE size
  /\ Goto(t, "idle", NoJob)
  /\ UNCHANGED <<len, cap, gen, tag, cached, disk, stored, bounds, newest, cut, early>>

EndSave(t) ==
  /\ pc[t] = "evict"
  /\ size' = IF Writing(t) THEN NatMax(size, job[t].idx) ELSE size
  /\ Goto(t, "idle", NoJob)
  /\ UNCHANGED <<len, cap, gen, tag, cached, disk, stored, bounds, newest, cut, early>>

\* Variant: the table is only extended by the writes that follow.
FallocateSizeOnly(t, n) ==
  /\ pc[t] = "idle" /\ n > size
  /\ size' = n
  /\ UNCHANGED <<len, cap, gen, tag, cached, disk, stored, pc, job, bounds, newest, cut, early>>

\* Table and size change in one critical section.
Fallocate(t, n) ==
  /\ pc[t] = "idle" /\ (n > size \/ n > len)
  /\ Resize(n) /\ size' = NatMax(size, n)
  /\ UNCHANGED <<cached, disk, stored, pc, job, bounds, newest, early>>

-----------------------------------------------------------------------------
(* ecall_fs_open with O_TRUNC, which takes no lock.                        *)

BeginTruncate(t) ==
  /\ pc[t] = "idle" /\ truncs < MaxTruncs
  /\ truncs' = truncs + 1
  /\ Goto(t, "remove", [NoJob EXCEPT !.op = "trunc", !.gen = gen, !.n = len])
  /\ UNCHANGED <<table, cached, disk, stored, writes, fails, newest, cut, early>>

\* remove_chunk of one chunk after the other.  A uuid from a buffer that was
\* freed may be another; that it then fails is ignored.
Remove(t) ==
  LET i == job[t].idx IN
  /\ pc[t] = "remove" /\ i <= job[t].n
  /\ disk' \in {[disk EXCEPT ![i] = None]} \cup IF job[t].gen = gen THEN {} ELSE {disk}
  /\ Goto(t, "remove", [job[t] EXCEPT !.idx = @ + 1])
  /\ UNCHANGED <<table, cached, stored, bounds, newest, cut, early>>

\* chunks.resize(0), which keeps the capacity: no file is a chunk's any more.
ClearChunks(t) ==
  /\ pc[t] = "remove" /\ job[t].idx > job[t].n
  /\ len' = 0 /\ tag' = [i \in Index |-> None] /\ disk' = tag' /\ newest' = tag'
  /\ cut' = \E u \in Threads : Writing(u)
  /\ Goto(t, "shrink", NoJob)
  /\ UNCHANGED <<cap, gen, size, cached, stored, bounds, early>>

ClearSize(t) ==
  /\ Shrinking(t)
  /\ size' = 0
  /\ Goto(t, "idle", NoJob)
  /\ UNCHANGED <<len, cap, gen, tag, cached, disk, stored, bounds, newest, cut, early>>

-----------------------------------------------------------------------------
(* ecall_fs_read of a chunk that is not in the cache.                      *)

\* load_cache has a reference to the Chunk ...
BeginRead(t, i) ==
  /\ pc[t] = "idle" /\ i <= size /\ i <= len /\ cached[i] = None /\ tag[i] # None
  /\ Goto(t, "decrypt", [NoJob EXCEPT !.op = "read", !.idx = i, !.ver = disk[i], !.gen = gen])
  /\ UNCHANGED <<table, cached, disk, stored, bounds, newest, cut, early>>

\* ... in which it looks the tag up after the ocall; what it finds in a
\* buffer that was freed, or past the end, may be right or wrong.
Verifies(t) ==
  LET j == job[t] IN
  IF j.gen = gen /\ j.idx <= len THEN {j.ver = tag[j.idx]} ELSE BOOLEAN

EndRead(t) ==
  /\ pc[t] = "decrypt"
  /\ \E ok \in Verifies(t) : Goto(t, IF ok THEN "evict" ELSE "idle", NoJob)
  /\ UNCHANGED <<table, cached, disk, stored, bounds, newest, cut, early>>

-----------------------------------------------------------------------------
(* ecall_fs_flush.                                                         *)

\* The loop has its iterators, and its end, from when it begins.
BeginFlush(t) ==
  /\ pc[t] = "idle"
  /\ Goto(t, "find", [NoJob EXCEPT !.op = "flush", !.gen = gen, !.n = len])
  /\ UNCHANGED <<table, cached, disk, stored, bounds, newest, cut, early>>

NextChunk(t) == Goto(t, "find", [job[t] EXCEPT !.idx = @ + 1, !.ver = None, !.old = 0])

\* flush_chunk: what is read through a reference into a freed buffer or past
\* the end may not be the chunk's uuid, and then nothing is found.
Find(t) ==
  LET i == job[t].idx IN
  /\ pc[t] = "find" /\ i <= job[t].n
  /\ \/ /\ cached[i] # None
        /\ cached' = [cached EXCEPT ![i] = None]
        /\ Goto(t, "ftag", [job[t] EXCEPT !.ver = cached[i], !.old = i])
     \/ /\ cached[i] = None \/ job[t].gen # gen \/ i > len
        /\ NextChunk(t) /\ UNCHANGED cached
  /\ UNCHANGED <<table, disk, stored, bounds, newest, cut, early>>

\* Variant: save_cache sets the tag of a copy.
FlushTagOfCopy(t) ==
  /\ pc[t] = "ftag"
  /\ Goto(t, "fsave", job[t])
  /\ UNCHANGED <<table, cached, disk, stored, bounds, newest, cut, early>>

\* save_cache sets the tag through the reference, in the freed buffer if the
\* vector has moved ...
FlushTag(t) ==
  LET j == job[t] IN
  /\ pc[t] = "ftag"
  /\ tag' = IF j.gen = gen THEN [tag EXCEPT ![j.idx] = j.ver] ELSE tag
  /\ Goto(t, "fsave", j)
  /\ UNCHANGED <<len, cap, gen, size, cached, disk, stored, bounds, newest, cut, early>>

\* ... and saves the data.
FlushSave(t) ==
  /\ pc[t] = "fsave"
  /\ disk' = [disk EXCEPT ![job[t].idx] = job[t].ver]
  /\ NextChunk(t)
  /\ UNCHANGED <<table, cached, stored, bounds, newest, cut, early>>

\* Writes that have resized the table and not yet set the size.
Extending == {t \in Threads : Writing(t) /\ job[t].idx > size}

\* save_metadata.
EndFlush(t) ==
  /\ pc[t] = "find" /\ job[t].idx > job[t].n
  /\ stored' = [len |-> len, size |-> size]
  /\ early' = (Extending # {} \/ fails > 0 \/ cut \/ \E u \in Threads : Shrinking(u))
  /\ Goto(t, "idle", NoJob)
  /\ UNCHANGED <<table, cached, disk, bounds, newest, cut>>

-----------------------------------------------------------------------------

\* ocall_save_file is refused: the request returns an error, and the chunk,
\* which is no longer in the cache, is dropped.
Fail(t) ==
  /\ pc[t] \in {"save", "fsave"} /\ fails < MaxFails
  /\ fails' = fails + 1
  /\ Goto(t, "idle", NoJob)
  /\ UNCHANGED <<table, cached, disk, stored, writes, truncs, newest, cut, early>>

Holds(t, i) == job[t].old = i \/ (job[t].idx = i /\ pc[t] \in {"put", "decrypt"})

\* A chunk may be lost when two threads hold it, when a write gives it a uuid
\* or a flush a tag in a freed buffer, when a save of it is refused, and when
\* the table is cleared while it is in the cache or a thread holds it.
Observe ==
  lost' = lost \cup {i \in Index :
    \/ \E t, u \in Threads : t # u /\ Holds(t, i)' /\ Holds(u, i)'
    \/ \E t \in Threads : /\ job[t].gen # gen
                           /\ pc[t] \in {"put", "ftag"} /\ job[t].idx = i
    \/ \E t \in Threads : fails' > fails /\ job[t].old = i /\ pc'[t] = "idle"
    \/ /\ \E t \in Threads : pc[t] = "remove" /\ Shrinking(t)'
       /\ cached[i] # None \/ \E t \in Threads : Holds(t, i)}

Step(t) ==
  \/ Put(t) \/ (\E i \in Index : Pop(t, i)) \/ EvictSave(t) \/ EvictTag(t) \/ EndSave(t)
  \/ Remove(t) \/ ClearChunks(t) \/ ClearSize(t)
  \/ EndRead(t)
  \/ Find(t) \/ FlushTag(t) \/ FlushSave(t) \/ EndFlush(t)
  \/ Fail(t)

Request(t) ==
  \/ \E i \in Index : BeginWrite(t, i) \/ BeginRead(t, i) \/ Fallocate(t, i)
  \/ BeginTruncate(t) \/ BeginFlush(t)

Next == (\E t \in Threads : Step(t) \/ Request(t)) /\ Observe

Spec == Init /\ [][Next]_vars

-----------------------------------------------------------------------------
(* Correctness.                                                            *)

\* Whatever moves or clears the vector, the newest version of a chunk is in
\* the cache, or in a file that the tag in the table belongs to, unless
\* a truncation is removing it or it is in lost: two threads held it, a write
\* or a flush of it was overtaken by a resize or a truncation, or a save of it
\* was refused (storage.cpp, save_chunk and flush_chunk).
WritesKept ==
  \A i \in Index \ (lost \cup Removed) :
    \/ cached[i] = newest[i]
    \/ disk[i] = newest[i] /\ tag[i] = newest[i]
    \/ \E t \in Threads : Holds(t, i)

\* A read that misses the cache fails only when the vector moved under it,
\* when the chunk is being truncated or when it may be lost (storage.cpp,
\* load_cache): no order of a read, evictions, flushes and truncations before
\* it gives it a tag of another version than the file.
ReadsVerify ==
  \A t \in Threads :
    pc[t] = "decrypt" /\ job[t].gen = gen /\ job[t].idx \notin lost \cup Removed
      => Verifies(t) = {TRUE}

\* The table is never shorter than the size, for which ecall_fs_read refuses
\* to read at all (ecall_fs.cpp:253), unless a truncation is between its two
\* assignments or the last one met a write or a fallocate, whose size it did
\* not clear (ecall_fs.cpp:234).
TableCoversSize == size <= len \/ cut \/ \E t \in Threads : Shrinking(t)

\* Filenode::load takes what a flush stored, whose table is as long as its
\* size asks for, unless the flush came while a write was extending the file
\* or a truncation was between its two assignments, or after a write had
\* failed or a truncation met one.
StoredFits == stored.len # stored.size => early
=============================================================================
