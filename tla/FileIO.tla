------------------------------- MODULE FileIO -------------------------------
(***************************************************************************)
(* The data path of one file as the enclave runs it for one request after  *)
(* another (secfs -s): ecall_fs_lookup, forget, open, read, write,         *)
(* fallocate and flush (ecall_fs.cpp) over load_chunk, save_chunk,         *)
(* flush_chunk (storage.cpp) and the ChunkStore (volume.cpp), byte by byte *)
(* with a small CHUNKSIZE.  Interleavings of threads are ChunkStore's      *)
(* subject; here a crash may come between any two loop iterations, that    *)
(* is between any two files written to or removed from the storage.        *)
(*                                                                         *)
(* uuids are numbers, a tag is the data it was computed from, the n-th     *)
(* write writes bytes n.                                                   *)
(***************************************************************************)
EXTENDS Naturals, Sequences, SequencesExt

CONSTANTS
  C,          \* CHUNKSIZE
  MaxChunks,  \* bound: chunks of the file
  MaxCache,   \* MAX_CACHE_NUM
  MaxWrites,  \* bound: writes
  NumUuids,   \* bound: uuids of chunks, as many as are in use at once
  MaxUnlinks  \* bound: 0 or 1, whether the file may be unlinked

ASSUME FileIOAssumption ==
  /\ C \in Nat \ {0} /\ MaxChunks \in Nat \ {0} /\ MaxCache \in Nat
  /\ MaxWrites \in Nat /\ MaxUnlinks \in {0, 1}
  /\ NumUuids \in Nat /\ NumUuids >= 2 * MaxChunks + MaxCache + 1

VARIABLES
  loaded,        \* the Filenode is in inode_map
  size, chunks,  \* its fields
  cache,         \* local_cache, oldest entry first
  disk,          \* the chunk files, by uuid
  stored,        \* the Filenode's metadata file
  linked,        \* the file has a name and has not been unlinked
  user,          \* "open": a descriptor, "mapped": only a mapping, "closed"
  job,           \* the ecall in progress
  writes,        \* bound: the writes so far
  saved,         \* history: what a read of the whole file would have
                 \* returned when the last flush did
  dirty,         \* history: chunks written or truncated since
  removed,       \* history: chunks whose files unlink removes
  stale          \* history: contents of entries left in the cache when their
                 \* chunk was truncated or their file forgotten

node == <<loaded, size, chunks>>
storage == <<disk, stored, linked>>
ghosts == <<saved, dirty, stale, removed>>
vars == <<node, cache, storage, user, job, writes, ghosts>>

Index == 1..MaxChunks
Bytes == [0..(C - 1) -> 0..MaxWrites]
Zeros == [o \in 0..(C - 1) |-> 0]
Lost == <<>>                    \* no file, or one that does not verify
Hole == 0                       \* UUID()
NewChunk == [uuid |-> Hole, tag |-> Lost]
NoJob == [op |-> "none", idx |-> 1, last |-> 0, off |-> 0, len |-> 0,
          byte |-> 0, prev |-> 0, surplus |-> 0, table |-> <<>>]
Empty == [size |-> 0, chunks |-> <<>>]

NatMax(a, b) == IF a >= b THEN a ELSE b
CeilDiv(n) == (n + C - 1) \div C

\* ecall_fs_create has just made the file and returned it open.
Init ==
  /\ loaded = TRUE /\ size = 0 /\ chunks = <<>> /\ cache = <<>>
  /\ disk = [u \in 0..NumUuids |-> Lost]
  /\ stored = Empty /\ linked = TRUE
  /\ user = "open" /\ job = NoJob /\ writes = 0
  /\ saved = [arr |-> [i \in Index |-> Zeros], size |-> 0]
  /\ dirty = {} /\ stale = {} /\ removed = {}

-----------------------------------------------------------------------------
(* The cache.  A weak pointer leads from an entry to its file, which is    *)
(* live until the file is forgotten.                                       *)

Cached(u) == \E p \in DOMAIN cache : cache[p].key = u
EntryPos(u) == CHOOSE p \in DOMAIN cache : cache[p].key = u
EntryOf(u) == cache[EntryPos(u)]
Without(u) == IF Cached(u) THEN RemoveAt(cache, EntryPos(u)) ELSE cache

\* UUID::gen_rand.  A random uuid names no file: the file of a uuid nobody
\* refers to is as good as removed.
InUse == {chunks[i].uuid : i \in DOMAIN chunks}
  \cup {stored.chunks[i].uuid : i \in DOMAIN stored.chunks}
  \cup {cache[p].key : p \in DOMAIN cache}
Fresh == CHOOSE u \in 1..NumUuids : u \notin InUse

\* ChunkStore::push_get_back.
Pushed(e) == Append(Without(e.key), e)

\* Variant: the list may be one entry longer.
EvictLate(q, cs, ds) ==
  LET old == Head(q) IN
  IF Len(q) <= MaxCache + 1
    THEN cache' = q /\ chunks' = cs /\ disk' = ds
    ELSE /\ old.live /\ cache' = Tail(q)
         /\ chunks' = [cs EXCEPT ![old.idx].tag = old.data]
         /\ disk' = [ds EXCEPT ![cs[old.idx].uuid] = old.data]

\* The loop of save_chunk evicts the front while the list q is too long,
\* which takes one eviction.  A modified entry is saved for the chunk that
\* is at its index now, whatever it was; past the end of the vector is the
\* memory of the chunk that was there.  An expired entry makes the process
\* follow a null pointer: nothing is left to do but Crash.
Evict(q, cs, ds) ==
  LET old == Head(q) IN
  IF Len(q) <= MaxCache
    THEN cache' = q /\ chunks' = cs /\ disk' = ds
    ELSE /\ old.live
         /\ cache' = Tail(q)
         /\ IF ~old.modified THEN chunks' = cs /\ disk' = ds
            ELSE IF old.idx > Len(cs)
              THEN chunks' = cs /\ disk' = [ds EXCEPT ![old.key] = old.data]
              ELSE /\ chunks' = [cs EXCEPT ![old.idx].tag = old.data]
                   /\ disk' = [ds EXCEPT ![cs[old.idx].uuid] = old.data]

-----------------------------------------------------------------------------
(* Reading and writing.                                                    *)

Ready == job.op = "none"
Using == Ready /\ user \in {"open", "mapped"}

\* ecall_fs_read up to its loop.  The kernel asks for nothing past the end.
BeginRead(off, n) ==
  /\ Using /\ off < size
  /\ LET len == IF n > size - off THEN size - off ELSE n
         en == CeilDiv(off + len) IN
       /\ en <= Len(chunks)
       /\ job' = [NoJob EXCEPT !.op = "read", !.idx = off \div C + 1, !.last = en]
  /\ UNCHANGED <<node, cache, storage, user, writes, ghosts>>

Loadable(u, tag) == disk[u] # Lost /\ disk[u] = tag

\* One iteration: the chunk is loaded and pushed back; a hole reads as zeros.
\* When the load fails the read returns EINVAL.
ReadChunk ==
  LET i == job.idx
      u == chunks[i].uuid
      next == IF i = job.last THEN NoJob ELSE [job EXCEPT !.idx = i + 1]
      fetched == [key |-> u, idx |-> i, data |-> disk[u], modified |-> FALSE,
                  live |-> TRUE] IN
  /\ job.op = "read"
  /\ \/ u = Hole /\ job' = next /\ UNCHANGED <<cache, chunks, disk>>
     \/ /\ Cached(u) /\ EntryOf(u).live
        /\ Evict(Pushed(EntryOf(u)), chunks, disk) /\ job' = next
     \/ /\ u # Hole /\ ~Cached(u) /\ Loadable(u, chunks[i].tag)
        /\ Evict(Pushed(fetched), chunks, disk) /\ job' = next
     \/ /\ u # Hole /\ ~Cached(u) /\ ~Loadable(u, chunks[i].tag)
        /\ job' = NoJob /\ UNCHANGED <<cache, chunks, disk>>
  /\ UNCHANGED <<loaded, size, stored, linked, user, writes, ghosts>>

\* The chunk table resized for chunks 1..n; it never shrinks here.
Resized(n) == [i \in 1..NatMax(Len(chunks), n) |->
                 IF i <= Len(chunks) THEN chunks[i] ELSE NewChunk]

\* ecall_fs_write up to its loop.
BeginWrite(off, len) ==
  LET en == CeilDiv(off + len) IN
  /\ Using /\ off + len <= C * MaxChunks /\ writes < MaxWrites
  /\ writes' = writes + 1
  /\ chunks' = Resized(en)
  /\ job' = [op |-> "write", idx |-> off \div C + 1, last |-> en, off |-> off,
             len |-> len, byte |-> writes + 1, prev |-> Len(chunks),
             surplus |-> (size + C - 1) % C, table |-> <<>>]
  /\ UNCHANGED <<loaded, size, cache, storage, user, ghosts>>

\* The bytes of the chunk that the write covers: off_st <= o < off_en.
OffSt == IF job.idx = job.off \div C + 1 THEN job.off % C ELSE 0
OffEn == IF job.idx = job.last THEN ((job.off + job.len - 1) % C) + 1 ELSE C

\* Variant: the end of the write is not looked at.
PartialByStart == OffSt # 0

\* The write does not seem to cover the chunk, which must be loaded first.
Partial == OffSt # 0 \/ OffEn # (IF job.idx = job.prev THEN job.surplus ELSE C)

Patch(d) ==
  [o \in 0..(C - 1) |-> IF OffSt <= o /\ o < OffEn THEN job.byte ELSE d[o]]

\* One iteration.  A failed load is ignored; the buffer then holds what was
\* decrypted, or zeros if there was no file.
WriteChunk ==
  LET i == job.idx
      hole == chunks[i].uuid = Hole
      u == IF hole THEN Fresh ELSE chunks[i].uuid
      cs == [chunks EXCEPT ![i].uuid = u]
      ds == IF hole THEN [disk EXCEPT ![u] = Lost] ELSE disk
      q(d) == Pushed([key |-> u, idx |-> i, data |-> Patch(d), modified |-> TRUE,
                      live |-> TRUE]) IN
  /\ job.op = "write" /\ i <= job.last
  /\ \/ hole /\ Evict(q(Zeros), cs, ds)
     \/ ~hole /\ ~Partial /\ Evict(q(Zeros), cs, ds)
     \/ ~hole /\ Partial /\ Cached(u) /\ EntryOf(u).live /\ Evict(q(EntryOf(u).data), cs, ds)
     \/ /\ ~hole /\ Partial /\ ~Cached(u)
        /\ Evict(q(IF disk[u] = Lost THEN Zeros ELSE disk[u]), cs, ds)
  /\ job' = [job EXCEPT !.idx = i + 1]
  /\ dirty' = dirty \cup {i}
  /\ UNCHANGED <<loaded, size, stored, linked, user, writes, saved, stale, removed>>

EndWrite ==
  /\ job.op = "write" /\ job.idx > job.last
  /\ size' = NatMax(size, job.off + job.len)
  /\ job' = NoJob
  /\ UNCHANGED <<loaded, chunks, cache, storage, user, writes, ghosts>>

\* Variant: the chunk table is left as it is.
FallocateSizeOnly(off, len) ==
  /\ Using /\ off + len <= C * MaxChunks
  /\ size' = NatMax(size, off + len)
  /\ UNCHANGED <<loaded, chunks, cache, storage, user, job, writes, ghosts>>

\* ecall_fs_fallocate, whatever the mode.
Fallocate(off, len) ==
  /\ Using /\ off + len <= C * MaxChunks
  /\ chunks' = Resized(CeilDiv(off + len))
  /\ size' = NatMax(size, off + len)
  /\ UNCHANGED <<loaded, cache, storage, user, job, writes, ghosts>>

-----------------------------------------------------------------------------
(* What a read would return, chunk by chunk.                               *)

StoredChunk(cs, i) ==
  CASE i > Len(cs) -> Zeros
    [] i <= Len(cs) /\ cs[i].uuid = Hole -> Zeros
    [] OTHER -> IF disk[cs[i].uuid] = cs[i].tag THEN cs[i].tag ELSE Lost

\* Truncation counts from the moment it begins.
View == [i \in Index |->
  CASE ~loaded -> StoredChunk(stored.chunks, i)
    [] job.op = "trunc" -> Zeros
    [] OTHER -> IF i <= Len(chunks) /\ Cached(chunks[i].uuid) /\ EntryOf(chunks[i].uuid).live
                  THEN EntryOf(chunks[i].uuid).data
                  ELSE StoredChunk(chunks, i)]

ViewSize == CASE ~loaded -> stored.size
              [] job.op = "trunc" -> 0
              [] OTHER -> size

ViewPending ==
  CASE job.op = "write" -> [off |-> job.off, len |-> job.len, byte |-> job.byte,
                            next |-> job.idx]
    [] job.op = "trunc" -> [off |-> 0, len |-> 0, byte |-> 0, next |-> 1]
    [] OTHER -> [off |-> 0, len |-> 0, byte |-> 0, next |-> 0]

\* Modified entries that no chunk of the file will claim any more.
Left == {<<cache[p].idx, cache[p].data>> : p \in {q \in DOMAIN cache : cache[q].modified}}

-----------------------------------------------------------------------------
(* Opening, flushing, forgetting.                                          *)

\* ecall_fs_lookup: load_metadata rejects a chunk table of the wrong length.
Lookup ==
  /\ Ready /\ ~loaded /\ linked
  /\ CeilDiv(stored.size) = Len(stored.chunks)
  /\ loaded' = TRUE /\ size' = stored.size /\ chunks' = stored.chunks
  /\ UNCHANGED <<cache, storage, user, job, writes, ghosts>>

\* ecall_fs_open; with O_TRUNC the chunk files are removed one by one ...
Open(trunc) ==
  /\ Ready /\ loaded
  /\ user' = "open"
  /\ IF trunc THEN /\ job' = [NoJob EXCEPT !.op = "trunc"]
                   /\ dirty' = Index /\ stale' = stale \cup Left
              ELSE UNCHANGED <<job, dirty, stale>>
  /\ UNCHANGED <<node, cache, storage, writes, saved, removed>>

TruncChunk ==
  LET u == chunks[job.idx].uuid IN
  /\ job.op = "trunc" /\ job.idx <= Len(chunks)
  /\ disk' = IF u = Hole THEN disk ELSE [disk EXCEPT ![u] = Lost]
  /\ job' = [job EXCEPT !.idx = @ + 1]
  /\ UNCHANGED <<node, cache, stored, linked, user, writes, ghosts>>

\* Variant: the size is not reset.
EndTruncKeepsSize ==
  /\ job.op = "trunc" /\ job.idx > Len(chunks)
  /\ chunks' = <<>> /\ job' = NoJob
  /\ UNCHANGED <<loaded, size, cache, storage, user, writes, ghosts>>

\* ... and the table is cleared.  The cache keeps its entries.
EndTrunc ==
  /\ job.op = "trunc" /\ job.idx > Len(chunks)
  /\ chunks' = <<>> /\ size' = 0 /\ job' = NoJob
  /\ UNCHANGED <<loaded, cache, storage, user, writes, ghosts>>

\* ecall_fs_flush, which the kernel sends when a descriptor is closed.
BeginFlush ==
  /\ Ready /\ user = "open"
  /\ job' = [NoJob EXCEPT !.op = "flush"]
  /\ UNCHANGED <<node, cache, storage, user, writes, ghosts>>

\* Variant: the chunk is encrypted through a copy, as in save_chunk, and the
\* copy is not written back.
FlushChunkOfCopy ==
  LET i == job.idx
      u == chunks[i].uuid IN
  /\ job.op = "flush" /\ i <= Len(chunks)
  /\ cache' = Without(u)
  /\ disk' = IF Cached(u) THEN [disk EXCEPT ![u] = EntryOf(u).data] ELSE disk
  /\ job' = [job EXCEPT !.idx = i + 1]
  /\ UNCHANGED <<loaded, size, chunks, stored, linked, user, writes, ghosts>>

\* flush_chunk.
FlushChunk ==
  LET i == job.idx
      u == chunks[i].uuid IN
  /\ job.op = "flush" /\ i <= Len(chunks)
  /\ IF Cached(u)
       THEN /\ cache' = Without(u)
            /\ IF EntryOf(u).modified
                 THEN /\ chunks' = [chunks EXCEPT ![i].tag = EntryOf(u).data]
                      /\ disk' = [disk EXCEPT ![u] = EntryOf(u).data]
                 ELSE UNCHANGED <<chunks, disk>>
       ELSE UNCHANGED <<cache, chunks, disk>>
  /\ job' = [job EXCEPT !.idx = i + 1]
  /\ UNCHANGED <<loaded, size, stored, linked, user, writes, ghosts>>

\* save_metadata, and the reply.  A file that was mapped may stay so after
\* its descriptor is closed; release does nothing.
EndFlush ==
  /\ job.op = "flush" /\ job.idx > Len(chunks)
  /\ stored' = [size |-> size, chunks |-> chunks]
  /\ job' = NoJob
  /\ user' \in {"open", "mapped", "closed"}
  /\ saved' = [arr |-> View, size |-> size] /\ dirty' = {}
  /\ UNCHANGED <<node, cache, disk, linked, writes, stale, removed>>

\* munmap: the kernel tells nobody.
Unmap ==
  /\ Ready /\ user = "mapped"
  /\ user' = "closed"
  /\ UNCHANGED <<node, cache, storage, job, writes, ghosts>>

\* Variant: the chunks of the Filenode in inode_map are removed.
UnlinkLoaded ==
  /\ Ready /\ loaded /\ linked /\ MaxUnlinks > 0
  /\ linked' = FALSE /\ stored' = Empty
  /\ job' = IF chunks = <<>> THEN NoJob
             ELSE [NoJob EXCEPT !.op = "unlink", !.table = chunks]
  /\ removed' = {i \in DOMAIN stored.chunks : stored.chunks[i].uuid # Hole}
  /\ saved' = [arr |-> [i \in Index |-> Zeros], size |-> 0]
  /\ UNCHANGED <<node, cache, disk, user, writes, dirty, stale>>

\* ecall_fs_unlink of a file the kernel has looked up: what is stored is
\* loaded and its metadata file removed ...
Unlink ==
  /\ Ready /\ loaded /\ linked /\ MaxUnlinks > 0
  /\ CeilDiv(stored.size) = Len(stored.chunks)
  /\ linked' = FALSE /\ stored' = Empty
  /\ job' = IF stored.chunks = <<>> THEN NoJob
             ELSE [NoJob EXCEPT !.op = "unlink", !.table = stored.chunks]
  /\ removed' = {i \in DOMAIN stored.chunks : stored.chunks[i].uuid # Hole}
  /\ saved' = [arr |-> [i \in Index |-> Zeros], size |-> 0]
  /\ UNCHANGED <<node, cache, disk, user, writes, dirty, stale>>

\* ... then the chunk files.  The Filenode in inode_map and its entries in
\* the cache stay for those who have the file open.
UnlinkChunk ==
  LET u == job.table[job.idx].uuid IN
  /\ job.op = "unlink" /\ job.idx <= Len(job.table)
  /\ disk' = IF u = Hole THEN disk ELSE [disk EXCEPT ![u] = Lost]
  /\ job' = IF job.idx = Len(job.table) THEN NoJob ELSE [job EXCEPT !.idx = @ + 1]
  /\ UNCHANGED <<node, cache, stored, linked, user, writes, ghosts>>

\* What is left of the file when its Filenode is gone.
Unloaded ==
  /\ loaded' = FALSE /\ size' = 0 /\ chunks' = <<>>
  /\ saved' = [arr |-> [i \in Index |-> StoredChunk(stored.chunks, i)],
               size |-> stored.size]
  /\ dirty' = {} /\ removed' = {}

\* ecall_fs_forget of the last reference: the Filenode is destroyed, the
\* entries in the cache stay and expire.
Forget ==
  /\ Ready /\ loaded /\ user = "closed"
  /\ Unloaded
  /\ cache' = [p \in DOMAIN cache |-> [cache[p] EXCEPT !.live = FALSE]]
  /\ stale' = stale \cup Left
  /\ UNCHANGED <<storage, user, job, writes>>

\* The process or the machine dies, at any point.
Crash ==
  /\ Unloaded
  /\ cache' = <<>> /\ stale' = {} /\ job' = NoJob /\ user' = "closed"
  /\ UNCHANGED <<storage, writes>>

-----------------------------------------------------------------------------
Next ==
  \/ \E off \in 0..(C * MaxChunks - 1), len \in 1..(C * MaxChunks) :
       BeginRead(off, len) \/ BeginWrite(off, len) \/ Fallocate(off, len)
  \/ ReadChunk \/ WriteChunk \/ EndWrite
  \/ Lookup \/ Open(TRUE) \/ Open(FALSE) \/ TruncChunk \/ EndTrunc
  \/ BeginFlush \/ FlushChunk \/ EndFlush
  \/ Unlink \/ UnlinkChunk
  \/ Unmap \/ Forget \/ Crash

Spec == Init /\ [][Next]_vars

\* An ecall that has begun goes on.
FairSpec ==
  Spec /\ WF_vars(\/ ReadChunk \/ WriteChunk \/ EndWrite \/ TruncChunk \/ EndTrunc
                  \/ FlushChunk \/ EndFlush \/ UnlinkChunk)

-----------------------------------------------------------------------------
(* Properties.                                                             *)

Chunk == [uuid : 0..NumUuids, tag : Bytes \cup {Lost}]
Entry == [key : 1..NumUuids, idx : Index, data : Bytes, modified : BOOLEAN,
          live : BOOLEAN]

\* Every variable has its type.
TypeOK ==
  /\ loaded \in BOOLEAN /\ size \in 0..(C * MaxChunks)
  /\ chunks \in Seq(Chunk) /\ Len(chunks) <= MaxChunks
  /\ cache \in Seq(Entry) /\ Len(cache) <= MaxCache
  /\ disk \in [0..NumUuids -> Bytes \cup {Lost}]
  /\ stored.size \in 0..(C * MaxChunks) /\ stored.chunks \in Seq(Chunk)
  /\ linked \in BOOLEAN /\ user \in {"open", "mapped", "closed"}
  /\ job.op \in {"none", "read", "write", "flush", "trunc", "unlink"}
  /\ job.idx \in 1..(MaxChunks + 1)
  /\ writes \in 0..MaxWrites
  /\ dirty \cup removed \subseteq Index /\ stale \subseteq Index \X Bytes

\* The file implements ByteFile, which has neither cache nor storage: reads
\* and evictions change no byte, a write changes its own, a flush makes them
\* durable, a crash or a forget gives back what was flushed last and loses at
\* most chunks touched since, unlink takes from those who have the file open
\* at most chunks that were flushed before - but for the deviations ByteFile names.
File == INSTANCE ByteFile WITH
  arr <- View, size <- ViewSize, pending <- ViewPending

ImplementsByteFile == File!Spec

\* The metadata file can always be loaded again: Filenode::load rejects one
\* whose chunk table does not fit its size, and nothing else could read it.
StoredLoads == CeilDiv(stored.size) = Len(stored.chunks)

\* A chunk of a file that is loaded can be read, unless a crash or a forget
\* took its last writes, or unlink removed it: evicted and flushed data
\* verifies under the tag in memory.
ChunksReadable ==
  loaded /\ linked => \A i \in Index : View[i] = Lost => saved.arr[i] = Lost

\* docs/fs_operations.md says of write that it fetches the chunk when only
\* part of it is written: every other byte stays as it was.
WriteKeepsTheRest ==
  [][WriteChunk /\ View[job.idx] # Lost => View'[job.idx] = Patch(View[job.idx])]_vars
=============================================================================
