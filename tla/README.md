# sgx-secfs in TLA+

sgx-secfs is a FUSE file system whose metadata and contents are encrypted and
decrypted inside an SGX enclave; the untrusted side keeps one file per uuid in
a local directory. This directory holds a TLA+ development of it: the chunk
cache under threads, the chunk table that grows and is truncated under them, the
data path of a file byte by byte, the directory tree under threads and crashes,
the listing of directories, the life of a volume over torn files and several
sessions, and proofs of every safety property the runs check, the refinements of
the file and of the tree included.

    tlc -workers 2 -config MCChunkStore_mt.cfg MCChunkStore.tla
    tlapm ChunkStore_proofs.tla
    tlapm ChunkData_proofs.tla
    tlapm ChunkTable_proofs.tla
    tlapm FileIO_proofs.tla
    tlapm ByteFile_proofs.tla
    tlapm Namespace_proofs.tla
    tlapm DirStream_proofs.tla
    tlapm Volume_proofs.tla

## The system

| Part | State it keeps | Operations | Talks to |
|---|---|---|---|
| FUSE session (`app/main.cpp`, `app/fuse_utils.cpp`) | the mount | `fuse_session_loop_mt`, or one thread with `-s` | FUSE handlers |
| FUSE handlers (`app/fuse_operations.cpp`) | the buffer of an open directory in `fi->fh` | one ecall per request, one reply (`opendir`: two ecalls) | enclave by ecalls |
| Directory tree (`enclave/ecall_fs.cpp`, `dirnode`, `superinfo`) | `inode_map`, `superinfo->max_ino`, `Dirnode::dirent`, reference counts | lookup, forget, mkdir, create, unlink, rmdir, opendir | metadata files by ocalls |
| File data path (`enclave/ecall_fs.cpp`, `filenode`) | `Filenode::size`, `chunks` (uuid and GCM tag of each) | open with `O_TRUNC`, read, write, fallocate, flush | chunk cache |
| Chunk cache and chunk I/O (`enclave/volume.cpp`, `storage.cpp`) | `ChunkStore`'s list and `_map`, a mutex; at most `MAX_CACHE_NUM` decrypted chunks | `load_chunk`, `save_chunk`, `flush_chunk` | chunk files by ocalls |
| Volume creation and mount (`ecall_volume.cpp`, `usertable`) | `volume_key`, `superinfo`, the root `Dirnode` | create, mount | metadata files |
| Storage (`app/ocall.cpp`, `backend/local.cpp`) | one file per uuid | load, save, remove | the local file system |
| Volume configuration, command line (`app/volume.cpp`, `app/cli.cpp`) | a JSON file that names keys, enclave, storage and volume | `secfs_cli create`, mounting | enclave by ecalls, the local file system |
| Application-side cache (`app/cache.*`) | - | no code uses it | - |

What makes it hard to get right:

- **Threads.** libfuse serves requests on several threads. A lock is taken only
  by single operations of `ChunkStore`, around the resize and the update of
  `size` in write and fallocate, and where `save_chunk` copies a `Chunk`; every
  sequence of these is open to others, and `open` with `O_TRUNC` takes none. `load_chunk` takes an entry out of the
  cache and pushes it back later, `save_chunk` reads the size of the list and
  pops in two steps, `flush_chunk` finds and erases in two. `inode_map`,
  `max_ino`, the reference counts and the directories have no lock at all.
- **Crashes.** `create` and `mkdir` save three files, `unlink` and `rmdir`
  remove one and save another, an eviction overwrites a chunk file whose new
  tag is stored only at the next flush, and every file is truncated before it
  is written.
- **Partial failure.** The ocall that saves a file drops the error; a chunk is
  taken out of the cache before it is saved; a write resizes the chunk table
  first and sets the size last.
- **Several sessions.** Nothing keeps two processes from mounting one volume.
- **Two calls for one question.** `opendir` asks for the number of entries and
  then for the entries.
- **Stale references.** A cache entry finds its chunk by an index and a weak
  pointer to a `Filenode`; both may be out of date when it is evicted.
- **Boundaries.** Partial chunks at the end of the file, holes, a cache limit
  that is enforced after the fact.

`PROJECT.json` lists the hazards one by one, with the property that watches
each and, where there is none yet, why.

## Modules

| Module | Models | Steps |
|---|---|---|
| `ChunkStore` | the cache and its users under any number of threads | critical sections, ocalls and unlocked accesses |
| `ChunkStore_proofs` | theorems about the list and its index | |
| `ChunkData_proofs` | theorems about the data `ChunkStore` keeps | |
| `ChunkTable` | `Filenode::chunks` growing and truncated under threads, with saves that fail | the same |
| `ChunkTable_proofs` | theorems about `ChunkTable` | |
| `ByteFile` | what one file promises: bytes, flushes, crashes, unlink | abstract |
| `FileIO` | the data path of one file, one request after another, with crashes and unlink | loop iterations (one chunk file each) |
| `FileIO_proofs` | theorems about `FileIO` | |
| `ByteFile_proofs` | the theorem that `FileIO` implements `ByteFile` | |
| `DirTree` | what the directory tree promises | abstract |
| `Namespace` | the directory tree, the kernel's lookup counts, crashes | from one ocall to the next; a reference count is read in one step and written in another |
| `Namespace_proofs` | theorems about `Namespace` | |
| `DirStream` | listing a directory while others change it | ecalls and the copy in between |
| `DirStream_proofs` | theorems about `DirStream` | |
| `Volume` | configurations, volumes and sessions over files that tear | opening and writing of files |
| `Volume_proofs` | theorems about `Volume` | |
| `MCChunkStore`, `MCChunkTable`, `MCNamespace`, `MCVolume` | sets of threads, names and processes, symmetry for TLC | |

The modules cut the system along what its hazards need: `ChunkStore` keeps
threads and forgets bytes, `ChunkTable` adds the table and failures and forgets
two threads on one chunk, `FileIO` keeps bytes and forgets threads, `Namespace`
keeps the tree and forgets contents, `Volume` keeps single opens and writes
and forgets everything below the root.

### ChunkStore

`list` and `map` are the members of the C++ class. A thread's `pc` names the
next critical section or ocall of its ecall, `job` its arguments, `buf` the
`ChunkCache` it holds outside the list. `tag` is the tag in the in-memory
`Filenode`, `meta` the ones in its stored copy, `disk` the chunk files. A read
is `take; (fetch; decrypt;) push; check; (pop; (save; settag;) check)*`; a
write enters at `take` or, when it covers the chunk or fills a hole, at `push`;
a flush is `(find; (erase; (ftag; fsave)))*; meta`. The two places that are
undefined in C++, `front()` of an empty list and moving from an erased node,
lead to `fault`, after which nothing is said of the process; `dangling` tracks
which iterators are affected.

Bytes are abstracted to the set of writes a chunk contains, a tag to the data it
was computed from. A request over several chunks is the sequence of its
single-chunk loop bodies. `SameChunk` says whether two requests may work on one
chunk at a time. The kernel's page locks keep cached reads and writes of one
page apart, but not reads through `O_DIRECT`, which the file system does not
refuse, so the runs set it to `TRUE`. A flush is ordered with nothing.

### FileIO and ByteFile

`FileIO` keeps the arithmetic of `ecall_fs_write` (chunk index, offsets in the
first and last chunk, `last_surplus`), the chunk table with holes, the cache as a
list with the index, weak pointer and modified bit of each entry, and a
`Filenode` with a stored copy. A tag is again the data. `user` is what the
kernel holds: an open descriptor, only a mapping, or nothing; it decides
whether reads and writes may come and when `forget` may. `View` is what a read
of the whole file would return now.

`ByteFile` is the abstract file: `Put` changes the bytes of a write and no
others, `Flush` makes the file durable, `Lapse` is a crash or forget after
which the file is as flushed, or unreadable in chunks touched since. Three
deviations of the code are in it by name, so that the refinement shows there
are no others: `PutShort` (the off-by-one of `last_surplus`, which zeroes the
chunk from the last byte of the file on), `PutLost` (a
write over a chunk that cannot be loaded ignores the error), `Resurface` (an
entry that outlived a truncation or a forget is saved as another chunk's
data) and `Lose`. `Lose` is what unlinking an open file may do:
`ecall_fs_unlink` loads a copy of the stored metadata and removes the chunk
files it names, so those who have the file open lose chunks that were flushed
before, as soon as these are not in the cache. Chunks that were never flushed
stay, and a later flush makes chunk files and metadata of a file that no entry
leads to. When the index of such an entry is past the end of the vector the code
writes through memory it does not own; of what the build can do there `FileIO`
takes the likely one, that the old `Chunk` is still there.

A write makes room in the cache before it is done with its chunk, so a `Put`
may come with the `Resurface` or `Lose` of another chunk (`Moved`). That takes
three chunks and a cache of two, more than the runs have.

### ChunkTable

`len`, `cap` and `gen` are the vector's size, its capacity and the buffer it is
in: a resize past the capacity moves it. A read, a flush and a truncation keep
the `gen` in which they took their reference; what they write through an old one
is lost, and what they read through it is anything. `save_chunk` finds its chunk
again under the mutex. A write extends the table when it begins and the size
when it ends; in between it sets the uuid of its hole in whatever buffer it
finds (`Put`). With `-o writeback` the kernel may have several writes of a file
under way, so any thread may write at any time. `Fail` is an ocall that the SGX
runtime refuses, after which a request returns early and the chunk it had taken
from the cache is gone. A version number stands for the data and its tag.

`open` with `O_TRUNC` takes no lock: it removes the chunk files one after the
other (`Remove`), clears the table (`ClearChunks`) and then the size
(`ClearSize`), and all of it beside writes, reads and flushes. What the kernel
keeps apart of these depends on its options (writes from each other without `-o
writeback`, an open from writes with it); the model lets all of them come at any
time.

### Namespace and DirTree

`files` are the metadata files, `smax` the stored `max_ino`, `heap` the nodes in
memory (an object lives while `inode_map` or a request points to it, as under
`shared_ptr`), `imap` the `inode_map`, `known` the kernel's lookup count. The
kernel is external and modelled by what it guarantees: create, mkdir, unlink
and rmdir hold their directory exclusively, lookups share it; requests go only
to inodes it knows. `Crash` may come between any two steps; what it does next is
`ecall_mount_volume`. create and mkdir differ only in the kind of node, unlink
and rmdir only in the emptiness test, so each pair is one action. Inode
numbers, uuids and heap objects are numbers from small sets, taken again when
nothing refers to them.

`refcount++` of a lookup is two steps, `Found` which reads the count and `Count`
which writes it, and so is the subtraction of a forget (`Forget`, `Drop`).
`Flush` is the metadata save of `ecall_fs_flush`: it needs no entry and no
metadata file to be there, so a file that is flushed after its unlink, or before
the save of its create, gets one that may stay for ever (`orphans`).

`DirTree` is the tree without all that: a set of entries that requests change
at once and for good, until a crash, which may undo or keep each request that was in
progress and may leave a name that leads nowhere. `Namespace!ImplementsDirTree`
maps `dirent` of the directories in memory, or of their files, to it. It is checked with one
thread: with two, a forget may take a directory out of `inode_map` while a
lookup finds it, and requests then work on two copies of one directory
(`raced`).

### DirStream

`pc` follows `secfs_opendir` through its two ecalls into `readdir` and
`releasedir`. The kernel lets creates and removes come between the two ecalls,
and as `Dirnode::dirent` has no lock, into the copy of the second one. An ecall
may be refused when ten threads are in the enclave; `opendir` replies the error
and goes on, with whatever `count` was on the stack (`GetSizeRefused`); when the
enclave returns an error it does the same with a count that the edge routine
zeroed (`GetSizeFails`). `vec` is the buffer in
`fi->fh`; `Readdir(n)` serves the kernel one buffer with room for `n` entries. A
name as long as `dirent_t::name` comes back as another one.

### Volume

`files` are the metadata files of volumes and of nodes in their roots, and the
configurations. A process is a `secfs_cli` that creates a volume or a `secfs`
that mounts one and serves requests. Saving is two steps, as in
`LocalStorage::set_content` and `Volume::dump_config`: opening truncates the
file, then it is written. In between the process may be killed
(`Kill`), the open or the write may be refused (`RefuseOpen`, `RefuseWrite`), and
the caller is told nothing. Other processes see the file in each of these
states. `LoadPart` is the mount that loads Superinfo, user table and root one
after another. `Aborts` is `load_metadata` of an empty file, whose size minus 16
wraps around. A node is only a file here and the root its only directory.

The model has `secfs_cli create` run whatever its first argument is: `main`
copies `"create"` over it (`strcpy`) where it means to compare. `Init` has
configurations with any of the fields. The sample in `INSTALL.md` has no
`key_path`: a volume can be created from it, but `mount_volume` refuses it
(`LoadsKey`), so `ConfigNamesVolume` exempts configurations without one by
that name. `secfs` is taken to run in
the foreground (`-f`): otherwise `fuse_daemonize` forks, and leaves the
directory relative paths are relative to, after the enclave was created.

## Runs

| Run | Module | Instance | Shows |
|---|---|---|---|
| `store_seq` | ChunkStore | 1 thread, 3 chunks, cache of 1, 2 writes per chunk | no fault, no lost write, every load verifies, flush is durable, every ecall returns |
| `store_mt` | ChunkStore | 2 threads, 2 chunks, cache of 1, 1 write per chunk | list and index agree, cache bound, and nothing is lost except where two threads overlap on a chunk |
| `table` | ChunkTable | 2 threads, 2 chunks, 3 writes, 1 truncation, 1 failure | when the table covers the size; no eviction loses a chunk to a resize; what a flush stores fits |
| `file` | FileIO | 2 chunks of 2 bytes, cache of 1, 2 writes | implements `ByteFile`; stored metadata loads; chunks stay readable |
| `file_trunc` | FileIO | 2 chunks of 1 byte, cache of 2, 3 writes | the same refinement, with entries that outlive a truncation |
| `file_unlink` | FileIO | 2 chunks of 1 byte, cache of 1, 3 writes, 1 unlink | the same refinement, with an unlink while the file is open |
| `file_tail` | FileIO | as `file` | violation: a partial write zeroes the last byte |
| `tree_crash` | Namespace | 1 thread, crashes tear up to 2 inode numbers | what crashes may do to the tree, and what they may not; implements `DirTree` |
| `tree_mt` | Namespace | 2 threads in 2 directories, no torn request | what overlapping requests may do, and what they may not |
| `tree_alias` | Namespace | 1 thread, 1 crash | violation: lookup finds another node |
| `readdir` | DirStream | 3 entries and 2 changes, 2 failed ecalls, 1 rewind | what a reader is given, whom an error meets, and that a listing ends |
| `volume` | Volume | 2 processes, 2 configurations, 2 volumes, 2 nodes, 1 kill, 1 refused save | configurations with a key lead to volumes that mount, entries survive sessions, sessions see the stored root |

Properties with an exemption name it in a history variable: `overlap` are the
chunks that two threads held at once or one held during a flush, `clash` the
inode numbers of creates that ran at the same time, `torn` those of requests a
crash cut short, `raced` (`Namespace`) the inodes whose count a lookup or a
forget wrote when it was not, or not where `inode_map` has it, what they had
read, `orphans` the files a flush gave a metadata file they did not have. `NoDangling` says nothing of the entries of a directory
in `clash` or `raced`: it may have two objects (see below). In `ChunkTable`, `lost` are the chunks that two threads
held, whose tag or uuid was set in a buffer the vector had left, whose save
failed, or which were in use when the table was cleared; `cut` says that the
last truncation met a write or a fallocate, and `early` that the last flush came
during a write or half a truncation, after a failed save or with `cut`. In `DirStream`, `stayed` are the entries a reader is owed, `shrunk` and
`raced` say that an entry was removed between the ecalls and that the
directory changed during the copy. In `Volume`, `broken` are files left
truncated, and `excused` the nodes a kill, a refused save or a second session
had to do with. Each of these is a real way to lose data, or to stop, in
the code, and the property says that it is the only one. `store_seq` and
`tree_crash` have one thread, so that `overlap`, `clash` and `raced` stay empty
there and the statements hold without those exemptions.

**Why the bounds are enough.** A cache of one entry makes every push an
eviction; three chunks let an eviction hit a chunk other than the ones being
read and written. Every error between threads that the code can make needs two of them and
one or two chunks. Chunks of two bytes have a first, a last and a partial case
on either side; two of them have a boundary. A cache of two entries is what an
entry needs to survive a truncation and meet a new write. `MaxIno` 5 leaves two
nodes to create after the root and the first directory; `MaxRefs` 2 lets the
kernel look an inode up twice; `MaxStray` bounds how many inodes and files get
into `raced` and `orphans`, past which no forget, no flush and no second create at
a time begins. `NumUuids` never blocks a request that `MaxIno`
allows in the runs of `FileIO` (its assumption) and bounds the number of creates in those of
`Namespace`. Two chunks in `table` let the vector move, under one thread's
reference while the other works, and a truncated table grow again within its
capacity; three writes are two in flight and one after the truncation. One
failure is enough, as nothing is said of what follows it. Three entries and two changes let `opendir` miss the
first, the middle or the last entry, find an empty directory filled and a full
one emptied. Two processes and two nodes are a session that mounts before,
during and after another's changes, with an entry of its own and one of the
other's; the second volume lets a configuration be overwritten by `create`.
One kill and one refused save may hit any of the files a request saves.
`tree_mt` creates only files: with directories too (5.1 million
states) the same properties hold, but the run takes longer than it earns.

**Fairness.** `ChunkStore!FairSpec` has weak fairness of each thread inside an
ecall: the host schedules its threads, and no step of an ecall waits for
another. No request is ever assumed to come. `RequestsReturn` is checked with one
thread; with several, one thread's eviction loop can be kept busy by the pushes
of others for as long as the scheduler likes. `FileIO!FairSpec` has weak
fairness of the ecall in progress, `DirStream!FairSpec` of the handler that
opens a directory and of the reader that has it open: `StreamsEnd` says that
who reads on comes to an end, not that anyone must.
The other runs check safety only. `CHECK_DEADLOCK FALSE` is set where a process
that executed undefined behaviour stops, and in `volume`, where a save of the
only configuration that fails leaves nothing to do.

## What the violations say

1. `file_tail`: a write from the start of the last chunk to one byte before the
   end of the file zeroes that byte.
2. `tree_alias`: a crash between the save of the parent and that of the
   Superinfo makes the next create draw the same inode number; lookup then
   answers with the wrong node.

Other behaviours a user would not expect are not stated against by any document of the
repository. They are exemptions of a property or named actions:

- two threads in `save_chunk` read a size above the limit and both pop; the
  second may find the list empty (`ChunkStore!Pop`, excluded with one thread by
  `NoFaultAlone`);
- a flush misses a modified chunk that a read has taken out of the cache, and
  returns success (`overlap`);
- evicting a modified entry of a forgotten file follows an expired pointer
  (`FileIO!Evict`);
- two creates at once may be given, or reply with, each other's inode number
  (`clash`);
- a lookup and a forget that write a count they read before the other wrote it
  leave the kernel with an inode the enclave does not know, or the enclave with
  one nobody will forget (`raced`);
- when the number of such creates or such an inode is a directory's, requests work on two objects of it, and a save of one brings back
  the entry of a file that was removed through the other. No run reaches this:
  it takes files in a directory that was looked up twice, beyond the bounds of
  `tree_mt`. The proof of `NoDangling` asked for it;
- a file that is open, unlinked and closed has its metadata saved by the flush of
  the close, in a file that no entry leads to (`orphans`);
- an `O_TRUNC` that meets a write leaves a size beyond an empty table, so that
  every read is refused and every flush stores a file that does not load, until
  a write or fallocate makes up for it (`cut`);
- a flush that a resize overtakes stores a stale tag, and the chunk cannot be
  read again (`ChunkTable!lost`); a flush during a growing write stores a file that
  does not load until the next flush (`early`), and after a failed write every
  flush does, until a later write or fallocate makes up for it;
- a failed ecall in `opendir` is replied to twice (`Replies`), and a directory
  that gets its first entry between the ecalls is copied into no buffer
  (`CopyFaults`);
- a volume created from a configuration without `key_path` cannot be mounted;
- an empty metadata file, left by a kill or a full disk, ends the enclave when it
  is looked up (`Volume!Aborts`).

## What is proved

`ChunkStore_proofs` proves, for every finite set of threads, every number of
chunks and writes and every cache size (`StoreAssumption`):

- `TypeCorrect`: `Spec => []TypeOK`.
- `IndexCorrect`: `Spec => []StoreIndexed`. List and `_map` agree, which is
  what makes the iterators kept in `_map` valid.
- `CacheBounded`: `Spec => []CacheBound`. The list never outgrows
  `MAX_CACHE_NUM` by more than the threads still inside `save_chunk`.

`StoreIndexed` is not inductive by itself. A step of `Erase` unlinks "the"
node of the thread's chunk, which exists only because nothing unlinked it since
`Find`, or else the thread is in `dangling`; and an entry that is pushed has
type `Entry` only because a thread at `push` no longer holds the `None` a
failed fetch left. `InFlight` says both, and
`IInv == TypeOK /\ StoreIndexed /\ InFlight` is inductive: `InitInv`, one
lemma per action (`TakeInv` to `SaveMetaInv`) and `NextInv`. The list operations are
handled by four lemmas about any list and key set (`RemoveAtFacts`,
`RemoveIndexed`, `AppendIndexed`, `TailIndexed`).

`CacheBounded` rests on that invariant and a counting argument: a push
lengthens the list by at most one and puts a thread into `Saving` that was not
there (`BoundPush`); a thread leaves `Saving` only when it has itself seen a
list short enough (`BoundCheck`); a pop shortens the list (`BoundPop`), and no
other step lengthens it or lets a thread leave (`BoundErase`, `BoundQuiet`).

`NoFaultAlone` is `Spec => [](Alone => NoFault)`: with one thread nothing comes
between the push, the check and the pop, nor between `Find` and `Erase`
(`StillThere`), so the pop finds an entry and the flush its own iterator.

`ChunkData_proofs` adds, under the same assumption, what the cache promises of
data:

- `WritesAreKept`: `Spec => []NoLostWrite`.
- `EveryLoadVerifies`: `Spec => []LoadsVerify`.
- `FlushIsDurable`: `Spec => FlushPersists`, an action property.

All three say nothing of the chunks in `overlap` and follow from `DInv`: the
newest data of every other chunk is in exactly one place, namely in the hands of
one thread (`InHand`, by where that thread is), else in the entry of the list if
there is one (`Listed`), else in the storage under the file's tag (`Stored`).
None of the three properties is inductive. `NoLostWrite` speaks of writes that
have returned, but a write is in the list before it returns, so `Has` counts
those that are still evicting. That only one thread holds a chunk outside
`overlap` is `Contended \subseteq overlap`. A chunk without a uuid must have no
data anywhere, or the flush that skips it would lose some (`Holes`). A flush
stores tags at its end, so it must have left no entry behind it on the
way (`Swept`). There is one lemma per action for `Kept` (`BeginFlushKept` to
`SaveMetaKept`), in which a step either is about chunk `i` or leaves its data
alone.

`ChunkTable_proofs` proves, for any set of threads and any bounds
(`TableAssumption`):

- `TableCovers`: `Spec => []TableCoversSize`. A read finds a chunk for every
  byte of the file, whatever writes, fallocates, truncations and failures came
  before, unless a truncation is at work or has met one of them (`cut`).
- `FlushStoresFit`: `Spec => []StoredFits`. What a flush stores loads again,
  unless it is `early`.
- `NewestKept`: `Spec => []WritesKept`. The newest version of a chunk outside
  `lost` survives every eviction and flush while the table grows and moves.
- `ReadsFindTheirTag`: `Spec => []ReadsVerify`. A read that still holds the
  buffer it began with finds the tag of what it fetched.

None of them is inductive. A write takes the size to the end of its own chunk,
which is inside the table unless a truncation has come since it began (`Covers`,
of a table that is `Settled`). A flush that meets a table longer than the size
must find the write that made it so (`Explained`), as long as no save has failed. A truncation that no write has met finds the table it
cleared still empty (`Cleared`). `Growth` is the conjunction of these, with one lemma per action. The other two
theorems follow from `Versions`, the counterpart of `DInv` here: nobody holds a
chunk outside `lost` and its newest version is `Safe`, or one thread does and has
that version or its tag in hand (`InHand`), or a truncation has removed its file
(`Removed`), which nothing undoes until the table is cleared (`StaysRemoved`).

`DirStream_proofs` proves, for any names, directories and bounds
(`StreamAssumption`, which has no name be empty):

- `ErrorsHaveCauses`: `Spec => []ErrorsExplained`.

`opendir`'s count is never more than the entries unless one was removed since it
was taken, or else it is of an ecall that failed and `opendir` has replied already (`Counted`).
Hence a zeroed entry in the buffer, on which `readdir` gives up, is what a
removed one left (`Listed`).

- `ListingsComplete`: `Spec => []ListsWhatStayed`. What is owed to the reader is
  among the first `count` entries until the second ecall (`Waiting`), then once
  in the buffer, before any zeroed entry (`Copies`); and the reader has got the
  buffer up to `offset` (`Given`). Entries have numbers of their own
  (`Numbered`), so nothing is given twice.

`FileIO_proofs` proves, for any chunk size, number of chunks, cache and bounds
(`FileIOAssumption`):

- `TypeCorrect`: `Spec => []TypeOK`.
- `MetadataLoads`: `Spec => []StoredLoads`. No sequence of writes, fallocates,
  truncations, flushes, forgets, unlinks and crashes stores a file that
  `Filenode::load` rejects.
- `ChunksStayReadable`: `Spec => []ChunksReadable`.

The table of chunks fits the size except during a write, which knows what
it was before (`Fits`); a flush cannot come then, since `FileIO` has one
request at a time (`ChunkTable` has the others). Each chunk is `Good`: its file
verifies, or a modified live entry has its data, or it was lost when the file
was last stored and no entry can hide that. An entry that
outlived a truncation is saved over another chunk's tag together with its file, so
chunks of one table must have different uuids (`Distinct`), and the live entry
with a chunk's uuid that chunk's index (`Placed`).

`ByteFile_proofs` proves from that invariant, for the same parameters:

- `Implements`: `Spec => ImplementsByteFile`. `View`, `ViewSize` and
  `ViewPending` are the file of `ByteFile`; each step of `FileIO` is a step of it
  or leaves them alone.

`RInv` says why an entry may leave the cache unseen. A live entry that need not be saved has
what the chunk's file has, or the difference is one that `ByteFile` has a
name for (`Cold`), and one that is saved is its chunk's or `stale` (`Warm`).
A uuid was drawn for one index and still has it, in
the tables of the `Filenode`, the storage and the unlink in progress and in the entries (`OneHome`), so saving
an expired entry hits no other chunk's file. Data that have yet to be
saved are not what a tag was made from, which holds as each write writes
bytes of its own (`Apart`, `Ages`); otherwise saving an old chunk could make a
chunk readable that was given up as lost. `Durable` and `Flushed` say of the stored
table what a crash brings back. `Agrees`, their conjunction, is stated of
any cache, table and files, because `flush_chunk` and `save_chunk` change them
in two moves, first the entry that is taken or put (`WrittenAgrees`), then the
one that is evicted (`TakesAgrees`, `TakesMoves`).

`Volume_proofs` proves, for any set of processes, configurations and bounds
(`VolumeAssumption`: among others, a configuration is not a file of the
storage):

- `NamedVolumesMount`: `Spec => []ConfigNamesVolume`.
- `EntriesOutliveSessions`: `Spec => []EntriesKept`.
- `NoStaleView`: `Spec => []ViewsFresh`.

`todo` is what a process has still to save. A volume that has been mounted has
its user table, which nobody writes again (`Loaded`). Parts of a volume that are not in
the `todo` of its creator are `Sound` (whole, excused as `broken`, or being
rewritten), and no configuration names it before that list is down to the last
(`Named`, `Unknown`). About a node that is not `excused`, the stored root, the
views of the sessions and what the kernel was told are one (`Agreed`), but for
the one request that is about the node, which is alone on its volume (`Alone`)
and whose `todo` says how far it is (`Saved`).

`Namespace_proofs` proves, for any finite set of threads and any bounds
(`NamespaceAssumption`):

- `TypeCorrect`: `Spec => []TypeOK`.
- `NumbersUnique`: `Spec => []OneNodePerIno`; `MountsAhead`:
  `Spec => []StoredMaxInoUnused`; `LookupsFindTheirNodes`:
  `Spec => []LookupFindsItsNode`.
- `CountsAgree`: `Spec => []RefsExact`.
- `EntriesLead`: `Spec => []NoDangling`.
- `NothingLost`: `Spec => [](clash \cup raced = {} => NoOrphan)`, and
  `NothingLostAlone`: with one thread (`secfs -s`) `Spec => []NoOrphan`. Both
  exempt `orphans`.
- `TreeImplements`: with one thread `Spec => ImplementsDirTree`.

None of these is inductive, and no subset of them is. The invariant has five
parts, each proved with the help of those before it:

- `Base`: types, objects with pointers to them are not free, and what a request
  has at each stage; `max_ino` has room for the creates in progress.
- `Shape`: a uuid is that of one entry of one directory and of one number,
  wherever it occurs - in files, in objects on the heap or in the request of a
  thread (`Tidy`); requests on one directory exclude each other as the kernel
  promises (`Locks`); a create's node is its own and a remove's has no entries
  (`Requests`).
- `Numbers`: every number in use outside `clash` is below `max_ino`, or that of a
  create before its `max_ino++`, and outside `torn` below the stored `max_ino`, or that of
  a create that has not saved the Superinfo (`Fits`, over the pairs of a number
  and a uuid, so that uniqueness is part of it).
- `Counts`: the references of an object are those the kernel knows, plus
  those a forget is about to take away, plus the one of a create that has not
  replied, and a count that was read and not yet written is still that or
  becomes `raced` (`Counted`). The terms are cardinalities of sets of tokens, which a
  step changes by the tokens of one thread.
- `Contents`: each request works on the current object of its directory
  (`Current`), whose entries are those of the file, but for the request that
  has changed the one and not yet the other (`Synced`). Entries of a file lead
  to a file (`Lead`) and files have an entry (`Linked`).

Only `Base` and `Shape` hold of all numbers: `Counts` and `Contents` exempt
`clash` and `raced`. `NothingLost` needs all of these to be empty, as a
directory with two objects can lose the entry of any file in it.

`TreeImplements` adds what one thread brings: nothing is `raced` and nobody's
`clash` (`Lone`), every object in memory is the only one of its directory, and
the files that have no entry are strays no entry will name (`Strays`). One
lemma says what each action does to `Tree`, `Flight` and `Broken`, and each of
these is a step of `DirTree` or none.

Only model-checked: liveness (`RequestsReturn`, `StreamsEnd`), which is out of
the prover's reach together with `ENABLED`. `NoOrphan` is checked with one
thread, and `ImplementsDirTree` checked and proved with one thread only: with two
it does not hold.

## Assumptions and what is not modelled

- Files of the storage are replaced in one step, and ocalls succeed, in
  `ChunkStore`, `FileIO` and `Namespace`. `ChunkTable` has ocalls that fail, and
  `Volume` files that tear.
- GCM is ideal: data verifies under the tag computed from it and no other. A
  random uuid is none in use.
- `O_TRUNC` reaches the enclave in `open`, libfuse 3's default.
- `ChunkTable` records two threads on one chunk and says nothing more of it;
  `ChunkStore` has no resize and no failure. That a write tests its chunk for a
  hole and gives it a uuid is one step of `ChunkStore!BeginWrite`: two writes
  between which it could matter hold the chunk at once, and are in `overlap`.
- `ChunkTable` forgets what `O_TRUNC` leaves in the cache; `FileIO` has it.
- `ChunkTable` takes a resize, and each of the two assignments of `O_TRUNC`, as
  atomic: of a vector that two threads change at once it says nothing.
- Accesses to `inode_map` are atomic everywhere, those to `Dirnode::dirent` in
  `Namespace`, and lookups are serialised with changes of the same directory, as
  the kernel does for cold lookups; revalidations are not modelled.
- A forget that finds no free thread in the enclave is logged and not repeated:
  the inode stays in memory, with a count the kernel no longer has. Not modelled; it
  is why `RefsExact` is a statement about forgets that get in.
- A field of a configuration that is there can be loaded: keys parse, the
  enclave starts, the storage directory exists or can be made.
- `getattr`, `setattr`, `statfs` and `access` change nothing the properties see.
- Not modelled: the sealing of the volume key and the proof of the owner at mount,
  option parsing, daemonizing, JSON and uuid formats, `app/cache.*` (no code
  uses it), the members of `ChunkStore` nobody calls (`push_back`, `pop_front`,
  `insert`, `erase`, `erasebykey`).

## Plan

What is left: data races on `inode_map` and on `Dirnode::dirent` inside
`Namespace`, revalidating lookups, and forgets the enclave has no thread for.
