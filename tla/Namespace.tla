----------------------------- MODULE Namespace ------------------------------
(***************************************************************************)
(* The directory tree: ecall_fs_lookup, forget, create, mkdir, unlink,     *)
(* rmdir and the metadata save of flush (ecall_fs.cpp) over inode_map,     *)
(* superinfo and the metadata files.  FUSE runs them on several threads    *)
(* and none takes a lock, so a step is what one thread does from one ocall *)
(* to the next, and less where threads share a count: lookup and forget    *)
(* read a refcount in one step and write it in another.  The kernel is     *)
(* modelled by what it guarantees: a directory is locked for itself by     *)
(* create, mkdir, unlink and rmdir (which locks the removed directory too) *)
(* and shared by lookups of different names; it asks nothing of an inode   *)
(* it does not know, enters no directory it removed, and forgets none that *)
(* a request in flight names as the parent.  A crash may come between any  *)
(* two steps.                                                              *)
(*                                                                         *)
(* The contents of files are FileIO's subject: a node is its inode number, *)
(* its kind and, for a directory, its entries.  uuids and objects on the   *)
(* heap are numbers, and one nobody refers to may be used again.           *)
(***************************************************************************)
EXTENDS Naturals, FiniteSets, FiniteSetsExt, Functions

CONSTANTS
  Threads,   \* enclave threads
  Names,     \* names under which the kernel creates files and directories
  NewKinds,  \* kinds of node the kernel creates
  Sub,       \* the name of the directory that is there to begin with
  MaxIno,    \* bound: inode numbers
  NumUuids,  \* bound: uuids in use at once
  MaxTorn,   \* bound: requests cut short by crashes
  MaxRefs,   \* bound: lookups of an inode the kernel has not forgotten
  MaxStray   \* bound: inodes in raced and files in orphans

ASSUME NamespaceAssumption ==
  /\ IsFiniteSet(Threads) /\ NewKinds \subseteq {"dir", "reg"}
  /\ MaxIno \in Nat /\ MaxIno >= 3 /\ NumUuids \in Nat /\ NumUuids >= 2
  /\ MaxRefs \in Nat /\ MaxTorn \in Nat /\ MaxStray \in Nat

VARIABLES
  files,   \* the metadata files in the storage
  smax,    \* max_ino in the stored Superinfo
  heap,    \* the Dirnodes and Filenodes in memory
  imap,    \* inode_map: which of them has which inode number
  maxIno,  \* superinfo->max_ino
  known,   \* the kernel's lookup count of each inode
  pc,      \* where each thread is
  req,     \* the request each thread serves
  torn,    \* history: inode numbers of requests a crash cut short
  clash,   \* history: inode numbers of creates that ran at the same time
  raced,   \* history: inodes whose count was written when it was not what
           \* had been read, or in an object that is not in inode_map
  orphans  \* history: files that a flush saved when they had no metadata file

memory == <<heap, imap, maxIno>>
storage == <<files, smax>>
history == <<torn, clash, raced, orphans>>
vars == <<memory, storage, known, pc, req, history>>

Root == 1                       \* its uuid, its inode number, its object
Uuids == 1..NumUuids
Inos == 1..MaxIno
Objs == 1..(MaxIno + 2 * Cardinality(Threads) + 1)
Kinds == {"dir", "reg"}
None == 0                       \* not an object, not a uuid
Absent == [own |-> None, kind |-> "reg", ents |-> {}]
Free == [uuid |-> None, own |-> None, kind |-> "reg", ents |-> {}, refs |-> 0]

Dirent == [name : Names \cup {Sub}, ino : Inos, kind : Kinds, uuid : Uuids]
NoEnt == [name |-> Sub, ino |-> Root, kind |-> "dir", uuid |-> Root]
NoReq == [op |-> "none", pino |-> Root, parent |-> None, ent |-> NoEnt,
          node |-> None, num |-> 0, count |-> 0]

\* ecall_create_volume, one mkdir, and ecall_mount_volume.
SubEnt == [name |-> Sub, ino |-> 2, kind |-> "dir", uuid |-> 2]
RootNode == [own |-> Root, kind |-> "dir", ents |-> {SubEnt}]

\* Filenode::load and Dirnode::load set what was dumped; the count starts at 0.
Loaded(u) == [uuid |-> u, own |-> files[u].own, kind |-> files[u].kind,
              ents |-> files[u].ents, refs |-> 0]
Dumped(n) == [own |-> n.own, kind |-> n.kind, ents |-> n.ents]

Init ==
  /\ files = [u \in Uuids |->
       CASE u = Root -> RootNode
         [] u = 2 -> [own |-> 2, kind |-> "dir", ents |-> {}]
         [] OTHER -> Absent]
  /\ smax = 3 /\ maxIno = 3
  /\ heap = [o \in Objs |-> IF o = Root THEN Loaded(Root) ELSE Free]
  /\ imap = [i \in Inos |-> IF i = Root THEN Root ELSE None]
  /\ known = [i \in Inos |-> 0]
  /\ pc = [t \in Threads |-> "idle"] /\ req = [t \in Threads |-> NoReq]
  /\ torn = {} /\ clash = {} /\ raced = {} /\ orphans = {}

-----------------------------------------------------------------------------
(* Memory.  An object is destroyed with the last shared_ptr to it.         *)

Pointers(m, r) == Range(m) \cup {r[t].parent : t \in Threads} \cup {r[t].node : t \in Threads}

Heap(h) == heap' = [o \in Objs |-> IF o \in Pointers(imap', req') THEN h[o] ELSE Free]

NewObj == CHOOSE o \in Objs : o \notin Pointers(imap, req)

\* UUID::gen_rand.
UsedUuids ==
  {u \in Uuids : files[u] # Absent}
  \cup {e.uuid : e \in UNION {files[u].ents : u \in Uuids}}
  \cup {heap[o].uuid : o \in Objs}
  \cup {e.uuid : e \in UNION {heap[o].ents : o \in Objs}}
  \cup {req[t].ent.uuid : t \in Threads}
NewUuid == CHOOSE u \in Uuids : u \notin UsedUuids

Goto(t, l, r) == pc' = [pc EXCEPT ![t] = l] /\ req' = [req EXCEPT ![t] = r]
Return(t) == Goto(t, "idle", NoReq)

-----------------------------------------------------------------------------
(* What the kernel sends.                                                  *)

\* The directories a request in flight works on.
Locked(t) ==
  CASE req[t].op \in {"create", "lookup"} -> {heap[req[t].parent].uuid}
    [] req[t].op = "remove" -> {heap[req[t].parent].uuid, req[t].ent.uuid}
    [] OTHER -> {}

\* Thread t may serve a request in the directory pino, which the kernel knows
\* and has not removed, and which the enclave finds.
Enters(t, pino) ==
  LET d == imap[pino] IN
  /\ pc[t] = "idle"
  /\ pino = Root \/ known[pino] > 0
  /\ d # None /\ heap[d].kind = "dir" /\ files[heap[d].uuid] # Absent

\* The kernel forgets and flushes, and creates two things at once.
Busy == Cardinality(raced) + Cardinality(orphans) < MaxStray

Alone(u) == \A t \in Threads : u \notin Locked(t)

-----------------------------------------------------------------------------
(* ecall_fs_lookup.                                                        *)

\* Other lookups may be in the directory, but not for this name.
Lookup(t, pino) ==
  /\ Enters(t, pino)
  /\ \E e \in heap[imap[pino]].ents :
       /\ \A s \in Threads :
            heap[imap[pino]].uuid \in Locked(s) =>
              req[s].op = "lookup" /\ req[s].ent.name # e.name
       /\ known[e.ino] < MaxRefs
       /\ imap[e.ino] # None => heap[imap[e.ino]].refs <= MaxRefs
       /\ Goto(t, IF imap[e.ino] = None THEN "load" ELSE "found",
               [NoReq EXCEPT !.op = "lookup", !.pino = pino, !.parent = imap[pino],
                             !.ent = e, !.node = imap[e.ino]])
  /\ UNCHANGED <<memory, storage, known, history>>

\* load_metadata of a node that is not in inode_map.
Load(t) ==
  LET e == req[t].ent IN
  /\ pc[t] = "load"
  /\ IF files[e.uuid] = Absent
       THEN Return(t) /\ UNCHANGED imap
       ELSE /\ imap' = [imap EXCEPT ![e.ino] = NewObj]
            /\ Goto(t, "found", [req[t] EXCEPT !.node = NewObj])
  /\ Heap([heap EXCEPT ![NewObj] = Loaded(e.uuid)])
  /\ UNCHANGED <<maxIno, storage, known, history>>

\* The node must have the number its directory says; then its count is read ...
Found(t) ==
  LET e == req[t].ent
      o == req[t].node IN
  /\ pc[t] = "found"
  /\ UNCHANGED imap
  /\ IF heap[o].own # e.ino
       THEN Return(t)
       ELSE Goto(t, "count", [req[t] EXCEPT !.count = heap[o].refs])
  /\ Heap(heap)
  /\ UNCHANGED <<maxIno, storage, known, history>>

\* The count of the inode i, which t read from the object o, is still that.
Undisturbed(t, i, o) == imap[i] = o /\ heap[o].refs = req[t].count

\* Variant: the reference is not counted.
CountForgotten(t) ==
  LET i == req[t].ent.ino
      o == req[t].node IN
  /\ pc[t] = "count"
  /\ Return(t)
  /\ UNCHANGED imap /\ Heap(heap)
  /\ known' = [known EXCEPT ![i] = @ + 1]
  /\ raced' = IF Undisturbed(t, i, o) THEN raced ELSE raced \cup {i}
  /\ UNCHANGED <<maxIno, storage, torn, clash, orphans>>

\* ... and written with the new reference, over what another thread may have
\* written, in an object a forget may have taken out of inode_map.  The kernel
\* gets its reply.
Count(t) ==
  LET i == req[t].ent.ino
      o == req[t].node IN
  /\ pc[t] = "count"
  /\ Return(t)
  /\ UNCHANGED imap
  /\ Heap([heap EXCEPT ![o].refs = req[t].count + 1])
  /\ known' = [known EXCEPT ![i] = @ + 1]
  /\ raced' = IF Undisturbed(t, i, o) THEN raced ELSE raced \cup {i}
  /\ UNCHANGED <<maxIno, storage, torn, clash, orphans>>

-----------------------------------------------------------------------------
(* ecall_fs_forget.                                                        *)

\* The kernel drops an inode; it may look it up again before this arrives.
BeginForget(t, ino) ==
  /\ pc[t] = "idle" /\ ino # Root /\ known[ino] > 0 /\ Busy
  /\ \A s \in Threads : req[s].op \in {"lookup", "create", "remove"} => req[s].pino # ino
  /\ known' = [known EXCEPT ![ino] = 0]
  /\ Goto(t, "forget", [NoReq EXCEPT !.op = "forget", !.pino = ino, !.num = known[ino]])
  /\ UNCHANGED <<memory, storage, history>>

\* ENOENT, or the object is held and its count is read.
Forget(t) ==
  LET o == imap[req[t].pino] IN
  /\ pc[t] = "forget"
  /\ UNCHANGED imap
  /\ IF o = None
       THEN Return(t)
       ELSE Goto(t, "drop", [req[t] EXCEPT !.node = o, !.count = heap[o].refs])
  /\ Heap(heap)
  /\ UNCHANGED <<maxIno, storage, known, history>>

\* Variant: the node goes only when nothing at all remains.
DropKeepsNode(t) ==
  LET i == req[t].pino
      o == req[t].node IN
  /\ pc[t] = "drop"
  /\ Return(t)
  /\ UNCHANGED imap
  /\ Heap([heap EXCEPT ![o].refs = req[t].count - req[t].num])
  /\ raced' = IF Undisturbed(t, i, o) THEN raced ELSE raced \cup {i}
  /\ UNCHANGED <<maxIno, storage, known, torn, clash, orphans>>

\* What remains is written, or the node leaves inode_map.
Drop(t) ==
  LET i == req[t].pino
      o == req[t].node
      gone == req[t].count <= req[t].num IN
  /\ pc[t] = "drop"
  /\ Return(t)
  /\ imap' = IF gone THEN [imap EXCEPT ![i] = None] ELSE imap
  /\ Heap(IF gone THEN heap
          ELSE [heap EXCEPT ![o].refs = req[t].count - req[t].num])
  /\ raced' = IF Undisturbed(t, i, o) THEN raced ELSE raced \cup {i}
  /\ UNCHANGED <<maxIno, storage, known, torn, clash, orphans>>

-----------------------------------------------------------------------------
(* ecall_fs_create (kind "reg") and ecall_fs_mkdir (kind "dir").           *)

Creating == {t \in Threads : req[t].op = "create"}

\* The new node and its entry in the parent get the number max_ino has now.
Create(t, pino, name, kind) ==
  LET p == imap[pino]
      e == [name |-> name, ino |-> maxIno, kind |-> kind, uuid |-> NewUuid] IN
  /\ Enters(t, pino) /\ Alone(heap[p].uuid)
  /\ \A d \in heap[p].ents : d.name # name
  /\ Creating = {} \/ Busy
  /\ maxIno + Cardinality(Creating) < MaxIno /\ Uuids \ UsedUuids # {}
  /\ Goto(t, "parent", [NoReq EXCEPT !.op = "create", !.pino = pino, !.parent = p,
                                     !.ent = e, !.node = NewObj])
  /\ clash' = IF Creating = {} THEN clash
              ELSE clash \cup {maxIno} \cup {req[s].ent.ino : s \in Creating}
  /\ UNCHANGED imap
  /\ Heap([heap EXCEPT
       ![p].ents = @ \cup {e},
       ![NewObj] = [uuid |-> e.uuid, own |-> maxIno, kind |-> kind, ents |-> {}, refs |-> 0]])
  /\ UNCHANGED <<maxIno, storage, known, torn, raced, orphans>>

Store(o) == files' = [files EXCEPT ![heap[o].uuid] = Dumped(heap[o])]

\* The part of SaveParent that follows save_metadata; next is max_ino after it.
Number(t, next) ==
  /\ imap' = [imap EXCEPT ![maxIno] = req[t].node]
  /\ maxIno' = next
  /\ Goto(t, "super", [req[t] EXCEPT !.num = next])
  /\ Heap([heap EXCEPT ![req[t].node].refs = @ + 1])
  /\ clash' = IF maxIno = req[t].ent.ino THEN clash ELSE clash \cup {maxIno}
  /\ UNCHANGED <<smax, known, torn, raced, orphans>>

\* Variants: the parent is not saved; max_ino is not incremented.
SaveParentForgotten(t) == pc[t] = "parent" /\ Number(t, maxIno + 1) /\ UNCHANGED files
SaveParentKeepsIno(t) == pc[t] = "parent" /\ Store(req[t].parent) /\ Number(t, maxIno)

\* The parent is saved; then max_ino is read again for inode_map and for the
\* reply, incremented, and dumped.
SaveParent(t) == pc[t] = "parent" /\ Store(req[t].parent) /\ Number(t, maxIno + 1)

\* Variant: the Superinfo is not saved.
SaveSuperForgotten(t) ==
  /\ pc[t] = "super" /\ Goto(t, "node", req[t])
  /\ UNCHANGED <<memory, storage, known, history>>

\* What was dumped is written, maybe after what another thread dumped later.
SaveSuper(t) ==
  /\ pc[t] = "super" /\ Goto(t, "node", req[t])
  /\ smax' = req[t].num
  /\ UNCHANGED <<memory, files, known, history>>

\* The inode number the kernel is told.
Replied(t) == req[t].num - 1

\* Variant: the new node is not saved.
SaveNodeForgotten(t) ==
  /\ pc[t] = "node" /\ Return(t)
  /\ known' = [known EXCEPT ![Replied(t)] = @ + 1]
  /\ UNCHANGED imap /\ Heap(heap)
  /\ UNCHANGED <<maxIno, storage, history>>

\* The new node is saved and the kernel gets its reply.
SaveNode(t) ==
  /\ pc[t] = "node" /\ Return(t)
  /\ Store(req[t].node)
  /\ known' = [known EXCEPT ![Replied(t)] = @ + 1]
  /\ UNCHANGED imap /\ Heap(heap)
  /\ UNCHANGED <<maxIno, smax, history>>

-----------------------------------------------------------------------------
(* ecall_fs_unlink and ecall_fs_rmdir.                                     *)

\* The node is loaded into a local object, whatever inode_map has: EACCES if
\* it cannot be, ENOTEMPTY if its file has entries.
Remove(t, pino) ==
  LET p == imap[pino] IN
  /\ Enters(t, pino) /\ Alone(heap[p].uuid)
  /\ \E e \in heap[p].ents :
       /\ Alone(e.uuid)
       /\ files[e.uuid] # Absent /\ files[e.uuid].ents = {}
       /\ Goto(t, "unstore", [NoReq EXCEPT !.op = "remove", !.pino = pino,
                                           !.parent = p, !.ent = e])
  /\ UNCHANGED <<memory, storage, known, history>>

\* Variant: the entry stays.
RemoveNodeKeepsEntry(t) ==
  /\ pc[t] = "unstore"
  /\ files' = [files EXCEPT ![req[t].ent.uuid] = Absent]
  /\ Goto(t, "unlink", req[t])
  /\ UNCHANGED <<memory, smax, known, history>>

\* remove_metadata, which fails when there is no such file; then the entry is
\* erased.
RemoveNode(t) ==
  LET e == req[t].ent IN
  /\ pc[t] = "unstore"
  /\ files' = [files EXCEPT ![e.uuid] = Absent]
  /\ UNCHANGED imap
  /\ IF files[e.uuid] = Absent
       THEN Return(t) /\ Heap(heap)
       ELSE /\ Goto(t, "unlink", req[t])
            /\ Heap([heap EXCEPT ![req[t].parent].ents = @ \ {e}])
  /\ UNCHANGED <<maxIno, smax, known, history>>

SaveRemoved(t) ==
  /\ pc[t] = "unlink" /\ Return(t)
  /\ Store(req[t].parent)
  /\ UNCHANGED imap /\ Heap(heap)
  /\ UNCHANGED <<maxIno, smax, known, history>>

-----------------------------------------------------------------------------
\* ecall_fs_flush of a file the kernel has open: the metadata is saved, also
\* when the file has been unlinked.  A create in flight whose node is saved here,
\* under a number that is not its own, has met it.
Flush(t, i) ==
  LET o == imap[i] IN
  /\ pc[t] = "idle" /\ known[i] > 0 /\ o # None /\ heap[o].kind = "reg" /\ Busy
  /\ Store(o)
  /\ orphans' = orphans \cup {u \in {heap[o].uuid} : files[u] = Absent}
  /\ clash' = clash \cup {req[s].ent.ino : s \in {r \in Creating : req[r].node = o}}
  /\ UNCHANGED <<memory, smax, known, pc, req, torn, raced>>

-----------------------------------------------------------------------------
\* The process or the machine dies; the volume is mounted again.
Crash ==
  /\ imap' = [i \in Inos |-> IF i = Root THEN Root ELSE None]
  /\ heap' = [o \in Objs |-> IF o = Root THEN Loaded(Root) ELSE Free]
  /\ maxIno' = smax
  /\ known' = [i \in Inos |-> 0]
  /\ pc' = [t \in Threads |-> "idle"] /\ req' = [t \in Threads |-> NoReq]
  /\ torn' = torn \cup {req[t].ent.ino : t \in {s \in Threads : req[s].op \in {"create", "remove"}}}
  /\ Cardinality(torn') <= MaxTorn
  /\ UNCHANGED <<storage, clash, raced, orphans>>

Step(t) ==
  \/ Load(t) \/ Found(t) \/ Count(t) \/ Forget(t) \/ Drop(t)
  \/ SaveParent(t) \/ SaveSuper(t) \/ SaveNode(t)
  \/ RemoveNode(t) \/ SaveRemoved(t)

Request(t) ==
  \E i \in Inos :
    \/ Lookup(t, i) \/ BeginForget(t, i) \/ Remove(t, i) \/ Flush(t, i)
    \/ \E name \in Names, kind \in NewKinds : Create(t, i, name, kind)

Next == Crash \/ \E t \in Threads : Step(t) \/ Request(t)

Spec == Init /\ [][Next]_vars

-----------------------------------------------------------------------------
(* Properties.                                                             *)

Node == [own : Inos, kind : Kinds, ents : SUBSET Dirent] \cup {Absent}

\* Every variable has its type.
TypeOK ==
  /\ files \in [Uuids -> Node]
  /\ smax \in Inos /\ maxIno \in Inos
  /\ imap \in [Inos -> Objs \cup {None}]
  /\ \A o \in Objs : heap[o].refs \in Nat
  /\ known \in [Inos -> Nat]
  /\ \A t \in Threads : /\ req[t].ent \in Dirent
                         /\ req[t].num \in Nat /\ req[t].count \in Nat
  /\ torn \cup clash \cup raced \subseteq Inos /\ orphans \subseteq Uuids

Stored(u) == files[u] # Absent
Dirents == UNION {files[u].ents : u \in Uuids}

\* Nothing is said of the names of requests that a crash cut short or that
\* ran at the same time as another create.
Suspect == torn \cup clash

\* The numbers of requests in flight.
InFlight(op) == {req[t].ent.ino : t \in {s \in Threads : req[s].op = op}}

\* No metadata file is unreachable, whatever crashes: a create saves the
\* entry before the node, a remove takes the node away before the entry.  The
\* only ones are those of files that were flushed after their unlink, or
\* before the save of their create.
NoOrphan ==
  \A u \in Uuids \ ({Root} \cup orphans) :
    Stored(u) => \E e \in Dirents : e.uuid = u

\* The entries of a directory lead to stored nodes with their numbers, unless
\* their create or remove is in flight.  Of a directory that requests may have
\* worked on in two objects nothing is said: a save of one brings back what
\* was removed from the other.
NoDangling ==
  \A u \in Uuids : files[u].own \notin clash \cup raced =>
    \A e \in files[u].ents :
      e.ino \notin Suspect \cup InFlight("create") \cup InFlight("remove")
        => Stored(e.uuid) /\ files[e.uuid].own = e.ino

\* No two entries, in whatever directories, have one inode number: inode_map
\* would make one node of them.
OneNodePerIno ==
  \A d, e \in Dirents : d.ino = e.ino /\ d.ino \notin Suspect => d = e

\* After a crash, max_ino is a number no entry has.
StoredMaxInoUnused ==
  \A e \in Dirents : e.ino \notin Suspect \cup InFlight("create") => e.ino < smax

\* The node a lookup replies with is the one its entry leads to.
LookupFindsItsNode ==
  \A t \in Threads : LET e == req[t].ent IN
    pc[t] = "found" /\ e.ino \notin Suspect /\ heap[req[t].node].own = e.ino
      => heap[req[t].node].uuid = e.uuid

\* The enclave has the inodes the kernel knows, and counts what it counts,
\* once no lookup or forget of the inode is in flight: but for the inodes
\* whose count a thread wrote when it was no longer what the thread had read.
RefsExact ==
  \A i \in Inos \ ({Root} \cup clash \cup raced) :
    LET refs == IF imap[i] = None THEN 0 ELSE heap[imap[i]].refs IN
    (\A t \in Threads : /\ req[t].op = "forget" => req[t].pino # i
                        /\ req[t].op \in {"lookup", "create"} => req[t].ent.ino # i)
      => known[i] = refs

EntryIn(u, e) == [dir |-> u, name |-> e.name, node |-> e.uuid, kind |-> e.kind]

\* The entries of a directory: those in memory, or those of its file.
Tree ==
  LET mem == {o \in Objs : heap[o].own # None}
      used == {heap[o].uuid : o \in mem} IN
  (UNION {{EntryIn(heap[o].uuid, e) : e \in heap[o].ents} : o \in mem})
    \cup (UNION {{EntryIn(u, e) : e \in files[u].ents} : u \in Uuids \ used})
Flight == {EntryIn(heap[req[t].parent].uuid, req[t].ent) :
             t \in {s \in Threads : req[s].op \in {"create", "remove"}}}

Broken == {x \in Tree \ Flight : ~Stored(x.node)}

\* The tree implements DirTree: lookups, forgets and the loading of what was
\* forgotten change nothing of it, a request takes effect once and for good,
\* and a crash touches no entry but those of requests in progress.
Abstract == INSTANCE DirTree WITH
  Nodes <- Uuids, Names <- Names \cup {Sub},
  tree <- Tree, flight <- Flight,
  broken <- Broken

ImplementsDirTree == Abstract!Spec

\* docs/fs_operations.md says of lookup that it looks up the child with the
\* given name in the given parent, and returns its inode number.
LookupFindsTheChild ==
  \A t \in Threads : LET e == req[t].ent IN
    pc[t] = "found" /\ heap[req[t].node].own = e.ino
      => heap[req[t].node].uuid = e.uuid
=============================================================================
