-------------------------- MODULE Namespace_proofs --------------------------
(***************************************************************************)
(* Theorems about the directory tree, for any finite set of threads, any   *)
(* names and any bounds.                                                   *)
(*                                                                         *)
(* The invariant has five parts.  Base are the types and the stages of the *)
(* requests.  Shape is about entries and nodes: a uuid stands for one      *)
(* entry of one directory and for a node with one number, and the kernel's *)
(* locks keep the requests on one directory apart.  Numbers says how       *)
(* max_ino, in memory and in the storage, stays ahead of the numbers in    *)
(* use.  Counts relates inode_map to what the kernel knows.  Contents is   *)
(* about the entries themselves, in memory and in the storage.             *)
(*                                                                         *)
(* The last sections show that one thread implements DirTree.  They add to *)
(* the invariant what is true of one thread only, and that entries have    *)
(* the kinds of their nodes.                                               *)
(***************************************************************************)
EXTENDS Namespace, FiniteSetTheorems, TLAPS

USE NamespaceAssumption DEF Root, None

-----------------------------------------------------------------------------
(* Base.                                                                   *)

Works == {"lookup", "create", "remove"}

\* An object on the heap, or a free place there.
Slot == [uuid : Uuids \cup {None}, own : Inos \cup {None}, kind : Kinds,
         ents : SUBSET Dirent, refs : Nat]

Req == [op : Works \cup {"none", "forget"}, pino : Inos, parent : Objs \cup {None},
        ent : Dirent, node : Objs \cup {None}, num : Nat, count : Nat]

Labels == {"idle", "forget", "drop", "load", "found", "count", "parent", "super",
           "node", "unstore", "unlink"}

Typed ==
  /\ files \in [Uuids -> Node]
  /\ smax \in Inos \ {Root} /\ maxIno \in Inos \ {Root}
  /\ heap \in [Objs -> Slot]
  /\ imap \in [Inos -> Objs \cup {None}]
  /\ known \in [Inos -> Nat]
  /\ pc \in [Threads -> Labels] /\ req \in [Threads -> Req]
  /\ torn \subseteq Inos /\ clash \subseteq Inos /\ raced \subseteq Inos
  /\ orphans \subseteq Uuids

\* What a pointer leads to is an object.
Held ==
  \A o \in Pointers(imap, req) :
    o # None => heap[o].uuid # None /\ heap[o].own # None

\* Where a thread is and what it works on.
StagedAt(t) ==
  /\ req[t].op = "none" <=> pc[t] = "idle"
  /\ req[t].op = "forget" <=> pc[t] \in {"forget", "drop"}
  /\ req[t].op = "lookup" <=> pc[t] \in {"load", "found", "count"}
  /\ req[t].op = "create" <=> pc[t] \in {"parent", "super", "node"}
  /\ req[t].op = "remove" <=> pc[t] \in {"unstore", "unlink"}
  /\ req[t].op \in Works => req[t].parent # None
  /\ pc[t] \in {"found", "count", "drop", "parent", "super", "node"} => req[t].node # None
  /\ pc[t] \in {"super", "node"} => req[t].num \in 3..maxIno
  /\ pc[t] \in {"forget", "drop"} => req[t].pino # Root
Staged == \A t \in Threads : StagedAt(t)

\* The threads that will still increment max_ino, for which there is room.
Saving == {t \in Threads : pc[t] = "parent"}
Room == maxIno + Cardinality(Saving) <= MaxIno

Base == Typed /\ Held /\ Staged /\ Room

-----------------------------------------------------------------------------
(* Facts about the heap and the files.                                     *)

\* The root, the numbers and the first entry are of their types.
LEMMA Small ==
  /\ Root \in Inos /\ Root \in Objs /\ Root \in Uuids
  /\ 2 \in Inos /\ 2 \in Uuids /\ 3 \in Inos
  /\ SubEnt \in Dirent /\ NoEnt \in Dirent /\ NoReq \in Req
  /\ Inos \subseteq Nat /\ Inos \subseteq Objs /\ None \notin Objs
  /\ None \notin Uuids /\ None \notin Inos
  /\ Free \in Slot /\ Absent \in Node
<1>1. Cardinality(Threads) \in Nat BY FS_CardinalityType
<1>2. Inos \subseteq Objs /\ None \notin Objs /\ Root \in Objs BY <1>1 DEF Inos, Objs
<1>3. /\ Root \in Inos /\ 2 \in Inos /\ 3 \in Inos /\ Inos \subseteq Nat /\ None \notin Inos
      /\ Root \in Uuids /\ 2 \in Uuids /\ None \notin Uuids
  BY DEF Inos, Uuids
<1>4. SubEnt \in Dirent /\ NoEnt \in Dirent
  BY <1>3 DEF SubEnt, NoEnt, Dirent, Kinds
<1>5. NoReq \in Req BY <1>3, <1>4 DEF NoReq, Req
<1>6. Free \in Slot /\ Absent \in Node BY DEF Free, Slot, Absent, Node, Kinds
<1> QED BY <1>2, <1>3, <1>4, <1>5, <1>6

\* A file that is not there has no entries.
LEMMA Files ==
  ASSUME Typed, NEW u \in Uuids
  PROVE  /\ files[u].ents \subseteq Dirent /\ files[u].kind \in Kinds
         /\ Stored(u) => files[u].own \in Inos
         /\ ~Stored(u) => files[u] = Absent /\ files[u].own = None /\ files[u].ents = {}
<1>1. files[u] \in Node BY DEF Typed
<1>2. CASE files[u] = Absent BY <1>2 DEF Absent, Stored, Kinds
<1>3. CASE files[u] # Absent
  <2>1. files[u] \in [own : Inos, kind : Kinds, ents : SUBSET Dirent]
    BY <1>1, <1>3 DEF Node
  <2> QED BY <2>1, <1>3 DEF Stored
<1> QED BY <1>2, <1>3

\* There is always an object that nobody points to.
LEMMA NewObject ==
  ASSUME Typed
  PROVE  NewObj \in Objs /\ NewObj \notin Pointers(imap, req)
<1> DEFINE P == {req[t].parent : t \in Threads}
           N == {req[t].node : t \in Threads}
<1>1. IsFiniteSet(Inos) /\ Cardinality(Inos) = MaxIno
  BY FS_Interval DEF Inos
<1>2. IsFiniteSet(Range(imap)) /\ Cardinality(Range(imap)) <= MaxIno
  <2>1. imap \in Surjection(Inos, Range(imap))
    BY DEF Typed, Surjection, Range
  <2> QED BY <2>1, <1>1, FS_Surjection
<1>3. IsFiniteSet(P) /\ Cardinality(P) <= Cardinality(Threads)
  <2>1. [t \in Threads |-> req[t].parent] \in Surjection(Threads, P)
    BY DEF Surjection
  <2> QED BY <2>1, FS_Surjection
<1>4. IsFiniteSet(N) /\ Cardinality(N) <= Cardinality(Threads)
  <2>1. [t \in Threads |-> req[t].node] \in Surjection(Threads, N)
    BY DEF Surjection
  <2> QED BY <2>1, FS_Surjection
<1>5. Cardinality(Range(imap)) \in Nat /\ Cardinality(P) \in Nat /\ Cardinality(N) \in Nat
      /\ Cardinality(Threads) \in Nat
  BY <1>2, <1>3, <1>4, FS_CardinalityType
<1> HIDE DEF P, N
<1>6. /\ IsFiniteSet(Range(imap) \cup P)
      /\ Cardinality(Range(imap) \cup P) \in Nat
      /\ Cardinality(Range(imap) \cup P) <= MaxIno + Cardinality(Threads)
  <2>1. Cardinality(Range(imap) \cap P) \in Nat
    BY <1>2, FS_CardinalityType, FS_Intersection
  <2>2. /\ IsFiniteSet(Range(imap) \cup P)
        /\ Cardinality(Range(imap) \cup P) =
             Cardinality(Range(imap)) + Cardinality(P) - Cardinality(Range(imap) \cap P)
    BY <1>2, <1>3, FS_Union
  <2>3. Cardinality(Range(imap) \cup P) \in Nat BY <2>2, FS_CardinalityType
  <2> QED BY <1>2, <1>3, <1>5, <2>1, <2>2, <2>3
<1>7. /\ IsFiniteSet((Range(imap) \cup P) \cup N)
      /\ Cardinality((Range(imap) \cup P) \cup N) \in Nat
      /\ Cardinality((Range(imap) \cup P) \cup N) <= MaxIno + 2 * Cardinality(Threads)
  <2>1. Cardinality((Range(imap) \cup P) \cap N) \in Nat
    BY <1>6, FS_CardinalityType, FS_Intersection
  <2>2. /\ IsFiniteSet((Range(imap) \cup P) \cup N)
        /\ Cardinality((Range(imap) \cup P) \cup N) =
             Cardinality(Range(imap) \cup P) + Cardinality(N) - Cardinality((Range(imap) \cup P) \cap N)
    BY <1>4, <1>6, FS_Union
  <2>3. Cardinality((Range(imap) \cup P) \cup N) \in Nat BY <2>2, FS_CardinalityType
  <2> QED BY <1>4, <1>5, <1>6, <2>1, <2>2, <2>3
<1>8. IsFiniteSet(Objs) /\ Cardinality(Objs) = MaxIno + 2 * Cardinality(Threads) + 1
  <2>1. PICK k \in Nat : k = MaxIno + 2 * Cardinality(Threads) + 1 BY <1>5
  <2>2. Objs = 1..k BY <2>1 DEF Objs
  <2>3. IsFiniteSet(1..k) /\ Cardinality(1..k) = IF 1 > k THEN 0 ELSE k - 1 + 1 BY FS_Interval
  <2>4. k > 0 BY <2>1, <1>5
  <2> QED BY <2>1, <2>2, <2>3, <2>4
<1>9. Pointers(imap, req) = (Range(imap) \cup P) \cup N BY DEF Pointers, P, N
<1>10. ~(Objs \subseteq Pointers(imap, req))
  BY <1>5, <1>7, <1>8, <1>9, FS_Subset
<1> QED BY <1>10 DEF NewObj

-----------------------------------------------------------------------------
(* Steps.                                                                  *)

\* A step of t leaves the other threads where they are, and no object in use
\* becomes another node.
Steady(t) ==
  /\ \A s \in Threads \ {t} : pc'[s] = pc[s] /\ req'[s] = req[s]
  /\ \A o \in Objs : o \in Pointers(imap, req) /\ o \in Pointers(imap', req') =>
       /\ heap'[o].uuid = heap[o].uuid
       /\ heap'[o].own = heap[o].own
       /\ heap'[o].kind = heap[o].kind

\* The heap is h where there are pointers and free elsewhere.
Becomes(h) ==
  /\ heap' \in [Objs -> Slot]
  /\ \A o \in Objs : o \in Pointers(imap', req') => heap'[o] = h[o]
  /\ \A o \in Objs : heap'[o] = h[o] \/ heap'[o] = Free

LEMMA HeapIs ==
  ASSUME NEW h \in [Objs -> Slot], Heap(h)
  PROVE  Becomes(h)
BY Small DEF Heap, Becomes

LEMMA HeapStays ==
  ASSUME Typed, UNCHANGED heap
  PROVE  Becomes(heap)
BY DEF Typed, Becomes

\* Who has pointers.
LEMMA PointersAre ==
  ASSUME Typed
  PROVE  /\ \A i \in Inos : imap[i] \in Pointers(imap, req)
         /\ \A t \in Threads : /\ req[t].parent \in Pointers(imap, req)
                               /\ req[t].node \in Pointers(imap, req)
         /\ \A o \in Pointers(imap, req) :
              \/ \E i \in Inos : o = imap[i]
              \/ \E t \in Threads : o = req[t].parent \/ o = req[t].node
BY DEF Pointers, Range, Typed

LEMMA GotoReq ==
  ASSUME Typed, NEW t \in Threads, NEW l \in Labels, NEW r \in Req, Goto(t, l, r)
  PROVE  /\ pc' \in [Threads -> Labels] /\ pc'[t] = l
         /\ req' \in [Threads -> Req] /\ req'[t] = r
         /\ \A s \in Threads \ {t} : pc'[s] = pc[s] /\ req'[s] = req[s]
BY DEF Goto, Typed

\* After a step of t the pointers are those of before, those of inode_map and
\* those of its request.
LEMMA NewPointers ==
  ASSUME Typed, NEW t \in Threads, imap' \in [Inos -> Objs \cup {None}],
         \A s \in Threads \ {t} : req'[s] = req[s],
         NEW o \in Pointers(imap', req')
  PROVE  \/ o \in Pointers(imap, req)
         \/ o = req'[t].parent \/ o = req'[t].node
         \/ \E i \in Inos : o = imap'[i]
<1>1. \/ \E i \in Inos : o = imap'[i]
      \/ \E s \in Threads : o = req'[s].parent \/ o = req'[s].node
  BY DEF Pointers, Range
<1> QED BY <1>1, PointersAre

\* What has to be shown of the heap for a step of t.
LEMMA SteadyStep ==
  ASSUME Typed, Held, NEW t \in Threads, NEW h \in [Objs -> Slot], Becomes(h),
         imap' \in [Inos -> Objs \cup {None}],
         \A s \in Threads \ {t} : pc'[s] = pc[s] /\ req'[s] = req[s],
         \A o \in Objs : o \in Pointers(imap, req) =>
           h[o].uuid = heap[o].uuid /\ h[o].own = heap[o].own /\ h[o].kind = heap[o].kind,
         \A o \in {req'[t].parent, req'[t].node} \cup {imap'[i] : i \in Inos} :
           o = None \/ (o \in Objs /\ (o \in Pointers(imap, req)
                                         \/ (h[o].uuid # None /\ h[o].own # None)))
  PROVE  Held' /\ Steady(t)
<1>1. Steady(t) BY DEF Becomes, Steady
<1>2. ASSUME NEW o \in Pointers(imap', req'), o # None
      PROVE  heap'[o].uuid # None /\ heap'[o].own # None
  <2>1. \/ o \in Pointers(imap, req)
        \/ o = req'[t].parent \/ o = req'[t].node
        \/ \E i \in Inos : o = imap'[i]
    BY NewPointers
  <2>2. o \in Objs /\ (o \in Pointers(imap, req) \/ (h[o].uuid # None /\ h[o].own # None))
    <3>1. CASE o \in Pointers(imap, req)
      <4>1. \A s \in Threads : /\ req[s].parent \in Objs \cup {None}
                              /\ req[s].node \in Objs \cup {None}
        BY DEF Typed, Req
      <4>2. \A j \in Inos : imap[j] \in Objs \cup {None} BY DEF Typed
      <4> QED BY <1>2, <3>1, <4>1, <4>2, PointersAre
    <3>2. CASE o \notin Pointers(imap, req)
      BY <1>2, <2>1, <3>2
    <3> QED BY <3>1, <3>2
  <2>3. heap'[o] = h[o] BY <2>2 DEF Becomes
  <2> QED BY <1>2, <2>2, <2>3 DEF Held
<1> QED BY <1>1, <1>2 DEF Held

LEMMA StagedOther ==
  ASSUME Typed, Staged, Typed', NEW t \in Threads, maxIno <= maxIno',
         \A s \in Threads \ {t} : pc'[s] = pc[s] /\ req'[s] = req[s],
         StagedAt(t)'
  PROVE  Staged'
<1> SUFFICES ASSUME NEW s \in Threads \ {t} PROVE StagedAt(s)' BY DEF Staged
<1>1. StagedAt(s) /\ pc'[s] = pc[s] /\ req'[s] = req[s] BY DEF Staged
<1>2. maxIno \in Nat /\ maxIno' \in Nat /\ req[s].num \in Nat
  BY Small DEF Typed, Req
<1> QED BY <1>1, <1>2 DEF StagedAt

LEMMA RoomStays ==
  ASSUME Typed, Room, NEW t \in Threads, UNCHANGED maxIno,
         \A s \in Threads \ {t} : pc'[s] = pc[s],
         pc[t] # "parent", pc'[t] # "parent"
  PROVE  Room'
<1>1. Saving' = Saving BY DEF Saving
<1> QED BY <1>1 DEF Room

\* Steps that leave the memory alone or take pointers away.
LEMMA LookupBase ==
  ASSUME Base, NEW t \in Threads, NEW i \in Inos, Lookup(t, i)
  PROVE  Base' /\ Steady(t)
<1> USE DEF Base
<1>1. PICK e \in heap[imap[i]].ents :
        Goto(t, IF imap[e.ino] = None THEN "load" ELSE "found",
             [NoReq EXCEPT !.op = "lookup", !.pino = i, !.parent = imap[i],
                           !.ent = e, !.node = imap[e.ino]])
  BY DEF Lookup
<1>2. /\ imap[i] \in Objs /\ e \in Dirent /\ e.ino \in Inos
      /\ imap[e.ino] \in Objs \cup {None} /\ pc[t] = "idle"
  <2>1. imap[i] \in Objs BY DEF Lookup, Enters, Typed
  <2>2. e \in Dirent BY <2>1 DEF Typed, Slot
  <2> QED BY <2>1, <2>2 DEF Lookup, Enters, Typed, Dirent
<1>3. PICK r \in Req : r = [NoReq EXCEPT !.op = "lookup", !.pino = i, !.parent = imap[i],
                                         !.ent = e, !.node = imap[e.ino]]
  BY <1>2, Small DEF Req, NoReq, Works
<1>4. PICK l \in Labels : l = IF imap[e.ino] = None THEN "load" ELSE "found"
  BY DEF Labels
<1>5. Goto(t, l, r) BY <1>1, <1>3, <1>4
<1>6. /\ pc' \in [Threads -> Labels] /\ pc'[t] = l
      /\ req' \in [Threads -> Req] /\ req'[t] = r
      /\ \A s \in Threads \ {t} : pc'[s] = pc[s] /\ req'[s] = req[s]
  BY <1>5, GotoReq
<1>7. UNCHANGED <<files, smax, heap, imap, maxIno, known, torn, clash, raced, orphans>>
  BY DEF Lookup, memory, storage, history
<1>8. Typed' BY <1>6, <1>7 DEF Typed
<1>9. Held' /\ Steady(t)
  <2>1. r.parent = imap[i] /\ r.node = imap[e.ino] BY <1>2, <1>3, Small DEF Req, NoReq
  <2>2. \A o \in {req'[t].parent, req'[t].node} \cup {imap'[j] : j \in Inos} :
           o = None \/ (o \in Objs /\ o \in Pointers(imap, req))
    BY <1>2, <1>6, <1>7, <2>1, PointersAre DEF Typed
  <2> QED BY <1>6, <1>7, <2>2, SteadyStep, HeapStays DEF Typed
<1>10. Staged'
  <2>1. r.op = "lookup" /\ r.parent = imap[i] /\ r.node = imap[e.ino]
    BY <1>2, <1>3, Small DEF Req, NoReq
  <2>2. StagedAt(t)' BY <1>2, <1>4, <1>6, <2>1, Small DEF StagedAt, Works
  <2> QED BY <1>6, <1>7, <1>8, <2>2, StagedOther, Small DEF Typed
<1>11. Room' BY <1>2, <1>4, <1>6, <1>7, RoomStays
<1> QED BY <1>8, <1>9, <1>10, <1>11

LEMMA BeginForgetBase ==
  ASSUME Base, NEW t \in Threads, NEW i \in Inos, BeginForget(t, i)
  PROVE  Base' /\ Steady(t)
<1> USE DEF Base
<1>1. PICK r \in Req : r = [NoReq EXCEPT !.op = "forget", !.pino = i, !.num = known[i]]
  BY Small DEF Req, NoReq, Typed
<1>2. Goto(t, "forget", r) BY <1>1 DEF BeginForget
<1>3. /\ pc' \in [Threads -> Labels] /\ pc'[t] = "forget"
      /\ req' \in [Threads -> Req] /\ req'[t] = r
      /\ \A s \in Threads \ {t} : pc'[s] = pc[s] /\ req'[s] = req[s]
  BY <1>2, GotoReq DEF Labels
<1>4. /\ UNCHANGED <<files, smax, heap, imap, maxIno, torn, clash, raced, orphans>>
      /\ known' = [known EXCEPT ![i] = 0] /\ pc[t] = "idle" /\ i # Root
  BY DEF BeginForget, memory, storage, history
<1>5. Typed' BY <1>3, <1>4 DEF Typed
<1>6. r.op = "forget" /\ r.parent = None /\ r.node = None /\ r.pino = i
  BY <1>1, Small DEF Req, NoReq
<1>7. Held' /\ Steady(t)
  <2>1. \A o \in {req'[t].parent, req'[t].node} \cup {imap'[j] : j \in Inos} :
           o = None \/ (o \in Objs /\ o \in Pointers(imap, req))
    BY <1>3, <1>4, <1>6, PointersAre DEF Typed
  <2> QED BY <1>3, <1>4, <2>1, SteadyStep, HeapStays DEF Typed
<1>8. Staged'
  <2>1. StagedAt(t)' BY <1>3, <1>4, <1>6 DEF StagedAt, Works
  <2> QED BY <1>3, <1>4, <1>5, <2>1, StagedOther, Small DEF Typed
<1>9. Room' BY <1>3, <1>4, RoomStays
<1> QED BY <1>5, <1>7, <1>8, <1>9

LEMMA RemoveBase ==
  ASSUME Base, NEW t \in Threads, NEW i \in Inos, Remove(t, i)
  PROVE  Base' /\ Steady(t)
<1> USE DEF Base
<1>1. PICK e \in heap[imap[i]].ents :
        Goto(t, "unstore", [NoReq EXCEPT !.op = "remove", !.pino = i,
                                         !.parent = imap[i], !.ent = e])
  BY DEF Remove
<1>2. imap[i] \in Objs /\ e \in Dirent /\ pc[t] = "idle"
  <2>1. imap[i] \in Objs BY DEF Remove, Enters, Typed
  <2>2. e \in Dirent BY <2>1 DEF Typed, Slot
  <2> QED BY <2>1, <2>2 DEF Remove, Enters
<1>3. PICK r \in Req : r = [NoReq EXCEPT !.op = "remove", !.pino = i,
                                         !.parent = imap[i], !.ent = e]
  BY <1>2, Small DEF Req, NoReq, Works
<1>4. Goto(t, "unstore", r) BY <1>1, <1>3
<1>5. /\ pc' \in [Threads -> Labels] /\ pc'[t] = "unstore"
      /\ req' \in [Threads -> Req] /\ req'[t] = r
      /\ \A s \in Threads \ {t} : pc'[s] = pc[s] /\ req'[s] = req[s]
  BY <1>4, GotoReq DEF Labels
<1>6. UNCHANGED <<files, smax, heap, imap, maxIno, known, torn, clash, raced, orphans>>
  BY DEF Remove, memory, storage, history
<1>7. Typed' BY <1>5, <1>6 DEF Typed
<1>8. r.op = "remove" /\ r.parent = imap[i] /\ r.node = None
  BY <1>2, <1>3, Small DEF Req, NoReq
<1>9. Held' /\ Steady(t)
  <2>1. \A o \in {req'[t].parent, req'[t].node} \cup {imap'[j] : j \in Inos} :
           o = None \/ (o \in Objs /\ o \in Pointers(imap, req))
    BY <1>2, <1>5, <1>6, <1>8, PointersAre DEF Typed
  <2> QED BY <1>5, <1>6, <2>1, SteadyStep, HeapStays DEF Typed
<1>10. Staged'
  <2>1. StagedAt(t)' BY <1>2, <1>5, <1>8, Small DEF StagedAt, Works
  <2> QED BY <1>5, <1>6, <1>7, <2>1, StagedOther, Small DEF Typed
<1>11. Room' BY <1>2, <1>5, <1>6, RoomStays
<1> QED BY <1>7, <1>9, <1>10, <1>11

LEMMA SaveSuperBase ==
  ASSUME Base, NEW t \in Threads, SaveSuper(t)
  PROVE  Base' /\ Steady(t)
<1> USE DEF Base
<1>1. req[t] \in Req /\ Goto(t, "node", req[t]) /\ pc[t] = "super"
  BY DEF SaveSuper, Typed
<1>2. /\ pc' \in [Threads -> Labels] /\ pc'[t] = "node"
      /\ req' \in [Threads -> Req] /\ req'[t] = req[t]
      /\ \A s \in Threads \ {t} : pc'[s] = pc[s] /\ req'[s] = req[s]
  BY <1>1, GotoReq DEF Labels
<1>3. /\ UNCHANGED <<files, heap, imap, maxIno, known, torn, clash, raced, orphans>>
      /\ smax' = req[t].num
  BY DEF SaveSuper, memory, history
<1>4. req[t].num \in Inos \ {Root}
  BY <1>1, Small DEF Staged, StagedAt, Typed, Inos
<1>5. Typed' BY <1>2, <1>3, <1>4 DEF Typed
<1>6. Held' /\ Steady(t)
  <2>1. \A o \in {req'[t].parent, req'[t].node} \cup {imap'[j] : j \in Inos} :
           o = None \/ (o \in Objs /\ o \in Pointers(imap, req))
    BY <1>2, <1>3, PointersAre DEF Typed, Req
  <2> QED BY <1>2, <1>3, <2>1, SteadyStep, HeapStays DEF Typed
<1>7. Staged'
  <2>1. StagedAt(t) /\ maxIno' = maxIno BY <1>3 DEF Staged
  <2>2. StagedAt(t)' BY <1>1, <1>2, <2>1 DEF StagedAt
  <2> QED BY <1>2, <1>3, <1>5, <2>2, StagedOther, Small DEF Typed
<1>8. Room' BY <1>1, <1>2, <1>3, RoomStays
<1> QED BY <1>5, <1>6, <1>7, <1>8

\* A thread that returns has no pointers.
LEMMA ReturnBase ==
  ASSUME Base, NEW t \in Threads, Return(t), pc[t] # "parent", UNCHANGED maxIno,
         files' \in [Uuids -> Node], UNCHANGED <<smax, torn, clash, orphans>>,
         known' \in [Inos -> Nat], raced' \subseteq Inos,
         NEW h \in [Objs -> Slot], Becomes(h),
         \A i \in Inos : imap'[i] = None \/ imap'[i] = imap[i],
         imap' \in [Inos -> Objs \cup {None}],
         \A o \in Objs : o \in Pointers(imap, req) =>
           h[o].uuid = heap[o].uuid /\ h[o].own = heap[o].own /\ h[o].kind = heap[o].kind
  PROVE  Base' /\ Steady(t)
<1> USE DEF Base
<1>1. /\ pc' \in [Threads -> Labels] /\ pc'[t] = "idle"
      /\ req' \in [Threads -> Req] /\ req'[t] = NoReq
      /\ \A s \in Threads \ {t} : pc'[s] = pc[s] /\ req'[s] = req[s]
  BY GotoReq, Small DEF Labels, Return
<1>2. NoReq.op = "none" /\ NoReq.parent = None /\ NoReq.node = None BY DEF NoReq
<1>3. Typed' BY <1>1 DEF Typed, Becomes
<1>4. Held' /\ Steady(t)
  <2>1. \A o \in {req'[t].parent, req'[t].node} \cup {imap'[j] : j \in Inos} :
           o = None \/ (o \in Objs /\ o \in Pointers(imap, req))
    BY <1>1, <1>2, PointersAre DEF Typed
  <2> QED BY <1>1, <2>1, SteadyStep
<1>5. Staged'
  <2>1. StagedAt(t)' BY <1>1, <1>2 DEF StagedAt, Works
  <2> QED BY <1>1, <1>3, <2>1, StagedOther, Small DEF Typed
<1>6. Room' BY <1>1, RoomStays
<1> QED BY <1>3, <1>4, <1>5, <1>6

\* What is dumped is a file.
LEMMA DumpedNode ==
  ASSUME Base, NEW o \in Objs, o \in Pointers(imap, req)
  PROVE  /\ Dumped(heap[o]) \in Node /\ Dumped(heap[o]) # Absent
         /\ heap[o].uuid \in Uuids /\ heap[o].own \in Inos
         /\ Dumped(heap[o]).own = heap[o].own /\ Dumped(heap[o]).ents = heap[o].ents
<1>1. heap[o] \in Slot /\ heap[o].uuid \in Uuids /\ heap[o].own \in Inos
  <2>1. heap[o] \in Slot /\ heap[o].uuid # None /\ heap[o].own # None
    BY Small DEF Base, Typed, Held
  <2> QED BY <2>1 DEF Slot
<1>2. heap[o].kind \in Kinds /\ heap[o].ents \subseteq Dirent BY <1>1 DEF Slot
<1>3. Dumped(heap[o]) \in [own : Inos, kind : Kinds, ents : SUBSET Dirent]
  BY <1>1, <1>2 DEF Dumped
<1>4. Dumped(heap[o]).own = heap[o].own /\ Dumped(heap[o]).ents = heap[o].ents
  BY DEF Dumped
<1>5. Absent.own = None BY DEF Absent
<1> QED BY <1>1, <1>3, <1>4, <1>5, Small DEF Node

\* The parent and the node of a request.
LEMMA InUse ==
  ASSUME Base, NEW t \in Threads
  PROVE  /\ req[t].op \in Works =>
              /\ req[t].parent \in Objs /\ req[t].parent \in Pointers(imap, req)
              /\ heap[req[t].parent].uuid \in Uuids /\ heap[req[t].parent].own \in Inos
         /\ pc[t] \in {"found", "count", "drop", "parent", "super", "node"} =>
              /\ req[t].node \in Objs /\ req[t].node \in Pointers(imap, req)
              /\ heap[req[t].node].uuid \in Uuids /\ heap[req[t].node].own \in Inos
         /\ req[t].ent \in Dirent /\ req[t].ent.ino \in Inos /\ req[t].ent.uuid \in Uuids
<1>1. req[t] \in Req /\ StagedAt(t) BY DEF Base, Typed, Staged
<1>2. req[t].ent \in Dirent /\ req[t].ent.ino \in Inos /\ req[t].ent.uuid \in Uuids
  BY <1>1 DEF Req, Dirent
<1>3. req[t].op \in Works => req[t].parent \in Objs /\ req[t].parent \in Pointers(imap, req)
  BY <1>1, PointersAre DEF Base, Req, StagedAt
<1>4. pc[t] \in {"found", "count", "drop", "parent", "super", "node"} =>
        req[t].node \in Objs /\ req[t].node \in Pointers(imap, req)
  BY <1>1, PointersAre DEF Base, Req, StagedAt
<1> QED BY <1>2, <1>3, <1>4, DumpedNode

\* A thread that keeps an object in use and goes on with its request.
LEMMA HoldBase ==
  ASSUME Base, NEW t \in Threads, NEW l \in Labels, NEW r \in Req, Goto(t, l, r),
         \/ pc[t] = "found" /\ l = "count"
         \/ pc[t] = "forget" /\ l = "drop",
         r.op = req[t].op, r.pino = req[t].pino, r.parent = req[t].parent,
         r.node \in Objs, r.node \in Pointers(imap, req), Becomes(heap),
         UNCHANGED <<files, smax, imap, maxIno, known, torn, clash, raced, orphans>>
  PROVE  Base' /\ Steady(t)
<1> USE DEF Base
<1>1. /\ pc' \in [Threads -> Labels] /\ pc'[t] = l
      /\ req' \in [Threads -> Req] /\ req'[t] = r
      /\ \A s \in Threads \ {t} : pc'[s] = pc[s] /\ req'[s] = req[s]
  BY GotoReq
<1>2. Typed' BY <1>1 DEF Typed, Becomes
<1>3. Held' /\ Steady(t)
  <2>1. req[t].parent \in Objs \cup {None} BY DEF Typed, Req
  <2>2. \A o \in {req'[t].parent, req'[t].node} \cup {imap'[j] : j \in Inos} :
           o = None \/ (o \in Objs /\ o \in Pointers(imap, req))
    BY <1>1, <2>1, PointersAre DEF Typed
  <2> QED BY <1>1, <2>2, SteadyStep DEF Typed
<1>4. Staged'
  <2>1. StagedAt(t) /\ maxIno' = maxIno BY DEF Staged
  <2>2. StagedAt(t)' BY <1>1, <2>1, Small DEF StagedAt, Works
  <2> QED BY <1>1, <1>2, <2>2, StagedOther, Small DEF Typed
<1>5. Room' BY <1>1, RoomStays
<1> QED BY <1>2, <1>3, <1>4, <1>5

LEMMA FoundBase ==
  ASSUME Base, NEW t \in Threads, Found(t)
  PROVE  Base' /\ Steady(t)
<1> DEFINE e == req[t].ent
           o == req[t].node
<1>1. /\ pc[t] = "found" /\ o \in Objs /\ o \in Pointers(imap, req) /\ Becomes(heap)
      /\ UNCHANGED <<files, smax, imap, maxIno, known, torn, clash, raced, orphans>>
      /\ Typed
  BY InUse, HeapIs DEF Found, storage, history, Base, Typed
<1>2. CASE heap[o].own # e.ino
  <2>1. Return(t) BY <1>2 DEF Found
  <2> QED BY <1>1, <2>1, ReturnBase DEF Typed
<1>3. CASE heap[o].own = e.ino
  <2>1. Goto(t, "count", [req[t] EXCEPT !.count = heap[o].refs]) BY <1>3 DEF Found
  <2>2. PICK r \in Req : r = [req[t] EXCEPT !.count = heap[o].refs]
    BY <1>1 DEF Typed, Req, Slot
  <2>3. /\ r.op = req[t].op /\ r.pino = req[t].pino /\ r.parent = req[t].parent
        /\ r.node = o
    BY <1>1, <2>2 DEF Typed, Req
  <2>4. "count" \in Labels BY DEF Labels
  <2> QED BY <1>1, <2>1, <2>2, <2>3, <2>4, HoldBase
<1> QED BY <1>2, <1>3

\* A count that is written.
LEMMA Recounted ==
  ASSUME Typed, NEW o \in Objs, NEW n \in Nat
  PROVE  /\ [heap EXCEPT ![o].refs = n] \in [Objs -> Slot]
         /\ [heap EXCEPT ![o].refs = n][o] = [heap[o] EXCEPT !.refs = n]
         /\ \A p \in Objs \ {o} : [heap EXCEPT ![o].refs = n][p] = heap[p]
         /\ \A p \in Objs : LET g == [heap EXCEPT ![o].refs = n] IN
              g[p].uuid = heap[p].uuid /\ g[p].own = heap[p].own /\ g[p].kind = heap[p].kind
BY DEF Typed, Slot

LEMMA CountBase ==
  ASSUME Base, NEW t \in Threads, Count(t)
  PROVE  Base' /\ Steady(t)
<1> USE DEF Base
<1> DEFINE e == req[t].ent
           o == req[t].node
           n == req[t].count + 1
<1>1. /\ e.ino \in Inos /\ o \in Objs /\ pc[t] = "count" /\ Return(t) /\ n \in Nat
      /\ UNCHANGED <<imap, maxIno, files, smax, torn, clash, orphans>>
      /\ Heap([heap EXCEPT ![o].refs = n])
  BY InUse DEF Count, storage, Typed, Req
<1>2. known' \in [Inos -> Nat] /\ raced' \subseteq Inos
  BY <1>1 DEF Count, Typed
<1>3. PICK h \in [Objs -> Slot] : h = [heap EXCEPT ![o].refs = n] BY <1>1, Recounted
<1>4. \A p \in Objs : /\ h[p].uuid = heap[p].uuid /\ h[p].own = heap[p].own
                      /\ h[p].kind = heap[p].kind
  BY <1>1, <1>3, Recounted
<1>5. Becomes(h) BY <1>1, <1>3, HeapIs
<1> QED BY <1>1, <1>2, <1>4, <1>5, ReturnBase DEF Typed

LEMMA ForgetBase ==
  ASSUME Base, NEW t \in Threads, Forget(t)
  PROVE  Base' /\ Steady(t)
<1> DEFINE o == imap[req[t].pino]
<1>1. /\ pc[t] = "forget" /\ o \in Objs \cup {None} /\ o \in Pointers(imap, req)
      /\ UNCHANGED <<files, smax, imap, maxIno, known, torn, clash, raced, orphans>>
      /\ Typed /\ Becomes(heap)
  BY PointersAre, HeapIs DEF Forget, storage, history, Base, Typed, Req
<1>2. CASE o = None
  <2>1. Return(t) BY <1>2 DEF Forget
  <2> QED BY <1>1, <2>1, ReturnBase DEF Typed
<1>3. CASE o # None
  <2>1. Goto(t, "drop", [req[t] EXCEPT !.node = o, !.count = heap[o].refs])
    BY <1>3 DEF Forget
  <2>0. req[t] \in Req /\ o \in Objs /\ heap[o].refs \in Nat
    BY <1>1, <1>3 DEF Typed, Slot
  <2>2. PICK r \in Req : r = [req[t] EXCEPT !.node = o, !.count = heap[o].refs]
    BY <2>0 DEF Req
  <2>3. /\ r.op = req[t].op /\ r.pino = req[t].pino /\ r.parent = req[t].parent
        /\ r.node = o
    BY <1>1, <2>2 DEF Typed, Req
  <2>4. "drop" \in Labels BY DEF Labels
  <2> QED BY <1>1, <1>3, <2>1, <2>2, <2>3, <2>4, HoldBase
<1> QED BY <1>2, <1>3

LEMMA DropBase ==
  ASSUME Base, NEW t \in Threads, Drop(t)
  PROVE  Base' /\ Steady(t)
<1> USE DEF Base
<1> DEFINE i == req[t].pino
           o == req[t].node
           gone == req[t].count <= req[t].num
<1>1. /\ i \in Inos /\ o \in Objs /\ pc[t] = "drop" /\ Return(t)
      /\ req[t].num \in Nat /\ req[t].count \in Nat
      /\ UNCHANGED <<maxIno, files, smax, known, torn, clash, orphans>>
  BY InUse DEF Drop, storage, Typed, Req
<1>2. /\ imap' \in [Inos -> Objs \cup {None}]
      /\ \A j \in Inos : imap'[j] = None \/ imap'[j] = imap[j]
      /\ raced' \subseteq Inos
  BY <1>1 DEF Drop, Typed
<1>3. PICK h \in [Objs -> Slot] :
        /\ Heap(h)
        /\ \A p \in Objs : /\ h[p].uuid = heap[p].uuid /\ h[p].own = heap[p].own
                           /\ h[p].kind = heap[p].kind
  <2>1. CASE gone BY <2>1 DEF Drop, Typed
  <2>2. CASE ~gone
    <3>1. Heap([heap EXCEPT ![o].refs = req[t].count - req[t].num]) BY <2>2 DEF Drop
    <3>2. PICK n \in Nat : n = req[t].count - req[t].num BY <1>1, <2>2
    <3>3. Heap([heap EXCEPT ![o].refs = n]) BY <3>1, <3>2
    <3>4. PICK h \in [Objs -> Slot] : h = [heap EXCEPT ![o].refs = n] BY <1>1, Recounted
    <3>5. \A p \in Objs : /\ h[p].uuid = heap[p].uuid /\ h[p].own = heap[p].own
                          /\ h[p].kind = heap[p].kind
      BY <1>1, <3>4, Recounted
    <3> QED BY <3>3, <3>4, <3>5
  <2> QED BY <2>1, <2>2
<1>4. Becomes(h) BY <1>3, HeapIs
<1> QED BY <1>1, <1>2, <1>3, <1>4, ReturnBase DEF Typed

\* A flush leaves the memory alone.
LEMMA FlushBase ==
  ASSUME Base, NEW t \in Threads, NEW i \in Inos, Flush(t, i)
  PROVE  Base' /\ Steady(t)
<1> DEFINE o == imap[i]
<1>1. /\ o \in Objs /\ o \in Pointers(imap, req) /\ Store(o) /\ Typed
      /\ UNCHANGED <<smax, heap, imap, maxIno, known, pc, req, torn, raced>>
  BY PointersAre DEF Flush, memory, Base, Typed
<1>2. /\ files' \in [Uuids -> Node]
      /\ orphans' \subseteq Uuids /\ clash' \subseteq Inos
  <2>1. files' \in [Uuids -> Node] BY <1>1, DumpedNode DEF Store, Typed
  <2>2. orphans' \subseteq Uuids BY <1>1, DumpedNode DEF Flush, Typed
  <2>3. clash' \subseteq Inos
    <3>1. \A s \in Threads : req[s].ent.ino \in Inos BY InUse
    <3> QED BY <1>1, <3>1 DEF Flush, Typed, Creating
  <2> QED BY <2>1, <2>2, <2>3
<1>3. Typed' BY <1>1, <1>2 DEF Typed
<1>4. Held' /\ Steady(t) BY <1>1 DEF Base, Held, Steady
<1>5. Staged' BY <1>1 DEF Base, Staged, StagedAt
<1>6. Room' BY <1>1 DEF Base, Room, Saving
<1> QED BY <1>3, <1>4, <1>5, <1>6 DEF Base

LEMMA SaveNodeBase ==
  ASSUME Base, NEW t \in Threads, SaveNode(t)
  PROVE  Base' /\ Steady(t)
<1>1. /\ pc[t] = "node" /\ Return(t) /\ Heap(heap) /\ Store(req[t].node)
      /\ UNCHANGED <<imap, maxIno, smax, torn, clash, raced, orphans>>
      /\ known' = [known EXCEPT ![Replied(t)] = @ + 1]
  BY DEF SaveNode, history
<1>2. Replied(t) \in Inos /\ known' \in [Inos -> Nat]
  <2>1. req[t].num \in 3..maxIno BY <1>1 DEF Base, Staged, StagedAt
  <2>2. Replied(t) \in Inos BY <2>1, Small, SMTT(30) DEF Replied, Inos, Base, Typed
  <2> QED BY <1>1, <2>2 DEF Base, Typed
<1>3. req[t].node \in Objs /\ req[t].node \in Pointers(imap, req) BY <1>1, InUse
<1>4. files' \in [Uuids -> Node]
  BY <1>1, <1>3, DumpedNode DEF Store, Base, Typed
<1>5. heap \in [Objs -> Slot] /\ Becomes(heap) BY <1>1, HeapIs DEF Base, Typed
<1> QED BY <1>1, <1>2, <1>4, <1>5, ReturnBase DEF Base, Typed

LEMMA SaveRemovedBase ==
  ASSUME Base, NEW t \in Threads, SaveRemoved(t)
  PROVE  Base' /\ Steady(t)
<1>1. /\ pc[t] = "unlink" /\ Return(t) /\ Heap(heap) /\ Store(req[t].parent)
      /\ UNCHANGED <<imap, maxIno, smax, known, torn, clash, raced, orphans>>
  BY DEF SaveRemoved, history
<1>2. req[t].op \in Works BY <1>1 DEF Base, Staged, StagedAt, Works
<1>3. req[t].parent \in Objs /\ req[t].parent \in Pointers(imap, req) BY <1>2, InUse
<1>4. files' \in [Uuids -> Node]
  BY <1>1, <1>3, DumpedNode DEF Store, Base, Typed
<1>5. heap \in [Objs -> Slot] /\ Becomes(heap) BY <1>1, HeapIs DEF Base, Typed
<1> QED BY <1>1, <1>4, <1>5, ReturnBase DEF Base, Typed

\* What was loaded is an object.
LEMMA LoadedSlot ==
  ASSUME Typed, NEW u \in Uuids
  PROVE  /\ Loaded(u) \in Slot
         /\ Loaded(u).uuid = u /\ Loaded(u).own = files[u].own /\ Loaded(u).refs = 0
         /\ Loaded(u).kind = files[u].kind /\ Loaded(u).ents = files[u].ents
<1>1. files[u].own \in Inos \cup {None} BY Files
<1>2. files[u].ents \subseteq Dirent /\ files[u].kind \in Kinds BY Files
<1> QED BY <1>1, <1>2 DEF Loaded, Slot

LEMMA LoadBase ==
  ASSUME Base, NEW t \in Threads, Load(t)
  PROVE  Base' /\ Steady(t)
<1> DEFINE e == req[t].ent
<1>1. /\ pc[t] = "load" /\ e.ino \in Inos /\ e.uuid \in Uuids
      /\ UNCHANGED <<maxIno, files, smax, known, torn, clash, raced, orphans>>
      /\ Typed
  BY InUse DEF Load, storage, history, Base
<1>2. PICK h \in [Objs -> Slot] : h = [heap EXCEPT ![NewObj] = Loaded(e.uuid)]
  BY <1>1, LoadedSlot DEF Typed
<1>3. Becomes(h) BY <1>2, HeapIs DEF Load
<1>4. NewObj \in Objs /\ NewObj \notin Pointers(imap, req) BY <1>1, NewObject
<1>5. \A o \in Objs : o \in Pointers(imap, req) => h[o] = heap[o]
  BY <1>1, <1>2, <1>4 DEF Typed
<1>6. CASE files[e.uuid] = Absent
  <2>1. Return(t) /\ UNCHANGED imap BY <1>6 DEF Load
  <2> QED BY <1>1, <1>3, <1>5, <2>1, ReturnBase DEF Typed
<1>7. CASE files[e.uuid] # Absent
  <2>1. /\ imap' = [imap EXCEPT ![e.ino] = NewObj]
        /\ Goto(t, "found", [req[t] EXCEPT !.node = NewObj])
    BY <1>7 DEF Load
  <2>2. PICK r \in Req : r = [req[t] EXCEPT !.node = NewObj]
    BY <1>1, <1>4 DEF Typed, Req
  <2>3. Goto(t, "found", r) BY <2>1, <2>2
  <2>4. /\ pc' \in [Threads -> Labels] /\ pc'[t] = "found"
        /\ req' \in [Threads -> Req] /\ req'[t] = r
        /\ \A s \in Threads \ {t} : pc'[s] = pc[s] /\ req'[s] = req[s]
    BY <1>1, <2>3, GotoReq DEF Labels
  <2>5. imap' \in [Inos -> Objs \cup {None}] BY <1>1, <1>4, <2>1 DEF Typed
  <2>6. Typed' BY <1>1, <1>3, <2>4, <2>5 DEF Typed, Becomes
  <2>7. /\ r.op = req[t].op /\ r.parent = req[t].parent /\ r.node = NewObj
        /\ r.num = req[t].num /\ r.pino = req[t].pino
    BY <1>1, <2>2 DEF Typed, Req
  <2>8. Held' /\ Steady(t)
    <3>1. h[NewObj].uuid # None /\ h[NewObj].own # None
      <4>1. h[NewObj] = Loaded(e.uuid) BY <1>1, <1>2, <1>4 DEF Typed
      <4>2. files[e.uuid].own \in Inos BY <1>1, <1>7, Files DEF Stored
      <4> QED BY <1>1, <4>1, <4>2, LoadedSlot, Small
    <3>2. \A o \in {req'[t].parent, req'[t].node} \cup {imap'[j] : j \in Inos} :
             o = None \/ o = NewObj \/ (o \in Objs /\ o \in Pointers(imap, req))
      <4>1. req[t].parent \in Objs \cup {None} BY <1>1 DEF Typed, Req
      <4>2. \A j \in Inos : imap'[j] = NewObj \/ imap'[j] = imap[j]
        BY <1>1, <2>1 DEF Typed
      <4> QED BY <1>1, <2>4, <2>7, <4>1, <4>2, PointersAre DEF Typed
    <3>3. \A o \in Objs : o \in Pointers(imap, req) =>
            h[o].uuid = heap[o].uuid /\ h[o].own = heap[o].own /\ h[o].kind = heap[o].kind
      BY <1>5
    <3> QED BY <1>1, <1>3, <1>4, <2>4, <2>5, <3>1, <3>2, <3>3, SteadyStep DEF Base
  <2>9. Staged'
    <3>1. StagedAt(t) BY DEF Base, Staged
    <3>2. StagedAt(t)' BY <1>1, <1>4, <2>4, <2>7, <3>1, Small DEF StagedAt, Works
    <3> QED BY <1>1, <2>4, <2>6, <3>2, StagedOther, Small DEF Base, Typed
  <2>10. Room' BY <1>1, <2>4, RoomStays DEF Base
  <2> QED BY <2>6, <2>8, <2>9, <2>10 DEF Base
<1> QED BY <1>6, <1>7

LEMMA RemoveNodeBase ==
  ASSUME Base, NEW t \in Threads, RemoveNode(t)
  PROVE  Base' /\ Steady(t)
<1> DEFINE e == req[t].ent
           p == req[t].parent
<1>1. /\ pc[t] = "unstore" /\ files' = [files EXCEPT ![e.uuid] = Absent]
      /\ UNCHANGED <<imap, maxIno, smax, known, torn, clash, raced, orphans>>
      /\ Typed /\ req[t].op \in Works
  BY DEF RemoveNode, history, Base, Staged, StagedAt, Works
<1>2. p \in Objs /\ e \in Dirent BY <1>1, InUse
<1>3. files' \in [Uuids -> Node] BY <1>1, Small DEF Typed
<1>4. CASE files[e.uuid] = Absent
  <2>1. Return(t) /\ Heap(heap) BY <1>4 DEF RemoveNode
  <2>2. heap \in [Objs -> Slot] /\ Becomes(heap) BY <1>1, <2>1, HeapIs DEF Typed
  <2> QED BY <1>1, <1>3, <2>1, <2>2, ReturnBase DEF Typed
<1>5. CASE files[e.uuid] # Absent
  <2>1. Goto(t, "unlink", req[t]) /\ Heap([heap EXCEPT ![p].ents = @ \ {e}])
    BY <1>5 DEF RemoveNode
  <2>2. [heap EXCEPT ![p].ents = @ \ {e}] \in [Objs -> Slot]
    BY <1>1, <1>2 DEF Typed, Slot
  <2>3. PICK h \in [Objs -> Slot] : h = [heap EXCEPT ![p].ents = @ \ {e}]
    BY <2>2
  <2>4. Becomes(h) BY <2>1, <2>3, HeapIs
  <2>5. \A o \in Objs :
          h[o].uuid = heap[o].uuid /\ h[o].own = heap[o].own /\ h[o].kind = heap[o].kind
    BY <1>1, <2>3 DEF Typed, Slot
  <2>6. req[t] \in Req BY <1>1 DEF Typed
  <2>7. /\ pc' \in [Threads -> Labels] /\ pc'[t] = "unlink"
        /\ req' \in [Threads -> Req] /\ req'[t] = req[t]
        /\ \A s \in Threads \ {t} : pc'[s] = pc[s] /\ req'[s] = req[s]
    BY <1>1, <2>1, <2>6, GotoReq DEF Labels
  <2>8. Typed' BY <1>1, <1>3, <2>4, <2>7 DEF Typed, Becomes
  <2>9. Held' /\ Steady(t)
    <3>1. \A o \in {req'[t].parent, req'[t].node} \cup {imap'[j] : j \in Inos} :
             o = None \/ (o \in Objs /\ o \in Pointers(imap, req))
      BY <1>1, <2>6, <2>7, PointersAre DEF Typed, Req
    <3> QED BY <1>1, <2>4, <2>5, <2>7, <3>1, SteadyStep DEF Base, Typed
  <2>10. Staged'
    <3>1. StagedAt(t) /\ maxIno' = maxIno BY <1>1 DEF Staged, Base
    <3>2. StagedAt(t)' BY <1>1, <2>7, <3>1 DEF StagedAt
    <3> QED BY <1>1, <2>7, <2>8, <3>2, StagedOther, Small DEF Typed, Base
  <2>11. Room' BY <1>1, <2>7, RoomStays DEF Base
  <2> QED BY <2>8, <2>9, <2>10, <2>11 DEF Base
<1> QED BY <1>4, <1>5

LEMMA SaveParentBase ==
  ASSUME Base, NEW t \in Threads, SaveParent(t)
  PROVE  Base' /\ Steady(t)
<1> DEFINE p == req[t].parent
           n == req[t].node
<1>1. /\ pc[t] = "parent" /\ Store(p) /\ Number(t, maxIno + 1)
      /\ imap' = [imap EXCEPT ![maxIno] = n] /\ maxIno' = maxIno + 1
      /\ Goto(t, "super", [req[t] EXCEPT !.num = maxIno + 1])
      /\ Heap([heap EXCEPT ![n].refs = @ + 1])
      /\ UNCHANGED <<smax, known, torn, raced, orphans>>
      /\ Typed /\ req[t] \in Req /\ req[t].op \in Works /\ maxIno \in Inos \ {Root}
  BY DEF SaveParent, Number, Base, Typed, Staged, StagedAt, Works
<1>2. p \in Objs /\ p \in Pointers(imap, req) /\ n \in Objs /\ n \in Pointers(imap, req)
  BY <1>1, InUse
<1>3. files' \in [Uuids -> Node]
  BY <1>1, <1>2, DumpedNode DEF Store, Typed
<1>4. PICK h \in [Objs -> Slot] : h = [heap EXCEPT ![n].refs = @ + 1]
  <2>1. [heap EXCEPT ![n].refs = @ + 1] \in [Objs -> Slot]
    BY <1>1, <1>2 DEF Typed, Slot
  <2> QED BY <2>1
<1>5. Becomes(h) BY <1>1, <1>4, HeapIs
<1>6. \A o \in Objs :
        h[o].uuid = heap[o].uuid /\ h[o].own = heap[o].own /\ h[o].kind = heap[o].kind
  BY <1>1, <1>4 DEF Typed, Slot
<1>7. /\ Cardinality(Saving) \in Nat /\ Cardinality(Saving') = Cardinality(Saving) - 1
      /\ pc' \in [Threads -> Labels] /\ pc'[t] = "super"
      /\ req' \in [Threads -> Req] /\ req'[t] = [req[t] EXCEPT !.num = maxIno + 1]
      /\ \A s \in Threads \ {t} : pc'[s] = pc[s] /\ req'[s] = req[s]
  <2>1. maxIno + 1 \in Nat BY <1>1, Small
  <2>2. PICK r \in Req : r = [req[t] EXCEPT !.num = maxIno + 1]
    BY <1>1, <2>1 DEF Req
  <2>3. /\ pc' \in [Threads -> Labels] /\ pc'[t] = "super"
        /\ req' \in [Threads -> Req] /\ req'[t] = r
        /\ \A s \in Threads \ {t} : pc'[s] = pc[s] /\ req'[s] = req[s]
    BY <1>1, <2>2, GotoReq DEF Labels
  <2>4. IsFiniteSet(Saving) BY FS_Subset DEF Saving
  <2>5. Saving' = Saving \ {t} /\ t \in Saving BY <1>1, <2>3 DEF Saving
  <2> QED BY <2>2, <2>3, <2>4, <2>5, FS_RemoveElement, FS_CardinalityType
<1>8. /\ req'[t].op = req[t].op /\ req'[t].parent = p /\ req'[t].node = n
      /\ req'[t].num = maxIno + 1
  BY <1>1, <1>7 DEF Req
<1>9. maxIno' \in Inos \ {Root}
  <2>1. maxIno + Cardinality(Saving) <= MaxIno BY DEF Base, Room
  <2>2. Cardinality(Saving) >= 1
    <3>1. IsFiniteSet(Saving) /\ t \in Saving BY <1>1, FS_Subset DEF Saving
    <3>2. Cardinality(Saving) # 0 BY <3>1, FS_EmptySet
    <3> QED BY <1>7, <3>2
  <2> QED BY <1>1, <1>7, <2>1, <2>2 DEF Inos
<1>10. clash' \subseteq Inos BY <1>1 DEF Number, Typed
<1>11. imap' \in [Inos -> Objs \cup {None}] BY <1>1, <1>2 DEF Typed
<1>12. Typed' BY <1>1, <1>3, <1>5, <1>7, <1>9, <1>10, <1>11 DEF Typed, Becomes
<1>13. Held' /\ Steady(t)
  <2>1. \A o \in {req'[t].parent, req'[t].node} \cup {imap'[j] : j \in Inos} :
           o = None \/ (o \in Objs /\ o \in Pointers(imap, req))
    <3>1. \A j \in Inos : imap'[j] = n \/ imap'[j] = imap[j] BY <1>1 DEF Typed
    <3> QED BY <1>1, <1>2, <1>8, <3>1, PointersAre DEF Typed
  <2> QED BY <1>1, <1>5, <1>6, <1>7, <1>11, <2>1, SteadyStep DEF Base
<1>14. Staged'
  <2>1. StagedAt(t) BY DEF Staged, Base
  <2>2. req'[t].num \in 3..maxIno'
    <3>1. maxIno \in Nat /\ maxIno >= 2 BY <1>1 DEF Inos
    <3> QED BY <1>1, <1>8, <3>1
  <2>3. StagedAt(t)' BY <1>1, <1>7, <1>8, <2>1, <2>2 DEF StagedAt
  <2>4. maxIno <= maxIno' BY <1>1, Small
  <2> QED BY <1>1, <1>7, <1>12, <2>3, <2>4, StagedOther DEF Base
<1>15. Room'
  <2>1. maxIno + Cardinality(Saving) <= MaxIno BY DEF Base, Room
  <2> QED BY <1>1, <1>7, <2>1, Small DEF Room
<1> QED BY <1>12, <1>13, <1>14, <1>15 DEF Base

\* What a create makes.
Made(e) == [uuid |-> e.uuid, own |-> e.ino, kind |-> e.kind, ents |-> {}, refs |-> 0]

\* A create in terms of its entry e, the new object n and the heap h.
CreateAs(t, i, name, e, n, h) ==
  /\ e \in Dirent /\ n \in Objs /\ h \in [Objs -> Slot]
  /\ pc[t] = "idle" /\ Enters(t, i) /\ Alone(heap[imap[i]].uuid)
  /\ imap[i] \in Objs /\ imap[i] \in Pointers(imap, req)
  /\ e.ino = maxIno /\ e.uuid \notin UsedUuids /\ e.name = name
  /\ n \notin Pointers(imap, req) /\ n # imap[i]
  /\ \A d \in heap[imap[i]].ents : d.name # name
  /\ h[imap[i]] = [heap[imap[i]] EXCEPT !.ents = @ \cup {e}]
  /\ h[n] = Made(e)
  /\ \A o \in Objs \ {n, imap[i]} : h[o] = heap[o]
  /\ Becomes(h)
  /\ pc' \in [Threads -> Labels] /\ pc'[t] = "parent"
  /\ req' \in [Threads -> Req]
  /\ req'[t].op = "create" /\ req'[t].pino = i /\ req'[t].parent = imap[i]
  /\ req'[t].ent = e /\ req'[t].node = n
  /\ \A s \in Threads \ {t} : pc'[s] = pc[s] /\ req'[s] = req[s]
  /\ clash' = IF Creating = {} THEN clash
              ELSE clash \cup {maxIno} \cup {req[s].ent.ino : s \in Creating}
  /\ UNCHANGED <<imap, maxIno, files, smax, known, torn, raced, orphans>>
  /\ maxIno + Cardinality(Creating) < MaxIno

LEMMA CreateIs ==
  ASSUME Base, NEW t \in Threads, NEW i \in Inos, NEW name \in Names, NEW kind \in NewKinds,
         Create(t, i, name, kind)
  PROVE  \E e, n, h : CreateAs(t, i, name, e, n, h)
<1> DEFINE p == imap[i]
<1>1. PICK e : e = [name |-> name, ino |-> maxIno, kind |-> kind, uuid |-> NewUuid]
  OBVIOUS
<1>2. PICK n : n = NewObj OBVIOUS
<1>3. /\ Typed /\ n \in Objs /\ n \notin Pointers(imap, req)
  BY <1>2, NewObject DEF Base
<1>4. NewUuid \in Uuids /\ NewUuid \notin UsedUuids BY DEF NewUuid, Create
<1>5. e \in Dirent /\ e.ino = maxIno /\ e.uuid \notin UsedUuids /\ e.name = name /\ e.kind = kind
  BY <1>1, <1>3, <1>4 DEF Dirent, Typed, Kinds
<1>6. /\ Enters(t, i) /\ Alone(heap[p].uuid) /\ pc[t] = "idle" /\ p # None
      /\ \A d \in heap[p].ents : d.name # name
      /\ maxIno + Cardinality(Creating) < MaxIno
      /\ UNCHANGED <<imap, maxIno, files, smax, known, torn, raced, orphans>>
      /\ clash' = IF Creating = {} THEN clash
                  ELSE clash \cup {maxIno} \cup {req[s].ent.ino : s \in Creating}
  BY DEF Create, Enters, storage
<1>7. p \in Objs /\ p \in Pointers(imap, req) BY <1>3, <1>6, PointersAre DEF Typed
<1>8. /\ Goto(t, "parent", [NoReq EXCEPT !.op = "create", !.pino = i, !.parent = p,
                                         !.ent = e, !.node = n])
      /\ Heap([heap EXCEPT ![p].ents = @ \cup {e},
             ![n] = [uuid |-> e.uuid, own |-> maxIno, kind |-> kind, ents |-> {}, refs |-> 0]])
  BY <1>1, <1>2 DEF Create
<1>9. PICK r \in Req : r = [NoReq EXCEPT !.op = "create", !.pino = i, !.parent = p,
                                         !.ent = e, !.node = n]
  BY <1>3, <1>5, <1>7, Small DEF Req, NoReq, Works
<1>10. r.op = "create" /\ r.pino = i /\ r.parent = p /\ r.ent = e /\ r.node = n
  BY <1>3, <1>5, <1>7, <1>9, Small DEF Req, NoReq
<1>11. /\ pc' \in [Threads -> Labels] /\ pc'[t] = "parent"
       /\ req' \in [Threads -> Req] /\ req'[t] = r
       /\ \A s \in Threads \ {t} : pc'[s] = pc[s] /\ req'[s] = req[s]
  BY <1>3, <1>8, <1>9, GotoReq DEF Labels
<1>12. Made(e) \in Slot
  BY <1>5 DEF Made, Slot, Dirent
<1>13. [heap[p] EXCEPT !.ents = @ \cup {e}] \in Slot
  BY <1>3, <1>5, <1>7 DEF Typed, Slot
<1>14. PICK g : g = [heap EXCEPT ![p] = [heap[p] EXCEPT !.ents = @ \cup {e}], ![n] = Made(e)]
  OBVIOUS
<1>15. g \in [Objs -> Slot] BY <1>3, <1>7, <1>12, <1>13, <1>14 DEF Typed
<1>16. PICK h \in [Objs -> Slot] : h = g BY <1>15
<1>17. Heap(h)
  <2>1. Made(e) = [uuid |-> e.uuid, own |-> maxIno, kind |-> kind, ents |-> {}, refs |-> 0]
    BY <1>5 DEF Made
  <2> QED BY <1>8, <1>14, <1>16, <2>1
<1>18. /\ h[p] = [heap[p] EXCEPT !.ents = @ \cup {e}]
       /\ h[n] = Made(e)
       /\ \A o \in Objs \ {n, p} : h[o] = heap[o]
  BY <1>3, <1>7, <1>14, <1>16 DEF Typed
<1>19. Becomes(h) BY <1>17, HeapIs
<1>20. CreateAs(t, i, name, e, n, h)
  BY <1>3, <1>5, <1>6, <1>7, <1>10, <1>11, <1>18, <1>19 DEF CreateAs
<1> QED BY <1>20

LEMMA CreateBase ==
  ASSUME Base, NEW t \in Threads, NEW i \in Inos, NEW name \in Names, NEW kind \in NewKinds,
         Create(t, i, name, kind)
  PROVE  Base' /\ Steady(t)
<1>1. PICK e, n, h : CreateAs(t, i, name, e, n, h) BY CreateIs
<1> USE DEF CreateAs
<1>2. Typed /\ e.uuid \in Uuids /\ maxIno \in Inos BY <1>1 DEF Base, Typed, Dirent
<1>3. clash' \subseteq Inos
  <2>1. \A s \in Threads : req[s].ent.ino \in Inos BY InUse
  <2> QED BY <1>1, <1>2, <2>1 DEF Creating, Typed
<1>4. Typed' BY <1>1, <1>2, <1>3 DEF Typed, Becomes
<1>5. Held' /\ Steady(t)
  <2>1. \A o \in Objs : o \in Pointers(imap, req) =>
          h[o].uuid = heap[o].uuid /\ h[o].own = heap[o].own /\ h[o].kind = heap[o].kind
    <3>1. heap[imap[i]] \in Slot BY <1>1, <1>2 DEF Typed
    <3>2. h[imap[i]].uuid = heap[imap[i]].uuid /\ h[imap[i]].own = heap[imap[i]].own
          /\ h[imap[i]].kind = heap[imap[i]].kind
      BY <1>1, <3>1 DEF Slot
    <3> QED BY <1>1, <3>2
  <2>2. h[n].uuid # None /\ h[n].own # None BY <1>1, <1>2, Small DEF Made
  <2>3. \A o \in {req'[t].parent, req'[t].node} \cup {imap'[j] : j \in Inos} :
           o = None \/ o = n \/ (o \in Objs /\ o \in Pointers(imap, req))
    BY <1>1, <1>2, PointersAre DEF Typed
  <2> QED BY <1>1, <1>2, <2>1, <2>2, <2>3, SteadyStep DEF Base, Typed
<1>6. Staged'
  <2>1. StagedAt(t)' BY <1>1, Small DEF StagedAt, Works
  <2> QED BY <1>1, <1>2, <1>4, <2>1, StagedOther, Small DEF Base
<1>7. Room'
  <2>1. IsFiniteSet(Creating) /\ IsFiniteSet(Saving) BY FS_Subset DEF Creating, Saving
  <2>2. Saving \subseteq Creating BY DEF Saving, Creating, Base, Staged, StagedAt
  <2>3. Cardinality(Saving) \in Nat /\ Cardinality(Creating) \in Nat
        /\ Cardinality(Saving) <= Cardinality(Creating)
    BY <2>1, <2>2, FS_Subset, FS_CardinalityType
  <2>4. Saving' = Saving \cup {t} /\ t \notin Saving BY <1>1 DEF Saving
  <2>5. Cardinality(Saving \cup {t}) = Cardinality(Saving) + 1 BY <2>1, <2>4, FS_AddElement
  <2>6. maxIno' = maxIno /\ maxIno + Cardinality(Creating) < MaxIno BY <1>1
  <2> QED BY <1>2, <2>3, <2>4, <2>5, <2>6, Small DEF Room
<1> QED BY <1>4, <1>5, <1>6, <1>7 DEF Base

\* A mount: the root in memory and no requests.
LEMMA Mounted ==
  ASSUME files \in [Uuids -> Node], Stored(Root), smax \in Inos \ {Root}, maxIno = smax,
         heap = [o \in Objs |-> IF o = Root THEN Loaded(Root) ELSE Free],
         imap = [i \in Inos |-> IF i = Root THEN Root ELSE None],
         known = [i \in Inos |-> 0],
         pc = [t \in Threads |-> "idle"], req = [t \in Threads |-> NoReq],
         torn \subseteq Inos, clash \subseteq Inos, raced \subseteq Inos,
         orphans \subseteq Uuids
  PROVE  Base
<1>1. files[Root] \in Node /\ files[Root] # Absent BY Small DEF Stored
<1>2. files[Root] \in [own : Inos, kind : Kinds, ents : SUBSET Dirent]
  BY <1>1 DEF Node
<1>3. /\ Loaded(Root) \in Slot
      /\ Loaded(Root).uuid = Root /\ Loaded(Root).own \in Inos
  BY <1>2, Small DEF Loaded, Slot
<1>4. heap \in [Objs -> Slot] /\ imap \in [Inos -> Objs \cup {None}]
  BY <1>3, Small
<1>5. Typed BY <1>4, Small DEF Typed, Labels
<1>6. NoReq.op = "none" /\ NoReq.parent = None /\ NoReq.node = None BY DEF NoReq
<1>7. Held
  <2>1. \A o \in Pointers(imap, req) : o \in {Root, None}
    BY <1>5, <1>6, PointersAre
  <2> QED BY <1>3, <2>1, Small DEF Held
<1>8. Staged BY <1>6 DEF Staged, StagedAt, Works
<1>9. Room
  <2>1. Saving = {} BY DEF Saving
  <2>2. Cardinality(Saving) = 0 BY <2>1, FS_EmptySet
  <2> QED BY <2>2 DEF Room, Inos
<1> QED BY <1>5, <1>7, <1>8, <1>9 DEF Base

LEMMA InitBase ==
  ASSUME Init
  PROVE  Base
<1>1. /\ RootNode \in Node /\ [own |-> 2, kind |-> "dir", ents |-> {}] \in Node
      /\ RootNode # Absent
  BY Small DEF RootNode, Node, Kinds, Absent
<1>2. files \in [Uuids -> Node] /\ Stored(Root)
  BY <1>1, Small DEF Init, Stored
<1> QED BY <1>2, Mounted, Small DEF Init

LEMMA CrashBase ==
  ASSUME Base, Stored(Root), Crash
  PROVE  Base'
<1>1. torn' \subseteq Inos
  <2>1. \A s \in Threads : req[s].ent.ino \in Inos BY InUse
  <2> QED BY <2>1 DEF Crash, Base, Typed
<1>2. /\ UNCHANGED <<files, smax, clash, raced, orphans>> /\ maxIno' = smax
      /\ heap' = [o \in Objs |-> IF o = Root THEN Loaded(Root) ELSE Free]
      /\ imap' = [i \in Inos |-> IF i = Root THEN Root ELSE None]
      /\ known' = [i \in Inos |-> 0]
      /\ pc' = [t \in Threads |-> "idle"] /\ req' = [t \in Threads |-> NoReq]
  BY DEF Crash, storage
<1>3. files[Root] \in [own : Inos, kind : Kinds, ents : SUBSET Dirent]
  BY Small DEF Base, Typed, Node, Stored
<1>4. /\ Loaded(Root) \in Slot
      /\ Loaded(Root).uuid = Root /\ Loaded(Root).own \in Inos
  BY <1>3, Small DEF Loaded, Slot
<1>5. heap' \in [Objs -> Slot] /\ imap' \in [Inos -> Objs \cup {None}]
  BY <1>2, <1>4, Small
<1>6. Typed' BY <1>1, <1>2, <1>5, Small DEF Base, Typed, Labels
<1>7. NoReq.op = "none" /\ NoReq.parent = None /\ NoReq.node = None BY DEF NoReq
<1>8. Held'
  <2>1. \A o \in Pointers(imap', req') : o \in {Root, None}
    BY <1>2, <1>7, Small DEF Pointers, Range
  <2> QED BY <1>2, <1>4, <2>1, Small DEF Held
<1>9. Staged' BY <1>2, <1>7 DEF Staged, StagedAt, Works
<1>10. Room'
  <2>1. Saving' = {} BY <1>2 DEF Saving
  <2>2. Cardinality(Saving') = 0 BY <2>1, FS_EmptySet
  <2> QED BY <1>2, <2>2 DEF Room, Base, Typed, Inos
<1> QED BY <1>6, <1>8, <1>9, <1>10 DEF Base

-----------------------------------------------------------------------------
(* Shape: entries and nodes.                                               *)

\* The entry e is in the directory u: in its file, in an object or in a request.
In(u, e) ==
  \/ e \in files[u].ents
  \/ \E o \in Objs : heap[o].uuid = u /\ e \in heap[o].ents
  \/ \E t \in Threads : /\ req[t].op \in Works
                        /\ heap[req[t].parent].uuid = u /\ req[t].ent = e

\* The node u has the number i: in its file or in an object.
Owns(i, u) ==
  \/ Stored(u) /\ files[u].own = i
  \/ \E o \in Objs : heap[o].uuid = u /\ heap[o].own = i

\* The node u is of the kind k: in its file or in an object.
Kin(k, u) ==
  \/ Stored(u) /\ files[u].kind = k
  \/ \E o \in Objs : heap[o].uuid = u /\ heap[o].kind = k

\* A uuid is one entry's, in one directory, and it is neither the root's nor the
\* directory's own.  A node has one number, that of its entry, and one kind, and
\* only directories have entries.
OneHome ==
  \A u, v \in Uuids, d, e \in Dirent :
    In(u, d) /\ In(v, e) /\ d.uuid = e.uuid => u = v /\ d = e
NumberOfEntry ==
  \A u \in Uuids, e \in Dirent, i \in Inos : In(u, e) /\ Owns(i, e.uuid) => i = e.ino
OneNumber == \A u \in Uuids, i, j \in Inos : Owns(i, u) /\ Owns(j, u) => i = j
NotRoot ==
  \A u \in Uuids, e \in Dirent :
    In(u, e) => e.uuid # Root /\ e.ino # Root /\ e.uuid # u
OneKind == \A u \in Uuids, k, l \in Kinds : Kin(k, u) /\ Kin(l, u) => k = l
Leaf == \A u \in Uuids, e \in Dirent : In(u, e) => ~Kin("reg", u)
Tidy ==
  /\ OneHome /\ NumberOfEntry /\ OneNumber /\ NotRoot /\ Stored(Root)
  /\ OneKind /\ Leaf

\* Nothing gets an entry, a number or a kind.
Shrinks ==
  /\ \A u \in Uuids, e \in Dirent : In(u, e)' => In(u, e)
  /\ \A u \in Uuids, i \in Inos : Owns(i, u)' => Owns(i, u)
  /\ \A u \in Uuids, k \in Kinds : Kin(k, u)' => Kin(k, u)

LEMMA TidyShrinks ==
  ASSUME Tidy, Shrinks, Stored(Root)'
  PROVE  Tidy'
<1>1. OneHome' BY DEF Tidy, OneHome, Shrinks
<1>2. NumberOfEntry'
  BY DEF Tidy, NumberOfEntry, Shrinks, Dirent
<1>3. OneNumber' BY DEF Tidy, OneNumber, Shrinks
<1>4. NotRoot' BY DEF Tidy, NotRoot, Shrinks
<1>5. OneKind' BY DEF Tidy, OneKind, Shrinks
<1>6. Leaf' BY DEF Tidy, Leaf, Shrinks, Kinds
<1> QED BY <1>1, <1>2, <1>3, <1>4, <1>5, <1>6 DEF Tidy

\* What is where.
LEMMA InOwns ==
  ASSUME Typed
  PROVE  /\ \A u \in Uuids : \A e \in files[u].ents : In(u, e)
         /\ \A o \in Objs : \A e \in heap[o].ents : In(heap[o].uuid, e)
         /\ \A t \in Threads : req[t].op \in Works => In(heap[req[t].parent].uuid, req[t].ent)
         /\ \A u \in Uuids : Stored(u) => Owns(files[u].own, u)
         /\ \A o \in Objs : Owns(heap[o].own, heap[o].uuid)
         /\ \A u \in Uuids : Stored(u) => Kin(files[u].kind, u)
         /\ \A o \in Objs : Kin(heap[o].kind, heap[o].uuid)
BY DEF In, Owns, Kin

LEMMA Less ==
  ASSUME Base, Base', NEW t \in Threads, Steady(t), NEW h \in [Objs -> Slot], Becomes(h),
         \A u \in Uuids : \A e \in files'[u].ents : In(u, e),
         \A u \in Uuids : files'[u] # Absent =>
           Owns(files'[u].own, u) /\ Kin(files'[u].kind, u),
         \A o \in Objs : h[o].uuid # None =>
           /\ \A e \in h[o].ents : In(h[o].uuid, e)
           /\ h[o].own # None => Owns(h[o].own, h[o].uuid)
           /\ Kin(h[o].kind, h[o].uuid),
         req'[t].op \in Works => In(heap'[req'[t].parent].uuid, req'[t].ent)
  PROVE  Shrinks
<1>1. ASSUME NEW u \in Uuids, NEW e \in Dirent, In(u, e)' PROVE In(u, e)
  <2>1. CASE e \in files'[u].ents BY <2>1
  <2>2. CASE \E o \in Objs : heap'[o].uuid = u /\ e \in heap'[o].ents
    <3>1. PICK o \in Objs : heap'[o].uuid = u /\ e \in heap'[o].ents BY <2>2
    <3>2. heap'[o] = h[o] BY <3>1, Small DEF Becomes, Free
    <3> QED BY <3>1, <3>2, Small
  <2>3. CASE \E s \in Threads : /\ req'[s].op \in Works
                                /\ heap'[req'[s].parent].uuid = u /\ req'[s].ent = e
    <3>1. PICK s \in Threads : /\ req'[s].op \in Works
                               /\ heap'[req'[s].parent].uuid = u /\ req'[s].ent = e
      BY <2>3
    <3>2. CASE s = t BY <3>1, <3>2
    <3>3. CASE s # t
      <4>1. req'[s] = req[s] BY <3>3 DEF Steady
      <4>2. req[s].parent \in Objs /\ req[s].parent \in Pointers(imap, req)
        BY <3>1, <4>1, InUse
      <4>3. req'[s].parent \in Pointers(imap', req') BY DEF Pointers
      <4>4. heap'[req'[s].parent].uuid = heap[req[s].parent].uuid
        BY <4>1, <4>2, <4>3 DEF Steady
      <4> QED BY <3>1, <4>1, <4>4 DEF In
    <3> QED BY <3>2, <3>3
  <2> QED BY <1>1, <2>1, <2>2, <2>3 DEF In
<1>2. ASSUME NEW u \in Uuids, NEW i \in Inos, Owns(i, u)' PROVE Owns(i, u)
  <2>1. CASE files'[u] # Absent /\ files'[u].own = i BY <2>1
  <2>2. CASE \E o \in Objs : heap'[o].uuid = u /\ heap'[o].own = i
    <3>1. PICK o \in Objs : heap'[o].uuid = u /\ heap'[o].own = i BY <2>2
    <3>2. heap'[o] = h[o] BY <3>1, Small DEF Becomes, Free
    <3> QED BY <3>1, <3>2, Small
  <2> QED BY <1>2, <2>1, <2>2 DEF Owns, Stored
<1>3. ASSUME NEW u \in Uuids, NEW k \in Kinds, Kin(k, u)' PROVE Kin(k, u)
  <2>1. CASE files'[u] # Absent /\ files'[u].kind = k BY <2>1
  <2>2. CASE \E o \in Objs : heap'[o].uuid = u /\ heap'[o].kind = k
    <3>1. PICK o \in Objs : heap'[o].uuid = u /\ heap'[o].kind = k BY <2>2
    <3>2. heap'[o] = h[o] BY <3>1, Small DEF Becomes, Free
    <3> QED BY <3>1, <3>2, Small
  <2> QED BY <1>3, <2>1, <2>2 DEF Kin, Stored
<1> QED BY <1>1, <1>2, <1>3 DEF Shrinks

\* The case of a step that gives no object an entry.
LEMMA LessHeap ==
  ASSUME Base, Base', NEW t \in Threads, Steady(t), NEW h \in [Objs -> Slot], Becomes(h),
         \A u \in Uuids : \A e \in files'[u].ents : In(u, e),
         \A u \in Uuids : files'[u] # Absent =>
           Owns(files'[u].own, u) /\ Kin(files'[u].kind, u),
         \A o \in Objs : /\ h[o].uuid = heap[o].uuid /\ h[o].own = heap[o].own
                         /\ h[o].kind = heap[o].kind
                         /\ h[o].ents \subseteq heap[o].ents,
         req'[t].op \in Works => In(heap'[req'[t].parent].uuid, req'[t].ent)
  PROVE  Shrinks
<1>1. \A o \in Objs : h[o].uuid # None =>
           /\ \A e \in h[o].ents : In(h[o].uuid, e)
           /\ h[o].own # None => Owns(h[o].own, h[o].uuid)
           /\ Kin(h[o].kind, h[o].uuid)
  BY InOwns DEF Base
<1> QED BY <1>1, Less

LEMMA StoreIs ==
  ASSUME Base, NEW o \in Objs, o \in Pointers(imap, req), Store(o)
  PROVE  /\ \A u \in Uuids : u = heap[o].uuid =>
              /\ files'[u] # Absent /\ files'[u].own = heap[o].own
              /\ files'[u].ents = heap[o].ents /\ files'[u].kind = heap[o].kind
         /\ \A u \in Uuids : u # heap[o].uuid => files'[u] = files[u]
         /\ \A u \in Uuids : \A e \in files'[u].ents : In(u, e)
         /\ \A u \in Uuids : files'[u] # Absent =>
              Owns(files'[u].own, u) /\ Kin(files'[u].kind, u)
         /\ \A u \in Uuids : files[u] # Absent => files'[u] # Absent
<1>1. \A u \in Uuids : files'[u] = IF u = heap[o].uuid THEN Dumped(heap[o]) ELSE files[u]
  BY DEF Store, Base, Typed
<1>2. /\ Dumped(heap[o]) # Absent /\ Dumped(heap[o]).own = heap[o].own
      /\ Dumped(heap[o]).ents = heap[o].ents /\ Dumped(heap[o]).kind = heap[o].kind
  BY DumpedNode DEF Dumped
<1>3. \A u \in Uuids : u = heap[o].uuid =>
        /\ files'[u] # Absent /\ files'[u].own = heap[o].own
        /\ files'[u].ents = heap[o].ents /\ files'[u].kind = heap[o].kind
  BY <1>1, <1>2
<1>4. \A u \in Uuids : u # heap[o].uuid => files'[u] = files[u] BY <1>1
<1>5. ASSUME NEW u \in Uuids
      PROVE  /\ \A e \in files'[u].ents : In(u, e)
             /\ files'[u] # Absent => Owns(files'[u].own, u) /\ Kin(files'[u].kind, u)
  <2>1. CASE u = heap[o].uuid BY <1>3, <2>1, InOwns DEF Base
  <2>2. CASE u # heap[o].uuid BY <1>4, <2>2, InOwns DEF Base, Stored
  <2> QED BY <2>1, <2>2
<1>6. \A u \in Uuids : files[u] # Absent => files'[u] # Absent BY <1>3, <1>4
<1> QED BY <1>3, <1>4, <1>5, <1>6

-----------------------------------------------------------------------------
(* What each step does, field by field.                                    *)

\* t goes on at l, the others stay where they are.
Goes(t, l) ==
  /\ pc' \in [Threads -> Labels] /\ pc'[t] = l /\ req' \in [Threads -> Req]
  /\ \A s \in Threads \ {t} : pc'[s] = pc[s] /\ req'[s] = req[s]

Returns(t) ==
  /\ Goes(t, "idle") /\ req'[t].op = "none"
  /\ req'[t].parent = None /\ req'[t].node = None

LEMMA ReturnIs ==
  ASSUME Typed, NEW t \in Threads, Return(t)
  PROVE  Returns(t) /\ req'[t] = NoReq
<1>1. /\ pc' \in [Threads -> Labels] /\ pc'[t] = "idle"
      /\ req' \in [Threads -> Req] /\ req'[t] = NoReq
      /\ \A s \in Threads \ {t} : pc'[s] = pc[s] /\ req'[s] = req[s]
  BY GotoReq, Small DEF Labels, Return
<1> QED BY <1>1 DEF Returns, Goes, NoReq

LookupAs(t, i, e) ==
  /\ pc[t] = "idle" /\ Enters(t, i) /\ i \in Inos
  /\ imap[i] \in Objs /\ imap[i] \in Pointers(imap, req)
  /\ e \in Dirent /\ e \in heap[imap[i]].ents
  /\ \A s \in Threads :
       heap[imap[i]].uuid \in Locked(s) => req[s].op = "lookup" /\ req[s].ent.name # e.name
  /\ Goes(t, IF imap[e.ino] = None THEN "load" ELSE "found")
  /\ req'[t].op = "lookup" /\ req'[t].pino = i /\ req'[t].parent = imap[i]
  /\ req'[t].ent = e /\ req'[t].node = imap[e.ino]
  /\ UNCHANGED <<files, smax, heap, imap, maxIno, known, torn, clash, raced, orphans>>

LEMMA LookupIs ==
  ASSUME Base, NEW t \in Threads, NEW i \in Inos, Lookup(t, i)
  PROVE  \E e : LookupAs(t, i, e)
<1>1. PICK e \in heap[imap[i]].ents :
        /\ \A s \in Threads :
             heap[imap[i]].uuid \in Locked(s) => req[s].op = "lookup" /\ req[s].ent.name # e.name
        /\ Goto(t, IF imap[e.ino] = None THEN "load" ELSE "found",
             [NoReq EXCEPT !.op = "lookup", !.pino = i, !.parent = imap[i],
                           !.ent = e, !.node = imap[e.ino]])
  BY DEF Lookup
<1>2. /\ imap[i] \in Objs /\ e \in Dirent /\ e.ino \in Inos /\ imap[i] \in Pointers(imap, req)
      /\ imap[e.ino] \in Objs \cup {None} /\ pc[t] = "idle" /\ Enters(t, i)
  <2>1. imap[i] \in Objs BY DEF Lookup, Enters, Base, Typed
  <2>2. e \in Dirent BY <2>1 DEF Base, Typed, Slot
  <2> QED BY <2>1, <2>2, PointersAre DEF Lookup, Enters, Base, Typed, Dirent
<1>3. PICK r \in Req : r = [NoReq EXCEPT !.op = "lookup", !.pino = i, !.parent = imap[i],
                                         !.ent = e, !.node = imap[e.ino]]
  BY <1>2, Small DEF Req, NoReq, Works
<1>4. PICK l \in Labels : l = IF imap[e.ino] = None THEN "load" ELSE "found"
  BY DEF Labels
<1>5. Goto(t, l, r) BY <1>1, <1>3, <1>4
<1>6. Goes(t, l) /\ req'[t] = r BY <1>5, GotoReq DEF Base, Goes
<1>7. /\ r.op = "lookup" /\ r.pino = i /\ r.parent = imap[i] /\ r.ent = e
      /\ r.node = imap[e.ino]
  BY <1>2, <1>3, Small DEF Req, NoReq
<1>8. UNCHANGED <<files, smax, heap, imap, maxIno, known, torn, clash, raced, orphans>>
  BY DEF Lookup, memory, storage, history
<1>9. LookupAs(t, i, e) BY <1>1, <1>2, <1>4, <1>6, <1>7, <1>8 DEF LookupAs
<1> QED BY <1>9

BeginForgetAs(t, i) ==
  /\ pc[t] = "idle" /\ i \in Inos /\ i # Root /\ known[i] > 0
  /\ \A s \in Threads : req[s].op \in Works => req[s].pino # i
  /\ Goes(t, "forget")
  /\ req'[t].op = "forget" /\ req'[t].pino = i /\ req'[t].num = known[i]
  /\ req'[t].parent = None /\ req'[t].node = None
  /\ known' = [known EXCEPT ![i] = 0]
  /\ UNCHANGED <<files, smax, heap, imap, maxIno, torn, clash, raced, orphans>>

LEMMA BeginForgetIs ==
  ASSUME Base, NEW t \in Threads, NEW i \in Inos, BeginForget(t, i)
  PROVE  BeginForgetAs(t, i)
<1>1. PICK r \in Req : r = [NoReq EXCEPT !.op = "forget", !.pino = i, !.num = known[i]]
  BY Small DEF Req, NoReq, Base, Typed
<1>2. Goto(t, "forget", r) BY <1>1 DEF BeginForget
<1>3. Goes(t, "forget") /\ req'[t] = r
  BY <1>2, GotoReq DEF Labels, Base, Goes
<1>4. /\ UNCHANGED <<files, smax, heap, imap, maxIno, torn, clash, raced, orphans>>
      /\ known' = [known EXCEPT ![i] = 0] /\ pc[t] = "idle" /\ i # Root /\ known[i] > 0
      /\ \A s \in Threads : req[s].op \in Works => req[s].pino # i
  BY DEF BeginForget, memory, storage, history, Works
<1>5. /\ r.op = "forget" /\ r.parent = None /\ r.node = None /\ r.pino = i
      /\ r.num = known[i]
  BY <1>1, Small DEF Req, NoReq
<1> QED BY <1>3, <1>4, <1>5 DEF BeginForgetAs

RemoveAs(t, i, e) ==
  /\ pc[t] = "idle" /\ Enters(t, i) /\ i \in Inos
  /\ Alone(heap[imap[i]].uuid) /\ Alone(e.uuid)
  /\ imap[i] \in Objs /\ imap[i] \in Pointers(imap, req)
  /\ e \in Dirent /\ e \in heap[imap[i]].ents
  /\ Stored(e.uuid) /\ files[e.uuid].ents = {}
  /\ Goes(t, "unstore")
  /\ req'[t].op = "remove" /\ req'[t].pino = i /\ req'[t].parent = imap[i]
  /\ req'[t].ent = e /\ req'[t].node = None
  /\ UNCHANGED <<files, smax, heap, imap, maxIno, known, torn, clash, raced, orphans>>

LEMMA RemoveIs ==
  ASSUME Base, NEW t \in Threads, NEW i \in Inos, Remove(t, i)
  PROVE  \E e : RemoveAs(t, i, e)
<1>1. PICK e \in heap[imap[i]].ents :
        /\ Alone(e.uuid) /\ files[e.uuid] # Absent /\ files[e.uuid].ents = {}
        /\ Goto(t, "unstore", [NoReq EXCEPT !.op = "remove", !.pino = i,
                                            !.parent = imap[i], !.ent = e])
  BY DEF Remove
<1>2. /\ imap[i] \in Objs /\ e \in Dirent /\ pc[t] = "idle" /\ imap[i] \in Pointers(imap, req)
      /\ Enters(t, i) /\ Alone(heap[imap[i]].uuid)
  <2>1. imap[i] \in Objs BY DEF Remove, Enters, Base, Typed
  <2>2. e \in Dirent BY <2>1 DEF Base, Typed, Slot
  <2> QED BY <2>1, <2>2, PointersAre DEF Remove, Enters, Base
<1>3. PICK r \in Req : r = [NoReq EXCEPT !.op = "remove", !.pino = i,
                                         !.parent = imap[i], !.ent = e]
  BY <1>2, Small DEF Req, NoReq, Works
<1>4. Goto(t, "unstore", r) BY <1>1, <1>3
<1>5. Goes(t, "unstore") /\ req'[t] = r
  BY <1>4, GotoReq DEF Labels, Base, Goes
<1>6. UNCHANGED <<files, smax, heap, imap, maxIno, known, torn, clash, raced, orphans>>
  BY DEF Remove, memory, storage, history
<1>7. r.op = "remove" /\ r.pino = i /\ r.parent = imap[i] /\ r.node = None /\ r.ent = e
  BY <1>2, <1>3, Small DEF Req, NoReq
<1>8. RemoveAs(t, i, e) BY <1>1, <1>2, <1>5, <1>6, <1>7 DEF RemoveAs, Stored
<1> QED BY <1>8

SaveSuperAs(t) ==
  /\ pc[t] = "super" /\ Goes(t, "node") /\ req'[t] = req[t] /\ smax' = req[t].num
  /\ UNCHANGED <<files, heap, imap, maxIno, known, torn, clash, raced, orphans>>

LEMMA SaveSuperIs ==
  ASSUME Base, NEW t \in Threads, SaveSuper(t)
  PROVE  SaveSuperAs(t)
<1>1. req[t] \in Req /\ Goto(t, "node", req[t]) /\ pc[t] = "super"
  BY DEF SaveSuper, Base, Typed
<1>2. Goes(t, "node") /\ req'[t] = req[t]
  BY <1>1, GotoReq DEF Labels, Base, Goes
<1> QED BY <1>1, <1>2 DEF SaveSuperAs, SaveSuper, memory, history

\* A load that finds no file, and one that makes the object n.
LoadFails(t) ==
  /\ pc[t] = "load" /\ ~Stored(req[t].ent.uuid) /\ Returns(t) /\ Becomes(heap)
  /\ UNCHANGED <<files, smax, imap, maxIno, known, torn, clash, raced, orphans>>
LoadAs(t, n, h) ==
  LET e == req[t].ent IN
  /\ pc[t] = "load" /\ Stored(e.uuid)
  /\ n \in Objs /\ n \notin Pointers(imap, req) /\ h \in [Objs -> Slot] /\ Becomes(h)
  /\ h[n] = Loaded(e.uuid) /\ \A o \in Objs \ {n} : h[o] = heap[o]
  /\ imap' = [imap EXCEPT ![e.ino] = n]
  /\ Goes(t, "found")
  /\ req'[t].op = req[t].op /\ req'[t].pino = req[t].pino /\ req'[t].parent = req[t].parent
  /\ req'[t].ent = req[t].ent /\ req'[t].node = n
  /\ UNCHANGED <<files, smax, maxIno, known, torn, clash, raced, orphans>>

LEMMA LoadIs ==
  ASSUME Base, NEW t \in Threads, Load(t)
  PROVE  LoadFails(t) \/ \E n, h : LoadAs(t, n, h)
<1> DEFINE e == req[t].ent
<1>1. /\ pc[t] = "load" /\ e.ino \in Inos /\ e.uuid \in Uuids
      /\ UNCHANGED <<maxIno, files, smax, known, torn, clash, raced, orphans>>
      /\ Typed
  BY InUse DEF Load, storage, history, Base
<1>2. PICK h \in [Objs -> Slot] : h = [heap EXCEPT ![NewObj] = Loaded(e.uuid)]
  BY <1>1, LoadedSlot DEF Typed
<1>3. Becomes(h) /\ Heap(h) BY <1>2, HeapIs DEF Load
<1>4. NewObj \in Objs /\ NewObj \notin Pointers(imap, req) BY <1>1, NewObject
<1>5. \A o \in Objs \ {NewObj} : h[o] = heap[o]
  BY <1>1, <1>2 DEF Typed
<1>6. CASE files[e.uuid] = Absent
  <2>1. Return(t) /\ UNCHANGED imap BY <1>6 DEF Load
  <2>2. Returns(t) /\ req'[t] = NoReq BY <1>1, <2>1, ReturnIs
  <2>3. NewObj \notin Pointers(imap', req')
    <3>1. NoReq.parent = None /\ NoReq.node = None BY DEF NoReq
    <3>2. \A s \in Threads \ {t} : req'[s] = req[s] BY <2>2 DEF Returns, Goes
    <3>3. imap' \in [Inos -> Objs \cup {None}] BY <1>1, <2>1 DEF Typed
    <3> QED BY <1>1, <1>4, <2>1, <2>2, <3>1, <3>2, <3>3, NewPointers, PointersAre, Small
  <2>4. Becomes(heap)
    <3>1. \A o \in Objs : heap'[o] = IF o \in Pointers(imap', req') THEN h[o] ELSE Free
      BY <1>3 DEF Heap
    <3> QED BY <1>3, <1>5, <2>3, <3>1 DEF Becomes
  <2>5. LoadFails(t) BY <1>1, <1>6, <2>1, <2>2, <2>4 DEF LoadFails, Stored
  <2> QED BY <2>5
<1>7. CASE files[e.uuid] # Absent
  <2>1. /\ imap' = [imap EXCEPT ![e.ino] = NewObj]
        /\ Goto(t, "found", [req[t] EXCEPT !.node = NewObj])
    BY <1>7 DEF Load
  <2>2. PICK r \in Req : r = [req[t] EXCEPT !.node = NewObj]
    BY <1>1, <1>4 DEF Typed, Req
  <2>3. Goto(t, "found", r) BY <2>1, <2>2
  <2>4. Goes(t, "found") /\ req'[t] = r BY <1>1, <2>3, GotoReq DEF Labels, Goes
  <2>5. /\ r.op = req[t].op /\ r.parent = req[t].parent /\ r.node = NewObj
        /\ r.ent = req[t].ent /\ r.pino = req[t].pino
    BY <1>1, <2>2 DEF Typed, Req
  <2>6. h[NewObj] = Loaded(e.uuid) BY <1>1, <1>2, <1>4 DEF Typed
  <2>7. LoadAs(t, NewObj, h)
    BY <1>1, <1>3, <1>4, <1>5, <1>7, <2>1, <2>4, <2>5, <2>6 DEF LoadAs, Stored
  <2> QED BY <2>7
<1> QED BY <1>6, <1>7

\* The count of o is n in h, which is else the heap.
Rewrites(h, o, n) ==
  /\ o \in Objs /\ h \in [Objs -> Slot] /\ Becomes(h)
  /\ h[o].refs = n /\ \A p \in Objs \ {o} : h[p] = heap[p]
  /\ \A p \in Objs : /\ h[p].uuid = heap[p].uuid /\ h[p].own = heap[p].own
                      /\ h[p].kind = heap[p].kind /\ h[p].ents = heap[p].ents

LEMMA RewritesIs ==
  ASSUME Typed, NEW o \in Objs, NEW n \in Nat, Heap([heap EXCEPT ![o].refs = n])
  PROVE  \E h : Rewrites(h, o, n)
<1>1. PICK h \in [Objs -> Slot] : h = [heap EXCEPT ![o].refs = n] BY Recounted
<1>2. Becomes(h) BY <1>1, HeapIs
<1>3. h[o].refs = n /\ \A p \in Objs \ {o} : h[p] = heap[p]
  BY <1>1 DEF Typed, Slot
<1>4. \A p \in Objs : /\ h[p].uuid = heap[p].uuid /\ h[p].own = heap[p].own
                      /\ h[p].kind = heap[p].kind /\ h[p].ents = heap[p].ents
  BY <1>1 DEF Typed, Slot
<1>5. Rewrites(h, o, n) BY <1>2, <1>3, <1>4 DEF Rewrites
<1> QED BY <1>5

\* A lookup that finds another node, and one that reads its count and writes it.
FoundFails(t) ==
  /\ pc[t] = "found" /\ heap[req[t].node].own # req[t].ent.ino
  /\ Returns(t) /\ Becomes(heap)
  /\ UNCHANGED <<files, smax, imap, maxIno, known, torn, clash, raced, orphans>>
FoundAs(t) ==
  LET o == req[t].node IN
  /\ pc[t] = "found" /\ heap[o].own = req[t].ent.ino /\ Goes(t, "count")
  /\ req'[t].op = req[t].op /\ req'[t].pino = req[t].pino /\ req'[t].parent = req[t].parent
  /\ req'[t].ent = req[t].ent /\ req'[t].node = o /\ req'[t].num = req[t].num
  /\ req'[t].count = heap[o].refs /\ Becomes(heap)
  /\ UNCHANGED <<files, smax, imap, maxIno, known, torn, clash, raced, orphans>>
CountAs(t, h) ==
  LET i == req[t].ent.ino
      o == req[t].node IN
  /\ pc[t] = "count" /\ Returns(t) /\ Rewrites(h, o, req[t].count + 1)
  /\ known' = [known EXCEPT ![i] = @ + 1]
  /\ raced' = IF Undisturbed(t, i, o) THEN raced ELSE raced \cup {i}
  /\ UNCHANGED <<files, smax, imap, maxIno, torn, clash, orphans>>

LEMMA FoundIs ==
  ASSUME Base, NEW t \in Threads, Found(t)
  PROVE  FoundFails(t) \/ FoundAs(t)
<1> DEFINE o == req[t].node
<1>1. /\ pc[t] = "found" /\ o \in Objs /\ Typed /\ Becomes(heap)
      /\ UNCHANGED <<files, smax, imap, maxIno, known, torn, clash, raced, orphans>>
  BY InUse, HeapIs DEF Found, storage, history, Base, Typed
<1>2. CASE heap[o].own # req[t].ent.ino
  <2>1. Return(t) BY <1>2 DEF Found
  <2>2. Returns(t) BY <1>1, <2>1, ReturnIs
  <2> QED BY <1>1, <1>2, <2>2 DEF FoundFails
<1>3. CASE heap[o].own = req[t].ent.ino
  <2>1. Goto(t, "count", [req[t] EXCEPT !.count = heap[o].refs]) BY <1>3 DEF Found
  <2>2. PICK r \in Req : r = [req[t] EXCEPT !.count = heap[o].refs]
    BY <1>1 DEF Typed, Req, Slot
  <2>3. /\ r.op = req[t].op /\ r.pino = req[t].pino /\ r.parent = req[t].parent
        /\ r.ent = req[t].ent /\ r.node = o /\ r.num = req[t].num
        /\ r.count = heap[o].refs
    BY <1>1, <2>2 DEF Typed, Req
  <2>4. Goto(t, "count", r) BY <2>1, <2>2
  <2>5. Goes(t, "count") /\ req'[t] = r BY <1>1, <2>4, GotoReq DEF Labels, Goes
  <2> QED BY <1>1, <1>3, <2>3, <2>5 DEF FoundAs
<1> QED BY <1>2, <1>3

LEMMA CountIs ==
  ASSUME Base, NEW t \in Threads, Count(t)
  PROVE  \E h : CountAs(t, h)
<1> DEFINE o == req[t].node
           n == req[t].count + 1
<1>1. /\ pc[t] = "count" /\ o \in Objs /\ Typed /\ n \in Nat /\ Returns(t)
      /\ Heap([heap EXCEPT ![o].refs = n])
      /\ UNCHANGED <<files, smax, imap, maxIno, torn, clash, orphans>>
  BY InUse, ReturnIs DEF Count, storage, Base, Typed, Req
<1>2. PICK h : Rewrites(h, o, n) BY <1>1, RewritesIs
<1>3. CountAs(t, h) BY <1>1, <1>2 DEF Count, CountAs
<1> QED BY <1>3

\* A forget that finds nothing, and one that reads the count of an object and then
\* takes it out of inode_map or writes its count.
ForgetNone(t) ==
  /\ pc[t] = "forget" /\ imap[req[t].pino] = None /\ Returns(t) /\ Becomes(heap)
  /\ UNCHANGED <<files, smax, imap, maxIno, known, torn, clash, raced, orphans>>
ForgetAs(t) ==
  LET o == imap[req[t].pino] IN
  /\ pc[t] = "forget" /\ o \in Objs /\ Goes(t, "drop")
  /\ req'[t].op = req[t].op /\ req'[t].pino = req[t].pino /\ req'[t].parent = req[t].parent
  /\ req'[t].ent = req[t].ent /\ req'[t].node = o /\ req'[t].num = req[t].num
  /\ req'[t].count = heap[o].refs /\ Becomes(heap)
  /\ UNCHANGED <<files, smax, imap, maxIno, known, torn, clash, raced, orphans>>
DropGone(t) ==
  LET i == req[t].pino IN
  /\ pc[t] = "drop" /\ req[t].count <= req[t].num /\ Returns(t) /\ Becomes(heap)
  /\ imap' = [imap EXCEPT ![i] = None]
  /\ raced' = IF Undisturbed(t, i, req[t].node) THEN raced ELSE raced \cup {i}
  /\ UNCHANGED <<files, smax, maxIno, known, torn, clash, orphans>>
DropAs(t, h) ==
  LET i == req[t].pino
      o == req[t].node IN
  /\ pc[t] = "drop" /\ req[t].count > req[t].num /\ Returns(t)
  /\ Rewrites(h, o, req[t].count - req[t].num)
  /\ raced' = IF Undisturbed(t, i, o) THEN raced ELSE raced \cup {i}
  /\ UNCHANGED <<files, smax, imap, maxIno, known, torn, clash, orphans>>

LEMMA ForgetIs ==
  ASSUME Base, NEW t \in Threads, Forget(t)
  PROVE  ForgetNone(t) \/ ForgetAs(t)
<1> DEFINE o == imap[req[t].pino]
<1>1. /\ pc[t] = "forget" /\ o \in Objs \cup {None} /\ Typed /\ Becomes(heap)
      /\ UNCHANGED <<files, smax, imap, maxIno, known, torn, clash, raced, orphans>>
  BY HeapIs DEF Forget, storage, history, Base, Typed, Req
<1>2. CASE o = None
  <2>1. Return(t) BY <1>2 DEF Forget
  <2>2. Returns(t) BY <1>1, <2>1, ReturnIs
  <2> QED BY <1>1, <1>2, <2>2 DEF ForgetNone
<1>3. CASE o # None
  <2>1. Goto(t, "drop", [req[t] EXCEPT !.node = o, !.count = heap[o].refs])
    BY <1>3 DEF Forget
  <2>0. req[t] \in Req /\ o \in Objs /\ heap[o].refs \in Nat
    BY <1>1, <1>3 DEF Typed, Slot
  <2>2. PICK r \in Req : r = [req[t] EXCEPT !.node = o, !.count = heap[o].refs]
    BY <2>0 DEF Req
  <2>3. /\ r.op = req[t].op /\ r.pino = req[t].pino /\ r.parent = req[t].parent
        /\ r.ent = req[t].ent /\ r.node = o /\ r.num = req[t].num
        /\ r.count = heap[o].refs
    BY <1>1, <2>2 DEF Typed, Req
  <2>4. Goto(t, "drop", r) BY <2>1, <2>2
  <2>5. Goes(t, "drop") /\ req'[t] = r BY <1>1, <2>4, GotoReq DEF Labels, Goes
  <2> QED BY <1>1, <1>3, <2>3, <2>5 DEF ForgetAs
<1> QED BY <1>2, <1>3

LEMMA DropIs ==
  ASSUME Base, NEW t \in Threads, Drop(t)
  PROVE  DropGone(t) \/ \E h : DropAs(t, h)
<1> DEFINE o == req[t].node
           gone == req[t].count <= req[t].num
<1>1. /\ pc[t] = "drop" /\ o \in Objs /\ Typed /\ Returns(t)
      /\ req[t].num \in Nat /\ req[t].count \in Nat
      /\ UNCHANGED <<files, smax, maxIno, known, torn, clash, orphans>>
  BY InUse, ReturnIs DEF Drop, storage, Base, Typed, Req
<1>2. CASE gone
  <2>1. Heap(heap) /\ imap' = [imap EXCEPT ![req[t].pino] = None] BY <1>2 DEF Drop
  <2>2. Becomes(heap) BY <1>1, <2>1, HeapIs DEF Typed
  <2> QED BY <1>1, <1>2, <2>1, <2>2 DEF Drop, DropGone
<1>3. CASE ~gone
  <2>1. PICK n \in Nat : n = req[t].count - req[t].num BY <1>1, <1>3
  <2>2. Heap([heap EXCEPT ![o].refs = n]) /\ UNCHANGED imap BY <1>3, <2>1 DEF Drop
  <2>3. PICK h : Rewrites(h, o, n) BY <1>1, <2>2, RewritesIs
  <2>4. req[t].count > req[t].num BY <1>1, <1>3
  <2>5. DropAs(t, h) BY <1>1, <2>1, <2>2, <2>3, <2>4 DEF Drop, DropAs
  <2> QED BY <2>5
<1> QED BY <1>2, <1>3

\* A flush of a file saves its node, whatever has become of its entry.
FlushAs(t, i) ==
  LET o == imap[i] IN
  /\ pc[t] = "idle" /\ i \in Inos /\ known[i] > 0
  /\ o \in Objs /\ o \in Pointers(imap, req) /\ heap[o].kind = "reg"
  /\ Store(o) /\ Becomes(heap)
  /\ orphans' = orphans \cup {u \in {heap[o].uuid} : files[u] = Absent}
  /\ clash' = clash \cup {req[s].ent.ino : s \in {r \in Creating : req[r].node = o}}
  /\ UNCHANGED <<smax, heap, imap, maxIno, known, pc, req, torn, raced>>

LEMMA FlushIs ==
  ASSUME Base, NEW t \in Threads, NEW i \in Inos, Flush(t, i)
  PROVE  FlushAs(t, i)
BY PointersAre, HeapStays DEF Flush, FlushAs, memory, Base, Typed

SaveParentAs(t, h) ==
  LET n == req[t].node IN
  /\ pc[t] = "parent" /\ Store(req[t].parent) /\ Goes(t, "super")
  /\ req'[t].op = req[t].op /\ req'[t].pino = req[t].pino /\ req'[t].parent = req[t].parent
  /\ req'[t].ent = req[t].ent /\ req'[t].node = n /\ req'[t].num = maxIno + 1
  /\ imap' = [imap EXCEPT ![maxIno] = n] /\ maxIno' = maxIno + 1
  /\ h \in [Objs -> Slot] /\ Becomes(h)
  /\ h[n] = [heap[n] EXCEPT !.refs = @ + 1] /\ \A o \in Objs \ {n} : h[o] = heap[o]
  /\ clash' = IF maxIno = req[t].ent.ino THEN clash ELSE clash \cup {maxIno}
  /\ UNCHANGED <<smax, known, torn, raced, orphans>>

LEMMA SaveParentIs ==
  ASSUME Base, NEW t \in Threads, SaveParent(t)
  PROVE  \E h : SaveParentAs(t, h)
<1> DEFINE n == req[t].node
<1>1. /\ pc[t] = "parent" /\ Store(req[t].parent)
      /\ imap' = [imap EXCEPT ![maxIno] = n] /\ maxIno' = maxIno + 1
      /\ Goto(t, "super", [req[t] EXCEPT !.num = maxIno + 1])
      /\ Heap([heap EXCEPT ![n].refs = @ + 1])
      /\ UNCHANGED <<smax, known, torn, raced, orphans>>
      /\ clash' = IF maxIno = req[t].ent.ino THEN clash ELSE clash \cup {maxIno}
  BY DEF SaveParent, Number
<1>2. n \in Objs /\ Typed /\ req[t] \in Req /\ maxIno \in Nat
  BY <1>1, InUse, Small DEF Base, Typed
<1>3. [heap EXCEPT ![n].refs = @ + 1] \in [Objs -> Slot] BY <1>2 DEF Typed, Slot
<1>4. PICK h \in [Objs -> Slot] : h = [heap EXCEPT ![n].refs = @ + 1] BY <1>3
<1>5. Becomes(h) BY <1>1, <1>4, HeapIs
<1>6. h[n] = [heap[n] EXCEPT !.refs = @ + 1] /\ \A o \in Objs \ {n} : h[o] = heap[o]
  BY <1>2, <1>4 DEF Typed
<1>7. maxIno + 1 \in Nat BY <1>2
<1>8. PICK r \in Req : r = [req[t] EXCEPT !.num = maxIno + 1] BY <1>2, <1>7 DEF Req
<1>9. Goes(t, "super") /\ req'[t] = r BY <1>1, <1>2, <1>8, GotoReq DEF Labels, Goes
<1>10. /\ r.op = req[t].op /\ r.pino = req[t].pino /\ r.parent = req[t].parent
       /\ r.ent = req[t].ent /\ r.node = n /\ r.num = maxIno + 1
  BY <1>2, <1>8 DEF Req
<1>11. SaveParentAs(t, h) BY <1>1, <1>5, <1>6, <1>9, <1>10 DEF SaveParentAs
<1> QED BY <1>11

SaveNodeAs(t) ==
  /\ pc[t] = "node" /\ Returns(t) /\ Becomes(heap) /\ Store(req[t].node)
  /\ known' = [known EXCEPT ![Replied(t)] = @ + 1]
  /\ UNCHANGED <<smax, imap, maxIno, torn, clash, raced, orphans>>

LEMMA SaveNodeIs ==
  ASSUME Base, NEW t \in Threads, SaveNode(t)
  PROVE  SaveNodeAs(t)
BY ReturnIs, HeapIs DEF SaveNode, SaveNodeAs, history, Base, Typed

SaveRemovedAs(t) ==
  /\ pc[t] = "unlink" /\ Returns(t) /\ Becomes(heap) /\ Store(req[t].parent)
  /\ UNCHANGED <<smax, imap, maxIno, known, torn, clash, raced, orphans>>

LEMMA SaveRemovedIs ==
  ASSUME Base, NEW t \in Threads, SaveRemoved(t)
  PROVE  SaveRemovedAs(t)
BY ReturnIs, HeapIs DEF SaveRemoved, SaveRemovedAs, history, Base, Typed

\* A removal that finds no file, and one that erases the entry.
RemoveNodeFails(t) ==
  /\ pc[t] = "unstore" /\ ~Stored(req[t].ent.uuid) /\ Returns(t) /\ Becomes(heap)
  /\ UNCHANGED <<files, smax, imap, maxIno, known, torn, clash, raced, orphans>>
RemoveNodeAs(t, h) ==
  LET e == req[t].ent
      p == req[t].parent IN
  /\ pc[t] = "unstore" /\ Stored(e.uuid) /\ files' = [files EXCEPT ![e.uuid] = Absent]
  /\ Goes(t, "unlink") /\ req'[t] = req[t]
  /\ h \in [Objs -> Slot] /\ Becomes(h)
  /\ h[p] = [heap[p] EXCEPT !.ents = @ \ {e}] /\ \A o \in Objs \ {p} : h[o] = heap[o]
  /\ UNCHANGED <<smax, imap, maxIno, known, torn, clash, raced, orphans>>

LEMMA RemoveNodeIs ==
  ASSUME Base, NEW t \in Threads, RemoveNode(t)
  PROVE  RemoveNodeFails(t) \/ \E h : RemoveNodeAs(t, h)
<1> DEFINE e == req[t].ent
           p == req[t].parent
<1>1. /\ pc[t] = "unstore" /\ files' = [files EXCEPT ![e.uuid] = Absent]
      /\ UNCHANGED <<imap, maxIno, smax, known, torn, clash, raced, orphans>>
      /\ Typed /\ req[t].op \in Works
  BY DEF RemoveNode, history, Base, Staged, StagedAt, Works
<1>2. p \in Objs /\ e \in Dirent /\ req[t] \in Req BY <1>1, InUse DEF Typed
<1>3. CASE files[e.uuid] = Absent
  <2>1. Return(t) /\ Heap(heap) BY <1>3 DEF RemoveNode
  <2>2. Returns(t) /\ Becomes(heap) BY <1>1, <2>1, HeapIs, ReturnIs DEF Typed
  <2>3. files' = files BY <1>1, <1>3 DEF Typed
  <2>4. RemoveNodeFails(t) BY <1>1, <1>3, <2>2, <2>3 DEF RemoveNodeFails, Stored
  <2> QED BY <2>4
<1>4. CASE files[e.uuid] # Absent
  <2>1. Goto(t, "unlink", req[t]) /\ Heap([heap EXCEPT ![p].ents = @ \ {e}])
    BY <1>4 DEF RemoveNode
  <2>2. [heap EXCEPT ![p].ents = @ \ {e}] \in [Objs -> Slot]
    <3>1. heap \in [Objs -> Slot] /\ p \in Objs BY <1>1, <1>2 DEF Typed
    <3>2. [heap[p] EXCEPT !.ents = @ \ {e}] \in Slot BY <3>1 DEF Slot
    <3> QED BY <3>1, <3>2
  <2>3. PICK h \in [Objs -> Slot] : h = [heap EXCEPT ![p].ents = @ \ {e}] BY <2>2
  <2>4. Becomes(h) BY <2>1, <2>3, HeapIs
  <2>5. h[p] = [heap[p] EXCEPT !.ents = @ \ {e}] /\ \A o \in Objs \ {p} : h[o] = heap[o]
    BY <1>1, <1>2, <2>3 DEF Typed
  <2>6. Goes(t, "unlink") /\ req'[t] = req[t]
    BY <1>1, <1>2, <2>1, GotoReq DEF Labels, Goes
  <2>7. RemoveNodeAs(t, h) BY <1>1, <1>4, <2>4, <2>5, <2>6 DEF RemoveNodeAs, Stored
  <2> QED BY <2>7
<1> QED BY <1>3, <1>4

-----------------------------------------------------------------------------
(* The shape is kept.                                                      *)

LEMMA SameFiles ==
  ASSUME Typed, UNCHANGED files
  PROVE  /\ \A u \in Uuids : \A e \in files'[u].ents : In(u, e)
         /\ \A u \in Uuids : files'[u] # Absent =>
              Owns(files'[u].own, u) /\ Kin(files'[u].kind, u)
BY InOwns DEF Stored

LEMMA LookupShrinks ==
  ASSUME Base, Base', NEW t \in Threads, Steady(t), NEW i, NEW e, LookupAs(t, i, e)
  PROVE  Shrinks
<1>1. Becomes(heap) /\ heap \in [Objs -> Slot] /\ UNCHANGED <<files, heap>>
  BY HeapStays DEF LookupAs, Base, Typed
<1>2. In(heap'[req'[t].parent].uuid, req'[t].ent)
  BY <1>1, InOwns DEF LookupAs, Base
<1> QED BY <1>1, <1>2, SameFiles, LessHeap DEF Base

LEMMA RemoveShrinks ==
  ASSUME Base, Base', NEW t \in Threads, Steady(t), NEW i, NEW e, RemoveAs(t, i, e)
  PROVE  Shrinks
<1>1. Becomes(heap) /\ heap \in [Objs -> Slot] /\ UNCHANGED <<files, heap>>
  BY HeapStays DEF RemoveAs, Base, Typed
<1>2. In(heap'[req'[t].parent].uuid, req'[t].ent)
  BY <1>1, InOwns DEF RemoveAs, Base
<1> QED BY <1>1, <1>2, SameFiles, LessHeap DEF Base

LEMMA BeginForgetShrinks ==
  ASSUME Base, Base', NEW t \in Threads, Steady(t), NEW i, BeginForgetAs(t, i)
  PROVE  Shrinks
<1>1. Becomes(heap) /\ heap \in [Objs -> Slot] /\ UNCHANGED <<files, heap>>
  BY HeapStays DEF BeginForgetAs, Base, Typed
<1>2. req'[t].op \notin Works BY DEF BeginForgetAs, Works
<1> QED BY <1>1, <1>2, SameFiles, LessHeap DEF Base

\* A step of a request that goes on in the same directory.
LEMMA SameParent ==
  ASSUME Base, NEW t \in Threads, Steady(t), req[t].op \in Works,
         req'[t].parent = req[t].parent, req'[t].ent = req[t].ent
  PROVE  /\ heap'[req'[t].parent].uuid = heap[req[t].parent].uuid
         /\ In(heap'[req'[t].parent].uuid, req'[t].ent)
<1>1. req[t].parent \in Objs /\ req[t].parent \in Pointers(imap, req) BY InUse
<1>2. req'[t].parent \in Pointers(imap', req') BY DEF Pointers
<1>3. heap'[req'[t].parent].uuid = heap[req[t].parent].uuid BY <1>1, <1>2 DEF Steady
<1> QED BY <1>3, InOwns DEF Base

LEMMA SaveSuperShrinks ==
  ASSUME Base, Base', NEW t \in Threads, Steady(t), SaveSuperAs(t)
  PROVE  Shrinks
<1>1. Becomes(heap) /\ heap \in [Objs -> Slot] /\ UNCHANGED <<files, heap>>
  BY HeapStays DEF SaveSuperAs, Base, Typed
<1>2. req[t].op \in Works BY DEF SaveSuperAs, Base, Staged, StagedAt, Works
<1>3. In(heap'[req'[t].parent].uuid, req'[t].ent) BY <1>2, SameParent DEF SaveSuperAs
<1> QED BY <1>1, <1>3, SameFiles, LessHeap DEF Base

LEMMA LoadShrinks ==
  ASSUME Base, Base', NEW t \in Threads, Steady(t), NEW n, NEW h, LoadAs(t, n, h)
  PROVE  Shrinks
<1> DEFINE e == req[t].ent
<1>1. /\ h \in [Objs -> Slot] /\ Becomes(h) /\ UNCHANGED files /\ Typed
      /\ n \in Objs /\ h[n] = Loaded(e.uuid) /\ \A o \in Objs \ {n} : h[o] = heap[o]
      /\ Stored(e.uuid)
  BY DEF LoadAs, Base
<1>2. req[t].op \in Works BY DEF LoadAs, Base, Staged, StagedAt, Works
<1>3. In(heap'[req'[t].parent].uuid, req'[t].ent) BY <1>2, SameParent DEF LoadAs
<1>4. e.uuid \in Uuids BY InUse
<1>5. /\ h[n].uuid = e.uuid /\ h[n].own = files[e.uuid].own
      /\ h[n].ents = files[e.uuid].ents /\ h[n].kind = files[e.uuid].kind
  BY <1>1, <1>4, LoadedSlot
<1>6. \A o \in Objs : h[o].uuid # None =>
           /\ \A d \in h[o].ents : In(h[o].uuid, d)
           /\ h[o].own # None => Owns(h[o].own, h[o].uuid)
           /\ Kin(h[o].kind, h[o].uuid)
  BY <1>1, <1>4, <1>5, InOwns
<1> QED BY <1>1, <1>3, <1>6, SameFiles, Less

\* A count that is written.
LEMMA RewritesShrinks ==
  ASSUME Base, Base', NEW t \in Threads, Steady(t), Returns(t), UNCHANGED files,
         NEW h, NEW o, NEW n, Rewrites(h, o, n)
  PROVE  Shrinks
<1>1. h \in [Objs -> Slot] /\ Becomes(h) /\ req'[t].op \notin Works
  BY DEF Rewrites, Returns, Works
<1>2. \A p \in Objs : /\ h[p].uuid = heap[p].uuid /\ h[p].own = heap[p].own
                      /\ h[p].kind = heap[p].kind /\ h[p].ents \subseteq heap[p].ents
  BY DEF Rewrites
<1> QED BY <1>1, <1>2, SameFiles, LessHeap DEF Base

LEMMA FoundShrinks ==
  ASSUME Base, Base', NEW t \in Threads, Steady(t), FoundAs(t)
  PROVE  Shrinks
<1>1. Becomes(heap) /\ heap \in [Objs -> Slot] /\ UNCHANGED files
  BY DEF FoundAs, Base, Typed
<1>2. req[t].op \in Works BY DEF FoundAs, Base, Staged, StagedAt, Works
<1>3. In(heap'[req'[t].parent].uuid, req'[t].ent) BY <1>2, SameParent DEF FoundAs
<1> QED BY <1>1, <1>3, SameFiles, LessHeap DEF Base

LEMMA ForgetShrinks ==
  ASSUME Base, Base', NEW t \in Threads, Steady(t), ForgetAs(t)
  PROVE  Shrinks
<1>1. Becomes(heap) /\ heap \in [Objs -> Slot] /\ UNCHANGED files
  BY DEF ForgetAs, Base, Typed
<1>2. req'[t].op \notin Works
  BY DEF ForgetAs, Base, Staged, StagedAt, Works
<1> QED BY <1>1, <1>2, SameFiles, LessHeap DEF Base

LEMMA FlushShrinks ==
  ASSUME Base, Base', NEW t \in Threads, Steady(t), NEW i, FlushAs(t, i)
  PROVE  Shrinks
<1>1. Becomes(heap) /\ heap \in [Objs -> Slot] /\ Store(imap[i])
  BY DEF FlushAs, Base, Typed
<1>2. req'[t].op \notin Works BY DEF FlushAs, Base, Staged, StagedAt, Works
<1> QED BY <1>1, <1>2, StoreIs, LessHeap DEF FlushAs

\* A step that returns and leaves files and objects alone.
LEMMA QuietShrinks ==
  ASSUME Base, Base', NEW t \in Threads, Steady(t), Returns(t), Becomes(heap), UNCHANGED files
  PROVE  Shrinks
BY SameFiles, LessHeap DEF Base, Typed, Returns, Works

LEMMA SaveParentShrinks ==
  ASSUME Base, Base', NEW t \in Threads, Steady(t), NEW h, SaveParentAs(t, h)
  PROVE  Shrinks
<1>1. h \in [Objs -> Slot] /\ Becomes(h) /\ Store(req[t].parent)
  BY DEF SaveParentAs
<1>2. req[t].op \in Works BY DEF SaveParentAs, Base, Staged, StagedAt, Works
<1>3. In(heap'[req'[t].parent].uuid, req'[t].ent) BY <1>2, SameParent DEF SaveParentAs
<1>4. \A o \in Objs : /\ h[o].uuid = heap[o].uuid /\ h[o].own = heap[o].own
                      /\ h[o].kind = heap[o].kind /\ h[o].ents \subseteq heap[o].ents
  <2>1. \A o \in Objs \ {req[t].node} : h[o] = heap[o] BY DEF SaveParentAs
  <2>2. PICK r : h[req[t].node] = [heap[req[t].node] EXCEPT !.refs = r] BY DEF SaveParentAs
  <2>3. \A o \in Objs : heap[o] \in Slot BY DEF Base, Typed
  <2> QED BY <2>1, <2>2, <2>3 DEF Slot
<1>5. req[t].parent \in Objs /\ req[t].parent \in Pointers(imap, req) BY <1>2, InUse
<1> QED BY <1>1, <1>3, <1>4, <1>5, StoreIs, LessHeap

LEMMA SaveNodeShrinks ==
  ASSUME Base, Base', NEW t \in Threads, Steady(t), SaveNodeAs(t)
  PROVE  Shrinks
<1>1. /\ Becomes(heap) /\ heap \in [Objs -> Slot] /\ Store(req[t].node)
      /\ req'[t].op \notin Works
  BY DEF SaveNodeAs, Returns, Works, Base, Typed
<1>2. req[t].node \in Objs /\ req[t].node \in Pointers(imap, req) BY InUse DEF SaveNodeAs
<1> QED BY <1>1, <1>2, StoreIs, LessHeap

LEMMA SaveRemovedShrinks ==
  ASSUME Base, Base', NEW t \in Threads, Steady(t), SaveRemovedAs(t)
  PROVE  Shrinks
<1>1. /\ Becomes(heap) /\ heap \in [Objs -> Slot] /\ Store(req[t].parent)
      /\ req'[t].op \notin Works
  BY DEF SaveRemovedAs, Returns, Works, Base, Typed
<1>2. req[t].op \in Works BY DEF SaveRemovedAs, Base, Staged, StagedAt, Works
<1>3. req[t].parent \in Objs /\ req[t].parent \in Pointers(imap, req) BY <1>2, InUse
<1> QED BY <1>1, <1>3, StoreIs, LessHeap

LEMMA RemoveNodeShrinks ==
  ASSUME Base, Base', NEW t \in Threads, Steady(t), NEW h, RemoveNodeAs(t, h)
  PROVE  Shrinks
<1> DEFINE e == req[t].ent
<1>1. /\ h \in [Objs -> Slot] /\ Becomes(h) /\ files' = [files EXCEPT ![e.uuid] = Absent]
      /\ Typed
  BY DEF RemoveNodeAs, Base
<1>2. req[t].op \in Works BY DEF RemoveNodeAs, Base, Staged, StagedAt, Works
<1>3. In(heap'[req'[t].parent].uuid, req'[t].ent) BY <1>2, SameParent DEF RemoveNodeAs
<1>4. \A o \in Objs : /\ h[o].uuid = heap[o].uuid /\ h[o].own = heap[o].own
                      /\ h[o].kind = heap[o].kind /\ h[o].ents \subseteq heap[o].ents
  BY DEF RemoveNodeAs, Base, Typed, Slot
<1>5. /\ \A u \in Uuids : \A d \in files'[u].ents : In(u, d)
      /\ \A u \in Uuids : files'[u] # Absent =>
           Owns(files'[u].own, u) /\ Kin(files'[u].kind, u)
  <2>1. \A u \in Uuids : files'[u] = files[u] \/ files'[u] = Absent BY <1>1 DEF Typed
  <2> QED BY <1>1, <2>1, InOwns DEF Absent, Stored
<1> QED BY <1>1, <1>3, <1>4, <1>5, LessHeap

\* A create adds one entry and its node.
LEMMA CreateTidy ==
  ASSUME Base, Base', Tidy, NEW t \in Threads, Steady(t), NEW i \in Inos,
         NEW name, NEW e, NEW n, NEW h, CreateAs(t, i, name, e, n, h)
  PROVE  /\ Tidy'
         /\ \A u \in Uuids, d \in Dirent :
              In(u, d)' => In(u, d) \/ (u = heap[imap[i]].uuid /\ d = e)
         /\ \A u \in Uuids, j \in Inos : Owns(j, u)' => Owns(j, u) \/ (j = e.ino /\ u = e.uuid)
         /\ \A u \in Uuids, k \in Kinds : Kin(k, u)' => Kin(k, u) \/ (k = e.kind /\ u = e.uuid)
         /\ \A u \in Uuids, d \in Dirent : In(u, d) => d.uuid # e.uuid /\ u # e.uuid
         /\ \A j \in Inos : ~Owns(j, e.uuid)
         /\ \A k \in Kinds : ~Kin(k, e.uuid)
<1> DEFINE p == imap[i]
<1>1. /\ h \in [Objs -> Slot] /\ Becomes(h) /\ UNCHANGED files /\ Typed
      /\ n \in Objs /\ p \in Objs /\ n # p /\ e \in Dirent /\ e.uuid \in Uuids /\ e.ino \in Inos
      /\ e.uuid \notin UsedUuids /\ maxIno \in Inos \ {Root} /\ e.ino = maxIno
      /\ p \in Pointers(imap, req)
  BY DEF CreateAs, Base, Dirent, Typed
<1>2. /\ h[p].uuid = heap[p].uuid /\ h[p].own = heap[p].own /\ h[p].kind = heap[p].kind
      /\ h[p].ents = heap[p].ents \cup {e} /\ heap[p].kind = "dir"
  <2>1. heap[p] \in Slot BY <1>1 DEF Typed
  <2> QED BY <2>1 DEF CreateAs, Slot, Enters
<1>3. h[n].uuid = e.uuid /\ h[n].own = e.ino /\ h[n].ents = {} /\ h[n].kind = e.kind
  BY DEF CreateAs, Made
<1>4. \A o \in Objs \ {n, p} : h[o] = heap[o] BY DEF CreateAs
<1>5. heap[p].uuid \in Uuids /\ heap[p].uuid # e.uuid
  BY <1>1, DumpedNode DEF UsedUuids
<1>6. ASSUME NEW u \in Uuids, NEW d \in Dirent, In(u, d) PROVE d.uuid # e.uuid /\ u # e.uuid
  <2>1. CASE d \in files[u].ents BY <1>1, <2>1 DEF UsedUuids, Absent
  <2>2. CASE \E o \in Objs : heap[o].uuid = u /\ d \in heap[o].ents
    BY <1>1, <2>2 DEF UsedUuids
  <2>3. CASE \E s \in Threads : /\ req[s].op \in Works
                                /\ heap[req[s].parent].uuid = u /\ req[s].ent = d
    BY <1>1, <2>3, InUse DEF UsedUuids
  <2> QED BY <1>6, <2>1, <2>2, <2>3 DEF In
<1>7. ASSUME NEW j \in Inos, Owns(j, e.uuid) PROVE FALSE
  BY <1>1, <1>7 DEF Owns, UsedUuids, Stored
<1>8. ASSUME NEW u \in Uuids, NEW d \in Dirent, In(u, d)'
      PROVE  In(u, d) \/ (u = heap[p].uuid /\ d = e)
  <2>1. CASE d \in files'[u].ents BY <1>1, <2>1, InOwns
  <2>2. CASE \E o \in Objs : heap'[o].uuid = u /\ d \in heap'[o].ents
    <3>1. PICK o \in Objs : heap'[o].uuid = u /\ d \in heap'[o].ents BY <2>2
    <3>2. heap'[o] = h[o] BY <1>1, <3>1, Small DEF Becomes, Free
    <3> QED BY <1>1, <1>2, <1>3, <1>4, <3>1, <3>2, InOwns
  <2>3. CASE \E s \in Threads : /\ req'[s].op \in Works
                                /\ heap'[req'[s].parent].uuid = u /\ req'[s].ent = d
    <3>1. PICK s \in Threads : /\ req'[s].op \in Works
                               /\ heap'[req'[s].parent].uuid = u /\ req'[s].ent = d
      BY <2>3
    <3>2. req'[s].parent \in Pointers(imap', req') BY DEF Pointers
    <3>3. CASE s = t
      <4>1. req'[t].parent = p /\ req'[t].ent = e BY DEF CreateAs
      <4>2. heap'[p].uuid = heap[p].uuid BY <1>1, <3>2, <3>3, <4>1 DEF Steady
      <4> QED BY <3>1, <3>3, <4>1, <4>2
    <3>4. CASE s # t
      <4>1. req'[s] = req[s] BY <3>4 DEF Steady
      <4>2. req[s].parent \in Objs /\ req[s].parent \in Pointers(imap, req)
        BY <3>1, <4>1, InUse
      <4>3. heap'[req'[s].parent].uuid = heap[req[s].parent].uuid
        BY <3>2, <4>1, <4>2 DEF Steady
      <4> QED BY <3>1, <4>1, <4>3 DEF In
    <3> QED BY <3>3, <3>4
  <2> QED BY <1>8, <2>1, <2>2, <2>3 DEF In
<1>9. ASSUME NEW u \in Uuids, NEW j \in Inos, Owns(j, u)'
      PROVE  Owns(j, u) \/ (j = e.ino /\ u = e.uuid)
  <2>1. CASE files'[u] # Absent /\ files'[u].own = j
    BY <1>1, <2>1 DEF Owns, Stored
  <2>2. CASE \E o \in Objs : heap'[o].uuid = u /\ heap'[o].own = j
    <3>1. PICK o \in Objs : heap'[o].uuid = u /\ heap'[o].own = j BY <2>2
    <3>2. heap'[o] = h[o] BY <1>1, <3>1, Small DEF Becomes, Free
    <3> QED BY <1>1, <1>2, <1>3, <1>4, <3>1, <3>2, InOwns
  <2> QED BY <1>9, <2>1, <2>2 DEF Owns, Stored
<1>10. Stored(Root)' /\ e.uuid # Root /\ e.ino # Root
  <2>1. Stored(Root)' /\ Stored(Root) BY <1>1 DEF Tidy, Stored
  <2>2. Root \in UsedUuids BY <2>1, Small DEF UsedUuids, Stored
  <2> QED BY <1>1, <2>1, <2>2
<1>11. OneHome'
  <2> SUFFICES ASSUME NEW u \in Uuids, NEW v \in Uuids, NEW d \in Dirent, NEW c \in Dirent,
                      In(u, d)', In(v, c)', d.uuid = c.uuid
               PROVE  u = v /\ d = c
    BY DEF OneHome
  <2>1. In(u, d) \/ (u = heap[p].uuid /\ d = e) BY <1>8
  <2>2. In(v, c) \/ (v = heap[p].uuid /\ c = e) BY <1>8
  <2>3. CASE In(u, d) /\ In(v, c) BY <2>3 DEF Tidy, OneHome
  <2> QED BY <1>6, <2>1, <2>2, <2>3
<1>12. NumberOfEntry'
  <2> SUFFICES ASSUME NEW u \in Uuids, NEW d \in Dirent, NEW j \in Inos,
                      In(u, d)', Owns(j, d.uuid)'
               PROVE  j = d.ino
    BY DEF NumberOfEntry
  <2>1. d.uuid \in Uuids BY DEF Dirent
  <2>2. In(u, d) \/ (u = heap[p].uuid /\ d = e) BY <1>8
  <2>3. Owns(j, d.uuid) \/ (j = e.ino /\ d.uuid = e.uuid) BY <1>9, <2>1
  <2>4. CASE In(u, d) /\ Owns(j, d.uuid) BY <2>4 DEF Tidy, NumberOfEntry
  <2>5. CASE d = e BY <1>7, <2>3, <2>5
  <2> QED BY <1>6, <2>2, <2>3, <2>4, <2>5
<1>13. OneNumber'
  <2> SUFFICES ASSUME NEW u \in Uuids, NEW j \in Inos, NEW k \in Inos, Owns(j, u)', Owns(k, u)'
               PROVE  j = k
    BY DEF OneNumber
  <2>1. Owns(j, u) \/ (j = e.ino /\ u = e.uuid) BY <1>9
  <2>2. Owns(k, u) \/ (k = e.ino /\ u = e.uuid) BY <1>9
  <2>3. CASE u = e.uuid BY <1>7, <2>1, <2>2, <2>3
  <2>4. CASE u # e.uuid BY <2>1, <2>2, <2>4 DEF Tidy, OneNumber
  <2> QED BY <2>3, <2>4
<1>14. NotRoot'
  <2> SUFFICES ASSUME NEW u \in Uuids, NEW d \in Dirent, In(u, d)'
               PROVE  d.uuid # Root /\ d.ino # Root /\ d.uuid # u
    BY DEF NotRoot
  <2>1. In(u, d) \/ (u = heap[p].uuid /\ d = e) BY <1>8
  <2> QED BY <1>5, <1>10, <2>1 DEF Tidy, NotRoot
<1>15. ASSUME NEW k \in Kinds, Kin(k, e.uuid) PROVE FALSE
  BY <1>1, <1>15 DEF Kin, UsedUuids, Stored
<1>16. ASSUME NEW u \in Uuids, NEW k \in Kinds, Kin(k, u)'
       PROVE  Kin(k, u) \/ (k = e.kind /\ u = e.uuid)
  <2>1. CASE files'[u] # Absent /\ files'[u].kind = k
    BY <1>1, <2>1 DEF Kin, Stored
  <2>2. CASE \E o \in Objs : heap'[o].uuid = u /\ heap'[o].kind = k
    <3>1. PICK o \in Objs : heap'[o].uuid = u /\ heap'[o].kind = k BY <2>2
    <3>2. heap'[o] = h[o] BY <1>1, <3>1, Small DEF Becomes, Free
    <3> QED BY <1>1, <1>2, <1>3, <1>4, <3>1, <3>2, InOwns
  <2> QED BY <1>16, <2>1, <2>2 DEF Kin, Stored
<1>17. OneKind'
  <2> SUFFICES ASSUME NEW u \in Uuids, NEW k \in Kinds, NEW l \in Kinds, Kin(k, u)', Kin(l, u)'
               PROVE  k = l
    BY DEF OneKind
  <2>1. Kin(k, u) \/ (k = e.kind /\ u = e.uuid) BY <1>16
  <2>2. Kin(l, u) \/ (l = e.kind /\ u = e.uuid) BY <1>16
  <2>3. CASE u = e.uuid BY <1>15, <2>1, <2>2, <2>3
  <2>4. CASE u # e.uuid BY <2>1, <2>2, <2>4 DEF Tidy, OneKind
  <2> QED BY <2>3, <2>4
<1>18. Leaf'
  <2> SUFFICES ASSUME NEW u \in Uuids, NEW d \in Dirent, In(u, d)', Kin("reg", u)'
               PROVE  FALSE
    BY DEF Leaf
  <2>1. In(u, d) \/ (u = heap[p].uuid /\ d = e) BY <1>8
  <2>2. Kin("reg", u) \/ u = e.uuid BY <1>16 DEF Kinds
  <2>3. CASE In(u, d) BY <1>6, <2>2, <2>3 DEF Tidy, Leaf
  <2>4. CASE u = heap[p].uuid
    <3>1. Kin("dir", u) /\ ~Kin("reg", u)
      BY <1>1, <1>2, <2>4, InOwns DEF Tidy, OneKind, Kinds
    <3> QED BY <1>5, <2>2, <2>4, <3>1
  <2> QED BY <2>1, <2>3, <2>4
<1>19. Tidy' BY <1>10, <1>11, <1>12, <1>13, <1>14, <1>17, <1>18 DEF Tidy
<1> QED BY <1>6, <1>7, <1>8, <1>9, <1>15, <1>16, <1>19

\* A mount forgets what was only in memory.
LEMMA CrashShrinks ==
  ASSUME Base, Base', Tidy, Crash
  PROVE  Shrinks
<1>1. /\ UNCHANGED files /\ req' = [t \in Threads |-> NoReq]
      /\ heap' = [o \in Objs |-> IF o = Root THEN Loaded(Root) ELSE Free]
  BY DEF Crash, storage
<1>2. /\ Loaded(Root).uuid = Root /\ Loaded(Root).own = files[Root].own
      /\ Loaded(Root).ents = files[Root].ents /\ Loaded(Root).kind = files[Root].kind
  BY LoadedSlot, Small DEF Base
<1>3. NoReq.op \notin Works /\ Free.uuid \notin Uuids BY Small DEF NoReq, Works, Free
<1>4. ASSUME NEW u \in Uuids, NEW e \in Dirent, In(u, e)' PROVE In(u, e)
  BY <1>1, <1>2, <1>3, <1>4, Small DEF In
<1>5. ASSUME NEW u \in Uuids, NEW i \in Inos, Owns(i, u)' PROVE Owns(i, u)
  BY <1>1, <1>2, <1>3, <1>5, Small DEF Owns, Tidy, Stored
<1>6. ASSUME NEW u \in Uuids, NEW k \in Kinds, Kin(k, u)' PROVE Kin(k, u)
  BY <1>1, <1>2, <1>3, <1>6, Small DEF Kin, Tidy, Stored
<1> QED BY <1>4, <1>5, <1>6 DEF Shrinks

LEMMA InitTidy ==
  ASSUME Init
  PROVE  Tidy
<1> DEFINE node == [own |-> 2, kind |-> "dir", ents |-> {}]
<1>1. /\ files[Root] = RootNode /\ files[2] = node
      /\ \A u \in Uuids \ {Root, 2} : files[u] = Absent
  BY Small DEF Init
<1>2. /\ RootNode.own = Root /\ RootNode.ents = {SubEnt} /\ RootNode # Absent
      /\ node.own = 2 /\ node.ents = {} /\ Absent.ents = {} /\ Absent.own = None
      /\ SubEnt.uuid = 2 /\ SubEnt.ino = 2 /\ RootNode.kind = "dir" /\ node.kind = "dir"
  BY DEF RootNode, Absent, SubEnt
<1>3. /\ heap = [o \in Objs |-> IF o = Root THEN Loaded(Root) ELSE Free]
      /\ req = [t \in Threads |-> NoReq]
  BY DEF Init
<1>4. /\ Loaded(Root).uuid = Root /\ Loaded(Root).own = Root /\ Loaded(Root).ents = {SubEnt}
      /\ Loaded(Root).kind = "dir"
  BY <1>1, <1>2, Small DEF Loaded
<1>5. NoReq.op \notin Works /\ Free.uuid \notin Uuids BY Small DEF NoReq, Works, Free
<1>6. ASSUME NEW u \in Uuids, NEW e \in Dirent, In(u, e) PROVE u = Root /\ e = SubEnt
  <2>1. CASE e \in files[u].ents BY <1>1, <1>2, <2>1
  <2>2. CASE \E o \in Objs : heap[o].uuid = u /\ e \in heap[o].ents
    BY <1>3, <1>4, <1>5, <2>2
  <2> QED BY <1>3, <1>5, <1>6, <2>1, <2>2 DEF In
<1>7. ASSUME NEW u \in Uuids, NEW i \in Inos, Owns(i, u) PROVE i = u
  <2>1. CASE Stored(u) /\ files[u].own = i BY <1>1, <1>2, <2>1 DEF Stored
  <2>2. CASE \E o \in Objs : heap[o].uuid = u /\ heap[o].own = i
    BY <1>3, <1>4, <1>5, <2>2
  <2> QED BY <1>7, <2>1, <2>2 DEF Owns
<1>8. OneHome BY <1>6 DEF OneHome
<1>9. NumberOfEntry BY <1>2, <1>6, <1>7 DEF NumberOfEntry, Dirent
<1>10. OneNumber BY <1>7 DEF OneNumber
<1>11. NotRoot BY <1>2, <1>6, Small DEF NotRoot
<1>12. ASSUME NEW u \in Uuids, NEW k \in Kinds, Kin(k, u) PROVE k = "dir"
  <2>1. CASE Stored(u) /\ files[u].kind = k BY <1>1, <1>2, <2>1 DEF Stored
  <2>2. CASE \E o \in Objs : heap[o].uuid = u /\ heap[o].kind = k
    BY <1>3, <1>4, <1>5, <2>2
  <2> QED BY <1>12, <2>1, <2>2 DEF Kin
<1>13. OneKind BY <1>12 DEF OneKind
<1>14. Leaf BY <1>12 DEF Leaf, Kinds
<1> QED BY <1>1, <1>2, <1>8, <1>9, <1>10, <1>11, <1>13, <1>14 DEF Tidy, Stored

-----------------------------------------------------------------------------
(* The kernel's locks.                                                     *)

\* Only two lookups of different names are in one directory.
Locks ==
  \A s, t \in Threads : s # t /\ Locked(s) \cap Locked(t) # {} =>
    req[s].op = "lookup" /\ req[t].op = "lookup" /\ req[s].ent.name # req[t].ent.name

LEMMA LockedIs ==
  ASSUME NEW t \in Threads
  PROVE  /\ req[t].op \in {"create", "lookup"} => Locked(t) = {heap[req[t].parent].uuid}
         /\ req[t].op = "remove" => Locked(t) = {heap[req[t].parent].uuid, req[t].ent.uuid}
         /\ req[t].op \notin Works => Locked(t) = {}
BY DEF Locked, Works

LEMMA LockedLater ==
  /\ \A t \in Threads :
       /\ req'[t].op \in {"create", "lookup"} => Locked(t)' = {heap'[req'[t].parent].uuid}
       /\ req'[t].op = "remove" => Locked(t)' = {heap'[req'[t].parent].uuid, req'[t].ent.uuid}
       /\ req'[t].op \notin Works => Locked(t)' = {}
BY DEF Locked, Works

LEMMA OthersLocked ==
  ASSUME Base, NEW t \in Threads, Steady(t), NEW s \in Threads \ {t}
  PROVE  Locked(s)' = Locked(s)
<1>1. req'[s] = req[s] BY DEF Steady
<1>2. CASE req[s].op \in Works
  <2>1. req[s].parent \in Objs /\ req[s].parent \in Pointers(imap, req) BY <1>2, InUse
  <2>2. req'[s].parent \in Pointers(imap', req') BY DEF Pointers
  <2>3. heap'[req'[s].parent].uuid = heap[req[s].parent].uuid
    BY <1>1, <2>1, <2>2 DEF Steady
  <2>4. CASE req[s].op = "remove"
    <3>1. Locked(s) = {heap[req[s].parent].uuid, req[s].ent.uuid} BY <2>4, LockedIs
    <3>2. Locked(s)' = {heap'[req'[s].parent].uuid, req'[s].ent.uuid}
      BY <1>1, <2>4, LockedLater
    <3> QED BY <1>1, <2>3, <3>1, <3>2
  <2>5. CASE req[s].op \in {"create", "lookup"}
    <3>1. Locked(s) = {heap[req[s].parent].uuid} BY <2>5, LockedIs
    <3>2. Locked(s)' = {heap'[req'[s].parent].uuid} BY <1>1, <2>5, LockedLater
    <3> QED BY <2>3, <3>1, <3>2
  <2> QED BY <1>2, <2>4, <2>5 DEF Works
<1>3. CASE req[s].op \notin Works BY <1>1, <1>3, LockedIs, LockedLater
<1> QED BY <1>2, <1>3

\* A step that begins no request in a directory.
LEMMA LocksKept ==
  ASSUME Base, Locks, NEW t \in Threads, Steady(t),
         \/ req'[t].op \notin Works
         \/ /\ req[t].op \in Works /\ req'[t].op = req[t].op
            /\ req'[t].parent = req[t].parent /\ req'[t].ent = req[t].ent
  PROVE  Locks'
<1>1. \A s \in Threads \ {t} : Locked(s)' = Locked(s) /\ req'[s] = req[s]
  BY OthersLocked DEF Steady
<1>2. CASE req'[t].op \notin Works
  <2>1. Locked(t)' = {} BY <1>2, LockedLater
  <2> QED BY <1>1, <2>1 DEF Locks
<1>3. CASE /\ req[t].op \in Works /\ req'[t].op = req[t].op
           /\ req'[t].parent = req[t].parent /\ req'[t].ent = req[t].ent
  <2>1. heap'[req'[t].parent].uuid = heap[req[t].parent].uuid BY <1>3, SameParent
  <2>2. CASE req[t].op = "remove"
    <3>1. Locked(t) = {heap[req[t].parent].uuid, req[t].ent.uuid} BY <2>2, LockedIs
    <3>2. Locked(t)' = {heap'[req'[t].parent].uuid, req'[t].ent.uuid}
      BY <1>3, <2>2, LockedLater
    <3>3. Locked(t)' = Locked(t) BY <1>3, <2>1, <3>1, <3>2
    <3> QED BY <1>1, <1>3, <3>3 DEF Locks
  <2>3. CASE req[t].op \in {"create", "lookup"}
    <3>1. Locked(t) = {heap[req[t].parent].uuid} BY <2>3, LockedIs
    <3>2. Locked(t)' = {heap'[req'[t].parent].uuid} BY <1>3, <2>3, LockedLater
    <3>3. Locked(t)' = Locked(t) BY <2>1, <3>1, <3>2
    <3> QED BY <1>1, <1>3, <3>3 DEF Locks
  <2> QED BY <1>3, <2>2, <2>3 DEF Works
<1> QED BY <1>2, <1>3

\* A request that begins, in the directory u.
LEMMA LocksBegin ==
  ASSUME Base, Locks, NEW t \in Threads, Steady(t),
         \A s \in Threads \ {t} : \A u \in Locked(s) \cap Locked(t)' :
           req[s].op = "lookup" /\ req'[t].op = "lookup" /\ req[s].ent.name # req'[t].ent.name
  PROVE  Locks'
<1>1. \A s \in Threads \ {t} : Locked(s)' = Locked(s) /\ req'[s] = req[s]
  BY OthersLocked DEF Steady
<1> SUFFICES ASSUME NEW s \in Threads, NEW r \in Threads, s # r,
                    Locked(s)' \cap Locked(r)' # {}
             PROVE  /\ req'[s].op = "lookup" /\ req'[r].op = "lookup"
                    /\ req'[s].ent.name # req'[r].ent.name
  BY DEF Locks
<1>2. CASE s # t /\ r # t BY <1>1, <1>2 DEF Locks
<1>3. CASE s = t BY <1>1, <1>3
<1>4. CASE r = t BY <1>1, <1>4
<1> QED BY <1>2, <1>3, <1>4

LEMMA LookupLocks ==
  ASSUME Base, Locks, NEW t \in Threads, Steady(t), NEW i, NEW e, LookupAs(t, i, e)
  PROVE  Locks'
<1>1. heap' = heap /\ req'[t].op = "lookup" /\ req'[t].parent = imap[i] /\ req'[t].ent = e
  BY DEF LookupAs
<1>2. Locked(t)' = {heap[imap[i]].uuid} BY <1>1, LockedLater
<1> QED BY <1>1, <1>2, LocksBegin DEF LookupAs

LEMMA RemoveLocks ==
  ASSUME Base, Locks, NEW t \in Threads, Steady(t), NEW i, NEW e, RemoveAs(t, i, e)
  PROVE  Locks'
<1>1. heap' = heap /\ req'[t].op = "remove" /\ req'[t].parent = imap[i] /\ req'[t].ent = e
  BY DEF RemoveAs
<1>2. Locked(t)' = {heap[imap[i]].uuid, e.uuid} BY <1>1, LockedLater
<1>3. Alone(heap[imap[i]].uuid) /\ Alone(e.uuid) BY DEF RemoveAs
<1> QED BY <1>1, <1>2, <1>3, LocksBegin DEF Alone

LEMMA CreateLocks ==
  ASSUME Base, Locks, NEW t \in Threads, Steady(t), NEW i \in Inos,
         NEW name, NEW e, NEW n, NEW h, CreateAs(t, i, name, e, n, h)
  PROVE  Locks'
<1>1. /\ req'[t].op = "create" /\ req'[t].parent = imap[i] /\ Alone(heap[imap[i]].uuid)
      /\ imap[i] \in Objs /\ imap[i] \in Pointers(imap, req)
  BY DEF CreateAs
<1>2. imap[i] \in Pointers(imap', req') BY <1>1 DEF Pointers
<1>3. heap'[imap[i]].uuid = heap[imap[i]].uuid BY <1>1, <1>2 DEF Steady
<1>4. Locked(t)' = {heap[imap[i]].uuid} BY <1>1, <1>3, LockedLater
<1> QED BY <1>1, <1>4, LocksBegin DEF Alone

\* Requests that change directories work on different ones, on different
\* entries and on no directory another one removes.
LEMMA Apart ==
  ASSUME Base, Tidy, Locks, NEW s \in Threads, NEW t \in Threads, s # t,
         req[s].op \in {"create", "remove"}, req[t].op \in {"create", "remove"}
  PROVE  /\ heap[req[s].parent].uuid # heap[req[t].parent].uuid
         /\ req[s].parent # req[t].parent
         /\ req[s].ent.uuid # req[t].ent.uuid
         /\ req[t].op = "remove" => heap[req[s].parent].uuid # req[t].ent.uuid
<1>1. Locked(s) \cap Locked(t) = {} BY DEF Locks
<1>2. /\ heap[req[s].parent].uuid \in Locked(s) /\ heap[req[t].parent].uuid \in Locked(t)
      /\ req[t].op = "remove" => req[t].ent.uuid \in Locked(t)
  BY LockedIs
<1>3. heap[req[s].parent].uuid # heap[req[t].parent].uuid BY <1>1, <1>2
<1>4. req[s].ent.uuid # req[t].ent.uuid
  <2>1. /\ In(heap[req[s].parent].uuid, req[s].ent) /\ In(heap[req[t].parent].uuid, req[t].ent)
        /\ heap[req[s].parent].uuid \in Uuids /\ heap[req[t].parent].uuid \in Uuids
        /\ req[s].ent \in Dirent /\ req[t].ent \in Dirent
    BY InOwns, InUse DEF Base, Works
  <2> QED BY <1>3, <2>1 DEF Tidy, OneHome
<1> QED BY <1>1, <1>2, <1>3, <1>4

-----------------------------------------------------------------------------
(* Requests that change directories.                                       *)

Changes == {"create", "remove"}

\* A create has a node of its own, which nobody else has before inode_map gets
\* it, and whose file is written last, unless a flush meets the create; its entry
\* is first in the parent and then in the parent's file.
NewAt(t) ==
  LET e == req[t].ent
      n == req[t].node
      p == req[t].parent IN
  req[t].op = "create" =>
    /\ Stored(e.uuid) => e.ino \in clash /\ heap[n].kind = "reg"
    /\ heap[n].uuid = e.uuid /\ heap[n].own = e.ino /\ heap[n].ents = {}
    /\ \A o \in Objs : heap[o].uuid = e.uuid => o = n
    /\ \A s \in Threads : req[s].parent # n
    /\ pc[t] = "parent" =>
         /\ heap[n].refs = 0 /\ e \in heap[p].ents
         /\ \A i \in Inos : imap[i] # n
         /\ \A s \in Threads \ {t} : req[s].node # n
    /\ pc[t] # "parent" => e \in files[heap[p].uuid].ents

\* A remove takes the node away, which has no entries, and then the entry; a
\* flush may have saved the node again.
RemovedAt(t) ==
  LET e == req[t].ent IN
  /\ pc[t] = "unstore" => Stored(e.uuid) /\ files[e.uuid].ents = {}
  /\ pc[t] = "unlink" => /\ Stored(e.uuid) => e.uuid \in orphans
                         /\ e \notin heap[req[t].parent].ents

\* The directory of a change is there.
ParentAt(t) == req[t].op \in Changes => Stored(heap[req[t].parent].uuid)

RequestAt(t) == NewAt(t) /\ RemovedAt(t) /\ ParentAt(t)
Requests == \A t \in Threads : RequestAt(t)

\* The histories of creates that met and of orphans only grow.
Grows == clash \subseteq clash' /\ orphans \subseteq orphans'

\* What has to be shown of a step of t for the request of s.
LEMMA OtherRequest ==
  ASSUME Base, NEW t \in Threads, NEW s \in Threads \ {t}, Steady(t), Grows, RequestAt(s),
         NEW h \in [Objs -> Slot], Becomes(h),
         req[s].op \in Changes =>
           /\ files'[heap[req[s].parent].uuid] = files[heap[req[s].parent].uuid]
           /\ files'[req[s].ent.uuid] = files[req[s].ent.uuid],
         req[s].op = "create" =>
           /\ \A o \in Objs : h[o].uuid = req[s].ent.uuid => heap[o].uuid = req[s].ent.uuid
           /\ h[req[s].node].ents \subseteq heap[req[s].node].ents
           /\ req'[t].parent # req[s].node,
         pc[s] = "parent" =>
           /\ h[req[s].node].refs = heap[req[s].node].refs
           /\ req[s].ent \in heap[req[s].parent].ents => req[s].ent \in h[req[s].parent].ents
           /\ \A i \in Inos : imap'[i] # req[s].node
           /\ req'[t].node # req[s].node,
         pc[s] = "unlink" =>
           (req[s].ent \in h[req[s].parent].ents => req[s].ent \in heap[req[s].parent].ents)
  PROVE  RequestAt(s)'
<1>1. /\ req'[s] = req[s] /\ pc'[s] = pc[s]
      /\ \A r \in Threads \ {t} : req'[r] = req[r]
  BY DEF Steady
<1>2. StagedAt(s) BY DEF Base, Staged
<1>3. CASE req[s].op \in Changes
  <2>1. req[s].parent \in Objs /\ req[s].parent \in Pointers(imap, req)
    BY <1>3, InUse DEF Changes, Works
  <2>2. req'[s].parent \in Pointers(imap', req') BY DEF Pointers
  <2>3. /\ heap'[req[s].parent].uuid = heap[req[s].parent].uuid
        /\ heap'[req[s].parent] = h[req[s].parent]
    BY <1>1, <2>1, <2>2 DEF Steady, Becomes
  <2>4. ParentAt(s)' BY <1>1, <1>3, <2>3 DEF ParentAt, RequestAt, Stored
  <2>5. RemovedAt(s)'
    BY <1>1, <1>2, <1>3, <2>3 DEF RemovedAt, RequestAt, Stored, StagedAt, Changes, Grows
  <2>6. CASE req[s].op = "create"
    <3>1. req[s].node \in Objs /\ req[s].node \in Pointers(imap, req)
      BY <1>2, <2>6, InUse DEF StagedAt
    <3>2. req'[s].node \in Pointers(imap', req') BY DEF Pointers
    <3>3. /\ heap'[req[s].node].uuid = heap[req[s].node].uuid
          /\ heap'[req[s].node].own = heap[req[s].node].own
          /\ heap'[req[s].node].kind = heap[req[s].node].kind
          /\ heap'[req[s].node] = h[req[s].node]
      BY <1>1, <3>1, <3>2 DEF Steady, Becomes
    <3>4. NewAt(s) BY DEF RequestAt
    <3>5. req[s].ent.uuid # None BY InUse, Small
    <3>6. \A o \in Objs : heap'[o].uuid = req[s].ent.uuid => o = req[s].node
      <4>1. \A o \in Objs : heap'[o] = h[o] \/ heap'[o] = Free BY DEF Becomes
      <4>2. Free.uuid = None BY DEF Free
      <4> QED BY <2>6, <3>4, <3>5, <4>1, <4>2 DEF NewAt
    <3>7. \A r \in Threads : req'[r].parent # req[s].node
      BY <1>1, <2>6, <3>4 DEF NewAt
    <3>8. pc[s] = "parent" =>
            /\ heap'[req[s].node].refs = 0 /\ req[s].ent \in heap'[req[s].parent].ents
            /\ \A i \in Inos : imap'[i] # req[s].node
            /\ \A r \in Threads \ {s} : req'[r].node # req[s].node
      BY <1>1, <2>3, <2>6, <3>3, <3>4 DEF NewAt
    <3>9. pc[s] # "parent" => req[s].ent \in files'[heap'[req[s].parent].uuid].ents
      BY <1>3, <2>3, <2>6, <3>4 DEF NewAt
    <3>10. Stored(req[s].ent.uuid)' =>
             req[s].ent.ino \in clash' /\ heap'[req[s].node].kind = "reg"
      BY <1>1, <1>3, <2>6, <3>3, <3>4 DEF NewAt, Stored, Grows
    <3>11. heap'[req[s].node].ents = {} BY <2>6, <3>3, <3>4 DEF NewAt
    <3>12. NewAt(s)'
      BY <1>1, <2>6, <3>3, <3>4, <3>6, <3>7, <3>8, <3>9, <3>10, <3>11, SMTT(30) DEF NewAt
    <3> QED BY <2>4, <2>5, <3>12 DEF RequestAt
  <2>7. CASE req[s].op # "create"
    <3>1. NewAt(s)' BY <1>1, <2>7 DEF NewAt
    <3> QED BY <2>4, <2>5, <3>1 DEF RequestAt
  <2> QED BY <2>6, <2>7
<1>4. CASE req[s].op \notin Changes
  BY <1>1, <1>2, <1>4 DEF RequestAt, NewAt, RemovedAt, ParentAt, Changes, StagedAt
<1> QED BY <1>3, <1>4

\* A thread without a change.
LEMMA NoRequest ==
  ASSUME Base', NEW t \in Threads, req'[t].op \notin Changes
  PROVE  RequestAt(t)'
BY DEF Base, Staged, StagedAt, RequestAt, NewAt, RemovedAt, ParentAt, Changes

\* What a create makes is the parent of no change.
LEMMA NoParent ==
  ASSUME Base, Tidy, Requests, NEW s \in Threads, NEW t \in Threads,
         req[s].op = "create", req[t].op \in Changes
  PROVE  heap[req[t].parent].uuid # req[s].ent.uuid
<1>1. NewAt(s) /\ ParentAt(t) BY DEF Requests, RequestAt
<1>2. /\ In(heap[req[t].parent].uuid, req[t].ent) /\ heap[req[t].parent].uuid \in Uuids
      /\ req[t].ent \in Dirent
  BY InOwns, InUse DEF Base, Works, Changes
<1>3. ~Kin("reg", heap[req[t].parent].uuid) BY <1>2 DEF Tidy, Leaf
<1>4. req[s].node \in Objs BY InUse DEF Base, Staged, StagedAt
<1>5. heap[req[s].node].kind = "reg" => Kin("reg", req[s].ent.uuid)
  BY <1>1, <1>4 DEF NewAt, Kin
<1> QED BY <1>1, <1>3, <1>5 DEF NewAt, ParentAt

\* No change writes the files another one depends on.
LEMMA FilesApart ==
  ASSUME Base, Tidy, Locks, Requests, NEW t \in Threads, NEW s \in Threads \ {t},
         req[t].op \in Changes, req[s].op \in Changes,
         \A u \in Uuids :
           files'[u] = files[u] \/ u = heap[req[t].parent].uuid \/ u = req[t].ent.uuid
  PROVE  /\ files'[heap[req[s].parent].uuid] = files[heap[req[s].parent].uuid]
         /\ files'[req[s].ent.uuid] = files[req[s].ent.uuid]
<1>1. /\ heap[req[s].parent].uuid # heap[req[t].parent].uuid
      /\ req[s].ent.uuid # req[t].ent.uuid
      /\ req[t].op = "remove" => heap[req[s].parent].uuid # req[t].ent.uuid
      /\ req[s].op = "remove" => heap[req[t].parent].uuid # req[s].ent.uuid
  BY Apart DEF Changes
<1>2. /\ req[s].op = "create" => heap[req[t].parent].uuid # req[s].ent.uuid
      /\ req[t].op = "create" => heap[req[s].parent].uuid # req[t].ent.uuid
  BY NoParent
<1>3. heap[req[s].parent].uuid \in Uuids /\ req[s].ent.uuid \in Uuids
  BY InUse DEF Changes, Works
<1> QED BY <1>1, <1>2, <1>3 DEF Changes

\* The requests of others under a step that makes no object and leaves
\* the entries of others in their directories.
LEMMA OthersRequests ==
  ASSUME Base, Tidy, Locks, Requests, NEW t \in Threads, Steady(t), Grows,
         NEW h \in [Objs -> Slot], Becomes(h),
         \/ UNCHANGED files
         \/ /\ req[t].op \in Changes
            /\ \A u \in Uuids :
                 files'[u] = files[u] \/ u = heap[req[t].parent].uuid \/ u = req[t].ent.uuid,
         \A o \in Objs : h[o].uuid = heap[o].uuid /\ h[o].ents \subseteq heap[o].ents,
         \A s \in Threads \ {t} : req[s].op = "create" => req'[t].parent # req[s].node,
         \A s \in Threads \ {t} : pc[s] = "parent" =>
           /\ h[req[s].node].refs = heap[req[s].node].refs
           /\ req[s].ent \in heap[req[s].parent].ents => req[s].ent \in h[req[s].parent].ents
           /\ \A i \in Inos : imap'[i] # req[s].node
           /\ req'[t].node # req[s].node
  PROVE  \A s \in Threads \ {t} : RequestAt(s)'
<1> SUFFICES ASSUME NEW s \in Threads \ {t} PROVE RequestAt(s)' OBVIOUS
<1>1. RequestAt(s) /\ StagedAt(s) BY DEF Requests, Base, Staged
<1>2. req[s].op \in Changes =>
        /\ files'[heap[req[s].parent].uuid] = files[heap[req[s].parent].uuid]
        /\ files'[req[s].ent.uuid] = files[req[s].ent.uuid]
  BY FilesApart
<1>3. req[s].op = "create" => req[s].node \in Objs BY <1>1, InUse DEF StagedAt
<1>4. pc[s] = "unlink" => req[s].parent \in Objs BY <1>1, InUse DEF StagedAt, Works
<1> QED BY <1>1, <1>2, <1>3, <1>4, OtherRequest

-----------------------------------------------------------------------------
(* The requests are kept.                                                  *)

\* The directory a request enters is no node of a create in flight.
LEMMA EnteredOld ==
  ASSUME Base, Requests, NEW t \in Threads, NEW i \in Inos, Enters(t, i), imap[i] \in Objs
  PROVE  /\ Stored(heap[imap[i]].uuid)
         /\ \A s \in Threads : req[s].op = "create" => imap[i] # req[s].node
<1>1. Stored(heap[imap[i]].uuid) /\ heap[imap[i]].kind = "dir" BY DEF Enters, Stored
<1>2. \A s \in Threads : req[s].op = "create" =>
        /\ heap[req[s].node].uuid = req[s].ent.uuid
        /\ Stored(req[s].ent.uuid) => heap[req[s].node].kind = "reg"
  BY DEF Requests, RequestAt, NewAt
<1> QED BY <1>1, <1>2

\* At "parent" nobody else has the new node.
LEMMA NodeApart ==
  ASSUME Base, Requests, NEW s \in Threads, pc[s] = "parent"
  PROVE  /\ req[s].op = "create" /\ req[s].node \in Objs
         /\ \A i \in Inos : imap[i] # req[s].node
         /\ \A r \in Threads : req[r].parent # req[s].node
         /\ \A r \in Threads \ {s} : req[r].node # req[s].node
<1>1. req[s].op = "create" BY DEF Base, Staged, StagedAt
<1>2. NewAt(s) BY DEF Requests, RequestAt
<1> QED BY <1>1, <1>2, InUse DEF NewAt

LEMMA LookupRequests ==
  ASSUME Base, Base', Tidy, Locks, Requests, NEW t \in Threads, Steady(t), Grows,
         NEW i \in Inos, NEW e, LookupAs(t, i, e)
  PROVE  Requests'
<1>1. /\ Becomes(heap) /\ heap \in [Objs -> Slot] /\ UNCHANGED <<files, imap>>
      /\ req'[t].op \notin Changes /\ Enters(t, i) /\ imap[i] \in Objs /\ e.ino \in Inos
      /\ req'[t].parent = imap[i] /\ req'[t].node = imap[e.ino]
  BY HeapStays DEF LookupAs, Base, Typed, Changes, Dirent
<1>2. RequestAt(t)' BY <1>1, NoRequest
<1>3. \A s \in Threads \ {t} : req[s].op = "create" => req'[t].parent # req[s].node
  BY <1>1, EnteredOld
<1>4. \A s \in Threads \ {t} : pc[s] = "parent" =>
        (\A j \in Inos : imap'[j] # req[s].node) /\ req'[t].node # req[s].node
  BY <1>1, NodeApart
<1>5. \A s \in Threads \ {t} : RequestAt(s)' BY <1>1, <1>3, <1>4, OthersRequests
<1> QED BY <1>2, <1>5 DEF Requests

LEMMA RemoveRequests ==
  ASSUME Base, Base', Tidy, Locks, Requests, NEW t \in Threads, Steady(t), Grows,
         NEW i \in Inos, NEW e, RemoveAs(t, i, e)
  PROVE  Requests'
<1>1. /\ Becomes(heap) /\ heap \in [Objs -> Slot] /\ UNCHANGED <<files, heap, imap>>
      /\ Enters(t, i) /\ imap[i] \in Objs
      /\ req'[t].parent = imap[i] /\ req'[t].node = None
  BY HeapStays DEF RemoveAs, Base, Typed
<1>2. Stored(heap[imap[i]].uuid) BY <1>1, EnteredOld
<1>3. RequestAt(t)'
  BY <1>1, <1>2 DEF RemoveAs, Goes, RequestAt, NewAt, RemovedAt, ParentAt, Stored
<1>4. \A s \in Threads \ {t} : req[s].op = "create" => req'[t].parent # req[s].node
  BY <1>1, EnteredOld
<1>5. \A s \in Threads \ {t} : pc[s] = "parent" =>
        (\A j \in Inos : imap'[j] # req[s].node) /\ req'[t].node # req[s].node
  BY <1>1, NodeApart, Small
<1>6. \A s \in Threads \ {t} : RequestAt(s)' BY <1>1, <1>4, <1>5, OthersRequests
<1> QED BY <1>3, <1>6 DEF Requests

LEMMA BeginForgetRequests ==
  ASSUME Base, Base', Tidy, Locks, Requests, NEW t \in Threads, Steady(t), Grows,
         NEW i, BeginForgetAs(t, i)
  PROVE  Requests'
<1>1. /\ Becomes(heap) /\ heap \in [Objs -> Slot] /\ UNCHANGED <<files, imap>>
      /\ req'[t].op \notin Changes /\ req'[t].parent = None /\ req'[t].node = None
  BY HeapStays DEF BeginForgetAs, Base, Typed, Changes
<1>2. RequestAt(t)' BY <1>1, NoRequest
<1>3. \A s \in Threads \ {t} : req[s].op = "create" => req'[t].parent # req[s].node
  BY <1>1 DEF Base, Staged, StagedAt
<1>4. \A s \in Threads \ {t} : pc[s] = "parent" =>
        (\A j \in Inos : imap'[j] # req[s].node) /\ req'[t].node # req[s].node
  BY <1>1, NodeApart, Small
<1>5. \A s \in Threads \ {t} : RequestAt(s)' BY <1>1, <1>3, <1>4, OthersRequests
<1> QED BY <1>2, <1>5 DEF Requests

\* A step that returns.
LEMMA ReturnRequests ==
  ASSUME Base, Base', Tidy, Locks, Requests, NEW t \in Threads, Steady(t), Grows, Returns(t),
         NEW h \in [Objs -> Slot], Becomes(h),
         \/ UNCHANGED files
         \/ /\ req[t].op \in Changes
            /\ \A u \in Uuids :
                 files'[u] = files[u] \/ u = heap[req[t].parent].uuid \/ u = req[t].ent.uuid,
         \A o \in Objs : h[o].uuid = heap[o].uuid /\ h[o].ents = heap[o].ents,
         \A s \in Threads \ {t} : pc[s] = "parent" =>
           h[req[s].node].refs = heap[req[s].node].refs,
         \A i \in Inos : imap'[i] = imap[i] \/ imap'[i] = None
  PROVE  Requests'
<1>1. req'[t].op \notin Changes /\ req'[t].parent = None /\ req'[t].node = None
  BY DEF Returns, Changes
<1>2. RequestAt(t)' BY <1>1, NoRequest
<1>3. \A s \in Threads \ {t} : req[s].op = "create" => req'[t].parent # req[s].node
  BY <1>1 DEF Base, Staged, StagedAt
<1>4. \A s \in Threads \ {t} : pc[s] = "parent" =>
        /\ \A j \in Inos : imap'[j] # req[s].node
        /\ req'[t].node # req[s].node
        /\ req[s].parent \in Objs
  BY <1>1, NodeApart, InUse, Small DEF Works
<1>5. \A s \in Threads \ {t} : RequestAt(s)' BY <1>3, <1>4, OthersRequests
<1> QED BY <1>2, <1>5 DEF Requests

LEMMA QuietRequests ==
  ASSUME Base, Base', Tidy, Locks, Requests, NEW t \in Threads, Steady(t), Grows, Returns(t),
         Becomes(heap), UNCHANGED files,
         \A i \in Inos : imap'[i] = imap[i] \/ imap'[i] = None
  PROVE  Requests'
BY ReturnRequests DEF Base, Typed

LEMMA FoundRequests ==
  ASSUME Base, Base', Tidy, Locks, Requests, NEW t \in Threads, Steady(t), Grows,
         FoundAs(t) \/ ForgetAs(t)
  PROVE  Requests'
<1>1. /\ Becomes(heap) /\ heap \in [Objs -> Slot] /\ UNCHANGED <<files, imap>>
      /\ req'[t].parent = req[t].parent /\ req'[t].op = req[t].op
      /\ req'[t].op \notin Changes
      /\ req'[t].node = req[t].node \/ \E i \in Inos : req'[t].node = imap[i]
  BY DEF FoundAs, ForgetAs, Base, Typed, Req, Staged, StagedAt, Changes
<1>2. RequestAt(t)' BY <1>1, NoRequest
<1>3. \A s \in Threads \ {t} : req[s].op = "create" => req'[t].parent # req[s].node
  BY <1>1 DEF Requests, RequestAt, NewAt
<1>4. \A s \in Threads \ {t} : pc[s] = "parent" =>
        (\A j \in Inos : imap'[j] # req[s].node) /\ req'[t].node # req[s].node
  BY <1>1, NodeApart
<1>5. \A s \in Threads \ {t} : RequestAt(s)' BY <1>1, <1>3, <1>4, OthersRequests
<1> QED BY <1>2, <1>5 DEF Requests

\* A count that is written.
LEMMA RewritesRequests ==
  ASSUME Base, Base', Tidy, Locks, Requests, NEW t \in Threads, Steady(t), Grows,
         Returns(t), pc[t] \in {"count", "drop"}, UNCHANGED <<files, imap>>,
         NEW h, NEW n, Rewrites(h, req[t].node, n)
  PROVE  Requests'
<1>1. /\ h \in [Objs -> Slot] /\ Becomes(h)
      /\ \A o \in Objs \ {req[t].node} : h[o] = heap[o]
      /\ \A o \in Objs : h[o].uuid = heap[o].uuid /\ h[o].ents = heap[o].ents
  BY DEF Rewrites
<1>2. \A s \in Threads \ {t} : pc[s] = "parent" =>
        h[req[s].node].refs = heap[req[s].node].refs
  BY <1>1, NodeApart
<1> QED BY <1>1, <1>2, ReturnRequests

\* A flush saves no directory, and the node of a create it meets is in clash.
LEMMA FlushRequests ==
  ASSUME Base, Base', Tidy, Locks, Requests, NEW t \in Threads, Steady(t), Grows,
         NEW i, FlushAs(t, i)
  PROVE  Requests'
<1> DEFINE o == imap[i]
           u == heap[o].uuid
<1>1. /\ o \in Objs /\ o \in Pointers(imap, req) /\ Store(o) /\ heap[o].kind = "reg"
      /\ UNCHANGED <<heap, imap, pc, req>> /\ i \in Inos
      /\ orphans' = orphans \cup {v \in {u} : files[v] = Absent}
      /\ clash' = clash \cup {req[s].ent.ino : s \in {r \in Creating : req[r].node = o}}
  BY DEF FlushAs
<1>2. u \in Uuids /\ Kin("reg", u) BY <1>1, DumpedNode, InOwns DEF Base
<1>3. heap[o].ents = {}
  <2>1. \A e \in heap[o].ents : e \in Dirent /\ In(u, e)
    BY <1>1, InOwns DEF Base, Typed, Slot
  <2> QED BY <1>2, <2>1 DEF Tidy, Leaf
<1>4. /\ Stored(u)' /\ files'[u].ents = {}
      /\ \A v \in Uuids : v # u => files'[v] = files[v]
      /\ \A v \in Uuids : Stored(v) => Stored(v)'
  BY <1>1, <1>2, <1>3, StoreIs DEF Stored
<1> HIDE DEF u, o
<1> SUFFICES ASSUME NEW s \in Threads PROVE RequestAt(s)' BY DEF Requests
<1>5. RequestAt(s) /\ StagedAt(s) BY DEF Requests, Base, Staged
<1>6. req[s].op \in Changes =>
        /\ heap[req[s].parent].uuid \in Uuids /\ heap[req[s].parent].uuid # u
        /\ req[s].ent.uuid \in Uuids
  <2> HAVE req[s].op \in Changes
  <2>1. /\ In(heap[req[s].parent].uuid, req[s].ent) /\ heap[req[s].parent].uuid \in Uuids
        /\ req[s].ent \in Dirent /\ req[s].ent.uuid \in Uuids
    BY InOwns, InUse DEF Base, Works, Changes
  <2> QED BY <1>2, <2>1 DEF Tidy, Leaf
<1>7. ParentAt(s)' BY <1>1, <1>4, <1>5, <1>6 DEF RequestAt, ParentAt, Stored
<1>8. RemovedAt(s)'
  <2>1. pc[s] = "unstore" => Stored(req[s].ent.uuid)' /\ files'[req[s].ent.uuid].ents = {}
    BY <1>1, <1>4, <1>5, <1>6 DEF RequestAt, RemovedAt, StagedAt, Changes, Stored
  <2>2. pc[s] = "unlink" /\ Stored(req[s].ent.uuid)' => req[s].ent.uuid \in orphans'
    <3> HAVE pc[s] = "unlink" /\ Stored(req[s].ent.uuid)'
    <3>1. CASE Stored(req[s].ent.uuid)
      BY <1>5, <3>1 DEF RequestAt, RemovedAt, Grows
    <3>2. CASE ~Stored(req[s].ent.uuid)
      <4>1. req[s].ent.uuid = u BY <1>1, <1>4, <1>5, <1>6, <3>2 DEF StagedAt, Changes, Stored
      <4> QED BY <1>1, <3>2, <4>1 DEF Stored
    <3> QED BY <3>1, <3>2
  <2> QED BY <1>1, <1>5, <2>1, <2>2 DEF RequestAt, RemovedAt
<1>9. NewAt(s)'
  <2> SUFFICES ASSUME req[s].op = "create" PROVE NewAt(s)'
    BY <1>1 DEF NewAt
  <2>1. NewAt(s) /\ s \in Creating BY <1>5 DEF RequestAt, Creating
  <2>2. Stored(req[s].ent.uuid)' =>
          req[s].ent.ino \in clash' /\ heap[req[s].node].kind = "reg"
    <3> HAVE Stored(req[s].ent.uuid)'
    <3>1. CASE req[s].ent.uuid = u
      <4>1. req[s].node = o BY <1>1, <2>1, <3>1 DEF NewAt, u
      <4> QED BY <1>1, <2>1, <4>1
    <3>2. CASE req[s].ent.uuid # u
      BY <1>1, <1>4, <1>6, <2>1, <3>2 DEF NewAt, Grows, Stored, Changes
    <3> QED BY <3>1, <3>2
  <2>3. pc[s] # "parent" => req[s].ent \in files'[heap[req[s].parent].uuid].ents
    BY <1>4, <1>6, <2>1 DEF NewAt, Changes
  <2> QED BY <1>1, <2>1, <2>2, <2>3 DEF NewAt
<1> QED BY <1>7, <1>8, <1>9 DEF RequestAt

LEMMA SaveNodeRequests ==
  ASSUME Base, Base', Tidy, Locks, Requests, NEW t \in Threads, Steady(t), Grows, SaveNodeAs(t)
  PROVE  Requests'
<1>1. /\ Becomes(heap) /\ heap \in [Objs -> Slot] /\ Store(req[t].node)
      /\ Returns(t) /\ UNCHANGED imap /\ pc[t] = "node"
  BY DEF SaveNodeAs, Base, Typed
<1>2. req[t].node \in Objs /\ req[t].node \in Pointers(imap, req) BY <1>1, InUse
<1>3. req[t].op = "create" /\ heap[req[t].node].uuid = req[t].ent.uuid
  BY <1>1 DEF Base, Staged, StagedAt, Requests, RequestAt, NewAt
<1>4. \A u \in Uuids : u # req[t].ent.uuid => files'[u] = files[u]
  BY <1>1, <1>2, <1>3, StoreIs
<1> QED BY <1>1, <1>3, <1>4, ReturnRequests DEF Changes

LEMMA SaveRemovedRequests ==
  ASSUME Base, Base', Tidy, Locks, Requests, NEW t \in Threads, Steady(t), Grows, SaveRemovedAs(t)
  PROVE  Requests'
<1>1. /\ Becomes(heap) /\ heap \in [Objs -> Slot] /\ Store(req[t].parent)
      /\ Returns(t) /\ UNCHANGED imap /\ pc[t] = "unlink"
  BY DEF SaveRemovedAs, Base, Typed
<1>2. req[t].op = "remove" BY <1>1 DEF Base, Staged, StagedAt
<1>3. req[t].parent \in Objs /\ req[t].parent \in Pointers(imap, req) BY <1>2, InUse DEF Works
<1>4. \A u \in Uuids : u # heap[req[t].parent].uuid => files'[u] = files[u]
  BY <1>1, <1>3, StoreIs
<1> QED BY <1>1, <1>2, <1>4, ReturnRequests DEF Changes

LEMMA SaveSuperRequests ==
  ASSUME Base, Base', Tidy, Locks, Requests, NEW t \in Threads, Steady(t), Grows, SaveSuperAs(t)
  PROVE  Requests'
<1>1. /\ Becomes(heap) /\ heap \in [Objs -> Slot] /\ UNCHANGED <<files, heap, imap>>
      /\ req'[t] = req[t] /\ pc[t] = "super" /\ pc'[t] = "node"
      /\ \A s \in Threads \ {t} : pc'[s] = pc[s] /\ req'[s] = req[s]
  BY HeapStays DEF SaveSuperAs, Base, Typed, Goes
<1>2. RequestAt(t) /\ NewAt(t) BY DEF Requests, RequestAt
<1>3. NewAt(t)' BY <1>1, <1>2 DEF NewAt, Stored, Grows
<1>4. RemovedAt(t)' /\ ParentAt(t)' BY <1>1, <1>2 DEF RequestAt, RemovedAt, ParentAt, Stored
<1>5. \A s \in Threads \ {t} : req[s].op = "create" => req'[t].parent # req[s].node
  BY <1>1 DEF Requests, RequestAt, NewAt
<1>6. \A s \in Threads \ {t} : pc[s] = "parent" =>
        (\A j \in Inos : imap'[j] # req[s].node) /\ req'[t].node # req[s].node
  BY <1>1, NodeApart
<1>7. \A s \in Threads \ {t} : RequestAt(s)' BY <1>1, <1>5, <1>6, OthersRequests
<1> QED BY <1>3, <1>4, <1>7 DEF Requests, RequestAt

LEMMA LoadRequests ==
  ASSUME Base, Base', Tidy, Locks, Requests, NEW t \in Threads, Steady(t), Grows,
         NEW n, NEW h, LoadAs(t, n, h)
  PROVE  Requests'
<1> DEFINE e == req[t].ent
<1>1. /\ pc[t] = "load" /\ Stored(e.uuid) /\ e.uuid \in Uuids /\ e.ino \in Inos /\ Typed
      /\ n \in Objs /\ n \notin Pointers(imap, req) /\ h \in [Objs -> Slot] /\ Becomes(h)
      /\ h[n] = Loaded(e.uuid) /\ \A o \in Objs \ {n} : h[o] = heap[o]
      /\ imap' = [imap EXCEPT ![e.ino] = n] /\ UNCHANGED files
      /\ req'[t].op = req[t].op /\ req'[t].parent = req[t].parent /\ req'[t].node = n
  BY InUse DEF LoadAs, Base
<1>2. h[n].uuid = e.uuid BY <1>1, LoadedSlot
<1>3. req[t].op = "lookup" BY <1>1 DEF Base, Staged, StagedAt
<1>4. RequestAt(t)' BY <1>1, <1>3, NoRequest DEF Changes
<1>5. ASSUME NEW s \in Threads \ {t} PROVE RequestAt(s)'
  <2>1. RequestAt(s) /\ StagedAt(s) BY DEF Requests, Base, Staged
  <2>2. req[s].op = "create" =>
          /\ req[s].node \in Objs /\ req[s].node # n /\ e.uuid # req[s].ent.uuid
          /\ req'[t].parent # req[s].node
    <3> HAVE req[s].op = "create"
    <3>1. /\ req[s].node \in Objs /\ req[s].node # n /\ req'[t].parent # req[s].node
      BY <1>1, <2>1, InUse DEF StagedAt, RequestAt, NewAt
    <3>2. /\ In(heap[req[s].parent].uuid, req[s].ent) /\ In(heap[req[t].parent].uuid, e)
          /\ heap[req[s].parent].uuid \in Uuids /\ heap[req[t].parent].uuid \in Uuids
          /\ req[s].ent \in Dirent /\ e \in Dirent
      BY <1>3, InOwns, InUse DEF Base, Works
    <3>3. /\ heap[req[s].parent].uuid \in Locked(s) /\ heap[req[t].parent].uuid \in Locked(t)
      BY <1>3, LockedIs
    <3>4. heap[req[s].parent].uuid # heap[req[t].parent].uuid
      BY <3>3 DEF Locks
    <3>5. e.uuid # req[s].ent.uuid BY <3>2, <3>4 DEF Tidy, OneHome
    <3> QED BY <3>1, <3>5
  <2>3. req[s].op \in Changes => req[s].parent \in Objs /\ req[s].parent # n
    BY <1>1, <2>1, InUse DEF Changes, Works
  <2>4. req[s].op = "create" =>
          /\ \A o \in Objs : h[o].uuid = req[s].ent.uuid => heap[o].uuid = req[s].ent.uuid
          /\ h[req[s].node].ents \subseteq heap[req[s].node].ents
    BY <1>1, <1>2, <2>2
  <2>5. pc[s] = "parent" =>
          /\ h[req[s].node].refs = heap[req[s].node].refs
          /\ req[s].ent \in heap[req[s].parent].ents => req[s].ent \in h[req[s].parent].ents
          /\ \A i \in Inos : imap'[i] # req[s].node
          /\ req'[t].node # req[s].node
    BY <1>1, <2>2, <2>3, NodeApart DEF Changes, Typed
  <2>6. pc[s] = "unlink" =>
          (req[s].ent \in h[req[s].parent].ents => req[s].ent \in heap[req[s].parent].ents)
    BY <1>1, <2>1, <2>3 DEF Changes, StagedAt
  <2> QED BY <1>1, <2>1, <2>2, <2>4, <2>5, <2>6, OtherRequest
<1> QED BY <1>4, <1>5 DEF Requests

LEMMA CreateRequests ==
  ASSUME Base, Base', Tidy, Locks, Requests, NEW t \in Threads, Steady(t), Grows, NEW i \in Inos,
         NEW name, NEW e, NEW n, NEW h, CreateAs(t, i, name, e, n, h)
  PROVE  Requests'
<1> DEFINE p == imap[i]
<1>1. /\ h \in [Objs -> Slot] /\ Becomes(h) /\ UNCHANGED <<files, imap>> /\ Typed
      /\ n \in Objs /\ p \in Objs /\ n # p /\ e \in Dirent /\ e.uuid \in Uuids
      /\ e.uuid \notin UsedUuids /\ p \in Pointers(imap, req) /\ n \notin Pointers(imap, req)
      /\ Enters(t, i) /\ \A o \in Objs \ {n, p} : h[o] = heap[o]
      /\ req'[t].op = "create" /\ req'[t].parent = p /\ req'[t].ent = e /\ req'[t].node = n
      /\ pc'[t] = "parent" /\ \A s \in Threads \ {t} : req'[s] = req[s]
  BY DEF CreateAs, Base, Dirent
<1>2. /\ h[p].uuid = heap[p].uuid /\ h[p].ents = heap[p].ents \cup {e}
  <2>1. heap[p] \in Slot BY <1>1 DEF Typed
  <2> QED BY <2>1 DEF CreateAs, Slot
<1>3. h[n].uuid = e.uuid /\ h[n].own = e.ino /\ h[n].ents = {} /\ h[n].refs = 0
  BY DEF CreateAs, Made
<1>4. /\ ~Stored(e.uuid) /\ \A o \in Objs : heap[o].uuid # e.uuid
      /\ \A s \in Threads : req[s].ent.uuid # e.uuid
  BY <1>1 DEF UsedUuids, Stored
<1>5. /\ Stored(heap[p].uuid)
      /\ \A s \in Threads : req[s].op = "create" => p # req[s].node
  BY <1>1, EnteredOld
<1>6. \A s \in Threads : req[s].parent # n /\ req[s].node # n BY <1>1, PointersAre
<1>7. \A j \in Inos : imap[j] # n BY <1>1, PointersAre
<1>8. RequestAt(t)'
  <2>1. n \in Pointers(imap', req') /\ p \in Pointers(imap', req')
    BY <1>1 DEF Pointers
  <2>2. heap'[n] = h[n] /\ heap'[p] = h[p] BY <1>1, <2>1 DEF Becomes
  <2>3. \A o \in Objs : heap'[o].uuid = e.uuid => o = n
    <3>1. \A o \in Objs : heap'[o] = h[o] \/ heap'[o] = Free BY <1>1 DEF Becomes
    <3>2. e.uuid # None /\ Free.uuid = None BY <1>1, Small DEF Free
    <3> QED BY <1>1, <1>2, <1>4, <3>1, <3>2
  <2>4. \A s \in Threads : req'[s].parent # n BY <1>1, <1>6
  <2>5. \A s \in Threads \ {t} : req'[s].node # n BY <1>1, <1>6
  <2>6. ~Stored(e.uuid)' BY <1>1, <1>4 DEF Stored
  <2>7. NewAt(t)' BY <1>1, <1>2, <1>3, <1>7, <2>2, <2>3, <2>4, <2>5, <2>6 DEF NewAt
  <2>8. Stored(heap[p].uuid)' BY <1>1, <1>2, <1>5, <2>2 DEF Stored
  <2> QED BY <1>1, <2>7, <2>8 DEF RequestAt, RemovedAt, ParentAt
<1>9. ASSUME NEW s \in Threads \ {t} PROVE RequestAt(s)'
  <2>1. RequestAt(s) /\ StagedAt(s) BY DEF Requests, Base, Staged
  <2>2. req[s].op = "create" => req[s].node \in Objs /\ req[s].node # n /\ req[s].node # p
    BY <1>5, <1>6, <2>1, InUse DEF StagedAt
  <2>3. req[s].op \in Changes => req[s].parent \in Objs /\ req[s].parent # n
    BY <1>6, InUse DEF Changes, Works
  <2>4. req[s].op = "create" =>
          /\ \A o \in Objs : h[o].uuid = req[s].ent.uuid => heap[o].uuid = req[s].ent.uuid
          /\ h[req[s].node].ents \subseteq heap[req[s].node].ents
          /\ req'[t].parent # req[s].node
    BY <1>1, <1>2, <1>3, <1>4, <2>2
  <2>5. pc[s] = "parent" =>
          /\ h[req[s].node].refs = heap[req[s].node].refs
          /\ req[s].ent \in heap[req[s].parent].ents => req[s].ent \in h[req[s].parent].ents
          /\ \A j \in Inos : imap'[j] # req[s].node
          /\ req'[t].node # req[s].node
    BY <1>1, <1>2, <2>2, <2>3, NodeApart DEF Changes
  <2>6. pc[s] = "unlink" =>
          (req[s].ent \in h[req[s].parent].ents => req[s].ent \in heap[req[s].parent].ents)
    BY <1>1, <1>2, <1>4, <2>1, <2>3 DEF Changes, StagedAt
  <2> QED BY <1>1, <2>1, <2>4, <2>5, <2>6, OtherRequest
<1> QED BY <1>8, <1>9 DEF Requests

LEMMA SaveParentRequests ==
  ASSUME Base, Base', Tidy, Locks, Requests, NEW t \in Threads, Steady(t), Grows,
         NEW h, SaveParentAs(t, h)
  PROVE  Requests'
<1> DEFINE e == req[t].ent
           n == req[t].node
           p == req[t].parent
<1>1. /\ pc[t] = "parent" /\ Store(p) /\ Goes(t, "super") /\ Typed
      /\ req'[t].op = req[t].op /\ req'[t].parent = p /\ req'[t].ent = e /\ req'[t].node = n
      /\ imap' = [imap EXCEPT ![maxIno] = n]
      /\ h \in [Objs -> Slot] /\ Becomes(h) /\ \A o \in Objs \ {n} : h[o] = heap[o]
  BY DEF SaveParentAs, Base
<1>2. \A o \in Objs : h[o].uuid = heap[o].uuid /\ h[o].own = heap[o].own /\ h[o].ents = heap[o].ents
  <2>1. PICK r : h[n] = [heap[n] EXCEPT !.refs = r] BY DEF SaveParentAs
  <2>2. \A o \in Objs : heap[o] \in Slot BY DEF Base, Typed
  <2> QED BY <1>1, <2>1, <2>2 DEF Slot
<1>3. /\ req[t].op = "create" /\ n \in Objs /\ p \in Objs
      /\ n \in Pointers(imap, req) /\ p \in Pointers(imap, req) /\ e.uuid \in Uuids
      /\ NewAt(t) /\ ParentAt(t) /\ heap[p].uuid \in Uuids
  BY <1>1, NodeApart, InUse DEF Works, Requests, RequestAt
<1>4. /\ \A u \in Uuids : u # heap[p].uuid => files'[u] = files[u]
      /\ files'[heap[p].uuid].ents = heap[p].ents
      /\ \A u \in Uuids : Stored(u) => Stored(u)'
  BY <1>1, <1>3, StoreIs DEF Stored
<1>5. e.uuid # heap[p].uuid BY <1>3, NoParent DEF Changes
<1>6. RequestAt(t)'
  <2>1. n \in Pointers(imap', req') /\ p \in Pointers(imap', req')
    BY <1>1 DEF Pointers
  <2>2. heap'[n] = h[n] /\ heap'[p] = h[p] BY <1>1, <1>3, <2>1 DEF Becomes
  <2>3. \A o \in Objs : heap'[o].uuid = e.uuid => o = n
    <3>1. \A o \in Objs : heap'[o] = h[o] \/ heap'[o] = Free BY <1>1 DEF Becomes
    <3> QED BY <1>2, <1>3, <3>1, Small DEF Free, NewAt
  <2>4. \A s \in Threads : req'[s].parent # n BY <1>1, <1>3 DEF NewAt, Goes
  <2>5. Stored(e.uuid)' => e.ino \in clash' /\ heap[n].kind = "reg"
    BY <1>1, <1>3, <1>4, <1>5 DEF Stored, NewAt, Grows
  <2>6. e \in files'[heap'[p].uuid].ents BY <1>1, <1>2, <1>3, <1>4, <2>2 DEF NewAt
  <2>7. pc'[t] = "super" BY <1>1 DEF Goes
  <2>8. /\ heap'[n].uuid = e.uuid /\ heap'[n].own = e.ino /\ heap'[n].ents = {}
        /\ heap'[n].kind = heap[n].kind
    BY <1>1, <1>2, <1>3, <2>1, <2>2 DEF NewAt, Steady
  <2>9. NewAt(t)' BY <1>1, <2>3, <2>4, <2>5, <2>6, <2>7, <2>8 DEF NewAt
  <2>10. Stored(heap[p].uuid)' BY <1>1, <1>2, <1>3, <1>4, <2>2 DEF Stored, ParentAt, Changes
  <2> QED BY <1>1, <2>7, <2>9, <2>10 DEF RequestAt, RemovedAt, ParentAt
<1>7. \A s \in Threads \ {t} : req[s].op = "create" => req'[t].parent # req[s].node
  BY <1>1 DEF Requests, RequestAt, NewAt
<1>8. \A s \in Threads \ {t} : pc[s] = "parent" =>
        /\ h[req[s].node].refs = heap[req[s].node].refs
        /\ req[s].ent \in heap[req[s].parent].ents => req[s].ent \in h[req[s].parent].ents
        /\ \A j \in Inos : imap'[j] # req[s].node
        /\ req'[t].node # req[s].node
  <2> SUFFICES ASSUME NEW s \in Threads \ {t}, pc[s] = "parent"
               PROVE  /\ h[req[s].node].refs = heap[req[s].node].refs
                      /\ req[s].ent \in heap[req[s].parent].ents => req[s].ent \in h[req[s].parent].ents
                      /\ \A j \in Inos : imap'[j] # req[s].node
                      /\ req'[t].node # req[s].node
    OBVIOUS
  <2>1. /\ req[s].node \in Objs /\ n # req[s].node /\ req[s].parent \in Objs
        /\ \A j \in Inos : imap[j] # req[s].node
    BY NodeApart, InUse DEF Works
  <2>2. \A j \in Inos : imap'[j] # req[s].node BY <1>1, <2>1 DEF Typed
  <2> QED BY <1>1, <1>2, <2>1, <2>2
<1>9. \A s \in Threads \ {t} : RequestAt(s)'
  BY <1>1, <1>2, <1>3, <1>4, <1>7, <1>8, OthersRequests DEF Changes
<1> QED BY <1>6, <1>9 DEF Requests

LEMMA RemoveNodeRequests ==
  ASSUME Base, Base', Tidy, Locks, Requests, NEW t \in Threads, Steady(t), Grows,
         NEW h, RemoveNodeAs(t, h)
  PROVE  Requests'
<1> DEFINE e == req[t].ent
           p == req[t].parent
<1>1. /\ pc[t] = "unstore" /\ files' = [files EXCEPT ![e.uuid] = Absent] /\ Goes(t, "unlink")
      /\ Typed /\ req'[t] = req[t] /\ h \in [Objs -> Slot] /\ Becomes(h)
      /\ \A o \in Objs \ {p} : h[o] = heap[o] /\ UNCHANGED imap
  BY DEF RemoveNodeAs, Base
<1>2. req[t].op = "remove" BY <1>1 DEF Base, Staged, StagedAt
<1>3. /\ p \in Objs /\ p \in Pointers(imap, req) /\ e \in Dirent /\ e.uuid \in Uuids
      /\ heap[p].uuid \in Uuids /\ ParentAt(t)
  BY <1>2, InUse DEF Works, Requests, RequestAt
<1>4. /\ h[p].uuid = heap[p].uuid /\ h[p].ents = heap[p].ents \ {e} /\ h[p].refs = heap[p].refs
  <2>1. heap[p] \in Slot BY <1>1, <1>3 DEF Typed
  <2> QED BY <2>1 DEF RemoveNodeAs, Slot
<1>5. e.uuid # heap[p].uuid
  <2>1. In(heap[p].uuid, e) BY <1>1, <1>2, InOwns DEF Works
  <2> QED BY <1>3, <2>1 DEF Tidy, NotRoot
<1>6. RequestAt(t)'
  <2>1. p \in Pointers(imap', req') BY <1>1 DEF Pointers
  <2>2. heap'[p] = h[p] BY <1>1, <1>3, <2>1 DEF Becomes
  <2>3. ~Stored(e.uuid)' BY <1>1, <1>3 DEF Stored, Typed
  <2>4. Stored(heap[p].uuid)'
    BY <1>1, <1>2, <1>3, <1>4, <1>5, <2>2 DEF Stored, ParentAt, Changes, Typed
  <2>5. pc'[t] = "unlink" BY <1>1 DEF Goes
  <2> QED BY <1>1, <1>2, <1>4, <2>2, <2>3, <2>4, <2>5 DEF RequestAt, NewAt, RemovedAt, ParentAt
<1>7. \A s \in Threads \ {t} : req[s].op = "create" => req'[t].parent # req[s].node
  BY <1>1 DEF Requests, RequestAt, NewAt
<1>8. \A s \in Threads \ {t} : pc[s] = "parent" =>
        /\ h[req[s].node].refs = heap[req[s].node].refs
        /\ req[s].ent \in heap[req[s].parent].ents => req[s].ent \in h[req[s].parent].ents
        /\ \A j \in Inos : imap'[j] # req[s].node
        /\ req'[t].node # req[s].node
  <2> SUFFICES ASSUME NEW s \in Threads \ {t}, pc[s] = "parent"
               PROVE  /\ h[req[s].node].refs = heap[req[s].node].refs
                      /\ req[s].ent \in heap[req[s].parent].ents => req[s].ent \in h[req[s].parent].ents
                      /\ \A j \in Inos : imap'[j] # req[s].node
                      /\ req'[t].node # req[s].node
    OBVIOUS
  <2>1. /\ req[s].node \in Objs /\ p # req[s].node /\ req[s].parent \in Objs /\ req[s].op = "create"
        /\ \A j \in Inos : imap[j] # req[s].node
        /\ req[t].node # req[s].node
    BY NodeApart, InUse DEF Works
  <2>2. req[s].parent # p BY <1>2, <2>1, Apart
  <2> QED BY <1>1, <2>1, <2>2
<1>9. \A u \in Uuids : files'[u] = files[u] \/ u = e.uuid BY <1>1 DEF Typed
<1>10. \A o \in Objs : h[o].uuid = heap[o].uuid /\ h[o].ents \subseteq heap[o].ents
  BY <1>1, <1>4
<1>11. \A s \in Threads \ {t} : RequestAt(s)'
  BY <1>1, <1>2, <1>7, <1>8, <1>9, <1>10, OthersRequests DEF Changes
<1> QED BY <1>6, <1>11 DEF Requests

-----------------------------------------------------------------------------
(* The shape is an invariant.                                              *)

Shape == Tidy /\ Locks /\ Requests

\* What a step of t may be.
Did(t) ==
  \/ \E i \in Inos : \E e : LookupAs(t, i, e)
  \/ \E i \in Inos : BeginForgetAs(t, i)
  \/ \E i \in Inos : \E e : RemoveAs(t, i, e)
  \/ \E i \in Inos : \E name, e, n, h : CreateAs(t, i, name, e, n, h)
  \/ LoadFails(t) \/ \E n, h : LoadAs(t, n, h)
  \/ FoundFails(t) \/ FoundAs(t) \/ \E h : CountAs(t, h)
  \/ ForgetNone(t) \/ ForgetAs(t) \/ DropGone(t) \/ \E h : DropAs(t, h)
  \/ \E i \in Inos : FlushAs(t, i)
  \/ \E h : SaveParentAs(t, h)
  \/ SaveSuperAs(t) \/ SaveNodeAs(t)
  \/ RemoveNodeFails(t) \/ \E h : RemoveNodeAs(t, h)
  \/ SaveRemovedAs(t)

LEMMA StepIs ==
  ASSUME Base, NEW t \in Threads, Step(t) \/ Request(t)
  PROVE  Base' /\ Steady(t) /\ Did(t)
<1>10. CASE Count(t) BY <1>10, CountBase, CountIs DEF Did
<1>11. CASE Drop(t) BY <1>11, DropBase, DropIs DEF Did
<1>1. CASE Load(t) BY <1>1, LoadBase, LoadIs DEF Did
<1>2. CASE Found(t) BY <1>2, FoundBase, FoundIs DEF Did
<1>3. CASE Forget(t) BY <1>3, ForgetBase, ForgetIs DEF Did
<1>4. CASE SaveParent(t) BY <1>4, SaveParentBase, SaveParentIs DEF Did
<1>5. CASE SaveSuper(t) BY <1>5, SaveSuperBase, SaveSuperIs DEF Did
<1>6. CASE SaveNode(t) BY <1>6, SaveNodeBase, SaveNodeIs DEF Did
<1>7. CASE RemoveNode(t) BY <1>7, RemoveNodeBase, RemoveNodeIs DEF Did
<1>8. CASE SaveRemoved(t) BY <1>8, SaveRemovedBase, SaveRemovedIs DEF Did
<1>9. CASE Request(t)
  <2>1. PICK i \in Inos :
          \/ Lookup(t, i) \/ BeginForget(t, i) \/ Remove(t, i) \/ Flush(t, i)
          \/ \E name \in Names, kind \in NewKinds : Create(t, i, name, kind)
    BY <1>9 DEF Request
  <2>2. CASE Lookup(t, i) BY <2>2, LookupBase, LookupIs DEF Did
  <2>3. CASE BeginForget(t, i) BY <2>3, BeginForgetBase, BeginForgetIs DEF Did
  <2>4. CASE Remove(t, i) BY <2>4, RemoveBase, RemoveIs DEF Did
  <2>5. CASE \E name \in Names, kind \in NewKinds : Create(t, i, name, kind)
    <3>1. PICK name \in Names, kind \in NewKinds : Create(t, i, name, kind) BY <2>5
    <3>2. PICK e, n, h : CreateAs(t, i, name, e, n, h) BY <3>1, CreateIs
    <3>3. Base' /\ Steady(t) BY <3>1, CreateBase
    <3> QED BY <3>2, <3>3 DEF Did
  <2>6. CASE Flush(t, i) BY <2>6, FlushBase, FlushIs DEF Did
  <2> QED BY <2>1, <2>2, <2>3, <2>4, <2>5, <2>6
<1> QED
  BY <1>1, <1>2, <1>3, <1>4, <1>5, <1>6, <1>7, <1>8, <1>9, <1>10, <1>11 DEF Step

LEMMA StepGrows ==
  ASSUME NEW t \in Threads, Did(t)
  PROVE  Grows
<1>1. ASSUME NEW i \in Inos, NEW e, LookupAs(t, i, e) \/ RemoveAs(t, i, e) PROVE Grows
  BY <1>1 DEF LookupAs, RemoveAs, Grows
<1>2. ASSUME NEW i \in Inos, BeginForgetAs(t, i) \/ FlushAs(t, i) PROVE Grows
  BY <1>2 DEF BeginForgetAs, FlushAs, Grows
<1>3. ASSUME NEW i \in Inos, NEW name, NEW e, NEW n, NEW h, CreateAs(t, i, name, e, n, h)
      PROVE  Grows
  BY <1>3 DEF CreateAs, Grows
<1>4. ASSUME NEW n, NEW h, LoadAs(t, n, h) PROVE Grows BY <1>4 DEF LoadAs, Grows
<1>5. ASSUME NEW h, CountAs(t, h) \/ DropAs(t, h) \/ SaveParentAs(t, h) \/ RemoveNodeAs(t, h)
      PROVE  Grows
  BY <1>5 DEF CountAs, DropAs, SaveParentAs, RemoveNodeAs, Grows
<1>6. CASE \/ LoadFails(t) \/ FoundFails(t) \/ FoundAs(t) \/ ForgetNone(t) \/ ForgetAs(t)
           \/ DropGone(t) \/ SaveSuperAs(t) \/ SaveNodeAs(t) \/ RemoveNodeFails(t)
           \/ SaveRemovedAs(t)
  BY <1>6 DEF LoadFails, FoundFails, FoundAs, ForgetNone, ForgetAs, DropGone, SaveSuperAs,
              SaveNodeAs, RemoveNodeFails, SaveRemovedAs, Grows
<1> QED BY <1>1, <1>2, <1>3, <1>4, <1>5, <1>6 DEF Did

\* A step that makes nothing, takes no file away and begins no request.
LEMMA ShapeKept ==
  ASSUME Base, Base', Shape, NEW t \in Threads, Steady(t), Shrinks, Requests',
         \A u \in Uuids : Stored(u) => Stored(u)',
         \/ req'[t].op \notin Works
         \/ /\ req[t].op \in Works /\ req'[t].op = req[t].op
            /\ req'[t].parent = req[t].parent /\ req'[t].ent = req[t].ent
  PROVE  Shape'
<1>1. Stored(Root)' BY Small DEF Shape, Tidy
<1>2. Tidy' BY <1>1, TidyShrinks DEF Shape
<1>3. Locks' BY LocksKept DEF Shape
<1> QED BY <1>2, <1>3 DEF Shape

LEMMA QuietShape ==
  ASSUME Base, Base', Shape, NEW t \in Threads, Steady(t), Grows, Returns(t),
         Becomes(heap), UNCHANGED files,
         \A i \in Inos : imap'[i] = imap[i] \/ imap'[i] = None
  PROVE  Shape'
<1>1. Shrinks BY QuietShrinks
<1>2. Requests' BY QuietRequests DEF Shape
<1>3. req'[t].op \notin Works /\ \A u \in Uuids : Stored(u) => Stored(u)'
  BY DEF Returns, Works, Stored
<1> QED BY <1>1, <1>2, <1>3, ShapeKept

LEMMA StepShape ==
  ASSUME Base, Base', Shape, NEW t \in Threads, Steady(t), Did(t)
  PROVE  Shape'
<1>0. Grows BY StepGrows
<1> USE <1>0
<1>1. ASSUME NEW i \in Inos, NEW e, LookupAs(t, i, e) PROVE Shape'
  <2>1. Shrinks BY <1>1, LookupShrinks
  <2>2. Stored(Root)' BY <1>1 DEF Shape, Tidy, Stored, LookupAs
  <2>3. Tidy' BY <2>1, <2>2, TidyShrinks DEF Shape
  <2> QED BY <1>1, <2>3, LookupLocks, LookupRequests DEF Shape
<1>2. ASSUME NEW i \in Inos, BeginForgetAs(t, i) PROVE Shape'
  <2>1. Shrinks BY <1>2, BeginForgetShrinks
  <2>2. Requests' BY <1>2, BeginForgetRequests DEF Shape
  <2>3. req'[t].op \notin Works /\ \A u \in Uuids : Stored(u) => Stored(u)'
    BY <1>2 DEF BeginForgetAs, Works, Stored
  <2> QED BY <2>1, <2>2, <2>3, ShapeKept
<1>3. ASSUME NEW i \in Inos, NEW e, RemoveAs(t, i, e) PROVE Shape'
  <2>1. Shrinks BY <1>3, RemoveShrinks
  <2>2. Stored(Root)' BY <1>3 DEF Shape, Tidy, Stored, RemoveAs
  <2>3. Tidy' BY <2>1, <2>2, TidyShrinks DEF Shape
  <2> QED BY <1>3, <2>3, RemoveLocks, RemoveRequests DEF Shape
<1>4. ASSUME NEW i \in Inos, NEW name, NEW e, NEW n, NEW h, CreateAs(t, i, name, e, n, h)
      PROVE  Shape'
  BY <1>4, CreateTidy, CreateLocks, CreateRequests DEF Shape
<1>5. CASE LoadFails(t) BY <1>5, QuietShape DEF LoadFails
<1>6. ASSUME NEW n, NEW h, LoadAs(t, n, h) PROVE Shape'
  <2>1. Shrinks BY <1>6, LoadShrinks
  <2>2. Requests' BY <1>6, LoadRequests DEF Shape
  <2>3. req[t].op \in Works BY <1>6 DEF LoadAs, Base, Staged, StagedAt, Works
  <2>4. /\ req'[t].op = req[t].op /\ req'[t].parent = req[t].parent /\ req'[t].ent = req[t].ent
        /\ \A u \in Uuids : Stored(u) => Stored(u)'
    BY <1>6 DEF LoadAs, Stored
  <2> QED BY <2>1, <2>2, <2>3, <2>4, ShapeKept
<1>7. CASE FoundFails(t) BY <1>7, QuietShape DEF FoundFails
<1>8. CASE FoundAs(t)
  <2>1. Shrinks BY <1>8, FoundShrinks
  <2>2. Requests' BY <1>8, FoundRequests DEF Shape
  <2>3. req[t].op \in Works BY <1>8 DEF FoundAs, Base, Staged, StagedAt, Works
  <2>4. /\ req'[t].op = req[t].op /\ req'[t].parent = req[t].parent /\ req'[t].ent = req[t].ent
        /\ \A u \in Uuids : Stored(u) => Stored(u)'
    BY <1>8 DEF FoundAs, Stored
  <2> QED BY <2>1, <2>2, <2>3, <2>4, ShapeKept
<1>9. CASE ForgetNone(t) BY <1>9, QuietShape DEF ForgetNone
<1>10. ASSUME NEW h, CountAs(t, h) \/ DropAs(t, h) PROVE Shape'
  <2>1. /\ Returns(t) /\ pc[t] \in {"count", "drop"} /\ UNCHANGED <<files, imap>>
        /\ \E n : Rewrites(h, req[t].node, n)
    BY <1>10 DEF CountAs, DropAs
  <2>2. Shrinks BY <2>1, RewritesShrinks
  <2>3. Requests' BY <2>1, RewritesRequests DEF Shape
  <2>4. req'[t].op \notin Works /\ \A u \in Uuids : Stored(u) => Stored(u)'
    BY <2>1 DEF Returns, Works, Stored
  <2> QED BY <2>2, <2>3, <2>4, ShapeKept
<1>17. CASE ForgetAs(t)
  <2>1. Shrinks BY <1>17, ForgetShrinks
  <2>2. Requests' BY <1>17, FoundRequests DEF Shape
  <2>3. req'[t].op \notin Works /\ \A u \in Uuids : Stored(u) => Stored(u)'
    BY <1>17 DEF ForgetAs, Base, Staged, StagedAt, Works, Stored
  <2> QED BY <2>1, <2>2, <2>3, ShapeKept
<1>18. CASE DropGone(t) BY <1>18, QuietShape DEF DropGone, Base, Typed
<1>19. ASSUME NEW i \in Inos, FlushAs(t, i) PROVE Shape'
  <2>1. Shrinks BY <1>19, FlushShrinks
  <2>2. Requests' BY <1>19, FlushRequests DEF Shape
  <2>3. req'[t].op \notin Works /\ \A u \in Uuids : Stored(u) => Stored(u)'
    BY <1>19, StoreIs DEF FlushAs, Base, Staged, StagedAt, Works, Stored
  <2> QED BY <2>1, <2>2, <2>3, ShapeKept
<1>11. ASSUME NEW h, SaveParentAs(t, h) PROVE Shape'
  <2>1. Shrinks BY <1>11, SaveParentShrinks
  <2>2. Requests' BY <1>11, SaveParentRequests DEF Shape
  <2>3. req[t].op \in Works /\ Store(req[t].parent)
    BY <1>11 DEF SaveParentAs, Base, Staged, StagedAt, Works
  <2>4. req[t].parent \in Objs /\ req[t].parent \in Pointers(imap, req) BY <2>3, InUse
  <2>5. \A u \in Uuids : Stored(u) => Stored(u)' BY <2>3, <2>4, StoreIs DEF Stored
  <2>6. req'[t].op = req[t].op /\ req'[t].parent = req[t].parent /\ req'[t].ent = req[t].ent
    BY <1>11 DEF SaveParentAs
  <2> QED BY <2>1, <2>2, <2>3, <2>5, <2>6, ShapeKept
<1>12. CASE SaveSuperAs(t)
  <2>1. Shrinks BY <1>12, SaveSuperShrinks
  <2>2. Requests' BY <1>12, SaveSuperRequests DEF Shape
  <2>3. req[t].op \in Works /\ req'[t] = req[t] /\ \A u \in Uuids : Stored(u) => Stored(u)'
    BY <1>12 DEF SaveSuperAs, Base, Staged, StagedAt, Works, Stored
  <2> QED BY <2>1, <2>2, <2>3, ShapeKept
<1>13. CASE SaveNodeAs(t)
  <2>1. Shrinks BY <1>13, SaveNodeShrinks
  <2>2. Requests' BY <1>13, SaveNodeRequests DEF Shape
  <2>3. req'[t].op \notin Works /\ Store(req[t].node) /\ pc[t] = "node"
    BY <1>13 DEF SaveNodeAs, Returns, Works
  <2>4. req[t].node \in Objs /\ req[t].node \in Pointers(imap, req) BY <2>3, InUse
  <2>5. \A u \in Uuids : Stored(u) => Stored(u)' BY <2>3, <2>4, StoreIs DEF Stored
  <2> QED BY <2>1, <2>2, <2>3, <2>5, ShapeKept
<1>14. CASE RemoveNodeFails(t) BY <1>14, QuietShape DEF RemoveNodeFails
<1>15. ASSUME NEW h, RemoveNodeAs(t, h) PROVE Shape'
  <2>1. Shrinks BY <1>15, RemoveNodeShrinks
  <2>2. /\ req[t].op \in Works /\ req'[t] = req[t]
        /\ files' = [files EXCEPT ![req[t].ent.uuid] = Absent]
    BY <1>15 DEF RemoveNodeAs, Base, Staged, StagedAt, Works
  <2>3. In(heap[req[t].parent].uuid, req[t].ent) BY <2>2, InOwns DEF Base
  <2>4. req[t].ent.uuid # Root
    BY <2>2, <2>3, InUse DEF Shape, Tidy, NotRoot
  <2>5. Stored(Root)' BY <2>2, <2>4, Small DEF Shape, Tidy, Stored, Base, Typed
  <2>6. Tidy' BY <2>1, <2>5, TidyShrinks DEF Shape
  <2>7. Locks' BY <2>2, LocksKept DEF Shape
  <2> QED BY <1>15, <2>6, <2>7, RemoveNodeRequests DEF Shape
<1>16. CASE SaveRemovedAs(t)
  <2>1. Shrinks BY <1>16, SaveRemovedShrinks
  <2>2. Requests' BY <1>16, SaveRemovedRequests DEF Shape
  <2>3. req'[t].op \notin Works /\ Store(req[t].parent) /\ req[t].op \in Works
    BY <1>16 DEF SaveRemovedAs, Returns, Works, Base, Staged, StagedAt
  <2>4. req[t].parent \in Objs /\ req[t].parent \in Pointers(imap, req) BY <2>3, InUse
  <2>5. \A u \in Uuids : Stored(u) => Stored(u)' BY <2>3, <2>4, StoreIs DEF Stored
  <2> QED BY <2>1, <2>2, <2>3, <2>5, ShapeKept
<1> QED
  BY <1>1, <1>2, <1>3, <1>4, <1>5, <1>6, <1>7, <1>8, <1>9, <1>10, <1>11, <1>12, <1>13,
     <1>14, <1>15, <1>16, <1>17, <1>18, <1>19 DEF Did

\* Without requests there are no locks and no changes.
LEMMA AtRest ==
  ASSUME pc = [t \in Threads |-> "idle"], req = [t \in Threads |-> NoReq]
  PROVE  Locks /\ Requests
<1>1. NoReq.op = "none" BY DEF NoReq
<1>2. \A t \in Threads : Locked(t) = {} BY <1>1 DEF Locked
<1>3. Locks BY <1>2 DEF Locks
<1>4. Requests BY <1>1 DEF Requests, RequestAt, NewAt, RemovedAt, ParentAt, Changes
<1> QED BY <1>3, <1>4

LEMMA CrashShape ==
  ASSUME Base, Base', Shape, Crash
  PROVE  Shape'
<1>1. Shrinks BY CrashShrinks DEF Shape
<1>2. Stored(Root)' BY DEF Crash, storage, Shape, Tidy, Stored
<1>3. Tidy' BY <1>1, <1>2, TidyShrinks DEF Shape
<1>4. pc' = [t \in Threads |-> "idle"] /\ req' = [t \in Threads |-> NoReq] BY DEF Crash
<1>5. NoReq.op = "none" BY DEF NoReq
<1>6. \A t \in Threads : Locked(t)' = {} BY <1>4, <1>5, LockedLater DEF Works
<1>7. Locks' BY <1>6 DEF Locks
<1>8. Requests' BY <1>4, <1>5 DEF Requests, RequestAt, NewAt, RemovedAt, ParentAt, Changes
<1> QED BY <1>3, <1>7, <1>8 DEF Shape

LEMMA InitShape ==
  ASSUME Init
  PROVE  Base /\ Shape
BY InitBase, InitTidy, AtRest DEF Init, Shape

LEMMA NextShape ==
  ASSUME Base, Shape, [Next]_vars
  PROVE  Base' /\ Shape'
<1>1. CASE Crash
  <2>1. Base' BY <1>1, CrashBase DEF Shape, Tidy
  <2> QED BY <1>1, <2>1, CrashShape
<1>2. ASSUME NEW t \in Threads, Step(t) \/ Request(t) PROVE Base' /\ Shape'
  BY <1>2, StepIs, StepShape
<1>3. CASE UNCHANGED vars
  <2>1. UNCHANGED <<files, smax, heap, imap, maxIno, known, pc, req, torn, clash, raced, orphans>>
    BY <1>3 DEF vars, memory, storage, history
  <2>2. Base' BY <2>1 DEF Base, Typed, Held, Staged, StagedAt, Room, Saving, Pointers
  <2>3. Tidy'
    BY <2>1 DEF Shape, Tidy, OneHome, NumberOfEntry, OneNumber, NotRoot, OneKind, Leaf, In,
                Owns, Kin, Stored
  <2>4. Locks' BY <2>1, ZenonT(30) DEF Shape, Locks, Locked
  <2>5. Requests'
    BY <2>1 DEF Shape, Requests, RequestAt, NewAt, RemovedAt, ParentAt, Stored
  <2> QED BY <2>2, <2>3, <2>4, <2>5 DEF Shape
<1> QED BY <1>1, <1>2, <1>3 DEF Next

\* Every variable has its type.
THEOREM TypeCorrect == Spec => []TypeOK
<1>1. Base => TypeOK
  <2> SUFFICES ASSUME Base PROVE TypeOK OBVIOUS
  <2>1. \A o \in Objs : heap[o].refs \in Nat BY DEF Base, Typed, Slot
  <2>2. \A t \in Threads : req[t].ent \in Dirent /\ req[t].num \in Nat /\ req[t].count \in Nat
    BY DEF Base, Typed, Req
  <2> QED BY <2>1, <2>2 DEF Base, Typed, TypeOK
<1>2. Init => Base /\ Shape BY InitShape
<1>3. Base /\ Shape /\ [Next]_vars => (Base /\ Shape)' BY NextShape
<1> QED BY <1>1, <1>2, <1>3, PTL DEF Spec

-----------------------------------------------------------------------------
(* Numbers: how max_ino stays ahead.                                       *)

\* P are pairs of an inode number and what has it, X the numbers of which
\* nothing is said, m and s are max_ino in memory and in the storage, A the
\* pairs that have the number m, I the numbers that s may not know yet, and N
\* the values about to be stored.
Fits(P, X, m, s, A, N, I) ==
  /\ \A p, q \in P : p[1] = q[1] /\ p[1] \notin X => p = q
  /\ \A p \in P : p[1] \notin X => p[1] < m \/ (p[1] = m /\ p \in A)
  /\ \A p \in P : p[1] \notin X \cup I => p[1] < s
  /\ \A p \in P, n \in N : p[1] \notin X => p[1] < n

\* Fewer pairs, more numbers of which nothing is said, or a number that s has
\* caught up with.
LEMMA FitsLess ==
  ASSUME NEW P, NEW X, NEW m, NEW s, NEW A, NEW N, NEW I, Fits(P, X, m, s, A, N, I),
         NEW Q \in SUBSET P, NEW Y, X \subseteq Y, NEW M \in SUBSET N, NEW J,
         \A p \in Q : p[1] \in I /\ p[1] \notin J \cup Y => p[1] < s
  PROVE  Fits(Q, Y, m, s, A, M, J)
BY DEF Fits

\* A create in flight: with another one, nothing is said of its number.
LEMMA FitsNew ==
  ASSUME NEW P, NEW X, NEW m \in Nat, NEW s, NEW A, NEW N, NEW I, Fits(P, X, m, s, A, N, I),
         NEW c, c[1] = m, NEW Q, Q \subseteq P \cup {c}, NEW Y, X \subseteq Y,
         A # {} \/ N # {} => m \in Y
  PROVE  Fits(Q, Y, m, s, A \cup {c}, N, I \cup {m})
<1>1. \A p \in P : p[1] = m => p[1] \in Y BY DEF Fits
<1>2. \A p, q \in Q : p[1] = q[1] /\ p[1] \notin Y => p = q BY <1>1 DEF Fits
<1>3. \A p \in Q : p[1] \notin Y => p[1] < m \/ (p[1] = m /\ p \in A \cup {c})
  BY DEF Fits
<1>4. \A p \in Q : p[1] \notin Y \cup (I \cup {m}) => p[1] < s BY DEF Fits
<1>5. \A p \in Q, n \in N : p[1] \notin Y => p[1] < n BY DEF Fits
<1> QED BY <1>2, <1>3, <1>4, <1>5 DEF Fits

\* max_ino is incremented and will be stored.
LEMMA FitsNext ==
  ASSUME NEW P, \A p \in P : p[1] \in Nat, NEW X, NEW m \in Nat, NEW s, NEW A, NEW N, NEW I,
         Fits(P, X, m, s, A, N, I), NEW Q \in SUBSET P, NEW Y, X \subseteq Y, NEW B
  PROVE  Fits(Q, Y, m + 1, s, B, N \cup {m + 1}, I)
<1>1. \A p \in Q : p[1] \in Nat /\ (p[1] \notin Y => p[1] < m + 1) BY DEF Fits
<1>2. \A p, q \in Q : p[1] = q[1] /\ p[1] \notin Y => p = q BY DEF Fits
<1>3. \A p \in Q : p[1] \notin Y \cup I => p[1] < s BY DEF Fits
<1>4. \A p \in Q, n \in N \cup {m + 1} : p[1] \notin Y => p[1] < n BY <1>1 DEF Fits
<1> QED BY <1>1, <1>2, <1>3, <1>4 DEF Fits

\* max_ino is stored.
LEMMA FitsStored ==
  ASSUME NEW P, NEW X, NEW m, NEW s, NEW A, NEW N, NEW I, Fits(P, X, m, s, A, N, I),
         NEW Q \in SUBSET P, NEW n \in N
  PROVE  Fits(Q, X, m, n, A, N, I)
BY DEF Fits

\* A crash: max_ino is what was stored.
LEMMA FitsCrash ==
  ASSUME NEW P, NEW X, NEW m, NEW s, NEW A, NEW N, NEW I, Fits(P, X, m, s, A, N, I),
         NEW Q \in SUBSET P, NEW Y, X \subseteq Y, \A p \in Q : p[1] \notin Y => p[1] \notin I
  PROVE  Fits(Q, Y, s, s, {}, {}, {})
BY DEF Fits

\* The nodes and the entries with their numbers.
Nodes == {c \in Inos \X Uuids : Owns(c[1], c[2])}
Claims == {<<e.ino, e.uuid>> : e \in {d \in Dirent : \E u \in Uuids : In(u, d)}}

AtParent == {<<req[t].ent.ino, req[t].ent.uuid>> : t \in Saving}
Numbering == {t \in Threads : pc[t] \in {"super", "node"}}
Nexts == {req[t].num : t \in Numbering}

NodesFit == Fits(Nodes, clash, maxIno, smax, AtParent, Nexts, InFlight("create"))
AllFit == Fits(Nodes \cup Claims, Suspect, maxIno, smax, AtParent, Nexts, InFlight("create"))

\* A create alone has the number it is given; of others nothing is said.
CreateAt(t) ==
  LET i == req[t].ent.ino IN
  req[t].op = "create" =>
    /\ \A s \in Threads \ {t} : req[s].op = "create" => i \in clash
    /\ pc[t] = "parent" => i = maxIno \/ i \in clash
    /\ pc[t] # "parent" => i = Replied(t) \/ {i, Replied(t)} \subseteq clash
    /\ pc[t] = "node" => i < smax \/ i \in clash
Numbers == NodesFit /\ AllFit /\ \A t \in Threads : CreateAt(t)

LEMMA Pairs ==
  ASSUME Base
  PROVE  /\ \A c \in Nodes \cup Claims : c[1] \in Inos
         /\ \A u \in Uuids, i \in Inos : Owns(i, u) => <<i, u>> \in Nodes
         /\ \A u \in Uuids, e \in Dirent : In(u, e) => <<e.ino, e.uuid>> \in Claims
<1>1. \A c \in Nodes : c[1] \in Inos BY DEF Nodes
<1>2. \A c \in Claims : c[1] \in Inos BY DEF Claims, Dirent
<1>3. ASSUME NEW u \in Uuids, NEW i \in Inos, Owns(i, u) PROVE <<i, u>> \in Nodes
  BY <1>3 DEF Nodes
<1>4. ASSUME NEW u \in Uuids, NEW e \in Dirent, In(u, e) PROVE <<e.ino, e.uuid>> \in Claims
  BY <1>4 DEF Claims
<1> QED BY <1>1, <1>2, <1>3, <1>4

LEMMA FewerPairs ==
  ASSUME Shrinks
  PROVE  Nodes' \subseteq Nodes /\ Claims' \subseteq Claims
<1>1. Nodes' \subseteq Nodes BY DEF Nodes, Shrinks
<1>2. Claims' \subseteq Claims BY DEF Claims, Shrinks
<1> QED BY <1>1, <1>2

\* Which creates are in flight.
LEMMA CreatesAre ==
  ASSUME Base
  PROVE  /\ \A t \in Threads : req[t].op = "create" <=> t \in Saving \cup Numbering
         /\ Creating = Saving \cup Numbering
         /\ InFlight("create") = {req[t].ent.ino : t \in Creating}
<1>1. \A t \in Threads : req[t].op = "create" <=> t \in Saving \cup Numbering
  BY DEF Base, Staged, StagedAt, Saving, Numbering
<1>2. Creating = Saving \cup Numbering BY <1>1 DEF Creating, Saving, Numbering
<1> QED BY <1>1, <1>2 DEF InFlight, Creating

\* The creates in flight under a step that is none of theirs.
LEMMA OtherCreates ==
  ASSUME Base, Base', NEW t \in Threads,
         \A s \in Threads \ {t} : pc'[s] = pc[s] /\ req'[s] = req[s],
         req[t].op # "create", req'[t].op # "create"
  PROVE  /\ AtParent' = AtParent /\ Nexts' = Nexts /\ InFlight("create")' = InFlight("create")
         /\ \A s \in Threads : req'[s].op = "create" => s # t /\ req[s].op = "create"
<1>1. pc[t] \notin {"parent", "super", "node"} /\ pc'[t] \notin {"parent", "super", "node"}
  BY DEF Base, Staged, StagedAt
<1>2. Saving' = Saving /\ Numbering' = Numbering BY <1>1 DEF Saving, Numbering
<1>3. t \notin Saving /\ t \notin Numbering BY <1>1 DEF Saving, Numbering
<1>4. AtParent' = AtParent BY <1>2, <1>3 DEF AtParent, Saving
<1>5. Nexts' = Nexts BY <1>2, <1>3 DEF Nexts, Numbering
<1>6. InFlight("create")' = InFlight("create") BY DEF InFlight
<1> QED BY <1>4, <1>5, <1>6

LEMMA NumbersStay ==
  ASSUME Base, Base', Numbers, Shrinks, NEW t \in Threads,
         \A s \in Threads \ {t} : pc'[s] = pc[s] /\ req'[s] = req[s],
         req[t].op # "create", req'[t].op # "create",
         UNCHANGED <<maxIno, smax, torn>>, clash \subseteq clash'
  PROVE  Numbers'
<1>1. /\ AtParent' = AtParent /\ Nexts' = Nexts /\ InFlight("create")' = InFlight("create")
      /\ \A s \in Threads : req'[s].op = "create" => s # t /\ req[s].op = "create"
  BY OtherCreates
<1>2. Nodes' \subseteq Nodes /\ Claims' \subseteq Claims /\ Suspect \subseteq Suspect'
  BY FewerPairs DEF Suspect
<1>3. NodesFit'
  <2>1. \A p \in Nodes' : p[1] \in InFlight("create")
          /\ p[1] \notin InFlight("create")' \cup clash' => p[1] < smax
    BY <1>1
  <2> QED BY <1>1, <1>2, <2>1, FitsLess DEF Numbers, NodesFit
<1>4. AllFit'
  <2>1. (Nodes \cup Claims)' \subseteq Nodes \cup Claims BY <1>2
  <2> QED BY <1>1, <1>2, <2>1, FitsLess DEF Numbers, AllFit
<1>5. \A s \in Threads : CreateAt(s)' BY <1>1 DEF Numbers, CreateAt, Replied
<1> QED BY <1>3, <1>4, <1>5 DEF Numbers

LEMMA CreateNumbers ==
  ASSUME Base, Base', Tidy, Numbers, NEW t \in Threads, Steady(t), NEW i \in Inos,
         NEW name, NEW e, NEW n, NEW h, CreateAs(t, i, name, e, n, h)
  PROVE  Numbers'
<1>0. PICK c : c = <<e.ino, e.uuid>> OBVIOUS
<1>1. /\ e \in Dirent /\ e.ino = maxIno /\ e.uuid \in Uuids /\ maxIno \in Nat
      /\ pc[t] = "idle" /\ pc'[t] = "parent" /\ req'[t].op = "create" /\ req'[t].ent = e
      /\ \A s \in Threads \ {t} : pc'[s] = pc[s] /\ req'[s] = req[s]
      /\ UNCHANGED <<maxIno, smax, torn>>
      /\ clash' = IF Creating = {} THEN clash
                  ELSE clash \cup {maxIno} \cup {req[s].ent.ino : s \in Creating}
  BY Small DEF CreateAs, Dirent, Base, Typed
<1>2. t \notin Saving /\ t \notin Numbering /\ Saving' = Saving \cup {t} /\ Numbering' = Numbering
  BY <1>1 DEF Saving, Numbering
<1>3. AtParent' = AtParent \cup {c}
  <2>1. \A s \in Saving : req'[s] = req[s] BY <1>1, <1>2 DEF Saving
  <2> QED BY <1>0, <1>1, <1>2, <2>1 DEF AtParent
<1>4. Nexts' = Nexts BY <1>1, <1>2 DEF Nexts, Numbering
<1>5. InFlight("create")' = InFlight("create") \cup {maxIno}
  <2>1. req[t].op # "create" BY <1>1 DEF Base, Staged, StagedAt
  <2> QED BY <1>1, <2>1 DEF InFlight
<1>6. Nodes' \subseteq Nodes \cup {c} /\ Claims' \subseteq Claims \cup {c}
  <2>1. \A u \in Uuids, d \in Dirent : In(u, d)' => (\E v \in Uuids : In(v, d)) \/ d = e
    BY CreateTidy
  <2>2. \A u \in Uuids, j \in Inos : Owns(j, u)' => Owns(j, u) \/ (j = e.ino /\ u = e.uuid)
    BY CreateTidy
  <2>3. Nodes' \subseteq Nodes \cup {c} BY <1>0, <2>2 DEF Nodes
  <2>4. Claims' \subseteq Claims \cup {c} BY <1>0, <2>1 DEF Claims
  <2> QED BY <2>3, <2>4
<1>7. clash \subseteq clash' /\ Suspect \subseteq Suspect' BY <1>1 DEF Suspect
<1>8. AtParent # {} \/ Nexts # {} => maxIno \in clash' /\ maxIno \in Suspect'
  <2>1. AtParent # {} \/ Nexts # {} => Creating # {}
    BY CreatesAre DEF AtParent, Nexts
  <2> QED BY <1>1, <2>1 DEF Suspect
<1>9. c[1] = maxIno BY <1>0, <1>1
<1>10. NodesFit'
  <2>1. Fits(Nodes, clash, maxIno, smax, AtParent, Nexts, InFlight("create"))
    BY DEF Numbers, NodesFit
  <2>2. Fits(Nodes', clash', maxIno, smax, AtParent \cup {c}, Nexts, InFlight("create") \cup {maxIno})
    BY <1>1, <1>6, <1>7, <1>8, <1>9, <2>1, FitsNew
  <2> QED BY <1>1, <1>3, <1>4, <1>5, <2>2 DEF NodesFit
<1>11. AllFit'
  <2>1. Fits(Nodes \cup Claims, Suspect, maxIno, smax, AtParent, Nexts, InFlight("create"))
    BY DEF Numbers, AllFit
  <2>2. (Nodes \cup Claims)' \subseteq (Nodes \cup Claims) \cup {c} BY <1>6
  <2>3. Fits((Nodes \cup Claims)', Suspect', maxIno, smax, AtParent \cup {c}, Nexts,
             InFlight("create") \cup {maxIno})
    BY <1>1, <1>7, <1>8, <1>9, <2>1, <2>2, FitsNew
  <2> QED BY <1>1, <1>3, <1>4, <1>5, <2>3 DEF AllFit
<1>12. ASSUME NEW s \in Threads PROVE CreateAt(s)'
  <2>1. CASE s = t
    <3>1. (\E r \in Threads \ {t} : req[r].op = "create") => maxIno \in clash'
      BY <1>1 DEF Creating
    <3>2. \A r \in Threads \ {t} : req'[r].op = "create" => maxIno \in clash'
      BY <1>1, <3>1
    <3> QED BY <1>1, <2>1, <3>2 DEF CreateAt
  <2>2. CASE s # t
    <3>1. req[s].op = "create" => req[s].ent.ino \in clash' BY <1>1 DEF Creating
    <3>2. CreateAt(s) /\ req'[s] = req[s] /\ pc'[s] = pc[s] BY <1>1, <2>2 DEF Numbers
    <3> QED BY <1>1, <1>7, <2>2, <3>1, <3>2 DEF CreateAt, Replied
  <2> QED BY <2>1, <2>2
<1> QED BY <1>10, <1>11, <1>12 DEF Numbers

LEMMA SaveParentNumbers ==
  ASSUME Base, Base', Numbers, NEW t \in Threads, Steady(t), NEW h, SaveParentAs(t, h)
  PROVE  Numbers'
<1> DEFINE i == req[t].ent.ino
<1>1. /\ pc[t] = "parent" /\ pc'[t] = "super" /\ req'[t].op = req[t].op
      /\ req'[t].ent = req[t].ent /\ req'[t].num = maxIno + 1
      /\ \A s \in Threads \ {t} : pc'[s] = pc[s] /\ req'[s] = req[s]
      /\ maxIno' = maxIno + 1 /\ UNCHANGED <<smax, torn>> /\ maxIno \in Nat
      /\ clash' = IF maxIno = i THEN clash ELSE clash \cup {maxIno}
  BY Small DEF SaveParentAs, Goes, Base, Typed
<1>2. Nexts' = Nexts \cup {maxIno + 1}
  <2>1. t \notin Numbering /\ Numbering' = Numbering \cup {t} BY <1>1 DEF Numbering
  <2>2. \A s \in Numbering : req'[s] = req[s] BY <1>1, <2>1 DEF Numbering
  <2> QED BY <1>1, <2>1, <2>2 DEF Nexts
<1>3. InFlight("create")' = InFlight("create")
  <2>1. \A s \in Threads : req'[s].op = req[s].op /\ req'[s].ent = req[s].ent BY <1>1
  <2> QED BY <2>1 DEF InFlight
<1>4. Nodes' \subseteq Nodes /\ Claims' \subseteq Claims BY SaveParentShrinks, FewerPairs
<1>5. clash \subseteq clash' /\ Suspect \subseteq Suspect' BY <1>1 DEF Suspect
<1>6. \A c \in Nodes \cup Claims : c[1] \in Nat BY Pairs, Small
<1>7. NodesFit'
  BY <1>1, <1>2, <1>3, <1>4, <1>5, <1>6, FitsNext DEF Numbers, NodesFit
<1>8. AllFit'
  <2>1. (Nodes \cup Claims)' \in SUBSET (Nodes \cup Claims) BY <1>4
  <2> QED BY <1>1, <1>2, <1>3, <1>5, <1>6, <2>1, FitsNext DEF Numbers, AllFit
<1>9. ASSUME NEW s \in Threads PROVE CreateAt(s)'
  <2>1. CreateAt(s) BY DEF Numbers
  <2>2. CASE s = t
    <3>1. req[t].op = "create" BY <1>1 DEF Base, Staged, StagedAt
    <3>2. \A r \in Threads \ {t} : req'[r].op = "create" => i \in clash'
      BY <1>1, <1>5, <2>1, <2>2, <3>1 DEF CreateAt
    <3>3. i = maxIno \/ {i, maxIno} \subseteq clash'
      BY <1>1, <2>1, <2>2, <3>1 DEF CreateAt
    <3>4. Replied(t)' = maxIno BY <1>1 DEF Replied
    <3> QED BY <1>1, <2>2, <3>1, <3>2, <3>3, <3>4 DEF CreateAt
  <2>3. CASE s # t
    <3>1. req'[s] = req[s] /\ pc'[s] = pc[s] BY <1>1, <2>3
    <3>2. req[t].op = "create" BY <1>1 DEF Base, Staged, StagedAt
    <3>3. req[s].op = "create" => req[s].ent.ino \in clash
      BY <2>1, <2>3, <3>2 DEF CreateAt
    <3> QED BY <1>1, <1>5, <2>1, <2>3, <3>1, <3>3 DEF CreateAt, Replied
  <2> QED BY <2>2, <2>3
<1> QED BY <1>7, <1>8, <1>9 DEF Numbers

LEMMA SaveSuperNumbers ==
  ASSUME Base, Base', Numbers, NEW t \in Threads, Steady(t), SaveSuperAs(t)
  PROVE  Numbers'
<1>1. /\ pc[t] = "super" /\ pc'[t] = "node" /\ req' = req /\ smax' = req[t].num
      /\ \A s \in Threads \ {t} : pc'[s] = pc[s]
      /\ UNCHANGED <<maxIno, torn, clash, orphans>>
  BY DEF SaveSuperAs, Goes, Base, Typed
<1>2. Saving' = Saving /\ Numbering' = Numbering BY <1>1 DEF Saving, Numbering
<1>3. AtParent' = AtParent /\ Nexts' = Nexts /\ InFlight("create")' = InFlight("create")
  BY <1>1, <1>2 DEF AtParent, Nexts, InFlight
<1>4. Nodes' \subseteq Nodes /\ Claims' \subseteq Claims /\ Suspect' = Suspect
  BY <1>1, SaveSuperShrinks, FewerPairs DEF Suspect
<1>5. req[t].num \in Nexts BY <1>1 DEF Nexts, Numbering
<1>6. NodesFit' BY <1>1, <1>3, <1>4, <1>5, FitsStored DEF Numbers, NodesFit
<1>7. AllFit'
  <2>1. (Nodes \cup Claims)' \in SUBSET (Nodes \cup Claims) BY <1>4
  <2> QED BY <1>1, <1>3, <1>4, <1>5, <2>1, FitsStored DEF Numbers, AllFit
<1>8. ASSUME NEW s \in Threads PROVE CreateAt(s)'
  <2>1. CreateAt(s) BY DEF Numbers
  <2>2. req[t].op = "create" BY <1>1 DEF Base, Staged, StagedAt
  <2>3. CASE s = t
    <3>1. req[t].num \in Nat BY DEF Base, Typed, Req
    <3>2. req[t].ent.ino = req[t].num - 1 \/ req[t].ent.ino \in clash
      BY <1>1, <2>1, <2>2, <2>3 DEF CreateAt, Replied
    <3>3. req[t].ent.ino < smax' \/ req[t].ent.ino \in clash BY <1>1, <3>1, <3>2
    <3> QED BY <1>1, <2>1, <2>3, <3>3 DEF CreateAt, Replied
  <2>4. CASE s # t BY <1>1, <2>1, <2>2, <2>4 DEF CreateAt, Replied
  <2> QED BY <2>3, <2>4
<1> QED BY <1>6, <1>7, <1>8 DEF Numbers

LEMMA SaveNodeNumbers ==
  ASSUME Base, Base', Numbers, NEW t \in Threads, Steady(t), SaveNodeAs(t)
  PROVE  Numbers'
<1> DEFINE i == req[t].ent.ino
<1>1. /\ pc[t] = "node" /\ pc'[t] = "idle" /\ req'[t].op = "none"
      /\ \A s \in Threads \ {t} : pc'[s] = pc[s] /\ req'[s] = req[s]
      /\ UNCHANGED <<maxIno, smax, torn, clash, orphans>>
  BY DEF SaveNodeAs, Returns, Goes
<1>2. Saving' = Saving /\ Numbering' = Numbering \ {t} /\ t \notin Saving
  BY <1>1 DEF Saving, Numbering
<1>3. AtParent' = AtParent BY <1>1, <1>2 DEF AtParent, Saving
<1>4. Nexts' \subseteq Nexts BY <1>1, <1>2 DEF Nexts, Numbering
<1>5. req[t].op = "create" BY <1>1 DEF Base, Staged, StagedAt
<1>6. \A j \in InFlight("create") : j = i \/ j \in InFlight("create")'
  BY <1>1 DEF InFlight
<1>7. i < smax \/ i \in clash
  <2>1. CreateAt(t) BY DEF Numbers
  <2> QED BY <1>1, <1>5, <2>1 DEF CreateAt
<1>8. Nodes' \subseteq Nodes /\ Claims' \subseteq Claims /\ Suspect' = Suspect
      /\ clash \subseteq Suspect
  BY <1>1, SaveNodeShrinks, FewerPairs DEF Suspect
<1>9. NodesFit' BY <1>1, <1>3, <1>4, <1>6, <1>7, <1>8, FitsLess DEF Numbers, NodesFit
<1>10. AllFit'
  <2>1. (Nodes \cup Claims)' \in SUBSET (Nodes \cup Claims) BY <1>8
  <2> QED BY <1>1, <1>3, <1>4, <1>6, <1>7, <1>8, <2>1, FitsLess DEF Numbers, AllFit
<1>11. \A s \in Threads : CreateAt(s)' BY <1>1 DEF Numbers, CreateAt, Replied
<1> QED BY <1>9, <1>10, <1>11 DEF Numbers

\* The node of a create that a crash cuts short was only in memory.
LEMMA CrashNumbers ==
  ASSUME Base, Base', Shape, Numbers, Crash
  PROVE  Numbers'
<1>1. /\ maxIno' = smax /\ UNCHANGED <<smax, files, clash>>
      /\ pc' = [t \in Threads |-> "idle"] /\ req' = [t \in Threads |-> NoReq]
      /\ torn' = torn \cup {req[t].ent.ino : t \in {s \in Threads : req[s].op \in {"create", "remove"}}}
      /\ heap' = [o \in Objs |-> IF o = Root THEN Loaded(Root) ELSE Free]
  BY DEF Crash, storage
<1>2. NoReq.op = "none" BY DEF NoReq
<1>3. AtParent' = {} /\ Nexts' = {} /\ InFlight("create")' = {}
  <2>1. Saving' = {} /\ Numbering' = {} BY <1>1 DEF Saving, Numbering
  <2> QED BY <1>1, <1>2, <2>1 DEF AtParent, Nexts, InFlight
<1>4. Nodes' \subseteq Nodes /\ Claims' \subseteq Claims BY CrashShrinks, FewerPairs DEF Shape
<1>5. Suspect \subseteq Suspect' /\ InFlight("create") \subseteq Suspect'
  BY <1>1 DEF Suspect, InFlight
<1>6. ASSUME NEW c \in Nodes', c[1] \notin clash PROVE c[1] \notin InFlight("create")
  <2> SUFFICES ASSUME NEW t \in Threads, req[t].op = "create", c[1] = req[t].ent.ino
               PROVE  FALSE
    BY DEF InFlight
  <2>1. NewAt(t) BY DEF Shape, Requests, RequestAt
  <2>2. req[t].node \in Objs /\ req[t].ent.uuid \in Uuids /\ req[t].ent.ino \in Inos
    BY InUse DEF Base, Staged, StagedAt
  <2>3. Owns(req[t].ent.ino, req[t].ent.uuid) BY <2>1, <2>2 DEF NewAt, Owns
  <2>4. <<req[t].ent.ino, req[t].ent.uuid>> \in Nodes BY <2>2, <2>3, Pairs
  <2>5. c = <<req[t].ent.ino, req[t].ent.uuid>>
    BY <1>4, <1>6, <2>4 DEF Numbers, NodesFit, Fits
  <2>6. Owns(c[1], c[2])' BY DEF Nodes
  <2>7. Stored(req[t].ent.uuid)
    <3>1. req[t].ent.uuid # Root
      <4>1. In(heap[req[t].parent].uuid, req[t].ent) /\ heap[req[t].parent].uuid \in Uuids
        BY InOwns, InUse DEF Base, Works
      <4> QED BY <4>1, InUse DEF Shape, Tidy, NotRoot
    <3>2. Loaded(Root).uuid = Root /\ Free.uuid = None BY DEF Loaded, Free
    <3> QED BY <1>1, <2>2, <2>5, <2>6, <3>1, <3>2, Small DEF Owns, Stored
  <2> QED BY <1>6, <2>1, <2>7 DEF NewAt
<1>7. NodesFit'
  <2>1. Fits(Nodes, clash, maxIno, smax, AtParent, Nexts, InFlight("create"))
    BY DEF Numbers, NodesFit
  <2>2. Nodes' \in SUBSET Nodes /\ \A c \in Nodes' : c[1] \notin clash => c[1] \notin InFlight("create")
    BY <1>4, <1>6
  <2>3. Fits(Nodes', clash, smax, smax, {}, {}, {}) BY <2>1, <2>2, FitsCrash
  <2> QED BY <1>1, <1>3, <2>3 DEF NodesFit
<1>8. AllFit'
  <2>1. Fits(Nodes \cup Claims, Suspect, maxIno, smax, AtParent, Nexts, InFlight("create"))
    BY DEF Numbers, AllFit
  <2>2. (Nodes \cup Claims)' \in SUBSET (Nodes \cup Claims) BY <1>4
  <2>3. Fits((Nodes \cup Claims)', Suspect', smax, smax, {}, {}, {})
    BY <1>5, <2>1, <2>2, FitsCrash
  <2> QED BY <1>1, <1>3, <2>3 DEF AllFit
<1>9. \A t \in Threads : CreateAt(t)' BY <1>1, <1>2 DEF CreateAt
<1> QED BY <1>7, <1>8, <1>9 DEF Numbers

LEMMA InitNumbers ==
  ASSUME Init
  PROVE  Numbers
<1> DEFINE node == [own |-> 2, kind |-> "dir", ents |-> {}]
<1>1. /\ files[Root] = RootNode /\ files[2] = node
      /\ \A u \in Uuids \ {Root, 2} : files[u] = Absent
      /\ heap = [o \in Objs |-> IF o = Root THEN Loaded(Root) ELSE Free]
      /\ pc = [t \in Threads |-> "idle"] /\ req = [t \in Threads |-> NoReq]
      /\ smax = 3 /\ maxIno = 3
  BY Small DEF Init
<1>2. /\ RootNode.own = Root /\ RootNode.ents = {SubEnt}
      /\ node.own = 2 /\ node.ents = {} /\ Absent.ents = {} /\ Absent.own = None
      /\ SubEnt.uuid = 2 /\ SubEnt.ino = 2 /\ RootNode.kind = "dir" /\ node.kind = "dir"
  BY DEF RootNode, Absent, SubEnt
<1>3. Loaded(Root).uuid = Root /\ Loaded(Root).own = Root /\ Loaded(Root).ents = {SubEnt}
  BY <1>1, <1>2, Small DEF Loaded
<1>4. NoReq.op = "none" /\ Free.uuid \notin Uuids BY Small DEF NoReq, Free
<1>5. ASSUME NEW u \in Uuids, NEW e \in Dirent, In(u, e) PROVE e = SubEnt
  BY <1>1, <1>2, <1>3, <1>4, <1>5 DEF In, Works
<1>6. ASSUME NEW u \in Uuids, NEW i \in Inos, Owns(i, u) PROVE i = u /\ i < 3
  <2>1. CASE Stored(u) /\ files[u].own = i BY <1>1, <1>2, <2>1 DEF Stored
  <2>2. CASE \E o \in Objs : heap[o].uuid = u /\ heap[o].own = i
    BY <1>1, <1>3, <1>4, <2>2
  <2> QED BY <1>6, <2>1, <2>2 DEF Owns
<1>7. \A c \in Nodes : c = <<c[1], c[1]>> /\ c[1] < 3 BY <1>6 DEF Nodes
<1>8. Claims \subseteq {<<2, 2>>} BY <1>2, <1>5 DEF Claims
<1>9. \A c \in Nodes \cup Claims : c = <<c[1], c[1]>> /\ c[1] < 3 BY <1>7, <1>8
<1>10. Nexts = {} BY <1>1 DEF Nexts, Numbering
<1>11. NodesFit BY <1>1, <1>9, <1>10 DEF NodesFit, Fits
<1>12. AllFit BY <1>1, <1>9, <1>10 DEF AllFit, Fits
<1>13. \A t \in Threads : CreateAt(t) BY <1>1, <1>4 DEF CreateAt
<1> QED BY <1>11, <1>12, <1>13 DEF Numbers

\* A step that is not a create's.
LEMMA NoCreate ==
  ASSUME Base, Base', Shape, NEW t \in Threads, Steady(t), Did(t)
  PROVE  \/ \E i \in Inos : \E name, e, n, h : CreateAs(t, i, name, e, n, h)
         \/ \E h : SaveParentAs(t, h)
         \/ SaveSuperAs(t) \/ SaveNodeAs(t)
         \/ /\ Shrinks /\ req[t].op # "create" /\ req'[t].op # "create"
            /\ UNCHANGED <<maxIno, smax, torn>> /\ clash \subseteq clash'
<1> DEFINE Goal == /\ Shrinks /\ req[t].op # "create" /\ req'[t].op # "create"
                   /\ UNCHANGED <<maxIno, smax, torn>> /\ clash \subseteq clash'
<1>1. StagedAt(t) BY DEF Base, Staged
<1>2. ASSUME NEW i \in Inos, NEW e, LookupAs(t, i, e) PROVE Goal
  BY <1>1, <1>2, LookupShrinks DEF LookupAs, StagedAt
<1>3. ASSUME NEW i \in Inos, BeginForgetAs(t, i) PROVE Goal
  BY <1>1, <1>3, BeginForgetShrinks, ZenonT(30) DEF BeginForgetAs, StagedAt
<1>4. ASSUME NEW i \in Inos, NEW e, RemoveAs(t, i, e) PROVE Goal
  BY <1>1, <1>4, RemoveShrinks DEF RemoveAs, StagedAt
<1>5. CASE LoadFails(t) BY <1>1, <1>5, QuietShrinks DEF LoadFails, StagedAt, Returns
<1>6. ASSUME NEW n, NEW h, LoadAs(t, n, h) PROVE Goal
  BY <1>1, <1>6, LoadShrinks DEF LoadAs, StagedAt
<1>7. CASE FoundFails(t) BY <1>1, <1>7, QuietShrinks DEF FoundFails, StagedAt, Returns
<1>8. CASE FoundAs(t) \/ ForgetAs(t)
  BY <1>1, <1>8, FoundShrinks, ForgetShrinks DEF FoundAs, ForgetAs, StagedAt
<1>9. CASE ForgetNone(t) \/ DropGone(t)
  BY <1>1, <1>9, QuietShrinks DEF ForgetNone, DropGone, StagedAt, Returns
<1>10. ASSUME NEW h, CountAs(t, h) \/ DropAs(t, h) PROVE Goal
  BY <1>1, <1>10, RewritesShrinks DEF CountAs, DropAs, StagedAt, Returns
<1>11. CASE RemoveNodeFails(t)
  BY <1>1, <1>11, QuietShrinks DEF RemoveNodeFails, StagedAt, Returns
<1>12. ASSUME NEW h, RemoveNodeAs(t, h) PROVE Goal
  BY <1>1, <1>12, RemoveNodeShrinks DEF RemoveNodeAs, StagedAt
<1>13. CASE SaveRemovedAs(t)
  BY <1>1, <1>13, SaveRemovedShrinks DEF SaveRemovedAs, StagedAt, Returns
<1>14. ASSUME NEW i \in Inos, FlushAs(t, i) PROVE Goal
  BY <1>1, <1>14, FlushShrinks, StepGrows DEF FlushAs, StagedAt, Grows
<1> QED
  BY <1>2, <1>3, <1>4, <1>5, <1>6, <1>7, <1>8, <1>9, <1>10, <1>11, <1>12, <1>13, <1>14
     DEF Did

LEMMA StepNumbers ==
  ASSUME Base, Base', Shape, Numbers, NEW t \in Threads, Steady(t), Did(t)
  PROVE  Numbers'
<1>1. ASSUME NEW i \in Inos, NEW name, NEW e, NEW n, NEW h, CreateAs(t, i, name, e, n, h)
      PROVE  Numbers'
  BY <1>1, CreateNumbers DEF Shape
<1>2. ASSUME NEW h, SaveParentAs(t, h) PROVE Numbers' BY <1>2, SaveParentNumbers
<1>3. CASE SaveSuperAs(t) BY <1>3, SaveSuperNumbers
<1>4. CASE SaveNodeAs(t) BY <1>4, SaveNodeNumbers
<1>5. CASE /\ Shrinks /\ req[t].op # "create" /\ req'[t].op # "create"
           /\ UNCHANGED <<maxIno, smax, torn>> /\ clash \subseteq clash'
  <2>1. \A s \in Threads \ {t} : pc'[s] = pc[s] /\ req'[s] = req[s] BY DEF Steady
  <2> QED BY <1>5, <2>1, NumbersStay
<1> QED BY <1>1, <1>2, <1>3, <1>4, <1>5, NoCreate

LEMMA StutterNumbers ==
  ASSUME Numbers, UNCHANGED vars
  PROVE  Numbers'
<1>1. UNCHANGED <<files, smax, heap, maxIno, pc, req, torn, clash, orphans>>
  BY DEF vars, memory, storage, history
<1>2. Nodes' = Nodes BY <1>1 DEF Nodes, Owns, Stored
<1>3. Claims' = Claims BY <1>1 DEF Claims, In
<1>4. AtParent' = AtParent /\ Nexts' = Nexts /\ InFlight("create")' = InFlight("create")
  BY <1>1 DEF AtParent, Nexts, InFlight, Saving, Numbering
<1>5. NodesFit' /\ AllFit' BY <1>1, <1>2, <1>3, <1>4 DEF Numbers, NodesFit, AllFit, Suspect
<1>6. \A t \in Threads : CreateAt(t)' BY <1>1 DEF Numbers, CreateAt, Replied
<1> QED BY <1>5, <1>6 DEF Numbers

LEMMA NextNumbers ==
  ASSUME Base, Shape, Numbers, [Next]_vars
  PROVE  Numbers'
<1>1. Base' BY NextShape
<1>2. CASE Crash BY <1>1, <1>2, CrashNumbers
<1>3. ASSUME NEW t \in Threads, Step(t) \/ Request(t) PROVE Numbers'
  BY <1>3, StepIs, StepNumbers
<1>4. CASE UNCHANGED vars BY <1>4, StutterNumbers
<1> QED BY <1>2, <1>3, <1>4 DEF Next

LEMMA NumbersInvariant == Spec => [](Base /\ Shape /\ Numbers)
<1>1. Init => Base /\ Shape /\ Numbers BY InitShape, InitNumbers
<1>2. Base /\ Shape /\ Numbers /\ [Next]_vars => (Base /\ Shape /\ Numbers)'
  BY NextShape, NextNumbers
<1> QED BY <1>1, <1>2, PTL DEF Spec

\* An entry of a file is a claim.
LEMMA DirentClaims ==
  ASSUME Base, NEW d \in Dirents
  PROVE  /\ d \in Dirent /\ \E u \in Uuids : In(u, d)
         /\ <<d.ino, d.uuid>> \in Claims
<1>1. PICK u \in Uuids : d \in files[u].ents BY DEF Dirents
<1>2. d \in Dirent BY <1>1, Files DEF Base
<1>3. In(u, d) BY <1>1 DEF In
<1> QED BY <1>2, <1>3, Pairs

\* No two entries, in whatever directories, have one inode number, whatever
\* runs at the same time and whatever crashes, but for the numbers that creates
\* running at the same time were given and those of requests cut short.
THEOREM NumbersUnique == Spec => []OneNodePerIno
<1>1. Base /\ Shape /\ Numbers => OneNodePerIno
  <2> SUFFICES ASSUME Base, Shape, Numbers, NEW d \in Dirents, NEW e \in Dirents,
                      d.ino = e.ino, d.ino \notin Suspect
               PROVE  d = e
    BY DEF OneNodePerIno
  <2>1. /\ d \in Dirent /\ e \in Dirent
        /\ (\E u \in Uuids : In(u, d)) /\ (\E v \in Uuids : In(v, e))
        /\ <<d.ino, d.uuid>> \in Claims /\ <<e.ino, e.uuid>> \in Claims
    BY DirentClaims
  <2>2. /\ \A p, q \in Nodes \cup Claims : p[1] = q[1] /\ p[1] \notin Suspect => p = q
    BY DEF Numbers, AllFit, Fits
  <2>3. <<d.ino, d.uuid>> = <<e.ino, e.uuid>> BY <2>1, <2>2
  <2>4. d.uuid = e.uuid BY <2>3
  <2> QED BY <2>1, <2>4 DEF Shape, Tidy, OneHome
<1> QED BY <1>1, NumbersInvariant, PTL

\* The max_ino a mount reads is greater than the number of every entry there
\* is, in-flight creates and requests cut short aside: a volume mounted again
\* gives out no number twice.
THEOREM MountsAhead == Spec => []StoredMaxInoUnused
<1>1. Base /\ Shape /\ Numbers => StoredMaxInoUnused
  <2> SUFFICES ASSUME Base, Shape, Numbers, NEW e \in Dirents,
                      e.ino \notin Suspect \cup InFlight("create")
               PROVE  e.ino < smax
    BY DEF StoredMaxInoUnused
  <2>1. <<e.ino, e.uuid>> \in Claims BY DirentClaims
  <2>2. \A p \in Nodes \cup Claims : p[1] \notin Suspect \cup InFlight("create") => p[1] < smax
    BY DEF Numbers, AllFit, Fits
  <2> QED BY <2>1, <2>2
<1> QED BY <1>1, NumbersInvariant, PTL

\* inode_map gives a lookup the node of its entry, although it only knows
\* numbers: no other node in memory has the number.
THEOREM LookupsFindTheirNodes == Spec => []LookupFindsItsNode
<1>1. Base /\ Shape /\ Numbers => LookupFindsItsNode
  <2> SUFFICES ASSUME Base, Shape, Numbers, NEW t \in Threads, pc[t] = "found",
                      req[t].ent.ino \notin Suspect,
                      heap[req[t].node].own = req[t].ent.ino
               PROVE  heap[req[t].node].uuid = req[t].ent.uuid
    BY DEF LookupFindsItsNode
  <2> DEFINE e == req[t].ent
             o == req[t].node
  <2>1. /\ o \in Objs /\ heap[o].uuid \in Uuids /\ heap[o].own \in Inos
        /\ e \in Dirent /\ req[t].op \in Works
    BY InUse DEF Base, Staged, StagedAt, Works
  <2>2. <<e.ino, heap[o].uuid>> \in Nodes
    <3>1. Owns(heap[o].own, heap[o].uuid) BY <2>1, InOwns DEF Base
    <3> QED BY <2>1, <3>1, Pairs
  <2>3. <<e.ino, e.uuid>> \in Claims
    <3>1. In(heap[req[t].parent].uuid, e) /\ heap[req[t].parent].uuid \in Uuids
      BY <2>1, InOwns, InUse DEF Base
    <3> QED BY <2>1, <3>1, Pairs
  <2>4. \A p, q \in Nodes \cup Claims : p[1] = q[1] /\ p[1] \notin Suspect => p = q
    BY DEF Numbers, AllFit, Fits
  <2>5. <<e.ino, heap[o].uuid>> = <<e.ino, e.uuid>> BY <2>2, <2>3, <2>4
  <2> QED BY <2>5
<1> QED BY <1>1, NumbersInvariant, PTL

-----------------------------------------------------------------------------
(* Counts: what the enclave keeps for what the kernel knows.               *)

RootOwn == \A i \in Inos : Owns(i, Root) => i = Root

\* inode_map has a node under its number, or the numbers are in doubt.
Mapped ==
  \A i \in Inos : imap[i] # None =>
    heap[imap[i]].own = i \/ {i, heap[imap[i]].own} \subseteq clash

\* What a lookup will load is not there yet; what cannot be loaded never is.
LoadAt(t) ==
  LET e == req[t].ent IN
  imap[e.ino] = None \/ (~Stored(e.uuid) /\ heap[imap[e.ino]].uuid # e.uuid)
Loading ==
  \A t \in Threads : pc[t] = "load" /\ req[t].ent.ino \notin clash => LoadAt(t)

\* Whose count was read.
ReadAt(t) ==
  LET own == heap[req[t].node].own IN
  /\ pc[t] = "count" => own = req[t].ent.ino
  /\ pc[t] = "drop" => own = req[t].pino \/ {req[t].pino, own} \subseteq clash
Reading == \A t \in Threads : ReadAt(t)

Forgetting(i) == {t \in Threads : req[t].op = "forget" /\ req[t].pino = i}

\* A number that was not given out yet is known to nobody.
Unused ==
  \A i \in Inos : i >= maxIno /\ i \notin clash =>
    imap[i] = None /\ known[i] = 0 /\ Forgetting(i) = {}

\* The references counted for i: those the kernel has, those it gave back with
\* a forget still in flight, and those of creates it has no answer from.
Refs(i) == IF imap[i] = None THEN 0 ELSE heap[imap[i]].refs
Token(t) == {t} \X (1..req[t].num)
Tokens(i) == UNION {Token(t) : t \in Forgetting(i)}
Owed(i) == {t \in Numbering : Replied(t) = i}
CountedAt(i) == Refs(i) = known[i] + Cardinality(Tokens(i)) + Cardinality(Owed(i))

Unsafe == clash \cup raced
Counted == \A i \in Inos \ ({Root} \cup Unsafe) : CountedAt(i)

Counts == RootOwn /\ Mapped /\ Loading /\ Reading /\ Unused /\ Counted

-----------------------------------------------------------------------------
(* How the counts change.                                                  *)

LEMMA TokenFinite ==
  ASSUME NEW t, NEW n \in Nat
  PROVE  IsFiniteSet({t} \X (1..n)) /\ Cardinality({t} \X (1..n)) = n
<1>1. IsFiniteSet({t}) /\ Cardinality({t}) = 1 BY FS_Singleton
<1>2. IsFiniteSet(1..n) /\ Cardinality(1..n) = n BY FS_Interval
<1>3. /\ IsFiniteSet({t} \X (1..n))
      /\ Cardinality({t} \X (1..n)) = Cardinality({t}) * Cardinality(1..n)
  BY <1>1, <1>2, FS_Product
<1>4. Cardinality({t}) * Cardinality(1..n) = 1 * n BY <1>1, <1>2
<1>5. 1 * n = n OBVIOUS
<1> QED BY <1>3, <1>4, <1>5

LEMMA CountsFinite ==
  ASSUME Typed, NEW i
  PROVE  /\ IsFiniteSet(Tokens(i)) /\ Cardinality(Tokens(i)) \in Nat
         /\ IsFiniteSet(Owed(i)) /\ Cardinality(Owed(i)) \in Nat
<1>1. IsFiniteSet(Forgetting(i)) /\ IsFiniteSet(Owed(i))
  BY FS_Subset DEF Forgetting, Owed, Numbering
<1>2. \A T \in {Token(t) : t \in Forgetting(i)} : IsFiniteSet(T)
  <2>1. ASSUME NEW t \in Forgetting(i) PROVE IsFiniteSet(Token(t))
    <3>1. req[t].num \in Nat BY DEF Forgetting, Typed, Req
    <3> QED BY <3>1, TokenFinite DEF Token
  <2> QED BY <2>1
<1>3. IsFiniteSet({Token(t) : t \in Forgetting(i)})
  <2>1. [t \in Forgetting(i) |-> Token(t)]
          \in Surjection(Forgetting(i), {Token(t) : t \in Forgetting(i)})
    BY DEF Surjection
  <2> QED BY <1>1, <2>1, FS_Surjection
<1>4. IsFiniteSet(Tokens(i)) BY <1>2, <1>3, FS_UNION DEF Tokens
<1> QED BY <1>1, <1>4, FS_CardinalityType

\* The tokens of one forget more.
LEMMA MoreTokens ==
  ASSUME NEW T, IsFiniteSet(T), NEW t, NEW n \in Nat, \A k \in 1..n : <<t, k>> \notin T
  PROVE  Cardinality(T \cup ({t} \X (1..n))) = Cardinality(T) + n
<1>1. PICK P : P = {t} \X (1..n) OBVIOUS
<1>2. T \cap P = {} BY <1>1
<1>3. Cardinality(T \cap P) = 0 BY <1>2, FS_EmptySet
<1>4. Cardinality(T) \in Nat BY FS_CardinalityType
<1>5. IsFiniteSet(P) /\ Cardinality(P) = n BY <1>1, TokenFinite
<1>6. Cardinality(T \cup P) = Cardinality(T) + n - 0 BY <1>3, <1>5, FS_Union
<1> QED BY <1>1, <1>4, <1>6

\* A thread that neither forgot nor forgets, or goes on with its forget.
LEMMA TokensStay ==
  ASSUME NEW t \in Threads, \A s \in Threads \ {t} : req'[s] = req[s],
         \/ req[t].op # "forget" /\ req'[t].op # "forget"
         \/ /\ req'[t].op = req[t].op /\ req'[t].pino = req[t].pino
            /\ req'[t].num = req[t].num
  PROVE  \A i : Forgetting(i)' = Forgetting(i) /\ Tokens(i)' = Tokens(i)
<1> SUFFICES ASSUME NEW i PROVE Forgetting(i)' = Forgetting(i) /\ Tokens(i)' = Tokens(i)
  OBVIOUS
<1>1. Forgetting(i)' = Forgetting(i) BY DEF Forgetting
<1>2. \A s \in Forgetting(i) : req'[s].num = req[s].num BY DEF Forgetting
<1>3. Tokens(i)' = Tokens(i) BY <1>1, <1>2 DEF Tokens, Token
<1> QED BY <1>1, <1>3

\* A thread that neither was nor is to answer a create.
LEMMA OwedStays ==
  ASSUME NEW t \in Threads, \A s \in Threads \ {t} : pc'[s] = pc[s] /\ req'[s] = req[s],
         \/ t \notin Numbering /\ t \notin Numbering'
         \/ t \in Numbering /\ t \in Numbering' /\ req'[t] = req[t]
  PROVE  \A i : Owed(i)' = Owed(i)
<1>1. Numbering' = Numbering BY DEF Numbering
<1>2. \A s \in Numbering : req'[s] = req[s] BY DEF Numbering
<1> QED BY <1>1, <1>2 DEF Owed, Replied

\* A forget begins, and one ends.
LEMMA TokensBegin ==
  ASSUME Typed, Typed', NEW t \in Threads, \A s \in Threads \ {t} : req'[s] = req[s],
         req[t].op # "forget", req'[t].op = "forget", NEW j, j = req'[t].pino
  PROVE  /\ \A i : i # j => Forgetting(i)' = Forgetting(i) /\ Tokens(i)' = Tokens(i)
         /\ Cardinality(Tokens(j)') = Cardinality(Tokens(j)) + req'[t].num
<1>1. ASSUME NEW i, i # j
      PROVE  Forgetting(i)' = Forgetting(i) /\ Tokens(i)' = Tokens(i)
  <2>1. Forgetting(i)' = Forgetting(i) BY <1>1 DEF Forgetting
  <2>2. \A s \in Forgetting(i) : req'[s] = req[s] BY DEF Forgetting
  <2> QED BY <2>1, <2>2 DEF Tokens, Token
<1>2. PICK n \in Nat : n = req'[t].num BY DEF Typed, Req
<1>3. Forgetting(j)' = Forgetting(j) \cup {t} /\ t \notin Forgetting(j) BY DEF Forgetting
<1>4. \A s \in Forgetting(j) : req'[s] = req[s] BY DEF Forgetting
<1>5. Tokens(j)' = Tokens(j) \cup ({t} \X (1..n))
  BY <1>2, <1>3, <1>4 DEF Tokens, Token
<1>6. \A k \in 1..n : <<t, k>> \notin Tokens(j) BY <1>3 DEF Tokens, Token
<1>7. Cardinality(Tokens(j) \cup ({t} \X (1..n))) = Cardinality(Tokens(j)) + n
  BY <1>6, CountsFinite, MoreTokens
<1> QED BY <1>1, <1>2, <1>5, <1>7

LEMMA TokensEnd ==
  ASSUME Typed, Typed', NEW t \in Threads, \A s \in Threads \ {t} : req'[s] = req[s],
         req[t].op = "forget", req'[t].op # "forget", NEW j, j = req[t].pino
  PROVE  /\ \A i : i # j => Forgetting(i)' = Forgetting(i) /\ Tokens(i)' = Tokens(i)
         /\ Forgetting(j)' \subseteq Forgetting(j)
         /\ Cardinality(Tokens(j)) = Cardinality(Tokens(j)') + req[t].num
         /\ Cardinality(Tokens(j)') \in Nat
<1>1. ASSUME NEW i, i # j
      PROVE  Forgetting(i)' = Forgetting(i) /\ Tokens(i)' = Tokens(i)
  <2>1. Forgetting(i)' = Forgetting(i) BY <1>1 DEF Forgetting
  <2>2. \A s \in Forgetting(i) : s # t BY <1>1 DEF Forgetting
  <2>3. \A s \in Forgetting(i) : req'[s] = req[s] BY <2>2 DEF Forgetting
  <2> QED BY <2>1, <2>3 DEF Tokens, Token
<1>2. PICK n \in Nat : n = req[t].num BY DEF Typed, Req
<1>3. PICK F : F = Forgetting(j) \ {t} OBVIOUS
<1>4. Forgetting(j) = F \cup {t} /\ t \notin F /\ Forgetting(j)' = F
  BY <1>3 DEF Forgetting
<1>5. \A s \in F : req'[s] = req[s] BY <1>3 DEF Forgetting
<1>6. PICK T : T = UNION {Token(s) : s \in F} OBVIOUS
<1>7. Tokens(j)' = T
  <2>1. \A s \in F : Token(s)' = Token(s) BY <1>5 DEF Token
  <2> QED BY <1>4, <1>6, <2>1 DEF Tokens
<1>8. Tokens(j) = T \cup ({t} \X (1..n))
  <2>1. Token(t) = {t} \X (1..n) BY <1>2 DEF Token
  <2> QED BY <1>4, <1>6, <2>1 DEF Tokens
<1>9. \A k \in 1..n : <<t, k>> \notin T BY <1>4, <1>6 DEF Token
<1>10. IsFiniteSet(T) /\ Cardinality(T) \in Nat
  BY <1>8, CountsFinite, FS_Subset, FS_CardinalityType
<1>11. Cardinality(T \cup ({t} \X (1..n))) = Cardinality(T) + n
  BY <1>9, <1>10, MoreTokens
<1> QED BY <1>1, <1>2, <1>4, <1>7, <1>8, <1>10, <1>11

-----------------------------------------------------------------------------
(* The counts are kept by steps that count nothing.                        *)

\* What inode_map has, after a step that leaves it there.
LEMMA MapHeap ==
  ASSUME Base, Base', NEW t \in Threads, Steady(t), NEW h \in [Objs -> Slot], Becomes(h),
         NEW i \in Inos, imap[i] # None, imap'[i] = imap[i]
  PROVE  /\ imap[i] \in Objs /\ heap'[imap[i]] = h[imap[i]]
         /\ heap'[imap[i]].own = heap[imap[i]].own
         /\ heap'[imap[i]].uuid = heap[imap[i]].uuid
<1>1. imap[i] \in Objs BY DEF Base, Typed
<1>2. imap[i] \in Pointers(imap, req) BY PointersAre DEF Base
<1>3. imap[i] \in Pointers(imap', req') BY DEF Pointers, Range, Base, Typed
<1> QED BY <1>1, <1>2, <1>3 DEF Becomes, Steady

\* What is in inode_map has an object, its number and its node.
LEMMA MapOwns ==
  ASSUME Base, NEW i \in Inos, imap[i] # None
  PROVE  /\ imap[i] \in Objs /\ heap[imap[i]].own \in Inos /\ heap[imap[i]].uuid \in Uuids
         /\ Owns(heap[imap[i]].own, heap[imap[i]].uuid)
<1>1. imap[i] \in Objs /\ imap[i] \in Pointers(imap, req) BY PointersAre DEF Base, Typed
<1> QED BY <1>1, DumpedNode, InOwns DEF Base

LEMMA MappedStay ==
  ASSUME Base, Base', Mapped, NEW t \in Threads, Steady(t), NEW h \in [Objs -> Slot], Becomes(h),
         NEW i \in Inos, imap'[i] # None, imap'[i] = imap[i], clash \subseteq clash'
  PROVE  heap'[imap'[i]].own = i \/ {i, heap'[imap'[i]].own} \subseteq clash'
<1>1. heap'[imap[i]].own = heap[imap[i]].own BY MapHeap
<1> QED BY <1>1 DEF Mapped

LEMMA RefsStay ==
  ASSUME Base, Base', NEW t \in Threads, Steady(t), NEW h \in [Objs -> Slot], Becomes(h),
         NEW i \in Inos, imap'[i] = imap[i],
         imap[i] # None => h[imap[i]].refs = heap[imap[i]].refs
  PROVE  Refs(i)' = Refs(i)
BY MapHeap DEF Refs

\* A thread about to load, when nothing comes into inode_map.
LEMMA LoadStays ==
  ASSUME Base, Base', Counts, NEW t \in Threads, Steady(t), NEW h \in [Objs -> Slot], Becomes(h),
         NEW s \in Threads \ {t}, pc[s] = "load", req[s].ent.ino \notin clash,
         imap'[req[s].ent.ino] \in {imap[req[s].ent.ino], None},
         files'[req[s].ent.uuid] # Absent => Stored(req[s].ent.uuid)
  PROVE  LoadAt(s)'
<1>1. PICK i, u : i = req[s].ent.ino /\ u = req[s].ent.uuid OBVIOUS
<1>2. i \in Inos /\ req'[s] = req[s] BY <1>1, InUse DEF Steady
<1>3. CASE imap'[i] = None BY <1>1, <1>2, <1>3 DEF LoadAt
<1>4. CASE imap'[i] # None
  <2>1. imap'[i] = imap[i] /\ imap[i] # None BY <1>1, <1>4
  <2>2. heap'[imap[i]].uuid = heap[imap[i]].uuid BY <1>2, <2>1, MapHeap
  <2>3. files[u] = Absent /\ heap[imap[i]].uuid # u
    BY <1>1, <2>1 DEF Counts, Loading, LoadAt, Stored
  <2>4. files'[u] = Absent BY <1>1, <2>3 DEF Stored
  <2> QED BY <1>1, <1>2, <2>1, <2>2, <2>3, <2>4 DEF LoadAt, Stored
<1> QED BY <1>3, <1>4

\* The others, whose counts were read, hold what they held.
LEMMA ReadStays ==
  ASSUME Base, Base', Counts, NEW t \in Threads, Steady(t), clash \subseteq clash', ReadAt(t)'
  PROVE  Reading'
<1> SUFFICES ASSUME NEW s \in Threads \ {t} PROVE ReadAt(s)' BY DEF Reading
<1>1. pc'[s] = pc[s] /\ req'[s] = req[s] BY DEF Steady
<1>2. CASE pc[s] \in {"count", "drop"}
  <2>1. PICK o : o = req[s].node OBVIOUS
  <2>2. o \in Objs /\ o \in Pointers(imap, req) BY <1>2, <2>1, InUse
  <2>3. o \in Pointers(imap', req') BY <1>1, <2>1 DEF Pointers
  <2>4. heap'[o].own = heap[o].own BY <2>2, <2>3 DEF Steady
  <2>5. ReadAt(s) BY DEF Counts, Reading
  <2> QED BY <1>1, <2>1, <2>4, <2>5 DEF ReadAt
<1>3. CASE pc[s] \notin {"count", "drop"} BY <1>1, <1>3 DEF ReadAt
<1> QED BY <1>2, <1>3

LEMMA CountsStay ==
  ASSUME Base, Base', Counts, NEW t \in Threads, Steady(t), NEW h \in [Objs -> Slot], Becomes(h),
         RootOwn', UNCHANGED <<imap, known, maxIno, raced>>, clash \subseteq clash',
         \/ req[t].op # "forget" /\ req'[t].op # "forget"
         \/ /\ req'[t].op = req[t].op /\ req'[t].pino = req[t].pino
            /\ req'[t].num = req[t].num,
         pc'[t] \in {"count", "drop"} => ReadAt(t)',
         \/ t \notin Numbering /\ t \notin Numbering'
         \/ t \in Numbering /\ t \in Numbering' /\ req'[t] = req[t],
         \A i \in Inos : imap[i] # None => h[imap[i]].refs = heap[imap[i]].refs,
         pc'[t] = "load" => imap[req'[t].ent.ino] = None,
         \A s \in Threads \ {t} :
           pc[s] = "load" /\ files'[req[s].ent.uuid] # Absent => Stored(req[s].ent.uuid)
  PROVE  Counts'
<1>1. \A s \in Threads \ {t} : pc'[s] = pc[s] /\ req'[s] = req[s] BY DEF Steady
<1>2. \A i : Forgetting(i)' = Forgetting(i) /\ Tokens(i)' = Tokens(i) BY <1>1, TokensStay
<1>3. \A i : Owed(i)' = Owed(i) BY <1>1, OwedStays
<1>4. Mapped'
  <2> SUFFICES ASSUME NEW i \in Inos, imap'[i] # None
               PROVE  heap'[imap'[i]].own = i \/ {i, heap'[imap'[i]].own} \subseteq clash'
    BY DEF Mapped
  <2> QED BY MappedStay DEF Counts
<1>5. Loading' /\ Reading'
  <2>1. Reading' BY ReadStays DEF ReadAt
  <2> SUFFICES ASSUME NEW s \in Threads, pc'[s] = "load", req'[s].ent.ino \notin clash'
               PROVE  LoadAt(s)'
    BY <2>1 DEF Loading
  <2>2. CASE s = t BY <2>2 DEF LoadAt
  <2>3. CASE s # t
    <3>1. s \in Threads \ {t} /\ pc[s] = "load" /\ req[s].ent.ino \notin clash BY <1>1, <2>3
    <3> QED BY <3>1, LoadStays
  <2> QED BY <2>2, <2>3
<1>6. Unused' BY <1>2 DEF Counts, Unused
<1>7. Counted'
  <2> SUFFICES ASSUME NEW i \in Inos \ ({Root} \cup Unsafe') PROVE CountedAt(i)'
    BY DEF Counted
  <2>1. CountedAt(i) BY DEF Counts, Counted, Unsafe
  <2>2. Refs(i)' = Refs(i) BY RefsStay
  <2> QED BY <1>2, <1>3, <2>1, <2>2 DEF CountedAt
<1> QED BY <1>4, <1>5, <1>6, <1>7 DEF Counts

\* Nothing gets a number.
LEMMA RootShrinks ==
  ASSUME RootOwn, Shrinks
  PROVE  RootOwn'
BY Small DEF RootOwn, Shrinks

LEMMA LookupCounts ==
  ASSUME Base, Base', Counts, NEW t \in Threads, Steady(t), NEW i \in Inos, NEW e, LookupAs(t, i, e)
  PROVE  Counts'
<1>1. /\ Becomes(heap) /\ heap \in [Objs -> Slot]
      /\ UNCHANGED <<imap, known, maxIno, raced, clash, files>>
      /\ pc[t] = "idle" /\ pc'[t] \in {"load", "found"} /\ req'[t].op = "lookup" /\ req'[t].ent = e
      /\ pc'[t] = "load" => imap[e.ino] = None
  BY HeapStays DEF LookupAs, Goes, Base, Typed
<1>2. RootOwn' BY LookupShrinks, RootShrinks DEF Counts
<1>3. t \notin Numbering /\ t \notin Numbering' /\ req[t].op # "forget"
  BY <1>1 DEF Numbering, Base, Staged, StagedAt
<1>4. \A s \in Threads \ {t} :
        pc[s] = "load" /\ files'[req[s].ent.uuid] # Absent => Stored(req[s].ent.uuid)
  BY <1>1 DEF Stored
<1> QED BY <1>1, <1>2, <1>3, <1>4, CountsStay

LEMMA RemoveCounts ==
  ASSUME Base, Base', Counts, NEW t \in Threads, Steady(t), NEW i \in Inos, NEW e, RemoveAs(t, i, e)
  PROVE  Counts'
<1>1. /\ Becomes(heap) /\ heap \in [Objs -> Slot]
      /\ UNCHANGED <<imap, known, maxIno, raced, clash, files>>
      /\ pc[t] = "idle" /\ pc'[t] = "unstore" /\ req'[t].op = "remove"
  BY HeapStays DEF RemoveAs, Goes, Base, Typed
<1>2. RootOwn' BY RemoveShrinks, RootShrinks DEF Counts
<1>3. t \notin Numbering /\ t \notin Numbering' /\ req[t].op # "forget"
  BY <1>1 DEF Numbering, Base, Staged, StagedAt
<1>4. \A s \in Threads \ {t} :
        pc[s] = "load" /\ files'[req[s].ent.uuid] # Absent => Stored(req[s].ent.uuid)
  BY <1>1 DEF Stored
<1> QED BY <1>1, <1>2, <1>3, <1>4, CountsStay

LEMMA CreateCounts ==
  ASSUME Base, Base', Shape, Counts, NEW t \in Threads, Steady(t), NEW i \in Inos,
         NEW name, NEW e, NEW n, NEW h, CreateAs(t, i, name, e, n, h)
  PROVE  Counts'
<1>1. /\ Becomes(h) /\ h \in [Objs -> Slot]
      /\ UNCHANGED <<imap, known, maxIno, raced, files>> /\ clash \subseteq clash'
      /\ pc[t] = "idle" /\ pc'[t] = "parent" /\ req'[t].op = "create"
      /\ n \notin Pointers(imap, req) /\ imap[i] \in Objs
      /\ \A o \in Objs \ {n, imap[i]} : h[o] = heap[o]
  BY DEF CreateAs
<1>2. RootOwn'
  <2>1. \A j \in Inos : Owns(j, Root)' => Owns(j, Root) \/ (j = e.ino /\ Root = e.uuid)
    BY CreateTidy, Small DEF Shape
  <2>2. e.uuid # Root BY Small DEF Shape, Tidy, Stored, CreateAs, UsedUuids
  <2> QED BY <2>1, <2>2 DEF RootOwn, Counts
<1>3. t \notin Numbering /\ t \notin Numbering' /\ req[t].op # "forget"
  BY <1>1 DEF Numbering, Base, Staged, StagedAt
<1>4. \A s \in Threads \ {t} :
        pc[s] = "load" /\ files'[req[s].ent.uuid] # Absent => Stored(req[s].ent.uuid)
  BY <1>1 DEF Stored
<1>5. h[imap[i]].refs = heap[imap[i]].refs
  <2>1. heap[imap[i]] \in Slot BY <1>1 DEF Base, Typed
  <2> QED BY <2>1 DEF CreateAs, Slot
<1>6. \A j \in Inos : imap[j] # None => h[imap[j]].refs = heap[imap[j]].refs
  BY <1>1, <1>5, PointersAre DEF Base, Typed
<1> QED BY <1>1, <1>2, <1>3, <1>4, <1>6, CountsStay

LEMMA SaveSuperCounts ==
  ASSUME Base, Base', Counts, NEW t \in Threads, Steady(t), SaveSuperAs(t)
  PROVE  Counts'
<1>1. /\ Becomes(heap) /\ heap \in [Objs -> Slot]
      /\ UNCHANGED <<imap, known, maxIno, raced, clash, files>>
      /\ pc[t] = "super" /\ pc'[t] = "node" /\ req'[t] = req[t]
  BY HeapStays DEF SaveSuperAs, Goes, Base, Typed
<1>2. RootOwn' BY SaveSuperShrinks, RootShrinks DEF Counts
<1>3. t \in Numbering /\ t \in Numbering' /\ req[t].op # "forget"
  BY <1>1 DEF Numbering, Base, Staged, StagedAt
<1>4. \A s \in Threads \ {t} :
        pc[s] = "load" /\ files'[req[s].ent.uuid] # Absent => Stored(req[s].ent.uuid)
  BY <1>1 DEF Stored
<1> QED BY <1>1, <1>2, <1>3, <1>4, CountsStay

\* A count is read.
LEMMA FoundCounts ==
  ASSUME Base, Base', Counts, NEW t \in Threads, Steady(t), FoundAs(t)
  PROVE  Counts'
<1>1. /\ Becomes(heap) /\ heap \in [Objs -> Slot]
      /\ UNCHANGED <<imap, known, maxIno, raced, clash, files>>
      /\ pc[t] = "found" /\ pc'[t] = "count" /\ req'[t].op = req[t].op
      /\ req'[t].node = req[t].node /\ req'[t].ent = req[t].ent
      /\ heap[req[t].node].own = req[t].ent.ino
  BY DEF FoundAs, Goes, Base, Typed
<1>2. RootOwn' BY FoundShrinks, RootShrinks DEF Counts
<1>3. t \notin Numbering /\ t \notin Numbering' /\ req[t].op # "forget"
  BY <1>1 DEF Numbering, Base, Staged, StagedAt
<1>4. \A s \in Threads \ {t} :
        pc[s] = "load" /\ files'[req[s].ent.uuid] # Absent => Stored(req[s].ent.uuid)
  BY <1>1 DEF Stored
<1>5. ReadAt(t)'
  <2>1. PICK o : o = req[t].node OBVIOUS
  <2>2. o \in Objs /\ o \in Pointers(imap, req) BY <1>1, <2>1, InUse
  <2>3. o \in Pointers(imap', req') BY <1>1, <2>1 DEF Pointers
  <2>4. heap'[o].own = heap[o].own BY <2>2, <2>3 DEF Steady
  <2> QED BY <1>1, <2>1, <2>4 DEF ReadAt
<1> QED BY <1>1, <1>2, <1>3, <1>4, <1>5, CountsStay

LEMMA ForgetCounts ==
  ASSUME Base, Base', Counts, NEW t \in Threads, Steady(t), ForgetAs(t)
  PROVE  Counts'
<1>1. PICK i : i = req[t].pino OBVIOUS
<1>2. /\ Becomes(heap) /\ heap \in [Objs -> Slot] /\ i \in Inos /\ imap[i] \in Objs
      /\ UNCHANGED <<imap, known, maxIno, raced, clash, files>>
      /\ pc[t] = "forget" /\ pc'[t] = "drop" /\ req'[t].op = req[t].op
      /\ req'[t].pino = i /\ req'[t].num = req[t].num /\ req'[t].node = imap[i]
  BY <1>1 DEF ForgetAs, Goes, Base, Typed, Req
<1>3. RootOwn' BY ForgetShrinks, RootShrinks DEF Counts
<1>4. t \notin Numbering /\ t \notin Numbering' BY <1>2 DEF Numbering
<1>5. \A s \in Threads \ {t} :
        pc[s] = "load" /\ files'[req[s].ent.uuid] # Absent => Stored(req[s].ent.uuid)
  BY <1>2 DEF Stored
<1>6. ReadAt(t)'
  <2>1. imap[i] # None BY <1>2, Small
  <2>2. heap'[imap[i]].own = heap[imap[i]].own BY <1>2, <2>1, MapHeap
  <2> QED BY <1>2, <2>1, <2>2 DEF ReadAt, Counts, Mapped
<1> QED BY <1>1, <1>2, <1>3, <1>4, <1>5, <1>6, CountsStay

\* A step that returns, and neither forgets nor answers a create.
LEMMA QuietCounts ==
  ASSUME Base, Base', Counts, NEW t \in Threads, Steady(t), Returns(t), Becomes(heap), Shrinks,
         UNCHANGED <<imap, known, maxIno, raced, clash>>,
         pc[t] \notin {"forget", "drop", "super", "node"},
         \A u \in Uuids : Stored(u)' => Stored(u)
  PROVE  Counts'
<1>1. pc'[t] = "idle" /\ req'[t].op = "none" BY DEF Returns, Goes
<1>2. RootOwn' BY RootShrinks DEF Counts
<1>3. t \notin Numbering /\ t \notin Numbering' /\ req[t].op # "forget"
  BY <1>1 DEF Numbering, Base, Staged, StagedAt
<1>4. \A s \in Threads \ {t} :
        pc[s] = "load" /\ files'[req[s].ent.uuid] # Absent => Stored(req[s].ent.uuid)
  BY InUse DEF Stored
<1>5. heap \in [Objs -> Slot] /\ \A s \in Threads \ {t} : req'[s] = req[s]
  BY DEF Base, Typed, Steady
<1> QED BY <1>1, <1>2, <1>3, <1>4, <1>5, CountsStay DEF Stored

LEMMA RemoveNodeCounts ==
  ASSUME Base, Base', Counts, NEW t \in Threads, Steady(t), NEW h, RemoveNodeAs(t, h)
  PROVE  Counts'
<1> DEFINE p == req[t].parent
<1>1. /\ Becomes(h) /\ h \in [Objs -> Slot] /\ Typed
      /\ UNCHANGED <<imap, known, maxIno, raced, clash>>
      /\ pc[t] = "unstore" /\ pc'[t] = "unlink" /\ req'[t] = req[t]
      /\ files' = [files EXCEPT ![req[t].ent.uuid] = Absent]
      /\ h[p] = [heap[p] EXCEPT !.ents = @ \ {req[t].ent}]
      /\ \A o \in Objs \ {p} : h[o] = heap[o]
  BY DEF RemoveNodeAs, Goes, Base
<1>2. RootOwn' BY RemoveNodeShrinks, RootShrinks DEF Counts
<1>3. t \notin Numbering /\ t \notin Numbering' /\ req[t].op = "remove"
  BY <1>1 DEF Numbering, Base, Staged, StagedAt
<1>4. \A s \in Threads \ {t} :
        pc[s] = "load" /\ files'[req[s].ent.uuid] # Absent => Stored(req[s].ent.uuid)
  BY <1>1, InUse DEF Stored, Typed
<1>5. \A o \in Objs : h[o].refs = heap[o].refs
  <2>1. \A o \in Objs : heap[o] \in Slot BY <1>1 DEF Typed
  <2> QED BY <1>1, <2>1 DEF Slot
<1>6. \A i \in Inos : imap[i] # None => h[imap[i]].refs = heap[imap[i]].refs
  BY <1>1, <1>5 DEF Typed
<1>7. \A s \in Threads \ {t} : req'[s] = req[s] BY DEF Steady
<1> QED BY <1>1, <1>2, <1>3, <1>4, <1>6, <1>7, CountsStay DEF Stored

LEMMA SaveRemovedCounts ==
  ASSUME Base, Base', Shape, Counts, NEW t \in Threads, Steady(t), SaveRemovedAs(t)
  PROVE  Counts'
<1>1. /\ Becomes(heap) /\ Returns(t) /\ Store(req[t].parent) /\ pc[t] = "unlink"
      /\ UNCHANGED <<imap, known, maxIno, raced, clash>>
  BY DEF SaveRemovedAs
<1>2. req[t].op = "remove" BY <1>1 DEF Base, Staged, StagedAt
<1>3. req[t].parent \in Objs /\ req[t].parent \in Pointers(imap, req)
  BY <1>2, InUse DEF Works
<1>4. Stored(heap[req[t].parent].uuid)
  BY <1>2 DEF Shape, Requests, RequestAt, ParentAt, Changes
<1>5. \A u \in Uuids : Stored(u)' => Stored(u) BY <1>1, <1>3, <1>4, StoreIs DEF Stored
<1> QED BY <1>1, <1>5, QuietCounts, SaveRemovedShrinks

-----------------------------------------------------------------------------
(* The counts are kept by steps that count.                                *)

\* Steps that take things out of inode_map or count in its objects.
LEMMA MapShrinks ==
  ASSUME Base, Base', Counts, NEW t \in Threads, Steady(t), NEW h \in [Objs -> Slot], Becomes(h),
         Shrinks, \A i \in Inos : imap'[i] = imap[i] \/ imap'[i] = None,
         UNCHANGED <<files, maxIno, clash>>, pc'[t] \notin {"load", "count", "drop"}
  PROVE  RootOwn' /\ Mapped' /\ Loading' /\ Reading'
<1>1. RootOwn' BY RootShrinks DEF Counts
<1>2. Mapped'
  <2> SUFFICES ASSUME NEW i \in Inos, imap'[i] # None
               PROVE  heap'[imap'[i]].own = i \/ {i, heap'[imap'[i]].own} \subseteq clash'
    BY DEF Mapped
  <2> QED BY MappedStay DEF Counts
<1>3. Loading'
  <2> SUFFICES ASSUME NEW s \in Threads, pc'[s] = "load", req'[s].ent.ino \notin clash'
               PROVE  LoadAt(s)'
    BY DEF Loading
  <2>1. s # t /\ pc'[s] = pc[s] /\ req'[s] = req[s] BY DEF Steady
  <2>2. req[s].ent.ino \in Inos BY InUse
  <2>3. files'[req[s].ent.uuid] # Absent => Stored(req[s].ent.uuid) BY DEF Stored
  <2> QED BY <2>1, <2>2, <2>3, LoadStays
<1>4. Reading' BY ReadStays DEF ReadAt
<1> QED BY <1>1, <1>2, <1>3, <1>4

LEMMA BeginForgetCounts ==
  ASSUME Base, Base', Counts, NEW t \in Threads, Steady(t), NEW i \in Inos, BeginForgetAs(t, i)
  PROVE  Counts'
<1>1. /\ Becomes(heap) /\ heap \in [Objs -> Slot] /\ Typed /\ Typed'
      /\ UNCHANGED <<imap, maxIno, raced, clash, files>>
      /\ pc[t] = "idle" /\ pc'[t] = "forget" /\ req'[t].op = "forget" /\ req'[t].pino = i
      /\ req'[t].num = known[i] /\ known[i] \in Nat /\ known[i] > 0
      /\ known' = [known EXCEPT ![i] = 0]
      /\ \A s \in Threads \ {t} : pc'[s] = pc[s] /\ req'[s] = req[s]
  BY HeapStays DEF BeginForgetAs, Goes, Base, Typed
<1>2. RootOwn' /\ Mapped' /\ Loading' /\ Reading' BY <1>1, BeginForgetShrinks, MapShrinks
<1>3. t \notin Numbering /\ t \notin Numbering' /\ req[t].op # "forget"
  BY <1>1 DEF Numbering, Base, Staged, StagedAt
<1>4. \A j : Owed(j)' = Owed(j) BY <1>1, <1>3, OwedStays
<1>5. /\ \A j : j # i => Forgetting(j)' = Forgetting(j) /\ Tokens(j)' = Tokens(j)
      /\ Cardinality(Tokens(i)') = Cardinality(Tokens(i)) + known[i]
  BY <1>1, <1>3, TokensBegin
<1>6. Unused' BY <1>1, <1>5 DEF Counts, Unused, Typed
<1>7. Counted'
  <2> SUFFICES ASSUME NEW j \in Inos \ ({Root} \cup Unsafe') PROVE CountedAt(j)'
    BY DEF Counted
  <2>1. CountedAt(j) BY <1>1 DEF Counts, Counted, Unsafe
  <2>2. Refs(j)' = Refs(j) BY <1>1, RefsStay
  <2>3. CASE j = i
    <3>1. Cardinality(Tokens(i)) \in Nat /\ Cardinality(Owed(i)) \in Nat
      BY <1>1, CountsFinite
    <3>2. known'[i] = 0 BY <1>1 DEF Typed
    <3>3. Refs(i) = known[i] + Cardinality(Tokens(i)) + Cardinality(Owed(i))
      BY <2>1, <2>3 DEF CountedAt
    <3>4. Refs(i)' = known'[i] + Cardinality(Tokens(i)') + Cardinality(Owed(i)')
      BY <1>1, <1>4, <1>5, <2>2, <2>3, <3>1, <3>2, <3>3
    <3> QED BY <2>3, <3>4 DEF CountedAt
  <2>4. CASE j # i
    <3>1. known'[j] = known[j] BY <1>1, <2>4 DEF Typed
    <3> QED BY <1>4, <1>5, <2>1, <2>2, <2>4, <3>1 DEF CountedAt
  <2> QED BY <2>3, <2>4
<1> QED BY <1>2, <1>6, <1>7 DEF Counts

\* A number of which something is said, not given out yet, is a new node's.
LEMMA NotOut ==
  ASSUME Base, Shape, Numbers, NEW i \in Inos, NEW u \in Uuids, Owns(i, u),
         i >= maxIno, i \notin clash
  PROVE  \E s \in Saving : req[s].ent.uuid = u /\ req[s].ent.ino = i
<1>1. PICK c : c = <<i, u>> OBVIOUS
<1>2. c \in Nodes BY <1>1, Pairs
<1>3. c[1] = i BY <1>1
<1>4. c[1] < maxIno \/ c \in AtParent BY <1>2, <1>3 DEF Numbers, NodesFit, Fits
<1>5. i \in Nat /\ maxIno \in Nat BY Small DEF Base, Typed
<1>6. c \in AtParent BY <1>3, <1>4, <1>5
<1> QED BY <1>1, <1>6 DEF AtParent

\* Nobody loads what a create makes: it holds the directory.
LEMMA LoadersApart ==
  ASSUME Base, Shape, NEW s \in Threads, NEW t \in Threads, pc[s] = "load",
         req[t].op = "create"
  PROVE  req[s].ent.uuid # req[t].ent.uuid
<1> SUFFICES ASSUME req[s].ent.uuid = req[t].ent.uuid PROVE FALSE OBVIOUS
<1>1. req[s].op = "lookup" /\ s # t BY DEF Base, Staged, StagedAt
<1>2. /\ In(heap[req[s].parent].uuid, req[s].ent) /\ heap[req[s].parent].uuid \in Uuids
      /\ In(heap[req[t].parent].uuid, req[t].ent) /\ heap[req[t].parent].uuid \in Uuids
      /\ req[s].ent \in Dirent /\ req[t].ent \in Dirent
  BY <1>1, InUse, InOwns DEF Base, Works
<1>3. heap[req[s].parent].uuid = heap[req[t].parent].uuid
  BY <1>2 DEF Shape, Tidy, OneHome
<1>4. Locked(s) \cap Locked(t) # {} BY <1>1, <1>3, LockedIs
<1> QED BY <1>1, <1>4 DEF Shape, Locks

LEMMA LoadCounts ==
  ASSUME Base, Base', Shape, Numbers, Counts, NEW t \in Threads, Steady(t),
         NEW n, NEW h, LoadAs(t, n, h)
  PROVE  Counts'
<1> DEFINE e == req[t].ent
<1>1. PICK i : i = req[t].ent.ino OBVIOUS
<1>2. /\ Becomes(h) /\ h \in [Objs -> Slot] /\ Typed /\ i \in Inos
      /\ UNCHANGED <<known, maxIno, raced, clash, files>>
      /\ pc[t] = "load" /\ pc'[t] = "found" /\ req'[t].op = req[t].op
      /\ imap' = [imap EXCEPT ![i] = n] /\ n \in Objs /\ n \notin Pointers(imap, req)
      /\ h[n] = Loaded(e.uuid) /\ \A o \in Objs \ {n} : h[o] = heap[o]
      /\ Stored(e.uuid) /\ req'[t].node = n /\ e \in Dirent /\ e.uuid \in Uuids
      /\ \A s \in Threads \ {t} : pc'[s] = pc[s] /\ req'[s] = req[s]
  BY <1>1, InUse DEF LoadAs, Goes, Base
<1>3. h[n].own = files[e.uuid].own /\ h[n].refs = 0 BY <1>2, LoadedSlot
<1>4. t \notin Numbering /\ t \notin Numbering' /\ req[t].op = "lookup"
  BY <1>2 DEF Numbering, Base, Staged, StagedAt
<1>5. Owns(i, e.uuid) /\ files[e.uuid].own = i
  <2>1. In(heap[req[t].parent].uuid, e) /\ heap[req[t].parent].uuid \in Uuids
    BY <1>4, InOwns, InUse DEF Base, Works
  <2>2. Owns(files[e.uuid].own, e.uuid) /\ files[e.uuid].own \in Inos
    BY <1>2, InOwns, Files DEF Base
  <2> QED BY <1>1, <1>2, <2>1, <2>2 DEF Shape, Tidy, NumberOfEntry
<1>6. RootOwn' BY LoadShrinks, RootShrinks DEF Counts
<1>7. imap'[i] = n /\ \A j \in Inos \ {i} : imap'[j] = imap[j] BY <1>2 DEF Typed
<1>8. heap'[n] = h[n]
  <2>1. n \in Pointers(imap', req') BY <1>2 DEF Pointers
  <2> QED BY <1>2, <2>1 DEF Becomes
<1>9. Mapped'
  <2> SUFFICES ASSUME NEW j \in Inos, imap'[j] # None
               PROVE  heap'[imap'[j]].own = j \/ {j, heap'[imap'[j]].own} \subseteq clash'
    BY DEF Mapped
  <2>1. CASE j = i BY <1>3, <1>5, <1>7, <1>8, <2>1
  <2>2. CASE j # i BY <1>2, <1>7, <2>2, MappedStay DEF Counts
  <2> QED BY <2>1, <2>2
<1>10. Loading'
  <2> SUFFICES ASSUME NEW s \in Threads, pc'[s] = "load", req'[s].ent.ino \notin clash'
               PROVE  LoadAt(s)'
    BY DEF Loading
  <2>1. s # t /\ pc[s] = "load" /\ req'[s] = req[s] BY <1>2
  <2>2. /\ req[s].ent \in Dirent /\ req[s].ent.ino \in Inos /\ req[s].ent.uuid \in Uuids
        /\ req[s].op = "lookup" /\ In(heap[req[s].parent].uuid, req[s].ent)
        /\ heap[req[s].parent].uuid \in Uuids
    BY <2>1, InUse, InOwns DEF Base, Staged, StagedAt, Works
  <2>3. req[s].ent.ino \notin clash BY <1>2, <2>1
  <2>4. CASE req[s].ent.ino # i
    <3>1. imap'[req[s].ent.ino] = imap[req[s].ent.ino] BY <1>7, <2>2, <2>4
    <3>2. files'[req[s].ent.uuid] # Absent => Stored(req[s].ent.uuid) BY <1>2 DEF Stored
    <3> QED BY <1>2, <2>1, <2>3, <3>1, <3>2, LoadStays
  <2>5. CASE req[s].ent.ino = i /\ ~Stored(req[s].ent.uuid)
    <3>1. heap'[n].uuid = e.uuid BY <1>2, <1>8, LoadedSlot
    <3>2. files'[req[s].ent.uuid] = Absent BY <1>2, <2>5 DEF Stored
    <3>3. req[s].ent.uuid # e.uuid BY <1>2, <2>5
    <3> QED BY <1>7, <2>1, <2>5, <3>1, <3>2, <3>3 DEF LoadAt, Stored
  <2>6. CASE req[s].ent.ino = i /\ Stored(req[s].ent.uuid)
    <3>1. Owns(i, req[s].ent.uuid)
      <4>1. Owns(files[req[s].ent.uuid].own, req[s].ent.uuid)
            /\ files[req[s].ent.uuid].own \in Inos
        BY <2>2, <2>6, InOwns, Files DEF Base
      <4> QED BY <2>2, <2>6, <4>1 DEF Shape, Tidy, NumberOfEntry
    <3>2. <<i, req[s].ent.uuid>> \in Nodes /\ <<i, e.uuid>> \in Nodes
      BY <1>2, <1>5, <2>2, <3>1, Pairs
    <3>3. \A p, q \in Nodes : p[1] = q[1] /\ p[1] \notin clash => p = q
      BY DEF Numbers, NodesFit, Fits
    <3>4. <<i, req[s].ent.uuid>> = <<i, e.uuid>> BY <2>3, <2>6, <3>2, <3>3
    <3>5. req[s].ent.uuid = e.uuid BY <3>4
    <3>6. In(heap[req[t].parent].uuid, e) /\ heap[req[t].parent].uuid \in Uuids
      BY <1>4, InOwns, InUse DEF Base, Works
    <3>7. heap[req[s].parent].uuid = heap[req[t].parent].uuid /\ req[s].ent = e
      BY <1>2, <2>2, <3>5, <3>6 DEF Shape, Tidy, OneHome
    <3>8. Locked(s) \cap Locked(t) # {} BY <1>4, <2>2, <3>7, LockedIs
    <3>9. req[s].ent.name # req[t].ent.name BY <2>1, <3>8 DEF Shape, Locks
    <3> QED BY <3>7, <3>9
  <2> QED BY <2>4, <2>5, <2>6
<1>11. \A j : Forgetting(j)' = Forgetting(j) /\ Tokens(j)' = Tokens(j)
  BY <1>2, <1>4, TokensStay
<1>12. \A j : Owed(j)' = Owed(j) BY <1>2, <1>4, OwedStays
<1>13. i >= maxIno => i \in clash
  <2> SUFFICES ASSUME i >= maxIno, i \notin clash PROVE FALSE OBVIOUS
  <2>1. PICK s \in Saving : req[s].ent.uuid = e.uuid /\ req[s].ent.ino = i BY <1>2, <1>5, NotOut
  <2>2. req[s].op = "create" BY <2>1, CreatesAre DEF Saving
  <2>3. NewAt(s) BY <2>1 DEF Shape, Requests, RequestAt, Saving
  <2> QED BY <1>2, <2>1, <2>2, <2>3 DEF NewAt
<1>14. Unused' BY <1>2, <1>7, <1>11, <1>13 DEF Counts, Unused
<1>15. Counted'
  <2> SUFFICES ASSUME NEW j \in Inos \ ({Root} \cup Unsafe') PROVE CountedAt(j)'
    BY DEF Counted
  <2>1. CountedAt(j) BY <1>2 DEF Counts, Counted, Unsafe
  <2>2. Refs(j)' = Refs(j)
    <3>1. CASE j = i
      <4>1. imap[i] = None BY <1>1, <1>2, <3>1 DEF Counts, Loading, LoadAt, Unsafe
      <4> QED BY <1>3, <1>7, <1>8, <3>1, <4>1, Small DEF Refs
    <3>2. CASE j # i
      <4>1. imap[j] # None => h[imap[j]] = heap[imap[j]]
        BY <1>2, PointersAre DEF Typed
      <4> QED BY <1>2, <1>7, <3>2, <4>1, RefsStay
    <3> QED BY <3>1, <3>2
  <2> QED BY <1>2, <1>11, <1>12, <2>1, <2>2 DEF CountedAt
<1>16. Reading' BY <1>2, ReadStays DEF ReadAt
<1> QED BY <1>6, <1>9, <1>10, <1>14, <1>15, <1>16 DEF Counts

\* The count of i may be written in o: no other number in no doubt has o.
LEMMA OnlyOne ==
  ASSUME Base, Counts, NEW i \in Inos, NEW o \in Objs, NEW j \in Inos, j # i, j \notin clash,
         heap[o].own = i \/ {i, heap[o].own} \subseteq clash
  PROVE  imap[j] # o
<1> SUFFICES ASSUME imap[j] = o PROVE FALSE OBVIOUS
<1>1. heap[imap[j]].own = j \/ {j, heap[imap[j]].own} \subseteq clash
  BY Small DEF Counts, Mapped
<1> QED BY <1>1

LEMMA CountCounts ==
  ASSUME Base, Base', Shape, Numbers, Counts, NEW t \in Threads, Steady(t),
         NEW h, CountAs(t, h)
  PROVE  Counts'
<1>1. PICK i, o : i = req[t].ent.ino /\ o = req[t].node OBVIOUS
<1>2. /\ Becomes(h) /\ h \in [Objs -> Slot] /\ Typed /\ i \in Inos /\ o \in Objs
      /\ UNCHANGED <<imap, maxIno, clash, files>>
      /\ pc[t] = "count" /\ pc'[t] = "idle" /\ req'[t].op = "none" /\ Returns(t)
      /\ heap[o].own = i /\ heap[o].uuid \in Uuids
      /\ h[o].refs = req[t].count + 1 /\ \A p \in Objs \ {o} : h[p] = heap[p]
      /\ known' = [known EXCEPT ![i] = @ + 1]
      /\ raced \subseteq raced' /\ (i \notin raced' => imap[i] = o /\ heap[o].refs = req[t].count)
      /\ \A s \in Threads \ {t} : pc'[s] = pc[s] /\ req'[s] = req[s]
  <2>1. heap[o].own = i BY <1>1 DEF CountAs, Counts, Reading, ReadAt
  <2>2. Typed /\ i \in Inos /\ o \in Objs /\ heap[o].uuid \in Uuids
    BY <1>1, InUse DEF CountAs, Base
  <2> QED BY <1>1, <2>1, <2>2 DEF CountAs, Rewrites, Undisturbed, Returns, Goes
<1>3. RootOwn' /\ Mapped' /\ Loading' /\ Reading'
  <2>1. Shrinks BY <1>2, RewritesShrinks DEF CountAs
  <2> QED BY <1>2, <2>1, MapShrinks
<1>4. t \notin Numbering /\ t \notin Numbering' /\ req[t].op = "lookup"
  BY <1>2 DEF Numbering, Base, Staged, StagedAt
<1>5. \A j : Forgetting(j)' = Forgetting(j) /\ Tokens(j)' = Tokens(j)
  BY <1>2, <1>4, TokensStay
<1>6. \A j : Owed(j)' = Owed(j) BY <1>2, <1>4, OwedStays
<1>7. i >= maxIno => i \in clash
  <2> SUFFICES ASSUME i >= maxIno, i \notin clash PROVE FALSE OBVIOUS
  <2>1. Owns(i, heap[o].uuid) BY <1>2, InOwns
  <2>2. PICK s \in Saving : req[s].ent.uuid = heap[o].uuid /\ req[s].ent.ino = i
    BY <1>2, <2>1, NotOut
  <2>3. req[s].op = "create" /\ pc[s] = "parent" /\ s # t BY <1>2, <2>2, CreatesAre DEF Saving
  <2>4. NewAt(s) BY <2>2 DEF Shape, Requests, RequestAt, Saving
  <2>5. o = req[s].node BY <1>2, <2>2, <2>3, <2>4 DEF NewAt
  <2> QED BY <1>1, <2>2, <2>3, <2>5, NodeApart DEF Shape, Saving
<1>8. Unused' BY <1>2, <1>5, <1>7 DEF Counts, Unused, Typed
<1>9. Counted'
  <2> SUFFICES ASSUME NEW j \in Inos \ ({Root} \cup Unsafe') PROVE CountedAt(j)'
    BY DEF Counted
  <2>1. CountedAt(j) /\ j \notin clash BY <1>2 DEF Counts, Counted, Unsafe
  <2>2. CASE j = i
    <3>1. imap[i] = o BY <1>2, <2>2 DEF Unsafe
    <3>2. heap[o].refs \in Nat /\ h[o].refs = heap[o].refs + 1
      BY <1>2, <2>2 DEF Unsafe, Typed, Slot
    <3>3. heap'[o] = h[o] BY <1>2, <3>1, Small, MapHeap
    <3>4. Refs(i) = heap[o].refs /\ Refs(i)' = heap[o].refs + 1
      BY <1>2, <3>1, <3>2, <3>3, Small DEF Refs
    <3>5. known'[i] = known[i] + 1 /\ known[i] \in Nat BY <1>2 DEF Typed
    <3>6. Cardinality(Tokens(i)) \in Nat /\ Cardinality(Owed(i)) \in Nat
      BY <1>2, CountsFinite
    <3>7. Refs(i) = known[i] + Cardinality(Tokens(i)) + Cardinality(Owed(i))
      BY <2>1, <2>2 DEF CountedAt
    <3>8. Refs(i)' = known'[i] + Cardinality(Tokens(i)') + Cardinality(Owed(i)')
      BY <1>5, <1>6, <3>2, <3>4, <3>5, <3>6, <3>7
    <3> QED BY <2>2, <3>8 DEF CountedAt
  <2>3. CASE j # i
    <3>1. imap[j] # o BY <1>2, <2>1, <2>3, OnlyOne
    <3>2. imap[j] # None => h[imap[j]] = heap[imap[j]] BY <1>2, <3>1 DEF Typed
    <3>3. Refs(j)' = Refs(j) BY <1>2, <3>2, RefsStay
    <3>4. known'[j] = known[j] BY <1>2, <2>3 DEF Typed
    <3> QED BY <1>5, <1>6, <2>1, <3>3, <3>4 DEF CountedAt
  <2> QED BY <2>2, <2>3
<1> QED BY <1>3, <1>8, <1>9 DEF Counts

\* A forget takes what it gave back, and the object goes when nothing is left.
LEMMA GoneCounts ==
  ASSUME Base, Base', Counts, NEW t \in Threads, Steady(t), Returns(t), Becomes(heap),
         pc[t] \in {"forget", "drop"}, NEW i, i = req[t].pino,
         imap' = [imap EXCEPT ![i] = None],
         UNCHANGED <<files, known, maxIno, clash>>,
         raced \subseteq raced', i \notin raced' => Refs(i) <= req[t].num
  PROVE  Counts'
<1>1. /\ heap \in [Objs -> Slot] /\ Typed /\ Typed' /\ i \in Inos
      /\ pc'[t] = "idle" /\ req'[t].op = "none" /\ req[t].num \in Nat
      /\ \A s \in Threads \ {t} : pc'[s] = pc[s] /\ req'[s] = req[s]
  BY DEF Returns, Goes, Base, Typed, Req
<1>2. imap'[i] = None /\ \A j \in Inos \ {i} : imap'[j] = imap[j] BY <1>1 DEF Typed
<1>3. Shrinks BY QuietShrinks
<1>4. RootOwn' /\ Mapped' /\ Loading' /\ Reading' BY <1>1, <1>2, <1>3, MapShrinks
<1>5. t \notin Numbering /\ t \notin Numbering' /\ req[t].op = "forget"
  BY <1>1 DEF Numbering, Base, Staged, StagedAt
<1>6. /\ \A j : j # i => Forgetting(j)' = Forgetting(j) /\ Tokens(j)' = Tokens(j)
      /\ Forgetting(i)' \subseteq Forgetting(i)
      /\ Cardinality(Tokens(i)) = Cardinality(Tokens(i)') + req[t].num
      /\ Cardinality(Tokens(i)') \in Nat
  <2>1. \A s \in Threads \ {t} : req'[s] = req[s] BY <1>1
  <2>2. req'[t].op # "forget" BY <1>1
  <2> QED BY <1>1, <1>5, <2>1, <2>2, TokensEnd
<1>7. \A j : Owed(j)' = Owed(j) BY <1>1, <1>5, OwedStays
<1>8. Unused' BY <1>1, <1>2, <1>6 DEF Counts, Unused
<1>9. Counted'
  <2> SUFFICES ASSUME NEW j \in Inos \ ({Root} \cup Unsafe') PROVE CountedAt(j)'
    BY DEF Counted
  <2>1. CountedAt(j) BY DEF Counts, Counted, Unsafe
  <2>2. CASE j = i
    <3>1. Refs(i)' = 0 BY <1>2 DEF Refs
    <3>2. Refs(i) <= req[t].num BY <2>2 DEF Unsafe
    <3>3. known[i] \in Nat /\ Cardinality(Owed(i)) \in Nat BY <1>1, CountsFinite DEF Typed
    <3>4. Refs(i) = known[i] + Cardinality(Tokens(i)) + Cardinality(Owed(i))
      BY <2>1, <2>2 DEF CountedAt
    <3>5. known[i] = 0 /\ Cardinality(Tokens(i)') = 0 /\ Cardinality(Owed(i)) = 0
      BY <1>1, <1>6, <3>2, <3>3, <3>4
    <3> QED BY <1>1, <1>7, <2>2, <3>1, <3>5 DEF CountedAt
  <2>3. CASE j # i
    <3>1. Refs(j)' = Refs(j) BY <1>1, <1>2, <2>3, RefsStay
    <3> QED BY <1>1, <1>6, <1>7, <2>1, <2>3, <3>1 DEF CountedAt
  <2> QED BY <2>2, <2>3
<1> QED BY <1>4, <1>8, <1>9 DEF Counts

LEMMA ForgetNoneCounts ==
  ASSUME Base, Base', Counts, NEW t \in Threads, Steady(t), ForgetNone(t)
  PROVE  Counts'
<1>1. PICK i : i = req[t].pino OBVIOUS
<1>2. imap[i] = None /\ i \in Inos /\ imap \in [Inos -> Objs \cup {None}] /\ req[t].num \in Nat
  BY <1>1 DEF ForgetNone, Base, Typed, Req
<1>3. imap' = [imap EXCEPT ![i] = None] BY <1>2 DEF ForgetNone
<1>4. Refs(i) = 0 BY <1>2 DEF Refs
<1>5. /\ Returns(t) /\ Becomes(heap) /\ pc[t] \in {"forget", "drop"}
      /\ UNCHANGED <<files, known, maxIno, clash>> /\ raced \subseteq raced'
  BY DEF ForgetNone
<1>6. Refs(i) <= req[t].num BY <1>2, <1>4
<1> QED BY <1>1, <1>3, <1>5, <1>6, GoneCounts

LEMMA DropGoneCounts ==
  ASSUME Base, Base', Counts, NEW t \in Threads, Steady(t), DropGone(t)
  PROVE  Counts'
<1>1. PICK i : i = req[t].pino OBVIOUS
<1>2. raced \subseteq raced' /\ (i \notin raced' => Refs(i) <= req[t].num)
  <2>1. req[t].node # None BY DEF DropGone, Base, Staged, StagedAt
  <2> QED BY <1>1, <2>1 DEF DropGone, Undisturbed, Refs
<1> QED BY <1>1, <1>2, GoneCounts DEF DropGone

LEMMA DropCounts ==
  ASSUME Base, Base', Counts, NEW t \in Threads, Steady(t), NEW h, DropAs(t, h)
  PROVE  Counts'
<1>1. PICK i, o : i = req[t].pino /\ o = req[t].node OBVIOUS
<1>2. /\ Becomes(h) /\ h \in [Objs -> Slot] /\ Typed /\ Typed' /\ i \in Inos /\ o \in Objs
      /\ UNCHANGED <<imap, known, maxIno, clash, files>>
      /\ pc[t] = "drop" /\ pc'[t] = "idle" /\ req'[t].op = "none" /\ Returns(t)
      /\ req[t].count > req[t].num /\ req[t].num \in Nat /\ req[t].count \in Nat
      /\ h[o].refs = req[t].count - req[t].num
      /\ \A p \in Objs \ {o} : h[p] = heap[p]
      /\ raced \subseteq raced' /\ (i \notin raced' => imap[i] = o /\ heap[o].refs = req[t].count)
      /\ heap[o].own = i \/ {i, heap[o].own} \subseteq clash
      /\ \A s \in Threads \ {t} : pc'[s] = pc[s] /\ req'[s] = req[s]
  <2>1. heap[o].own = i \/ {i, heap[o].own} \subseteq clash
    BY <1>1 DEF DropAs, Counts, Reading, ReadAt
  <2>2. Typed /\ Typed' /\ i \in Inos /\ o \in Objs /\ req[t].num \in Nat /\ req[t].count \in Nat
    BY <1>1, InUse DEF DropAs, Base, Typed, Req
  <2> QED BY <1>1, <2>1, <2>2 DEF DropAs, Rewrites, Undisturbed, Returns, Goes
<1>3. RootOwn' /\ Mapped' /\ Loading' /\ Reading'
  <2>1. Shrinks BY <1>2, RewritesShrinks DEF DropAs
  <2> QED BY <1>2, <2>1, MapShrinks
<1>4. t \notin Numbering /\ t \notin Numbering' /\ req[t].op = "forget"
  BY <1>2 DEF Numbering, Base, Staged, StagedAt
<1>5. /\ \A j : j # i => Forgetting(j)' = Forgetting(j) /\ Tokens(j)' = Tokens(j)
      /\ Forgetting(i)' \subseteq Forgetting(i)
      /\ Cardinality(Tokens(i)) = Cardinality(Tokens(i)') + req[t].num
      /\ Cardinality(Tokens(i)') \in Nat
  <2>1. /\ Typed /\ Typed' /\ \A s \in Threads \ {t} : req'[s] = req[s]
        /\ req[t].op = "forget" /\ req'[t].op # "forget"
    BY <1>2, <1>4
  <2> QED BY <1>1, <2>1, TokensEnd
<1>6. \A j : Owed(j)' = Owed(j) BY <1>2, <1>4, OwedStays
<1>7. Unused' BY <1>2, <1>5 DEF Counts, Unused
<1>8. Counted'
  <2> SUFFICES ASSUME NEW j \in Inos \ ({Root} \cup Unsafe') PROVE CountedAt(j)'
    BY DEF Counted
  <2>1. CountedAt(j) /\ j \notin clash BY <1>2 DEF Counts, Counted, Unsafe
  <2>2. CASE j = i
    <3>1. imap[i] = o /\ heap[o].refs = req[t].count BY <1>2, <2>2 DEF Unsafe
    <3>2. heap'[o] = h[o] BY <1>2, <3>1, Small, MapHeap
    <3>3. Refs(i) = req[t].count /\ Refs(i)' = req[t].count - req[t].num
      BY <1>2, <3>1, <3>2, Small DEF Refs
    <3>4. known[i] \in Nat /\ Cardinality(Owed(i)) \in Nat BY <1>2, CountsFinite DEF Typed
    <3>5. Refs(i) = known[i] + Cardinality(Tokens(i)) + Cardinality(Owed(i))
      BY <2>1, <2>2 DEF CountedAt
    <3>6. Refs(i)' = known[i] + Cardinality(Tokens(i)') + Cardinality(Owed(i))
      BY <1>2, <1>5, <3>3, <3>4, <3>5
    <3> QED BY <1>2, <1>6, <2>2, <3>6 DEF CountedAt
  <2>3. CASE j # i
    <3>1. imap[j] # o BY <1>2, <2>1, <2>3, OnlyOne
    <3>2. imap[j] # None => h[imap[j]] = heap[imap[j]] BY <1>2, <3>1 DEF Typed
    <3>3. Refs(j)' = Refs(j) BY <1>2, <3>2, RefsStay
    <3> QED BY <1>2, <1>5, <1>6, <2>1, <2>3, <3>3 DEF CountedAt
  <2> QED BY <2>2, <2>3
<1> QED BY <1>3, <1>7, <1>8 DEF Counts

\* A flush brings a file back whose lookup has found nothing: not one that will
\* load it, since inode_map has its object.
LEMMA FlushCounts ==
  ASSUME Base, Base', Shape, Counts, NEW t \in Threads, Steady(t), NEW i \in Inos, FlushAs(t, i)
  PROVE  Counts'
<1>1. PICK o : o = imap[i] OBVIOUS
<1>2. /\ o \in Objs /\ o \in Pointers(imap, req) /\ Store(o) /\ imap[i] = o
      /\ heap[o].uuid \in Uuids /\ heap[o].own \in Inos /\ clash \subseteq clash'
      /\ UNCHANGED <<heap, imap, maxIno, known, pc, req, raced>>
  BY <1>1, DumpedNode DEF FlushAs
<1>3. RootOwn' BY FlushShrinks, RootShrinks DEF Counts
<1>4. Mapped' /\ Reading' BY <1>2 DEF Counts, Mapped, Reading, ReadAt
<1>5. Loading'
  <2> SUFFICES ASSUME NEW s \in Threads, pc[s] = "load", req[s].ent.ino \notin clash
               PROVE  LoadAt(s)'
    BY <1>2 DEF Loading
  <2>1. PICK j, u : j = req[s].ent.ino /\ u = req[s].ent.uuid OBVIOUS
  <2>2. LoadAt(s) BY DEF Counts, Loading
  <2>3. CASE imap[j] = None BY <1>2, <2>1, <2>3 DEF LoadAt
  <2>4. CASE imap[j] # None
    <3>1. ~Stored(u) /\ heap[imap[j]].uuid # u BY <2>1, <2>2, <2>4 DEF LoadAt
    <3>2. heap[o].uuid # u
      <4> SUFFICES ASSUME heap[o].uuid = u PROVE FALSE OBVIOUS
      <4>1. /\ In(heap[req[s].parent].uuid, req[s].ent) /\ heap[req[s].parent].uuid \in Uuids
            /\ req[s].ent \in Dirent
        BY InUse, InOwns DEF Base, Staged, StagedAt, Works
      <4>2. heap[o].own = j
        <5>1. Owns(heap[o].own, u) BY <1>2, InOwns DEF Base
        <5> QED BY <1>2, <2>1, <4>1, <5>1 DEF Shape, Tidy, NumberOfEntry
      <4>3. i = j BY <1>2, <2>1, <4>2, Small DEF Counts, Mapped
      <4> QED BY <1>2, <3>1, <4>3
    <3>3. u \in Uuids BY <2>1, InUse
    <3>4. files'[u] = files[u] BY <1>2, <3>2, <3>3, StoreIs
    <3>5. files'[u] = Absent BY <3>1, <3>4 DEF Stored
    <3> QED BY <1>2, <2>1, <3>1, <3>5 DEF LoadAt, Stored
  <2> QED BY <2>3, <2>4
<1>6. \A j : Forgetting(j)' = Forgetting(j) BY <1>2 DEF Forgetting
<1>7. \A j : Tokens(j)' = Tokens(j) /\ Owed(j)' = Owed(j) /\ Refs(j)' = Refs(j)
  BY <1>2, <1>6 DEF Tokens, Token, Owed, Numbering, Replied, Refs
<1>8. Unused' BY <1>2, <1>6 DEF Counts, Unused
<1>9. Counted' BY <1>2, <1>7 DEF Counts, Counted, CountedAt, Unsafe
<1> QED BY <1>3, <1>4, <1>5, <1>8, <1>9 DEF Counts

\* A create gets its number, and its node is counted once.
LEMMA SaveParentCounts ==
  ASSUME Base, Base', Shape, Numbers, Counts, NEW t \in Threads, Steady(t),
         NEW h, SaveParentAs(t, h)
  PROVE  Counts'
<1>1. PICK i, m, n : i = req[t].ent.ino /\ m = maxIno /\ n = req[t].node OBVIOUS
<1>2. /\ Becomes(h) /\ h \in [Objs -> Slot] /\ Typed /\ i \in Inos /\ m \in Inos /\ m \in Nat
      /\ UNCHANGED <<known, raced>> /\ maxIno' = m + 1 /\ Store(req[t].parent)
      /\ pc[t] = "parent" /\ pc'[t] = "super" /\ req'[t].op = "create" /\ req[t].op = "create"
      /\ req'[t].num = m + 1 /\ req'[t].node = n
      /\ imap' = [imap EXCEPT ![m] = n]
      /\ h[n] = [heap[n] EXCEPT !.refs = @ + 1] /\ \A o \in Objs \ {n} : h[o] = heap[o]
      /\ clash' = IF m = i THEN clash ELSE clash \cup {m}
      /\ \A s \in Threads \ {t} : pc'[s] = pc[s] /\ req'[s] = req[s]
      /\ n \in Objs
  BY <1>1, InUse, Small DEF SaveParentAs, Goes, Base, Typed, Staged, StagedAt
<1>3. /\ n # None /\ \A j \in Inos : imap[j] # n
  BY <1>1, <1>2, NodeApart, Small DEF Shape
<1>4. heap[n].own = i /\ heap[n].refs = 0
  <2>1. NewAt(t) BY DEF Shape, Requests, RequestAt
  <2> QED BY <1>1, <1>2, <2>1 DEF NewAt
<1>5. i = m \/ i \in clash
  <2>1. CreateAt(t) BY DEF Numbers
  <2> QED BY <1>1, <1>2, <2>1 DEF CreateAt
<1>6. imap'[m] = n /\ \A j \in Inos \ {m} : imap'[j] = imap[j] BY <1>2 DEF Typed
<1>7. heap'[n].own = i /\ heap'[n].refs = 1
  <2>1. n \in Pointers(imap', req') BY <1>2 DEF Pointers
  <2>2. heap'[n] = h[n] BY <1>2, <2>1 DEF Becomes
  <2>3. heap[n] \in Slot BY <1>2 DEF Typed
  <2> QED BY <1>2, <1>4, <2>2, <2>3 DEF Slot
<1>8. clash \subseteq clash' /\ (m \notin clash' => m = i) BY <1>2
<1>9. \A u \in Uuids : files'[u] # Absent => Stored(u)
  <2>1. req[t].parent \in Objs /\ req[t].parent \in Pointers(imap, req)
    BY <1>2, InUse DEF Works
  <2>2. Stored(heap[req[t].parent].uuid)
    BY <1>2 DEF Shape, Requests, RequestAt, ParentAt, Changes
  <2> QED BY <1>2, <2>1, <2>2, StoreIs DEF Stored
<1>10. RootOwn' BY SaveParentShrinks, RootShrinks DEF Counts
<1>11. Mapped'
  <2> SUFFICES ASSUME NEW j \in Inos, imap'[j] # None
               PROVE  heap'[imap'[j]].own = j \/ {j, heap'[imap'[j]].own} \subseteq clash'
    BY DEF Mapped
  <2>1. CASE j = m BY <1>2, <1>5, <1>6, <1>7, <1>8, <2>1
  <2>2. CASE j # m BY <1>2, <1>6, <1>8, <2>2, MappedStay DEF Counts
  <2> QED BY <2>1, <2>2
<1>12. Loading'
  <2> SUFFICES ASSUME NEW s \in Threads, pc'[s] = "load", req'[s].ent.ino \notin clash'
               PROVE  LoadAt(s)'
    BY DEF Loading
  <2>1. PICK j, u : j = req'[s].ent.ino /\ u = req'[s].ent.uuid OBVIOUS
  <2>2. s # t /\ pc[s] = "load" /\ req'[s] = req[s] BY <1>2
  <2>3. /\ req[s].ent \in Dirent /\ j \in Inos /\ u \in Uuids
        /\ req[s].op = "lookup" /\ In(heap[req[s].parent].uuid, req[s].ent)
        /\ heap[req[s].parent].uuid \in Uuids
    BY <2>1, <2>2, InUse, InOwns DEF Base, Staged, StagedAt, Works
  <2>4. j \notin clash /\ (files'[u] # Absent => Stored(u)) BY <1>8, <1>9, <2>1, <2>3
  <2>5. CASE j = m /\ Stored(u)
    <3>1. Owns(m, u)
      <4>1. Owns(files[u].own, u) /\ files[u].own \in Inos
        BY <1>2, <2>3, <2>5, InOwns, Files
      <4> QED BY <2>1, <2>2, <2>3, <2>5, <4>1 DEF Shape, Tidy, NumberOfEntry
    <3>2. PICK r \in Saving : req[r].ent.uuid = u /\ req[r].ent.ino = m
      BY <1>1, <1>2, <2>3, <2>4, <2>5, <3>1, NotOut
    <3>3. req[r].op = "create" BY <3>2, CreatesAre DEF Saving
    <3>4. NewAt(r) BY <3>2 DEF Shape, Requests, RequestAt, Saving
    <3> QED BY <2>4, <2>5, <3>2, <3>3, <3>4 DEF NewAt
  <2>6. CASE j = m /\ ~Stored(u)
    <3>1. heap'[n].uuid = req[t].ent.uuid
      <4>1. n \in Pointers(imap', req') BY <1>2 DEF Pointers
      <4>2. heap'[n].uuid = heap[n].uuid
        BY <1>1, <1>2, <4>1, InUse DEF Steady
      <4>3. NewAt(t) BY DEF Shape, Requests, RequestAt
      <4> QED BY <1>1, <1>2, <4>2, <4>3 DEF NewAt
    <3>2. u # req[t].ent.uuid BY <1>2, <2>1, <2>2, LoadersApart
    <3>3. files'[u] = Absent BY <2>4, <2>6
    <3> QED BY <1>6, <2>1, <2>6, <3>1, <3>2, <3>3 DEF LoadAt, Stored
  <2>7. CASE j # m
    <3>1. s \in Threads \ {t} /\ pc[s] = "load" /\ req[s].ent.ino = j /\ req[s].ent.uuid = u
      BY <2>1, <2>2
    <3>2. imap'[j] = imap[j] BY <1>6, <2>3, <2>7
    <3> QED BY <1>2, <2>4, <3>1, <3>2, LoadStays
  <2> QED BY <2>5, <2>6, <2>7
<1>13. \A j : Forgetting(j)' = Forgetting(j) /\ Tokens(j)' = Tokens(j)
  BY <1>2, TokensStay
<1>14. Unused'
  <2> SUFFICES ASSUME NEW j \in Inos, j >= maxIno', j \notin clash'
               PROVE  imap'[j] = None /\ known'[j] = 0 /\ Forgetting(j)' = {}
    BY DEF Unused
  <2>1. j # m /\ j >= maxIno /\ j \notin clash BY <1>1, <1>2, <1>8, Small
  <2> QED BY <1>2, <1>6, <1>13, <2>1 DEF Counts, Unused
<1>15. /\ \A j : j # m => Owed(j)' = Owed(j)
       /\ Owed(m)' = {t}
  <2>1. t \notin Numbering /\ Numbering' = Numbering \cup {t} BY <1>2 DEF Numbering
  <2>2. \A s \in Numbering : req'[s] = req[s] BY <1>2, <2>1 DEF Numbering
  <2>3. req'[t].num - 1 = m BY <1>2
  <2>4. \A s \in Numbering : req[s].num - 1 # m
    <3> SUFFICES ASSUME NEW s \in Numbering PROVE req[s].num - 1 # m OBVIOUS
    <3>1. req[s].num \in 3..maxIno BY DEF Numbering, Base, Staged, StagedAt
    <3> QED BY <1>1, <1>2, <3>1
  <2>5. ASSUME NEW j, j # m PROVE Owed(j)' = Owed(j)
    BY <2>1, <2>2, <2>3, <2>5 DEF Owed, Replied
  <2>6. Owed(m)' = {t} BY <2>1, <2>2, <2>3, <2>4 DEF Owed, Replied
  <2> QED BY <2>5, <2>6
<1>16. Counted'
  <2> SUFFICES ASSUME NEW j \in Inos \ ({Root} \cup Unsafe') PROVE CountedAt(j)'
    BY DEF Counted
  <2>1. CountedAt(j) /\ j \notin clash /\ j \notin clash'
    BY <1>2, <1>8 DEF Counts, Counted, Unsafe
  <2>2. CASE j = m
    <3>1. Refs(m)' = 1 BY <1>3, <1>6, <1>7 DEF Refs
    <3>2. known[m] = 0 /\ Forgetting(m) = {} BY <1>1, <1>2, <2>1, <2>2 DEF Counts, Unused
    <3>3. Tokens(m)' = {} BY <1>13, <3>2 DEF Tokens
    <3>4. Cardinality(Tokens(m)') = 0 BY <3>3, FS_EmptySet
    <3>5. Cardinality(Owed(m)') = 1 BY <1>15, FS_Singleton
    <3>6. Refs(m)' = known'[m] + Cardinality(Tokens(m)') + Cardinality(Owed(m)')
      BY <1>2, <3>1, <3>2, <3>4, <3>5
    <3> QED BY <2>2, <3>6 DEF CountedAt
  <2>3. CASE j # m
    <3>1. imap[j] # None => h[imap[j]] = heap[imap[j]] BY <1>2, <1>3 DEF Typed
    <3>2. Refs(j)' = Refs(j) BY <1>2, <1>6, <2>3, <3>1, RefsStay
    <3> QED BY <1>2, <1>13, <1>15, <2>1, <2>3, <3>2 DEF CountedAt
  <2> QED BY <2>2, <2>3
<1>17. Reading' BY <1>2, <1>8, ReadStays DEF ReadAt
<1> QED BY <1>10, <1>11, <1>12, <1>14, <1>16, <1>17 DEF Counts

\* The kernel is told of a new node.
LEMMA SaveNodeCounts ==
  ASSUME Base, Base', Shape, Counts, NEW t \in Threads, Steady(t), SaveNodeAs(t)
  PROVE  Counts'
<1>1. PICK m, n : m = Replied(t) /\ n = req[t].node OBVIOUS
<1>2. /\ Becomes(heap) /\ heap \in [Objs -> Slot] /\ Typed /\ Store(n) /\ Returns(t)
      /\ UNCHANGED <<imap, maxIno, clash, raced>>
      /\ known' = [known EXCEPT ![m] = @ + 1]
      /\ pc[t] = "node" /\ pc'[t] = "idle" /\ req'[t].op = "none" /\ req[t].op = "create"
      /\ \A s \in Threads \ {t} : pc'[s] = pc[s] /\ req'[s] = req[s]
      /\ n \in Objs /\ n \in Pointers(imap, req)
  BY <1>1, InUse DEF SaveNodeAs, Returns, Goes, Base, Typed, Staged, StagedAt
<1>3. m \in Inos /\ m < maxIno
  <2>1. req[t].num \in 3..maxIno BY <1>2 DEF Base, Staged, StagedAt
  <2>2. maxIno \in Nat /\ maxIno <= MaxIno BY DEF Base, Typed, Inos
  <2> QED BY <1>1, <2>1, <2>2 DEF Replied, Inos
<1>4. RootOwn' BY SaveNodeShrinks, RootShrinks DEF Counts
<1>5. Mapped'
  <2> SUFFICES ASSUME NEW j \in Inos, imap'[j] # None
               PROVE  heap'[imap'[j]].own = j \/ {j, heap'[imap'[j]].own} \subseteq clash'
    BY DEF Mapped
  <2> QED BY <1>2, MappedStay DEF Counts
<1>6. Loading' /\ Reading'
  <2>6. Reading' BY <1>2, ReadStays DEF ReadAt
  <2> SUFFICES ASSUME NEW s \in Threads, pc'[s] = "load", req'[s].ent.ino \notin clash'
               PROVE  LoadAt(s)'
    BY <2>6 DEF Loading
  <2>1. s # t /\ pc[s] = "load" /\ req'[s] = req[s] BY <1>2
  <2>2. /\ req[s].op = "lookup" /\ In(heap[req[s].parent].uuid, req[s].ent)
        /\ heap[req[s].parent].uuid \in Uuids /\ req[s].ent \in Dirent /\ req[s].ent.uuid \in Uuids
    BY <2>1, InUse, InOwns DEF Base, Staged, StagedAt, Works
  <2>3. req[s].ent.uuid # heap[n].uuid
    <3>1. NewAt(t) BY DEF Shape, Requests, RequestAt
    <3> QED BY <1>1, <1>2, <2>1, <3>1, LoadersApart DEF NewAt
  <2>4. files'[req[s].ent.uuid] = files[req[s].ent.uuid] BY <1>2, <2>2, <2>3, StoreIs
  <2>5. s \in Threads \ {t} /\ req[s].ent.ino \notin clash
        /\ imap'[req[s].ent.ino] = imap[req[s].ent.ino]
    BY <1>2, <2>1
  <2> QED BY <1>2, <2>1, <2>4, <2>5, LoadStays DEF Stored
<1>7. \A j : Forgetting(j)' = Forgetting(j) /\ Tokens(j)' = Tokens(j)
  BY <1>2, TokensStay
<1>8. Unused'
  <2> SUFFICES ASSUME NEW j \in Inos, j >= maxIno, j \notin clash
               PROVE  imap[j] = None /\ known'[j] = 0 /\ Forgetting(j)' = {}
    BY <1>2 DEF Unused
  <2>1. j # m BY <1>2, <1>3, Small DEF Typed
  <2> QED BY <1>2, <1>7, <2>1 DEF Counts, Unused, Typed
<1>9. /\ \A j : j # m => Owed(j)' = Owed(j)
      /\ Owed(m)' = Owed(m) \ {t} /\ t \in Owed(m)
  <2>1. t \in Numbering /\ Numbering' = Numbering \ {t} BY <1>2 DEF Numbering
  <2>2. \A s \in Numbering' : req'[s] = req[s] BY <1>2, <2>1 DEF Numbering
  <2>3. ASSUME NEW j, j # m PROVE Owed(j)' = Owed(j)
    BY <1>1, <2>1, <2>2, <2>3 DEF Owed, Replied
  <2>4. Owed(m)' = Owed(m) \ {t} BY <2>1, <2>2 DEF Owed, Replied
  <2>5. t \in Owed(m) BY <1>1, <2>1 DEF Owed
  <2> QED BY <2>3, <2>4, <2>5
<1>10. Counted'
  <2> SUFFICES ASSUME NEW j \in Inos \ ({Root} \cup Unsafe') PROVE CountedAt(j)'
    BY DEF Counted
  <2>1. CountedAt(j) BY <1>2 DEF Counts, Counted, Unsafe
  <2>2. Refs(j)' = Refs(j) BY <1>2, RefsStay
  <2>3. CASE j = m
    <3>1. IsFiniteSet(Owed(m)) /\ Cardinality(Owed(m)) \in Nat /\ Cardinality(Tokens(m)) \in Nat
      BY <1>2, CountsFinite
    <3>2. Cardinality(Owed(m)') = Cardinality(Owed(m)) - 1
      BY <1>9, <3>1, FS_RemoveElement
    <3>3. known'[m] = known[m] + 1 /\ known[m] \in Nat BY <1>2, <1>3 DEF Typed
    <3>4. Refs(m) = known[m] + Cardinality(Tokens(m)) + Cardinality(Owed(m))
      BY <2>1, <2>3 DEF CountedAt
    <3>5. Refs(m)' = known'[m] + Cardinality(Tokens(m)') + Cardinality(Owed(m)')
      BY <1>7, <2>2, <2>3, <3>1, <3>2, <3>3, <3>4
    <3> QED BY <2>3, <3>5 DEF CountedAt
  <2>4. CASE j # m
    <3>1. known'[j] = known[j] BY <1>2, <2>4 DEF Typed
    <3> QED BY <1>7, <1>9, <2>1, <2>2, <2>4, <3>1 DEF CountedAt
  <2> QED BY <2>3, <2>4
<1> QED BY <1>4, <1>5, <1>6, <1>8, <1>10 DEF Counts

\* After a mount the kernel knows only the root.
Fresh ==
  /\ RootOwn /\ files[Root].own = Root /\ maxIno \in Inos \ {Root}
  /\ imap = [i \in Inos |-> IF i = Root THEN Root ELSE None]
  /\ heap = [o \in Objs |-> IF o = Root THEN Loaded(Root) ELSE Free]
  /\ known = [i \in Inos |-> 0] /\ pc = [t \in Threads |-> "idle"]
  /\ req = [t \in Threads |-> NoReq]

LEMMA FreshCounts == Fresh => Counts
<1> SUFFICES ASSUME Fresh PROVE Counts OBVIOUS
<1>1. NoReq.op = "none" BY DEF NoReq
<1>2. \A i \in Inos : i # Root => imap[i] = None BY DEF Fresh
<1>3. Mapped
  <2>1. imap[Root] = Root /\ heap[Root] = Loaded(Root) BY Small DEF Fresh
  <2>2. heap[Root].own = Root BY <2>1 DEF Loaded, Fresh
  <2> QED BY <1>2, <2>1, <2>2 DEF Mapped
<1>4. Loading /\ Reading BY DEF Loading, Reading, ReadAt, Fresh
<1>5. \A i : Forgetting(i) = {} BY <1>1 DEF Forgetting, Fresh
<1>6. Unused
  <2> SUFFICES ASSUME NEW i \in Inos, i >= maxIno
               PROVE  imap[i] = None /\ known[i] = 0 /\ Forgetting(i) = {}
    BY DEF Unused
  <2>1. i # Root BY DEF Fresh, Inos
  <2> QED BY <1>2, <1>5, <2>1 DEF Fresh
<1>7. Counted
  <2> SUFFICES ASSUME NEW i \in Inos \ ({Root} \cup Unsafe) PROVE CountedAt(i)
    BY DEF Counted
  <2>1. Refs(i) = 0 BY <1>2 DEF Refs
  <2>2. Tokens(i) = {} BY <1>5 DEF Tokens
  <2>3. Owed(i) = {} BY DEF Owed, Numbering, Fresh
  <2>4. Cardinality(Tokens(i)) = 0 /\ Cardinality(Owed(i)) = 0 BY <2>2, <2>3, FS_EmptySet
  <2> QED BY <2>1, <2>4 DEF CountedAt, Fresh
<1> QED BY <1>3, <1>4, <1>6, <1>7 DEF Counts, Fresh

LEMMA FreshCountsLater == Fresh' => Counts'
BY FreshCounts, PTL

LEMMA CrashCounts ==
  ASSUME Base, Base', Shape, Counts, Crash
  PROVE  Counts'
<1>1. RootOwn' BY CrashShrinks, RootShrinks DEF Shape, Counts
<1>2. files[Root].own = Root
  <2>1. Owns(files[Root].own, Root) /\ files[Root].own \in Inos
    BY InOwns, Files, Small DEF Shape, Tidy, Base
  <2> QED BY <2>1 DEF Counts, RootOwn
<1>3. maxIno' \in Inos \ {Root} BY DEF Base, Typed
<1>4. Fresh' BY <1>1, <1>2, <1>3 DEF Crash, storage, Fresh, Loaded
<1> QED BY <1>4, FreshCountsLater

LEMMA InitCounts ==
  ASSUME Init
  PROVE  Counts
<1>1. files[Root] = RootNode /\ files[2].own = 2 BY Small DEF Init
<1>2. Loaded(Root).uuid = Root /\ Loaded(Root).own = Root /\ RootNode.own = Root
      /\ Free.uuid = None
  BY <1>1 DEF Loaded, RootNode, Free
<1>3. RootOwn BY <1>1, <1>2, Small DEF RootOwn, Owns, Init
<1>4. Fresh BY <1>1, <1>2, <1>3, Small DEF Init, Fresh, Inos
<1> QED BY <1>4, FreshCounts

LEMMA StepCounts ==
  ASSUME Base, Base', Shape, Numbers, Counts, NEW t \in Threads, Steady(t), Did(t)
  PROVE  Counts'
<1>1. ASSUME NEW i \in Inos, NEW e, LookupAs(t, i, e) PROVE Counts' BY <1>1, LookupCounts
<1>2. ASSUME NEW i \in Inos, BeginForgetAs(t, i) PROVE Counts' BY <1>2, BeginForgetCounts
<1>3. ASSUME NEW i \in Inos, NEW e, RemoveAs(t, i, e) PROVE Counts' BY <1>3, RemoveCounts
<1>4. ASSUME NEW i \in Inos, NEW name, NEW e, NEW n, NEW h, CreateAs(t, i, name, e, n, h)
      PROVE  Counts'
  BY <1>4, CreateCounts
<1>5. ASSUME Returns(t), Becomes(heap), UNCHANGED <<files, imap, known, maxIno, raced, clash>>,
             pc[t] \notin {"forget", "drop", "super", "node"}
      PROVE  Counts'
  <2>1. Shrinks BY <1>5, QuietShrinks
  <2>2. \A u \in Uuids : Stored(u)' => Stored(u) BY <1>5 DEF Stored
  <2> QED BY <1>5, <2>1, <2>2, QuietCounts
<1>6. CASE LoadFails(t) BY <1>5, <1>6 DEF LoadFails
<1>7. ASSUME NEW n, NEW h, LoadAs(t, n, h) PROVE Counts' BY <1>7, LoadCounts
<1>8. CASE FoundFails(t) BY <1>5, <1>8 DEF FoundFails
<1>9. CASE FoundAs(t) BY <1>9, FoundCounts
<1>10. ASSUME NEW h, CountAs(t, h) PROVE Counts' BY <1>10, CountCounts
<1>11. CASE ForgetNone(t) BY <1>11, ForgetNoneCounts
<1>12. CASE ForgetAs(t) BY <1>12, ForgetCounts
<1>13. CASE DropGone(t) BY <1>13, DropGoneCounts
<1>14. ASSUME NEW h, DropAs(t, h) PROVE Counts' BY <1>14, DropCounts
<1>15. ASSUME NEW i \in Inos, FlushAs(t, i) PROVE Counts' BY <1>15, FlushCounts
<1>16. ASSUME NEW h, SaveParentAs(t, h) PROVE Counts' BY <1>16, SaveParentCounts
<1>17. CASE SaveSuperAs(t) BY <1>17, SaveSuperCounts
<1>18. CASE SaveNodeAs(t) BY <1>18, SaveNodeCounts
<1>19. CASE RemoveNodeFails(t) BY <1>5, <1>19 DEF RemoveNodeFails
<1>20. ASSUME NEW h, RemoveNodeAs(t, h) PROVE Counts' BY <1>20, RemoveNodeCounts
<1>21. CASE SaveRemovedAs(t) BY <1>21, SaveRemovedCounts
<1> QED
  BY <1>1, <1>2, <1>3, <1>4, <1>6, <1>7, <1>8, <1>9, <1>10, <1>11, <1>12, <1>13,
     <1>14, <1>15, <1>16, <1>17, <1>18, <1>19, <1>20, <1>21 DEF Did

LEMMA StutterCounts ==
  ASSUME Counts, UNCHANGED vars
  PROVE  Counts'
<1>1. UNCHANGED <<files, heap, imap, maxIno, known, pc, req, clash, raced>>
  BY DEF vars, memory, storage, history
<1>2. RootOwn' /\ Mapped' /\ Loading' /\ Reading'
  BY <1>1 DEF Counts, RootOwn, Owns, Mapped, Loading, LoadAt, Reading, ReadAt, Stored
<1>3. \A i : Forgetting(i)' = Forgetting(i) BY <1>1 DEF Forgetting
<1>4. Unused' BY <1>1, <1>3 DEF Counts, Unused
<1>5. \A i : Tokens(i)' = Tokens(i) BY <1>1, <1>3 DEF Tokens, Token
<1>6. \A i : Owed(i)' = Owed(i) BY <1>1 DEF Owed, Numbering, Replied
<1>7. Counted' BY <1>1, <1>5, <1>6 DEF Counts, Counted, CountedAt, Refs, Unsafe
<1> QED BY <1>2, <1>4, <1>7 DEF Counts

LEMMA NextCounts ==
  ASSUME Base, Shape, Numbers, Counts, [Next]_vars
  PROVE  Counts'
<1>1. Base' BY NextShape
<1>2. CASE Crash BY <1>1, <1>2, CrashCounts
<1>3. ASSUME NEW t \in Threads, Step(t) \/ Request(t) PROVE Counts'
  BY <1>3, StepIs, StepCounts
<1>4. CASE UNCHANGED vars BY <1>4, StutterCounts
<1> QED BY <1>2, <1>3, <1>4 DEF Next

LEMMA CountsInvariant == Spec => [](Base /\ Shape /\ Numbers /\ Counts)
<1>1. Init => Counts BY InitCounts
<1>2. Base /\ Shape /\ Numbers /\ Counts /\ [Next]_vars => Counts' BY NextCounts
<1> QED BY <1>1, <1>2, NumbersInvariant, PTL DEF Spec

\* The enclave has in memory the inodes the kernel knows, and counts their
\* references as the kernel does once no lookup or forget of them is in flight:
\* a forget destroys no object the kernel still uses, and leaves none behind.  But
\* for creates that met, and counts that were written over another thread's.
THEOREM CountsAgree == Spec => []RefsExact
<1>1. Base /\ Shape /\ Numbers /\ Counts => RefsExact
  <2> SUFFICES ASSUME Base, Shape, Numbers, Counts,
                      NEW i \in Inos \ ({Root} \cup clash \cup raced),
                      \A t \in Threads : /\ req[t].op = "forget" => req[t].pino # i
                                         /\ req[t].op \in {"lookup", "create"} => req[t].ent.ino # i
               PROVE  known[i] = Refs(i)
    BY DEF RefsExact, Refs
  <2>1. CountedAt(i) BY DEF Counts, Counted, Unsafe
  <2>2. Tokens(i) = {} BY DEF Tokens, Forgetting
  <2>3. Owed(i) = {}
    <3> SUFFICES ASSUME NEW t \in Numbering, Replied(t) = i PROVE FALSE BY DEF Owed
    <3>1. req[t].op = "create" /\ pc[t] # "parent" BY DEF Numbering, Base, Staged, StagedAt
    <3>2. CreateAt(t) BY DEF Numbers, Numbering
    <3> QED BY <3>1, <3>2 DEF CreateAt, Numbering
  <2>4. Cardinality(Tokens(i)) = 0 /\ Cardinality(Owed(i)) = 0 BY <2>2, <2>3, FS_EmptySet
  <2>5. known[i] \in Nat BY DEF Base, Typed
  <2> QED BY <2>1, <2>4, <2>5 DEF CountedAt
<1> QED BY <1>1, CountsInvariant, PTL

-----------------------------------------------------------------------------
(* Contents: the entries in memory and in the storage.                     *)

\* A request works on the object that inode_map has for its directory, and the
\* kernel holds the directory.
CurrentAt(t) ==
  LET i == req[t].pino
      j == heap[req[t].parent].own IN
  req[t].op \in Works =>
    /\ j = i \/ {i, j} \subseteq clash
    /\ i \notin Unsafe => imap[i] = req[t].parent /\ (i = Root \/ known[i] > 0)
Current == \A t \in Threads : CurrentAt(t)

\* An object and its file have the same entries, but for those of creates that
\* have not saved the directory yet and of removes that have not.
Unlinking == {t \in Threads : pc[t] = "unlink"}
NewEnts == {req[t].ent : t \in Saving}
GoneEnts == {req[t].ent : t \in Unlinking}
SyncedAt(i) ==
  LET o == heap[imap[i]] IN
  imap[i] # None /\ Stored(o.uuid) =>
    /\ o.ents \ NewEnts \subseteq files[o.uuid].ents
    /\ files[o.uuid].ents \ GoneEnts \subseteq o.ents
Synced == \A i \in Inos \ Unsafe : SyncedAt(i)

\* The entries of a file lead to files, or their requests are under way.
Witness(e) == \E t \in Threads : req[t].ent = e /\ pc[t] \in {"super", "node", "unlink"}
Lead ==
  \A u \in Uuids : files[u].own \notin Unsafe =>
    \A e \in files[u].ents : Stored(e.uuid) \/ e.ino \in Suspect \/ Witness(e)

Linked == Unsafe = {} => NoOrphan

Contents == Current /\ Synced /\ Lead /\ Linked

\* What is said of fewer numbers.
Safer ==
  /\ clash \subseteq clash' /\ raced \subseteq raced' /\ torn \subseteq torn'
  /\ orphans \subseteq orphans'

LEMMA StepSafer ==
  ASSUME NEW t \in Threads, Did(t)
  PROVE  Safer
<1> USE DEF Safer
<1>1. ASSUME NEW i \in Inos, NEW e, LookupAs(t, i, e) PROVE Safer BY <1>1 DEF LookupAs
<1>2. ASSUME NEW i \in Inos, BeginForgetAs(t, i) PROVE Safer BY <1>2 DEF BeginForgetAs
<1>3. ASSUME NEW i \in Inos, NEW e, RemoveAs(t, i, e) PROVE Safer BY <1>3 DEF RemoveAs
<1>4. ASSUME NEW i \in Inos, NEW name, NEW e, NEW n, NEW h, CreateAs(t, i, name, e, n, h)
      PROVE  Safer
  BY <1>4 DEF CreateAs
<1>5. ASSUME NEW n, NEW h, LoadAs(t, n, h) PROVE Safer BY <1>5 DEF LoadAs
<1>6. ASSUME NEW h, CountAs(t, h) PROVE Safer BY <1>6 DEF CountAs
<1>7. ASSUME NEW h, DropAs(t, h) PROVE Safer BY <1>7 DEF DropAs
<1>8. ASSUME NEW h, SaveParentAs(t, h) PROVE Safer BY <1>8 DEF SaveParentAs
<1>9. ASSUME NEW h, RemoveNodeAs(t, h) PROVE Safer BY <1>9 DEF RemoveNodeAs
<1>10. CASE LoadFails(t) \/ FoundFails(t) \/ RemoveNodeFails(t) \/ FoundAs(t)
  BY <1>10 DEF LoadFails, FoundFails, RemoveNodeFails, FoundAs
<1>11. CASE DropGone(t) \/ SaveSuperAs(t) \/ SaveNodeAs(t) \/ SaveRemovedAs(t)
  BY <1>11 DEF DropGone, SaveSuperAs, SaveNodeAs, SaveRemovedAs
<1>12. CASE ForgetNone(t) \/ ForgetAs(t) BY <1>12 DEF ForgetNone, ForgetAs
<1>13. ASSUME NEW i \in Inos, FlushAs(t, i) PROVE Safer BY <1>13 DEF FlushAs
<1> QED
  BY <1>1, <1>2, <1>3, <1>4, <1>5, <1>6, <1>7, <1>8, <1>9, <1>10, <1>11, <1>12, <1>13
  DEF Did

-----------------------------------------------------------------------------
(* The directories that requests work on stay where they are.              *)

\* What has to be shown of inode_map and the counts.
LEMMA CurrentStays ==
  ASSUME Base, Base', Current, NEW t \in Threads, Steady(t), Safer,
         \A i \in Inos \ Unsafe' :
           /\ \E s \in Threads : req[s].op \in Works /\ req[s].pino = i
           /\ imap[i] # None /\ (i = Root \/ known[i] > 0)
           => imap'[i] = imap[i] /\ known'[i] >= known[i],
         CurrentAt(t)' \/ (/\ req[t].op \in Works /\ req'[t].pino = req[t].pino
                           /\ req'[t].parent = req[t].parent)
  PROVE  Current'
<1> SUFFICES ASSUME NEW s \in Threads, ~CurrentAt(s)' PROVE FALSE BY DEF Current
<1>1. /\ req'[s].pino = req[s].pino /\ req'[s].parent = req[s].parent
      /\ req'[s].op \in Works /\ req[s].op \in Works
  <2>1. CASE s = t BY <2>1 DEF CurrentAt
  <2>2. CASE s # t BY <2>2 DEF CurrentAt, Steady
  <2> QED BY <2>1, <2>2
<1>2. PICK i, p : i = req[s].pino /\ p = req[s].parent OBVIOUS
<1>3. /\ p \in Objs /\ p # None /\ p \in Pointers(imap, req) /\ i \in Inos
  BY <1>1, <1>2, InUse, Small DEF Base, Typed, Req
<1>4. heap'[p].own = heap[p].own
  <2>1. p \in Pointers(imap', req') BY <1>1, <1>2 DEF Pointers
  <2> QED BY <1>3, <2>1 DEF Steady
<1>5. /\ heap[p].own = i \/ {i, heap[p].own} \subseteq clash
      /\ i \notin Unsafe => imap[i] = p /\ (i = Root \/ known[i] > 0)
  BY <1>1, <1>2 DEF Current, CurrentAt
<1>6. i \notin Unsafe' => i \notin Unsafe BY DEF Unsafe, Safer
<1>7. known[i] \in Nat /\ known'[i] \in Nat BY <1>3 DEF Base, Typed
<1>8. i \notin Unsafe' => imap'[i] = p /\ (i = Root \/ known'[i] > 0)
  BY <1>1, <1>2, <1>3, <1>5, <1>6, <1>7
<1>9. heap'[p].own = i \/ {i, heap'[p].own} \subseteq clash' BY <1>4, <1>5 DEF Safer
<1> QED BY <1>1, <1>2, <1>8, <1>9 DEF CurrentAt

\* A request enters the directory that inode_map has.
LEMMA CurrentEnter ==
  ASSUME Base, Base', Mapped, NEW t \in Threads, Steady(t), Safer, NEW i \in Inos, Enters(t, i),
         req'[t].pino = i, req'[t].parent = imap[i], UNCHANGED <<imap, known>>
  PROVE  CurrentAt(t)'
<1>1. imap[i] # None /\ (i = Root \/ known[i] > 0) BY DEF Enters
<1>2. imap[i] \in Objs /\ imap[i] \in Pointers(imap, req) /\ imap[i] \in Pointers(imap', req')
  <2>1. imap[i] \in Objs /\ imap[i] \in Pointers(imap, req)
    BY <1>1, PointersAre DEF Base, Typed
  <2>2. req'[t].parent \in Pointers(imap', req') BY DEF Pointers
  <2> QED BY <2>1, <2>2
<1>3. heap'[imap[i]].own = heap[imap[i]].own BY <1>2 DEF Steady
<1>4. heap'[imap[i]].own = i \/ {i, heap'[imap[i]].own} \subseteq clash'
  BY <1>1, <1>3 DEF Mapped, Safer
<1> QED BY <1>1, <1>4 DEF CurrentAt

\* An object in inode_map of which something is said counts what is given back.
LEMMA ForgetLess ==
  ASSUME Typed, Counted, NEW t \in Threads, req[t].op = "forget", NEW i \in Inos \ Unsafe,
         i = req[t].pino, i # Root, known[i] > 0
  PROVE  imap[i] # None /\ heap[imap[i]].refs > req[t].num
<1>1. CountedAt(i) BY DEF Counted
<1>2. /\ IsFiniteSet(Tokens(i)) /\ Cardinality(Tokens(i)) \in Nat /\ Cardinality(Owed(i)) \in Nat
      /\ known[i] \in Nat /\ req[t].num \in Nat
  BY CountsFinite DEF Typed, Req
<1>3. PICK T : T = Token(t) OBVIOUS
<1>4. T \subseteq Tokens(i) BY <1>3 DEF Tokens, Forgetting
<1>5. IsFiniteSet(T) /\ Cardinality(T) = req[t].num BY <1>2, <1>3, TokenFinite DEF Token
<1>6. req[t].num <= Cardinality(Tokens(i)) BY <1>2, <1>4, <1>5, FS_Subset
<1>7. Refs(i) > req[t].num /\ Refs(i) > 0 BY <1>1, <1>2, <1>6 DEF CountedAt
<1> QED BY <1>7 DEF Refs

\* A step that takes nothing out of inode_map and no count from the kernel.
LEMMA CurrentPlain ==
  ASSUME Base, Base', Current, NEW t \in Threads, Steady(t), Safer, UNCHANGED imap,
         \A i \in Inos : known'[i] >= known[i],
         CurrentAt(t)' \/ (/\ req[t].op \in Works /\ req'[t].pino = req[t].pino
                           /\ req'[t].parent = req[t].parent)
  PROVE  Current'
BY CurrentStays

LEMMA StepCurrent ==
  ASSUME Base, Base', Shape, Counts, Current, NEW t \in Threads, Steady(t), Did(t)
  PROVE  Current'
<1>1. Safer BY StepSafer
<1>2. StagedAt(t) /\ \A i \in Inos : known[i] \in Nat BY DEF Base, Staged, Typed
<1>3. \A i \in Inos : known'[i] = known[i] => known'[i] >= known[i] BY <1>2
<1>4. req'[t].op = "none" => CurrentAt(t)' BY DEF CurrentAt, Works
<1>5. ASSUME NEW i \in Inos, NEW e, LookupAs(t, i, e) PROVE Current'
  <2>1. CurrentAt(t)' BY <1>1, <1>5, CurrentEnter DEF LookupAs, Counts
  <2> QED BY <1>1, <1>3, <1>5, <2>1, CurrentPlain DEF LookupAs
<1>6. ASSUME NEW i \in Inos, NEW e, RemoveAs(t, i, e) PROVE Current'
  <2>1. CurrentAt(t)' BY <1>1, <1>6, CurrentEnter DEF RemoveAs, Counts
  <2> QED BY <1>1, <1>3, <1>6, <2>1, CurrentPlain DEF RemoveAs
<1>7. ASSUME NEW i \in Inos, NEW name, NEW e, NEW n, NEW h, CreateAs(t, i, name, e, n, h)
      PROVE  Current'
  <2>1. CurrentAt(t)' BY <1>1, <1>7, CurrentEnter DEF CreateAs, Counts
  <2> QED BY <1>1, <1>3, <1>7, <2>1, CurrentPlain DEF CreateAs
<1>8. CASE LoadFails(t) \/ FoundFails(t) \/ RemoveNodeFails(t) \/ SaveRemovedAs(t)
  <2>1. UNCHANGED <<imap, known>> /\ req'[t].op = "none"
    BY <1>8 DEF LoadFails, FoundFails, RemoveNodeFails, SaveRemovedAs, Returns
  <2> QED BY <1>1, <1>3, <1>4, <2>1, CurrentPlain
<1>9. CASE SaveSuperAs(t)
  <2>1. UNCHANGED <<imap, known>> /\ req'[t] = req[t] /\ req[t].op \in Works
    BY <1>2, <1>9 DEF SaveSuperAs, StagedAt, Works
  <2> QED BY <1>1, <1>3, <2>1, CurrentPlain
<1>10. ASSUME NEW h, RemoveNodeAs(t, h) PROVE Current'
  <2>1. UNCHANGED <<imap, known>> /\ req'[t] = req[t] /\ req[t].op \in Works
    BY <1>2, <1>10 DEF RemoveNodeAs, StagedAt, Works
  <2> QED BY <1>1, <1>3, <2>1, CurrentPlain
<1>11. ASSUME NEW h, CountAs(t, h) PROVE Current'
  <2>1. UNCHANGED imap /\ req'[t].op = "none" /\ known' = [known EXCEPT ![req[t].ent.ino] = @ + 1]
    BY <1>11 DEF CountAs, Returns
  <2>2. \A i \in Inos : known'[i] >= known[i] BY <1>2, <2>1 DEF Base, Typed
  <2> QED BY <1>1, <1>4, <2>1, <2>2, CurrentPlain
<1>12. CASE SaveNodeAs(t)
  <2>1. UNCHANGED imap /\ req'[t].op = "none" /\ known' = [known EXCEPT ![Replied(t)] = @ + 1]
    BY <1>12 DEF SaveNodeAs, Returns
  <2>2. \A i \in Inos : known'[i] >= known[i] BY <1>2, <2>1 DEF Base, Typed
  <2> QED BY <1>1, <1>4, <2>1, <2>2, CurrentPlain
<1>13. ASSUME NEW h, DropAs(t, h) PROVE Current'
  <2>1. UNCHANGED <<imap, known>> /\ req'[t].op = "none" BY <1>13 DEF DropAs, Returns
  <2> QED BY <1>1, <1>3, <1>4, <2>1, CurrentPlain
<1>14. CASE DropGone(t)
  <2>1. PICK j : j = req[t].pino OBVIOUS
  <2>2. /\ imap' = [imap EXCEPT ![j] = None] /\ UNCHANGED known /\ req'[t].op = "none"
        /\ j \notin raced' => imap[j] # None /\ heap[imap[j]].refs <= req[t].num
        /\ req[t].op = "forget" /\ j # Root /\ j \in Inos /\ req[t].num \in Nat
    BY <1>2, <1>14, <2>1
    DEF DropGone, Undisturbed, Returns, StagedAt, Base, Typed, Req
  <2>3. ASSUME NEW i \in Inos \ Unsafe', imap[i] # None, i = Root \/ known[i] > 0
        PROVE  imap'[i] = imap[i]
    <3>1. CASE i = j
      <4>1. i \notin Unsafe /\ i \notin raced' BY <1>1 DEF Unsafe, Safer
      <4>2. heap[imap[i]].refs > req[t].num
        BY <2>1, <2>2, <2>3, <3>1, <4>1, ForgetLess DEF Base, Counts
      <4>3. heap[imap[i]].refs \in Nat BY <2>3 DEF Base, Typed, Slot
      <4> QED BY <2>2, <2>3, <3>1, <4>1, <4>2, <4>3
    <3>2. CASE i # j BY <2>2, <3>2 DEF Base, Typed
    <3> QED BY <3>1, <3>2
  <2> QED BY <1>1, <1>3, <1>4, <2>2, <2>3, CurrentStays
<1>18. CASE ForgetNone(t)
  <2>1. UNCHANGED <<imap, known>> /\ req'[t].op = "none" BY <1>18 DEF ForgetNone, Returns
  <2> QED BY <1>1, <1>3, <1>4, <2>1, CurrentPlain
<1>19. CASE FoundAs(t)
  <2>1. /\ UNCHANGED <<imap, known>> /\ req[t].op \in Works
        /\ req'[t].pino = req[t].pino /\ req'[t].parent = req[t].parent
    BY <1>2, <1>19 DEF FoundAs, StagedAt, Works
  <2> QED BY <1>1, <1>3, <2>1, CurrentPlain
<1>20. CASE ForgetAs(t)
  <2>1. UNCHANGED <<imap, known>> /\ req'[t].op = "forget"
    BY <1>2, <1>20 DEF ForgetAs, StagedAt
  <2>2. CurrentAt(t)' BY <2>1 DEF CurrentAt, Works
  <2> QED BY <1>1, <1>3, <2>1, <2>2, CurrentPlain
<1>21. ASSUME NEW i \in Inos, FlushAs(t, i) PROVE Current'
  <2>1. UNCHANGED <<heap, imap, known, req>> BY <1>21 DEF FlushAs
  <2>2. CurrentAt(t)' BY <1>1, <2>1 DEF Current, CurrentAt, Unsafe, Safer
  <2> QED BY <1>1, <1>3, <2>1, <2>2, CurrentPlain
<1>15. ASSUME NEW i \in Inos, BeginForgetAs(t, i) PROVE Current'
  <2>1. /\ UNCHANGED imap /\ req'[t].op = "forget" /\ known' = [known EXCEPT ![i] = 0]
        /\ \A s \in Threads : req[s].op \in Works => req[s].pino # i
    BY <1>15 DEF BeginForgetAs, Works
  <2>2. \A j \in Inos \ {i} : known'[j] = known[j] BY <2>1 DEF Base, Typed
  <2>3. CurrentAt(t)' BY <2>1 DEF CurrentAt, Works
  <2> QED BY <1>1, <1>3, <2>1, <2>2, <2>3, CurrentStays
<1>16. ASSUME NEW n, NEW h, LoadAs(t, n, h) PROVE Current'
  <2>1. PICK j : j = req[t].ent.ino OBVIOUS
  <2>2. /\ pc[t] = "load" /\ Stored(req[t].ent.uuid) /\ imap' = [imap EXCEPT ![j] = n]
        /\ UNCHANGED known /\ req[t].op \in Works /\ req'[t].pino = req[t].pino
        /\ req'[t].parent = req[t].parent
    BY <1>2, <1>16, <2>1 DEF LoadAs, StagedAt, Works
  <2>3. ASSUME NEW i \in Inos \ Unsafe', imap[i] # None PROVE imap'[i] = imap[i]
    <3>1. i # j BY <1>1, <2>1, <2>2, <2>3 DEF Counts, Loading, LoadAt, Unsafe, Safer
    <3> QED BY <2>2, <3>1 DEF Base, Typed
  <2> QED BY <1>1, <1>3, <2>2, <2>3, CurrentStays
<1>17. ASSUME NEW h, SaveParentAs(t, h) PROVE Current'
  <2>1. /\ pc[t] = "parent" /\ imap' = [imap EXCEPT ![maxIno] = req[t].node]
        /\ UNCHANGED known /\ req[t].op \in Works /\ req'[t].pino = req[t].pino
        /\ req'[t].parent = req[t].parent
    BY <1>2, <1>17 DEF SaveParentAs, StagedAt, Works
  <2>2. ASSUME NEW i \in Inos \ Unsafe', imap[i] # None PROVE imap'[i] = imap[i]
    <3>1. i # maxIno BY <1>1, <2>2, Small DEF Counts, Unused, Unsafe, Safer, Base, Typed
    <3> QED BY <2>1, <3>1 DEF Base, Typed
  <2> QED BY <1>1, <1>3, <2>1, <2>2, CurrentStays
<1> QED
  BY <1>5, <1>6, <1>7, <1>8, <1>9, <1>10, <1>11, <1>12, <1>13, <1>14, <1>15, <1>16, <1>17,
     <1>18, <1>19, <1>20, <1>21
  DEF Did

-----------------------------------------------------------------------------
(* Steps that write no file.                                               *)

\* The requests that other threads are at.
LEMMA WitnessStays ==
  ASSUME NEW t \in Threads, \A s \in Threads \ {t} : pc'[s] = pc[s] /\ req'[s] = req[s],
         NEW e, Witness(e), ~Witness(e)'
  PROVE  req[t].ent = e /\ pc[t] \in {"super", "node", "unlink"}
BY DEF Witness

LEMMA FilesStay ==
  ASSUME Lead, Linked, NEW t \in Threads, Steady(t), Safer, UNCHANGED files,
         \/ pc[t] \notin {"super", "node", "unlink"}
         \/ pc'[t] \in {"super", "node", "unlink"} /\ req'[t].ent = req[t].ent
  PROVE  Lead' /\ Linked'
<1>1. Lead'
  <2> SUFFICES ASSUME NEW u \in Uuids, files'[u].own \notin Unsafe', NEW e \in files'[u].ents,
                      files'[e.uuid] = Absent, e.ino \notin Suspect', ~Witness(e)'
               PROVE  FALSE
    BY DEF Lead, Stored
  <2>1. files[u].own \notin Unsafe /\ e \in files[u].ents /\ e.ino \notin Suspect
    BY DEF Unsafe, Suspect, Safer
  <2>2. Witness(e) BY <2>1 DEF Lead, Stored
  <2>3. req[t].ent = e /\ pc[t] \in {"super", "node", "unlink"}
    BY <2>2, WitnessStays DEF Steady
  <2> QED BY <2>3 DEF Witness
<1>2. Linked'
  <2> SUFFICES ASSUME Unsafe' = {} PROVE NoOrphan' BY DEF Linked
  <2>1. Unsafe = {} /\ orphans \subseteq orphans' BY DEF Unsafe, Safer
  <2>2. Dirents' = Dirents BY DEF Dirents
  <2>3. \A u \in Uuids \ ({Root} \cup orphans) :
          files[u] # Absent => \E e \in Dirents : e.uuid = u
    BY <2>1 DEF Linked, NoOrphan, Stored
  <2>4. \A u \in Uuids \ ({Root} \cup orphans') :
          files[u] # Absent => \E e \in Dirents : e.uuid = u
    BY <2>1, <2>3
  <2> QED BY <2>2, <2>4 DEF NoOrphan, Stored
<1> QED BY <1>1, <1>2

\* No save of a directory begins or ends.
LEMMA EntsStay ==
  ASSUME NEW t \in Threads, \A s \in Threads \ {t} : pc'[s] = pc[s] /\ req'[s] = req[s],
         pc[t] \notin {"parent", "unlink"}, pc'[t] \notin {"parent", "unlink"}
  PROVE  NewEnts' = NewEnts /\ GoneEnts' = GoneEnts
<1>1. Saving' = Saving /\ Unlinking' = Unlinking /\ t \notin Saving /\ t \notin Unlinking
  BY DEF Saving, Unlinking
<1>2. \A s \in Saving \cup Unlinking : req'[s] = req[s] BY <1>1 DEF Saving, Unlinking
<1> QED BY <1>1, <1>2 DEF NewEnts, GoneEnts

\* An object that keeps its entries, and its file.
LEMMA SyncedStays ==
  ASSUME Base, Base', NEW t \in Threads, Steady(t), NEW h \in [Objs -> Slot], Becomes(h),
         NEW i \in Inos, SyncedAt(i), imap'[i] = imap[i],
         imap[i] # None =>
           /\ h[imap[i]].ents \subseteq heap[imap[i]].ents \cup NewEnts'
           /\ heap[imap[i]].ents \subseteq h[imap[i]].ents \cup GoneEnts'
           /\ files'[heap[imap[i]].uuid] = files[heap[imap[i]].uuid],
         NewEnts \subseteq NewEnts', GoneEnts \subseteq GoneEnts'
  PROVE  SyncedAt(i)'
<1> SUFFICES ASSUME imap[i] # None PROVE SyncedAt(i)' BY DEF SyncedAt
<1>1. PICK o, u : o = imap[i] /\ u = heap[o].uuid OBVIOUS
<1>2. heap'[o] = h[o] /\ heap'[o].uuid = u BY <1>1, MapHeap
<1>3. /\ h[o].ents \subseteq heap[o].ents \cup NewEnts'
      /\ heap[o].ents \subseteq h[o].ents \cup GoneEnts'
      /\ files'[u] = files[u]
  BY <1>1
<1>4. files[u] # Absent => /\ heap[o].ents \ NewEnts \subseteq files[u].ents
                           /\ files[u].ents \ GoneEnts \subseteq heap[o].ents
  BY <1>1 DEF SyncedAt, Stored
<1>5. files'[u] # Absent => /\ h[o].ents \ NewEnts' \subseteq files'[u].ents
                            /\ files'[u].ents \ GoneEnts' \subseteq h[o].ents
  BY <1>3, <1>4
<1> QED BY <1>1, <1>2, <1>5 DEF SyncedAt, Stored

\* Steps that change no entries.
LEMMA PlainContents ==
  ASSUME Base, Base', Synced, Lead, Linked, NEW t \in Threads, Steady(t), Safer,
         NEW h \in [Objs -> Slot], Becomes(h), UNCHANGED files,
         \A o \in Objs : h[o].ents = heap[o].ents,
         \A i \in Inos : imap'[i] = imap[i] \/ imap'[i] = None,
         pc[t] \notin {"parent", "unlink"}, pc'[t] \notin {"parent", "unlink"},
         \/ pc[t] \notin {"super", "node"}
         \/ pc'[t] \in {"super", "node"} /\ req'[t].ent = req[t].ent
  PROVE  Synced' /\ Lead' /\ Linked'
<1>1. Lead' /\ Linked' BY FilesStay
<1>2. NewEnts' = NewEnts /\ GoneEnts' = GoneEnts BY EntsStay DEF Steady
<1>3. Synced'
  <2> SUFFICES ASSUME NEW i \in Inos \ Unsafe', imap'[i] # None PROVE SyncedAt(i)'
    BY DEF Synced, SyncedAt
  <2>1. SyncedAt(i) /\ imap'[i] = imap[i] BY DEF Synced, Unsafe, Safer
  <2>2. imap[i] \in Objs BY <2>1 DEF Base, Typed
  <2> QED BY <1>2, <2>1, <2>2, SyncedStays
<1> QED BY <1>1, <1>3

\* What is loaded is what is stored.
LEMMA LoadContents ==
  ASSUME Base, Base', Synced, Lead, Linked, NEW t \in Threads, Steady(t), Safer,
         NEW n, NEW h, LoadAs(t, n, h)
  PROVE  Synced' /\ Lead' /\ Linked'
<1>1. PICK j, u : j = req[t].ent.ino /\ u = req[t].ent.uuid OBVIOUS
<1>2. /\ Becomes(h) /\ h \in [Objs -> Slot] /\ Typed /\ j \in Inos /\ u \in Uuids
      /\ UNCHANGED files /\ pc[t] = "load" /\ pc'[t] = "found" /\ req'[t].node = n
      /\ imap' = [imap EXCEPT ![j] = n] /\ n \in Objs /\ n \notin Pointers(imap, req)
      /\ h[n] = Loaded(u) /\ \A o \in Objs \ {n} : h[o] = heap[o]
  BY <1>1, InUse DEF LoadAs, Goes, Base
<1>3. Lead' /\ Linked' BY <1>2, FilesStay
<1>4. NewEnts' = NewEnts /\ GoneEnts' = GoneEnts BY <1>2, EntsStay DEF Steady
<1>5. Synced'
  <2> SUFFICES ASSUME NEW i \in Inos \ Unsafe', imap'[i] # None PROVE SyncedAt(i)'
    BY DEF Synced, SyncedAt
  <2>1. CASE i = j
    <3>1. n \in Pointers(imap', req') BY <1>2 DEF Pointers
    <3>2. heap'[n] = h[n] BY <1>2, <3>1 DEF Becomes
    <3>3. h[n].uuid = u /\ h[n].ents = files[u].ents BY <1>2, LoadedSlot
    <3>4. imap'[i] = n BY <1>2, <2>1 DEF Typed
    <3> QED BY <1>2, <3>2, <3>3, <3>4 DEF SyncedAt
  <2>2. CASE i # j
    <3>1. SyncedAt(i) /\ imap'[i] = imap[i] BY <1>2, <2>2 DEF Synced, Unsafe, Safer, Typed
    <3>2. imap[i] \in Objs /\ imap[i] # n BY <1>2, <3>1, PointersAre DEF Typed
    <3> QED BY <1>2, <1>4, <3>1, <3>2, SyncedStays
  <2> QED BY <2>1, <2>2
<1> QED BY <1>3, <1>5

LEMMA DirentsAre ==
  \A e : e \in Dirents <=> \E u \in Uuids : e \in files[u].ents
BY DEF Dirents

LEMMA DirentsLater == (\A e : e \in Dirents <=> \E u \in Uuids : e \in files[u].ents)'
BY DirentsAre, PTL

\* A flush saves a file, which has no entries: one with a node that was there, or
\* an orphan.
FlushHas(o, v) ==
  /\ o \in Objs /\ o \in Pointers(imap, req) /\ Store(o) /\ v \in Uuids /\ v = heap[o].uuid
  /\ heap[o].kind = "reg" /\ UNCHANGED <<heap, imap, pc, req>>
  /\ orphans' = orphans \cup {u \in {v} : files[u] = Absent}
  /\ \A q \in Objs : heap[q].uuid = v => heap[q].ents = {}
  /\ files'[v] # Absent /\ files'[v].ents = {} /\ files'[v].kind = "reg"
  /\ \A u \in Uuids \ {v} : files'[u] = files[u]
  /\ \A u \in Uuids : files[u] # Absent => files'[u] # Absent
  /\ \A u \in Uuids : files'[u].ents = files[u].ents
LEMMA FlushKeeps ==
  ASSUME Base, Shape, NEW t \in Threads, NEW i \in Inos, FlushAs(t, i)
  PROVE  \E o, v : FlushHas(o, v)
<1>1. PICK o, v : o = imap[i] /\ v = heap[o].uuid OBVIOUS
<1>2. /\ o \in Objs /\ o \in Pointers(imap, req) /\ Store(o) /\ v \in Uuids /\ Typed
      /\ UNCHANGED <<heap, imap, pc, req>> /\ heap[o].kind = "reg"
      /\ orphans' = orphans \cup {u \in {v} : files[u] = Absent}
  BY <1>1, DumpedNode DEF FlushAs, Base
<1>3. \A q \in Objs : heap[q].uuid = v => heap[q].ents = {}
  <2> SUFFICES ASSUME NEW q \in Objs, heap[q].uuid = v, NEW e \in heap[q].ents PROVE FALSE
    OBVIOUS
  <2>1. In(v, e) /\ Kin("reg", v) BY <1>1, <1>2, InOwns
  <2>2. heap[q] \in Slot BY <1>2 DEF Typed
  <2>3. e \in Dirent BY <2>2 DEF Slot
  <2> QED BY <1>2, <2>1, <2>3 DEF Shape, Tidy, Leaf
<1>4. files[v].ents = {}
  <2> SUFFICES ASSUME NEW e \in files[v].ents PROVE FALSE OBVIOUS
  <2>1. In(v, e) /\ Kin("reg", v) BY <1>1, <1>2, InOwns
  <2>2. e \in Dirent BY <1>2, Files
  <2> QED BY <1>2, <2>1, <2>2 DEF Shape, Tidy, Leaf
<1>5. /\ files'[v] # Absent /\ files'[v].ents = {} /\ files'[v].kind = "reg"
      /\ \A u \in Uuids \ {v} : files'[u] = files[u]
      /\ \A u \in Uuids : files[u] # Absent => files'[u] # Absent
  <2>1. files'[v].ents = heap[o].ents /\ files'[v].kind = heap[o].kind
    BY <1>1, <1>2, StoreIs
  <2> QED BY <1>1, <1>2, <1>3, <2>1, StoreIs
<1>6. \A u \in Uuids : files'[u].ents = files[u].ents BY <1>4, <1>5
<1> QED BY <1>1, <1>2, <1>3, <1>5, <1>6 DEF FlushHas

LEMMA FlushContents ==
  ASSUME Base, Base', Shape, Synced, Lead, Linked, NEW t \in Threads, Steady(t), Safer,
         NEW i \in Inos, FlushAs(t, i)
  PROVE  Synced' /\ Lead' /\ Linked'
<1>1. PICK o, v : FlushHas(o, v) BY FlushKeeps
<1>2. /\ o \in Objs /\ o \in Pointers(imap, req) /\ Store(o) /\ v \in Uuids /\ Typed
      /\ UNCHANGED <<heap, imap, pc, req>> /\ heap[o].kind = "reg"
      /\ orphans' = orphans \cup {u \in {v} : files[u] = Absent}
  BY <1>1 DEF FlushHas, Base
<1>3. \A q \in Objs : heap[q].uuid = v => heap[q].ents = {} BY <1>1 DEF FlushHas
<1>5. /\ files'[v] # Absent /\ files'[v].ents = {}
      /\ \A u \in Uuids \ {v} : files'[u] = files[u]
      /\ \A u \in Uuids : files[u] # Absent => files'[u] # Absent
  BY <1>1 DEF FlushHas
<1>6. \A u \in Uuids : files'[u].ents = files[u].ents BY <1>1 DEF FlushHas
<1>7. Synced'
  <2> SUFFICES ASSUME NEW j \in Inos \ Unsafe', imap[j] # None PROVE SyncedAt(j)'
    BY <1>2 DEF Synced, SyncedAt
  <2>1. SyncedAt(j) BY DEF Synced, Unsafe, Safer
  <2>2. imap[j] \in Objs /\ heap[imap[j]].uuid \in Uuids BY MapOwns
  <2>3. NewEnts' = NewEnts /\ GoneEnts' = GoneEnts
    BY <1>2 DEF NewEnts, GoneEnts, Saving, Unlinking
  <2>4. CASE heap[imap[j]].uuid = v
    <3>1. heap[imap[j]].ents = {} BY <1>3, <2>2, <2>4
    <3> QED BY <1>2, <1>5, <2>4, <3>1 DEF SyncedAt
  <2>5. CASE heap[imap[j]].uuid # v
    <3>1. files'[heap[imap[j]].uuid] = files[heap[imap[j]].uuid] BY <1>5, <2>2, <2>5
    <3> QED BY <1>2, <2>1, <2>3, <3>1 DEF SyncedAt, Stored
  <2> QED BY <2>4, <2>5
<1>8. Lead'
  <2> SUFFICES ASSUME NEW u \in Uuids, files'[u].own \notin Unsafe', NEW x \in files'[u].ents,
                      files'[x.uuid] = Absent, x.ino \notin Suspect', ~Witness(x)'
               PROVE  FALSE
    BY DEF Lead, Stored
  <2>1. u # v BY <1>5
  <2>2. /\ files[u].own \notin Unsafe /\ x \in files[u].ents /\ x.ino \notin Suspect
        /\ x \in Dirent /\ x.uuid \in Uuids
    BY <1>2, <1>5, <2>1, Files DEF Unsafe, Suspect, Safer, Dirent
  <2>3. ~Stored(x.uuid) BY <1>5, <2>2 DEF Stored
  <2>4. Witness(x) BY <2>2, <2>3 DEF Lead
  <2> QED BY <1>2, <2>4 DEF Witness
<1>9. Linked'
  <2> SUFFICES ASSUME Unsafe' = {}, NEW w \in Uuids \ ({Root} \cup orphans'), files'[w] # Absent
               PROVE  \E x \in Dirents' : x.uuid = w
    BY DEF Linked, NoOrphan, Stored
  <2>1. Unsafe = {} /\ w \notin orphans BY DEF Unsafe, Safer
  <2>2. Stored(w)
    <3>1. CASE w = v BY <1>2, <3>1 DEF Stored
    <3>2. CASE w # v BY <1>5, <3>2 DEF Stored
    <3> QED BY <3>1, <3>2
  <2>3. PICK x \in Dirents : x.uuid = w BY <2>1, <2>2 DEF Linked, NoOrphan
  <2>4. PICK u \in Uuids : x \in files[u].ents BY DirentsAre
  <2>5. x \in files'[u].ents BY <1>6, <2>4
  <2> QED BY <2>3, <2>5, DirentsLater
<1> QED BY <1>7, <1>8, <1>9

\* The new entry is in the parent in memory.
LEMMA CreateContents ==
  ASSUME Base, Base', Synced, Lead, Linked, NEW t \in Threads, Steady(t), Safer, NEW i \in Inos,
         NEW name, NEW e, NEW n, NEW h, CreateAs(t, i, name, e, n, h)
  PROVE  Synced' /\ Lead' /\ Linked'
<1>1. /\ Becomes(h) /\ h \in [Objs -> Slot] /\ Typed /\ UNCHANGED <<files, imap>>
      /\ pc[t] = "idle" /\ pc'[t] = "parent" /\ req'[t].ent = e
      /\ imap[i] \in Objs /\ n \notin Pointers(imap, req)
      /\ h[imap[i]] = [heap[imap[i]] EXCEPT !.ents = @ \cup {e}]
      /\ \A o \in Objs \ {n, imap[i]} : h[o] = heap[o]
      /\ \A s \in Threads \ {t} : pc'[s] = pc[s] /\ req'[s] = req[s]
  BY DEF CreateAs, Base
<1>2. Lead' /\ Linked' BY <1>1, FilesStay
<1>3. NewEnts' = NewEnts \cup {e} /\ GoneEnts' = GoneEnts
  <2>1. /\ t \notin Saving /\ t \notin Unlinking
        /\ Saving' = Saving \cup {t} /\ Unlinking' = Unlinking
    BY <1>1 DEF Saving, Unlinking
  <2>2. \A s \in Saving \cup Unlinking : req'[s] = req[s] BY <1>1, <2>1 DEF Saving, Unlinking
  <2> QED BY <1>1, <2>1, <2>2 DEF NewEnts, GoneEnts
<1>4. h[imap[i]].ents = heap[imap[i]].ents \cup {e}
  <2>1. heap[imap[i]] \in Slot BY <1>1 DEF Typed
  <2> QED BY <1>1, <2>1 DEF Slot
<1>5. Synced'
  <2> SUFFICES ASSUME NEW j \in Inos \ Unsafe', imap'[j] # None PROVE SyncedAt(j)'
    BY DEF Synced, SyncedAt
  <2>1. SyncedAt(j) /\ imap'[j] = imap[j] BY <1>1 DEF Synced, Unsafe, Safer
  <2>2. imap[j] \in Objs /\ imap[j] # n BY <1>1, <2>1, PointersAre DEF Typed
  <2>3. h[imap[j]].ents = heap[imap[j]].ents
        \/ h[imap[j]].ents = heap[imap[j]].ents \cup {e}
    BY <1>1, <1>4, <2>2
  <2>4. /\ h[imap[j]].ents \subseteq heap[imap[j]].ents \cup NewEnts'
        /\ heap[imap[j]].ents \subseteq h[imap[j]].ents \cup GoneEnts'
    BY <1>3, <2>3
  <2> QED BY <1>1, <1>3, <2>1, <2>4, SyncedStays
<1> QED BY <1>2, <1>5

-----------------------------------------------------------------------------
(* Steps that write the file of a node.                                    *)

LEMMA RemoveNodeContents ==
  ASSUME Base, Base', Shape, Synced, Lead, Linked, NEW t \in Threads, Steady(t), Safer,
         NEW h, RemoveNodeAs(t, h)
  PROVE  Synced' /\ Lead' /\ Linked'
<1>1. PICK e, v, p : e = req[t].ent /\ v = e.uuid /\ p = req[t].parent OBVIOUS
<1>2. /\ Becomes(h) /\ h \in [Objs -> Slot] /\ Typed /\ UNCHANGED imap
      /\ pc[t] = "unstore" /\ pc'[t] = "unlink" /\ req'[t] = req[t] /\ req[t].op \in Works
      /\ files' = [files EXCEPT ![v] = Absent] /\ v \in Uuids /\ e \in Dirent /\ p \in Objs
      /\ h[p] = [heap[p] EXCEPT !.ents = @ \ {e}]
      /\ \A o \in Objs \ {p} : h[o] = heap[o]
      /\ \A s \in Threads \ {t} : pc'[s] = pc[s] /\ req'[s] = req[s]
  BY <1>1, InUse DEF RemoveNodeAs, Goes, Base, Staged, StagedAt, Works
<1>3. files'[v] = Absent /\ \A u \in Uuids \ {v} : files'[u] = files[u] BY <1>2 DEF Typed
<1>4. Absent.ents = {} BY DEF Absent
<1>5. files[v].ents = {}
  BY <1>1, <1>2 DEF Shape, Requests, RequestAt, RemovedAt
<1>6. NewEnts' = NewEnts /\ GoneEnts' = GoneEnts \cup {e}
  <2>1. /\ t \notin Saving /\ t \notin Unlinking
        /\ Saving' = Saving /\ Unlinking' = Unlinking \cup {t}
    BY <1>2 DEF Saving, Unlinking
  <2>2. \A s \in Threads : req'[s] = req[s] BY <1>2
  <2> QED BY <1>1, <2>1, <2>2 DEF NewEnts, GoneEnts, Saving, Unlinking
<1>7. h[p].ents = heap[p].ents \ {e}
  <2>1. heap[p] \in Slot BY <1>2 DEF Typed
  <2> QED BY <1>2, <2>1 DEF Slot
<1>8. Synced'
  <2> SUFFICES ASSUME NEW j \in Inos \ Unsafe', imap'[j] # None PROVE SyncedAt(j)'
    BY DEF Synced, SyncedAt
  <2>1. SyncedAt(j) /\ imap'[j] = imap[j] BY <1>2 DEF Synced, Unsafe, Safer
  <2>2. imap[j] \in Objs /\ heap[imap[j]].uuid \in Uuids BY <2>1, MapOwns
  <2>3. CASE heap[imap[j]].uuid = v
    <3>1. heap'[imap[j]].uuid = v BY <1>2, <2>1, <2>3, MapHeap
    <3> QED BY <1>3, <2>1, <3>1 DEF SyncedAt, Stored
  <2>4. CASE heap[imap[j]].uuid # v
    <3>1. h[imap[j]].ents = heap[imap[j]].ents
          \/ h[imap[j]].ents = heap[imap[j]].ents \ {e}
      BY <1>2, <1>7, <2>2
    <3>2. /\ h[imap[j]].ents \subseteq heap[imap[j]].ents \cup NewEnts'
          /\ heap[imap[j]].ents \subseteq h[imap[j]].ents \cup GoneEnts'
      BY <1>6, <3>1
    <3>3. files'[heap[imap[j]].uuid] = files[heap[imap[j]].uuid] BY <1>3, <2>2, <2>4
    <3> QED BY <1>2, <1>6, <2>1, <3>2, <3>3, SyncedStays
  <2> QED BY <2>3, <2>4
<1>9. Lead'
  <2> SUFFICES ASSUME NEW u \in Uuids, files'[u].own \notin Unsafe', NEW x \in files'[u].ents,
                      files'[x.uuid] = Absent, x.ino \notin Suspect', ~Witness(x)'
               PROVE  FALSE
    BY DEF Lead, Stored
  <2>1. u # v /\ files'[u] = files[u] BY <1>3, <1>4
  <2>2. files[u].own \notin Unsafe /\ x \in files[u].ents /\ x.ino \notin Suspect
    BY <2>1 DEF Unsafe, Suspect, Safer
  <2>3. ~Witness(x) BY <1>2, WitnessStays
  <2>4. Stored(x.uuid) BY <2>2, <2>3 DEF Lead
  <2>5. x \in Dirent /\ In(u, x) /\ x.uuid \in Uuids
    BY <1>2, <2>2, Files DEF In, Dirent
  <2>6. x.uuid = v BY <1>3, <2>4, <2>5 DEF Stored
  <2>7. In(heap[p].uuid, e) /\ heap[p].uuid \in Uuids BY <1>1, <1>2, InOwns, InUse
  <2>8. x = e BY <1>1, <1>2, <2>5, <2>6, <2>7 DEF Shape, Tidy, OneHome
  <2> QED BY <1>1, <1>2, <2>8 DEF Witness
<1>10. Linked'
  <2> SUFFICES ASSUME Unsafe' = {}, NEW w \in Uuids \ ({Root} \cup orphans'), files'[w] # Absent
               PROVE  \E x \in Dirents' : x.uuid = w
    BY DEF Linked, NoOrphan, Stored
  <2>1. Unsafe = {} /\ w \notin orphans BY DEF Unsafe, Safer
  <2>2. Stored(w) BY <1>3 DEF Stored
  <2>3. PICK x \in Dirents : x.uuid = w BY <2>1, <2>2 DEF Linked, NoOrphan
  <2>4. PICK u \in Uuids : x \in files[u].ents BY DirentsAre
  <2>5. u # v BY <1>5, <2>4
  <2>6. x \in files'[u].ents BY <1>3, <2>4, <2>5
  <2> QED BY <2>3, <2>6, DirentsLater
<1> QED BY <1>8, <1>9, <1>10

LEMMA SaveNodeContents ==
  ASSUME Base, Base', Shape, Synced, Lead, Linked, NEW t \in Threads, Steady(t), Safer,
         SaveNodeAs(t)
  PROVE  Synced' /\ Lead' /\ Linked'
<1>1. PICK e, v, p, n : e = req[t].ent /\ v = e.uuid /\ p = req[t].parent /\ n = req[t].node
  OBVIOUS
<1>2. /\ Becomes(heap) /\ heap \in [Objs -> Slot] /\ Typed /\ UNCHANGED imap /\ Store(n)
      /\ pc[t] = "node" /\ pc'[t] = "idle" /\ req[t].op = "create"
      /\ v \in Uuids /\ e \in Dirent /\ p \in Objs /\ heap[p].uuid \in Uuids
      /\ n \in Objs /\ n \in Pointers(imap, req)
      /\ \A s \in Threads \ {t} : pc'[s] = pc[s] /\ req'[s] = req[s]
  BY <1>1, InUse DEF SaveNodeAs, Returns, Goes, Base, Typed, Staged, StagedAt, Works
<1>3. NewAt(t) /\ Stored(heap[p].uuid)
  BY <1>1, <1>2 DEF Shape, Requests, RequestAt, ParentAt, Changes
<1>4. /\ v = heap[n].uuid /\ heap[n].ents = {} /\ (files[v] # Absent => clash # {})
      /\ \A o \in Objs : heap[o].uuid = v => o = n
      /\ e \in files[heap[p].uuid].ents
  BY <1>1, <1>2, <1>3 DEF NewAt, Stored
<1>5. /\ files'[v] # Absent /\ files'[v].ents = {}
      /\ \A u \in Uuids \ {v} : files'[u] = files[u]
      /\ \A u \in Uuids : files[u] # Absent => files'[u] # Absent
  BY <1>2, <1>4, StoreIs
<1>6. NewEnts' = NewEnts /\ GoneEnts' = GoneEnts BY <1>2, EntsStay
<1>7. Synced'
  <2> SUFFICES ASSUME NEW j \in Inos \ Unsafe', imap'[j] # None PROVE SyncedAt(j)'
    BY DEF Synced, SyncedAt
  <2>1. SyncedAt(j) /\ imap'[j] = imap[j] BY <1>2 DEF Synced, Unsafe, Safer
  <2>2. imap[j] \in Objs /\ heap[imap[j]].uuid \in Uuids BY <2>1, MapOwns
  <2>3. CASE heap[imap[j]].uuid = v
    <3>1. imap[j] = n BY <1>4, <2>2, <2>3
    <3>2. heap'[n] = heap[n] /\ heap'[n].uuid = v BY <1>2, <1>4, <2>1, <3>1, MapHeap
    <3> QED BY <1>4, <1>5, <2>1, <3>1, <3>2 DEF SyncedAt
  <2>4. CASE heap[imap[j]].uuid # v
    <3>1. files'[heap[imap[j]].uuid] = files[heap[imap[j]].uuid] BY <1>5, <2>2, <2>4
    <3> QED BY <1>2, <1>6, <2>1, <3>1, SyncedStays
  <2> QED BY <2>3, <2>4
<1>8. Lead'
  <2> SUFFICES ASSUME NEW u \in Uuids, files'[u].own \notin Unsafe', NEW x \in files'[u].ents,
                      files'[x.uuid] = Absent, x.ino \notin Suspect', ~Witness(x)'
               PROVE  FALSE
    BY DEF Lead, Stored
  <2>1. u # v /\ files'[u] = files[u] BY <1>5
  <2>2. /\ files[u].own \notin Unsafe /\ x \in files[u].ents /\ x.ino \notin Suspect
        /\ x \in Dirent /\ x.uuid \in Uuids
    BY <1>2, <2>1, Files DEF Unsafe, Suspect, Safer, Dirent
  <2>3. ~Stored(x.uuid) BY <1>5, <2>2 DEF Stored
  <2>4. Witness(x) BY <2>2, <2>3 DEF Lead
  <2>5. req[t].ent = x BY <1>2, <2>4, WitnessStays
  <2> QED BY <1>1, <1>5, <2>5
<1>9. Linked'
  <2> SUFFICES ASSUME Unsafe' = {}, NEW w \in Uuids \ ({Root} \cup orphans'), files'[w] # Absent
               PROVE  \E x \in Dirents' : x.uuid = w
    BY DEF Linked, NoOrphan, Stored
  <2>1. Unsafe = {} /\ w \notin orphans /\ files[v] = Absent BY <1>4 DEF Unsafe, Safer
  <2>2. CASE w = v
    <3>1. heap[p].uuid # v BY <1>3, <2>1 DEF Stored
    <3>2. e \in files'[heap[p].uuid].ents BY <1>2, <1>4, <1>5, <3>1
    <3>3. e \in Dirents' BY <1>2, <3>2, DirentsLater
    <3> QED BY <1>1, <2>2, <3>3
  <2>3. CASE w # v
    <3>1. Stored(w) BY <1>5, <2>3 DEF Stored
    <3>2. PICK x \in Dirents : x.uuid = w BY <2>1, <3>1 DEF Linked, NoOrphan
    <3>3. PICK u \in Uuids : x \in files[u].ents BY DirentsAre
    <3>4. u # v BY <1>2, <2>1, <3>3, Files DEF Stored
    <3>5. x \in files'[u].ents BY <1>5, <3>3, <3>4
    <3> QED BY <3>2, <3>5, DirentsLater
  <2> QED BY <2>2, <2>3
<1> QED BY <1>7, <1>8, <1>9

-----------------------------------------------------------------------------
(* Steps that save a directory.                                            *)

\* Nobody else changes the directory of a request that changes one.
LEMMA OneChange ==
  ASSUME Base, Shape, NEW t \in Threads, req[t].op \in Changes, NEW s \in Threads,
         req[s].op \in Changes, NEW x \in Dirent, NEW u \in Uuids,
         u = heap[req[t].parent].uuid, In(u, x), x = req[s].ent
  PROVE  s = t
<1>1. In(heap[req[s].parent].uuid, x) /\ heap[req[s].parent].uuid \in Uuids
  BY InOwns, InUse DEF Base, Changes, Works
<1>2. heap[req[s].parent].uuid = u BY <1>1 DEF Shape, Tidy, OneHome
<1>3. u \in Locked(s) /\ u \in Locked(t) BY <1>2, LockedIs DEF Changes
<1> QED BY <1>3 DEF Shape, Locks, Changes

\* The object of a number of which something is said is the one the request has.
LEMMA SameObject ==
  ASSUME Base, Tidy, Mapped, Current, NEW t \in Threads, req[t].op \in Works,
         NEW i \in Inos \ Unsafe, imap[i] # None,
         heap[imap[i]].uuid = heap[req[t].parent].uuid
  PROVE  imap[i] = req[t].parent
<1>1. PICK p, u, j : p = req[t].parent /\ u = heap[p].uuid /\ j = req[t].pino OBVIOUS
<1>2. /\ imap[i] \in Objs /\ heap[imap[i]].own \in Inos /\ Owns(heap[imap[i]].own, u)
      /\ p \in Objs /\ heap[p].own \in Inos /\ u \in Uuids /\ Owns(heap[p].own, u)
  BY <1>1, MapOwns, InUse, InOwns DEF Base
<1>3. heap[imap[i]].own = i BY DEF Mapped, Unsafe
<1>4. heap[p].own = i BY <1>2, <1>3 DEF Tidy, OneNumber
<1>5. /\ heap[p].own = j \/ {j, heap[p].own} \subseteq clash
      /\ j \notin Unsafe => imap[j] = p
  BY <1>1 DEF Current, CurrentAt
<1> QED BY <1>1, <1>4, <1>5 DEF Unsafe

\* Only the entry of the request is not the same in the object and the file.
LEMMA NearlySynced ==
  ASSUME Base, Shape, Mapped, Current, Synced, NEW t \in Threads, req[t].op \in Changes,
         NEW p, p = req[t].parent, NEW e, e = req[t].ent, NEW u, u = heap[p].uuid,
         heap[p].own \notin Unsafe
  PROVE  heap[p].ents \ {e} \subseteq files[u].ents /\ files[u].ents \ {e} \subseteq heap[p].ents
<1>1. PICK i : i = req[t].pino OBVIOUS
<1>2. /\ p \in Objs /\ p # None /\ u \in Uuids /\ Stored(u) /\ i \in Inos
      /\ heap[p].ents \subseteq Dirent /\ files[u].ents \subseteq Dirent
  <2>1. p \in Objs /\ u \in Uuids /\ i \in Inos
    BY <1>1, InUse DEF Changes, Works, Base, Typed, Req
  <2>2. heap[p] \in Slot BY <2>1 DEF Base, Typed
  <2>3. Stored(u) BY DEF Shape, Requests, RequestAt, ParentAt
  <2> QED BY <2>1, <2>2, <2>3, Small, Files DEF Base, Slot
<1>3. heap[p].own = i \/ {i, heap[p].own} \subseteq clash
  BY <1>1 DEF Current, CurrentAt, Changes, Works
<1>4. i \notin Unsafe BY <1>3 DEF Unsafe
<1>5. imap[i] = p BY <1>1, <1>4 DEF Current, CurrentAt, Changes, Works
<1>6. SyncedAt(i) BY <1>2, <1>4 DEF Synced
<1>7. heap[p].ents \ NewEnts \subseteq files[u].ents /\ files[u].ents \ GoneEnts \subseteq heap[p].ents
  BY <1>2, <1>5, <1>6 DEF SyncedAt
<1>8. \A x \in heap[p].ents \cup files[u].ents : x \in Dirent /\ In(u, x)
  BY <1>2, InOwns DEF Base
<1>9. ASSUME NEW x \in heap[p].ents \cup files[u].ents, x \in NewEnts \cup GoneEnts
      PROVE  x = e
  <2>1. PICK s \in Saving \cup Unlinking : x = req[s].ent BY <1>9 DEF NewEnts, GoneEnts
  <2>2. s \in Threads /\ req[s].op \in Changes
    BY <2>1 DEF Saving, Unlinking, Changes, Base, Staged, StagedAt
  <2>3. s = t BY <1>2, <1>8, <2>1, <2>2, OneChange, SMTT(30)
  <2> QED BY <2>1, <2>3
<1>10. \A x \in heap[p].ents : x # e => x \in files[u].ents BY <1>7, <1>9
<1>11. \A x \in files[u].ents : x # e => x \in heap[p].ents BY <1>7, <1>9
<1> QED BY <1>10, <1>11

\* What the saves of a create and of a remove have in common.
Saves(t, h) ==
  /\ req[t].op \in Changes /\ Store(req[t].parent) /\ pc[t] \in {"parent", "unlink"}
  /\ Stored(req[t].ent.uuid) => req[t].ent.ino \in clash \/ req[t].ent.uuid \in orphans
  /\ h \in [Objs -> Slot] /\ Becomes(h) /\ \A o \in Objs : h[o].ents = heap[o].ents
  /\ \/ pc'[t] = "super" /\ req'[t].ent = req[t].ent
     \/ pc'[t] = "idle" /\ req[t].ent \notin heap[req[t].parent].ents

LEMMA SavesIs ==
  ASSUME Base, Shape, NEW t \in Threads, Steady(t), NEW h, Saves(t, h),
         NEW p, p = req[t].parent, NEW e, e = req[t].ent, NEW u, u = heap[p].uuid
  PROVE  /\ p \in Objs /\ u \in Uuids /\ e \in Dirent /\ e.uuid \in Uuids /\ In(u, e)
         /\ Owns(heap[p].own, u) /\ heap[p].own \in Inos /\ Stored(u)
         /\ files'[u] # Absent /\ files'[u].own = heap[p].own /\ files'[u].ents = heap[p].ents
         /\ \A v \in Uuids \ {u} : files'[v] = files[v]
         /\ \A v \in Uuids : Stored(v) <=> files'[v] # Absent
         /\ NewEnts \subseteq NewEnts' \cup {e} /\ GoneEnts \subseteq GoneEnts' \cup {e}
         /\ \A x \in Dirent : \A v \in Uuids : In(v, x) /\ x = e => v = u
<1>1. req[t].op \in Works /\ Store(p) BY DEF Saves, Changes, Works
<1>2. /\ p \in Objs /\ p \in Pointers(imap, req) /\ u \in Uuids /\ e \in Dirent
      /\ heap[p].own \in Inos /\ e.uuid \in Uuids
  BY <1>1, InUse
<1>3. In(u, e) /\ Owns(heap[p].own, u) BY <1>1, <1>2, InOwns DEF Base
<1>4. Stored(u) BY DEF Shape, Requests, RequestAt, ParentAt, Saves
<1>5. /\ files'[u] # Absent /\ files'[u].own = heap[p].own /\ files'[u].ents = heap[p].ents
      /\ \A v \in Uuids \ {u} : files'[v] = files[v]
  BY <1>1, <1>2, StoreIs
<1>6. \A v \in Uuids : Stored(v) <=> files'[v] # Absent BY <1>4, <1>5 DEF Stored
<1>7. \A s \in Threads \ {t} : pc'[s] = pc[s] /\ req'[s] = req[s] BY DEF Steady
<1>8. NewEnts \subseteq NewEnts' \cup {e} /\ GoneEnts \subseteq GoneEnts' \cup {e}
  <2>1. \A s \in Saving \ {t} : s \in Saving' /\ req'[s] = req[s] BY <1>7 DEF Saving
  <2>2. \A s \in Unlinking \ {t} : s \in Unlinking' /\ req'[s] = req[s]
    BY <1>7 DEF Unlinking
  <2> QED BY <2>1, <2>2 DEF NewEnts, GoneEnts
<1>9. \A x \in Dirent : \A v \in Uuids : In(v, x) /\ x = e => v = u
  BY <1>2, <1>3 DEF Shape, Tidy, OneHome
<1> QED BY <1>2, <1>3, <1>4, <1>5, <1>6, <1>8, <1>9

LEMMA SavesSynced ==
  ASSUME Base, Base', Shape, Mapped, Current, Synced, NEW t \in Threads, Steady(t), Safer,
         NEW h, Saves(t, h), NEW i \in Inos \ Unsafe', imap'[i] = imap[i]
  PROVE  SyncedAt(i)'
<1> SUFFICES ASSUME imap[i] # None PROVE SyncedAt(i)' BY DEF SyncedAt
<1>1. PICK p, e, u : p = req[t].parent /\ e = req[t].ent /\ u = heap[p].uuid OBVIOUS
<1>2. PICK o, v : o = imap[i] /\ v = heap[o].uuid OBVIOUS
<1>3. /\ h \in [Objs -> Slot] /\ Becomes(h) /\ \A q \in Objs : h[q].ents = heap[q].ents
      /\ req[t].op \in Works
  BY DEF Saves, Changes, Works
<1>4. o \in Objs /\ v \in Uuids /\ heap[o].ents \subseteq Dirent
  <2>1. o \in Objs /\ v \in Uuids BY <1>2, MapOwns
  <2>2. heap[o] \in Slot BY <2>1 DEF Base, Typed
  <2> QED BY <2>1, <2>2 DEF Slot
<1>5. heap'[o] = h[o] /\ heap'[o].uuid = v /\ heap'[o].ents = heap[o].ents
  BY <1>2, <1>3, <1>4, MapHeap
<1>6. i \notin Unsafe /\ SyncedAt(i) BY DEF Synced, Unsafe, Safer
<1>7. CASE v = u
  <2>1. o = p BY <1>1, <1>2, <1>3, <1>6, <1>7, SameObject DEF Shape
  <2>2. files'[u].ents = heap[p].ents BY <1>1, SavesIs
  <2> QED BY <1>2, <1>5, <1>7, <2>1, <2>2 DEF SyncedAt
<1>8. CASE v # u
  <2>1. files'[v] = files[v] BY <1>1, <1>4, <1>8, SavesIs
  <2>2. files[v].ents \subseteq Dirent BY <1>4, Files DEF Base
  <2>3. e \notin heap[o].ents /\ e \notin files[v].ents
    <3>1. \A x \in heap[o].ents \cup files[v].ents : x \in Dirent /\ In(v, x)
      BY <1>2, <1>4, <2>2, InOwns DEF Base
    <3> QED BY <1>1, <1>4, <1>8, <3>1, SavesIs
  <2>4. NewEnts \subseteq NewEnts' \cup {e} /\ GoneEnts \subseteq GoneEnts' \cup {e}
    BY <1>1, SavesIs
  <2>5. files[v] # Absent => /\ heap[o].ents \ NewEnts \subseteq files[v].ents
                             /\ files[v].ents \ GoneEnts \subseteq heap[o].ents
    BY <1>2, <1>6 DEF SyncedAt, Stored
  <2>6. files[v] # Absent => /\ heap[o].ents \ NewEnts' \subseteq files[v].ents
                             /\ files[v].ents \ GoneEnts' \subseteq heap[o].ents
    BY <2>3, <2>4, <2>5
  <2> QED BY <1>2, <1>5, <2>1, <2>6 DEF SyncedAt, Stored
<1> QED BY <1>7, <1>8

LEMMA SavesLead ==
  ASSUME Base, Base', Shape, Mapped, Current, Synced, Lead, NEW t \in Threads, Steady(t), Safer,
         NEW h, Saves(t, h)
  PROVE  Lead'
<1> SUFFICES ASSUME NEW v \in Uuids, files'[v].own \notin Unsafe', NEW x \in files'[v].ents,
                    files'[x.uuid] = Absent, x.ino \notin Suspect', ~Witness(x)'
             PROVE  FALSE
  BY DEF Lead, Stored
<1>1. PICK p, e, u : p = req[t].parent /\ e = req[t].ent /\ u = heap[p].uuid OBVIOUS
<1>2. /\ p \in Objs /\ u \in Uuids /\ Owns(heap[p].own, u) /\ heap[p].own \in Inos /\ Stored(u)
      /\ files'[u].own = heap[p].own /\ files'[u].ents = heap[p].ents
      /\ \A w \in Uuids \ {u} : files'[w] = files[w]
      /\ \A w \in Uuids : Stored(w) <=> files'[w] # Absent
  BY <1>1, SavesIs
<1>3. x = e /\ v = u => FALSE
  <2> SUFFICES ASSUME x = e, v = u PROVE FALSE OBVIOUS
  <2>1. CASE pc'[t] = "super" /\ req'[t].ent = e BY <2>1 DEF Witness
  <2>2. CASE e \notin heap[p].ents BY <1>2, <2>2
  <2> QED BY <1>1, <2>1, <2>2 DEF Saves
<1>4. files[v].own \notin Unsafe /\ x \in files[v].ents
  <2>1. CASE v = u
    <3>1. Owns(files[u].own, u) /\ files[u].own \in Inos
      BY <1>2, InOwns, Files DEF Base
    <3>2. files[u].own = heap[p].own BY <1>2, <3>1 DEF Shape, Tidy, OneNumber
    <3>3. heap[p].own \notin Unsafe BY <1>2, <2>1 DEF Unsafe, Safer
    <3>4. heap[p].ents \ {e} \subseteq files[u].ents
      <4>1. req[t].op \in Changes BY DEF Saves
      <4> QED BY <1>1, <3>3, <4>1, NearlySynced
    <3> QED BY <1>2, <1>3, <2>1, <3>2, <3>3, <3>4
  <2>2. CASE v # u BY <1>2, <2>2 DEF Unsafe, Safer
  <2> QED BY <2>1, <2>2
<1>5. x \in Dirent /\ x.uuid \in Uuids /\ In(v, x) BY <1>4, Files DEF Base, Dirent, In
<1>6. ~Stored(x.uuid) /\ x.ino \notin Suspect BY <1>2, <1>5 DEF Suspect, Safer
<1>7. Witness(x) BY <1>4, <1>6 DEF Lead
<1>8. req[t].ent = x BY <1>7, WitnessStays DEF Steady
<1>9. v = u BY <1>1, <1>5, <1>8, SavesIs
<1> QED BY <1>1, <1>3, <1>8, <1>9

LEMMA SavesLinked ==
  ASSUME Base, Base', Shape, Mapped, Current, Synced, Linked, NEW t \in Threads, Steady(t), Safer,
         NEW h, Saves(t, h)
  PROVE  Linked'
<1> SUFFICES ASSUME Unsafe' = {}, NEW w \in Uuids \ ({Root} \cup orphans'), files'[w] # Absent
             PROVE  \E x \in Dirents' : x.uuid = w
  BY DEF Linked, NoOrphan, Stored
<1>1. PICK p, e, u : p = req[t].parent /\ e = req[t].ent /\ u = heap[p].uuid OBVIOUS
<1>2. /\ u \in Uuids /\ files'[u].ents = heap[p].ents
      /\ \A v \in Uuids \ {u} : files'[v] = files[v]
      /\ \A v \in Uuids : Stored(v) <=> files'[v] # Absent
  BY <1>1, SavesIs
<1>3. Unsafe = {} /\ w \notin orphans BY DEF Unsafe, Safer
<1>4. Stored(w) BY <1>2
<1>5. PICK x \in Dirents : x.uuid = w BY <1>3, <1>4 DEF Linked, NoOrphan
<1>6. PICK v \in Uuids : x \in files[v].ents BY DirentsAre
<1>7. x # e BY <1>1, <1>3, <1>4, <1>5 DEF Saves, Unsafe
<1>8. x \in files'[v].ents
  <2>1. CASE v = u
    <3>1. files[u].ents \ {e} \subseteq heap[p].ents BY <1>1, <1>3, NearlySynced DEF Saves
    <3> QED BY <1>2, <1>6, <1>7, <2>1, <3>1
  <2>2. CASE v # u BY <1>2, <1>6, <2>2
  <2> QED BY <2>1, <2>2
<1> QED BY <1>5, <1>8, DirentsLater

LEMMA SaveParentContents ==
  ASSUME Base, Base', Shape, Counts, Current, Synced, Lead, Linked, NEW t \in Threads, Steady(t),
         Safer, NEW h, SaveParentAs(t, h)
  PROVE  Synced' /\ Lead' /\ Linked'
<1>1. PICK m, n : m = maxIno /\ n = req[t].node OBVIOUS
<1>2. /\ pc[t] = "parent" /\ pc'[t] = "super" /\ req[t].op = "create" /\ Typed
      /\ Store(req[t].parent) /\ req'[t].ent = req[t].ent /\ req'[t].node = n
      /\ imap' = [imap EXCEPT ![m] = n] /\ n \in Objs /\ n \in Pointers(imap, req)
      /\ h \in [Objs -> Slot] /\ Becomes(h)
      /\ h[n] = [heap[n] EXCEPT !.refs = @ + 1] /\ \A o \in Objs \ {n} : h[o] = heap[o]
  BY <1>1, InUse DEF SaveParentAs, Goes, Base, Staged, StagedAt
<1>3. h[n].ents = heap[n].ents /\ h[n].uuid = heap[n].uuid
  <2>1. heap[n] \in Slot BY <1>2 DEF Typed
  <2> QED BY <1>2, <2>1 DEF Slot
<1>4. NewAt(t) BY DEF Shape, Requests, RequestAt
<1>5. /\ Stored(req[t].ent.uuid) => req[t].ent.ino \in clash
      /\ heap[n].uuid = req[t].ent.uuid
  BY <1>1, <1>2, <1>4 DEF NewAt
<1>6. \A o \in Objs : h[o].ents = heap[o].ents BY <1>2, <1>3
<1>7. Saves(t, h) BY <1>2, <1>5, <1>6 DEF Saves, Changes
<1>8. Lead' /\ Linked' BY <1>7, SavesLead, SavesLinked DEF Counts
<1>9. Synced'
  <2> SUFFICES ASSUME NEW i \in Inos \ Unsafe', imap'[i] # None PROVE SyncedAt(i)'
    BY DEF Synced, SyncedAt
  <2>1. CASE i = m
    <3>1. imap'[i] = n BY <1>2, <2>1 DEF Typed
    <3>2. n \in Pointers(imap', req') BY <1>2 DEF Pointers
    <3>3. heap'[n].uuid = req[t].ent.uuid BY <1>2, <1>3, <1>5, <3>2 DEF Becomes
    <3>4. req[t].ent.uuid \in Uuids BY InUse
    <3>5. ~Stored(req[t].ent.uuid)
      BY <1>1, <1>5, <2>1 DEF SaveParentAs, Unsafe
    <3>6. files'[req[t].ent.uuid] = Absent BY <1>7, <3>4, <3>5, SavesIs
    <3> QED BY <3>1, <3>3, <3>6 DEF SyncedAt, Stored
  <2>2. CASE i # m
    <3>1. imap'[i] = imap[i] BY <1>2, <2>2 DEF Typed
    <3> QED BY <1>7, <3>1, SavesSynced DEF Counts
  <2> QED BY <2>1, <2>2
<1> QED BY <1>8, <1>9

LEMMA SaveRemovedContents ==
  ASSUME Base, Base', Shape, Counts, Current, Synced, Lead, Linked, NEW t \in Threads, Steady(t),
         Safer, SaveRemovedAs(t)
  PROVE  Synced' /\ Lead' /\ Linked'
<1>1. /\ pc[t] = "unlink" /\ pc'[t] = "idle" /\ req[t].op = "remove" /\ UNCHANGED imap
      /\ Store(req[t].parent) /\ heap \in [Objs -> Slot] /\ Becomes(heap)
  BY DEF SaveRemovedAs, Returns, Goes, Base, Typed, Staged, StagedAt
<1>2. /\ Stored(req[t].ent.uuid) => req[t].ent.uuid \in orphans
      /\ req[t].ent \notin heap[req[t].parent].ents
  BY <1>1 DEF Shape, Requests, RequestAt, RemovedAt
<1>3. Saves(t, heap) BY <1>1, <1>2 DEF Saves, Changes
<1>4. Lead' /\ Linked' BY <1>3, SavesLead, SavesLinked DEF Counts
<1>5. Synced'
  <2> SUFFICES ASSUME NEW i \in Inos \ Unsafe' PROVE SyncedAt(i)' BY DEF Synced
  <2>1. imap'[i] = imap[i] BY <1>1
  <2> QED BY <1>3, <2>1, SavesSynced DEF Counts
<1> QED BY <1>4, <1>5

-----------------------------------------------------------------------------
(* The contents are an invariant.                                          *)

LEMMA StepContents ==
  ASSUME Base, Base', Shape, Counts, Contents, NEW t \in Threads, Steady(t), Did(t)
  PROVE  Contents'
<1> DEFINE Goal == Synced' /\ Lead' /\ Linked'
<1>1. Safer /\ Current' BY StepSafer, StepCurrent DEF Contents
<1>2. heap \in [Objs -> Slot] /\ (heap' = heap => Becomes(heap))
  BY HeapStays DEF Base, Typed
<1> SUFFICES Goal BY <1>1 DEF Contents
<1>3. ASSUME NEW i \in Inos, NEW e, LookupAs(t, i, e) PROVE Goal
  BY <1>1, <1>2, <1>3, PlainContents DEF LookupAs, Goes, Contents
<1>4. ASSUME NEW i \in Inos, BeginForgetAs(t, i) PROVE Goal
  BY <1>1, <1>2, <1>4, PlainContents DEF BeginForgetAs, Goes, Contents
<1>5. ASSUME NEW i \in Inos, NEW e, RemoveAs(t, i, e) PROVE Goal
  BY <1>1, <1>2, <1>5, PlainContents DEF RemoveAs, Goes, Contents
<1>6. ASSUME NEW i \in Inos, NEW name, NEW e, NEW n, NEW h, CreateAs(t, i, name, e, n, h)
      PROVE  Goal
  BY <1>1, <1>6, CreateContents DEF Contents
<1>7. CASE LoadFails(t) \/ FoundFails(t) \/ RemoveNodeFails(t)
  <2>1. /\ Becomes(heap) /\ UNCHANGED <<files, imap>> /\ pc'[t] = "idle"
        /\ pc[t] \in {"load", "found", "unstore"}
    BY <1>7 DEF LoadFails, FoundFails, RemoveNodeFails, Returns, Goes
  <2> QED BY <1>1, <1>2, <2>1, PlainContents DEF Contents
<1>8. ASSUME NEW n, NEW h, LoadAs(t, n, h) PROVE Goal
  BY <1>1, <1>8, LoadContents DEF Contents
<1>9. ASSUME NEW h, CountAs(t, h) PROVE Goal
  <2>1. /\ Becomes(h) /\ h \in [Objs -> Slot] /\ UNCHANGED <<files, imap>>
        /\ pc[t] = "count" /\ pc'[t] = "idle" /\ \A q \in Objs : h[q].ents = heap[q].ents
    BY <1>9 DEF CountAs, Rewrites, Returns, Goes
  <2> QED BY <1>1, <2>1, PlainContents DEF Contents
<1>10. CASE DropGone(t)
  <2>1. /\ Becomes(heap) /\ UNCHANGED files /\ pc'[t] = "idle" /\ pc[t] = "drop"
        /\ imap' = [imap EXCEPT ![req[t].pino] = None]
    BY <1>10 DEF DropGone, Returns, Goes
  <2>2. \A i \in Inos : imap'[i] = imap[i] \/ imap'[i] = None BY <2>1 DEF Base, Typed
  <2> QED BY <1>1, <1>2, <2>1, <2>2, PlainContents DEF Contents
<1>11. ASSUME NEW h, DropAs(t, h) PROVE Goal
  <2>1. /\ Becomes(h) /\ h \in [Objs -> Slot] /\ UNCHANGED <<files, imap>>
        /\ pc[t] = "drop" /\ pc'[t] = "idle" /\ \A q \in Objs : h[q].ents = heap[q].ents
    BY <1>11 DEF DropAs, Rewrites, Returns, Goes
  <2> QED BY <1>1, <2>1, PlainContents DEF Contents
<1>17. CASE FoundAs(t) \/ ForgetNone(t) \/ ForgetAs(t)
  <2>1. /\ Becomes(heap) /\ UNCHANGED <<files, imap>> /\ pc'[t] \in {"count", "idle", "drop"}
        /\ pc[t] \in {"found", "forget"}
    BY <1>17 DEF FoundAs, ForgetNone, ForgetAs, Returns, Goes
  <2> QED BY <1>1, <1>2, <2>1, PlainContents DEF Contents
<1>18. ASSUME NEW i \in Inos, FlushAs(t, i) PROVE Goal
  BY <1>1, <1>18, FlushContents DEF Contents
<1>12. ASSUME NEW h, SaveParentAs(t, h) PROVE Goal
  BY <1>1, <1>12, SaveParentContents DEF Contents
<1>13. CASE SaveSuperAs(t)
  <2>1. /\ UNCHANGED <<files, heap, imap>> /\ pc'[t] = "node" /\ pc[t] = "super"
        /\ req'[t] = req[t]
    BY <1>13 DEF SaveSuperAs, Goes
  <2> QED BY <1>1, <1>2, <2>1, PlainContents DEF Contents
<1>14. CASE SaveNodeAs(t) BY <1>1, <1>14, SaveNodeContents DEF Contents
<1>15. ASSUME NEW h, RemoveNodeAs(t, h) PROVE Goal
  BY <1>1, <1>15, RemoveNodeContents DEF Contents
<1>16. CASE SaveRemovedAs(t) BY <1>1, <1>16, SaveRemovedContents DEF Contents
<1> HIDE DEF Goal
<1> QED
  BY <1>3, <1>4, <1>5, <1>6, <1>7, <1>8, <1>9, <1>10, <1>11, <1>12, <1>13, <1>14, <1>15, <1>16,
     <1>17, <1>18
  DEF Did
\* A crash leaves the files; the requests it cuts short are suspect.
LEMMA CrashContents ==
  ASSUME Base, Base', Shape, Contents, Crash
  PROVE  Contents'
<1>1. /\ UNCHANGED <<files, clash, raced, orphans>>
      /\ imap' = [i \in Inos |-> IF i = Root THEN Root ELSE None]
      /\ heap' = [o \in Objs |-> IF o = Root THEN Loaded(Root) ELSE Free]
      /\ req' = [t \in Threads |-> NoReq] /\ Typed
      /\ torn' = torn \cup {req[t].ent.ino : t \in {s \in Threads : req[s].op \in {"create", "remove"}}}
  BY DEF Crash, storage, Base
<1>2. Current'
  <2>1. NoReq.op \notin Works BY DEF NoReq, Works
  <2> QED BY <1>1, <2>1 DEF Current, CurrentAt
<1>3. Synced'
  <2> SUFFICES ASSUME NEW i \in Inos, imap'[i] # None PROVE SyncedAt(i)' BY DEF Synced, SyncedAt
  <2>1. imap'[i] = Root BY <1>1
  <2>2. heap'[Root] = Loaded(Root) BY <1>1, Small
  <2>3. heap'[Root].uuid = Root /\ heap'[Root].ents = files'[Root].ents
    BY <1>1, <2>2, LoadedSlot, Small
  <2> QED BY <2>1, <2>3 DEF SyncedAt
<1>4. Lead'
  <2> SUFFICES ASSUME NEW u \in Uuids, files[u].own \notin Unsafe, NEW e \in files[u].ents,
                      ~Stored(e.uuid), e.ino \notin Suspect'
               PROVE  FALSE
    BY <1>1 DEF Lead, Unsafe, Stored
  <2>1. e.ino \notin Suspect BY <1>1 DEF Suspect
  <2>2. Witness(e) BY <2>1 DEF Contents, Lead
  <2>3. PICK t \in Threads : req[t].ent = e /\ pc[t] \in {"super", "node", "unlink"}
    BY <2>2 DEF Witness
  <2>4. req[t].op \in {"create", "remove"} BY <2>3 DEF Base, Staged, StagedAt
  <2> QED BY <1>1, <2>3, <2>4 DEF Suspect
<1>5. Linked' BY <1>1 DEF Contents, Linked, Unsafe, NoOrphan, Stored, Dirents
<1> QED BY <1>2, <1>3, <1>4, <1>5 DEF Contents

LEMMA InitContents ==
  ASSUME Init
  PROVE  Contents
<1>1. /\ files[Root] = RootNode /\ files[2] # Absent /\ files[2].ents = {}
      /\ \A u \in Uuids \ {Root, 2} : files[u] = Absent
      /\ imap = [i \in Inos |-> IF i = Root THEN Root ELSE None]
      /\ heap = [o \in Objs |-> IF o = Root THEN Loaded(Root) ELSE Free]
      /\ req = [t \in Threads |-> NoReq]
  <2>1. [own |-> 2, kind |-> "dir", ents |-> {}] # Absent
    <3>1. Absent.own = None BY DEF Absent
    <3> QED BY <3>1
  <2> QED BY <2>1, Small DEF Init
<1>2. /\ RootNode.ents = {SubEnt} /\ SubEnt.uuid = 2 /\ Absent.ents = {}
      /\ NoReq.op \notin Works
  BY DEF RootNode, SubEnt, Absent, NoReq, Works
<1>3. Loaded(Root).uuid = Root /\ Loaded(Root).ents = files[Root].ents BY DEF Loaded
<1>4. Current BY <1>1, <1>2 DEF Current, CurrentAt
<1>5. Synced
  <2> SUFFICES ASSUME NEW i \in Inos, imap[i] # None PROVE SyncedAt(i) BY DEF Synced, SyncedAt
  <2>1. imap[i] = Root /\ heap[Root] = Loaded(Root) BY <1>1, Small
  <2> QED BY <1>3, <2>1 DEF SyncedAt
<1>6. Lead BY <1>1, <1>2 DEF Lead, Stored
<1>7. NoOrphan
  <2> SUFFICES ASSUME NEW u \in Uuids \ ({Root} \cup orphans), Stored(u)
               PROVE  \E e \in Dirents : e.uuid = u
    BY DEF NoOrphan
  <2>1. u = 2 BY <1>1 DEF Stored
  <2>2. SubEnt \in Dirents BY <1>1, <1>2, Small, DirentsAre
  <2> QED BY <1>2, <2>1, <2>2
<1> QED BY <1>4, <1>5, <1>6, <1>7 DEF Contents, Linked

LEMMA StutterContents ==
  ASSUME Contents, UNCHANGED vars
  PROVE  Contents'
<1>1. UNCHANGED <<files, heap, imap, known, pc, req, torn, clash, raced, orphans>>
  BY DEF vars, memory, storage, history
<1>2. Current' BY <1>1 DEF Contents, Current, CurrentAt, Unsafe
<1>3. NewEnts' = NewEnts /\ GoneEnts' = GoneEnts
  BY <1>1 DEF NewEnts, GoneEnts, Saving, Unlinking
<1>4. Synced' BY <1>1, <1>3 DEF Contents, Synced, SyncedAt, Unsafe, Stored
<1>5. Lead' BY <1>1 DEF Contents, Lead, Unsafe, Suspect, Witness, Stored
<1>6. Linked' BY <1>1 DEF Contents, Linked, Unsafe, NoOrphan, Stored, Dirents
<1> QED BY <1>2, <1>4, <1>5, <1>6 DEF Contents

LEMMA NextContents ==
  ASSUME Base, Shape, Counts, Contents, [Next]_vars
  PROVE  Contents'
<1>1. Base' BY NextShape
<1>2. CASE Crash BY <1>1, <1>2, CrashContents
<1>3. ASSUME NEW t \in Threads, Step(t) \/ Request(t) PROVE Contents'
  BY <1>3, StepIs, StepContents
<1>4. CASE UNCHANGED vars BY <1>4, StutterContents
<1> QED BY <1>2, <1>3, <1>4 DEF Next

IInv == Base /\ Shape /\ Numbers /\ Counts /\ Contents

LEMMA Invariant == Spec => []IInv
<1>1. Init => Contents BY InitContents
<1>2. Base /\ Shape /\ Counts /\ Contents /\ [Next]_vars => Contents' BY NextContents
<1> QED BY <1>1, <1>2, CountsInvariant, PTL DEF Spec, IInv

-----------------------------------------------------------------------------
(* What the contents mean.                                                 *)

\* In a directory whose requests all worked on one object, every entry leads to
\* a stored file with the entry's number, unless a crash or another create met
\* its request, or the request is in flight.
THEOREM EntriesLead == Spec => []NoDangling
<1>1. IInv => NoDangling
  <2> SUFFICES ASSUME IInv, NEW u \in Uuids, files[u].own \notin Unsafe, NEW e \in files[u].ents,
                      e.ino \notin Suspect, e.ino \notin InFlight("create"),
                      e.ino \notin InFlight("remove")
               PROVE  Stored(e.uuid) /\ files[e.uuid].own = e.ino
    BY DEF NoDangling, Unsafe
  <2>1. Stored(e.uuid) \/ Witness(e) BY DEF IInv, Contents, Lead
  <2>2. ~Witness(e)
    <3> SUFFICES ASSUME NEW t \in Threads, req[t].ent = e, pc[t] \in {"super", "node", "unlink"}
                 PROVE  FALSE
      BY DEF Witness
    <3>1. req[t].op \in {"create", "remove"} BY DEF IInv, Base, Staged, StagedAt
    <3> QED BY <3>1 DEF InFlight
  <2>3. e \in Dirent /\ e.uuid \in Uuids
    <3>1. files[u] \in Node BY DEF IInv, Base, Typed
    <3>2. files[u].ents \subseteq Dirent BY <3>1 DEF Node, Absent
    <3> QED BY <3>2 DEF Dirent
  <2>4. files[e.uuid].own \in Inos
    <3>1. files[e.uuid] \in Node BY <2>3 DEF IInv, Base, Typed
    <3> QED BY <2>1, <2>2, <3>1 DEF Node, Stored
  <2>5. In(u, e) /\ Owns(files[e.uuid].own, e.uuid) BY <2>1, <2>2 DEF In, Owns
  <2>6. NumberOfEntry BY DEF IInv, Shape, Tidy
  <2> QED BY <2>1, <2>2, <2>3, <2>4, <2>5, <2>6 DEF NumberOfEntry
<1> QED BY <1>1, Invariant, PTL

\* While no two creates met and no request lost its directory to a forget, every
\* stored file has an entry, whatever crashes: a create saves the entry before
\* the file, and a remove takes the file away before the entry.  Only files a
\* flush saved, when they had none, may be without.
THEOREM NothingLost == Spec => [](clash \cup raced = {} => NoOrphan)
<1>1. IInv => (clash \cup raced = {} => NoOrphan) BY DEF IInv, Contents, Linked, Unsafe
<1> QED BY <1>1, Invariant, PTL

\* With one thread, no two creates meet, and lookups and forgets find in inode_map
\* the object they count in, and what they have read of it.
OneThread == \A s, t \in Threads : s = t
LoneAt(t) ==
  LET o == req[t].node IN
  /\ pc[t] \in {"found", "count"} => imap[req[t].ent.ino] = o
  /\ pc[t] = "drop" => imap[req[t].pino] = o
  /\ pc[t] \in {"count", "drop"} => heap[o].refs = req[t].count
Lone == clash = {} /\ raced = {} /\ \A t \in Threads : LoneAt(t)

LEMMA StepLone ==
  ASSUME OneThread, Base, Base', Numbers, Lone, NEW t \in Threads, Steady(t), Did(t)
  PROVE  Lone'
<1>0. \A s \in Threads : s = t BY DEF OneThread
<1>1. clash = {} /\ raced = {} /\ LoneAt(t) BY DEF Lone
<1> SUFFICES clash' = {} /\ raced' = {} /\ LoneAt(t)' BY <1>0 DEF Lone
<1>20. pc'[t] \notin {"found", "count", "drop"} => LoneAt(t)' BY DEF LoneAt
<1>2. ASSUME NEW i \in Inos, NEW e, LookupAs(t, i, e) PROVE clash' = {} /\ raced' = {} /\ LoneAt(t)'
  BY <1>1, <1>2 DEF LookupAs, Goes, LoneAt
<1>3. ASSUME NEW i \in Inos, BeginForgetAs(t, i) PROVE clash' = {} /\ raced' = {} /\ LoneAt(t)'
  BY <1>1, <1>3, <1>20 DEF BeginForgetAs, Goes
<1>4. ASSUME NEW i \in Inos, NEW e, RemoveAs(t, i, e)
      PROVE  clash' = {} /\ raced' = {} /\ LoneAt(t)'
  BY <1>1, <1>4, <1>20 DEF RemoveAs, Goes
<1>5. ASSUME NEW i \in Inos, NEW name, NEW e, NEW n, NEW h, CreateAs(t, i, name, e, n, h)
      PROVE  clash' = {} /\ raced' = {} /\ LoneAt(t)'
  <2>1. Creating = {}
    <3>1. pc[t] = "idle" BY <1>5 DEF CreateAs
    <3>2. req[t].op = "none" BY <3>1 DEF Base, Staged, StagedAt
    <3> QED BY <1>0, <3>2 DEF Creating
  <2> QED BY <1>1, <1>5, <1>20, <2>1 DEF CreateAs
<1>6. CASE LoadFails(t) \/ FoundFails(t) \/ RemoveNodeFails(t) \/ ForgetNone(t)
  BY <1>1, <1>6, <1>20 DEF LoadFails, FoundFails, RemoveNodeFails, ForgetNone, Returns, Goes
<1>7. ASSUME NEW n, NEW h, LoadAs(t, n, h) PROVE clash' = {} /\ raced' = {} /\ LoneAt(t)'
  <2>1. req[t].ent.ino \in Inos BY InUse
  <2>2. imap'[req[t].ent.ino] = n BY <1>7, <2>1 DEF LoadAs, Base, Typed
  <2> QED BY <1>1, <1>7, <2>2 DEF LoadAs, Goes, LoneAt
<1>8. CASE FoundAs(t)
  <2>1. PICK i, o : i = req[t].ent.ino /\ o = req[t].node OBVIOUS
  <2>2. /\ imap[i] = o /\ o \in Objs /\ o # None /\ i \in Inos /\ UNCHANGED imap
        /\ Becomes(heap) /\ heap \in [Objs -> Slot]
    BY <1>1, <1>8, <2>1, InUse, Small DEF FoundAs, LoneAt, Base, Typed
  <2>3. heap'[o] = heap[o] BY <2>2, MapHeap
  <2> QED BY <1>1, <1>8, <2>1, <2>2, <2>3 DEF FoundAs, Goes, LoneAt
<1>9. CASE ForgetAs(t)
  <2>1. PICK i, o : i = req[t].pino /\ o = imap[i] OBVIOUS
  <2>2. /\ o \in Objs /\ o # None /\ i \in Inos /\ UNCHANGED imap
        /\ Becomes(heap) /\ heap \in [Objs -> Slot]
    BY <1>9, <2>1, Small DEF ForgetAs, Base, Typed, Req
  <2>3. heap'[o] = heap[o] BY <2>1, <2>2, MapHeap
  <2> QED BY <1>1, <1>9, <2>1, <2>2, <2>3 DEF ForgetAs, Goes, LoneAt
<1>10. ASSUME NEW h, CountAs(t, h) PROVE clash' = {} /\ raced' = {} /\ LoneAt(t)'
  BY <1>1, <1>10, <1>20 DEF CountAs, Undisturbed, Returns, Goes, LoneAt
<1>11. CASE DropGone(t)
  BY <1>1, <1>11, <1>20 DEF DropGone, Undisturbed, Returns, Goes, LoneAt
<1>16. ASSUME NEW h, DropAs(t, h) PROVE clash' = {} /\ raced' = {} /\ LoneAt(t)'
  BY <1>1, <1>16, <1>20 DEF DropAs, Undisturbed, Returns, Goes, LoneAt
<1>17. ASSUME NEW i \in Inos, FlushAs(t, i) PROVE clash' = {} /\ raced' = {} /\ LoneAt(t)'
  <2>1. pc[t] = "idle" /\ pc' = pc BY <1>17 DEF FlushAs
  <2>2. Creating = {}
    <3>1. req[t].op = "none" BY <2>1 DEF Base, Staged, StagedAt
    <3> QED BY <1>0, <3>1 DEF Creating
  <2> QED BY <1>1, <1>17, <1>20, <2>1, <2>2 DEF FlushAs
<1>18. ASSUME NEW h, SaveParentAs(t, h) PROVE clash' = {} /\ raced' = {} /\ LoneAt(t)'
  <2>1. pc[t] = "parent" /\ req[t].op = "create"
    BY <1>18 DEF SaveParentAs, Base, Staged, StagedAt
  <2>2. req[t].ent.ino = maxIno BY <1>1, <2>1 DEF Numbers, CreateAt
  <2> QED BY <1>1, <1>18, <1>20, <2>2 DEF SaveParentAs, Goes
<1>12. CASE SaveSuperAs(t) BY <1>1, <1>12, <1>20 DEF SaveSuperAs, Goes
<1>13. CASE SaveNodeAs(t) BY <1>1, <1>13, <1>20 DEF SaveNodeAs, Returns, Goes
<1>14. ASSUME NEW h, RemoveNodeAs(t, h) PROVE clash' = {} /\ raced' = {} /\ LoneAt(t)'
  BY <1>1, <1>14, <1>20 DEF RemoveNodeAs, Goes
<1>15. CASE SaveRemovedAs(t) BY <1>1, <1>15, <1>20 DEF SaveRemovedAs, Returns, Goes
<1> QED
  BY <1>2, <1>3, <1>4, <1>5, <1>6, <1>7, <1>8, <1>9, <1>10, <1>11, <1>12, <1>13, <1>14, <1>15,
     <1>16, <1>17, <1>18
  DEF Did

LEMMA LoneInvariant ==
  ASSUME OneThread
  PROVE  Spec => []Lone
<1>1. Init => Lone
  <2> SUFFICES ASSUME Init PROVE Lone OBVIOUS
  <2>1. \A t \in Threads : pc[t] = "idle" BY DEF Init
  <2> QED BY <2>1 DEF Init, Lone, LoneAt
<1>2. IInv /\ IInv' /\ Lone /\ [Next]_vars => Lone'
  <2> SUFFICES ASSUME IInv, IInv', Lone, [Next]_vars PROVE Lone' OBVIOUS
  <2>1. CASE Crash
    <3>1. \A t \in Threads : pc'[t] = "idle" BY <2>1 DEF Crash
    <3> QED BY <2>1, <3>1 DEF Crash, Lone, LoneAt
  <2>2. ASSUME NEW t \in Threads, Step(t) \/ Request(t) PROVE Lone'
    BY <2>2, StepIs, StepLone DEF IInv
  <2>3. CASE UNCHANGED vars
    BY <2>3 DEF vars, memory, history, Lone, LoneAt
  <2> QED BY <2>1, <2>2, <2>3 DEF Next
<1> QED BY <1>1, <1>2, Invariant, PTL DEF Spec

\* When one thread serves the volume, every stored file has an entry, whatever
\* crashes, but for those that were flushed after their unlink.
THEOREM NothingLostAlone ==
  ASSUME OneThread
  PROVE  Spec => []NoOrphan
<1>1. IInv /\ Lone => NoOrphan BY DEF IInv, Contents, Linked, Unsafe, Lone
<1> QED BY <1>1, Invariant, LoneInvariant, PTL

-----------------------------------------------------------------------------
(* The tree: one thread implements DirTree.                                *)

\* An entry has the kind of its node.
KindOfEntry ==
  \A u \in Uuids, e \in Dirent, k \in Kinds : In(u, e) /\ Kin(k, e.uuid) => k = e.kind

\* What is on the heap is pointed to, and nothing is in a removed directory.
Pointed == \A o \in Objs : heap[o].own # None => o \in Pointers(imap, req)
Bare == \A o \in Objs : heap[o].own # None /\ ~Stored(heap[o].uuid) => heap[o].ents = {}

\* What a request has to itself when there is no other.
TiedAt(t) ==
  /\ req[t].op \notin Works => req[t].parent = None
  /\ pc[t] \notin {"found", "count", "drop", "parent", "super", "node"} => req[t].node = None
  /\ pc[t] \in {"super", "node"} => imap[req[t].ent.ino] = req[t].node
  /\ pc[t] = "unstore" => req[t].ent \in files[heap[req[t].parent].uuid].ents
Tied == \A t \in Threads : TiedAt(t)

TInv == IInv /\ Lone /\ KindOfEntry /\ Pointed /\ Bare /\ Tied

\* The entries of a directory, as its file and the request on it have them.
Now(u) ==
  (files[u].ents \cup {req[t].ent : t \in {s \in Saving : heap[req[s].parent].uuid = u}})
    \ GoneEnts
Shown == UNION {{EntryIn(u, e) : e \in Now(u)} : u \in Uuids}

\* An object is the one inode_map has, or the new one of a create.
LEMMA ObjectIs ==
  ASSUME TInv, NEW o \in Objs, heap[o].own # None
  PROVE  /\ heap[o].uuid \in Uuids
         /\ \/ \E i \in Inos : imap[i] = o
            \/ \E t \in Threads : pc[t] = "parent" /\ req[t].node = o
<1>1. o \in Pointers(imap, req) /\ o # None BY Small DEF TInv, Pointed
<1>2. heap[o].uuid \in Uuids
  <2>1. heap[o].uuid # None BY <1>1 DEF TInv, IInv, Base, Held
  <2>2. heap[o] \in Slot BY DEF TInv, IInv, Base, Typed
  <2> QED BY <2>1, <2>2 DEF Slot
<1>3. CASE \E i \in Inos : o = imap[i] BY <1>2, <1>3
<1>4. ASSUME NEW t \in Threads, o = req[t].parent PROVE \E i \in Inos : imap[i] = o
  <2>1. req[t].op \in Works BY <1>1, <1>4 DEF TInv, Tied, TiedAt
  <2>2. imap[req[t].pino] = o
    BY <1>4, <2>1 DEF TInv, Lone, IInv, Contents, Current, CurrentAt, Unsafe
  <2>3. req[t].pino \in Inos BY DEF TInv, IInv, Base, Typed, Req
  <2> QED BY <2>2, <2>3
<1>5. ASSUME NEW t \in Threads, o = req[t].node, pc[t] # "parent" PROVE \E i \in Inos : imap[i] = o
  <2>1. pc[t] \in {"found", "count", "drop", "super", "node"}
    BY <1>1, <1>5 DEF TInv, Tied, TiedAt
  <2>2. CASE pc[t] \in {"found", "count"}
    BY <1>5, <2>2, InUse DEF TInv, IInv, Lone, LoneAt
  <2>4. CASE pc[t] = "drop"
    BY <1>5, <2>4 DEF TInv, IInv, Lone, LoneAt, Base, Typed, Req
  <2>3. CASE pc[t] \in {"super", "node"} BY <1>5, <2>3, InUse DEF TInv, IInv, Tied, TiedAt
  <2> QED BY <2>1, <2>2, <2>3, <2>4
<1> QED BY <1>1, <1>2, <1>3, <1>4, <1>5, PointersAre DEF TInv, IInv, Base

\* Two objects are not one node.
LEMMA OneObject ==
  ASSUME TInv, NEW i \in Inos, imap[i] # None, NEW t \in Threads, req[t].op \in Works,
         heap[imap[i]].uuid = heap[req[t].parent].uuid
  PROVE  imap[i] = req[t].parent
<1>1. i \in Inos \ Unsafe BY DEF TInv, Lone, Unsafe
<1> QED BY <1>1, SameObject DEF TInv, IInv, Shape, Counts, Contents

\* The entries of an object are those its directory has now.
LEMMA ObjectEnts ==
  ASSUME TInv, NEW o \in Objs, heap[o].own # None
  PROVE  heap[o].ents = Now(heap[o].uuid)
<1> DEFINE u == heap[o].uuid
<1>1. /\ u \in Uuids
      /\ \/ \E i \in Inos : imap[i] = o
         \/ \E t \in Threads : pc[t] = "parent" /\ req[t].node = o
  BY ObjectIs
<1>2. Base /\ Tidy /\ Typed /\ Requests BY DEF TInv, IInv, Shape, Base
<1>3. heap[o].ents \subseteq Dirent /\ files[u].ents \subseteq Dirent
  <2>1. heap[o] \in Slot BY <1>2 DEF Typed
  <2> QED BY <1>1, <1>2, <2>1, Files DEF Slot
<1>4. \A t \in Saving \cup Unlinking : req[t].op \in Changes /\ req[t].op \in Works
  BY <1>2 DEF Saving, Unlinking, Base, Staged, StagedAt, Changes, Works
<1>5. \A t \in Saving \cup Unlinking :
        /\ req[t].parent \in Objs /\ heap[req[t].parent].uuid \in Uuids /\ req[t].ent \in Dirent
        /\ In(heap[req[t].parent].uuid, req[t].ent) /\ Stored(heap[req[t].parent].uuid)
  <2> SUFFICES ASSUME NEW t \in Saving \cup Unlinking
               PROVE /\ req[t].parent \in Objs /\ heap[req[t].parent].uuid \in Uuids
                     /\ req[t].ent \in Dirent
                     /\ In(heap[req[t].parent].uuid, req[t].ent)
                     /\ Stored(heap[req[t].parent].uuid)
    OBVIOUS
  <2>1. t \in Threads /\ req[t].op \in Changes /\ req[t].op \in Works
    BY <1>4 DEF Saving, Unlinking
  <2>2. Stored(heap[req[t].parent].uuid) BY <1>2, <2>1 DEF Requests, RequestAt, ParentAt
  <2> QED BY <1>2, <2>1, <2>2, InUse, InOwns
<1>6. CASE ~Stored(u)
  <2>1. heap[o].ents = {} BY <1>6 DEF TInv, Bare
  <2>2. files[u].ents = {} BY <1>1, <1>2, <1>6, Files
  <2>3. {s \in Saving : heap[req[s].parent].uuid = u} = {} BY <1>5, <1>6
  <2> QED BY <2>1, <2>2, <2>3 DEF Now
<1>7. CASE Stored(u)
  <2>1. PICK i \in Inos : imap[i] = o
    BY <1>1, <1>2, <1>7 DEF TInv, Lone, Requests, RequestAt, NewAt, Base, Staged, StagedAt
  <2>2. o # None BY Small
  <2>3. /\ heap[o].ents \ NewEnts \subseteq files[u].ents
        /\ files[u].ents \ GoneEnts \subseteq heap[o].ents
    BY <1>7, <2>1, <2>2 DEF TInv, Lone, IInv, Contents, Synced, SyncedAt, Unsafe
  <2>4. \A x \in heap[o].ents : In(u, x) BY <1>2, InOwns
  <2>5. \A t \in Threads : req[t].op \in Works /\ heap[req[t].parent].uuid = u => req[t].parent = o
    BY <2>1, <2>2, OneObject
  <2>6. ASSUME NEW x \in heap[o].ents PROVE x \in Now(u)
    <3>1. x \notin GoneEnts
      <4> SUFFICES ASSUME NEW t \in Unlinking, x = req[t].ent PROVE FALSE
        BY DEF GoneEnts
      <4>1. heap[req[t].parent].uuid = u
        BY <1>1, <1>2, <1>3, <1>5, <2>4 DEF Tidy, OneHome
      <4>2. req[t].parent = o BY <1>4, <2>5, <4>1 DEF Unlinking
      <4> QED BY <1>2, <4>2 DEF Requests, RequestAt, RemovedAt, Unlinking
    <3>2. CASE x \in files[u].ents BY <3>1, <3>2 DEF Now
    <3>3. CASE x \in NewEnts
      <4>1. PICK t \in Saving : x = req[t].ent BY <3>3 DEF NewEnts
      <4>2. heap[req[t].parent].uuid = u
        BY <1>1, <1>2, <1>3, <1>5, <2>4, <4>1 DEF Tidy, OneHome
      <4> QED BY <3>1, <4>1, <4>2 DEF Now
    <3> QED BY <2>3, <3>2, <3>3
  <2>7. ASSUME NEW x \in Now(u) PROVE x \in heap[o].ents
    <3>1. CASE x \in files[u].ents BY <2>3, <2>7, <3>1 DEF Now
    <3>2. ASSUME NEW t \in Saving, heap[req[t].parent].uuid = u, x = req[t].ent
          PROVE x \in heap[o].ents
      <4>1. req[t].parent = o BY <1>4, <2>5, <3>2 DEF Saving
      <4> QED BY <1>2, <1>4, <3>2, <4>1
              DEF Requests, RequestAt, NewAt, Saving, Base, Staged, StagedAt
    <3> QED BY <2>7, <3>1, <3>2 DEF Now
  <2> QED BY <2>6, <2>7
<1> QED BY <1>6, <1>7

TreeIs == Tree = Shown

LEMMA TreeFacts == TInv => TreeIs
<1> SUFFICES ASSUME TInv PROVE Tree = Shown BY DEF TreeIs
<1> DEFINE mem == {o \in Objs : heap[o].own # None}
           used == {heap[o].uuid : o \in mem}
           At(u) == {EntryIn(u, e) : e \in Now(u)}
<1>1. \A o \in mem : heap[o].uuid \in Uuids /\ heap[o].ents = Now(heap[o].uuid)
  BY ObjectIs, ObjectEnts
<1>2. \A u \in Uuids \ used : files[u].ents = Now(u)
  <2> SUFFICES ASSUME NEW u \in Uuids \ used PROVE files[u].ents = Now(u) OBVIOUS
  <2>1. Base /\ Tidy BY DEF TInv, IInv, Shape
  <2>2. ASSUME NEW t \in Saving \cup Unlinking
        PROVE  heap[req[t].parent].uuid # u /\ req[t].ent \notin files[u].ents
    <3>1. t \in Threads /\ req[t].op \in Works
      BY <2>1 DEF Saving, Unlinking, Base, Staged, StagedAt, Works
    <3>2. /\ req[t].parent \in Objs /\ heap[req[t].parent].own # None
          /\ heap[req[t].parent].uuid \in Uuids /\ req[t].ent \in Dirent
      BY <2>1, <3>1, InUse, Small
    <3>3. heap[req[t].parent].uuid # u BY <3>2
    <3>4. req[t].ent \in files[u].ents => In(u, req[t].ent) BY DEF In
    <3>5. In(heap[req[t].parent].uuid, req[t].ent) BY <2>1, <3>1, InOwns DEF Base
    <3> QED BY <2>1, <3>2, <3>3, <3>4, <3>5 DEF Tidy, OneHome
  <2> QED BY <2>2 DEF Now, GoneEnts
<1>3. Tree = (UNION {{EntryIn(heap[o].uuid, e) : e \in heap[o].ents} : o \in mem})
               \cup (UNION {{EntryIn(u, e) : e \in files[u].ents} : u \in Uuids \ used})
  BY DEF Tree
<1>4. UNION {{EntryIn(heap[o].uuid, e) : e \in heap[o].ents} : o \in mem}
        = UNION {At(u) : u \in used}
  <2> HIDE DEF mem
  <2>1. \A o \in mem : {EntryIn(heap[o].uuid, e) : e \in heap[o].ents} = At(heap[o].uuid)
    BY <1>1
  <2> QED BY <2>1
<1>5. UNION {{EntryIn(u, e) : e \in files[u].ents} : u \in Uuids \ used}
        = UNION {At(u) : u \in Uuids \ used}
  <2> HIDE DEF used
  <2>1. \A u \in Uuids \ used : {EntryIn(u, e) : e \in files[u].ents} = At(u)
    BY <1>2
  <2> QED BY <2>1
<1>6. used \subseteq Uuids BY <1>1
<1>7. Shown = UNION {At(u) : u \in Uuids} BY DEF Shown
<1> HIDE DEF used, mem, At
<1>8. Tree = (UNION {At(u) : u \in used}) \cup (UNION {At(u) : u \in Uuids \ used})
  BY <1>3, <1>4, <1>5
<1>9. ASSUME NEW x \in Tree PROVE x \in Shown
  <2>1. \/ \E u \in used : x \in At(u)
        \/ \E u \in Uuids \ used : x \in At(u)
    BY <1>8, <1>9
  <2>2. \E u \in Uuids : x \in At(u) BY <1>6, <2>1
  <2> QED BY <1>7, <2>2
<1>10. ASSUME NEW x \in Shown PROVE x \in Tree
  <2>1. PICK u \in Uuids : x \in At(u) BY <1>7, <1>10
  <2>2. CASE u \in used BY <1>8, <2>1, <2>2
  <2>3. CASE u \notin used
    <3>1. x \in UNION {At(v) : v \in Uuids \ used} BY <2>1, <2>3
    <3> QED BY <1>8, <3>1
  <2> QED BY <2>2, <2>3
<1> QED BY <1>9, <1>10

LEMMA TreeNext == TInv' => TreeIs'
BY TreeFacts, PTL

LEMMA ShownIs ==
  /\ \A x : x \in Shown <=> \E u \in Uuids : \E e \in Now(u) : x = EntryIn(u, e)
  /\ \A u, v, d, e : EntryIn(u, d) = EntryIn(v, e) =>
       u = v /\ d.uuid = e.uuid /\ d.name = e.name /\ d.kind = e.kind
  /\ \A u, e : /\ EntryIn(u, e).dir = u /\ EntryIn(u, e).node = e.uuid
               /\ EntryIn(u, e).name = e.name /\ EntryIn(u, e).kind = e.kind
<1>1. \A u, e : /\ EntryIn(u, e).dir = u /\ EntryIn(u, e).node = e.uuid
                /\ EntryIn(u, e).name = e.name /\ EntryIn(u, e).kind = e.kind
  BY DEF EntryIn
<1>2. \A u, v, d, e : EntryIn(u, d) = EntryIn(v, e) =>
        u = v /\ d.uuid = e.uuid /\ d.name = e.name /\ d.kind = e.kind
  <2> HIDE DEF EntryIn
  <2> QED BY <1>1
<1> QED BY <1>1, <1>2 DEF Shown

\* A step that makes no node: objects keep what they are or are loaded from files
\* that stay, and a file that goes had no entries.
Tame(h) ==
  /\ Becomes(h)
  /\ \A o \in Objs : h[o].own # None =>
       \/ /\ heap[o].own # None /\ h[o].uuid = heap[o].uuid
          /\ h[o].ents \subseteq heap[o].ents
       \/ \E u \in Uuids : Stored(u) /\ files'[u] = files[u] /\ h[o] = Loaded(u)
  /\ \A o \in Objs : /\ heap[o].own # None /\ heap[o].uuid \in Uuids
                     /\ Stored(heap[o].uuid) /\ files'[heap[o].uuid] = Absent
                     => heap[o].ents = {}

LEMMA TameBare ==
  ASSUME Typed, Pointed, Held, Bare, NEW h, Tame(h)
  PROVE  Bare'
<1> SUFFICES ASSUME NEW o \in Objs, heap'[o].own # None, files'[heap'[o].uuid] = Absent
             PROVE heap'[o].ents = {}
  BY DEF Bare, Stored
<1>1. heap'[o] = h[o] BY DEF Tame, Becomes, Free
<1>2. ASSUME heap[o].own # None, h[o].uuid = heap[o].uuid, h[o].ents \subseteq heap[o].ents
      PROVE heap'[o].ents = {}
  <2>1. heap[o].uuid \in Uuids
    <3>1. heap[o].uuid # None BY <1>2, Small DEF Pointed, Held
    <3>2. heap[o] \in Slot BY DEF Typed
    <3> QED BY <3>1, <3>2 DEF Slot
  <2>2. heap[o].ents = {}
    <3>1. CASE Stored(heap[o].uuid) BY <1>1, <1>2, <2>1, <3>1 DEF Tame
    <3>2. CASE ~Stored(heap[o].uuid) BY <1>2, <3>2 DEF Bare
    <3> QED BY <3>1, <3>2
  <2> QED BY <1>1, <1>2, <2>2
<1>3. ASSUME NEW u \in Uuids, Stored(u), files'[u] = files[u], h[o] = Loaded(u)
      PROVE FALSE
  BY <1>1, <1>3 DEF Loaded, Stored
<1> QED BY <1>1, <1>2, <1>3 DEF Tame

\* Objects that keep what they are, with the files as they are or one saved.
LEMMA TameQuiet ==
  ASSUME Typed, UNCHANGED files, NEW h, Becomes(h),
         \A o \in Objs : /\ h[o].uuid = heap[o].uuid /\ h[o].own = heap[o].own
                         /\ h[o].ents \subseteq heap[o].ents
  PROVE  Tame(h)
BY DEF Tame, Stored

LEMMA TameStore ==
  ASSUME Base, NEW q \in Objs, q \in Pointers(imap, req), Store(q), NEW h, Becomes(h),
         \A o \in Objs : /\ h[o].uuid = heap[o].uuid /\ h[o].own = heap[o].own
                         /\ h[o].ents \subseteq heap[o].ents
  PROVE  Tame(h)
BY StoreIs DEF Tame, Stored

LEMMA StepTame ==
  ASSUME TInv, Base', NEW t \in Threads, Steady(t), Did(t)
  PROVE  \/ \E i \in Inos : \E name, e, n, h : CreateAs(t, i, name, e, n, h)
         \/ Shrinks /\ \E h : Tame(h)
<1> USE DEF TInv, IInv
<1>1. Base /\ Shape /\ Typed BY DEF Base
<1>2. Becomes(heap) /\ UNCHANGED files => Tame(heap) BY <1>1, TameQuiet
<1>3. ASSUME NEW i \in Inos, NEW e, LookupAs(t, i, e) PROVE Shrinks /\ Tame(heap)
  BY <1>1, <1>2, <1>3, LookupShrinks, HeapStays DEF LookupAs
<1>4. ASSUME NEW i \in Inos, BeginForgetAs(t, i) PROVE Shrinks /\ Tame(heap)
  BY <1>1, <1>2, <1>4, BeginForgetShrinks, HeapStays DEF BeginForgetAs
<1>5. ASSUME NEW i \in Inos, NEW e, RemoveAs(t, i, e) PROVE Shrinks /\ Tame(heap)
  BY <1>1, <1>2, <1>5, RemoveShrinks, HeapStays DEF RemoveAs
<1>6. CASE LoadFails(t) \/ FoundFails(t) \/ ForgetNone(t) \/ DropGone(t) \/ RemoveNodeFails(t)
  <2>1. Returns(t) /\ Becomes(heap) /\ UNCHANGED files
    BY <1>6 DEF LoadFails, FoundFails, ForgetNone, DropGone, RemoveNodeFails
  <2> QED BY <1>1, <1>2, <2>1, QuietShrinks
<1>7. ASSUME NEW n, NEW h, LoadAs(t, n, h) PROVE Shrinks /\ Tame(h)
  <2>1. Shrinks BY <1>1, <1>7, LoadShrinks
  <2>2. req[t].ent.uuid \in Uuids BY <1>1, InUse
  <2>3. /\ Becomes(h) /\ UNCHANGED files /\ Stored(req[t].ent.uuid)
        /\ \A o \in Objs : h[o] = heap[o] \/ h[o] = Loaded(req[t].ent.uuid)
    BY <1>7 DEF LoadAs
  <2> QED BY <2>1, <2>2, <2>3 DEF Tame, Stored
<1>8. ASSUME NEW h, CountAs(t, h) \/ DropAs(t, h) PROVE Shrinks /\ Tame(h)
  <2>1. PICK o, n : Rewrites(h, o, n) /\ Returns(t) /\ UNCHANGED files
    BY <1>8 DEF CountAs, DropAs
  <2>2. Shrinks BY <1>1, <2>1, RewritesShrinks
  <2> QED BY <1>1, <2>1, <2>2, TameQuiet DEF Rewrites
<1>9. CASE FoundAs(t) \/ ForgetAs(t)
  <2>1. Shrinks BY <1>1, <1>9, FoundShrinks, ForgetShrinks
  <2>2. Becomes(heap) /\ UNCHANGED files BY <1>9 DEF FoundAs, ForgetAs
  <2> QED BY <1>2, <2>1, <2>2
<1>15. ASSUME NEW i \in Inos, FlushAs(t, i) PROVE Shrinks /\ Tame(heap)
  <2>1. Shrinks BY <1>1, <1>15, FlushShrinks
  <2> QED BY <1>1, <1>15, <2>1, TameStore DEF FlushAs
<1>10. ASSUME NEW h, SaveParentAs(t, h) PROVE Shrinks /\ Tame(h)
  <2>1. Shrinks BY <1>1, <1>10, SaveParentShrinks
  <2>2. Becomes(h) /\ Store(req[t].parent) BY <1>10 DEF SaveParentAs
  <2>3. \A o \in Objs : h[o] = heap[o] \/ h[o] = [heap[o] EXCEPT !.refs = @ + 1]
    BY <1>10 DEF SaveParentAs
  <2>4. \A o \in Objs : heap[o] \in Slot BY <1>1 DEF Typed
  <2>5. \A o \in Objs : /\ h[o].uuid = heap[o].uuid /\ h[o].own = heap[o].own
                        /\ h[o].kind = heap[o].kind /\ h[o].ents \subseteq heap[o].ents
    BY <2>3, <2>4 DEF Slot
  <2>6. req[t].op \in Works BY <1>1, <1>10 DEF SaveParentAs, Base, Staged, StagedAt, Works
  <2>7. req[t].parent \in Objs /\ req[t].parent \in Pointers(imap, req) BY <1>1, <2>6, InUse
  <2> QED BY <1>1, <2>1, <2>2, <2>5, <2>7, TameStore
<1>11. CASE SaveSuperAs(t)
  BY <1>1, <1>2, <1>11, SaveSuperShrinks, HeapStays DEF SaveSuperAs
<1>12. CASE SaveNodeAs(t)
  <2>1. Shrinks BY <1>1, <1>12, SaveNodeShrinks
  <2>2. Becomes(heap) /\ Store(req[t].node) BY <1>12 DEF SaveNodeAs
  <2>3. req[t].node \in Objs /\ req[t].node \in Pointers(imap, req)
    BY <1>1, <1>12, InUse DEF SaveNodeAs
  <2> QED BY <1>1, <2>1, <2>2, <2>3, TameStore
<1>13. CASE SaveRemovedAs(t)
  <2>1. Shrinks BY <1>1, <1>13, SaveRemovedShrinks
  <2>2. Becomes(heap) /\ Store(req[t].parent) BY <1>13 DEF SaveRemovedAs
  <2>3. req[t].op \in Works BY <1>1, <1>13 DEF SaveRemovedAs, Base, Staged, StagedAt, Works
  <2>4. req[t].parent \in Objs /\ req[t].parent \in Pointers(imap, req) BY <1>1, <2>3, InUse
  <2> QED BY <1>1, <2>1, <2>2, <2>4, TameStore
<1>14. ASSUME NEW h, RemoveNodeAs(t, h) PROVE Shrinks /\ Tame(h)
  <2> DEFINE e == req[t].ent
             p == req[t].parent
  <2>1. Shrinks BY <1>1, <1>14, RemoveNodeShrinks
  <2>2. /\ Becomes(h) /\ pc[t] = "unstore"
        /\ \A u \in Uuids : files'[u] = IF u = e.uuid THEN Absent ELSE files[u]
    BY <1>1, <1>14 DEF RemoveNodeAs, Typed
  <2>3. \A o \in Objs : h[o] = heap[o] \/ h[o] = [heap[o] EXCEPT !.ents = @ \ {e}]
    BY <1>14 DEF RemoveNodeAs
  <2>4. \A o \in Objs : heap[o] \in Slot BY <1>1 DEF Typed
  <2>5. \A o \in Objs : /\ h[o].uuid = heap[o].uuid /\ h[o].own = heap[o].own
                        /\ h[o].kind = heap[o].kind /\ h[o].ents \subseteq heap[o].ents
    <3> SUFFICES ASSUME NEW o \in Objs
                 PROVE  /\ h[o].uuid = heap[o].uuid /\ h[o].own = heap[o].own
                        /\ h[o].kind = heap[o].kind /\ h[o].ents \subseteq heap[o].ents
      OBVIOUS
    <3>1. CASE h[o] = heap[o] BY <3>1
    <3>2. CASE h[o] = [heap[o] EXCEPT !.ents = @ \ {e}]
      <4> HIDE DEF e
      <4>1. heap[o] \in Slot BY <2>4
      <4>2. h[o].ents = heap[o].ents \ {e} BY <3>2, <4>1 DEF Slot
      <4>3. h[o].uuid = heap[o].uuid /\ h[o].own = heap[o].own /\ h[o].kind = heap[o].kind
        BY <3>2, <4>1 DEF Slot
      <4> QED BY <4>2, <4>3
    <3> QED BY <2>3, <3>1, <3>2
  <2>6. e.uuid \in Uuids BY <1>1, InUse
  <2>7. files[e.uuid].ents = {} BY <1>1, <2>2 DEF Shape, Requests, RequestAt, RemovedAt
  <2>8. ASSUME NEW o \in Objs, heap[o].own # None, heap[o].uuid \in Uuids,
               Stored(heap[o].uuid), files'[heap[o].uuid] = Absent
        PROVE  heap[o].ents = {}
    <3>1. heap[o].uuid = e.uuid BY <2>2, <2>8 DEF Stored
    <3>2. heap[o].ents = Now(e.uuid) BY <2>8, <3>1, ObjectEnts
    <3>3. \A s \in Saving : heap[req[s].parent].uuid # e.uuid
      <4> SUFFICES ASSUME NEW s \in Saving PROVE heap[req[s].parent].uuid # e.uuid OBVIOUS
      <4>1. /\ s \in Threads /\ s # t /\ req[s].op = "create" /\ req[t].op = "remove"
        BY <1>1, <2>2 DEF Saving, Base, Staged, StagedAt
      <4> QED BY <1>1, <4>1, Apart DEF Shape
    <3> QED BY <2>7, <3>2, <3>3 DEF Now
  <2> QED BY <2>1, <2>2, <2>5, <2>8 DEF Tame
<1> QED BY <1>3, <1>4, <1>5, <1>6, <1>7, <1>8, <1>9, <1>10, <1>11, <1>12, <1>13, <1>14, <1>15
       DEF Did

LEMMA CreateKinds ==
  ASSUME TInv, Base', NEW t \in Threads, Steady(t), NEW i \in Inos,
         NEW name, NEW e, NEW n, NEW h, CreateAs(t, i, name, e, n, h)
  PROVE  KindOfEntry' /\ Bare'
<1> DEFINE p == imap[i]
<1>1. Base /\ Tidy /\ Typed BY DEF TInv, IInv, Shape, Base
<1>2. /\ \A u \in Uuids, d \in Dirent :
           In(u, d)' => In(u, d) \/ (u = heap[p].uuid /\ d = e)
      /\ \A u \in Uuids, k \in Kinds : Kin(k, u)' => Kin(k, u) \/ (k = e.kind /\ u = e.uuid)
      /\ \A u \in Uuids, d \in Dirent : In(u, d) => d.uuid # e.uuid
      /\ \A k \in Kinds : ~Kin(k, e.uuid)
  BY <1>1, CreateTidy
<1>3. /\ e \in Dirent /\ e.uuid \notin UsedUuids /\ UNCHANGED files
      /\ n \in Objs /\ p \in Objs /\ p \in Pointers(imap, req) /\ Enters(t, i)
      /\ n # p /\ h \in [Objs -> Slot] /\ Becomes(h)
      /\ h[n] = Made(e) /\ h[p] = [heap[p] EXCEPT !.ents = @ \cup {e}]
      /\ \A o \in Objs \ {n, p} : h[o] = heap[o]
  BY DEF CreateAs
<1>4. heap[p] \in Slot /\ heap[p].own # None /\ Stored(heap[p].uuid)
  <2>1. p # None BY <1>3, Small
  <2> QED BY <1>1, <1>3, <2>1 DEF Base, Held, Typed, Enters, Stored
<1>5. h[p].uuid = heap[p].uuid BY <1>3, <1>4 DEF Slot
<1>6. Made(e).uuid = e.uuid /\ Made(e).ents = {} BY DEF Made
<1>7. e.uuid \in Uuids /\ e.kind \in Kinds BY <1>3 DEF Dirent
<1> HIDE DEF p
<1>11. KindOfEntry'
  <2> SUFFICES ASSUME NEW u \in Uuids, NEW d \in Dirent, NEW k \in Kinds,
                      In(u, d)', Kin(k, d.uuid)'
               PROVE  k = d.kind
    BY DEF KindOfEntry
  <2>1. d.uuid \in Uuids BY DEF Dirent
  <2>2. CASE In(u, d)
    <3>1. d.uuid # e.uuid BY <1>2, <2>2
    <3>2. Kin(k, d.uuid) BY <1>2, <2>1, <3>1
    <3> QED BY <2>2, <3>2 DEF TInv, KindOfEntry
  <2>3. CASE d = e BY <1>2, <2>1, <2>3
  <2> QED BY <1>2, <2>2, <2>3
<1>12. Bare'
  <2> SUFFICES ASSUME NEW o \in Objs, heap'[o].own # None, files'[heap'[o].uuid] = Absent
               PROVE heap'[o].ents = {}
    BY DEF Bare, Stored
  <2>1. heap'[o] = h[o] BY <1>3 DEF Becomes, Free
  <2>2. CASE o = n BY <1>3, <1>6, <2>1, <2>2
  <2>3. CASE o = p BY <1>3, <1>4, <1>5, <2>1, <2>3 DEF Stored
  <2>4. CASE o \notin {n, p}
    <3>1. heap'[o] = heap[o] BY <1>3, <2>1, <2>4
    <3> QED BY <1>3, <3>1 DEF TInv, Bare, Stored
  <2> QED BY <2>2, <2>3, <2>4
<1> QED BY <1>11, <1>12

\* A step destroys what loses its last pointer.
LEMMA HeapPointed ==
  ASSUME NEW h, Heap(h)
  PROVE  Pointed'
<1>1. \A o \in Objs : heap'[o] = IF o \in Pointers(imap', req') THEN h[o] ELSE Free
  BY DEF Heap
<1> QED BY <1>1 DEF Pointed, Free

\* A step that leaves the heap alone and whose thread keeps its pointers or had none.
LEMMA MorePointed ==
  ASSUME Typed, Pointed, NEW t \in Threads, UNCHANGED <<heap, imap>>,
         \A s \in Threads \ {t} : req'[s] = req[s],
         \/ req'[t] = req[t]
         \/ req[t].parent = None /\ req[t].node = None
  PROVE  Pointed'
<1> SUFFICES ASSUME NEW o \in Objs, heap'[o].own # None PROVE o \in Pointers(imap', req')
  BY DEF Pointed
<1>1. o \in Pointers(imap, req) /\ o # None BY Small DEF Pointed
<1>2. CASE o \in Range(imap) BY <1>2 DEF Pointers
<1>3. ASSUME NEW s \in Threads, o = req[s].parent \/ o = req[s].node
      PROVE  o \in Pointers(imap', req')
  <2>1. req'[s] = req[s] BY <1>1, <1>3
  <2> QED BY <1>3, <2>1 DEF Pointers
<1> QED BY <1>1, <1>2, <1>3 DEF Pointers

LEMMA NextPointed ==
  ASSUME TInv, [Next]_vars
  PROVE  Pointed'
<1>1. Base /\ Typed /\ Pointed BY DEF TInv, IInv, Base
<1>2. ASSUME NEW t \in Threads, pc[t] = "idle" PROVE req[t].parent = None /\ req[t].node = None
  BY <1>1, <1>2 DEF TInv, Tied, TiedAt, Base, Staged, StagedAt, Works
<1>3. CASE UNCHANGED vars BY <1>1, <1>3 DEF vars, memory, Pointed
<1>4. CASE Crash
  <2> SUFFICES ASSUME NEW o \in Objs, heap'[o].own # None PROVE o \in Pointers(imap', req')
    BY DEF Pointed
  <2>1. o = Root BY <1>4 DEF Crash, Free
  <2>2. imap' \in [Inos -> Objs \cup {None}] /\ imap'[Root] = Root
    BY <1>4, Small DEF Crash
  <2>3. imap'[Root] \in Range(imap')
    BY <2>2, Small DEF Range
  <2> QED BY <2>1, <2>2, <2>3 DEF Pointers
<1>5. ASSUME NEW t \in Threads, Step(t) \/ Request(t) PROVE Pointed'
  <2>1. ASSUME NEW i \in Inos, Lookup(t, i) PROVE Pointed'
    <3>1. PICK e : LookupAs(t, i, e) BY <1>1, <2>1, LookupIs
    <3> QED BY <1>1, <1>2, <3>1, MorePointed DEF LookupAs, Goes
  <2>2. ASSUME NEW i \in Inos, BeginForget(t, i) PROVE Pointed'
    <3>1. BeginForgetAs(t, i) BY <1>1, <2>2, BeginForgetIs
    <3> QED BY <1>1, <1>2, <3>1, MorePointed DEF BeginForgetAs, Goes
  <2>3. ASSUME NEW i \in Inos, Remove(t, i) PROVE Pointed'
    <3>1. PICK e : RemoveAs(t, i, e) BY <1>1, <2>3, RemoveIs
    <3> QED BY <1>1, <1>2, <3>1, MorePointed DEF RemoveAs, Goes
  <2>4. ASSUME NEW i \in Inos, NEW name \in Names, NEW kind \in NewKinds,
               Create(t, i, name, kind)
        PROVE  Pointed'
    BY <2>4, HeapPointed DEF Create
  <2>5. CASE SaveSuper(t)
    <3>1. SaveSuperAs(t) BY <1>1, <2>5, SaveSuperIs
    <3> QED BY <1>1, <3>1, MorePointed DEF SaveSuperAs, Goes
  <2>6. CASE Load(t) BY <2>6, HeapPointed DEF Load
  <2>7. CASE Found(t) BY <2>7, HeapPointed DEF Found
  <2>8. CASE Forget(t) BY <2>8, HeapPointed DEF Forget
  <2>9. CASE SaveParent(t) BY <2>9, HeapPointed DEF SaveParent, Number
  <2>10. CASE SaveNode(t) BY <2>10, HeapPointed DEF SaveNode
  <2>11. CASE RemoveNode(t) BY <2>11, HeapPointed DEF RemoveNode
  <2>12. CASE SaveRemoved(t) BY <2>12, HeapPointed DEF SaveRemoved
  <2>13. CASE Count(t) BY <2>13, HeapPointed DEF Count
  <2>14. CASE Drop(t) BY <2>14, HeapPointed DEF Drop
  <2>15. ASSUME NEW i \in Inos, Flush(t, i) PROVE Pointed'
    BY <1>1, <2>15 DEF Flush, memory, Pointed
  <2> QED
    BY <1>5, <2>1, <2>2, <2>3, <2>4, <2>5, <2>6, <2>7, <2>8, <2>9, <2>10, <2>11, <2>12, <2>13,
       <2>14, <2>15
    DEF Step, Request
<1> QED BY <1>3, <1>4, <1>5 DEF Next

LEMMA StepTied ==
  ASSUME OneThread, TInv, Base', NEW t \in Threads, Steady(t), Did(t)
  PROVE  Tied'
<1> SUFFICES TiedAt(t)' BY DEF Tied, OneThread
<1>1. Base /\ Typed /\ Staged /\ TiedAt(t) /\ Numbers /\ Lone
  BY DEF TInv, IInv, Base, Tied
<1>2. ASSUME NEW i \in Inos, NEW e, LookupAs(t, i, e) PROVE TiedAt(t)'
  BY <1>2 DEF LookupAs, Goes, TiedAt, Works
<1>3. ASSUME NEW i \in Inos, BeginForgetAs(t, i) PROVE TiedAt(t)'
  BY <1>3 DEF BeginForgetAs, Goes, TiedAt
<1>4. ASSUME NEW i \in Inos, NEW e, RemoveAs(t, i, e) PROVE TiedAt(t)'
  <2> DEFINE p == imap[i]
  <2>1. /\ p \in Objs /\ p # None /\ p \in Pointers(imap, req) /\ e \in heap[p].ents
        /\ pc[t] = "idle"
    BY <1>4, Small DEF RemoveAs
  <2>2. heap[p].own # None BY <1>1, <2>1 DEF Base, Held
  <2>3. heap[p].ents = Now(heap[p].uuid) BY <2>1, <2>2, ObjectEnts
  <2>4. Saving = {} BY <2>1 DEF Saving, OneThread
  <2>5. e \in files[heap[p].uuid].ents BY <2>1, <2>3, <2>4 DEF Now
  <2>6. /\ pc'[t] = "unstore" /\ req'[t].op = "remove" /\ req'[t].node = None
        /\ req'[t].parent = p /\ req'[t].ent = e /\ UNCHANGED <<files, heap>>
    BY <1>4 DEF RemoveAs, Goes
  <2> QED BY <2>5, <2>6 DEF TiedAt, Works
<1>5. ASSUME NEW i \in Inos, NEW name, NEW e, NEW n, NEW h, CreateAs(t, i, name, e, n, h)
      PROVE  TiedAt(t)'
  BY <1>5 DEF CreateAs, TiedAt, Works
<1>6. CASE Returns(t) BY <1>6 DEF Returns, Goes, TiedAt
<1>7. ASSUME NEW n, NEW h, LoadAs(t, n, h) PROVE TiedAt(t)'
  <2>1. pc'[t] = "found" /\ req'[t].op = "lookup"
    BY <1>1, <1>7 DEF LoadAs, Goes, Staged, StagedAt
  <2> QED BY <2>1 DEF TiedAt, Works
<1>8. ASSUME NEW h, SaveParentAs(t, h) PROVE TiedAt(t)'
  <2>1. pc[t] = "parent" /\ req[t].op = "create"
    BY <1>1, <1>8 DEF SaveParentAs, Staged, StagedAt
  <2>2. req[t].ent.ino = maxIno BY <1>1, <2>1 DEF Numbers, CreateAt, Lone
  <2>3. imap'[maxIno] = req[t].node BY <1>1, <1>8 DEF SaveParentAs, Typed
  <2> QED BY <1>8, <2>1, <2>2, <2>3 DEF SaveParentAs, Goes, TiedAt, Works
<1>9. CASE SaveSuperAs(t)
  BY <1>1, <1>9 DEF SaveSuperAs, Goes, TiedAt, Staged, StagedAt
<1>10. ASSUME NEW h, RemoveNodeAs(t, h) PROVE TiedAt(t)'
  BY <1>1, <1>10 DEF RemoveNodeAs, Goes, TiedAt, Staged, StagedAt
<1>11. CASE LoadFails(t) \/ FoundFails(t) \/ ForgetNone(t) \/ DropGone(t) \/ RemoveNodeFails(t)
            \/ SaveNodeAs(t) \/ SaveRemovedAs(t)
  BY <1>6, <1>11
     DEF LoadFails, FoundFails, ForgetNone, DropGone, RemoveNodeFails, SaveNodeAs, SaveRemovedAs
<1>12. ASSUME NEW h, CountAs(t, h) \/ DropAs(t, h) PROVE TiedAt(t)'
  BY <1>6, <1>12 DEF CountAs, DropAs
<1>13. CASE FoundAs(t)
  <2>1. pc'[t] = "count" /\ req'[t].op = "lookup"
    BY <1>1, <1>13 DEF FoundAs, Goes, Staged, StagedAt
  <2> QED BY <2>1 DEF TiedAt, Works
<1>14. CASE ForgetAs(t)
  <2>1. pc'[t] = "drop" /\ req'[t].parent = req[t].parent /\ req[t].op = "forget"
    BY <1>1, <1>14 DEF ForgetAs, Goes, Staged, StagedAt
  <2> QED BY <1>1, <2>1 DEF TiedAt, Works
<1>15. ASSUME NEW i \in Inos, FlushAs(t, i) PROVE TiedAt(t)'
  BY <1>1, <1>15 DEF FlushAs, TiedAt
<1> QED BY <1>2, <1>3, <1>4, <1>5, <1>7, <1>8, <1>9, <1>10, <1>11, <1>12, <1>13, <1>14, <1>15
        DEF Did

\* A mount.
LEMMA CrashTame ==
  ASSUME TInv, Base', Crash
  PROVE  (KindOfEntry /\ Bare /\ Tied)'
<1>1. Base /\ Typed /\ Held /\ Tidy /\ KindOfEntry /\ Pointed /\ Bare
  BY DEF TInv, IInv, Shape, Base
<1> PICK h : h = heap' OBVIOUS
<1>2. /\ files' = files /\ pc' = [t \in Threads |-> "idle"] /\ req' = [t \in Threads |-> NoReq]
      /\ heap' = [o \in Objs |-> IF o = Root THEN Loaded(Root) ELSE Free]
  BY DEF Crash, storage
<1>3. Becomes(h) BY DEF Becomes, Base, Typed
<1>4. Stored(Root) /\ Root \in Uuids BY <1>1, Small DEF Tidy
<1>5. \A o \in Objs : h[o].own # None => h[o] = Loaded(Root) BY <1>2 DEF Free
<1>6. Tame(h) BY <1>2, <1>3, <1>4, <1>5 DEF Tame, Stored
<1>7. Shrinks BY <1>1, CrashShrinks
<1>8. Tied' BY <1>2 DEF Tied, TiedAt, NoReq, Works
<1>9. KindOfEntry' BY <1>1, <1>7 DEF KindOfEntry, Shrinks, Dirent
<1> QED BY <1>1, <1>6, <1>8, <1>9, TameBare

LEMMA InitTree ==
  ASSUME Init
  PROVE  KindOfEntry /\ Pointed /\ Bare /\ Tied
<1> DEFINE node == [own |-> 2, kind |-> "dir", ents |-> {}]
<1>1. /\ files[Root] = RootNode /\ files[2] = node
      /\ \A u \in Uuids \ {Root, 2} : files[u] = Absent
  BY Small DEF Init
<1>2. /\ RootNode.kind = "dir" /\ RootNode.ents = {SubEnt} /\ RootNode # Absent
      /\ node.kind = "dir" /\ node.ents = {} /\ Absent.ents = {}
      /\ SubEnt.uuid = 2 /\ SubEnt.kind = "dir"
  BY DEF RootNode, Absent, SubEnt
<1>3. /\ heap = [o \in Objs |-> IF o = Root THEN Loaded(Root) ELSE Free]
      /\ imap = [i \in Inos |-> IF i = Root THEN Root ELSE None]
      /\ pc = [t \in Threads |-> "idle"] /\ req = [t \in Threads |-> NoReq]
  BY DEF Init
<1>4. Loaded(Root).uuid = Root /\ Loaded(Root).kind = "dir" /\ Loaded(Root).ents = {SubEnt}
  BY <1>1, <1>2, Small DEF Loaded
<1>5. /\ NoReq.op \notin Works /\ NoReq.parent = None /\ NoReq.node = None
      /\ Free.uuid \notin Uuids /\ Free.own = None
  BY Small DEF NoReq, Works, Free
<1>6. \A u \in Uuids, e \in Dirent : In(u, e) => e = SubEnt
  <2> SUFFICES ASSUME NEW u \in Uuids, NEW e \in Dirent, In(u, e) PROVE e = SubEnt OBVIOUS
  <2>1. CASE e \in files[u].ents BY <1>1, <1>2, <2>1
  <2>2. CASE \E o \in Objs : heap[o].uuid = u /\ e \in heap[o].ents
    BY <1>3, <1>4, <1>5, <2>2
  <2> QED BY <1>3, <1>5, <2>1, <2>2 DEF In
<1>7. \A k \in Kinds : Kin(k, 2) => k = "dir"
  BY <1>1, <1>2, <1>3, <1>4, <1>5, Small DEF Kin
<1>8. KindOfEntry BY <1>2, <1>6, <1>7 DEF KindOfEntry
<1>9. Pointed
  <2> SUFFICES ASSUME NEW o \in Objs, heap[o].own # None PROVE o \in Pointers(imap, req)
    BY DEF Pointed
  <2>1. o = Root BY <1>3, <1>5
  <2>2. imap \in [Inos -> Objs \cup {None}] /\ imap[Root] = Root BY <1>3, Small
  <2>3. imap[Root] \in Range(imap) BY <2>2, Small DEF Range
  <2> QED BY <2>1, <2>2, <2>3 DEF Pointers
<1>10. Bare BY <1>1, <1>2, <1>3, <1>4, <1>5 DEF Bare, Stored
<1>11. Tied BY <1>3, <1>5 DEF Tied, TiedAt
<1> QED BY <1>8, <1>9, <1>10, <1>11

LEMMA NextTree ==
  ASSUME OneThread, TInv, Base', [Next]_vars
  PROVE  (KindOfEntry /\ Pointed /\ Bare /\ Tied)'
<1>1. Pointed' BY NextPointed
<1>2. Base /\ Typed /\ Held /\ KindOfEntry /\ Pointed /\ Bare BY DEF TInv, IInv, Base
<1>3. CASE Crash BY <1>1, <1>3, CrashTame
<1>4. CASE UNCHANGED vars
  BY <1>1, <1>4 DEF TInv, vars, memory, storage, KindOfEntry, In, Kin, Stored, Bare, Tied, TiedAt
<1>5. ASSUME NEW t \in Threads, Step(t) \/ Request(t) PROVE (KindOfEntry /\ Bare /\ Tied)'
  <2>1. Steady(t) /\ Did(t) BY <1>2, <1>5, StepIs
  <2>2. Tied' BY <2>1, StepTied
  <2>3. ASSUME NEW i \in Inos, NEW name, NEW e, NEW n, NEW h, CreateAs(t, i, name, e, n, h)
        PROVE  KindOfEntry' /\ Bare'
    BY <2>1, <2>3, CreateKinds
  <2>4. ASSUME Shrinks, NEW h, Tame(h) PROVE KindOfEntry' /\ Bare'
    <3>1. KindOfEntry' BY <1>2, <2>4 DEF KindOfEntry, Shrinks, Dirent
    <3> QED BY <1>2, <2>4, <3>1, TameBare
  <2> QED BY <2>1, <2>2, <2>3, <2>4, StepTame
<1> QED BY <1>1, <1>3, <1>4, <1>5 DEF Next

LEMMA TreeInvariant ==
  ASSUME OneThread
  PROVE  Spec => []TInv
<1>1. Init => KindOfEntry /\ Pointed /\ Bare /\ Tied BY InitTree
<1>2. TInv /\ IInv' /\ Lone' /\ [Next]_vars => TInv'
  BY NextTree DEF IInv, TInv
<1>3. IInv /\ Lone /\ KindOfEntry /\ Pointed /\ Bare /\ Tied <=> TInv BY DEF TInv
<1> QED BY <1>1, <1>2, <1>3, Invariant, LoneInvariant, PTL DEF Spec

-----------------------------------------------------------------------------
(* What the tree and the entries in flight are.                            *)

NowHas ==
  \A u, x : x \in Now(u) <=>
    /\ \/ x \in files[u].ents
       \/ \E t \in Saving : heap[req[t].parent].uuid = u /\ x = req[t].ent
    /\ \A t \in Unlinking : x # req[t].ent
LEMMA NowIs == NowHas
BY DEF NowHas, Now, GoneEnts
LEMMA NowLater == NowHas'
BY NowIs, PTL

LEMMA NowIn ==
  ASSUME Base
  PROVE  \A u \in Uuids : \A d \in Now(u) : d \in Dirent /\ d.uuid \in Uuids /\ In(u, d)
<1> SUFFICES ASSUME NEW u \in Uuids, NEW d \in Now(u)
             PROVE  d \in Dirent /\ d.uuid \in Uuids /\ In(u, d)
  OBVIOUS
<1>1. Typed BY DEF Base
<1>2. CASE d \in files[u].ents
  BY <1>1, <1>2, Files, InOwns DEF Dirent
<1>3. ASSUME NEW t \in Saving, heap[req[t].parent].uuid = u, d = req[t].ent
      PROVE  d \in Dirent /\ d.uuid \in Uuids /\ In(u, d)
  <2>1. t \in Threads /\ req[t].op \in Works
    BY <1>3 DEF Saving, Base, Staged, StagedAt, Works
  <2> QED BY <1>1, <1>3, <2>1, InUse, InOwns
<1> QED BY <1>2, <1>3, NowIs DEF NowHas

\* The entry x is d in the directory u.
Is(x, u, d) ==
  /\ x = EntryIn(u, d) /\ x.dir = u /\ x.node = d.uuid /\ x.name = d.name /\ x.kind = d.kind

TreeHas ==
  /\ \A x \in Tree : \E u \in Uuids : \E d \in Now(u) : Is(x, u, d)
  /\ \A u \in Uuids : \A d \in Now(u) : EntryIn(u, d) \in Tree
LEMMA TreeOf ==
  ASSUME TInv
  PROVE  TreeHas
<1>1. Tree = Shown BY TreeFacts DEF TreeIs
<1> QED BY <1>1, ShownIs DEF TreeHas, Is
LEMMA TreeLater == TInv' => TreeHas'
BY TreeOf, PTL

Item(t) == EntryIn(heap[req[t].parent].uuid, req[t].ent)
FlightHas == \A x : x \in Flight <=> \E t \in Threads : req[t].op \in Changes /\ x = Item(t)
LEMMA FlightIs == FlightHas
BY DEF FlightHas, Flight, Item, Changes
LEMMA FlightLater == FlightHas'
BY FlightIs, PTL

\* No two entries lead to one node.
LEMMA OneEntry ==
  ASSUME TInv, NEW x \in Tree, NEW u \in Uuids, NEW e \in Dirent, In(u, e), x.node = e.uuid
  PROVE  x = EntryIn(u, e) /\ e \in Now(u)
<1>0. PICK v \in Uuids : \E d \in Now(v) : Is(x, v, d) BY TreeOf DEF TreeHas
<1>1. PICK d \in Now(v) : Is(x, v, d) BY <1>0
<1>2. d \in Dirent /\ In(v, d) BY <1>1, NowIn DEF TInv, IInv
<1>3. d.uuid = e.uuid BY <1>1 DEF Is
<1>4. v = u /\ d = e BY <1>2, <1>3 DEF TInv, IInv, Shape, Tidy, OneHome
<1> QED BY <1>1, <1>4 DEF Is

\* An entry of a request.
LEMMA ItemIs ==
  ASSUME TInv, NEW t \in Threads, req[t].op \in Works
  PROVE  /\ heap[req[t].parent].uuid \in Uuids /\ req[t].ent \in Dirent
         /\ In(heap[req[t].parent].uuid, req[t].ent)
         /\ Is(Item(t), heap[req[t].parent].uuid, req[t].ent)
<1>1. Base /\ Typed BY DEF TInv, IInv, Base
<1>2. Is(Item(t), heap[req[t].parent].uuid, req[t].ent) BY ShownIs DEF Is, Item
<1> QED BY <1>1, <1>2, InUse, InOwns

LEMMA NodesThere ==
  ASSUME TInv, NEW x \in Tree
  PROVE  x.node \in Uuids \ {Root}
<1>0. PICK v \in Uuids : \E d \in Now(v) : Is(x, v, d) BY TreeOf DEF TreeHas
<1>1. PICK d \in Now(v) : Is(x, v, d) BY <1>0
<1>2. d \in Dirent /\ d.uuid \in Uuids /\ In(v, d) BY <1>1, NowIn DEF TInv, IInv
<1> QED BY <1>1, <1>2 DEF Is, TInv, IInv, Shape, Tidy, NotRoot

\* A step that changes no directory.
LEMMA SameTree ==
  ASSUME TInv, TInv', \A u \in Uuids : Now(u)' = Now(u)
  PROVE  Tree' = Tree
<1>1. Tree = Shown /\ Tree' = Shown' BY TreeFacts, TreeNext DEF TreeIs
<1>2. Shown' = Shown BY DEF Shown, EntryIn
<1> QED BY <1>1, <1>2

LEMMA SameAll ==
  ASSUME TInv, TInv', \A u \in Uuids : Now(u)' = Now(u), Flight' = Flight,
         \A u \in Uuids : files'[u] = Absent <=> files[u] = Absent
  PROVE  UNCHANGED Abstract!vars
<1>1. Tree' = Tree BY SameTree
<1>2. \A x \in Tree : files'[x.node] = Absent <=> files[x.node] = Absent BY NodesThere
<1>3. Broken' = Broken BY <1>1, <1>2 DEF Broken, Stored
<1> QED BY <1>1, <1>3 DEF Abstract!vars

-----------------------------------------------------------------------------
(* What the steps of one thread mean to the tree.                          *)

AloneHas ==
  \A t \in Threads :
    /\ \A u, x : x \in Now(u) <=>
         /\ \/ x \in files[u].ents
            \/ pc[t] = "parent" /\ heap[req[t].parent].uuid = u /\ x = req[t].ent
         /\ pc[t] = "unlink" => x # req[t].ent
    /\ \A x : x \in Flight <=> req[t].op \in Changes /\ x = Item(t)
LEMMA AloneIs == OneThread => AloneHas
<1> SUFFICES ASSUME OneThread, NEW t \in Threads
             PROVE  /\ \A u, x : x \in Now(u) <=>
                         /\ \/ x \in files[u].ents
                            \/ pc[t] = "parent" /\ heap[req[t].parent].uuid = u /\ x = req[t].ent
                         /\ pc[t] = "unlink" => x # req[t].ent
                    /\ \A x : x \in Flight <=> req[t].op \in Changes /\ x = Item(t)
  BY DEF AloneHas
<1>1. \A s \in Threads : s = t BY DEF OneThread
<1>2. \A s : s \in Saving <=> s = t /\ pc[t] = "parent" BY <1>1 DEF Saving
<1>3. \A s : s \in Unlinking <=> s = t /\ pc[t] = "unlink" BY <1>1 DEF Unlinking
<1>4. \A u, x : x \in Now(u) <=>
        /\ \/ x \in files[u].ents
           \/ pc[t] = "parent" /\ heap[req[t].parent].uuid = u /\ x = req[t].ent
        /\ pc[t] = "unlink" => x # req[t].ent
  BY <1>2, <1>3, NowIs DEF NowHas
<1>5. \A x : x \in Flight <=> req[t].op \in Changes /\ x = Item(t)
  BY <1>1, FlightIs DEF FlightHas
<1> QED BY <1>4, <1>5
LEMMA AloneLater == OneThread => AloneHas'
<1>1. OneThread' <=> OneThread BY DEF OneThread
<1>2. (OneThread => AloneHas)' BY AloneIs, PTL
<1> QED BY <1>1, <1>2

\* A node that is not stored, and one that a flush stored after its unlink, have no
\* entry: but for the node of a create in flight.
Strays ==
  /\ \A o \in Objs : heap[o].own # None /\ ~Stored(heap[o].uuid) =>
       \/ \E t \in Threads : req[t].op = "create" /\ req[t].node = o
       \/ \A x \in Tree : x.node # heap[o].uuid
  /\ \A u \in orphans :
       Stored(u) /\ files[u].kind = "reg" /\ \A x \in Tree \cup Flight : x.node # u

\* Lookups, forgets and loads.
LEMMA QuietStutters ==
  ASSUME OneThread, TInv, TInv', NEW t \in Threads, UNCHANGED files,
         pc[t] \notin {"parent", "unlink"}, pc'[t] \notin {"parent", "unlink"},
         req[t].op \notin Changes, req'[t].op \notin Changes
  PROVE  UNCHANGED Abstract!vars
<1>1. \A u, x : x \in Now(u) <=> x \in files[u].ents BY AloneIs DEF AloneHas
<1>2. \A u, x : x \in Now(u)' <=> x \in files[u].ents BY AloneLater DEF AloneHas
<1>3. \A u \in Uuids : Now(u)' = Now(u)
  <2> SUFFICES ASSUME NEW u \in Uuids PROVE Now(u)' = Now(u) OBVIOUS
  <2>1. \A x : x \in Now(u)' <=> x \in Now(u) BY <1>1, <1>2
  <2> QED BY <2>1
<1>4. Flight' = Flight
  <2>1. \A x : x \notin Flight BY AloneIs DEF AloneHas
  <2>2. \A x : x \notin Flight' BY AloneLater DEF AloneHas
  <2> QED BY <2>1, <2>2
<1> QED BY <1>3, <1>4, SameAll

\* The entry of a flushed node is there or gone as before.
LEMMA FlushStutters ==
  ASSUME OneThread, TInv, TInv', Strays, NEW t \in Threads, NEW i \in Inos, FlushAs(t, i)
  PROVE  UNCHANGED Abstract!vars
<1>1. Base /\ Shape /\ pc[t] = "idle" /\ UNCHANGED <<pc, req>>
  BY DEF FlushAs, TInv, IInv
<1>2. PICK o, v : FlushHas(o, v) BY <1>1, FlushKeeps
<1>3. req[t].op = "none" BY <1>1 DEF Base, Staged, StagedAt
<1>4. \A u \in Uuids : Now(u)' = Now(u)
  <2> SUFFICES ASSUME NEW u \in Uuids PROVE Now(u)' = Now(u) OBVIOUS
  <2>1. \A x : x \in Now(u) <=> x \in files[u].ents BY <1>1, AloneIs DEF AloneHas
  <2>2. \A x : x \in Now(u)' <=> x \in files'[u].ents BY <1>1, AloneLater DEF AloneHas
  <2>3. files'[u].ents = files[u].ents BY <1>2 DEF FlushHas
  <2>4. \A x : x \in Now(u)' <=> x \in Now(u) BY <2>1, <2>2, <2>3
  <2> QED BY <2>4
<1>5. Tree' = Tree BY <1>4, SameTree
<1>6. \A x : x \notin Flight BY <1>3, AloneIs DEF AloneHas, Changes
<1>7. \A x : x \notin Flight' BY <1>1, <1>3, AloneLater DEF AloneHas, Changes
<1>8. \A x \in Tree : files'[x.node] = Absent <=> files[x.node] = Absent
  <2> SUFFICES ASSUME NEW x \in Tree PROVE files'[x.node] = Absent <=> files[x.node] = Absent
    OBVIOUS
  <2>1. x.node \in Uuids BY NodesThere
  <2>2. CASE x.node # v BY <1>2, <2>1, <2>2 DEF FlushHas
  <2>3. CASE x.node = v
    <3>1. heap[o].own # None
      <4>1. heap[o].own \in Inos BY <1>1, <1>2, DumpedNode DEF FlushHas
      <4> QED BY <4>1, Small
    <3>2. \A s \in Threads : req[s].op # "create" BY <1>3 DEF OneThread
    <3>3. Stored(v) BY <1>2, <2>3, <3>1, <3>2 DEF Strays, FlushHas
    <3> QED BY <1>2, <2>3, <3>3 DEF FlushHas, Stored
  <2> QED BY <2>2, <2>3
<1>9. Broken' = Broken BY <1>5, <1>6, <1>7, <1>8 DEF Broken, Stored
<1>10. Flight' = Flight BY <1>6, <1>7
<1> QED BY <1>5, <1>9, <1>10 DEF Abstract!vars

LEMMA SaveSuperStutters ==
  ASSUME OneThread, TInv, TInv', NEW t \in Threads, SaveSuperAs(t)
  PROVE  UNCHANGED Abstract!vars
<1>1. /\ UNCHANGED <<files, heap>> /\ req'[t] = req[t]
      /\ pc[t] = "super" /\ pc'[t] = "node"
  BY DEF SaveSuperAs, Goes
<1>2. \A u, x : x \in Now(u) <=> x \in files[u].ents BY <1>1, AloneIs DEF AloneHas
<1>3. \A u, x : x \in Now(u)' <=> x \in files[u].ents BY <1>1, AloneLater DEF AloneHas
<1>4. \A u \in Uuids : Now(u)' = Now(u)
  <2> SUFFICES ASSUME NEW u \in Uuids PROVE Now(u)' = Now(u) OBVIOUS
  <2>1. \A x : x \in Now(u)' <=> x \in Now(u) BY <1>2, <1>3
  <2> QED BY <2>1
<1>5. Flight' = Flight
  <2>1. Item(t)' = Item(t) BY <1>1 DEF Item, EntryIn
  <2>2. \A x : x \in Flight <=> req[t].op \in Changes /\ x = Item(t) BY AloneIs DEF AloneHas
  <2>3. \A x : x \in Flight' <=> req'[t].op \in Changes /\ x = Item(t)'
    BY AloneLater DEF AloneHas, Changes
  <2>4. \A x : x \in Flight' <=> x \in Flight BY <1>1, <2>1, <2>2, <2>3
  <2> QED BY <2>4
<1> QED BY <1>1, <1>4, <1>5, SameAll

\* What a request that changes a directory works on.
ChangeIs(t, p, dir, e) ==
  /\ p = req[t].parent /\ dir = heap[p].uuid /\ e = req[t].ent
  /\ p \in Objs /\ p \in Pointers(imap, req) /\ heap[p].own # None
  /\ dir \in Uuids /\ e \in Dirent /\ e.uuid \in Uuids /\ In(dir, e)
  /\ Stored(dir) /\ heap[p].ents = Now(dir) /\ e.uuid # dir
  /\ Item(t) = EntryIn(dir, e) /\ Is(Item(t), dir, e) /\ Item(t) \in Flight
LEMMA ChangesAre ==
  ASSUME OneThread, TInv, NEW t \in Threads, req[t].op \in Changes,
         NEW p, p = req[t].parent, NEW dir, dir = heap[p].uuid, NEW e, e = req[t].ent
  PROVE  ChangeIs(t, p, dir, e)
<1>1. Base /\ req[t].op \in Works BY DEF TInv, IInv, Changes, Works
<1>2. /\ p \in Objs /\ p \in Pointers(imap, req) /\ heap[p].own \in Inos
      /\ dir \in Uuids /\ e \in Dirent /\ e.uuid \in Uuids
  BY <1>1, InUse
<1>3. heap[p].own # None BY <1>2, Small
<1>4. Stored(dir) BY DEF TInv, IInv, Shape, Requests, RequestAt, ParentAt
<1>5. heap[p].ents = Now(dir) BY <1>2, <1>3, ObjectEnts
<1>6. In(dir, e) /\ Is(Item(t), dir, e) /\ Item(t) = EntryIn(dir, e) BY <1>1, ItemIs DEF Item
<1>7. e.uuid # dir BY <1>2, <1>6 DEF TInv, IInv, Shape, Tidy, NotRoot
<1>8. Item(t) \in Flight BY AloneIs DEF AloneHas
<1> QED BY <1>2, <1>3, <1>4, <1>5, <1>6, <1>7, <1>8 DEF ChangeIs

LEMMA SaveParentStutters ==
  ASSUME OneThread, TInv, TInv', NEW t \in Threads, Steady(t), NEW h, SaveParentAs(t, h)
  PROVE  UNCHANGED Abstract!vars
<1>1. pc[t] = "parent" /\ req[t].op \in Changes /\ req[t].op \in Works /\ Base
  BY DEF SaveParentAs, TInv, IInv, Base, Staged, StagedAt, Changes, Works
<1> DEFINE p == req[t].parent
           dir == heap[p].uuid
           e == req[t].ent
<1>2. ChangeIs(t, p, dir, e) BY <1>1, ChangesAre
<1>3. /\ Store(p) /\ pc'[t] = "super" /\ req'[t].op = req[t].op
      /\ req'[t].parent = p /\ req'[t].ent = e
  BY DEF SaveParentAs, Goes
<1>4. /\ files'[dir] # Absent /\ files'[dir].ents = heap[p].ents
      /\ \A u \in Uuids : u # dir => files'[u] = files[u]
  BY <1>1, <1>2, <1>3, StoreIs DEF ChangeIs
<1>5. \A u \in Uuids : Now(u)' = Now(u)
  <2> SUFFICES ASSUME NEW u \in Uuids PROVE Now(u)' = Now(u) OBVIOUS
  <2>1. \A x : x \in Now(u)' <=> x \in files'[u].ents BY <1>3, AloneLater DEF AloneHas
  <2>2. \A x : x \in Now(u) <=> x \in files[u].ents \/ (dir = u /\ x = e)
    BY <1>1, AloneIs DEF AloneHas
  <2>3. CASE u = dir
    <3>1. files'[u].ents = Now(u) BY <1>2, <1>4, <2>3 DEF ChangeIs
    <3> QED BY <2>1, <3>1
  <2>4. CASE u # dir
    <3>1. \A x : x \in Now(u)' <=> x \in Now(u) BY <1>4, <2>1, <2>2, <2>4
    <3> QED BY <3>1
  <2> QED BY <2>3, <2>4
<1>6. Flight' = Flight
  <2>1. heap'[p].uuid = dir BY <1>1, <1>3, SameParent
  <2>2. Item(t)' = Item(t) BY <1>3, <2>1 DEF Item, EntryIn
  <2>3. \A x : x \in Flight <=> req[t].op \in Changes /\ x = Item(t) BY AloneIs DEF AloneHas
  <2>4. \A x : x \in Flight' <=> req'[t].op \in Changes /\ x = Item(t)'
    BY AloneLater DEF AloneHas, Changes
  <2>5. \A x : x \in Flight' <=> x \in Flight BY <1>3, <2>2, <2>3, <2>4
  <2> QED BY <2>5
<1>7. \A u \in Uuids : files'[u] = Absent <=> files[u] = Absent
  BY <1>2, <1>4 DEF ChangeIs, Stored
<1> QED BY <1>5, <1>6, <1>7, SameAll

\* The end of a request that leaves the tree as it is, and its entry stored or gone.
LEMMA Ends ==
  ASSUME OneThread, TInv, TInv', NEW t \in Threads, req[t].op \in Changes,
         req'[t].op \notin Changes, \A u \in Uuids : Now(u)' = Now(u),
         \A y \in Tree : files'[y.node] = Absent <=> files[y.node] = Absent /\ y # Item(t)
  PROVE  \E x \in Flight : Abstract!End(x)
<1>1. Tree' = Tree BY SameTree
<1>2. \A x : x \in Flight <=> x = Item(t) BY AloneIs DEF AloneHas
<1>3. \A x : x \notin Flight' BY AloneLater DEF AloneHas
<1>4. Broken' = Broken
  <2>1. Broken = {y \in Tree : files[y.node] = Absent /\ y # Item(t)}
    BY <1>2 DEF Broken, Stored
  <2>2. Broken' = {y \in Tree : files'[y.node] = Absent}
    BY <1>1, <1>3 DEF Broken, Stored
  <2> QED BY <2>1, <2>2
<1>5. Flight' = Flight \ {Item(t)} BY <1>2, <1>3
<1> QED BY <1>1, <1>2, <1>4, <1>5 DEF Abstract!End

LEMMA SaveNodeEnds ==
  ASSUME OneThread, TInv, TInv', NEW t \in Threads, SaveNodeAs(t)
  PROVE  \E x \in Flight : Abstract!End(x)
<1>1. /\ pc[t] = "node" /\ req[t].op = "create" /\ req[t].op \in Changes /\ req[t].op \in Works
      /\ Base
  BY DEF SaveNodeAs, TInv, IInv, Base, Staged, StagedAt, Changes, Works
<1> DEFINE p == req[t].parent
           dir == heap[p].uuid
           e == req[t].ent
           n == req[t].node
<1>2. ChangeIs(t, p, dir, e) BY <1>1, ChangesAre
<1>3. Store(n) /\ pc'[t] = "idle" /\ req'[t].op = "none"
  BY DEF SaveNodeAs, Returns, Goes
<1>4. n \in Objs /\ n \in Pointers(imap, req) BY <1>1, InUse
<1>5. heap[n].uuid = e.uuid /\ heap[n].ents = {} /\ ~Stored(e.uuid)
  BY <1>1 DEF TInv, Lone, IInv, Shape, Requests, RequestAt, NewAt
<1>6. /\ files'[e.uuid] # Absent /\ files'[e.uuid].ents = {}
      /\ \A u \in Uuids : u # e.uuid => files'[u] = files[u]
  BY <1>1, <1>2, <1>3, <1>4, <1>5, StoreIs DEF ChangeIs
<1>7. files[e.uuid].ents = {} BY <1>1, <1>2, <1>5, Files DEF ChangeIs, Base
<1>8. \A u \in Uuids : Now(u)' = Now(u)
  <2> SUFFICES ASSUME NEW u \in Uuids PROVE Now(u)' = Now(u) OBVIOUS
  <2>1. \A x : x \in Now(u)' <=> x \in files'[u].ents BY <1>3, AloneLater DEF AloneHas
  <2>2. \A x : x \in Now(u) <=> x \in files[u].ents BY <1>1, AloneIs DEF AloneHas
  <2>3. files'[u].ents = files[u].ents BY <1>6, <1>7
  <2>4. \A x : x \in Now(u)' <=> x \in Now(u) BY <2>1, <2>2, <2>3
  <2> QED BY <2>4
<1>9. \A y \in Tree : files'[y.node] = Absent <=> files[y.node] = Absent /\ y # Item(t)
  <2> SUFFICES ASSUME NEW y \in Tree
               PROVE  files'[y.node] = Absent <=> files[y.node] = Absent /\ y # Item(t)
    OBVIOUS
  <2>1. y.node \in Uuids BY NodesThere
  <2>2. CASE y.node = e.uuid
    <3>1. y = Item(t) BY <1>2, <2>2, OneEntry DEF ChangeIs
    <3> QED BY <1>6, <2>2, <3>1
  <2>3. CASE y.node # e.uuid
    <3>1. y # Item(t) BY <1>2, <2>3 DEF ChangeIs, Is
    <3> QED BY <1>6, <2>1, <2>3, <3>1
  <2> QED BY <2>2, <2>3
<1>10. req'[t].op \notin Changes BY <1>3 DEF Changes
<1> QED BY <1>1, <1>8, <1>9, <1>10, Ends

LEMMA SaveRemovedEnds ==
  ASSUME OneThread, TInv, TInv', NEW t \in Threads, SaveRemovedAs(t)
  PROVE  \E x \in Flight : Abstract!End(x)
<1>1. /\ pc[t] = "unlink" /\ req[t].op = "remove" /\ req[t].op \in Changes /\ req[t].op \in Works
      /\ Base
  BY DEF SaveRemovedAs, TInv, IInv, Base, Staged, StagedAt, Changes, Works
<1> DEFINE p == req[t].parent
           dir == heap[p].uuid
           e == req[t].ent
<1>2. ChangeIs(t, p, dir, e) BY <1>1, ChangesAre
<1>3. Store(p) /\ pc'[t] = "idle" /\ req'[t].op = "none"
  BY DEF SaveRemovedAs, Returns, Goes
<1>4. /\ files'[dir] # Absent /\ files'[dir].ents = heap[p].ents
      /\ \A u \in Uuids : u # dir => files'[u] = files[u]
  BY <1>1, <1>2, <1>3, StoreIs DEF ChangeIs
<1>5. \A u, x : x \in Now(u) <=> x \in files[u].ents /\ x # e
  BY <1>1, AloneIs DEF AloneHas
<1>6. \A u \in Uuids : Now(u)' = Now(u)
  <2> SUFFICES ASSUME NEW u \in Uuids PROVE Now(u)' = Now(u) OBVIOUS
  <2>1. \A x : x \in Now(u)' <=> x \in files'[u].ents BY <1>3, AloneLater DEF AloneHas
  <2>2. CASE u = dir
    <3>1. files'[u].ents = Now(u) BY <1>2, <1>4, <2>2 DEF ChangeIs
    <3> QED BY <2>1, <3>1
  <2>3. CASE u # dir
    <3>1. e \notin files[u].ents
      <4>1. e \in files[u].ents => In(u, e) BY DEF In
      <4> QED BY <1>2, <2>3, <4>1 DEF ChangeIs, TInv, IInv, Shape, Tidy, OneHome
    <3>2. \A x : x \in Now(u)' <=> x \in Now(u) BY <1>4, <1>5, <2>1, <2>3, <3>1
    <3> QED BY <3>2
  <2> QED BY <2>2, <2>3
<1>7. \A y \in Tree : files'[y.node] = Absent <=> files[y.node] = Absent /\ y # Item(t)
  <2> SUFFICES ASSUME NEW y \in Tree
               PROVE  files'[y.node] = Absent <=> files[y.node] = Absent /\ y # Item(t)
    OBVIOUS
  <2>1. y.node \in Uuids BY NodesThere
  <2>2. y # Item(t)
    <3> SUFFICES ASSUME y = Item(t) PROVE FALSE OBVIOUS
    <3>1. y.node = e.uuid BY <1>2 DEF ChangeIs, Is
    <3>2. e \in Now(dir) BY <1>2, <3>1, OneEntry DEF ChangeIs
    <3> QED BY <1>5, <3>2
  <2>3. files'[y.node] = Absent <=> files[y.node] = Absent
    BY <1>2, <1>4, <2>1 DEF ChangeIs, Stored
  <2> QED BY <2>2, <2>3
<1>8. req'[t].op \notin Changes BY <1>3 DEF Changes
<1> QED BY <1>1, <1>6, <1>7, <1>8, Ends

LEMMA RemoveBegins ==
  ASSUME OneThread, TInv, TInv', NEW t \in Threads, NEW i \in Inos, NEW e, RemoveAs(t, i, e)
  PROVE  \E x \in Tree : Abstract!BeginRemove(x)
<1> DEFINE p == imap[i]
           dir == heap[p].uuid
           x == EntryIn(dir, e)
<1>1. /\ pc[t] = "idle" /\ p \in Objs /\ p \in Pointers(imap, req)
      /\ e \in Dirent /\ e \in heap[p].ents
      /\ Stored(e.uuid) /\ files[e.uuid].ents = {}
      /\ pc'[t] = "unstore" /\ req'[t].op = "remove" /\ req'[t].op \in Changes
      /\ req'[t].parent = p /\ req'[t].ent = e /\ UNCHANGED <<files, heap>>
  BY DEF RemoveAs, Goes, Changes
<1>2. Base /\ req[t].op \notin Changes
  BY <1>1 DEF TInv, IInv, Base, Staged, StagedAt, Changes
<1>3. heap[p].own # None /\ dir \in Uuids
  <2>1. p # None BY <1>1, Small
  <2>2. heap[p].own # None BY <1>1, <1>2, <2>1 DEF Base, Held
  <2> QED BY <1>1, <2>2, ObjectIs
<1>4. heap[p].ents = Now(dir) BY <1>1, <1>3, ObjectEnts
<1>5. \A u, y : y \in Now(u) <=> y \in files[u].ents BY <1>1, AloneIs DEF AloneHas
<1>6. \A u, y : y \in Now(u)' <=> y \in files[u].ents BY <1>1, AloneLater DEF AloneHas
<1>7. Tree' = Tree
  <2>1. \A u \in Uuids : Now(u)' = Now(u)
    <3> SUFFICES ASSUME NEW u \in Uuids PROVE Now(u)' = Now(u) OBVIOUS
    <3>1. \A y : y \in Now(u)' <=> y \in Now(u) BY <1>5, <1>6
    <3> QED BY <3>1
  <2> QED BY <2>1, SameTree
<1>8. x \in Tree BY <1>1, <1>3, <1>4, TreeOf DEF TreeHas
<1>9. x.node = e.uuid /\ x.dir = dir BY ShownIs
<1>10. x \notin Broken BY <1>1, <1>9 DEF Broken
<1>11. \A y : y \notin Flight BY <1>2, AloneIs DEF AloneHas
<1>12. Item(t)' = x BY <1>1 DEF Item, EntryIn
<1>13. \A y : y \in Flight' <=> y = x BY <1>1, <1>12, AloneLater DEF AloneHas, Changes
<1>14. Flight' = Flight \cup {x} BY <1>11, <1>13
<1>15. Broken' = Broken
  <2>1. Broken = {y \in Tree : files[y.node] = Absent} BY <1>11 DEF Broken, Stored
  <2>2. Broken' = {y \in Tree : files[y.node] = Absent /\ y # x}
    BY <1>1, <1>7, <1>13 DEF Broken, Stored
  <2>3. files[x.node] # Absent BY <1>1, <1>9 DEF Stored
  <2> QED BY <2>1, <2>2, <2>3
<1>16. \A y \in Tree : y.dir # e.uuid
  <2> SUFFICES ASSUME NEW y \in Tree, y.dir = e.uuid PROVE FALSE OBVIOUS
  <2>1. PICK u \in Uuids : \E d \in Now(u) : Is(y, u, d) BY TreeOf DEF TreeHas
  <2>2. PICK d \in Now(u) : Is(y, u, d) BY <2>1
  <2>3. u = e.uuid BY <2>2 DEF Is
  <2> QED BY <1>1, <1>5, <2>2, <2>3
<1> HIDE DEF x
<1>17. Abstract!IsEmpty(x.node) BY <1>9, <1>16 DEF Abstract!IsEmpty
<1> QED BY <1>7, <1>8, <1>10, <1>14, <1>15, <1>17 DEF Abstract!BeginRemove

LEMMA RemoveNodeRemoves ==
  ASSUME OneThread, TInv, TInv', NEW t \in Threads, Steady(t), NEW h, RemoveNodeAs(t, h)
  PROVE  \E x \in Tree : Abstract!Remove(x)
<1>1. /\ pc[t] = "unstore" /\ req[t].op = "remove" /\ req[t].op \in Changes /\ req[t].op \in Works
      /\ Base
  BY DEF RemoveNodeAs, TInv, IInv, Base, Staged, StagedAt, Changes, Works
<1> DEFINE p == req[t].parent
           dir == heap[p].uuid
           e == req[t].ent
           x == EntryIn(dir, e)
<1>2. ChangeIs(t, p, dir, e) BY <1>1, ChangesAre
<1>3. pc'[t] = "unlink" /\ req'[t] = req[t]
  BY DEF RemoveNodeAs, Goes
<1>4. \A u \in Uuids : files'[u] = IF u = e.uuid THEN Absent ELSE files[u]
  BY <1>1 DEF RemoveNodeAs, Base, Typed
<1>5. files[e.uuid].ents = {} /\ e \in files[dir].ents
  BY <1>1 DEF TInv, Tied, TiedAt, IInv, Shape, Requests, RequestAt, RemovedAt
<1>6. \A u, y : y \in Now(u) <=> y \in files[u].ents BY <1>1, AloneIs DEF AloneHas
<1>7. \A u \in Uuids : \A y : y \in Now(u)' <=> y \in Now(u) /\ y # e
  <2> SUFFICES ASSUME NEW u \in Uuids, NEW y PROVE y \in Now(u)' <=> y \in Now(u) /\ y # e
    OBVIOUS
  <2>1. y \in Now(u)' <=> y \in files'[u].ents /\ y # e BY <1>3, AloneLater DEF AloneHas
  <2>2. files'[u].ents = files[u].ents
    <3>1. Absent.ents = {} BY DEF Absent
    <3>2. CASE u = e.uuid
      <4>1. files'[u] = Absent BY <1>4, <3>2
      <4> QED BY <1>5, <3>1, <3>2, <4>1
    <3>3. CASE u # e.uuid
      <4>1. files'[u] = files[u] BY <1>4, <3>3
      <4> QED BY <4>1
    <3> QED BY <3>2, <3>3
  <2> QED BY <1>6, <2>1, <2>2
<1>8. x \in Tree
  <2>1. e \in Now(dir) BY <1>5, <1>6
  <2> QED BY <1>2, <2>1, TreeOf DEF TreeHas, ChangeIs
<1>9. x = Item(t) /\ x.node = e.uuid BY <1>2 DEF ChangeIs, Is
<1> HIDE DEF x
<1>10. \A y \in Tree : y.node = e.uuid => y = x
  BY <1>2, <1>9, OneEntry DEF ChangeIs
<1>11. Tree' = Tree \ {x}
  <2>1. ASSUME NEW y \in Tree' PROVE y \in Tree \ {x}
    <3>1. PICK u \in Uuids : \E d \in Now(u)' : Is(y, u, d) BY TreeLater DEF TreeHas, Is
    <3>2. PICK d \in Now(u)' : Is(y, u, d) BY <3>1
    <3>3. d \in Now(u) /\ d # e BY <1>7, <3>1, <3>2
    <3>4. y \in Tree BY <3>1, <3>2, <3>3, TreeOf DEF TreeHas, Is
    <3>5. y # x
      <4> SUFFICES ASSUME y = x PROVE FALSE OBVIOUS
      <4>1. d.uuid = e.uuid BY <1>9, <3>2 DEF Is
      <4>2. d \in Dirent /\ In(u, d) BY <1>1, <3>1, <3>3, NowIn
      <4> QED BY <1>2, <3>1, <3>3, <4>1, <4>2 DEF ChangeIs, TInv, IInv, Shape, Tidy, OneHome
    <3> QED BY <3>4, <3>5
  <2>2. ASSUME NEW y \in Tree, y # x PROVE y \in Tree'
    <3>1. PICK u \in Uuids : \E d \in Now(u) : Is(y, u, d) BY TreeOf DEF TreeHas
    <3>2. PICK d \in Now(u) : Is(y, u, d) BY <3>1
    <3>3. d # e BY <1>9, <1>10, <2>2, <3>2 DEF Is
    <3>4. d \in Now(u)' BY <1>7, <3>1, <3>2, <3>3
    <3> QED BY <3>1, <3>2, <3>4, TreeLater DEF TreeHas, Is, EntryIn
  <2> QED BY <2>1, <2>2
<1>12. Flight' = Flight
  <2>1. heap'[p].uuid = dir BY <1>1, <1>3, SameParent
  <2>2. Item(t)' = Item(t) BY <1>3, <2>1 DEF Item, EntryIn
  <2>3. \A y : y \in Flight <=> req[t].op \in Changes /\ y = Item(t) BY AloneIs DEF AloneHas
  <2>4. \A y : y \in Flight' <=> req'[t].op \in Changes /\ y = Item(t)'
    BY AloneLater DEF AloneHas, Changes
  <2>5. \A y : y \in Flight' <=> y \in Flight BY <1>3, <2>2, <2>3, <2>4
  <2> QED BY <2>5
<1>13. x \in Flight BY <1>2, <1>9 DEF ChangeIs
<1>14. Broken' = Broken
  <2>1. \A y \in Tree : y # x => (files'[y.node] = Absent <=> files[y.node] = Absent)
    BY <1>4, <1>10, NodesThere
  <2> QED BY <1>11, <1>12, <1>13, <2>1 DEF Broken, Stored
<1>15. Abstract!IsEmpty(x.node)
  <2> SUFFICES ASSUME NEW y \in Tree, y.dir = e.uuid PROVE FALSE
    BY <1>9 DEF Abstract!IsEmpty
  <2>1. PICK u \in Uuids : \E d \in Now(u) : Is(y, u, d) BY TreeOf DEF TreeHas
  <2>2. PICK d \in Now(u) : Is(y, u, d) BY <2>1
  <2>3. u = e.uuid BY <2>2 DEF Is
  <2> QED BY <1>5, <1>6, <2>2, <2>3
<1> QED BY <1>8, <1>11, <1>12, <1>13, <1>14, <1>15 DEF Abstract!Remove

LEMMA CreateCreates ==
  ASSUME OneThread, TInv, TInv', Strays, NEW t \in Threads, Steady(t), NEW i \in Inos,
         NEW name, NEW e, NEW n, NEW h, CreateAs(t, i, name, e, n, h)
  PROVE  \E x \in Tree' \ Tree : x \in Abstract!Entry /\ Abstract!Create(x)
<1> PICK p : p = imap[i] OBVIOUS
<1> PICK dir : dir = heap[p].uuid OBVIOUS
<1> DEFINE x == EntryIn(dir, e)
<1>1. /\ pc[t] = "idle" /\ p \in Objs /\ p \in Pointers(imap, req) /\ e \in Dirent
      /\ \A d \in heap[p].ents : d.name # e.name
      /\ heap[p].kind = "dir" /\ Stored(dir)
      /\ pc'[t] = "parent" /\ req'[t].op = "create" /\ req'[t].op \in Changes
      /\ req'[t].parent = p /\ req'[t].ent = e /\ UNCHANGED <<files, imap>>
  BY DEF CreateAs, Changes, Enters, Stored
<1>2. Base /\ Base' /\ Tidy /\ req[t].op \notin Changes
  BY <1>1 DEF TInv, IInv, Base, Staged, StagedAt, Changes, Shape
<1>3. heap[p].own # None /\ dir \in Uuids
  <2>1. p # None BY <1>1, Small
  <2>2. heap[p].own # None BY <1>1, <1>2, <2>1 DEF Base, Held
  <2> QED BY <1>1, <2>2, ObjectIs
<1>4. heap[p].ents = Now(dir) BY <1>1, <1>3, ObjectEnts
<1>5. heap'[p].uuid = dir
  <2>1. p = imap'[i] BY <1>1
  <2>2. p \in Pointers(imap', req')
    <3>1. Typed' BY <1>2 DEF Base
    <3> QED BY <1>1 DEF Pointers
  <2> QED BY <1>1, <2>2 DEF Steady
<1>6. Item(t)' = x BY <1>1, <1>5 DEF Item, EntryIn
<1>7. \A u, y : y \in Now(u) <=> y \in files[u].ents BY <1>1, AloneIs DEF AloneHas
<1>8. \A u, y : y \in Now(u)' <=> y \in Now(u) \/ (u = dir /\ y = e)
  <2>1. \A u, y : y \in Now(u)' <=> y \in files[u].ents \/ (heap'[p].uuid = u /\ y = e)
    BY <1>1, AloneLater DEF AloneHas
  <2> QED BY <1>5, <1>7, <2>1
<1>9. \A u \in Uuids, d \in Dirent : In(u, d) => d.uuid # e.uuid BY <1>2, CreateTidy
<1>10. Is(x, dir, e) BY ShownIs DEF Is
<1> HIDE DEF x
<1>11. \A y \in Tree : y.node # x.node
  <2> SUFFICES ASSUME NEW y \in Tree PROVE y.node # e.uuid BY <1>10 DEF Is
  <2>1. PICK u \in Uuids : \E d \in Now(u) : Is(y, u, d) BY TreeOf DEF TreeHas
  <2>2. PICK d \in Now(u) : Is(y, u, d) BY <2>1
  <2> QED BY <1>2, <1>9, <2>1, <2>2, NowIn DEF Is
<1>12. x \notin Tree BY <1>11
<1>13. Tree' = Tree \cup {x}
  <2>1. ASSUME NEW y \in Tree' PROVE y \in Tree \cup {x}
    <3>1. PICK u \in Uuids : \E d \in Now(u)' : Is(y, u, d) BY TreeLater DEF TreeHas, Is
    <3>2. PICK d \in Now(u)' : Is(y, u, d) BY <3>1
    <3>3. CASE d \in Now(u) BY <3>1, <3>2, <3>3, TreeOf DEF TreeHas, Is
    <3>4. CASE u = dir /\ d = e BY <1>10, <3>2, <3>4 DEF Is
    <3> QED BY <1>8, <3>2, <3>3, <3>4
  <2>2. ASSUME NEW y \in Tree PROVE y \in Tree'
    <3>1. PICK u \in Uuids : \E d \in Now(u) : Is(y, u, d) BY TreeOf DEF TreeHas
    <3>2. PICK d \in Now(u) : Is(y, u, d) BY <3>1
    <3>3. d \in Now(u)' BY <1>8, <3>2
    <3> QED BY <3>1, <3>2, <3>3, TreeLater DEF TreeHas, Is, EntryIn
  <2>3. x \in Tree'
    <3>1. e \in Now(dir)' BY <1>8
    <3> QED BY <1>3, <1>10, <3>1, TreeLater DEF TreeHas, Is, EntryIn
  <2> QED BY <2>1, <2>2, <2>3
<1>14. \A y : y \notin Flight BY <1>2, AloneIs DEF AloneHas
<1>15. \A y : y \in Flight' <=> y = x BY <1>1, <1>6, AloneLater DEF AloneHas, Changes
<1>16. Flight' = Flight \cup {x} BY <1>14, <1>15
<1>17. Broken' = Broken
  <2>1. Broken = {y \in Tree : files[y.node] = Absent} BY <1>14 DEF Broken, Stored
  <2>2. Broken' = {y \in Tree : files[y.node] = Absent}
    BY <1>1, <1>12, <1>13, <1>15 DEF Broken, Stored
  <2> QED BY <2>1, <2>2
<1>18. \A y \in Tree : y.dir = dir => y.name # e.name
  <2> SUFFICES ASSUME NEW y \in Tree, y.dir = dir PROVE y.name # e.name OBVIOUS
  <2>1. PICK u \in Uuids : \E d \in Now(u) : Is(y, u, d) BY TreeOf DEF TreeHas
  <2>2. PICK d \in Now(u) : Is(y, u, d) BY <2>1
  <2>3. u = dir BY <2>2 DEF Is
  <2> QED BY <1>1, <1>4, <2>2, <2>3 DEF Is
<1>19. dir = Root \/ \E y \in Tree \ Broken : y.node = dir /\ y.kind = "dir"
  <2> SUFFICES ASSUME dir # Root
               PROVE  \E y \in Tree \ Broken : y.node = dir /\ y.kind = "dir"
    OBVIOUS
  <2>1. NoOrphan BY DEF TInv, Lone, IInv, Contents, Linked, Unsafe
  <2>9. dir \notin orphans
    <3>1. Kin("dir", dir) BY <1>1, <1>3 DEF Kin
    <3> QED BY <1>2, <1>3, <3>1 DEF Strays, Tidy, OneKind, Kinds, Kin, Stored
  <2>2. PICK d \in Dirents : d.uuid = dir BY <1>1, <1>3, <2>1, <2>9 DEF NoOrphan
  <2>3. PICK u \in Uuids : d \in files[u].ents BY DirentsAre
  <2>4. d \in Now(u) /\ d \in Dirent /\ In(u, d) BY <1>2, <1>7, <2>3, NowIn
  <2>5. EntryIn(u, d) \in Tree BY <2>3, <2>4, TreeOf DEF TreeHas
  <2>6. Is(EntryIn(u, d), u, d) BY ShownIs DEF Is
  <2>7. EntryIn(u, d) \notin Broken BY <1>1, <2>2, <2>6 DEF Broken, Is
  <2>8. d.kind = "dir"
    <3>1. Kin("dir", dir) BY <1>1, <1>3 DEF Kin
    <3>2. "dir" \in Kinds BY DEF Kinds
    <3> QED BY <2>2, <2>3, <2>4, <3>1, <3>2 DEF TInv, KindOfEntry
  <2> QED BY <2>2, <2>5, <2>6, <2>7, <2>8 DEF Is
<1>20. x \in Abstract!Entry
  <2>1. e.uuid \in Uuids /\ e.uuid # Root
    <3>1. e.uuid \notin UsedUuids BY DEF CreateAs
    <3>2. Root \in UsedUuids BY <1>2, Small DEF UsedUuids, Tidy, Stored
    <3> QED BY <1>1, <3>1, <3>2 DEF Dirent
  <2>2. x = [dir |-> dir, name |-> e.name, node |-> e.uuid, kind |-> e.kind]
    BY DEF x, EntryIn
  <2>3. e.name \in Names \cup {Sub} /\ e.kind \in Kinds BY <1>1 DEF Dirent
  <2> QED BY <1>3, <2>1, <2>2, <2>3 DEF Abstract!Entry
<1>21. Abstract!IsDir(x.dir) BY <1>10, <1>19 DEF Abstract!IsDir, Is
<1>22. \A y \in Tree : y.dir = x.dir => y.name # x.name BY <1>10, <1>18 DEF Is
<1>23. Abstract!Create(x)
  BY <1>11, <1>13, <1>16, <1>17, <1>21, <1>22 DEF Abstract!Create
<1> QED BY <1>12, <1>13, <1>20, <1>23

LEMMA CrashCrashes ==
  ASSUME OneThread, TInv, TInv', Crash
  PROVE  Abstract!Crash
<1>1. /\ UNCHANGED files /\ pc' = [t \in Threads |-> "idle"]
      /\ req' = [t \in Threads |-> NoReq]
  BY DEF Crash, storage
<1>2. \A u, y : y \in Now(u)' <=> y \in files[u].ents
  BY <1>1, NowLater DEF NowHas, Saving, Unlinking
<1>3. \A y : y \notin Flight'
  BY <1>1, FlightLater DEF FlightHas, Changes, NoReq
<1>4. Flight' = {} BY <1>3
<1>5. Base /\ Typed BY DEF TInv, IInv, Base
<1>6. ASSUME NEW y \in Tree \ Flight PROVE y \in Tree'
  <2>1. PICK u \in Uuids : \E d \in Now(u) : Is(y, u, d) BY TreeOf DEF TreeHas
  <2>2. PICK d \in Now(u) : Is(y, u, d) BY <2>1
  <2>3. d \in files[u].ents
    <3> SUFFICES ASSUME NEW t \in Saving, heap[req[t].parent].uuid = u, d = req[t].ent
                 PROVE  FALSE
      BY <2>2, NowIs DEF NowHas
    <3>1. t \in Threads /\ req[t].op \in Changes
      BY <1>5 DEF Saving, Base, Staged, StagedAt, Changes
    <3>2. y = Item(t) BY <2>2 DEF Is, Item
    <3> QED BY <1>6, <3>1, <3>2, FlightIs DEF FlightHas
  <2> QED BY <1>2, <2>2, <2>3, TreeLater DEF TreeHas, Is, EntryIn
<1>7. ASSUME NEW y \in Tree', y \notin Tree PROVE y \in Flight
  <2>1. PICK u \in Uuids : \E d \in Now(u)' : Is(y, u, d) BY TreeLater DEF TreeHas, Is
  <2>2. PICK d \in Now(u)' : Is(y, u, d) BY <2>1
  <2>3. d \in files[u].ents BY <1>2, <2>2
  <2>4. d \notin Now(u) BY <1>7, <2>2, TreeOf DEF TreeHas, Is
  <2>5. PICK t \in Unlinking : d = req[t].ent BY <2>3, <2>4, NowIs DEF NowHas
  <2>6. t \in Threads /\ req[t].op \in Changes /\ req[t].op \in Works
    BY <1>5, <2>5 DEF Unlinking, Base, Staged, StagedAt, Changes, Works
  <2>7. In(u, d) BY <1>5, <2>3, InOwns
  <2>8. u = heap[req[t].parent].uuid
    BY <2>5, <2>6, <2>7, ItemIs DEF TInv, IInv, Shape, Tidy, OneHome
  <2>9. y = Item(t) BY <2>2, <2>5, <2>8 DEF Is, Item
  <2> QED BY <2>6, <2>9, FlightIs DEF FlightHas
<1> DEFINE kept == Flight \cap Tree'
           damaged == {y \in kept : files[y.node] = Absent}
<1>8. Tree' = (Tree \ Flight) \cup kept BY <1>6, <1>7
<1>9. Broken' = Broken \cup damaged
  <2>1. Broken' = {y \in Tree' : files[y.node] = Absent} BY <1>1, <1>4 DEF Broken, Stored
  <2>2. Broken = {y \in Tree \ Flight : files[y.node] = Absent} BY DEF Broken, Stored
  <2> HIDE DEF kept
  <2> QED BY <1>8, <2>1, <2>2
<1>10. kept \in SUBSET Flight /\ damaged \in SUBSET kept OBVIOUS
<1> HIDE DEF kept, damaged
<1> QED BY <1>4, <1>8, <1>9, <1>10 DEF Abstract!Crash

\* What a step of the thread is to the tree.
Creates(t) == \E i \in Inos : \E name, e, n, h : CreateAs(t, i, name, e, n, h)
LEMMA StepMeans ==
  ASSUME OneThread, TInv, TInv', Strays, NEW t \in Threads, Step(t) \/ Request(t)
  PROVE  \/ UNCHANGED Abstract!vars
         \/ \E x \in Tree : Abstract!BeginRemove(x) \/ Abstract!Remove(x)
         \/ \E x \in Flight : Abstract!End(x)
         \/ Creates(t) /\ \E x \in Tree' \ Tree : x \in Abstract!Entry /\ Abstract!Create(x)
<1>1. Base /\ Steady(t) /\ Did(t) BY StepIs DEF TInv, IInv
<1>2. ASSUME UNCHANGED files, pc[t] \in {"idle", "load", "found", "count", "forget", "drop"},
             pc'[t] \in {"idle", "load", "found", "count", "forget", "drop"}
      PROVE  UNCHANGED Abstract!vars
  <2>1. req[t].op \notin Changes
    BY <1>1, <1>2 DEF Base, Staged, StagedAt, Changes
  <2>2. Base' BY DEF TInv, IInv
  <2>3. req'[t].op \notin Changes
    BY <1>2, <2>2 DEF Base, Staged, StagedAt, Changes
  <2> QED BY <1>2, <2>1, <2>3, QuietStutters
<1> DEFINE Done ==
      \/ UNCHANGED Abstract!vars
      \/ \E x \in Tree : Abstract!BeginRemove(x) \/ Abstract!Remove(x)
      \/ \E x \in Flight : Abstract!End(x)
      \/ Creates(t) /\ \E x \in Tree' \ Tree : x \in Abstract!Entry /\ Abstract!Create(x)
<1>3. UNCHANGED Abstract!vars => Done OBVIOUS
<1>4. Creates(t) /\ (\E x \in Tree' \ Tree : x \in Abstract!Entry /\ Abstract!Create(x)) => Done
  OBVIOUS
<1>5. (\E x \in Tree : Abstract!BeginRemove(x)) \/ (\E x \in Tree : Abstract!Remove(x)) => Done
  OBVIOUS
<1>6. (\E x \in Flight : Abstract!End(x)) => Done OBVIOUS
<1> SUFFICES Done OBVIOUS
<1> HIDE DEF Done
<1>7. ASSUME NEW i \in Inos, NEW e, LookupAs(t, i, e) PROVE Done
  BY <1>2, <1>3, <1>7 DEF LookupAs, Goes
<1>8. ASSUME NEW i \in Inos, BeginForgetAs(t, i) PROVE Done
  BY <1>2, <1>3, <1>8 DEF BeginForgetAs, Goes
<1>9. ASSUME NEW i \in Inos, NEW e, RemoveAs(t, i, e) PROVE Done
  BY <1>5, <1>9, RemoveBegins
<1>10. ASSUME NEW i \in Inos, NEW name, NEW e, NEW n, NEW h, CreateAs(t, i, name, e, n, h)
       PROVE  Done
  <2>1. Creates(t) BY <1>10 DEF Creates
  <2> QED BY <1>1, <1>4, <1>10, <2>1, CreateCreates
<1>11. CASE LoadFails(t) \/ FoundFails(t) \/ ForgetNone(t) \/ DropGone(t)
  BY <1>2, <1>3, <1>11 DEF LoadFails, FoundFails, ForgetNone, DropGone, Returns, Goes
<1>12. ASSUME NEW n, NEW h, LoadAs(t, n, h) PROVE Done
  BY <1>2, <1>3, <1>12 DEF LoadAs, Goes
<1>13. ASSUME NEW h, CountAs(t, h) \/ DropAs(t, h) PROVE Done
  BY <1>2, <1>3, <1>13 DEF CountAs, DropAs, Returns, Goes
<1>20. CASE FoundAs(t) \/ ForgetAs(t)
  BY <1>2, <1>3, <1>20 DEF FoundAs, ForgetAs, Goes
<1>21. ASSUME NEW i \in Inos, FlushAs(t, i) PROVE Done BY <1>3, <1>21, FlushStutters
<1>14. ASSUME NEW h, SaveParentAs(t, h) PROVE Done
  BY <1>1, <1>3, <1>14, SaveParentStutters
<1>15. CASE SaveSuperAs(t) BY <1>3, <1>15, SaveSuperStutters
<1>16. CASE SaveNodeAs(t) BY <1>6, <1>16, SaveNodeEnds
<1>17. CASE SaveRemovedAs(t) BY <1>6, <1>17, SaveRemovedEnds
<1>18. ~RemoveNodeFails(t)
  BY DEF RemoveNodeFails, TInv, IInv, Shape, Requests, RequestAt, RemovedAt
<1>19. ASSUME NEW h, RemoveNodeAs(t, h) PROVE Done
  BY <1>1, <1>5, <1>19, RemoveNodeRemoves
<1> QED
  BY <1>1, <1>7, <1>8, <1>9, <1>10, <1>11, <1>12, <1>13, <1>14, <1>15, <1>16, <1>17, <1>18,
     <1>19, <1>20, <1>21
  DEF Did

-----------------------------------------------------------------------------
(* Strays have no entry.                                                   *)

\* Objects that keep their uuids, and files that stay.
LEMMA UnstoredStays ==
  ASSUME OneThread, TInv, TInv', Strays, NEW t \in Threads, NEW h, Tame(h), Tree' \subseteq Tree,
         \A u \in Uuids : Stored(u) => files'[u] # Absent \/ \A x \in Tree' : x.node # u,
         req[t].op = "create" =>
           \/ req'[t].op = "create" /\ req'[t].node = req[t].node
           \/ files'[heap[req[t].node].uuid] # Absent,
         \A u \in orphans' :
           files'[u] # Absent /\ files'[u].kind = "reg" /\ \A x \in Tree' \cup Flight' : x.node # u
  PROVE  Strays'
<1> SUFFICES ASSUME NEW o \in Objs, heap'[o].own # None, files'[heap'[o].uuid] = Absent
             PROVE  \/ \E s \in Threads : req'[s].op = "create" /\ req'[s].node = o
                    \/ \A x \in Tree' : x.node # heap'[o].uuid
  BY DEF Strays, Stored
<1>1. heap'[o] = h[o] BY DEF Tame, Becomes, Free
<1>2. ASSUME NEW u \in Uuids, Stored(u), files'[u] = files[u], h[o] = Loaded(u) PROVE FALSE
  BY <1>1, <1>2 DEF Loaded, Stored
<1>3. heap[o].own # None /\ heap'[o].uuid = heap[o].uuid BY <1>1, <1>2 DEF Tame
<1>4. heap[o].uuid \in Uuids BY <1>3, ObjectIs
<1>5. CASE Stored(heap[o].uuid) BY <1>3, <1>4, <1>5
<1>6. CASE ~Stored(heap[o].uuid)
  <2>1. CASE \A x \in Tree : x.node # heap[o].uuid BY <1>3, <2>1
  <2>2. ASSUME NEW s \in Threads, req[s].op = "create", req[s].node = o
        PROVE  req'[s].op = "create" /\ req'[s].node = o
    <3>1. s = t BY DEF OneThread
    <3> QED BY <1>3, <2>2, <3>1
  <2> QED BY <1>3, <1>6, <2>1, <2>2 DEF Strays
<1> QED BY <1>5, <1>6

\* Files that a flush stored after an unlink.
LEMMA OrphansStay ==
  ASSUME TInv, TInv', Strays, Shrinks, UNCHANGED orphans, Tree' \subseteq Tree,
         Flight' \subseteq Tree \cup Flight,
         \A u \in orphans : Stored(u) => files'[u] # Absent
  PROVE  \A u \in orphans' :
           files'[u] # Absent /\ files'[u].kind = "reg" /\ \A x \in Tree' \cup Flight' : x.node # u
<1> SUFFICES ASSUME NEW u \in orphans
             PROVE  /\ files'[u] # Absent /\ files'[u].kind = "reg"
                    /\ \A x \in Tree' \cup Flight' : x.node # u
  OBVIOUS
<1>1. Stored(u) /\ files[u].kind = "reg" /\ \A x \in Tree \cup Flight : x.node # u
  BY DEF Strays
<1>2. u \in Uuids /\ Base /\ Base' BY DEF TInv, IInv, Base, Typed
<1>3. files'[u] # Absent BY <1>1
<1>4. files'[u].kind \in Kinds
  <2>1. files'[u] \in Node BY <1>2 DEF Base, Typed
  <2> QED BY <1>3, <2>1 DEF Node
<1> PICK k : k = files'[u].kind OBVIOUS
<1>5. Kin(k, u)' BY <1>3 DEF Kin, Stored
<1>6. Kin(k, u) BY <1>2, <1>4, <1>5 DEF Shrinks
<1>7. Kin("reg", u) BY <1>1 DEF Kin
<1>8. files'[u].kind = "reg"
  BY <1>2, <1>4, <1>6, <1>7 DEF TInv, IInv, Shape, Tidy, OneKind, Kinds
<1> QED BY <1>1, <1>3, <1>8

\* A node just created has the only entry that is new.
LEMMA CreateStrays ==
  ASSUME OneThread, TInv, TInv', Strays, NEW t \in Threads, Steady(t), NEW i \in Inos,
         NEW name, NEW e, NEW n, NEW h, CreateAs(t, i, name, e, n, h)
  PROVE  Strays'
<1>1. PICK x \in Tree' \ Tree : Abstract!Create(x) BY CreateCreates
<1>2. Tree' = Tree \cup {x} /\ Flight' = Flight \cup {x} BY <1>1 DEF Abstract!Create
<1>3. /\ req'[t].op = "create" /\ req'[t].ent = e /\ req'[t].node = n
      /\ e \in Dirent /\ e.uuid \notin UsedUuids /\ UNCHANGED <<files, orphans>> /\ Becomes(h)
      /\ h[n] = Made(e) /\ imap[i] \in Objs /\ imap[i] \in Pointers(imap, req)
      /\ h[imap[i]] = [heap[imap[i]] EXCEPT !.ents = @ \cup {e}]
      /\ \A o \in Objs \ {n, imap[i]} : h[o] = heap[o]
  BY DEF CreateAs
<1>4. x.node = e.uuid
  <2>1. x = Item(t)'
    BY <1>2, <1>3, AloneLater DEF AloneHas
  <2>2. Item(t)' = EntryIn(heap'[req'[t].parent].uuid, e) BY <1>3 DEF Item, EntryIn
  <2> QED BY <2>1, <2>2, ShownIs
<1>5. /\ e.uuid \in Uuids /\ ~Stored(e.uuid) /\ \A o \in Objs : heap[o].uuid # e.uuid
  BY <1>3 DEF UsedUuids, Stored, Dirent
<1>6. ASSUME NEW o \in Objs, heap'[o].own # None, files'[heap'[o].uuid] = Absent
      PROVE  \/ \E s \in Threads : req'[s].op = "create" /\ req'[s].node = o
             \/ \A y \in Tree' : y.node # heap'[o].uuid
  <2>1. heap'[o] = h[o] BY <1>3, <1>6 DEF Becomes, Free
  <2>2. CASE o = n BY <1>3, <2>2
  <2>3. CASE o # n
    <3>1. heap[o].own # None /\ heap'[o].uuid = heap[o].uuid
      <4>1. heap[o] \in Slot BY DEF TInv, IInv, Base, Typed
      <4>2. CASE o = imap[i] BY <1>3, <1>6, <2>1, <4>1, <4>2 DEF Slot
      <4>3. CASE o # imap[i] BY <1>3, <1>6, <2>1, <2>3, <4>3
      <4> QED BY <4>2, <4>3
    <3>2. \A s \in Threads : req[s].op # "create"
      <4>1. pc[t] = "idle" BY DEF CreateAs
      <4>2. req[t].op = "none" BY <4>1 DEF TInv, IInv, Base, Staged, StagedAt
      <4> QED BY <4>2 DEF OneThread
    <3>3. \A y \in Tree : y.node # heap[o].uuid
      BY <1>3, <1>6, <3>1, <3>2 DEF Strays, Stored
    <3> QED BY <1>2, <1>4, <1>5, <3>1, <3>3
  <2> QED BY <2>2, <2>3
<1>7. \A u \in orphans' :
        /\ files'[u] # Absent /\ files'[u].kind = "reg"
        /\ \A y \in Tree' \cup Flight' : y.node # u
  <2>1. \A u \in orphans : u # e.uuid BY <1>5 DEF Strays
  <2> QED BY <1>2, <1>3, <1>4, <2>1 DEF Strays, Stored
<1> QED BY <1>6, <1>7 DEF Strays, Stored

\* A volume just created.
LEMMA InitImplements ==
  ASSUME Init, TInv
  PROVE  Abstract!Init
<1>1. /\ pc = [t \in Threads |-> "idle"] /\ req = [t \in Threads |-> NoReq]
      /\ torn = {} /\ clash = {} /\ raced = {}
  BY DEF Init
<1>2. \A x : x \notin Flight BY <1>1, FlightIs DEF FlightHas, Changes, NoReq
<1>3. \A u, x : x \in Now(u) <=> x \in files[u].ents
  BY <1>1, NowIs DEF NowHas, Saving, Unlinking
<1>4. ASSUME NEW x \in Tree PROVE x \in Abstract!Entry /\ files[x.node] # Absent
  <2>1. PICK u \in Uuids : \E d \in Now(u) : Is(x, u, d) BY TreeOf DEF TreeHas
  <2>2. PICK d \in Now(u) : Is(x, u, d) BY <2>1
  <2>3. d \in Dirent /\ In(u, d) BY <2>1, <2>2, NowIn DEF TInv, IInv
  <2>4. d.uuid \in Uuids \ {Root} /\ d.name \in Names \cup {Sub} /\ d.kind \in Kinds
    BY <2>1, <2>3 DEF Dirent, TInv, IInv, Shape, Tidy, NotRoot
  <2>5. x = [dir |-> u, name |-> d.name, node |-> d.uuid, kind |-> d.kind]
    BY <2>2 DEF Is, EntryIn
  <2>6. x \in Abstract!Entry BY <2>1, <2>4, <2>5 DEF Abstract!Entry
  <2>7. Stored(d.uuid) \/ d.ino \in Suspect \/ Witness(d)
    BY <1>1, <1>3, <2>1, <2>2 DEF TInv, IInv, Contents, Lead, Unsafe
  <2>8. Stored(d.uuid) BY <1>1, <2>7 DEF Suspect, Witness
  <2> QED BY <2>2, <2>6, <2>8 DEF Is, Stored
<1>5. Broken = {} BY <1>4 DEF Broken, Stored
<1>6. Flight = {} BY <1>2
<1> QED BY <1>4, <1>5, <1>6 DEF Abstract!Init

LEMMA InitStrays ==
  ASSUME Init, TInv
  PROVE  Strays
<1>1. heap = [o \in Objs |-> IF o = Root THEN Loaded(Root) ELSE Free] /\ orphans = {}
  BY DEF Init
<1>2. Free.own = None /\ Loaded(Root).uuid = Root BY DEF Free, Loaded
<1>3. Stored(Root) BY DEF TInv, IInv, Shape, Tidy
<1> QED BY <1>1, <1>2, <1>3 DEF Strays

LEMMA NextStrays ==
  ASSUME OneThread, TInv, TInv', Strays, [Next]_vars
  PROVE  Strays'
<1>1. Base /\ Typed BY DEF TInv, IInv, Base
<1>2. CASE UNCHANGED vars
  BY <1>2 DEF vars, memory, storage, history, Strays, Tree, Flight, Stored, EntryIn
<1>3. CASE Crash
  <2>1. /\ heap' = [o \in Objs |-> IF o = Root THEN Loaded(Root) ELSE Free]
        /\ UNCHANGED <<files, orphans>>
    BY <1>3 DEF Crash, storage
  <2>2. Free.own = None /\ Loaded(Root).uuid = Root BY DEF Free, Loaded
  <2>3. Stored(Root) BY DEF TInv, IInv, Shape, Tidy
  <2>4. \A o \in Objs : heap'[o].own # None => files'[heap'[o].uuid] # Absent
    BY <2>1, <2>2, <2>3 DEF Stored
  <2>5. Abstract!Crash BY <1>3, CrashCrashes
  <2>6. Tree' \subseteq Tree \cup Flight /\ Flight' = {} BY <2>5 DEF Abstract!Crash
  <2> QED BY <2>1, <2>4, <2>6 DEF Strays, Stored
<1>4. ASSUME NEW t \in Threads, Step(t) \/ Request(t) PROVE Strays'
  <2>1. Steady(t) /\ Did(t) BY <1>1, <1>4, StepIs
  <2>2. CASE Creates(t) BY <2>1, <2>2, CreateStrays DEF Creates
  <2>3. CASE ~Creates(t)
    <3>1. PICK h : Shrinks /\ Tame(h) BY <2>1, <2>3, StepTame DEF Creates, TInv, IInv
    <3>2. \/ UNCHANGED Abstract!vars
          \/ \E x \in Tree : Abstract!BeginRemove(x) \/ Abstract!Remove(x)
          \/ \E x \in Flight : Abstract!End(x)
      BY <1>4, <2>3, StepMeans
    <3>3. Tree' \subseteq Tree /\ Flight' \subseteq Tree \cup Flight
      BY <3>2 DEF Abstract!vars, Abstract!BeginRemove, Abstract!Remove, Abstract!End
    <3>4. ASSUME \A u \in Uuids : Stored(u) => files'[u] # Absent, UNCHANGED orphans,
                 req[t].op = "create" =>
                   \/ req'[t].op = "create" /\ req'[t].node = req[t].node
                   \/ files'[heap[req[t].node].uuid] # Absent
          PROVE  Strays'
      <4>1. orphans \subseteq Uuids BY <1>1 DEF Typed
      <4>2. \A u \in orphans' :
              /\ files'[u] # Absent /\ files'[u].kind = "reg"
              /\ \A x \in Tree' \cup Flight' : x.node # u
        BY <3>1, <3>3, <3>4, <4>1, OrphansStay
      <4> QED BY <3>1, <3>3, <3>4, <4>2, UnstoredStays
    <3>5. ASSUME UNCHANGED <<files, orphans>>, pc[t] \notin {"parent", "super", "node"}
          PROVE  Strays'
      <4>1. req[t].op # "create" BY <1>1, <3>5 DEF Base, Staged, StagedAt
      <4> QED BY <3>4, <3>5, <4>1 DEF Stored
    <3>6. ASSUME NEW i \in Inos, NEW e, LookupAs(t, i, e) \/ RemoveAs(t, i, e) PROVE Strays'
      BY <3>5, <3>6 DEF LookupAs, RemoveAs
    <3>7. ASSUME NEW i \in Inos, BeginForgetAs(t, i) PROVE Strays'
      BY <3>5, <3>7 DEF BeginForgetAs
    <3>8. CASE LoadFails(t) \/ FoundFails(t) \/ FoundAs(t) \/ ForgetNone(t) \/ ForgetAs(t)
               \/ DropGone(t) \/ RemoveNodeFails(t)
      BY <3>5, <3>8
         DEF LoadFails, FoundFails, FoundAs, ForgetNone, ForgetAs, DropGone, RemoveNodeFails
    <3>9. ASSUME NEW n, NEW g, LoadAs(t, n, g) PROVE Strays' BY <3>5, <3>9 DEF LoadAs
    <3>10. ASSUME NEW g, CountAs(t, g) \/ DropAs(t, g) PROVE Strays'
      BY <3>5, <3>10 DEF CountAs, DropAs
    <3>11. ASSUME NEW g, SaveParentAs(t, g) PROVE Strays'
      <4>1. req[t].op \in Works BY <1>1, <3>11 DEF SaveParentAs, Base, Staged, StagedAt, Works
      <4>2. req[t].parent \in Objs /\ req[t].parent \in Pointers(imap, req)
        BY <1>1, <4>1, InUse
      <4>3. \A u \in Uuids : files[u] # Absent => files'[u] # Absent
        BY <1>1, <3>11, <4>2, StoreIs DEF SaveParentAs
      <4> QED BY <3>4, <3>11, <4>3 DEF SaveParentAs, Stored
    <3>12. CASE SaveSuperAs(t)
      BY <3>4, <3>12 DEF SaveSuperAs, Stored
    <3>13. CASE SaveNodeAs(t)
      <4>1. /\ req[t].node \in Objs /\ req[t].node \in Pointers(imap, req)
            /\ heap[req[t].node].uuid \in Uuids
        BY <1>1, <3>13, InUse, DumpedNode DEF SaveNodeAs
      <4>2. /\ \A u \in Uuids : files[u] # Absent => files'[u] # Absent
            /\ files'[heap[req[t].node].uuid] # Absent
        BY <1>1, <3>13, <4>1, StoreIs DEF SaveNodeAs
      <4> QED BY <3>4, <3>13, <4>2 DEF SaveNodeAs, Stored
    <3>14. CASE SaveRemovedAs(t)
      <4>1. req[t].op \in Works /\ req[t].op # "create"
        BY <1>1, <3>14 DEF SaveRemovedAs, Base, Staged, StagedAt, Works
      <4>2. req[t].parent \in Objs /\ req[t].parent \in Pointers(imap, req)
        BY <1>1, <4>1, InUse
      <4>3. \A u \in Uuids : files[u] # Absent => files'[u] # Absent
        BY <1>1, <3>14, <4>2, StoreIs DEF SaveRemovedAs
      <4> QED BY <3>4, <3>14, <4>1, <4>3 DEF SaveRemovedAs, Stored
    <3>15. ASSUME NEW g, RemoveNodeAs(t, g) PROVE Strays'
      <4> DEFINE e == req[t].ent
      <4>1. /\ req[t].op = "remove" /\ req[t].op \in Works /\ e.uuid \in Uuids
            /\ req[t].op \in Changes
        BY <1>1, <3>15, InUse DEF RemoveNodeAs, Base, Staged, StagedAt, Works, Changes
      <4>2. /\ \A u \in Uuids : files'[u] = IF u = e.uuid THEN Absent ELSE files[u]
            /\ UNCHANGED orphans
        BY <1>1, <3>15 DEF RemoveNodeAs, Typed
      <4>3. PICK x \in Tree : Abstract!Remove(x) BY <2>1, <3>15, RemoveNodeRemoves
      <4>4. x \in Flight /\ Tree' = Tree \ {x} BY <4>3 DEF Abstract!Remove
      <4>5. x = Item(t) BY <4>4, AloneIs DEF AloneHas
      <4>6. /\ heap[req[t].parent].uuid \in Uuids /\ e \in Dirent
            /\ In(heap[req[t].parent].uuid, e) /\ x.node = e.uuid
        BY <4>1, <4>5, ItemIs DEF Is
      <4>7. \A y \in Tree : y.node = e.uuid => y = x
        BY <4>1, <4>5, <4>6, OneEntry DEF Item
      <4>8. \A u \in orphans : u # e.uuid /\ u \in Uuids BY <1>1, <4>6 DEF Strays, Typed
      <4> HIDE DEF e
      <4>9. \A u \in orphans : Stored(u) => files'[u] # Absent BY <4>2, <4>8 DEF Stored
      <4>10. \A u \in orphans' :
              /\ files'[u] # Absent /\ files'[u].kind = "reg"
              /\ \A y \in Tree' \cup Flight' : y.node # u
        BY <3>1, <3>3, <4>2, <4>9, OrphansStay
      <4>11. \A u \in Uuids : Stored(u) => files'[u] # Absent \/ \A y \in Tree' : y.node # u
        BY <4>2, <4>4, <4>7 DEF Stored
      <4> QED BY <3>1, <3>3, <4>1, <4>10, <4>11, UnstoredStays
    <3>16. ASSUME NEW i \in Inos, FlushAs(t, i) PROVE Strays'
      <4>1. PICK o, v : FlushHas(o, v) BY <1>1, <3>16, FlushKeeps DEF TInv, IInv
      <4>2. req[t].op = "none" BY <1>1, <3>16 DEF FlushAs, Base, Staged, StagedAt
      <4>3. \A x : x \notin Flight BY <4>2, AloneIs DEF AloneHas, Changes
      <4>4. heap[o].own # None
        <5>1. heap[o].own \in Inos BY <1>1, <4>1, DumpedNode DEF FlushHas
        <5> QED BY <5>1, Small
      <4>5. ~Stored(v) => \A x \in Tree : x.node # v
        <5>1. \A s \in Threads : req[s].op # "create" BY <4>2 DEF OneThread
        <5> QED BY <4>1, <4>4, <5>1 DEF Strays, FlushHas
      <4>6. Tree' = Tree /\ Flight' = Flight BY <3>16, FlushStutters DEF Abstract!vars
      <4>7. \A u \in orphans' :
              /\ files'[u] # Absent /\ files'[u].kind = "reg"
              /\ \A y \in Tree' \cup Flight' : y.node # u
        <5> SUFFICES ASSUME NEW u \in orphans'
                     PROVE  /\ files'[u] # Absent /\ files'[u].kind = "reg"
                            /\ \A y \in Tree' \cup Flight' : y.node # u
          OBVIOUS
        <5>1. CASE u \in orphans
          <6>1. /\ u \in Uuids /\ Stored(u) /\ files[u].kind = "reg"
                /\ \A y \in Tree \cup Flight : y.node # u
            BY <1>1, <5>1 DEF Strays, Typed
          <6>2. CASE u = v BY <4>1, <4>6, <6>1, <6>2 DEF FlushHas
          <6>3. CASE u # v BY <4>1, <4>6, <6>1, <6>3 DEF FlushHas, Stored
          <6> QED BY <6>2, <6>3
        <5>2. CASE u \notin orphans
          <6>1. u = v /\ ~Stored(v) BY <4>1, <5>2 DEF FlushHas, Stored
          <6> QED BY <4>1, <4>3, <4>5, <4>6, <6>1 DEF FlushHas
        <5> QED BY <5>1, <5>2
      <4>8. \A u \in Uuids : Stored(u) => files'[u] # Absent BY <4>1 DEF FlushHas, Stored
      <4> QED BY <3>1, <3>3, <4>2, <4>7, <4>8, UnstoredStays
    <3> QED
      BY <2>1, <2>3, <3>6, <3>7, <3>8, <3>9, <3>10, <3>11, <3>12, <3>13, <3>14, <3>15, <3>16
      DEF Did, Creates
  <2> QED BY <2>2, <2>3
<1> QED BY <1>2, <1>3, <1>4 DEF Next

\* With one thread, and whatever crashes, the tree is the abstract one: every
\* create, mkdir, unlink and rmdir takes effect in one step and for good, a
\* lookup, a forget or a reload from the storage changes nothing, and a crash
\* touches no entry but that of the request it cuts short.
THEOREM TreeImplements ==
  ASSUME OneThread
  PROVE  Spec => ImplementsDirTree
<1>1. Init /\ TInv => Abstract!Init BY InitImplements
<1>2. TInv /\ TInv' /\ Strays /\ [Next]_vars => [Abstract!Next]_(Abstract!vars)
  <2> SUFFICES ASSUME TInv, TInv', Strays, [Next]_vars
               PROVE  [Abstract!Next]_(Abstract!vars)
    OBVIOUS
  <2>1. CASE Crash BY <2>1, CrashCrashes DEF Abstract!Next
  <2>2. ASSUME NEW t \in Threads, Step(t) \/ Request(t)
        PROVE  [Abstract!Next]_(Abstract!vars)
    BY <2>2, StepMeans DEF Abstract!Next
  <2>3. CASE UNCHANGED vars
    BY <2>3 DEF vars, memory, storage, Abstract!vars, Tree, Flight, Broken, Stored, EntryIn
  <2> QED BY <2>1, <2>2, <2>3 DEF Next
<1>3. Init /\ TInv => Strays BY InitStrays
<1>4. TInv /\ TInv' /\ Strays /\ [Next]_vars => Strays' BY NextStrays
<1> QED BY <1>1, <1>2, <1>3, <1>4, TreeInvariant, PTL DEF Spec, ImplementsDirTree, Abstract!Spec
=============================================================================
