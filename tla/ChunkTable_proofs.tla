-------------------------- MODULE ChunkTable_proofs --------------------------
(***************************************************************************)
(* Theorems about ChunkTable for any threads and bounds.  Only truncations *)
(* that meet a write make the chunk table shorter than the size of the     *)
(* file; what a flush stores fits, unless it overtook a write, a write had *)
(* failed or a truncation met one.  The newest version of a chunk outside  *)
(* lost is kept while the vector moves, and reads find it under its tag.   *)
(*                                                                         *)
(* The argument: as long as no save has failed and no truncation met a     *)
(* write, length and size differ only while writes are under way, and then *)
(* the table ends at the chunk of one of them.  A truncation clears both   *)
(* when nobody writes.  A chunk outside lost is in one thread's hands at a *)
(* time, or else safe, and in the table unless it is blank.                *)
(***************************************************************************)
EXTENDS ChunkTable, TLAPS

Ops == {"none", "write", "read", "flush", "trunc"}
Jobs == [op : Ops, idx : Nat \ {0}, ver : Nat,
         old : Nat, gen : Nat, n : 0..MaxChunks]

\* What is needed of the types.
Typed ==
  /\ len \in 0..MaxChunks /\ size \in Nat /\ gen \in Nat /\ fails \in Nat /\ writes \in Nat
  /\ cached \in [Index -> Nat] /\ disk \in [Index -> Nat]
  /\ job \in [Threads -> Jobs] /\ DOMAIN pc = Threads
  /\ stored \in [len : Nat, size : Nat]

\* Where a thread is that writes.
WriterAt == {"put", "evict", "save", "settag"}

\* A thread writes only in save_chunk.
WritersPlaced == \A t \in Threads : Writing(t) => pc[t] \in WriterAt

\* No truncation has met a write or a fallocate, or is about to.
Settled == ~cut /\ \A t \in Threads : ~Shrinking(t)

\* The table then reaches to the chunks of the writes under way, and to the
\* size.
Covers ==
  Settled => size <= len /\ \A t \in Threads : Writing(t) => job[t].idx <= len

\* As long as no save failed, a table longer than the size is that of a write
\* under way.
Explained ==
  Settled /\ fails = 0 /\ len # size
    => \E t \in Threads : Writing(t) /\ job[t].idx = len

\* What a truncation cleared stays so until the next request.
Cleared ==
  ~cut /\ (\E t \in Threads : Shrinking(t)) => len = 0 /\ \A t \in Threads : ~Writing(t)

Growth == WritersPlaced /\ Covers /\ Explained /\ Cleared
IInv == Typed /\ Growth /\ StoredFits

-----------------------------------------------------------------------------
(* Types.                                                                  *)

\* A thread that moves on leaves the types alone.
LEMMA GotoTyped ==
  ASSUME Typed, NEW t \in Threads, NEW l, NEW j \in Jobs, Goto(t, l, j)
  PROVE  job' \in [Threads -> Jobs] /\ DOMAIN pc' = Threads
BY DEF Typed, Goto

\* An idle thread's job is one.
LEMMA NoJobTyped == NoJob \in Jobs
BY TableAssumption DEF NoJob, Jobs, Ops, None

\* The types hold at first.
LEMMA InitTyped == Init => Typed
<1> SUFFICES ASSUME Init PROVE Typed
  OBVIOUS
<1>1. job \in [Threads -> Jobs]
  BY NoJobTyped DEF Init
<1>2. DOMAIN pc = Threads
  BY DEF Init
<1>3. tag \in [Index -> Nat]
  BY DEF Init, None
<1>4. cached \in [Index -> Nat] /\ disk \in [Index -> Nat]
  BY <1>3 DEF Init
<1>5. stored \in [len : Nat, size : Nat]
  BY DEF Init
<1> QED  BY <1>1, <1>2, <1>4, <1>5, TableAssumption DEF Init, Typed, Index

\* The jobs that steps make of another one.
LEMMA JobFields ==
  ASSUME NEW j \in Jobs
  PROVE  /\ \A i \in Nat \ {0}, v, g \in Nat :
              [j EXCEPT !.op = "write", !.idx = i, !.ver = v, !.gen = g] \in Jobs
         /\ \A i \in Nat \ {0}, v, g \in Nat :
              [j EXCEPT !.op = "read", !.idx = i, !.ver = v, !.gen = g] \in Jobs
         /\ \A g \in Nat, m \in 0..MaxChunks :
              /\ [j EXCEPT !.op = "flush", !.gen = g, !.n = m] \in Jobs
              /\ [j EXCEPT !.op = "trunc", !.gen = g, !.n = m] \in Jobs
         /\ \A i, v, g \in Nat : [j EXCEPT !.ver = v, !.old = i, !.gen = g] \in Jobs
         /\ \A i, v \in Nat : [j EXCEPT !.ver = v, !.old = i] \in Jobs
         /\ [j EXCEPT !.idx = @ + 1] \in Jobs
         /\ [j EXCEPT !.idx = @ + 1, !.ver = None, !.old = 0] \in Jobs
<1>1. \A i \in Nat \ {0}, v, g \in Nat :
        [j EXCEPT !.op = "write", !.idx = i, !.ver = v, !.gen = g] \in Jobs
  BY DEF Jobs, Ops
<1>2. \A i \in Nat \ {0}, v, g \in Nat :
        [j EXCEPT !.op = "read", !.idx = i, !.ver = v, !.gen = g] \in Jobs
  BY DEF Jobs, Ops
<1>3. \A g \in Nat, m \in 0..MaxChunks :
        [j EXCEPT !.op = "flush", !.gen = g, !.n = m] \in Jobs
  BY DEF Jobs, Ops
<1>4. \A g \in Nat, m \in 0..MaxChunks :
        [j EXCEPT !.op = "trunc", !.gen = g, !.n = m] \in Jobs
  BY DEF Jobs, Ops
<1>5. \A i, v, g \in Nat : [j EXCEPT !.ver = v, !.old = i, !.gen = g] \in Jobs
  BY DEF Jobs
<1>6. \A i, v \in Nat : [j EXCEPT !.ver = v, !.old = i] \in Jobs
  BY DEF Jobs
<1>7. /\ [j EXCEPT !.idx = @ + 1] \in Jobs
      /\ [j EXCEPT !.idx = @ + 1, !.ver = None, !.old = 0] \in Jobs
  <2>1. j.idx + 1 \in Nat \ {0} /\ None \in Nat
    BY DEF Jobs, None
  <2> QED  BY <2>1 DEF Jobs
<1> QED  BY <1>1, <1>2, <1>3, <1>4, <1>5, <1>6, <1>7

\* A thread in save_chunk that has nothing in hand.
LEMMA SavingTyped ==
  ASSUME Typed, NEW t \in Threads
  PROVE  /\ Saving(t) \in Jobs /\ Saving(t).op = job[t].op /\ Saving(t).idx = job[t].idx
         /\ Saving(t).old = 0
<1>1. job[t].op \in Ops /\ job[t].idx \in Nat \ {0}
  BY DEF Typed, Jobs
<1> QED  BY <1>1, NoJobTyped DEF Saving, Jobs, NoJob

\* Chunks are counted from one.
LEMMA IndexTyped == Index \subseteq Nat \ {0}
BY TableAssumption DEF Index

\* The table reaches to chunk i then, at least.
LEMMA ResizeTyped ==
  ASSUME Typed, NEW i \in Index, Resize(i)
  PROVE  /\ len' \in 0..MaxChunks /\ len' >= len /\ len' >= i /\ gen' \in Nat
         /\ len' = len \/ len' = i
         /\ DOMAIN tag' = Index
         /\ \A k \in Index : tag'[k] = IF len < k /\ k <= i THEN None ELSE tag[k]
<1>1. i \in 1..MaxChunks /\ len \in 0..MaxChunks /\ gen \in Nat /\ MaxChunks \in Nat
  BY TableAssumption DEF Typed, Index
<1>2. len' = IF len >= i THEN len ELSE i
  BY DEF Resize, NatMax
<1>3. gen' = gen \/ gen' = gen + 1
  BY DEF Resize
<1>4. tag' = [k \in Index |-> IF len < k /\ k <= i THEN None ELSE tag[k]]
  BY DEF Resize
<1> QED  BY <1>1, <1>2, <1>3, <1>4

\* Requests keep the types.
LEMMA RequestTyped ==
  ASSUME Typed, NEW t \in Threads, Request(t)
  PROVE  Typed'
<1>1. ASSUME NEW i \in Index, BeginWrite(t, i)  PROVE Typed'
  <2>1. writes + 1 \in Nat
    BY DEF Typed
  <2>2. len' \in 0..MaxChunks /\ gen' \in Nat
    BY <1>1, ResizeTyped DEF BeginWrite
  <2>3. PICK g \in Nat : g = gen'
    BY <2>2
  <2>4. [NoJob EXCEPT !.op = "write", !.idx = i, !.ver = writes + 1, !.gen = g] \in Jobs
    BY <2>1, <2>3, NoJobTyped, JobFields, IndexTyped
  <2>5. job' \in [Threads -> Jobs] /\ DOMAIN pc' = Threads
    BY <1>1, <2>3, <2>4, GotoTyped DEF BeginWrite
  <2> QED  BY <1>1, <2>1, <2>2, <2>5 DEF BeginWrite, Typed
<1>2. ASSUME NEW i \in Index, BeginRead(t, i)  PROVE Typed'
  <2>1. disk[i] \in Nat /\ gen \in Nat
    BY DEF Typed
  <2>2. [NoJob EXCEPT !.op = "read", !.idx = i, !.ver = disk[i], !.gen = gen] \in Jobs
    BY <2>1, NoJobTyped, JobFields, IndexTyped
  <2>3. job' \in [Threads -> Jobs] /\ DOMAIN pc' = Threads
    BY <1>2, <2>2, GotoTyped DEF BeginRead
  <2> QED  BY <1>2, <2>3 DEF BeginRead, Typed, table, bounds
<1>3. ASSUME NEW i \in Index, Fallocate(t, i)  PROVE Typed'
  <2>1. len' \in 0..MaxChunks /\ gen' \in Nat
    BY <1>3, ResizeTyped DEF Fallocate
  <2>2. size' \in Nat
    BY <1>3, IndexTyped DEF Fallocate, NatMax, Typed
  <2> QED  BY <1>3, <2>1, <2>2 DEF Fallocate, Typed, bounds
<1>4. ASSUME BeginFlush(t)  PROVE Typed'
  <2>1. len \in 0..MaxChunks /\ gen \in Nat
    BY DEF Typed
  <2>2. [NoJob EXCEPT !.op = "flush", !.gen = gen, !.n = len] \in Jobs
    BY <2>1, NoJobTyped, JobFields
  <2>3. job' \in [Threads -> Jobs] /\ DOMAIN pc' = Threads
    BY <1>4, <2>2, GotoTyped DEF BeginFlush
  <2> QED  BY <1>4, <2>3 DEF BeginFlush, Typed, table, bounds
<1>5. ASSUME BeginTruncate(t)  PROVE Typed'
  <2>1. len \in 0..MaxChunks /\ gen \in Nat
    BY DEF Typed
  <2>2. [NoJob EXCEPT !.op = "trunc", !.gen = gen, !.n = len] \in Jobs
    BY <2>1, NoJobTyped, JobFields
  <2>3. job' \in [Threads -> Jobs] /\ DOMAIN pc' = Threads
    BY <1>5, <2>2, GotoTyped DEF BeginTruncate
  <2> QED  BY <1>5, <2>3 DEF BeginTruncate, Typed, table
<1> QED  BY <1>1, <1>2, <1>3, <1>4, <1>5 DEF Request

\* A thread at find goes on to the next chunk, or to the tag of this one.
LEMMA NextChunkTyped ==
  ASSUME Typed, NEW t \in Threads, NextChunk(t)
  PROVE  job' \in [Threads -> Jobs] /\ DOMAIN pc' = Threads
<1>1. job[t] \in Jobs
  BY DEF Typed
<1>2. [job[t] EXCEPT !.idx = @ + 1, !.ver = None, !.old = 0] \in Jobs
  BY <1>1, JobFields
<1> QED  BY <1>2, GotoTyped DEF NextChunk

\* The steps of requests keep the types.
LEMMA StepTyped ==
  ASSUME Typed, NEW t \in Threads, Step(t)
  PROVE  Typed'
<1>0. job[t] \in Jobs /\ job[t].idx \in Nat \ {0} /\ job[t].ver \in Nat
  BY DEF Typed, Jobs
<1>1. ASSUME Put(t)  PROVE Typed'
  <2>1. job' \in [Threads -> Jobs] /\ DOMAIN pc' = Threads
    BY <1>0, <1>1, SavingTyped, GotoTyped DEF Put
  <2>2. cached' \in [Index -> Nat]
    BY <1>0, <1>1 DEF Put, Typed
  <2> QED  BY <1>1, <2>1, <2>2 DEF Put, Typed, table, bounds
<1>2. ASSUME NEW i \in Index, Pop(t, i)  PROVE Typed'
  <2>1. cached[i] \in Nat /\ gen \in Nat
    BY DEF Typed
  <2>2. [job[t] EXCEPT !.ver = cached[i], !.old = i, !.gen = gen] \in Jobs
    BY <1>0, <2>1, JobFields, IndexTyped
  <2>3. job' \in [Threads -> Jobs] /\ DOMAIN pc' = Threads
    BY <1>2, <2>2, GotoTyped DEF Pop
  <2>4. cached' \in [Index -> Nat]
    BY <1>2 DEF Pop, Typed, None
  <2> QED  BY <1>2, <2>3, <2>4 DEF Pop, Typed, table, bounds
<1>3. ASSUME EvictSave(t)  PROVE Typed'
  <2>1. job' \in [Threads -> Jobs] /\ DOMAIN pc' = Threads
    BY <1>0, <1>3, GotoTyped DEF EvictSave
  <2>2. disk' \in [Index -> Nat]
    BY <1>0, <1>3 DEF EvictSave, Typed
  <2> QED  BY <1>3, <2>1, <2>2 DEF EvictSave, Typed, table, bounds
<1>4. ASSUME EvictTag(t)  PROVE Typed'
  <2>1. job' \in [Threads -> Jobs] /\ DOMAIN pc' = Threads
    BY <1>4, SavingTyped, GotoTyped DEF EvictTag
  <2> QED  BY <1>4, <2>1 DEF EvictTag, Typed, bounds
<1>5. ASSUME EndSave(t)  PROVE Typed'
  <2>1. job' \in [Threads -> Jobs] /\ DOMAIN pc' = Threads
    BY <1>5, NoJobTyped, GotoTyped DEF EndSave
  <2>2. size' \in Nat
    BY <1>0, <1>5 DEF EndSave, Typed, NatMax
  <2> QED  BY <1>5, <2>1, <2>2 DEF EndSave, Typed, bounds
<1>6. ASSUME EndRead(t)  PROVE Typed'
  <2>1. job' \in [Threads -> Jobs] /\ DOMAIN pc' = Threads
    BY <1>6, NoJobTyped, GotoTyped DEF EndRead
  <2> QED  BY <1>6, <2>1 DEF EndRead, Typed, table, bounds
<1>7. ASSUME Find(t)  PROVE Typed'
  <2> DEFINE i == job[t].idx
  <2>1. i \in Index
    <3>1. job[t].n \in 0..MaxChunks
      BY DEF Typed, Jobs
    <3> QED  BY <1>0, <1>7, <3>1, TableAssumption DEF Find, Index
  <2>2. CASE cached' = [cached EXCEPT ![i] = None]
             /\ Goto(t, "ftag", [job[t] EXCEPT !.ver = cached[i], !.old = i])
    <3>1. cached[i] \in Nat
      BY <2>1 DEF Typed
    <3>2. [job[t] EXCEPT !.ver = cached[i], !.old = i] \in Jobs
      BY <1>0, <3>1, JobFields
    <3>3. job' \in [Threads -> Jobs] /\ DOMAIN pc' = Threads
      BY <2>2, <3>2, GotoTyped
    <3>4. cached' \in [Index -> Nat]
      BY <2>2 DEF Typed, None
    <3> QED  BY <1>7, <3>3, <3>4 DEF Find, Typed, table, bounds
  <2>3. CASE NextChunk(t) /\ UNCHANGED cached
    <3>1. job' \in [Threads -> Jobs] /\ DOMAIN pc' = Threads
      BY <2>3, NextChunkTyped
    <3> QED  BY <1>7, <2>3, <3>1 DEF Find, Typed, table, bounds
  <2> QED  BY <1>7, <2>2, <2>3 DEF Find
<1>8. ASSUME FlushTag(t)  PROVE Typed'
  <2>1. job' \in [Threads -> Jobs] /\ DOMAIN pc' = Threads
    BY <1>0, <1>8, GotoTyped DEF FlushTag
  <2> QED  BY <1>8, <2>1 DEF FlushTag, Typed, bounds
<1>9. ASSUME FlushSave(t)  PROVE Typed'
  <2>1. job' \in [Threads -> Jobs] /\ DOMAIN pc' = Threads
    BY <1>9, NextChunkTyped DEF FlushSave
  <2>2. disk' \in [Index -> Nat]
    BY <1>0, <1>9 DEF FlushSave, Typed
  <2> QED  BY <1>9, <2>1, <2>2 DEF FlushSave, Typed, table, bounds
<1>10. ASSUME EndFlush(t)  PROVE Typed'
  <2>1. job' \in [Threads -> Jobs] /\ DOMAIN pc' = Threads
    BY <1>10, NoJobTyped, GotoTyped DEF EndFlush
  <2>2. stored' \in [len : Nat, size : Nat]
    BY <1>10 DEF EndFlush, Typed
  <2> QED  BY <1>10, <2>1, <2>2 DEF EndFlush, Typed, table, bounds
<1>11. ASSUME Fail(t)  PROVE Typed'
  <2>1. job' \in [Threads -> Jobs] /\ DOMAIN pc' = Threads
    BY <1>11, NoJobTyped, GotoTyped DEF Fail
  <2>2. fails' \in Nat
    BY <1>11 DEF Fail, Typed
  <2> QED  BY <1>11, <2>1, <2>2 DEF Fail, Typed, table
<1>12. ASSUME Remove(t)  PROVE Typed'
  <2>1. job' \in [Threads -> Jobs] /\ DOMAIN pc' = Threads
    BY <1>0, <1>12, JobFields, GotoTyped DEF Remove
  <2>2. disk' = disk \/ disk' = [disk EXCEPT ![job[t].idx] = None]
    BY <1>12 DEF Remove
  <2>3. disk' \in [Index -> Nat]
    BY <2>2 DEF Typed, None
  <2> QED  BY <1>12, <2>1, <2>3 DEF Remove, Typed, table, bounds
<1>13. ASSUME ClearChunks(t)  PROVE Typed'
  <2>1. job' \in [Threads -> Jobs] /\ DOMAIN pc' = Threads
    BY <1>13, NoJobTyped, GotoTyped DEF ClearChunks
  <2>2. disk' \in [Index -> Nat] /\ len' \in 0..MaxChunks
    BY <1>13, TableAssumption DEF ClearChunks, None
  <2> QED  BY <1>13, <2>1, <2>2 DEF ClearChunks, Typed, bounds
<1>14. ASSUME ClearSize(t)  PROVE Typed'
  <2>1. job' \in [Threads -> Jobs] /\ DOMAIN pc' = Threads
    BY <1>14, NoJobTyped, GotoTyped DEF ClearSize
  <2> QED  BY <1>14, <2>1 DEF ClearSize, Typed, bounds
<1> QED
  BY <1>1, <1>2, <1>3, <1>4, <1>5, <1>6, <1>7, <1>8, <1>9, <1>10, <1>11, <1>12, <1>13,
     <1>14 DEF Step

-----------------------------------------------------------------------------
(* Length and size.                                                        *)

\* At first the table has one chunk and nobody writes.
LEMMA InitGrowth == Init => Growth /\ StoredFits
<1> SUFFICES ASSUME Init PROVE Growth /\ StoredFits
  OBVIOUS
<1>1. \A t \in Threads : ~Writing(t) /\ ~Shrinking(t)
  BY DEF Init, NoJob, Writing, Shrinking
<1> QED
  BY <1>1 DEF Init, Growth, WritersPlaced, Covers, Explained, Cleared, StoredFits

\* A thread moves on: it writes the chunk it wrote before, or does not write
\* as before, and nothing of the table changes.
LEMMA GotoGrowth ==
  ASSUME Typed, Growth, NEW t \in Threads, NEW l, NEW j \in Jobs, Goto(t, l, j),
         j.op = "write" <=> Writing(t),
         Writing(t) => j.idx = job[t].idx /\ l \in WriterAt,
         ~Shrinking(t), l # "shrink",
         UNCHANGED <<len, size, fails, cut>>
  PROVE  Growth'
<1>1. \A u \in Threads : Writing(u)' <=> Writing(u)
  BY DEF Typed, Goto, Writing
<1>2. \A u \in Threads : Writing(u) => job'[u].idx = job[u].idx
  BY DEF Typed, Goto
<1>3. \A u \in Threads : Writing(u) => pc'[u] \in WriterAt
  BY DEF Typed, Goto, Growth, WritersPlaced
<1>4. \A u \in Threads : Shrinking(u)' <=> Shrinking(u)
  BY DEF Typed, Goto, Shrinking
<1>5. Settled' <=> Settled
  BY <1>4 DEF Settled
<1> QED
  BY <1>1, <1>2, <1>3, <1>4, <1>5 DEF Growth, WritersPlaced, Covers, Explained, Cleared

\* A step of save_chunk.
LEMMA SaveGrowth ==
  ASSUME Typed, Growth, NEW t \in Threads, NEW l \in WriterAt, NEW j \in Jobs,
         Goto(t, l, j), j.op = job[t].op, j.idx = job[t].idx, pc[t] # "shrink",
         UNCHANGED <<len, size, fails, cut>>
  PROVE  Growth'
BY GotoGrowth DEF Writing, WriterAt, Shrinking

\* A step of a thread that does not write, and will not.
LEMMA OtherGrowth ==
  ASSUME Typed, Growth, NEW t \in Threads, NEW l, NEW j \in Jobs,
         Goto(t, l, j), j.op # "write", ~Writing(t), pc[t] # "shrink", l # "shrink",
         UNCHANGED <<len, size, fails, cut>>
  PROVE  Growth'
BY GotoGrowth DEF Shrinking

\* A flush that goes on to the next chunk.
LEMMA NextChunkGrowth ==
  ASSUME Typed, Growth, NEW t \in Threads, NextChunk(t), ~Writing(t), pc[t] # "shrink",
         UNCHANGED <<len, size, fails, cut>>
  PROVE  Growth'
<1>1. job[t] \in Jobs
  BY DEF Typed
<1> DEFINE j == [job[t] EXCEPT !.idx = @ + 1, !.ver = None, !.old = 0]
<1>2. j \in Jobs /\ j.op = job[t].op
  BY <1>1, JobFields DEF Jobs
<1> QED  BY <1>2, OtherGrowth DEF NextChunk, Writing

\* A resize from a settled state leaves one, and from any other none.
LEMMA ResizeSettled ==
  ASSUME NEW i, Resize(i), \A u \in Threads : Shrinking(u)' <=> Shrinking(u)
  PROVE  /\ Settled' => Settled
         /\ Cleared'
BY DEF Resize, Settled, Cleared

\* A write begins: it extends the table and is then the one that explains it.
LEMMA WriteGrowth ==
  ASSUME Typed, Growth, NEW t \in Threads, NEW i \in Index, BeginWrite(t, i)
  PROVE  Growth'
<1>0. len \in Nat /\ size \in Nat /\ i \in Nat
  BY IndexTyped DEF Typed
<1> DEFINE j == [NoJob EXCEPT !.op = "write", !.idx = i, !.ver = writes + 1]
<1>1. /\ job' = [job EXCEPT ![t] = [j EXCEPT !.gen = gen']]
      /\ pc' = [pc EXCEPT ![t] = "put"] /\ pc[t] = "idle"
  BY DEF BeginWrite, Goto, NoJob
<1>2. [j EXCEPT !.gen = gen'].op = "write" /\ [j EXCEPT !.gen = gen'].idx = i
  BY DEF NoJob
<1> HIDE DEF j
<1>3. ~Writing(t) /\ Writing(t)' /\ job'[t].idx = i /\ pc'[t] \in WriterAt
  BY <1>1, <1>2 DEF Growth, WritersPlaced, WriterAt, Writing, Typed
<1>4. \A u \in Threads \ {t} : job'[u] = job[u] /\ pc'[u] = pc[u]
  BY <1>1 DEF Typed
<1>5. \A u \in Threads \ {t} : Writing(u)' <=> Writing(u)
  BY <1>4 DEF Writing
<1>6. \A u \in Threads : Shrinking(u)' <=> Shrinking(u)
  BY <1>1, <1>4 DEF Shrinking, Typed
<1>7. /\ len' >= len /\ len' >= i /\ (len' = len \/ len' = i) /\ len' \in Nat
      /\ size' = size /\ fails' = fails
  BY ResizeTyped DEF BeginWrite
<1>8. (Settled' => Settled) /\ Cleared'
  BY <1>6, ResizeSettled DEF BeginWrite
<1>9. WritersPlaced'
  BY <1>3, <1>4, <1>5 DEF Growth, WritersPlaced
<1>10. Covers'
  <2> SUFFICES ASSUME Settled'
               PROVE  size' <= len' /\ \A u \in Threads : Writing(u)' => job'[u].idx <= len'
    BY DEF Covers
  <2>1. size <= len /\ \A u \in Threads : Writing(u) => job[u].idx <= len
    BY <1>8 DEF Growth, Covers
  <2>2. ASSUME NEW u \in Threads \ {t}, Writing(u)  PROVE job[u].idx <= len'
    <3>1. job[u].idx \in Nat /\ job[u].idx <= len
      BY <2>1, <2>2 DEF Typed, Jobs
    <3> QED  BY <1>0, <1>7, <3>1
  <2> QED  BY <1>0, <1>3, <1>4, <1>5, <1>7, <2>1, <2>2
<1>11. Explained'
  <2> SUFFICES ASSUME Settled', fails' = 0, len' # size'
               PROVE  \E u \in Threads : Writing(u)' /\ job'[u].idx = len'
    BY DEF Explained
  <2>1. CASE len' = i
    BY <1>3, <2>1
  <2>2. CASE len' = len
    <3>1. PICK u \in Threads : Writing(u) /\ job[u].idx = len
      BY <1>7, <1>8, <2>2 DEF Growth, Explained
    <3> QED  BY <1>3, <1>4, <1>5, <2>2, <3>1
  <2> QED  BY <1>7, <2>1, <2>2
<1> QED  BY <1>8, <1>9, <1>10, <1>11 DEF Growth

\* A fallocate extends table and size.
LEMMA FallocateGrowth ==
  ASSUME Typed, Growth, NEW t \in Threads, NEW i \in Index, Fallocate(t, i)
  PROVE  Growth'
<1>0. len \in Nat /\ size \in Nat /\ i \in Nat
  BY IndexTyped DEF Typed
<1>1. job' = job /\ pc' = pc /\ fails' = fails
  BY DEF Fallocate, bounds
<1>2. \A u \in Threads : (Writing(u)' <=> Writing(u)) /\ (Shrinking(u)' <=> Shrinking(u))
  BY <1>1 DEF Writing, Shrinking
<1>3. /\ len' >= len /\ len' >= i /\ (len' = len \/ len' = i) /\ len' \in Nat
      /\ size' = IF size >= i THEN size ELSE i
  BY ResizeTyped DEF Fallocate, NatMax
<1>4. (Settled' => Settled) /\ Cleared'
  BY <1>2, ResizeSettled DEF Fallocate
<1>5. Covers'
  <2> SUFFICES ASSUME Settled'
               PROVE  size' <= len' /\ \A u \in Threads : Writing(u) => job[u].idx <= len'
    BY <1>1, <1>2 DEF Covers
  <2>1. size <= len /\ \A u \in Threads : Writing(u) => job[u].idx <= len
    BY <1>4 DEF Growth, Covers
  <2>2. ASSUME NEW u \in Threads, Writing(u)  PROVE job[u].idx <= len'
    <3>1. job[u].idx \in Nat /\ job[u].idx <= len
      BY <2>1, <2>2 DEF Typed, Jobs
    <3> QED  BY <1>0, <1>3, <3>1
  <2> QED  BY <1>0, <1>3, <2>1, <2>2
<1>6. Explained'
  <2> SUFFICES ASSUME Settled', fails = 0, len' # size'
               PROVE  \E u \in Threads : Writing(u) /\ job[u].idx = len'
    BY <1>1, <1>2 DEF Explained
  <2>1. size <= len
    BY <1>4 DEF Growth, Covers
  <2>2. len' = len /\ len # size
    BY <1>0, <1>3, <2>1
  <2> QED  BY <1>4, <2>2 DEF Growth, Explained
<1> QED  BY <1>1, <1>2, <1>4, <1>5, <1>6 DEF Growth, WritersPlaced

\* A request begins.
LEMMA RequestGrowth ==
  ASSUME Typed, Growth, NEW t \in Threads, Request(t)
  PROVE  Growth'
<1>0. NoJob \in Jobs /\ NoJob.op = "none"
  BY NoJobTyped DEF NoJob
<1>1. ASSUME NEW i \in Index, BeginWrite(t, i)  PROVE Growth'
  BY <1>1, WriteGrowth
<1>2. ASSUME NEW i \in Index, BeginRead(t, i)  PROVE Growth'
  <2> DEFINE j == [NoJob EXCEPT !.op = "read", !.idx = i, !.ver = disk[i], !.gen = gen]
  <2>1. disk[i] \in Nat /\ gen \in Nat
    BY DEF Typed
  <2>2. j \in Jobs /\ j.op # "write"
    BY <2>1, NoJobTyped, JobFields, IndexTyped DEF NoJob
  <2>3. /\ Goto(t, "decrypt", j) /\ ~Writing(t) /\ pc[t] # "shrink"
        /\ UNCHANGED <<len, size, fails, cut>>
    BY <1>2 DEF BeginRead, Growth, WritersPlaced, WriterAt, table, bounds
  <2> HIDE DEF j
  <2> QED  BY <2>2, <2>3, OtherGrowth
<1>3. ASSUME NEW i \in Index, Fallocate(t, i)  PROVE Growth'
  BY <1>3, FallocateGrowth
<1>4. ASSUME BeginFlush(t)  PROVE Growth'
  <2> DEFINE j == [NoJob EXCEPT !.op = "flush", !.gen = gen, !.n = len]
  <2>1. len \in 0..MaxChunks /\ gen \in Nat
    BY DEF Typed
  <2>2. j \in Jobs /\ j.op # "write"
    BY <2>1, NoJobTyped, JobFields DEF NoJob
  <2>3. /\ Goto(t, "find", j) /\ ~Writing(t) /\ pc[t] # "shrink"
        /\ UNCHANGED <<len, size, fails, cut>>
    BY <1>4 DEF BeginFlush, Growth, WritersPlaced, WriterAt, table, bounds
  <2> HIDE DEF j
  <2> QED  BY <2>2, <2>3, OtherGrowth
<1>5. ASSUME BeginTruncate(t)  PROVE Growth'
  <2> DEFINE j == [NoJob EXCEPT !.op = "trunc", !.gen = gen, !.n = len]
  <2>1. len \in 0..MaxChunks /\ gen \in Nat
    BY DEF Typed
  <2>2. j \in Jobs /\ j.op # "write"
    BY <2>1, NoJobTyped, JobFields DEF NoJob
  <2>3. /\ Goto(t, "remove", j) /\ ~Writing(t) /\ pc[t] # "shrink"
        /\ UNCHANGED <<len, size, fails, cut>>
    BY <1>5 DEF BeginTruncate, Growth, WritersPlaced, WriterAt, table
  <2> HIDE DEF j
  <2> QED  BY <2>2, <2>3, OtherGrowth
<1> QED  BY <1>1, <1>2, <1>3, <1>4, <1>5 DEF Request

\* A write that ends takes the size to where the table is, unless that is
\* another one's chunk.
LEMMA EndSaveGrowth ==
  ASSUME Typed, Growth, NEW t \in Threads, EndSave(t)
  PROVE  Growth'
<1>0. /\ job[t] \in Jobs /\ NoJob \in Jobs /\ NoJob.op = "none"
      /\ len \in Nat /\ size \in Nat
  BY NoJobTyped DEF Typed, NoJob
<1>1. \A u \in Threads : Writing(u)' <=> Writing(u) /\ u # t
  BY <1>0 DEF EndSave, Goto, Writing, Typed
<1>2. \A u \in Threads : u # t => job'[u] = job[u] /\ pc'[u] = pc[u]
  BY DEF EndSave, Goto, Typed
<1>3. \A u \in Threads : Shrinking(u)' <=> Shrinking(u)
  BY <1>2 DEF EndSave, Goto, Shrinking, Typed
<1>4. len' = len /\ fails' = fails /\ cut' = cut /\ (Settled' <=> Settled)
  BY <1>3 DEF EndSave, bounds, Settled
<1>5. CASE Writing(t)
  <2>1. size' = (IF size >= job[t].idx THEN size ELSE job[t].idx) /\ job[t].idx \in Nat
    BY <1>0, <1>5 DEF EndSave, NatMax, Jobs
  <2>2. WritersPlaced' /\ Cleared'
    BY <1>1, <1>2, <1>3, <1>4 DEF Growth, WritersPlaced, Cleared
  <2>3. Settled => size' <= len
    BY <1>0, <1>5, <2>1 DEF Growth, Covers
  <2>4. Covers'
    BY <1>1, <1>2, <1>4, <2>3 DEF Growth, Covers
  <2>5. Explained'
    <3> SUFFICES ASSUME Settled, fails = 0, len # size'
                 PROVE  \E u \in Threads : Writing(u)' /\ job'[u].idx = len
      BY <1>4 DEF Explained
    <3>1. size <= len /\ job[t].idx <= len
      BY <1>5 DEF Growth, Covers
    <3>2. len # size /\ job[t].idx # len
      BY <1>0, <2>1, <3>1
    <3>3. PICK u \in Threads : Writing(u) /\ job[u].idx = len
      BY <3>2 DEF Growth, Explained
    <3> QED  BY <1>1, <1>2, <3>2, <3>3
  <2> QED  BY <2>2, <2>4, <2>5 DEF Growth
<1>6. CASE ~Writing(t)
  BY <1>0, <1>4, <1>6, OtherGrowth DEF EndSave
<1> QED  BY <1>5, <1>6

\* A truncation clears the table, and nobody writes unless it says so.
LEMMA ClearChunksGrowth ==
  ASSUME Typed, Growth, NEW t \in Threads, ClearChunks(t)
  PROVE  Growth'
<1>1. /\ job' = [job EXCEPT ![t] = NoJob] /\ pc' = [pc EXCEPT ![t] = "shrink"]
      /\ pc[t] = "remove" /\ len' = 0 /\ (cut' <=> \E u \in Threads : Writing(u))
  BY DEF ClearChunks, Goto
<1>2. ~Writing(t)
  BY <1>1 DEF Growth, WritersPlaced, WriterAt
<1>3. \A u \in Threads : (Writing(u)' <=> Writing(u)) /\ (Writing(u) => pc'[u] = pc[u])
  BY <1>1, <1>2 DEF Writing, Typed, NoJob
<1>4. Shrinking(t)' /\ ~Settled'
  BY <1>1 DEF Shrinking, Settled, Typed
<1> QED
  BY <1>1, <1>3, <1>4 DEF Growth, WritersPlaced, Covers, Explained, Cleared

\* And then the size.
LEMMA ClearSizeGrowth ==
  ASSUME Typed, Growth, NEW t \in Threads, ClearSize(t)
  PROVE  Growth'
<1>1. /\ job' = [job EXCEPT ![t] = NoJob] /\ pc' = [pc EXCEPT ![t] = "idle"]
      /\ pc[t] = "shrink" /\ Shrinking(t) /\ size' = 0 /\ len' = len /\ cut' = cut
  BY DEF ClearSize, Goto, Shrinking
<1>2. ~Writing(t)
  BY <1>1 DEF Growth, WritersPlaced, WriterAt
<1>3. \A u \in Threads : (Writing(u)' <=> Writing(u)) /\ (Writing(u) => pc'[u] = pc[u])
  BY <1>1, <1>2 DEF Writing, Typed, NoJob
<1>4. ~cut => len = 0 /\ \A u \in Threads : ~Writing(u)
  BY <1>1 DEF Growth, Cleared
<1>5. \A u \in Threads : Shrinking(u)' => Shrinking(u)
  BY <1>1 DEF Shrinking, Typed
<1>6. ASSUME Settled'  PROVE len' = 0 /\ size' = 0 /\ \A u \in Threads : ~Writing(u)'
  BY <1>1, <1>3, <1>4, <1>6 DEF Settled
<1>7. Covers' /\ Explained'
  BY <1>6 DEF Covers, Explained
<1>8. Cleared'
  BY <1>1, <1>3, <1>4 DEF Cleared
<1> QED
  BY <1>3, <1>7, <1>8 DEF Growth, WritersPlaced

\* A request goes on: one that fails gives up the explanation.
LEMMA StepGrowth ==
  ASSUME Typed, Growth, NEW t \in Threads, Step(t)
  PROVE  Growth'
<1>0. job[t] \in Jobs /\ NoJob \in Jobs /\ NoJob.op = "none" /\ fails \in Nat
  BY NoJobTyped DEF Typed, NoJob
<1>1. CASE Put(t)
  <2>1. /\ Goto(t, "evict", Saving(t)) /\ "evict" \in WriterAt /\ pc[t] # "shrink"
        /\ UNCHANGED <<len, size, fails, cut>>
    BY <1>1 DEF Put, WriterAt, table, bounds
  <2> QED  BY <2>1, SavingTyped, SaveGrowth
<1>2. ASSUME NEW i \in Index, Pop(t, i)  PROVE Growth'
  <2> DEFINE j == [job[t] EXCEPT !.ver = cached[i], !.old = i, !.gen = gen]
  <2>1. cached[i] \in Nat /\ gen \in Nat
    BY DEF Typed
  <2>2. j \in Jobs /\ j.op = job[t].op /\ j.idx = job[t].idx
    BY <1>0, <2>1, JobFields, IndexTyped DEF Jobs
  <2>3. /\ Goto(t, "save", j) /\ "save" \in WriterAt /\ pc[t] # "shrink"
        /\ UNCHANGED <<len, size, fails, cut>>
    BY <1>2 DEF Pop, WriterAt, table, bounds
  <2> HIDE DEF j
  <2> QED  BY <2>2, <2>3, SaveGrowth
<1>3. CASE EvictSave(t)
  <2>1. /\ Goto(t, "settag", job[t]) /\ "settag" \in WriterAt /\ pc[t] # "shrink"
        /\ UNCHANGED <<len, size, fails, cut>>
    BY <1>3 DEF EvictSave, WriterAt, table, bounds
  <2> QED  BY <1>0, <2>1, SaveGrowth
<1>4. CASE EvictTag(t)
  <2>1. /\ Goto(t, "evict", Saving(t)) /\ "evict" \in WriterAt /\ pc[t] # "shrink"
        /\ UNCHANGED <<len, size, fails, cut>>
    BY <1>4 DEF EvictTag, WriterAt, bounds
  <2> QED  BY <2>1, SavingTyped, SaveGrowth
<1>5. CASE EndSave(t)
  BY <1>5, EndSaveGrowth
<1>6. CASE EndRead(t)
  <2>1. ~Writing(t) /\ pc[t] # "shrink" /\ UNCHANGED <<len, size, fails, cut>>
    BY <1>6 DEF EndRead, Growth, WritersPlaced, WriterAt, table, bounds
  <2>2. PICK l : Goto(t, l, NoJob) /\ l # "shrink"
    BY <1>6 DEF EndRead
  <2> QED  BY <1>0, <2>1, <2>2, OtherGrowth
<1>7. CASE Find(t)
  <2>1. ~Writing(t) /\ pc[t] # "shrink" /\ UNCHANGED <<len, size, fails, cut>>
    BY <1>7 DEF Find, Growth, WritersPlaced, WriterAt, table, bounds
  <2> DEFINE i == job[t].idx
             j == [job[t] EXCEPT !.ver = cached[i], !.old = i]
  <2>2. CASE Goto(t, "ftag", j)
    <3>1. job[t].n \in 0..MaxChunks /\ i \in Nat \ {0}
      BY <1>0 DEF Jobs
    <3>2. i \in Index
      BY <1>7, <3>1, TableAssumption DEF Find, Index
    <3>3. cached[i] \in Nat
      BY <3>2 DEF Typed
    <3>4. j \in Jobs /\ j.op = job[t].op
      BY <1>0, <3>1, <3>3, JobFields DEF Jobs
    <3> HIDE DEF j
    <3> QED  BY <2>1, <2>2, <3>4, OtherGrowth DEF Writing
  <2>3. CASE NextChunk(t)
    BY <2>1, <2>3, NextChunkGrowth
  <2> QED  BY <1>7, <2>2, <2>3 DEF Find
<1>8. CASE FlushTag(t)
  <2>1. /\ ~Writing(t) /\ pc[t] # "shrink" /\ UNCHANGED <<len, size, fails, cut>>
        /\ Goto(t, "fsave", job[t])
    BY <1>8 DEF FlushTag, Growth, WritersPlaced, WriterAt, bounds
  <2> QED  BY <1>0, <2>1, OtherGrowth DEF Writing
<1>9. CASE FlushSave(t)
  <2>1. /\ ~Writing(t) /\ pc[t] # "shrink" /\ UNCHANGED <<len, size, fails, cut>>
        /\ NextChunk(t)
    BY <1>9 DEF FlushSave, Growth, WritersPlaced, WriterAt, table, bounds
  <2> QED  BY <2>1, NextChunkGrowth
<1>10. CASE EndFlush(t)
  <2>1. /\ ~Writing(t) /\ pc[t] # "shrink" /\ UNCHANGED <<len, size, fails, cut>>
        /\ Goto(t, "idle", NoJob)
    BY <1>10 DEF EndFlush, Growth, WritersPlaced, WriterAt, table, bounds
  <2> QED  BY <1>0, <2>1, OtherGrowth
<1>11. CASE Fail(t)
  <2>1. fails' # 0 /\ len' = len /\ size' = size /\ cut' = cut
    BY <1>0, <1>11 DEF Fail, table
  <2>2. \A u \in Threads : Writing(u)' <=> Writing(u) /\ u # t
    BY <1>0, <1>11 DEF Fail, Goto, Writing, Typed
  <2>3. \A u \in Threads : u # t => job'[u] = job[u] /\ pc'[u] = pc[u]
    BY <1>11 DEF Fail, Goto, Typed
  <2>4. \A u \in Threads : Shrinking(u)' <=> Shrinking(u)
    BY <1>11, <2>3 DEF Fail, Goto, Shrinking, Typed
  <2>5. Settled' <=> Settled
    BY <2>1, <2>4 DEF Settled
  <2> QED
    BY <2>1, <2>2, <2>3, <2>4, <2>5 DEF Growth, WritersPlaced, Covers, Explained, Cleared
<1>12. CASE Remove(t)
  <2>1. /\ ~Writing(t) /\ pc[t] # "shrink" /\ UNCHANGED <<len, size, fails, cut>>
        /\ Goto(t, "remove", [job[t] EXCEPT !.idx = @ + 1])
    BY <1>12 DEF Remove, Growth, WritersPlaced, WriterAt, table, bounds
  <2>2. PICK j : j = [job[t] EXCEPT !.idx = @ + 1]
    OBVIOUS
  <2>3. j \in Jobs /\ j.op = job[t].op
    BY <1>0, <2>2, JobFields DEF Jobs
  <2> QED  BY <2>1, <2>2, <2>3, OtherGrowth DEF Writing
<1>13. CASE ClearChunks(t)
  BY <1>13, ClearChunksGrowth
<1>14. CASE ClearSize(t)
  BY <1>14, ClearSizeGrowth
<1> QED
  BY <1>1, <1>2, <1>3, <1>4, <1>5, <1>6, <1>7, <1>8, <1>9, <1>10, <1>11, <1>12, <1>13,
     <1>14 DEF Step

\* Only the end of a flush stores, and what it stores fits or is early.
LEMMA StoredFitsStep ==
  ASSUME Typed, Growth, StoredFits, NEW t \in Threads, Step(t) \/ Request(t)
  PROVE  StoredFits'
<1>1. CASE EndFlush(t)
  <2>1. /\ stored' = [len |-> len, size |-> size]
        /\ early' = (Extending # {} \/ fails > 0 \/ cut \/ \E u \in Threads : Shrinking(u))
    BY <1>1 DEF EndFlush
  <2>2. len \in Nat /\ size \in Nat /\ fails \in Nat
    BY DEF Typed
  <2>3. ASSUME len # size, fails = 0, Settled  PROVE Extending # {}
    <3>1. PICK u \in Threads : Writing(u) /\ job[u].idx = len
      BY <2>3 DEF Growth, Explained
    <3>2. size <= len
      BY <2>3 DEF Growth, Covers
    <3>3. u \in Extending
      BY <2>2, <2>3, <3>1, <3>2 DEF Extending
    <3> QED  BY <3>3
  <2>4. ASSUME len # size
        PROVE  Extending # {} \/ fails > 0 \/ cut \/ \E u \in Threads : Shrinking(u)
    BY <2>2, <2>3, <2>4 DEF Settled
  <2>5. stored'.len = len /\ stored'.size = size
    BY <2>1
  <2>6. early' <=> Extending # {} \/ fails > 0 \/ cut \/ \E u \in Threads : Shrinking(u)
    BY <2>1
  <2> QED  BY <2>4, <2>5, <2>6 DEF StoredFits
<1>2. CASE UNCHANGED <<stored, early>>
  BY <1>2 DEF StoredFits
<1>3. EndFlush(t) \/ UNCHANGED <<stored, early>>
  BY DEF Step, Request, Put, Pop, EvictSave, EvictTag, EndSave, EndRead, Find, FlushTag,
         FlushSave, Fail, Remove, ClearChunks, ClearSize, BeginWrite, BeginRead, Fallocate,
         BeginFlush, BeginTruncate
<1> QED  BY <1>1, <1>2, <1>3

-----------------------------------------------------------------------------
(* Theorems.                                                               *)

\* The invariant is inductive.
LEMMA InitInv == Init => IInv
BY InitTyped, InitGrowth DEF IInv

\* Every step keeps it.
LEMMA NextInv == IInv /\ [Next]_vars => IInv'
<1> SUFFICES ASSUME IInv, [Next]_vars PROVE IInv'
  OBVIOUS
<1>1. CASE Next
  <2>1. PICK t \in Threads : Step(t) \/ Request(t)
    BY <1>1 DEF Next
  <2> QED
    BY <2>1, RequestTyped, StepTyped, RequestGrowth, StepGrowth, StoredFitsStep DEF IInv
<1>2. CASE UNCHANGED vars
  <2> USE <1>2 DEF vars, table, bounds
  <2>1. Typed'
    BY DEF IInv, Typed
  <2>2. Growth'
    BY DEF IInv, Growth, WritersPlaced, Covers, Explained, Cleared, Settled, Shrinking,
           Writing
  <2>3. StoredFits'
    BY DEF IInv, StoredFits
  <2> QED  BY <2>1, <2>2, <2>3 DEF IInv
<1> QED  BY <1>1, <1>2

\* So it always holds.
LEMMA InvAlways == Spec => []IInv
BY InitInv, NextInv, PTL DEF Spec

\* The chunk table is never shorter than the size of the file, whatever
\* parallel writes, fallocates, failed saves and truncations came before,
\* unless the last truncation met a write or a fallocate or is not done
\* (ecall_fs.cpp, ecall_fs_open, ecall_fs_write and ecall_fs_fallocate): no
\* read is refused for it.
THEOREM TableCovers == Spec => []TableCoversSize
<1>1. IInv => TableCoversSize
  BY DEF IInv, Growth, Covers, Settled, TableCoversSize
<1> QED  BY <1>1, InvAlways, PTL

\* What a flush stores can be loaded again, unless it overtook a write that
\* extends the file or a truncation, a save had failed before or a truncation
\* had met a write (ecall_fs.cpp, ecall_fs_flush; filenode.cpp,
\* Filenode::load).
THEOREM FlushStoresFit == Spec => []StoredFits
<1>1. IInv => StoredFits
  BY DEF IInv
<1> QED  BY <1>1, InvAlways, PTL
-----------------------------------------------------------------------------
(* Where the newest version of a chunk is.                                 *)

\* What a thread has in its hands, by where it is.
PlacedAt(t) ==
  /\ job[t].old # 0 => pc[t] \in {"save", "settag", "ftag", "fsave"} /\ job[t].old \in Index
  /\ pc[t] \in {"ftag", "fsave"} => job[t].old = job[t].idx
  /\ pc[t] \in {"save", "settag", "ftag", "fsave"} => job[t].old # 0
  /\ pc[t] \in {"put", "decrypt"} => job[t].idx \in Index
  /\ pc[t] = "put" => job[t].ver # None

\* Nobody has chunk i: its newest version is in the cache or in the storage.
Safe(i) ==
  \/ cached[i] = newest[i] /\ newest[i] # None
  \/ cached[i] = None /\ disk[i] = newest[i] /\ tag[i] = newest[i]

\* Thread t has it, and is not about to put another version of it.
InHand(t, i) ==
  /\ job[t].old = i => cached[i] = None /\ job[t].ver = newest[i]
  /\ job[t].old = i /\ pc[t] = "settag" => disk[i] = newest[i]
  /\ job[t].old = i /\ pc[t] = "fsave" => tag[i] = newest[i]
  /\ pc[t] = "decrypt" =>
       /\ cached[i] = None /\ job[t].ver = newest[i]
       /\ disk[i] = newest[i] /\ tag[i] = newest[i]

\* It has no version, and is in nobody's hands.
Blank(i) ==
  /\ cached[i] = None /\ newest[i] = None /\ tag[i] = None
  /\ \A t \in Threads : ~Holds(t, i)

Kept(i) ==
  /\ i <= len \/ Blank(i)
  /\ \A t, u \in Threads : Holds(t, i) /\ Holds(u, i) => t = u
  /\ (\A t \in Threads : ~Holds(t, i)) => Safe(i)
  /\ \A t \in Threads : Holds(t, i) => InHand(t, i)

Versions ==
  /\ DOMAIN tag = Index /\ DOMAIN newest = Index
  /\ \A t \in Threads : PlacedAt(t)
  /\ \A i \in Index \ (lost \cup Removed) : Kept(i)

\* Every other thread stays where it is.
Moves(t) == \A u \in Threads \ {t} : pc'[u] = pc[u] /\ job'[u] = job[u]

LEMMA GotoMoves ==
  ASSUME Typed, NEW t \in Threads, NEW l, NEW j, Goto(t, l, j)
  PROVE  Moves(t) /\ pc'[t] = l /\ job'[t] = j
BY DEF Goto, Moves, Typed

LEMMA NextMoves ==
  ASSUME Typed, NEW t \in Threads, Step(t) \/ Request(t)
  PROVE  Moves(t)
<1>1. CASE \E l, j : Goto(t, l, j)
  BY <1>1, GotoMoves
<1>2. CASE pc' = pc /\ job' = job
  BY <1>2 DEF Moves
<1>3. CASE \E i \in Index : Fallocate(t, i)
  BY <1>2, <1>3 DEF Fallocate
<1>4. (\A i \in Index : ~Fallocate(t, i)) => \E l, j : Goto(t, l, j)
  BY DEF Step, Request, Put, Pop, EvictSave, EvictTag, EndSave, EndRead, Find, NextChunk,
         FlushTag, FlushSave, EndFlush, Fail, Remove, ClearChunks, ClearSize,
         BeginWrite, BeginRead, BeginFlush, BeginTruncate
<1> QED  BY <1>1, <1>3, <1>4

\* A chunk whose file a truncation may have removed stays one until the table
\* is cleared.
LEMMA StaysRemoved ==
  ASSUME Typed, NEW t \in Threads, Step(t) \/ Request(t), ~ClearChunks(t),
         NEW i \in Index, i \in Removed
  PROVE  i \in Removed'
<1>1. PICK u \in Threads : pc[u] = "remove" /\ i < job[u].idx
  BY DEF Removed
<1>2. Moves(t)
  BY NextMoves
<1>3. CASE u # t
  BY <1>1, <1>2, <1>3 DEF Moves, Removed
<1>4. CASE u = t
  <2>1. Remove(t) \/ (pc' = pc /\ job' = job)
    BY <1>1, <1>4 DEF Step, Request, Put, Pop, EvictSave, EvictTag, EndSave, EndRead,
                      Find, FlushTag, FlushSave, EndFlush, Fail, ClearSize, Shrinking,
                      BeginWrite, BeginRead, Fallocate, BeginFlush, BeginTruncate
  <2>2. CASE Remove(t)
    <3>1. pc'[t] = "remove" /\ job'[t] = [job[t] EXCEPT !.idx = @ + 1]
      BY <2>2, GotoMoves DEF Remove
    <3>2. job[t] \in Jobs /\ job[t].idx \in Nat /\ i \in Nat
      BY IndexTyped DEF Typed, Jobs
    <3>3. job'[t].idx = job[t].idx + 1
      BY <3>1, <3>2 DEF Jobs
    <3>4. i < job'[t].idx
      BY <1>1, <1>4, <3>2, <3>3
    <3> QED  BY <3>1, <3>4 DEF Removed
  <2>3. CASE pc' = pc /\ job' = job
    BY <1>1, <2>3 DEF Removed
  <2> QED  BY <2>1, <2>2, <2>3
<1> QED  BY <1>3, <1>4

\* So a chunk that is not lost and not being removed after any other step was
\* kept before it.
LEMMA WasKept ==
  ASSUME Typed, Versions, NEW t \in Threads, Step(t) \/ Request(t), ~ClearChunks(t),
         Observe, NEW i \in Index \ (lost' \cup Removed')
  PROVE  Kept(i)
BY StaysRemoved DEF Versions, Observe

\* A step of t that is not about chunk i.
LEMMA NotAbout ==
  ASSUME Typed, NEW t \in Threads, Moves(t), NEW i \in Index, Kept(i),
         len' \in Nat, len' >= len,
         ~Holds(t, i), ~Holds(t, i)',
         cached'[i] = cached[i], disk'[i] = disk[i], tag'[i] = tag[i],
         newest'[i] = newest[i]
  PROVE  Kept(i)'
<1>0. i <= len => i <= len'
  BY IndexTyped DEF Typed
<1>4. Blank(i)' <=> Blank(i)
  BY DEF Moves, Holds, Blank
<1>1. \A u \in Threads : Holds(u, i)' <=> Holds(u, i)
  BY DEF Moves, Holds
<1>2. Safe(i)' <=> Safe(i)
  BY DEF Safe
<1>3. ASSUME NEW u \in Threads, Holds(u, i)'
      PROVE  InHand(u, i)'
  <2>1. u # t /\ InHand(u, i)
    BY <1>1, <1>3 DEF Kept
  <2> QED  BY <2>1 DEF InHand, Moves
<1> QED  BY <1>0, <1>1, <1>2, <1>3, <1>4 DEF Kept

\* Thread t has chunk i after the step, and nobody else unless i is lost.
LEMMA Takes ==
  ASSUME Observe, NEW t \in Threads, NEW i \in Index \ lost',
         Holds(t, i)', InHand(t, i)', i <= len'
  PROVE  Kept(i)'
<1>1. \A u \in Threads : Holds(u, i)' => u = t
  BY DEF Observe
<1> QED  BY <1>1 DEF Kept

\* It was nobody's when t did not have it before.
LEMMA WasFree ==
  ASSUME Observe, NEW t \in Threads, Moves(t), NEW i \in Index \ lost', Kept(i),
         Holds(t, i)', ~Holds(t, i)
  PROVE  Safe(i)
<1>1. \A u \in Threads : Holds(u, i)' => u = t
  BY DEF Observe
<1>2. \A u \in Threads : ~Holds(u, i)
  BY <1>1 DEF Moves, Holds
<1> QED  BY <1>2 DEF Kept

\* Thread t lets go of it.
LEMMA LetsGo ==
  ASSUME NEW t \in Threads, Moves(t), NEW i \in Index, Kept(i), len' = len,
         Holds(t, i), ~Holds(t, i)', Safe(i)'
  PROVE  Kept(i)'
<1>1. \A u \in Threads : ~Holds(u, i)'
  BY DEF Kept, Moves, Holds
<1>2. i <= len
  BY DEF Kept, Blank
<1> QED  BY <1>1, <1>2 DEF Kept

-----------------------------------------------------------------------------
\* What a thread has in its hands, one step per action.
LEMMA PlacedNext ==
  ASSUME IInv, Versions, NEW t \in Threads, Step(t) \/ Request(t), NEW u \in Threads
  PROVE  PlacedAt(u)'
<1>0. Typed /\ Moves(t) /\ PlacedAt(t) /\ PlacedAt(u) /\ job[t] \in Jobs
  BY NextMoves DEF IInv, Versions, Typed
<1>1. CASE u # t
  BY <1>0, <1>1 DEF Moves, PlacedAt
<1> SUFFICES PlacedAt(t)'
  BY <1>0, <1>1
<1>2. ASSUME NEW l, Goto(t, l, NoJob), l \notin {"save", "settag", "ftag", "fsave", "put", "decrypt"}
      PROVE  PlacedAt(t)'
  BY <1>0, <1>2, GotoMoves DEF PlacedAt, NoJob
<1>3. NextChunk(t) => PlacedAt(t)'
  <2> SUFFICES ASSUME NextChunk(t) PROVE PlacedAt(t)'
    OBVIOUS
  <2>1. pc'[t] = "find" /\ job'[t] = [job[t] EXCEPT !.idx = @ + 1, !.ver = None, !.old = 0]
    BY <1>0, GotoMoves DEF NextChunk
  <2>2. job'[t].old = 0
    BY <1>0, <2>1 DEF Jobs
  <2> QED  BY <2>1, <2>2 DEF PlacedAt
<1>4. CASE Put(t)
  <2>1. pc'[t] = "evict" /\ job'[t].old = 0
    BY <1>0, <1>4, SavingTyped, GotoMoves DEF Put
  <2> QED  BY <2>1 DEF PlacedAt
<1>5. ASSUME NEW i \in Index, Pop(t, i)  PROVE PlacedAt(t)'
  <2>1. pc'[t] = "save" /\ job'[t] = [job[t] EXCEPT !.ver = cached[i], !.old = i, !.gen = gen]
    BY <1>0, <1>5, GotoMoves DEF Pop
  <2>2. job'[t].old = i /\ i # 0
    BY <1>0, <2>1, IndexTyped DEF Jobs
  <2> QED  BY <2>1, <2>2 DEF PlacedAt
<1>6. CASE EvictSave(t)
  <2>1. pc[t] = "save" /\ pc'[t] = "settag" /\ job'[t] = job[t]
    BY <1>0, <1>6, GotoMoves DEF EvictSave
  <2> QED  BY <1>0, <2>1 DEF PlacedAt
<1>7. CASE EvictTag(t)
  <2>1. pc'[t] = "evict" /\ job'[t].old = 0
    BY <1>0, <1>7, SavingTyped, GotoMoves DEF EvictTag
  <2> QED  BY <2>1 DEF PlacedAt
<1>8. CASE \/ EndSave(t) \/ EndRead(t) \/ EndFlush(t) \/ Fail(t) \/ ClearChunks(t)
           \/ ClearSize(t)
  BY <1>2, <1>8 DEF EndSave, EndRead, EndFlush, Fail, ClearChunks, ClearSize
<1>9. CASE Find(t)
  <2>1. CASE NextChunk(t)
    BY <1>3, <2>1
  <2>2. CASE ~NextChunk(t)
    <3> DEFINE i == job[t].idx
    <3>1. i \in Index
      <4>1. job[t].n \in 0..MaxChunks /\ i \in Nat \ {0}
        BY <1>0 DEF Jobs
      <4> QED  BY <1>9, <4>1, TableAssumption DEF Find, Index
    <3>2. pc'[t] = "ftag" /\ job'[t] = [job[t] EXCEPT !.ver = cached[i], !.old = i]
      BY <1>0, <1>9, <2>2, GotoMoves DEF Find
    <3>3. job'[t].old = i /\ job'[t].idx = i /\ i # 0
      BY <1>0, <3>1, <3>2, IndexTyped DEF Jobs
    <3> QED  BY <3>1, <3>2, <3>3 DEF PlacedAt
  <2> QED  BY <2>1, <2>2
<1>10. CASE FlushTag(t)
  <2>1. pc[t] = "ftag" /\ pc'[t] = "fsave" /\ job'[t] = job[t]
    BY <1>0, <1>10, GotoMoves DEF FlushTag
  <2> QED  BY <1>0, <2>1 DEF PlacedAt
<1>11. CASE FlushSave(t)
  BY <1>3, <1>11 DEF FlushSave
<1>12. ASSUME NEW i \in Index, BeginWrite(t, i)  PROVE PlacedAt(t)'
  <2>1. /\ pc'[t] = "put"
        /\ job'[t] = [NoJob EXCEPT !.op = "write", !.idx = i, !.ver = writes + 1,
                                   !.gen = gen']
    BY <1>0, <1>12, GotoMoves DEF BeginWrite
  <2>2. writes + 1 # None
    BY <1>0 DEF Typed, None
  <2>3. job'[t].old = 0 /\ job'[t].idx = i /\ job'[t].ver = writes + 1
    BY <2>1 DEF NoJob
  <2> QED  BY <2>1, <2>2, <2>3 DEF PlacedAt
<1>13. ASSUME NEW i \in Index, BeginRead(t, i)  PROVE PlacedAt(t)'
  <2>1. /\ pc'[t] = "decrypt"
        /\ job'[t] = [NoJob EXCEPT !.op = "read", !.idx = i, !.ver = disk[i], !.gen = gen]
    BY <1>0, <1>13, GotoMoves DEF BeginRead
  <2> QED  BY <2>1 DEF PlacedAt, NoJob
<1>14. ASSUME NEW i \in Index, Fallocate(t, i)  PROVE PlacedAt(t)'
  BY <1>0, <1>14 DEF Fallocate, PlacedAt
<1>15. CASE BeginFlush(t)
  <2>1. pc'[t] = "find" /\ job'[t] = [NoJob EXCEPT !.op = "flush", !.gen = gen, !.n = len]
    BY <1>0, <1>15, GotoMoves DEF BeginFlush
  <2> QED  BY <2>1 DEF PlacedAt, NoJob
<1>16. CASE BeginTruncate(t)
  <2>1. pc'[t] = "remove" /\ job'[t] = [NoJob EXCEPT !.op = "trunc", !.gen = gen, !.n = len]
    BY <1>0, <1>16, GotoMoves DEF BeginTruncate
  <2> QED  BY <2>1 DEF PlacedAt, NoJob
<1>17. CASE Remove(t)
  <2>1. /\ pc[t] = "remove" /\ pc'[t] = "remove"
        /\ job'[t] = [job[t] EXCEPT !.idx = @ + 1]
    BY <1>0, <1>17, GotoMoves DEF Remove
  <2>2. job'[t].old = 0
    BY <1>0, <2>1 DEF Jobs, PlacedAt
  <2> QED  BY <2>1, <2>2 DEF PlacedAt
<1> QED  BY <1>4, <1>5, <1>6, <1>7, <1>8, <1>9, <1>10, <1>11, <1>12, <1>13, <1>14, <1>15,
            <1>16, <1>17 DEF Step, Request

\* Where the newest version is, for requests: only a read and a write take a
\* chunk.
LEMMA RequestKept ==
  ASSUME IInv, Versions, NEW t \in Threads, Request(t), Observe,
         NEW i \in Index \ (lost' \cup Removed')
  PROVE  Kept(i)'
<1>00. Typed
  BY DEF IInv
<1>0. /\ Typed /\ Moves(t) /\ PlacedAt(t) /\ job[t] \in Jobs
      /\ UNCHANGED <<disk, newest, cached>> /\ i # 0 /\ i \in Nat /\ len \in Nat
  <2>1. Moves(t)
    BY <1>00, NextMoves
  <2>2. UNCHANGED <<disk, newest, cached>>
    BY DEF Request, BeginWrite, BeginRead, Fallocate, BeginFlush, BeginTruncate
  <2> QED  BY <1>00, <2>1, <2>2, IndexTyped DEF Versions, Typed
<1>1. pc[t] = "idle"
  BY DEF Request, BeginWrite, BeginRead, Fallocate, BeginFlush, BeginTruncate
<1>2. Kept(i)
  BY <1>0, <1>1, WasKept DEF ClearChunks
<1>3. ~Holds(t, i)
  BY <1>0, <1>1 DEF Holds, PlacedAt
<1>4. ASSUME NEW k \in Index, Resize(k)
      PROVE  tag'[i] = tag[i] /\ len' \in Nat /\ len' >= len /\ len' >= k
  <2>1. /\ tag'[i] = IF len < i /\ i <= k THEN None ELSE tag[i]
        /\ len' \in Nat /\ len' >= len /\ len' >= k
    BY <1>0, <1>4, ResizeTyped
  <2>2. len < i => tag[i] = None
    BY <1>0, <1>2 DEF Kept, Blank
  <2> QED  BY <2>1, <2>2
<1>5. ASSUME NEW k \in Index, Fallocate(t, k)  PROVE Kept(i)'
  <2>1. tag'[i] = tag[i] /\ len' \in Nat /\ len' >= len
    BY <1>4, <1>5 DEF Fallocate
  <2>2. ~Holds(t, i)'
    BY <1>3, <1>5 DEF Fallocate, Holds
  <2> QED  BY <1>0, <1>2, <1>3, <2>1, <2>2, NotAbout
<1>6. CASE BeginFlush(t)
  <2>1. /\ pc'[t] = "find" /\ len' = len /\ tag' = tag
        /\ job'[t] = [NoJob EXCEPT !.op = "flush", !.gen = gen, !.n = len]
    BY <1>0, <1>6, GotoMoves DEF BeginFlush, table
  <2>2. ~Holds(t, i)'
    BY <1>0, <2>1 DEF Holds, NoJob
  <2> QED  BY <1>0, <1>2, <1>3, <2>1, <2>2, NotAbout
<1>7. CASE BeginTruncate(t)
  <2>1. /\ pc'[t] = "remove" /\ len' = len /\ tag' = tag
        /\ job'[t] = [NoJob EXCEPT !.op = "trunc", !.gen = gen, !.n = len]
    BY <1>0, <1>7, GotoMoves DEF BeginTruncate, table
  <2>2. ~Holds(t, i)'
    BY <1>0, <2>1 DEF Holds, NoJob
  <2> QED  BY <1>0, <1>2, <1>3, <2>1, <2>2, NotAbout
<1>8. ASSUME NEW k \in Index, BeginWrite(t, k)  PROVE Kept(i)'
  <2>1. /\ pc'[t] = "put"
        /\ job'[t] = [NoJob EXCEPT !.op = "write", !.idx = k, !.ver = writes + 1,
                                   !.gen = gen']
    BY <1>0, <1>8, GotoMoves DEF BeginWrite
  <2>2. job'[t].old = 0 /\ job'[t].idx = k
    BY <2>1 DEF NoJob
  <2>3. tag'[i] = tag[i] /\ len' \in Nat /\ len' >= len /\ len' >= k
    BY <1>4, <1>8 DEF BeginWrite
  <2>4. Holds(t, i)' <=> i = k
    BY <1>0, <2>1, <2>2 DEF Holds
  <2>5. CASE i = k
    <3>1. InHand(t, i)'
      BY <1>0, <2>1, <2>2 DEF InHand
    <3> QED  BY <2>3, <2>4, <2>5, <3>1, Takes
  <2>6. CASE i # k
    BY <1>0, <1>2, <1>3, <2>3, <2>4, <2>6, NotAbout
  <2> QED  BY <2>5, <2>6
<1>9. ASSUME NEW k \in Index, BeginRead(t, k)  PROVE Kept(i)'
  <2>1. /\ pc'[t] = "decrypt" /\ cached[k] = None /\ k <= len /\ len' = len /\ tag' = tag
        /\ job'[t] = [NoJob EXCEPT !.op = "read", !.idx = k, !.ver = disk[k], !.gen = gen]
    BY <1>0, <1>9, GotoMoves DEF BeginRead, table
  <2>2. (Holds(t, i)' <=> i = k) /\ job'[t].old = 0 /\ job'[t].ver = disk[k]
    BY <1>0, <2>1 DEF Holds, NoJob
  <2>3. CASE i = k
    <3>1. Safe(i)
      BY <1>0, <1>2, <1>3, <2>2, <2>3, WasFree
    <3>2. disk[i] = newest[i] /\ tag[i] = newest[i]
      BY <2>1, <2>3, <3>1 DEF Safe
    <3>3. InHand(t, i)'
      BY <1>0, <2>1, <2>2, <2>3, <3>2 DEF InHand
    <3> QED  BY <2>1, <2>2, <2>3, <3>3, Takes
  <2>4. CASE i # k
    BY <1>0, <1>2, <1>3, <2>1, <2>2, <2>4, NotAbout
  <2> QED  BY <2>3, <2>4
<1> QED  BY <1>5, <1>6, <1>7, <1>8, <1>9 DEF Request

\* A write puts a new version into the cache, evictions take entries out.
LEMMA EvictKept ==
  ASSUME IInv, Versions, NEW t \in Threads, Step(t), Observe,
         NEW i \in Index \ (lost' \cup Removed'),
         \/ Put(t) \/ (\E k \in Index : Pop(t, k)) \/ EvictSave(t) \/ EvictTag(t)
         \/ EndSave(t)
  PROVE  Kept(i)'
<1>00. Typed /\ ~ClearChunks(t)
  BY DEF IInv, Put, Pop, EvictSave, EvictTag, EndSave, ClearChunks
<1>0. /\ Typed /\ Moves(t) /\ PlacedAt(t) /\ job[t] \in Jobs /\ Kept(i) /\ i # 0
      /\ DOMAIN tag = Index /\ DOMAIN newest = Index
      /\ len' = len /\ len' \in Nat /\ len' >= len
  <2>1. Moves(t) /\ Kept(i)
    BY <1>00, NextMoves, WasKept
  <2>2. len' = len
    BY DEF Put, Pop, EvictSave, EvictTag, EndSave, table
  <2> QED  BY <1>00, <2>1, <2>2, IndexTyped DEF Versions, Typed
<1>1. CASE Put(t)
  <2>1. /\ pc[t] = "put" /\ pc'[t] = "evict" /\ job'[t].old = 0
        /\ cached' = [cached EXCEPT ![job[t].idx] = job[t].ver]
        /\ newest' = [newest EXCEPT ![job[t].idx] = job[t].ver]
        /\ UNCHANGED <<disk, tag>>
    BY <1>0, <1>1, SavingTyped, GotoMoves DEF Put, table
  <2>2. (Holds(t, i) <=> i = job[t].idx) /\ ~Holds(t, i)'
    BY <1>0, <2>1 DEF Holds, PlacedAt
  <2>3. CASE i = job[t].idx
    <3>1. Safe(i)'
      BY <1>0, <2>1, <2>3 DEF Safe, PlacedAt, Typed
    <3> QED  BY <1>0, <2>2, <2>3, <3>1, LetsGo
  <2>4. CASE i # job[t].idx
    BY <1>0, <2>1, <2>2, <2>4, NotAbout DEF Typed
  <2> QED  BY <2>3, <2>4
<1>2. ASSUME NEW k \in Index, Pop(t, k)  PROVE Kept(i)'
  <2>1. /\ pc[t] = "evict" /\ pc'[t] = "save" /\ cached[k] # None
        /\ job'[t] = [job[t] EXCEPT !.ver = cached[k], !.old = k, !.gen = gen]
        /\ cached' = [cached EXCEPT ![k] = None]
        /\ UNCHANGED <<disk, tag, newest>>
    BY <1>0, <1>2, GotoMoves DEF Pop, table
  <2>2. job'[t].old = k /\ job'[t].ver = cached[k]
    BY <1>0, <2>1 DEF Jobs
  <2>3. ~Holds(t, i) /\ (Holds(t, i)' <=> i = k)
    BY <1>0, <2>1, <2>2 DEF Holds, PlacedAt
  <2>4. CASE i = k
    <3>1. Safe(i)
      BY <1>0, <2>3, <2>4, WasFree
    <3>2. InHand(t, i)'
      BY <1>0, <2>1, <2>2, <2>4, <3>1 DEF Safe, InHand, Typed
    <3>3. i <= len'
      BY <1>0, <2>1, <2>4 DEF Kept, Blank
    <3> QED  BY <2>3, <2>4, <3>2, <3>3, Takes
  <2>5. CASE i # k
    BY <1>0, <2>1, <2>3, <2>5, NotAbout DEF Typed
  <2> QED  BY <2>4, <2>5
<1>3. CASE EvictSave(t)
  <2>1. /\ pc[t] = "save" /\ pc'[t] = "settag" /\ job'[t] = job[t]
        /\ disk' = [disk EXCEPT ![job[t].old] = job[t].ver]
        /\ UNCHANGED <<cached, tag, newest>>
    BY <1>0, <1>3, GotoMoves DEF EvictSave, table
  <2>2. (Holds(t, i) <=> i = job[t].old) /\ (Holds(t, i)' <=> i = job[t].old)
    BY <2>1 DEF Holds
  <2>3. CASE i = job[t].old
    <3>1. InHand(t, i)
      BY <1>0, <2>2, <2>3 DEF Kept
    <3>2. InHand(t, i)'
      BY <1>0, <2>1, <2>3, <3>1 DEF InHand, Typed
    <3>3. i <= len'
      BY <1>0, <2>2, <2>3 DEF Kept, Blank
    <3> QED  BY <2>2, <2>3, <3>2, <3>3, Takes
  <2>4. CASE i # job[t].old
    BY <1>0, <2>1, <2>2, <2>4, NotAbout DEF Typed
  <2> QED  BY <2>3, <2>4
<1>4. CASE EvictTag(t)
  <2>1. /\ pc[t] = "settag" /\ pc'[t] = "evict" /\ job'[t].old = 0
        /\ tag' = [tag EXCEPT ![job[t].old] = job[t].ver]
        /\ UNCHANGED <<cached, disk, newest>>
    BY <1>0, <1>4, SavingTyped, GotoMoves DEF EvictTag
  <2>2. (Holds(t, i) <=> i = job[t].old) /\ ~Holds(t, i)'
    BY <1>0, <2>1 DEF Holds, Jobs
  <2>3. CASE i = job[t].old
    <3>1. InHand(t, i)
      BY <1>0, <2>2, <2>3 DEF Kept
    <3>2. Safe(i)'
      BY <1>0, <2>1, <2>3, <3>1 DEF InHand, Safe
    <3> QED  BY <1>0, <2>2, <2>3, <3>2, LetsGo
  <2>4. CASE i # job[t].old
    BY <1>0, <2>1, <2>2, <2>4, NotAbout
  <2> QED  BY <2>3, <2>4
<1>5. CASE EndSave(t)
  <2>1. /\ pc[t] = "evict" /\ pc'[t] = "idle" /\ job'[t] = NoJob
        /\ UNCHANGED <<cached, disk, tag, newest>>
    BY <1>0, <1>5, GotoMoves DEF EndSave
  <2>2. ~Holds(t, i) /\ ~Holds(t, i)'
    BY <1>0, <2>1 DEF Holds, PlacedAt, NoJob
  <2> QED  BY <1>0, <2>1, <2>2, NotAbout
<1> QED  BY <1>1, <1>2, <1>3, <1>4, <1>5

\* A flush that keeps up with the vector sets the tag and saves the data.
LEMMA FlushKept ==
  ASSUME IInv, Versions, NEW t \in Threads, Step(t), Observe,
         NEW i \in Index \ (lost' \cup Removed'),
         EndRead(t) \/ Find(t) \/ FlushTag(t) \/ FlushSave(t) \/ EndFlush(t) \/ Fail(t)
  PROVE  Kept(i)'
<1>00. Typed /\ ~ClearChunks(t)
  BY DEF IInv, EndRead, Find, FlushTag, FlushSave, EndFlush, Fail, ClearChunks
<1>0. /\ Typed /\ Moves(t) /\ PlacedAt(t) /\ job[t] \in Jobs /\ Kept(i) /\ i # 0
      /\ DOMAIN tag = Index /\ DOMAIN newest = Index
      /\ len' = len /\ len' \in Nat /\ len' >= len
  <2>1. Moves(t) /\ Kept(i)
    BY <1>00, NextMoves, WasKept
  <2>2. len' = len
    BY DEF EndRead, Find, FlushTag, FlushSave, EndFlush, Fail, table
  <2> QED  BY <1>00, <2>1, <2>2, IndexTyped DEF Versions, Typed
<1>1. CASE EndRead(t)
  <2>1. /\ pc[t] = "decrypt" /\ pc'[t] \in {"evict", "idle"} /\ job'[t] = NoJob
        /\ UNCHANGED <<cached, disk, tag, newest>>
    BY <1>0, <1>1, GotoMoves DEF EndRead, table
  <2>2. (Holds(t, i) <=> i = job[t].idx) /\ ~Holds(t, i)'
    BY <1>0, <2>1 DEF Holds, PlacedAt, NoJob
  <2>3. CASE i = job[t].idx
    <3>1. InHand(t, i)
      BY <1>0, <2>2, <2>3 DEF Kept
    <3>2. Safe(i)'
      BY <2>1, <3>1 DEF InHand, Safe
    <3> QED  BY <1>0, <2>2, <2>3, <3>2, LetsGo
  <2>4. CASE i # job[t].idx
    BY <1>0, <2>1, <2>2, <2>4, NotAbout
  <2> QED  BY <2>3, <2>4
<1>2. ASSUME NextChunk(t), pc[t] = "find", UNCHANGED <<cached, disk, tag, newest>>
      PROVE  Kept(i)'
  <2>1. pc'[t] = "find" /\ job'[t] = [job[t] EXCEPT !.idx = @ + 1, !.ver = None, !.old = 0]
    BY <1>0, <1>2, GotoMoves DEF NextChunk
  <2>2. ~Holds(t, i) /\ ~Holds(t, i)'
    BY <1>0, <1>2, <2>1 DEF Holds, PlacedAt, Jobs
  <2> QED  BY <1>0, <1>2, <2>2, NotAbout
<1>3. CASE Find(t)
  <2>1. CASE NextChunk(t)
    <3>1. pc'[t] = "find" /\ pc[t] = "find"
      BY <1>0, <1>3, <2>1, GotoMoves DEF NextChunk, Find
    <3>2. UNCHANGED <<cached, disk, tag, newest>>
      BY <1>0, <1>3, <3>1, GotoMoves DEF Find, table
    <3> QED  BY <1>2, <2>1, <3>1, <3>2
  <2>2. CASE ~NextChunk(t)
    <3> DEFINE k == job[t].idx
    <3>1. k \in Index
      <4>1. job[t].n \in 0..MaxChunks /\ k \in Nat \ {0}
        BY <1>0 DEF Jobs
      <4> QED  BY <1>3, <4>1, TableAssumption DEF Find, Index
    <3>2. /\ pc[t] = "find" /\ pc'[t] = "ftag" /\ cached[k] # None
          /\ job'[t] = [job[t] EXCEPT !.ver = cached[k], !.old = k]
          /\ cached' = [cached EXCEPT ![k] = None]
          /\ UNCHANGED <<disk, tag, newest>>
      BY <1>0, <1>3, <2>2, GotoMoves DEF Find, table
    <3>3. job'[t].old = k /\ job'[t].ver = cached[k]
      BY <1>0, <3>2 DEF Jobs
    <3>4. ~Holds(t, i) /\ (Holds(t, i)' <=> i = k)
      BY <1>0, <3>2, <3>3 DEF Holds, PlacedAt
    <3>5. CASE i = k
      <4>1. Safe(i)
        BY <1>0, <3>4, <3>5, WasFree
      <4>2. InHand(t, i)'
        BY <1>0, <3>2, <3>3, <3>5, <4>1 DEF Safe, InHand, Typed
      <4>3. i <= len'
        BY <1>0, <3>2, <3>5 DEF Kept, Blank
      <4> QED  BY <3>4, <3>5, <4>2, <4>3, Takes
    <3>6. CASE i # k
      BY <1>0, <3>2, <3>4, <3>6, NotAbout DEF Typed
    <3> QED  BY <3>5, <3>6
  <2> QED  BY <2>1, <2>2
<1>4. CASE FlushTag(t)
  <2>1. /\ pc[t] = "ftag" /\ pc'[t] = "fsave" /\ job'[t] = job[t] /\ job[t].old = job[t].idx
        /\ tag' = IF job[t].gen = gen THEN [tag EXCEPT ![job[t].idx] = job[t].ver] ELSE tag
        /\ UNCHANGED <<cached, disk, newest>>
    BY <1>0, <1>4, GotoMoves DEF FlushTag, PlacedAt
  <2>2. (Holds(t, i) <=> i = job[t].idx) /\ (Holds(t, i)' <=> i = job[t].idx)
    BY <2>1 DEF Holds
  <2>3. CASE i = job[t].idx
    <3>1. InHand(t, i)
      BY <1>0, <2>2, <2>3 DEF Kept
    <3>2. job[t].gen = gen
      BY <2>1, <2>3 DEF Observe
    <3>3. InHand(t, i)'
      BY <1>0, <2>1, <2>3, <3>1, <3>2 DEF InHand
    <3>4. i <= len'
      BY <1>0, <2>2, <2>3 DEF Kept, Blank
    <3> QED  BY <2>2, <2>3, <3>3, <3>4, Takes
  <2>4. CASE i # job[t].idx
    BY <1>0, <2>1, <2>2, <2>4, NotAbout
  <2> QED  BY <2>3, <2>4
<1>5. CASE FlushSave(t)
  <2>1. /\ pc[t] = "fsave" /\ pc'[t] = "find" /\ job[t].old = job[t].idx
        /\ job'[t] = [job[t] EXCEPT !.idx = @ + 1, !.ver = None, !.old = 0]
        /\ disk' = [disk EXCEPT ![job[t].idx] = job[t].ver]
        /\ UNCHANGED <<cached, tag, newest>>
    BY <1>0, <1>5, GotoMoves DEF FlushSave, NextChunk, PlacedAt, table
  <2>2. (Holds(t, i) <=> i = job[t].idx) /\ ~Holds(t, i)'
    BY <1>0, <2>1 DEF Holds, Jobs
  <2>3. CASE i = job[t].idx
    <3>1. InHand(t, i)
      BY <1>0, <2>2, <2>3 DEF Kept
    <3>2. Safe(i)'
      BY <1>0, <2>1, <2>3, <3>1 DEF InHand, Safe, Typed
    <3> QED  BY <1>0, <2>2, <2>3, <3>2, LetsGo
  <2>4. CASE i # job[t].idx
    BY <1>0, <2>1, <2>2, <2>4, NotAbout DEF Typed
  <2> QED  BY <2>3, <2>4
<1>6. CASE EndFlush(t)
  <2>1. /\ pc[t] = "find" /\ pc'[t] = "idle" /\ job'[t] = NoJob
        /\ UNCHANGED <<cached, disk, tag, newest>>
    BY <1>0, <1>6, GotoMoves DEF EndFlush, table
  <2>2. ~Holds(t, i) /\ ~Holds(t, i)'
    BY <1>0, <2>1 DEF Holds, PlacedAt, NoJob
  <2> QED  BY <1>0, <2>1, <2>2, NotAbout
<1>7. CASE Fail(t)
  <2>1. /\ pc[t] \in {"save", "fsave"} /\ pc'[t] = "idle" /\ job'[t] = NoJob
        /\ fails' > fails /\ UNCHANGED <<cached, disk, tag, newest>>
    BY <1>0, <1>7, GotoMoves DEF Fail, table, Typed
  <2>2. job[t].old # i
    BY <2>1 DEF Observe
  <2>3. ~Holds(t, i) /\ ~Holds(t, i)'
    BY <1>0, <2>1, <2>2 DEF Holds, NoJob
  <2> QED  BY <1>0, <2>1, <2>3, NotAbout
<1> QED  BY <1>1, <1>3, <1>4, <1>5, <1>6, <1>7

\* A truncation removes files, and leaves blanks of what nobody holds.
LEMMA TruncateKept ==
  ASSUME IInv, Versions, NEW t \in Threads, Step(t), Observe,
         NEW i \in Index \ (lost' \cup Removed'),
         Remove(t) \/ ClearChunks(t) \/ ClearSize(t)
  PROVE  Kept(i)'
<1>0. /\ Typed /\ Moves(t) /\ PlacedAt(t) /\ job[t] \in Jobs /\ i # 0 /\ i \in Nat
      /\ len \in Nat
  BY NextMoves, IndexTyped DEF IInv, Versions, Typed
<1>1. CASE Remove(t)
  <2>1. /\ pc[t] = "remove" /\ pc'[t] = "remove"
        /\ job'[t] = [job[t] EXCEPT !.idx = @ + 1]
        /\ (disk' = disk \/ disk' = [disk EXCEPT ![job[t].idx] = None])
        /\ UNCHANGED <<cached, tag, newest, len>>
    BY <1>0, <1>1, GotoMoves DEF Remove, table
  <2>2. job[t].idx \in Nat /\ job'[t].idx = job[t].idx + 1 /\ job'[t].old = job[t].old
    BY <1>0, <2>1 DEF Jobs
  <2>3. ~(i < job'[t].idx)
    BY <2>1 DEF Removed
  <2>4. i # job[t].idx
    BY <1>0, <2>2, <2>3
  <2>5. disk'[i] = disk[i]
    BY <1>0, <2>1, <2>4 DEF Typed
  <2>6. ~Holds(t, i) /\ ~Holds(t, i)'
    BY <1>0, <2>1, <2>2 DEF Holds, PlacedAt
  <2>7. Kept(i)
    <3>1. ~ClearChunks(t)
      <4>1. ASSUME ClearChunks(t)  PROVE pc'[t] = "shrink"
        BY <1>0, <4>1, GotoMoves DEF ClearChunks
      <4> QED  BY <2>1, <4>1
    <3> QED  BY <1>0, <3>1, WasKept
  <2> QED  BY <1>0, <2>1, <2>5, <2>6, <2>7, NotAbout
<1>2. CASE ClearChunks(t)
  <2>1. /\ pc[t] = "remove" /\ pc'[t] = "shrink" /\ job'[t] = NoJob /\ cached' = cached
        /\ disk'[i] = None /\ tag'[i] = None /\ newest'[i] = None
    BY <1>0, <1>2, GotoMoves DEF ClearChunks
  <2>2. cached[i] = None /\ \A u \in Threads : ~Holds(u, i)
    BY <2>1 DEF Observe, Shrinking
  <2>3. \A u \in Threads : ~Holds(u, i)'
    BY <1>0, <2>1, <2>2 DEF Holds, Moves, NoJob
  <2> QED  BY <2>1, <2>2, <2>3 DEF Kept, Blank, Safe
<1>3. CASE ClearSize(t)
  <2>1. /\ pc[t] = "shrink" /\ pc'[t] = "idle" /\ job'[t] = NoJob
        /\ UNCHANGED <<cached, disk, tag, newest, len>>
    BY <1>0, <1>3, GotoMoves DEF ClearSize, Shrinking
  <2>2. ~Holds(t, i) /\ ~Holds(t, i)'
    BY <1>0, <2>1 DEF Holds, PlacedAt, NoJob
  <2>3. Kept(i)
    BY <1>0, <2>1, WasKept DEF ClearChunks
  <2> QED  BY <1>0, <2>1, <2>2, <2>3, NotAbout
<1> QED  BY <1>1, <1>2, <1>3

LEMMA VersionsNext == IInv /\ Versions /\ [Next]_vars => Versions'
<1> SUFFICES ASSUME IInv, Versions, [Next]_vars PROVE Versions'
  OBVIOUS
<1>1. CASE Next
  <2>1. PICK t \in Threads : Step(t) \/ Request(t)
    BY <1>1 DEF Next
  <2>2. Observe
    BY <1>1 DEF Next
  <2>3. \A u \in Threads : PlacedAt(u)'
    BY <2>1, PlacedNext
  <2>4. \A i \in Index \ (lost' \cup Removed') : Kept(i)'
    BY <2>1, <2>2, RequestKept, EvictKept, FlushKept, TruncateKept DEF Step
  <2>5. DOMAIN tag' = Index /\ DOMAIN newest' = Index
    BY <2>1 DEF Versions, Step, Request, Put, Pop, EvictSave, EvictTag, EndSave, EndRead,
                Find, FlushTag, FlushSave, EndFlush, Fail, Remove, ClearChunks, ClearSize,
                BeginWrite, BeginRead, Fallocate, BeginFlush, BeginTruncate, Resize, table
  <2> QED  BY <2>3, <2>4, <2>5 DEF Versions
<1>2. CASE UNCHANGED vars
  <2>1. UNCHANGED <<tag, newest, lost, cached, disk, pc, job, len>>
    BY <1>2 DEF vars, table
  <2>2. \A t \in Threads : PlacedAt(t)' <=> PlacedAt(t)
    BY <2>1 DEF PlacedAt
  <2>3. (\A i \in Index : Kept(i)' <=> Kept(i)) /\ Removed' = Removed
    BY <2>1 DEF Kept, Blank, Holds, Safe, InHand, Removed
  <2> QED  BY <2>1, <2>2, <2>3 DEF Versions
<1> QED  BY <1>1, <1>2

LEMMA VersionsInit == Init => Versions
<1> SUFFICES ASSUME Init PROVE Versions
  OBVIOUS
<1>1. \A t \in Threads : pc[t] = "idle" /\ job[t] = NoJob
  BY DEF Init
<1>2. \A t \in Threads, i \in Index : ~Holds(t, i)
  BY <1>1, IndexTyped DEF Holds, NoJob
<1>3. \A i \in Index : Safe(i)
  BY DEF Init, Safe
<1>4. \A t \in Threads : PlacedAt(t)
  BY <1>1 DEF PlacedAt, NoJob
<1>5. \A i \in Index : Blank(i)
  BY <1>2 DEF Init, Blank
<1> QED  BY <1>2, <1>3, <1>4, <1>5 DEF Init, Versions, Kept

LEMMA VersionsAlways == Spec => [](IInv /\ Versions)
BY InvAlways, VersionsInit, VersionsNext, PTL DEF Spec

\* However often the vector moves or is cleared, the newest version of a chunk is in the
\* cache, in the hands of one thread, or in a file under the tag the table has
\* (storage.cpp, save_chunk and flush_chunk), unless the chunk is in lost or a
\* truncation is removing it.
THEOREM NewestKept == Spec => []WritesKept
<1>1. Versions => WritesKept
  BY DEF Versions, Kept, Safe, WritesKept
<1> QED  BY <1>1, VersionsAlways, PTL

\* A read that looks the tag up in a buffer that is still the vector's finds
\* the one of the file it loaded (storage.cpp, load_cache).
THEOREM ReadsFindTheirTag == Spec => []ReadsVerify
<1>1. Versions => ReadsVerify
  <2> SUFFICES ASSUME Versions, NEW t \in Threads, pc[t] = "decrypt",
                      job[t].gen = gen, job[t].idx \notin lost \cup Removed
               PROVE  Verifies(t) = {TRUE}
    BY DEF ReadsVerify
  <2>1. job[t].idx \in Index \ (lost \cup Removed)
    BY DEF Versions, PlacedAt
  <2>2. Kept(job[t].idx) /\ Holds(t, job[t].idx)
    BY <2>1 DEF Versions, Holds
  <2>3. job[t].ver = tag[job[t].idx] /\ job[t].idx <= len
    BY <2>2 DEF Kept, InHand, Blank
  <2> QED  BY <2>3 DEF Verifies
<1> QED  BY <1>1, VersionsAlways, PTL

=============================================================================
