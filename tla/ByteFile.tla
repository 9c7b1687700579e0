------------------------------ MODULE ByteFile ------------------------------
(***************************************************************************)
(* What the data path of the enclave (read, write, fallocate, flush, open  *)
(* with O_TRUNC) promises for one file, chunk by chunk, without the cache, *)
(* the uuids, the tags and the storage: which bytes a read may return, and *)
(* which of them a crash or an unlink may take away.  Three ways in which  *)
(* the code does not keep to what one expects of a file have an action of  *)
(* their own: PutShort, Resurface and Lose.                                *)
(***************************************************************************)
EXTENDS Naturals

CONSTANTS
  C,          \* CHUNKSIZE
  MaxChunks,  \* bound: chunks of the file
  MaxWrites   \* bound: writes; the n-th one writes bytes n

VARIABLES
  arr,      \* arr[i]: the bytes of chunk i, or Lost when it cannot be read
  size,     \* the size of the file
  saved,    \* arr and size as they were when the last flush returned
  dirty,    \* chunks written or truncated since
  linked,   \* the file has a name
  removed,  \* chunks that unlink may take from those who have the file open
  stale,    \* chunks that were dropped from the file but not from the cache
  pending   \* the write or the truncation in progress

name == <<linked, removed>>
vars == <<arr, size, saved, dirty, name, stale, pending>>

Index == 1..MaxChunks
Bytes == [0..(C - 1) -> 0..MaxWrites]
Zeros == [o \in 0..(C - 1) |-> 0]
Lost == <<>>      \* not a chunk's bytes
Nothing == [off |-> 0, len |-> 0, byte |-> 0, next |-> 0]
Truncation == [Nothing EXCEPT !.next = 1]

NatMax(a, b) == IF a >= b THEN a ELSE b

Init ==
  /\ arr = [i \in Index |-> Zeros] /\ size = 0
  /\ saved = [arr |-> arr, size |-> 0]
  /\ dirty = {} /\ stale = {} /\ linked = TRUE /\ removed = {}
  /\ pending = Nothing

\* Where the write in progress lies in chunk i.
From(i) == IF (i - 1) * C >= pending.off THEN 0 ELSE pending.off - (i - 1) * C
To(i) == IF pending.off + pending.len >= i * C THEN C
         ELSE pending.off + pending.len - (i - 1) * C

BeginWrite(off, len, b) ==
  /\ pending = Nothing
  /\ pending' = [off |-> off, len |-> len, byte |-> b, next |-> off \div C + 1]
  /\ UNCHANGED <<arr, size, saved, dirty, stale, name>>

Written(i) == [o \in 0..(C - 1) |-> IF From(i) <= o /\ o < To(i) THEN pending.byte ELSE arr[i][o]]

\* Making room in the cache may change a chunk: after unlink it may take one
\* away, and a dropped chunk takes the place of the one at its index now.
Moved == {arr} \cup {[arr EXCEPT ![i] = Lost] : i \in removed}
               \cup {[arr EXCEPT ![s[1]] = s[2]] : s \in stale}

PutChunk(i, d) ==
  /\ pending.next = i /\ (i - 1) * C < pending.off + pending.len
  /\ \E a \in Moved : arr' = [a EXCEPT ![i] = d]
  /\ dirty' = dirty \cup {i}
  /\ pending' = [pending EXCEPT !.next = i + 1]
  /\ UNCHANGED <<size, saved, stale, name>>

\* The write reaches chunk i and changes no byte but its own.
Put(i) == arr[i] # Lost /\ PutChunk(i, Written(i))

\* The rest of a chunk that cannot be read becomes anything.
PutLost(i) ==
  /\ arr[i] = Lost
  /\ \E d \in Bytes :
       /\ \A o \in From(i)..(To(i) - 1) : d[o] = pending.byte
       /\ PutChunk(i, d)

\* A write that starts the chunk at the end of the file and stops just one
\* byte short of that end sets the rest of the chunk to zeros.
PutShort(i) ==
  LET last == (size - 1) % C IN
  /\ arr[i] # Lost /\ size > 0
  /\ From(i) = 0 /\ To(i) = last /\ (size - 1) \div C = i - 1
  /\ PutChunk(i, [o \in 0..(C - 1) |-> IF o >= last THEN 0 ELSE Written(i)[o]])

EndWrite ==
  /\ pending.len > 0 /\ (pending.next - 1) * C >= pending.off + pending.len
  /\ size' = NatMax(size, pending.off + pending.len)
  /\ pending' = Nothing
  /\ UNCHANGED <<arr, saved, dirty, stale, name>>

\* fallocate: the file grows, by zeros unless something was left there.
Allocate ==
  /\ pending = Nothing
  /\ \E n \in size..(C * MaxChunks) : size' = n
  /\ UNCHANGED <<arr, saved, dirty, stale, pending, name>>

\* Unflushed chunks of before may come back (Resurface).
Truncate ==
  /\ pending = Nothing
  /\ arr' = [i \in Index |-> Zeros] /\ size' = 0
  /\ dirty' = Index
  /\ stale' \in SUBSET (stale \cup {<<i, arr[i]>> : i \in dirty})
  /\ pending' = Truncation
  /\ UNCHANGED <<saved, name>>

\* When the truncation returns the file is what Truncate made of it.
EndTruncate ==
  /\ pending = Truncation /\ pending' = Nothing
  /\ UNCHANGED <<arr, size, saved, dirty, stale, name>>

Flush ==
  /\ pending = Nothing
  /\ saved' = [arr |-> arr, size |-> size] /\ dirty' = {}
  /\ UNCHANGED <<arr, size, stale, pending, name>>

\* What making room may do without a write.
Resurface ==
  /\ \E s \in stale : arr' = [arr EXCEPT ![s[1]] = s[2]]
  /\ UNCHANGED <<size, saved, dirty, stale, pending, name>>

\* A crash, or the kernel forgetting the file: what was flushed is back,
\* except for chunks touched since or hit by a dropped one.
Lapse ==
  \E gone \in SUBSET (dirty \cup {s[1] : s \in stale}) :
    /\ arr' = [i \in Index |-> IF i \in gone THEN Lost ELSE saved.arr[i]]
    /\ size' = saved.size
    /\ saved' = [arr |-> arr', size |-> size']
    /\ dirty' = {} /\ pending' = Nothing /\ removed' = {} /\ UNCHANGED linked
    /\ stale' \in SUBSET (stale \cup {<<i, arr[i]>> : i \in dirty})

\* Chunks that were written before the last flush may be taken from those
\* who have the file open, now or later (Lose); the others stay.
Unlink ==
  /\ pending = Nothing /\ linked
  /\ linked' = FALSE
  /\ removed' \in SUBSET {i \in Index : saved.arr[i] # Zeros}
  /\ saved' = [arr |-> [i \in Index |-> Zeros], size |-> 0]
  /\ UNCHANGED <<arr, size, dirty, stale, pending>>

Lose ==
  /\ \E i \in removed : arr' = [arr EXCEPT ![i] = Lost]
  /\ UNCHANGED <<size, saved, dirty, stale, pending, name>>

Next ==
  \/ \E off \in 0..(C * MaxChunks - 1), len \in 1..(C * MaxChunks), b \in 1..MaxWrites :
       off + len <= C * MaxChunks /\ BeginWrite(off, len, b)
  \/ \E i \in Index : Put(i) \/ PutLost(i) \/ PutShort(i)
  \/ Resurface \/ EndWrite \/ Allocate \/ Truncate \/ EndTruncate \/ Flush \/ Unlink \/ Lose \/ Lapse

Spec == Init /\ [][Next]_vars
=============================================================================
