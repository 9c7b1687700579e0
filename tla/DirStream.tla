------------------------------ MODULE DirStream ------------------------------
(***************************************************************************)
(* Listing a directory: secfs_opendir with its two ecalls, secfs_readdir   *)
(* and secfs_releasedir (fuse_operations.cpp), ecall_fs_get_dirent_size    *)
(* and ecall_fs_get_dirent (ecall_fs.cpp), while other threads create and  *)
(* remove entries.  The kernel does not order an opendir with changes of   *)
(* the directory, so they may come between the two ecalls and, as          *)
(* Dirnode::dirent has no lock, into the second.                           *)
(*                                                                         *)
(* One open directory and one that reads it are modelled: listings share   *)
(* nothing but the directory.                                              *)
(***************************************************************************)
EXTENDS Naturals, Sequences, SequencesExt

CONSTANTS
  Names,        \* names of entries
  LongNames,    \* those as long as dirent_t::name, or longer
  MaxInitial,   \* bound: entries to begin with
  MaxChanges,   \* bound: entries created or removed
  MaxRefused,   \* bound: ecalls of opendir that fail
  MaxRewinds    \* bound: rewinddir

ASSUME StreamAssumption ==
  /\ LongNames \subseteq Names /\ "" \notin Names
  /\ {MaxInitial, MaxChanges, MaxRefused, MaxRewinds} \subseteq Nat

VARIABLES
  dirent,   \* Dirnode::dirent
  changes, refused, rewinds,
  pc,       \* where the request is: opendir's ecalls, then the open listing
  count,    \* opendir's local count
  replied,  \* opendir has replied already
  vec,      \* the vector in fi->fh
  offset,   \* where the kernel will ask for more
  got,      \* entries the reader has been given since it opened or rewound
  twice,    \* history: one of them was given twice
  stayed,   \* history: entries that were there from the opendir to its copy
  shrunk,   \* history: an entry was removed in that time
  raced     \* history: an entry was created or removed during the copy

listing == <<vec, offset, got, twice>>
counters == <<changes, refused, rewinds>>
history == <<stayed, shrunk, raced>>
vars == <<dirent, counters, pc, count, replied, listing, history>>

\* An entry is its name and a number no other entry has had.
Numbers == 1..(MaxInitial + MaxChanges)
Entries == [name : Names, ino : Numbers]
Zeroed == [name |-> "", ino |-> 0]     \* an entry of a zeroed buffer
Huge == MaxInitial + MaxChanges + 1    \* more than the enclave can hold

InDir == ToSet(dirent)

Init ==
  /\ \E n \in 0..MaxInitial, f \in [1..MaxInitial -> Names] :
       /\ \A i, j \in 1..n : f[i] = f[j] => i = j
       /\ dirent = [i \in 1..n |-> [name |-> f[i], ino |-> i]]
  /\ changes = 0 /\ refused = 0 /\ rewinds = 0
  /\ pc = "closed" /\ count = 0 /\ replied = FALSE
  /\ vec = <<>> /\ offset = 0 /\ got = {} /\ twice = FALSE
  /\ stayed = {} /\ shrunk = FALSE /\ raced = FALSE

-----------------------------------------------------------------------------
(* Other threads.                                                          *)

Opening == pc \in {"fetch", "copy"}

Change(d) ==
  /\ changes < MaxChanges
  /\ changes' = changes + 1
  /\ dirent' = d
  /\ raced' = (raced \/ pc = "copy")
  /\ UNCHANGED <<refused, rewinds, pc, count, replied, listing>>

\* Variant: a new entry takes the first place.
CreateFirst(name) ==
  /\ \A e \in InDir : e.name # name
  /\ Change(<<[name |-> name, ino |-> MaxInitial + changes + 1]>> \o dirent)
  /\ UNCHANGED <<stayed, shrunk>>

\* ecall_fs_create and ecall_fs_mkdir push the new entry to the back.
Create(name) ==
  /\ \A e \in InDir : e.name # name
  /\ Change(Append(dirent, [name |-> name, ino |-> MaxInitial + changes + 1]))
  /\ UNCHANGED <<stayed, shrunk>>

\* ecall_fs_unlink and ecall_fs_rmdir erase it.
Unlink(i) ==
  /\ Change(RemoveAt(dirent, i))
  /\ stayed' = stayed \ {dirent[i]}
  /\ shrunk' = (shrunk \/ Opening)

-----------------------------------------------------------------------------
(* secfs_opendir.                                                          *)

\* ecall_fs_get_dirent_size.
GetSize ==
  /\ pc = "closed" /\ pc' = "fetch"
  /\ count' = Len(dirent)
  /\ stayed' = InDir /\ shrunk' = FALSE /\ raced' = FALSE
  /\ UNCHANGED <<dirent, counters, replied, listing>>

\* It fails: an error is replied, and the handler goes on with a count c.
SizeFailed(c) ==
  /\ pc = "closed" /\ pc' = "fetch" /\ refused < MaxRefused
  /\ refused' = refused + 1
  /\ replied' = TRUE
  /\ count' = c
  /\ stayed' = InDir /\ shrunk' = FALSE /\ raced' = FALSE
  /\ UNCHANGED <<dirent, changes, rewinds, listing>>

\* The ecall found no free thread in the enclave: c is what was on the stack.
GetSizeRefused == \E c \in 0..Huge : SizeFailed(c)

\* The inode has left inode_map, or is no directory: the enclave returns an
\* error, and the edge routine copies back the zeroed entnum.
GetSizeFails == SizeFailed(0)

\* A second reply to a request uses what the first one freed.
Replies(next) == pc' = IF replied THEN "fault" ELSE next

\* ecall_fs_get_dirent begins to copy.
BeginCopy ==
  /\ pc = "fetch" /\ pc' = "copy"
  /\ UNCHANGED <<dirent, counters, count, replied, listing, history>>

\* The second ecall is refused, or returns an error.
GetFails ==
  /\ pc = "fetch" /\ refused < MaxRefused
  /\ refused' = refused + 1
  /\ Replies("closed")
  /\ UNCHANGED <<dirent, changes, rewinds, count, replied, listing, history>>

\* Dirent::dump copies a name into a field; without a terminator what is read
\* back goes on with what follows the field.
Dumped(e) == IF e.name \in LongNames THEN [e EXCEPT !.name = "?"] ELSE e

\* Variant: the buffer is not zeroed.
CopiedUnclear(d) == [i \in 1..count |-> IF i <= Len(d) THEN Dumped(d[i])
                                        ELSE [name |-> "?", ino |-> 0]]

\* At most count entries; the edge routine has zeroed the buffer.
Copied(d) == [i \in 1..count |-> IF i <= Len(d) THEN Dumped(d[i]) ELSE Zeroed]

\* The first entry is dumped before i is compared with count, into no buffer
\* when count is 0; a garbage count may be more than there is memory for.
CopyFaults == (count = 0 /\ dirent # <<>>) \/ count = Huge

\* A loop over a vector that changes finds freed memory, or misses an entry
\* that moved past it.
EndCopy ==
  /\ pc = "copy"
  /\ \/ (CopyFaults \/ raced) /\ pc' = "fault" /\ UNCHANGED listing
     \/ /\ ~CopyFaults
        /\ \E d \in {dirent} \cup (IF raced THEN {RemoveAt(dirent, i) : i \in DOMAIN dirent} ELSE {}) :
             vec' = Copied(d)
        /\ offset' = 0 /\ got' = {} /\ twice' = FALSE
        /\ Replies("open")
  /\ UNCHANGED <<dirent, counters, count, replied, history>>

-----------------------------------------------------------------------------
(* secfs_readdir and secfs_releasedir.                                     *)

\* Variant: an entry is returned with its own offset.
NextOffsetSame(i) == i - 1

\* Entry vec[i], index i - 1 in the source, is returned with the offset i:
\* the kernel goes on there.
NextOffset(i) == i

\* The buffer has room for n entries.  The kernel gives the reader entry by
\* entry what is in it, and an error at a name of length 0.
Readdir(n) ==
  LET last == IF offset + n < Len(vec) THEN offset + n ELSE Len(vec)
      bad == {i \in (offset + 1)..last : vec[i].name = ""}
      good == IF bad = {} THEN last ELSE (CHOOSE i \in bad : \A j \in bad : i <= j) - 1
      given == {vec[i] : i \in (offset + 1)..good} IN
  /\ pc = "open"
  /\ got' = got \cup given
  /\ twice' = (twice \/ given \cap got # {})
  /\ offset' = IF good > offset THEN NextOffset(good) ELSE offset
  /\ pc' = IF bad # {} THEN "error" ELSE IF last = offset THEN "end" ELSE "open"
  /\ UNCHANGED <<dirent, counters, count, replied, vec, history>>

\* rewinddir: the old vector is read again.
Rewind ==
  /\ pc \in {"open", "end", "error"} /\ rewinds < MaxRewinds
  /\ rewinds' = rewinds + 1
  /\ pc' = "open" /\ offset' = 0 /\ got' = {} /\ twice' = FALSE
  /\ UNCHANGED <<dirent, changes, refused, count, replied, vec, history>>

Release ==
  /\ pc \in {"open", "end", "error"} /\ pc' = "closed"
  /\ vec' = <<>> /\ offset' = 0 /\ got' = {} /\ twice' = FALSE
  /\ count' = 0 /\ stayed' = {} /\ shrunk' = FALSE /\ raced' = FALSE
  /\ UNCHANGED <<dirent, counters, replied>>

-----------------------------------------------------------------------------
Live == pc # "fault"

Reads == \E n \in 1..2 : Readdir(n)

Next ==
  Live /\ ( \/ \E name \in Names : Create(name)
            \/ \E i \in DOMAIN dirent : Unlink(i)
            \/ GetSize \/ GetSizeRefused \/ GetSizeFails \/ BeginCopy \/ GetFails \/ EndCopy
            \/ Reads \/ Rewind \/ Release )

Spec == Init /\ [][Next]_vars

\* A handler that runs goes on, and so does a reader.
FairSpec == Spec /\ WF_vars(Live /\ (BeginCopy \/ GetFails \/ EndCopy)) /\ WF_vars(Reads)

-----------------------------------------------------------------------------
(* Properties.                                                             *)

Done == pc \in {"end", "error"}

\* However the buffers are cut and whatever is created or removed meanwhile,
\* a reader that has come to the end, or to an error, has been given each
\* entry that was there from the opendir to its copy, and nothing twice.
\* Only names as long as their field come back as others, and a change during
\* the copy may hide an entry.
ListsWhatStayed ==
  Done /\ ~raced =>
    /\ {e \in stayed : e.name \notin LongNames} \subseteq got
    /\ ~twice

\* A reader gets an error only when an entry was removed between the two
\* ecalls of opendir, or the directory changed during the copy, and is never
\* given an entry there was not.
ErrorsExplained ==
  /\ pc = "error" => shrunk \/ raced
  /\ \A e \in got : e.ino # 0

\* A reader comes to an end, or to an error, unless it rewinds or closes.
StreamsEnd == pc = "open" ~> pc # "open"
=============================================================================
