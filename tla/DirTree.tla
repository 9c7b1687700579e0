------------------------------- MODULE DirTree -------------------------------
(***************************************************************************)
(* What the directory tree promises to those who use it, without inode     *)
(* numbers, memory and files: create, mkdir, unlink and rmdir take effect  *)
(* at once and for good; a crash may undo or keep each of those that were  *)
(* in progress, and of what it keeps it may leave the name alone, which    *)
(* then leads nowhere and is never removed.                                *)
(***************************************************************************)
EXTENDS FiniteSets

CONSTANTS
  Nodes,  \* identities of files and directories
  Root,   \* the root's, one of them
  Names,
  Kinds   \* of nodes; directories are of kind "dir"

VARIABLES
  tree,    \* the entries: in directory dir, the name of a node
  flight,  \* those that requests in progress create or remove
  broken   \* those whose node is gone

vars == <<tree, flight, broken>>

Entry == [dir : Nodes, name : Names, node : Nodes \ {Root}, kind : Kinds]

Init ==
  /\ tree \in SUBSET Entry /\ flight = {} /\ broken = {}

IsDir(n) == n = Root \/ \E e \in tree \ broken : e.node = n /\ e.kind = "dir"
IsEmpty(n) == \A e \in tree : e.dir # n

\* create and mkdir: the name is not there, the node is a new one.
Create(e) ==
  /\ IsDir(e.dir)
  /\ \A d \in tree : d.node # e.node /\ (d.dir = e.dir => d.name # e.name)
  /\ tree' = tree \cup {e} /\ flight' = flight \cup {e}
  /\ UNCHANGED broken

\* unlink and rmdir find the entry ...
BeginRemove(e) ==
  /\ flight' = flight \cup {e}
  /\ e \in tree \ broken /\ IsEmpty(e.node)
  /\ UNCHANGED <<tree, broken>>

\* ... and take it away.
Remove(e) ==
  /\ e \in flight /\ IsEmpty(e.node)
  /\ tree' = tree \ {e}
  /\ UNCHANGED <<flight, broken>>

End(e) ==
  /\ e \in flight /\ flight' = flight \ {e}
  /\ UNCHANGED <<tree, broken>>

Crash ==
  /\ flight' = {}
  /\ \E kept \in SUBSET flight : \E damaged \in SUBSET kept :
       /\ tree' = (tree \ flight) \cup kept
       /\ broken' = broken \cup damaged

Next ==
  \/ \E e \in tree' \ tree : e \in Entry /\ Create(e)
  \/ \E e \in tree : BeginRemove(e) \/ Remove(e)
  \/ \E e \in flight : End(e)
  \/ Crash

Spec == Init /\ [][Next]_vars
=============================================================================
