------------------------------- MODULE Volume -------------------------------
(***************************************************************************)
(* The life of a volume outside the enclave's memory: secfs_cli create     *)
(* (cli.cpp), mounting (main.cpp, app/volume.cpp, ecall_volume.cpp), and   *)
(* the requests of a session that replace or remove metadata files, down   *)
(* to LocalStorage (local.cpp) and the ocalls (ocall.cpp) that hide its    *)
(* errors.  A file is replaced in two steps, opening (which truncates it)  *)
(* and writing; the process may be killed or the write refused in between. *)
(* Several processes work on one storage at once.                          *)
(*                                                                         *)
(* A session serves one request after another here; its threads, inode     *)
(* numbers and directories below the root are Namespace's subject.         *)
(***************************************************************************)
EXTENDS Naturals, Sequences

CONSTANTS
  Procs,       \* processes, each a secfs_cli or a secfs at a time
  Configs,     \* names of configuration files
  Base,        \* the one the user has written
  MaxVolumes,  \* bound: volumes created
  MaxNodes,    \* bound: files created in the roots
  MaxKills,    \* bound: processes killed
  MaxRefused   \* bound: saves the storage refuses

ASSUME VolumeAssumption ==
  /\ Base \in Configs
  /\ {MaxVolumes, MaxNodes, MaxKills, MaxRefused} \subseteq Nat
  \* No configuration lies in the storage under the name of a uuid.
  /\ Configs \cap ((1..MaxVolumes) \X {"user", "root", "super"}) = {}
  /\ Configs \cap ((1..MaxNodes) \X {"node"}) = {}

VARIABLES
  files,    \* the files: metadata in the storage, and configurations
  proc,     \* what each process does
  vols,     \* volumes created so far; their numbers stand for their uuids
  nodes,    \* nodes created so far, likewise
  kills, refused,
  kept,     \* history: <<v, n>>: node n was created in the root of v, the
            \* kernel was told so, and has not removed it
  excused,  \* history: nodes of requests that a kill cut short or the
            \* storage refused, or that were there while two sessions were
  broken    \* history: files left truncated

counters == <<vols, nodes, kills, refused>>
history == <<kept, excused, broken>>
vars == <<files, proc, counters, history>>

Volumes == 1..MaxVolumes
Nodes == 1..MaxNodes
Parts == {"user", "root", "super"}
Files == (Volumes \X Parts) \cup (Nodes \X {"node"}) \cup Configs

Absent == [st |-> "absent", val |-> 0]
Empty == [st |-> "empty", val |-> 0]
Partial == [st |-> "partial", val |-> 0]
Whole(x) == [st |-> "whole", val |-> x]

Fields == {"key_path", "public_key_path", "enclave_path", "storage"}
Off == [pc |-> "off", vol |-> 0, ents |-> {}, node |-> 0, todo |-> <<>>, opened |-> FALSE]

\* The user has written a configuration with some of the fields; those it has
\* name what can be loaded.
Init ==
  /\ \E fs \in SUBSET Fields :
       files = [f \in Files |-> IF f = Base THEN Whole([fields |-> fs, vol |-> 0]) ELSE Absent]
  /\ proc = [p \in Procs |-> Off]
  /\ vols = 0 /\ nodes = 0 /\ kills = 0 /\ refused = 0
  /\ kept = {} /\ excused = {} /\ broken = {}

\* LocalStorage::remove_file.
RemoveFile(f) == files' = [files EXCEPT ![f] = Absent]

Become(p, r) == proc' = [proc EXCEPT ![p] = r]

-----------------------------------------------------------------------------
(* Configurations.                                                         *)

\* Volume::load_config: a truncated file does not parse.
LoadsConfig(c) == files[c].st = "whole"

LoadsKey(cfg) == "key_path" \in cfg.fields
LoadsPubkey(cfg) == "public_key_path" \in cfg.fields
InitsEnclave(cfg) == "enclave_path" \in cfg.fields

\* Only type "local" is known.
LoadsApi(cfg) == "storage" \in cfg.fields
InitsStorage(cfg) == LoadsApi(cfg)

\* superinfo, uid and volume_key are there, written by create_volume.
NamesVolume(cfg) == cfg.vol # 0

\* What mounting asks of a configuration, besides the volume's files.
Mounts(cfg) == NamesVolume(cfg) /\ LoadsKey(cfg) /\ InitsEnclave(cfg) /\ InitsStorage(cfg)

-----------------------------------------------------------------------------
(* Saving.  A process has a list of files to save.                         *)

Save(f, x) == [file |-> f, val |-> x]
Writing(p) == Head(proc[p].todo).file

Others(p, v) == {q \in Procs \ {p} : proc[q].pc \in {"mount", "idle", "busy"} /\ proc[q].vol = v}
\* The node p's request is about.
Subject(p) == {proc[p].node} \ {0}
InFlight == {proc[p].node : p \in {q \in Procs : proc[q].pc = "busy"}}
NodesOf(v) == {n \in Nodes : <<v, n>> \in kept}
              \cup UNION {proc[p].ents : p \in {q \in Procs : proc[q].vol = v}}

\* What may be gone when file f is not saved, but left empty or cut short:
\* without one of its parts a volume cannot be mounted.
Victims(p, f) ==
  IF f \in {proc[p].vol} \X Parts THEN NodesOf(proc[p].vol) \cup Subject(p)
  ELSE IF f = <<proc[p].node, "node">> THEN Subject(p) ELSE {}

\* LocalStorage::set_content and Volume::dump_config open the file, which
\* truncates it ...
Truncate(p) ==
  /\ proc[p].todo # <<>> /\ ~proc[p].opened
  /\ files' = [files EXCEPT ![Writing(p)] = Empty]
  /\ Become(p, [proc[p] EXCEPT !.opened = TRUE])
  /\ UNCHANGED <<counters, history>>

\* ... and write it.
Write(p) ==
  /\ proc[p].opened
  /\ files' = [files EXCEPT ![Writing(p)] = Whole(Head(proc[p].todo).val)]
  /\ Become(p, [proc[p] EXCEPT !.opened = FALSE, !.todo = Tail(@)])
  /\ broken' = broken \ {Writing(p)}
  /\ UNCHANGED <<counters, kept, excused>>

\* The file cannot be opened: set_content returns -1, which ocall_save_file
\* drops; dump_config returns false, and the process ends just as well.
RefuseOpen(p) ==
  /\ proc[p].todo # <<>> /\ ~proc[p].opened /\ refused < MaxRefused
  /\ refused' = refused + 1
  /\ Become(p, [proc[p] EXCEPT !.todo = Tail(@)])
  /\ excused' = excused \cup Subject(p)
  /\ broken' = IF files[Writing(p)].st = "whole" THEN broken ELSE broken \cup {Writing(p)}
  /\ UNCHANGED <<files, vols, nodes, kills, kept>>

\* The disk is full: nobody looks at the stream's state.
RefuseWrite(p) ==
  /\ proc[p].opened /\ refused < MaxRefused
  /\ refused' = refused + 1
  /\ \E rest \in {Empty, Partial} : files' = [files EXCEPT ![Writing(p)] = rest]
  /\ Become(p, [proc[p] EXCEPT !.opened = FALSE, !.todo = Tail(@)])
  /\ excused' = excused \cup Victims(p, Writing(p))
  /\ broken' = broken \cup {Writing(p)}
  /\ UNCHANGED <<vols, nodes, kills, kept>>

-----------------------------------------------------------------------------
(* secfs_cli create.                                                       *)

\* The user table that create_volume makes: its one owner.
UserTable == {1}

\* Variant: the configuration is dumped first.
CreateDumpsFirst(v, cfg, to) ==
  <<Save(to, [cfg EXCEPT !.vol = v]),
    Save(<<v, "user">>, UserTable), Save(<<v, "root">>, {}), Save(<<v, "super">>, 0)>>

\* ecall_create_volume saves the user table with its one owner, the empty
\* root and the Superinfo; then the configuration is dumped.
CreatesVolume(v, cfg, to) ==
  <<Save(<<v, "user">>, UserTable), Save(<<v, "root">>, {}), Save(<<v, "super">>, 0),
    Save(to, [cfg EXCEPT !.vol = v])>>

\* secfs_cli with any command; without -n the new configuration replaces the
\* old one.
Create(p, from, to) ==
  LET cfg == files[from].val
      v == vols + 1 IN
  /\ proc[p].pc = "off" /\ v <= MaxVolumes
  /\ LoadsConfig(from) /\ LoadsPubkey(cfg) /\ InitsEnclave(cfg) /\ InitsStorage(cfg)
  /\ vols' = v
  /\ Become(p, [Off EXCEPT !.pc = "create", !.vol = v, !.todo = CreatesVolume(v, cfg, to)])
  /\ UNCHANGED <<files, nodes, kills, refused, history>>

EndCreate(p) ==
  /\ proc[p].pc = "create" /\ proc[p].todo = <<>>
  /\ Become(p, Off)
  /\ UNCHANGED <<files, counters, history>>

-----------------------------------------------------------------------------
(* secfs: mounting.  proc[p].node counts the files loaded.                 *)

Mount(p, c) ==
  LET cfg == files[c].val IN
  /\ proc[p].pc = "off"
  /\ LoadsConfig(c) /\ Mounts(cfg)
  /\ Become(p, [Off EXCEPT !.pc = "mount", !.vol = cfg.vol])
  /\ excused' = IF Others(p, cfg.vol) = {} THEN excused ELSE excused \cup NodesOf(cfg.vol)
  /\ UNCHANGED <<files, counters, kept, broken>>

Loading(p) == <<"super", "user", "root">>[proc[p].node + 1]

\* load_metadata of the Superinfo, the user table, the root: a file that is
\* not whole fails to verify or aborts the enclave, and the process ends.
\* After the last one main starts the FUSE session.
LoadPart(p) ==
  LET f == files[<<proc[p].vol, Loading(p)>>] IN
  /\ proc[p].pc = "mount"
  /\ Become(p, CASE f.st # "whole" -> Off
                 [] f.st = "whole" /\ Loading(p) = "root" ->
                      [proc[p] EXCEPT !.pc = "idle", !.node = 0, !.ents = f.val]
                 [] OTHER -> [proc[p] EXCEPT !.node = @ + 1])
  /\ UNCHANGED <<files, counters, history>>

-----------------------------------------------------------------------------
(* secfs: requests.                                                        *)

SaveRoot(p, ents) == Save(<<proc[p].vol, "root">>, ents)
SaveSuper(p) == Save(<<proc[p].vol, "super">>, 0)

\* Variants: the node is not saved; the root is saved before the entry is
\* erased.
AddsWithoutNode(p, n) == <<SaveRoot(p, proc[p].ents \cup {n}), SaveSuper(p)>>
RemovesLate(p, n) == <<SaveRoot(p, proc[p].ents)>>

Adds(p, n) == <<SaveRoot(p, proc[p].ents \cup {n}), SaveSuper(p), Save(<<n, "node">>, 0)>>
Removes(p, n) == <<SaveRoot(p, proc[p].ents \ {n})>>

Busy(p, ents, n, todo) ==
  /\ Become(p, [proc[p] EXCEPT !.pc = "busy", !.ents = ents, !.node = n, !.todo = todo])
  /\ excused' = IF Others(p, proc[p].vol) = {} THEN excused ELSE excused \cup {n}

\* ecall_fs_create, ecall_fs_mkdir.
AddEntry(p) ==
  LET n == nodes + 1 IN
  /\ proc[p].pc = "idle" /\ n <= MaxNodes
  /\ nodes' = n
  /\ Busy(p, proc[p].ents \cup {n}, n, Adds(p, n))
  /\ UNCHANGED <<files, vols, kills, refused, kept, broken>>

\* load_metadata takes 16 from the size of the file it has loaded, and
\* allocates what is left: the exception ends the enclave.
Aborts(n) == files[<<n, "node">>].st = "empty"
Abort(p) == Become(p, [proc[p] EXCEPT !.pc = "dead"])

\* ecall_fs_lookup of a node the kernel has forgotten.  Otherwise it changes
\* nothing here: the node is loaded, or the kernel gets an error.
Lookup(p, n) ==
  /\ proc[p].pc = "idle" /\ n \in proc[p].ents
  /\ Aborts(n) /\ Abort(p)
  /\ UNCHANGED <<files, counters, history>>

\* ecall_fs_unlink, ecall_fs_rmdir: a node that cannot be loaded stays.
RemoveEntry(p, n) ==
  /\ proc[p].pc = "idle" /\ n \in proc[p].ents
  /\ \/ /\ Aborts(n) /\ Abort(p)
        /\ UNCHANGED <<files, excused>>
     \/ /\ files[<<n, "node">>].st = "whole"
        /\ RemoveFile(<<n, "node">>)
        /\ Busy(p, proc[p].ents \ {n}, n, Removes(p, n))
  /\ UNCHANGED <<counters, kept, broken>>

\* The kernel gets its reply, whatever became of the saves.
Reply(p) ==
  LET n == proc[p].node IN
  /\ proc[p].pc = "busy" /\ proc[p].todo = <<>>
  /\ Become(p, [proc[p] EXCEPT !.pc = "idle", !.node = 0])
  /\ kept' = IF n \in proc[p].ents THEN kept \cup {<<proc[p].vol, n>>}
             ELSE kept \ {<<proc[p].vol, n>>}
  /\ UNCHANGED <<files, counters, excused, broken>>

-----------------------------------------------------------------------------
\* main returns, or is killed, when nothing is left to save.
Umount(p) ==
  /\ proc[p].pc \in {"mount", "idle", "dead"}
  /\ Become(p, Off)
  /\ UNCHANGED <<files, counters, history>>

Kill(p) ==
  /\ proc[p].pc \in {"create", "busy"} /\ kills < MaxKills
  /\ kills' = kills + 1
  /\ Become(p, Off)
  /\ excused' = excused \cup Subject(p)
                \cup (IF proc[p].opened THEN Victims(p, Writing(p)) ELSE {})
  /\ broken' = broken \cup (IF proc[p].opened THEN {Writing(p)} ELSE {})
  /\ UNCHANGED <<files, vols, nodes, refused, kept>>

Next ==
  \E p \in Procs :
    \/ \E c, d \in Configs : Create(p, c, d)
    \/ \E c \in Configs : Mount(p, c)
    \/ \E n \in Nodes : Lookup(p, n) \/ RemoveEntry(p, n)
    \/ Truncate(p) \/ Write(p) \/ RefuseOpen(p) \/ RefuseWrite(p)
    \/ EndCreate(p) \/ LoadPart(p) \/ AddEntry(p) \/ Reply(p)
    \/ Umount(p) \/ Kill(p)

Spec == Init /\ [][Next]_vars

-----------------------------------------------------------------------------
(* Properties.                                                             *)

Rewriting == {Writing(p) : p \in {q \in Procs : proc[q].opened}}

\* Unless a kill or a full disk cut it short, or it is being replaced.
Sound(f) == files[f].st = "whole" \/ f \in broken \cup Rewriting

\* A configuration that is there is sound, and one that names a volume and a
\* private key leads to a volume that mounts: mounting accepts what the
\* configuration says, and the user table, the root and the Superinfo it loads
\* are sound.  A volume made from a configuration without key_path cannot be
\* mounted through what secfs_cli dumps, and is exempt by that name.
ConfigNamesVolume ==
  \A c \in Configs : LET cfg == files[c].val IN
    /\ files[c].st = "absent" \/ Sound(c)
    /\ files[c].st = "whole" /\ NamesVolume(cfg) /\ LoadsKey(cfg) =>
         Mounts(cfg) /\ \A part \in Parts : Sound(<<cfg.vol, part>>)

\* What the kernel was told is what the next session finds, however many
\* sessions came and went: a created node is in the root and can be loaded, and
\* its volume can be mounted, a removed one is not - except for nodes that were
\* there when one of the volume's parts was cut short, that a kill or a refused
\* save was about, or that two sessions on one volume had to do with.
EntriesKept ==
  \A v \in 1..vols, n \in Nodes \ (excused \cup InFlight) :
    LET root == files[<<v, "root">>] IN
    /\ root.st = "whole" => (n \in root.val <=> <<v, n>> \in kept)
    /\ <<v, n>> \in kept =>
         /\ \A part \in Parts : files[<<v, part>>].st = "whole" \/ <<v, part>> \in Rewriting
         /\ files[<<n, "node">>].st = "whole"

\* A session's view of the root is the stored one whenever it is idle, but
\* for excused nodes: a stale view would be written over the newer one.
ViewsFresh ==
  \A p \in Procs : LET root == files[<<proc[p].vol, "root">>] IN
    proc[p].pc = "idle" /\ root.st = "whole" =>
      \A n \in (root.val \ proc[p].ents) \cup (proc[p].ents \ root.val) : n \in excused
=============================================================================
