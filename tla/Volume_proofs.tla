---------------------------- MODULE Volume_proofs ----------------------------
(***************************************************************************)
(* Theorems about Volume for any number of processes, configurations,      *)
(* volumes and files: what a configuration names can be mounted, what the  *)
(* kernel was told of a node is what the storage holds, and no session     *)
(* works on a stale view of the root.                                      *)
(*                                                                         *)
(* The argument: a process's list of saves says which files its request    *)
(* has not reached yet; all others are sound.  About a node that no kill,  *)
(* refused save or second session had to do with, the stored root, every   *)
(* session's view and the kernel agree, but for the one request that is    *)
(* changing it, and the session it belongs to is alone on its volume.      *)
(***************************************************************************)
EXTENDS Volume, SequenceTheorems, TLAPS

-----------------------------------------------------------------------------
(* The inductive invariant.                                                *)

Pcs == {"off", "create", "mount", "idle", "busy", "dead"}
Cfg == [fields : SUBSET Fields, vol : 0..MaxVolumes]
Saves == [file : Files, val : Cfg \cup (SUBSET Nodes) \cup {0, UserTable}]
States == [pc : Pcs, vol : 0..MaxVolumes, ents : SUBSET Nodes, node : Nat,
           todo : Seq(Saves), opened : BOOLEAN]

\* What secfs_cli saves: the parts of a volume, then a configuration.
PartSave(s, v) == \E part \in Parts : s.file = <<v, part>> /\ (part = "root" => s.val = {})
ConfigSave(s, v) ==
  s.file \in Configs /\ s.val \in Cfg /\ s.val.vol = v /\ InitsEnclave(s.val) /\ InitsStorage(s.val)

\* What a request saves.
RequestSave(s, r) ==
  \/ s.file = <<r.vol, "root">> /\ s.val = r.ents
  \/ s.file = <<r.vol, "super">>
  \/ s.file = <<r.node, "node">>

\* A process, when vs volumes and nd nodes have been created.
Shape(r, vs, nd) ==
  /\ r \in States /\ r.vol <= vs /\ (r.vol = 0 <=> r.pc = "off") /\ r.ents \subseteq 1..nd
  /\ r.opened => r.todo # <<>>
  /\ r.todo # <<>> => r.pc \in {"create", "busy"}
  /\ r.pc = "create" =>
       /\ r.node = 0
       /\ \A i \in DOMAIN r.todo : IF i = Len(r.todo) THEN ConfigSave(r.todo[i], r.vol)
                                   ELSE PartSave(r.todo[i], r.vol)
  /\ r.pc = "mount" => r.node \in 0..2
  /\ r.pc = "busy" => r.node \in 1..nd /\ \A i \in DOMAIN r.todo : RequestSave(r.todo[i], r)

Typed ==
  /\ DOMAIN files = Files /\ vols \in 0..MaxVolumes /\ nodes \in 0..MaxNodes
  /\ \A c \in Configs : files[c].st = "whole" =>
       files[c].val \in Cfg /\ files[c].val.vol <= vols
  /\ \A v \in Volumes : files[<<v, "root">>].st = "whole" =>
       files[<<v, "root">>].val \subseteq 1..nodes
  /\ kept \subseteq (1..vols) \X (1..nodes) /\ excused \subseteq 1..nodes
  /\ DOMAIN proc = Procs /\ \A p \in Procs : Shape(proc[p], vols, nodes)

\* The files a list of saves, or a process, has still to save.
FilesOf(s) == {s[i].file : i \in DOMAIN s}
Pend(p) == FilesOf(proc[p].todo)

\* Configurations are sound; one that names a volume has what secfs_cli needed
\* to create it, and the volume's parts are sound; so are those secfs_cli has
\* come past.
Leads(cfg) ==
  /\ InitsEnclave(cfg) /\ InitsStorage(cfg)
  /\ \A part \in Parts : Sound(<<cfg.vol, part>>)
Named ==
  /\ \A c \in Configs :
       /\ files[c].st = "absent" \/ Sound(c)
       /\ files[c].st = "whole" /\ NamesVolume(files[c].val) => Leads(files[c].val)
  /\ \A p \in Procs : proc[p].pc = "create" =>
       \A part \in Parts : <<proc[p].vol, part>> \in Pend(p) \/ Sound(<<proc[p].vol, part>>)

\* Nobody knows of a volume before its configuration is there.
Unknown ==
  \A p \in Procs : proc[p].pc = "create" /\ proc[p].todo # <<>> =>
    /\ \A c \in Configs : files[c].st = "whole" => files[c].val.vol # proc[p].vol
    /\ \A q \in Procs \ {p} : proc[q].vol # proc[p].vol
    /\ \A n \in Nodes : <<proc[p].vol, n>> \notin kept

\* The request of p is about node n; some request on volume v is.
Mine(p, n) == proc[p].pc = "busy" /\ proc[p].node = n
Flying(v, n) == \E p \in Procs : Mine(p, n) /\ proc[p].vol = v

\* A session has come past the user table.
Served(r) == r.pc \in {"idle", "busy"} \/ (r.pc = "mount" /\ r.node = 2)
Loaded == \A p \in Procs : Served(proc[p]) => files[<<proc[p].vol, "user">>].st = "whole"

RootWhole(v) == files[<<v, "root">>].st = "whole"
PartThere(v, part) == files[<<v, part>>].st = "whole" \/ <<v, part>> \in Rewriting
InRoot(v, n) == n \in files[<<v, "root">>].val
NodeWhole(n) == files[<<n, "node">>].st = "whole"

\* The stored root, the kernel and the sessions agree about n.
RootRight(n) == \A v \in Volumes :
  RootWhole(v) /\ ~Flying(v, n) => (InRoot(v, n) <=> <<v, n>> \in kept)
ViewRight(n) == \A p \in Procs :
  proc[p].pc \in {"idle", "busy"} /\ ~Mine(p, n) =>
    (n \in proc[p].ents <=> <<proc[p].vol, n>> \in kept)
FilesThere(n) == \A v \in Volumes : <<v, n>> \in kept =>
  /\ \A part \in Parts : PartThere(v, part)
  /\ NodeWhole(n) \/ \E p \in Procs : Mine(p, n)

\* The request about n is the only one, its session is alone, and n is of one
\* volume.
Alone(n) == \A p \in Procs : Mine(p, n) =>
  /\ Others(p, proc[p].vol) = {}
  /\ \A q \in Procs : Mine(q, n) => q = p
  /\ \A v \in Volumes : <<v, n>> \in kept => v = proc[p].vol
OneVolume(n) == \A v, w \in Volumes : <<v, n>> \in kept /\ <<w, n>> \in kept => v = w

\* How far the request is.
Saved(n) == \A p \in Procs : Mine(p, n) =>
  /\ <<proc[p].vol, "root">> \notin Pend(p) =>
       RootWhole(proc[p].vol) /\ (InRoot(proc[p].vol, n) <=> n \in proc[p].ents)
  /\ n \in proc[p].ents /\ <<proc[p].vol, "super">> \notin Pend(p) =>
       files[<<proc[p].vol, "super">>].st = "whole"
  /\ n \in proc[p].ents /\ <<n, "node">> \notin Pend(p) => NodeWhole(n)
  /\ n \notin proc[p].ents => <<proc[p].vol, n>> \in kept

Right(n) == /\ RootRight(n) /\ ViewRight(n) /\ FilesThere(n)
            /\ Alone(n) /\ OneVolume(n) /\ Saved(n)

Agreed == \A n \in Nodes \ excused : Right(n)

IInv == Typed /\ Named /\ Unknown /\ Loaded /\ Agreed

-----------------------------------------------------------------------------
(* Files and processes.                                                    *)

LEMMA Bounds == MaxVolumes \in Nat /\ MaxNodes \in Nat /\ Base \in Configs
BY VolumeAssumption

\* Which files there are, and that no two names are one.
LEMMA FileFacts ==
  /\ \A v \in Volumes, part \in Parts : <<v, part>> \in Files /\ <<v, part>> \notin Configs
  /\ \A v \in Volumes : <<v, "root">> \in Files /\ <<v, "root">> \notin Configs
  /\ \A n \in Nodes : <<n, "node">> \in Files /\ <<n, "node">> \notin Configs
  /\ \A c \in Configs : c \in Files
<1>1. \A v \in Volumes, part \in Parts : <<v, part>> \in Files /\ <<v, part>> \notin Configs
  BY VolumeAssumption DEF Files, Volumes, Parts
<1>2. \A n \in Nodes : <<n, "node">> \in Files /\ <<n, "node">> \notin Configs
  BY VolumeAssumption DEF Files, Nodes
<1>3. "root" \in Parts
  BY DEF Parts
<1> QED  BY <1>1, <1>2, <1>3 DEF Files

\* A process is a record.
LEMMA ProcFacts ==
  ASSUME Typed, NEW p \in Procs
  PROVE  /\ proc[p] \in States /\ Shape(proc[p], vols, nodes)
         /\ proc[p].vol \in 0..MaxVolumes /\ proc[p].node \in Nat /\ proc[p].todo \in Seq(Saves)
         /\ proc[p].opened \in BOOLEAN /\ proc[p].ents \subseteq 1..nodes
         /\ (proc[p].pc # "off" => proc[p].vol \in Volumes /\ proc[p].vol \in 1..vols)
         /\ vols \in Nat /\ nodes \in Nat /\ 1..nodes \subseteq Nodes /\ 1..vols \subseteq Volumes
<1>1. Shape(proc[p], vols, nodes) /\ vols \in 0..MaxVolumes /\ nodes \in 0..MaxNodes
  BY DEF Typed
<1>2. proc[p] \in States /\ proc[p].vol <= vols /\ (proc[p].vol = 0 <=> proc[p].pc = "off")
      /\ proc[p].ents \subseteq 1..nodes
  BY <1>1 DEF Shape
<1>3. proc[p].vol \in 0..MaxVolumes /\ proc[p].node \in Nat /\ proc[p].todo \in Seq(Saves)
      /\ proc[p].opened \in BOOLEAN
  BY <1>2 DEF States
<1> QED  BY <1>1, <1>2, <1>3, Bounds DEF Volumes, Nodes

LEMMA BecomeFacts ==
  ASSUME Typed, NEW p \in Procs, NEW r, Become(p, r)
  PROVE  /\ DOMAIN proc' = Procs /\ proc'[p] = r
         /\ \A q \in Procs \ {p} : proc'[q] = proc[q]
BY DEF Typed, Become

\* The types after a step of p.
LEMMA TypedStep ==
  ASSUME Typed, NEW p \in Procs, NEW r, Become(p, r),
         vols' \in 0..MaxVolumes, vols <= vols', nodes' \in 0..MaxNodes, nodes <= nodes',
         Shape(r, vols', nodes'),
         DOMAIN files' = Files,
         \A c \in Configs : files'[c].st = "whole" =>
           \/ files[c].st = "whole" /\ files'[c].val = files[c].val
           \/ files'[c].val \in Cfg /\ files'[c].val.vol <= vols',
         \A v \in Volumes : files'[<<v, "root">>].st = "whole" =>
           \/ files[<<v, "root">>].st = "whole" /\ files'[<<v, "root">>].val = files[<<v, "root">>].val
           \/ files'[<<v, "root">>].val \subseteq 1..nodes',
         kept' \subseteq (1..vols') \X (1..nodes'), excused' \subseteq 1..nodes'
  PROVE  Typed'
<1>1. vols \in Nat /\ nodes \in Nat /\ vols' \in Nat /\ nodes' \in Nat /\ 1..nodes \subseteq 1..nodes'
  BY Bounds DEF Typed
<1>2. DOMAIN proc' = Procs /\ proc'[p] = r /\ \A q \in Procs \ {p} : proc'[q] = proc[q]
  BY BecomeFacts
<1>3. ASSUME NEW q \in Procs \ {p}
      PROVE  Shape(proc[q], vols', nodes')
  <2>1. Shape(proc[q], vols, nodes)
    BY DEF Typed
  <2>2. proc[q].vol \in Nat
    BY ProcFacts
  <2>3. /\ proc[q] \in States /\ proc[q].vol <= vols' /\ proc[q].ents \subseteq 1..nodes'
        /\ (proc[q].pc = "busy" => proc[q].node \in 1..nodes')
    BY <1>1, <2>1, <2>2 DEF Shape
  <2> QED  BY <2>1, <2>3 DEF Shape
<1>4. \A q \in Procs : Shape(proc'[q], vols', nodes')
  BY <1>2, <1>3
<1>5. ASSUME NEW c \in Configs, files'[c].st = "whole"
      PROVE  files'[c].val \in Cfg /\ files'[c].val.vol <= vols'
  <2>1. CASE files'[c].val \in Cfg /\ files'[c].val.vol <= vols'
    BY <2>1
  <2>2. CASE files[c].st = "whole" /\ files'[c].val = files[c].val
    <3>1. files[c].val \in Cfg /\ files[c].val.vol <= vols
      BY <2>2 DEF Typed
    <3>2. files[c].val.vol \in Nat
      BY <3>1, Bounds DEF Cfg
    <3> QED  BY <1>1, <2>2, <3>1, <3>2
  <2> QED  BY <1>5, <2>1, <2>2
<1>6. ASSUME NEW v \in Volumes, files'[<<v, "root">>].st = "whole"
      PROVE  files'[<<v, "root">>].val \subseteq 1..nodes'
  BY <1>1, <1>6 DEF Typed
<1> QED  BY <1>2, <1>4, <1>5, <1>6 DEF Typed

\* The first save of a list, and the rest.
LEMMA SaveFacts ==
  ASSUME Typed, NEW p \in Procs, proc[p].todo # <<>>
  PROVE  /\ proc[p].pc \in {"create", "busy"} /\ proc[p].vol \in Volumes
         /\ proc[p].vol \in 1..vols
         /\ Writing(p) \in Files /\ Writing(p) \in Pend(p)
         /\ Tail(proc[p].todo) \in Seq(Saves)
         /\ Len(Tail(proc[p].todo)) = Len(proc[p].todo) - 1
         /\ \A i \in DOMAIN Tail(proc[p].todo) :
              i + 1 \in DOMAIN proc[p].todo /\ Tail(proc[p].todo)[i] = proc[p].todo[i + 1]
         /\ Pend(p) \subseteq FilesOf(Tail(proc[p].todo)) \cup {Writing(p)}
         /\ proc[p].pc = "create" =>
              /\ \/ \E part \in Parts : /\ Writing(p) = <<proc[p].vol, part>>
                                        /\ part = "root" => Head(proc[p].todo).val = {}
                 \/ /\ Writing(p) \in Configs /\ Head(proc[p].todo).val \in Cfg
                    /\ Head(proc[p].todo).val.vol = proc[p].vol
                    /\ InitsEnclave(Head(proc[p].todo).val) /\ InitsStorage(Head(proc[p].todo).val)
                    /\ Tail(proc[p].todo) = <<>> /\ \A f \in Pend(p) : f = Writing(p)
         /\ proc[p].pc = "busy" =>
              \/ Writing(p) = <<proc[p].vol, "root">> /\ Head(proc[p].todo).val = proc[p].ents
              \/ Writing(p) = <<proc[p].vol, "super">>
              \/ Writing(p) = <<proc[p].node, "node">>
<1> DEFINE s == proc[p].todo
<1>1. s \in Seq(Saves) /\ s # <<>> /\ Shape(proc[p], vols, nodes)
  BY ProcFacts
<1>2. /\ Len(s) \in Nat \ {0} /\ DOMAIN s = 1..Len(s) /\ Head(s) = s[1] /\ s[1] \in Saves
      /\ Tail(s) \in Seq(Saves) /\ Len(Tail(s)) = Len(s) - 1
      /\ DOMAIN Tail(s) = 1..(Len(s) - 1)
      /\ \A i \in 1..(Len(s) - 1) : Tail(s)[i] = s[i + 1]
  BY <1>1
<1>3. proc[p].pc \in {"create", "busy"}
  BY <1>1 DEF Shape
<1>4. proc[p].vol \in Volumes /\ proc[p].vol \in 1..vols
  BY <1>3, ProcFacts
<1>5. Writing(p) = s[1].file /\ Writing(p) \in Files /\ 1 \in DOMAIN s
  BY <1>2 DEF Writing, Saves
<1>6. Writing(p) \in Pend(p)
  BY <1>5 DEF Pend, FilesOf
<1>7. \A i \in DOMAIN Tail(s) : i + 1 \in DOMAIN s /\ Tail(s)[i] = s[i + 1]
  BY <1>2
<1>8. ASSUME NEW f \in Pend(p), f # Writing(p)
      PROVE  f \in FilesOf(Tail(s))
  <2>1. PICK i \in DOMAIN s : s[i].file = f
    BY DEF Pend, FilesOf
  <2>2. i # 1
    BY <1>5, <1>8, <2>1
  <2>3. i - 1 \in DOMAIN Tail(s) /\ Tail(s)[i - 1] = s[i]
    BY <1>2, <2>2
  <2> QED  BY <2>1, <2>3 DEF FilesOf
<1>9. ASSUME proc[p].pc = "create"
      PROVE  \/ \E part \in Parts : /\ Writing(p) = <<proc[p].vol, part>>
                                    /\ part = "root" => Head(s).val = {}
             \/ /\ Writing(p) \in Configs /\ Head(s).val \in Cfg
                /\ Head(s).val.vol = proc[p].vol
                /\ InitsEnclave(Head(s).val) /\ InitsStorage(Head(s).val)
                /\ Tail(s) = <<>> /\ \A f \in Pend(p) : f = Writing(p)
  <2>1. CASE Len(s) = 1
    <3>1. ConfigSave(s[1], proc[p].vol)
      BY <1>1, <1>5, <1>9, <2>1 DEF Shape
    <3>2. Tail(s) = <<>>
      BY <1>2, <2>1
    <3>3. DOMAIN Tail(s) = {}
      BY <1>2, <2>1
    <3> QED  BY <1>2, <1>5, <1>8, <3>1, <3>2, <3>3 DEF ConfigSave, FilesOf
  <2>2. CASE Len(s) # 1
    <3>1. PartSave(s[1], proc[p].vol)
      BY <1>1, <1>2, <1>5, <1>9, <2>2 DEF Shape
    <3> QED  BY <1>2, <1>5, <3>1 DEF PartSave
  <2> QED  BY <2>1, <2>2
<1>10. ASSUME proc[p].pc = "busy"
       PROVE  \/ Writing(p) = <<proc[p].vol, "root">> /\ Head(s).val = proc[p].ents
              \/ Writing(p) = <<proc[p].vol, "super">>
              \/ Writing(p) = <<proc[p].node, "node">>
  <2>1. RequestSave(s[1], proc[p])
    BY <1>1, <1>5, <1>10 DEF Shape
  <2> QED  BY <1>2, <1>5, <2>1 DEF RequestSave
<1> QED  BY <1>2, <1>3, <1>4, <1>5, <1>6, <1>7, <1>8, <1>9, <1>10

\* A file is being rewritten by some process.
LEMMA RewritingStep ==
  ASSUME Typed, NEW p \in Procs, NEW r, Become(p, r)
  PROVE  /\ \A f : f \in Rewriting <=> \E q \in Procs : proc[q].opened /\ Writing(q) = f
         /\ \A f : f \in Rewriting' <=> \/ \E q \in Procs \ {p} : proc[q].opened /\ Writing(q) = f
                                        \/ r.opened /\ Head(r.todo).file = f
<1>1. \A f : f \in Rewriting <=> \E q \in Procs : proc[q].opened /\ Writing(q) = f
  BY DEF Rewriting
<1>2. \A f : f \in Rewriting' <=> \E q \in Procs : proc'[q].opened /\ Head(proc'[q].todo).file = f
  BY DEF Rewriting, Writing
<1>3. proc'[p] = r /\ \A q \in Procs \ {p} : proc'[q] = proc[q]
  BY BecomeFacts
<1> QED  BY <1>1, <1>2, <1>3 DEF Writing

\* A file stays sound.
LEMMA SoundStep ==
  ASSUME Typed, NEW p \in Procs, NEW r, Become(p, r), NEW f,
         files[f].st = "whole" \/ f \in broken \/ (proc[p].opened /\ Writing(p) = f) =>
           \/ files'[f].st = "whole" \/ f \in broken'
           \/ r.opened /\ Head(r.todo).file = f
  PROVE  Sound(f) => Sound(f)'
BY RewritingStep DEF Sound

\* A step of p that is no Create keeps Named.
LEMMA NamedStep ==
  ASSUME Typed, Named, NEW p \in Procs, NEW r, Become(p, r),
         \A v \in Volumes, part \in Parts : Sound(<<v, part>>) => Sound(<<v, part>>)',
         \A c \in Configs : files[c].st = "absent" \/ Sound(c) =>
           files'[c].st = "absent" \/ Sound(c)',
         \A c \in Configs : files'[c].st = "whole" =>
           \/ files[c].st = "whole" /\ files'[c].val = files[c].val
           \/ /\ InitsEnclave(files'[c].val) /\ InitsStorage(files'[c].val)
              /\ \A v \in Volumes, part \in Parts :
                   files'[c].val.vol = v => Sound(<<v, part>>)',
         Typed',
         \A v \in Volumes, part \in Parts : r.pc = "create" /\ r.vol = v =>
           <<v, part>> \in FilesOf(r.todo) \/ Sound(<<v, part>>)'
  PROVE  Named'
<1>1. proc'[p] = r /\ \A q \in Procs \ {p} : proc'[q] = proc[q]
  BY BecomeFacts
<1>2. ASSUME NEW c \in Configs, files'[c].st = "whole", files'[c].val.vol # 0
      PROVE  /\ InitsEnclave(files'[c].val) /\ InitsStorage(files'[c].val)
             /\ \A v \in Volumes, part \in Parts : files'[c].val.vol = v => Sound(<<v, part>>)'
  <2>1. CASE files[c].st = "whole" /\ files'[c].val = files[c].val
    <3>1. NamesVolume(files[c].val)
      BY <1>2, <2>1 DEF NamesVolume
    <3>2. Leads(files[c].val)
      BY <2>1, <3>1 DEF Named
    <3>3. \A v \in Volumes, part \in Parts : files[c].val.vol = v => Sound(<<v, part>>)
      BY <3>2 DEF Leads
    <3> QED  BY <2>1, <3>2, <3>3 DEF Leads
  <2> QED  BY <1>2, <2>1
<1>3. ASSUME NEW c \in Configs, files'[c].st = "whole", NamesVolume(files'[c].val)
      PROVE  Leads(files[c].val)'
  <2>1. files'[c].val \in Cfg /\ files'[c].val.vol # 0
    BY <1>3 DEF Typed, NamesVolume
  <2>2. files'[c].val.vol \in Volumes
    BY <2>1, Bounds DEF Cfg, Volumes
  <2>3. /\ InitsEnclave(files'[c].val) /\ InitsStorage(files'[c].val)
        /\ \A v \in Volumes, part \in Parts : files'[c].val.vol = v => Sound(<<v, part>>)'
    BY <1>2, <1>3, <2>1
  <2>4. \A v \in Volumes, part \in Parts : files'[c].val.vol = v =>
          \/ files'[<<v, part>>].st = "whole"
          \/ <<v, part>> \in broken' \cup Rewriting'
    BY <2>3 DEF Sound
  <2>5. \A part \in Parts : \/ files'[<<files'[c].val.vol, part>>].st = "whole"
                            \/ <<files'[c].val.vol, part>> \in broken' \cup Rewriting'
    BY <2>2, <2>4
  <2> QED  BY <2>3, <2>5 DEF Leads, Sound
<1>4. ASSUME NEW q \in Procs, proc'[q].pc = "create", NEW part \in Parts
      PROVE  \/ <<proc'[q].vol, part>> \in FilesOf(proc'[q].todo)
             \/ files'[<<proc'[q].vol, part>>].st = "whole"
             \/ <<proc'[q].vol, part>> \in broken' \cup Rewriting'
  <2>1. CASE q = p
    <3>1. r.vol \in Volumes
      <4>1. Shape(r, vols', nodes')
        BY <1>1 DEF Typed
      <4>2. r.vol \in 0..MaxVolumes /\ r.vol # 0
        BY <1>1, <1>4, <2>1, <4>1 DEF Shape, States
      <4> QED  BY <4>2, Bounds DEF Volumes
    <3> QED  BY <1>1, <1>4, <2>1, <3>1 DEF Sound
  <2>2. CASE q # p
    <3>1. proc'[q] = proc[q]
      BY <1>1, <2>2
    <3>2. proc[q].vol \in Volumes
      BY <1>4, <3>1, ProcFacts
    <3>3. <<proc[q].vol, part>> \in Pend(q) \/ Sound(<<proc[q].vol, part>>)
      BY <1>4, <3>1 DEF Named
    <3>4. \A v \in Volumes : Sound(<<v, part>>) =>
            files'[<<v, part>>].st = "whole" \/ <<v, part>> \in broken' \cup Rewriting'
      BY DEF Sound
    <3> QED  BY <3>1, <3>2, <3>3, <3>4 DEF Pend
  <2> QED  BY <2>1, <2>2
<1>5. \A c \in Configs : files'[c].st = "absent" \/ Sound(c)'
  BY DEF Named
<1> QED  BY <1>3, <1>4, <1>5 DEF Named, Sound, Pend

\* A session's user table stays where it is.
LEMMA LoadedStep ==
  ASSUME Typed, Loaded, NEW p \in Procs, NEW r, Become(p, r),
         \A v \in Volumes :
           \/ files'[<<v, "user">>] = files[<<v, "user">>]
           \/ ~Served(r) /\ \A q \in Procs \ {p} : proc[q].vol # v,
         Served(r) => \/ Served(proc[p]) /\ r.vol = proc[p].vol
                      \/ files'[<<r.vol, "user">>].st = "whole"
  PROVE  Loaded'
<1>1. proc'[p] = r /\ \A q \in Procs \ {p} : proc'[q] = proc[q]
  BY BecomeFacts
<1>2. ASSUME NEW q \in Procs, Served(proc'[q])
      PROVE  files'[<<proc'[q].vol, "user">>].st = "whole"
  <2>1. CASE q # p
    <3>1. Served(proc[q]) /\ proc'[q] = proc[q]
      BY <1>1, <1>2, <2>1
    <3>2. proc[q].vol \in Volumes
      BY <3>1, ProcFacts DEF Served
    <3> QED  BY <2>1, <3>1, <3>2 DEF Loaded
  <2>2. CASE q = p /\ Served(proc[p]) /\ r.vol = proc[p].vol
    <3>1. proc[p].vol \in Volumes
      BY <2>2, ProcFacts DEF Served
    <3> QED  BY <1>1, <1>2, <2>2, <3>1 DEF Loaded
  <2> QED  BY <1>1, <1>2, <2>1, <2>2
<1> QED  BY <1>2 DEF Loaded

\* A step of p that is no Create keeps Unknown.
LEMMA UnknownStep ==
  ASSUME Typed, Unknown, NEW p \in Procs, NEW r, Become(p, r),
         \A c \in Configs : files'[c].st = "whole" =>
           \/ files[c].st = "whole" /\ files'[c].val = files[c].val
           \/ files'[c].val.vol = proc[p].vol /\ r.todo = <<>>,
         r.pc = "create" /\ r.todo # <<>> =>
           proc[p].pc = "create" /\ proc[p].todo # <<>> /\ r.vol = proc[p].vol,
         \/ r.vol = 0 \/ r.vol = proc[p].vol
         \/ \E c \in Configs : files[c].st = "whole" /\ r.vol = files[c].val.vol,
         \A x \in kept' : x \in kept \/ (x[1] = proc[p].vol /\ r.pc = "idle")
  PROVE  Unknown'
<1>1. proc'[p] = r /\ \A q \in Procs \ {p} : proc'[q] = proc[q]
  BY BecomeFacts
<1>2. ASSUME NEW q \in Procs, proc'[q].pc = "create", proc'[q].todo # <<>>
      PROVE  /\ \A c \in Configs : files'[c].st = "whole" => files'[c].val.vol # proc'[q].vol
             /\ \A s \in Procs \ {q} : proc'[s].vol # proc'[q].vol
             /\ \A n \in Nodes : <<proc'[q].vol, n>> \notin kept'
  <2>1. proc[q].pc = "create" /\ proc[q].todo # <<>> /\ proc'[q].vol = proc[q].vol
    BY <1>1, <1>2
  <2>2. /\ \A c \in Configs : files[c].st = "whole" => files[c].val.vol # proc[q].vol
        /\ \A s \in Procs \ {q} : proc[s].vol # proc[q].vol
        /\ \A n \in Nodes : <<proc[q].vol, n>> \notin kept
    BY <2>1 DEF Unknown
  <2>3. proc[q].vol # 0
    BY <2>1, ProcFacts DEF Shape
  <2>4. \A x \in kept' : x[1] = proc[q].vol => x \in kept
    <3>1. CASE q = p
      <4>1. r.pc = "create"
        BY <1>1, <1>2, <3>1
      <4> QED  BY <4>1
    <3>2. CASE q # p
      BY <2>2, <3>2
    <3> QED  BY <3>1, <3>2
  <2>5. \A n \in Nodes : <<proc[q].vol, n>> \notin kept'
    BY <2>2, <2>4
  <2>6. \A s \in Procs \ {q} : proc'[s].vol # proc[q].vol
    BY <1>1, <2>2, <2>3
  <2>7. \A c \in Configs : files'[c].st = "whole" => files'[c].val.vol # proc[q].vol
    <3>1. CASE q = p
      BY <1>1, <1>2, <2>2, <3>1
    <3>2. CASE q # p
      BY <2>2, <3>2
    <3> QED  BY <3>1, <3>2
  <2> QED  BY <2>1, <2>5, <2>6, <2>7
<1> QED  BY <1>2 DEF Unknown

\* What becomes of a node n that the step of p is not about: of a root file,
\* that it is left alone, lost, or replaced by what p's session knows.
RootSame(v) == files'[<<v, "root">>] = files[<<v, "root">>]
RootLost(p, r, v, n) ==
  /\ files'[<<v, "root">>].st # "whole"
  /\ <<v, n>> \in kept => <<v, "root">> \in Rewriting'
  /\ \A q \in Procs : Mine(q, n) /\ proc[q].vol = v =>
       q = p /\ <<v, "root">> \in FilesOf(r.todo)
RootNew(p, v, n) ==
  /\ files'[<<v, "root">>].st = "whole"
  /\ \A q \in Procs : Mine(q, n) /\ proc[q].vol = v =>
       q = p /\ (n \in files'[<<v, "root">>].val <=> n \in proc[p].ents)
  /\ ~Flying(v, n) => (n \in files'[<<v, "root">>].val <=> <<v, n>> \in kept)

LEMMA RightStep ==
  ASSUME Typed, NEW p \in Procs, NEW r, Become(p, r), NEW n \in Nodes, Right(n),
         \A v \in Volumes : RootSame(v) \/ RootLost(p, r, v, n) \/ RootNew(p, v, n),
         \A v \in Volumes, part \in Parts : <<v, n>> \in kept /\ PartThere(v, part) =>
           PartThere(v, part)',
         \A v \in Volumes :
           \/ files'[<<v, "super">>] = files[<<v, "super">>] \/ files'[<<v, "super">>].st = "whole"
           \/ \A q \in Procs : Mine(q, n) /\ proc[q].vol = v =>
                q = p /\ <<v, "super">> \in FilesOf(r.todo),
         \/ files'[<<n, "node">>] = files[<<n, "node">>]
         \/ files'[<<n, "node">>].st = "whole"
         \/ Mine(p, n) /\ <<n, "node">> \in FilesOf(r.todo),
         \A v \in Volumes : <<v, n>> \in kept' <=> <<v, n>> \in kept,
         (r.pc = "busy" /\ r.node = n) <=> Mine(p, n),
         Mine(p, n) =>
           /\ r.vol = proc[p].vol /\ r.ents = proc[p].ents
           /\ \/ <<r.vol, "root">> \notin Pend(p) \/ <<r.vol, "root">> \in FilesOf(r.todo)
              \/ RootNew(p, r.vol, n)
           /\ \/ <<r.vol, "super">> \notin Pend(p) \/ <<r.vol, "super">> \in FilesOf(r.todo)
              \/ files'[<<r.vol, "super">>].st = "whole"
           /\ \/ <<n, "node">> \notin Pend(p) \/ <<n, "node">> \in FilesOf(r.todo)
              \/ files'[<<n, "node">>].st = "whole",
         r.pc # "off" => r.vol \in Volumes,
         r.pc \in {"idle", "busy"} /\ ~Mine(p, n) => (n \in r.ents <=> <<r.vol, n>> \in kept),
         r.pc \in {"mount", "idle", "busy"} =>
           \/ proc[p].pc \in {"mount", "idle", "busy"} /\ r.vol = proc[p].vol
           \/ \A q \in Procs : Mine(q, n) => proc[q].vol # r.vol
  PROVE  Right(n)'
<1>1. proc'[p] = r /\ \A q \in Procs \ {p} : proc'[q] = proc[q]
  BY BecomeFacts
<1>2. \A q \in Procs : Mine(q, n) => proc[q].vol \in Volumes
  BY ProcFacts DEF Mine
<1>3. \A q \in Procs : Mine(q, n)' <=> Mine(q, n)
  BY <1>1 DEF Mine
<1>4. \A q \in Procs : Mine(q, n) => proc'[q].vol = proc[q].vol /\ proc'[q].ents = proc[q].ents
  BY <1>1
<1>5. \A v \in Volumes : Flying(v, n)' <=> Flying(v, n)
  <2>1. \A v \in Volumes : Flying(v, n)' <=> \E q \in Procs : Mine(q, n)' /\ proc'[q].vol = v
    BY DEF Flying
  <2>2. \A v \in Volumes : Flying(v, n) <=> \E q \in Procs : Mine(q, n) /\ proc[q].vol = v
    BY DEF Flying
  <2> QED  BY <1>3, <1>4, <2>1, <2>2
<1>6. RootRight(n)'
  <2> SUFFICES ASSUME NEW v \in Volumes, RootWhole(v)', ~Flying(v, n)
               PROVE  InRoot(v, n)' <=> <<v, n>> \in kept
    BY <1>5 DEF RootRight
  <2>1. CASE RootSame(v)
    BY <2>1 DEF RootSame, RootWhole, InRoot, Right, RootRight
  <2>2. CASE RootLost(p, r, v, n)
    BY <2>2 DEF RootLost, RootWhole
  <2>3. CASE RootNew(p, v, n)
    BY <2>3 DEF RootNew, InRoot
  <2> QED  BY <2>1, <2>2, <2>3
<1>7. ViewRight(n)'
  <2> SUFFICES ASSUME NEW q \in Procs, proc'[q].pc \in {"idle", "busy"}, ~Mine(q, n)
               PROVE  n \in proc'[q].ents <=> <<proc'[q].vol, n>> \in kept'
    BY <1>3 DEF ViewRight
  <2>1. CASE q = p
    <3>1. r.vol \in Volumes
      BY <1>1, <2>1
    <3> QED  BY <1>1, <2>1, <3>1
  <2>2. CASE q # p
    <3>1. proc'[q] = proc[q]
      BY <1>1, <2>2
    <3>2. proc[q].vol \in Volumes
      BY <3>1, ProcFacts
    <3>3. n \in proc[q].ents <=> <<proc[q].vol, n>> \in kept
      BY <3>1 DEF Right, ViewRight
    <3> QED  BY <3>1, <3>2, <3>3
  <2> QED  BY <2>1, <2>2
<1>8. FilesThere(n)'
  <2> SUFFICES ASSUME NEW v \in Volumes, <<v, n>> \in kept
               PROVE  /\ \A part \in Parts : PartThere(v, part)'
                      /\ NodeWhole(n)' \/ \E q \in Procs : Mine(q, n)'
    BY DEF FilesThere
  <2>1. /\ \A part \in Parts : PartThere(v, part)
        /\ NodeWhole(n) \/ \E q \in Procs : Mine(q, n)
    BY DEF Right, FilesThere
  <2>2. \A part \in Parts : PartThere(v, part)'
    BY <2>1
  <2>3. NodeWhole(n)' \/ \E q \in Procs : Mine(q, n)
    BY <2>1 DEF NodeWhole
  <2> QED  BY <1>3, <2>2, <2>3
<1>9. Alone(n)'
  <2> SUFFICES ASSUME NEW q \in Procs, Mine(q, n)
               PROVE  /\ Others(q, proc[q].vol)' = {}
                      /\ \A s \in Procs : Mine(s, n) => s = q
                      /\ \A v \in Volumes : <<v, n>> \in kept => v = proc[q].vol
    BY <1>3, <1>4 DEF Alone
  <2>1. /\ Others(q, proc[q].vol) = {}
        /\ \A s \in Procs : Mine(s, n) => s = q
        /\ \A v \in Volumes : <<v, n>> \in kept => v = proc[q].vol
    BY DEF Right, Alone
  <2>2. Others(q, proc[q].vol)' = {}
    <3> SUFFICES ASSUME NEW s \in Procs \ {q}, proc'[s].pc \in {"mount", "idle", "busy"},
                        proc'[s].vol = proc'[q].vol
                 PROVE  FALSE
      BY DEF Others
    <3>1. proc'[q].vol = proc[q].vol
      BY <1>4
    <3>2. ~(proc[s].pc \in {"mount", "idle", "busy"} /\ proc[s].vol = proc[q].vol)
      BY <2>1 DEF Others
    <3>3. s = p
      BY <1>1, <3>1, <3>2
    <3> QED  BY <1>1, <3>1, <3>2, <3>3
  <2> QED  BY <2>1, <2>2
<1>10. OneVolume(n)'
  BY DEF Right, OneVolume
<1>11. Saved(n)'
  <2> SUFFICES ASSUME NEW q \in Procs, Mine(q, n)
               PROVE  /\ <<proc'[q].vol, "root">> \notin FilesOf(proc'[q].todo) =>
                           /\ files'[<<proc'[q].vol, "root">>].st = "whole"
                           /\ n \in files'[<<proc'[q].vol, "root">>].val <=> n \in proc'[q].ents
                      /\ n \in proc'[q].ents /\ <<proc'[q].vol, "super">> \notin FilesOf(proc'[q].todo) =>
                           files'[<<proc'[q].vol, "super">>].st = "whole"
                      /\ n \in proc'[q].ents /\ <<n, "node">> \notin FilesOf(proc'[q].todo) =>
                           files'[<<n, "node">>].st = "whole"
                      /\ n \notin proc'[q].ents => <<proc'[q].vol, n>> \in kept'
    BY <1>3 DEF Saved, Pend, RootWhole, InRoot, NodeWhole
  <2> DEFINE v == proc[q].vol
  <2>1. v \in Volumes /\ proc'[q].vol = v /\ proc'[q].ents = proc[q].ents
    BY <1>2, <1>4
  <2>2. /\ <<v, "root">> \notin Pend(q) =>
             RootWhole(v) /\ (InRoot(v, n) <=> n \in proc[q].ents)
        /\ n \in proc[q].ents /\ <<v, "super">> \notin Pend(q) =>
             files[<<v, "super">>].st = "whole"
        /\ n \in proc[q].ents /\ <<n, "node">> \notin Pend(q) => NodeWhole(n)
        /\ n \notin proc[q].ents => <<v, n>> \in kept
    BY DEF Right, Saved
  <2> HIDE DEF v
  <2>3. q # p => FilesOf(proc'[q].todo) = Pend(q)
    BY <1>1 DEF Pend
  <2>4. q = p => FilesOf(proc'[q].todo) = FilesOf(r.todo)
    BY <1>1
  <2>5. n \notin proc'[q].ents => <<v, n>> \in kept'
    BY <2>1, <2>2
  <2>6. ASSUME <<v, "root">> \notin FilesOf(proc'[q].todo)
        PROVE  /\ files'[<<v, "root">>].st = "whole"
               /\ n \in files'[<<v, "root">>].val <=> n \in proc[q].ents
    <3>1. CASE RootNew(p, v, n)
      BY <3>1 DEF RootNew, v
    <3>2. CASE RootLost(p, r, v, n)
      BY <2>4, <2>6, <3>2 DEF RootLost, v
    <3>3. CASE RootSame(v) /\ ~RootNew(p, v, n)
      <4>1. <<v, "root">> \notin Pend(q)
        BY <1>1, <2>3, <2>4, <2>6, <3>3 DEF v
      <4> QED  BY <2>2, <3>3, <4>1 DEF RootSame, RootWhole, InRoot
    <3> QED  BY <2>1, <3>1, <3>2, <3>3
  <2>7. ASSUME n \in proc[q].ents, <<n, "node">> \notin FilesOf(proc'[q].todo)
        PROVE  files'[<<n, "node">>].st = "whole"
    <3>1. Mine(p, n) => p = q
      BY DEF Right, Alone
    <3>2. CASE files'[<<n, "node">>] = files[<<n, "node">>] /\ files'[<<n, "node">>].st # "whole"
      <4>1. <<n, "node">> \notin Pend(q)
        BY <2>3, <2>4, <2>7, <3>2
      <4> QED  BY <2>2, <2>7, <3>2, <4>1 DEF NodeWhole
    <3>3. CASE Mine(p, n) /\ <<n, "node">> \in FilesOf(r.todo)
      BY <2>4, <2>7, <3>1, <3>3
    <3> QED  BY <3>2, <3>3
  <2>8. ASSUME n \in proc[q].ents, <<v, "super">> \notin FilesOf(proc'[q].todo)
        PROVE  files'[<<v, "super">>].st = "whole"
    <3>1. CASE files'[<<v, "super">>].st = "whole"
      BY <3>1
    <3>2. CASE files'[<<v, "super">>] = files[<<v, "super">>] /\ files'[<<v, "super">>].st # "whole"
      <4>1. <<v, "super">> \notin Pend(q)
        BY <1>1, <2>3, <2>4, <2>8, <3>2 DEF v
      <4> QED  BY <2>2, <2>8, <3>2, <4>1
    <3>3. CASE \A s \in Procs : Mine(s, n) /\ proc[s].vol = v =>
                 s = p /\ <<v, "super">> \in FilesOf(r.todo)
      BY <2>4, <2>8, <3>3 DEF v
    <3> QED  BY <2>1, <3>1, <3>2, <3>3
  <2> QED  BY <2>1, <2>5, <2>6, <2>7, <2>8
<1> QED  BY <1>6, <1>7, <1>8, <1>9, <1>10, <1>11 DEF Right

-----------------------------------------------------------------------------
(* Steps that change no file.                                              *)

LEMMA QuietStep ==
  ASSUME IInv, NEW p \in Procs, NEW r, Become(p, r),
         UNCHANGED <<files, kept, vols, nodes>>,
         broken \subseteq broken', excused \subseteq excused', excused' \subseteq 1..nodes,
         ~proc[p].opened, ~r.opened, Shape(r, vols, nodes),
         r.pc = "create" =>
           /\ proc[p].pc = "create" /\ r.vol = proc[p].vol
           /\ r.todo # <<>> => proc[p].todo # <<>>
           /\ \A f \in Pend(p) \ FilesOf(r.todo) : files[f].st = "whole" \/ f \in broken',
         \/ r.vol = 0 \/ r.vol = proc[p].vol
         \/ \E c \in Configs : files[c].st = "whole" /\ r.vol = files[c].val.vol,
         Served(r) => \/ Served(proc[p]) /\ r.vol = proc[p].vol
                      \/ files[<<r.vol, "user">>].st = "whole",
         \A n \in Nodes \ excused' :
           /\ (r.pc = "busy" /\ r.node = n) <=> Mine(p, n)
           /\ Mine(p, n) => /\ r.vol = proc[p].vol /\ r.ents = proc[p].ents
                            /\ Pend(p) \subseteq FilesOf(r.todo)
           /\ r.pc \in {"idle", "busy"} /\ ~Mine(p, n) => (n \in r.ents <=> <<r.vol, n>> \in kept)
           /\ r.pc \in {"mount", "idle", "busy"} =>
                \/ proc[p].pc \in {"mount", "idle", "busy"} /\ r.vol = proc[p].vol
                \/ \A q \in Procs : Mine(q, n) => proc[q].vol # r.vol
  PROVE  IInv'
<1>1. Typed /\ Named /\ Unknown /\ Loaded /\ Agreed
  BY DEF IInv
<1>2. vols \in 0..MaxVolumes /\ nodes \in 0..MaxNodes /\ DOMAIN files = Files
      /\ kept \subseteq (1..vols) \X (1..nodes)
  BY <1>1 DEF Typed
<1>3. Typed'
  BY <1>1, <1>2, TypedStep, Bounds
<1>4. \A f : Sound(f) => Sound(f)'
  BY <1>1, SoundStep
<1>5. \A f : f \in Rewriting <=> f \in Rewriting'
  <2>1. /\ \A f : f \in Rewriting <=> \E q \in Procs : proc[q].opened /\ Writing(q) = f
        /\ \A f : f \in Rewriting' <=> \/ \E q \in Procs \ {p} : proc[q].opened /\ Writing(q) = f
                                       \/ r.opened /\ Head(r.todo).file = f
    BY <1>1, RewritingStep
  <2> QED  BY <2>1
<1>6. Named'
  <2>1. ASSUME NEW v \in Volumes, NEW part \in Parts, r.pc = "create", r.vol = v
        PROVE  <<v, part>> \in FilesOf(r.todo) \/ Sound(<<v, part>>)'
    <3>1. <<v, part>> \in Pend(p) \/ Sound(<<v, part>>)
      BY <1>1, <2>1 DEF Named
    <3>2. ASSUME <<v, part>> \in Pend(p) \ FilesOf(r.todo)
          PROVE  Sound(<<v, part>>)'
      BY <2>1, <3>2 DEF Sound
    <3>3. Sound(<<v, part>>) => Sound(<<v, part>>)'
      BY <1>4
    <3> QED  BY <3>1, <3>2, <3>3
  <2>2. \A v \in Volumes, part \in Parts : Sound(<<v, part>>) => Sound(<<v, part>>)'
    BY <1>4
  <2>3. \A c \in Configs : files[c].st = "absent" \/ Sound(c) =>
          files'[c].st = "absent" \/ Sound(c)'
    BY <1>4
  <2> QED  BY <1>1, <1>3, <2>1, <2>2, <2>3, NamedStep
<1>7. Unknown'
  BY <1>1, UnknownStep
<1>10. Loaded'
  BY <1>1, LoadedStep
<1>8. ASSUME NEW n \in Nodes \ excused'
      PROVE  Right(n)'
  <2>1. Right(n)
    BY <1>1 DEF Agreed
  <2>2. \A v \in Volumes : RootSame(v)
    BY DEF RootSame
  <2>3. r.pc # "off" => r.vol \in Volumes
    <3>1. r.vol \in 0..MaxVolumes /\ (r.vol = 0 <=> r.pc = "off")
      BY DEF Shape, States
    <3> QED  BY <3>1, Bounds DEF Volumes
  <2>4. \A v \in Volumes, part \in Parts : PartThere(v, part) => PartThere(v, part)'
    BY <1>5 DEF PartThere
  <2> QED  BY <1>1, <2>1, <2>2, <2>3, <2>4, RightStep
<1>9. Agreed'
  BY <1>8 DEF Agreed
<1> QED  BY <1>3, <1>6, <1>7, <1>9, <1>10 DEF IInv

LEMMA OffShape ==
  ASSUME Typed
  PROVE  /\ Shape(Off, vols, nodes) /\ ~Off.opened /\ Off.pc = "off" /\ Off.vol = 0
         /\ Off.todo = <<>> /\ Off \in States
<1>1. <<>> \in Seq(Saves) /\ DOMAIN <<>> = {}
  OBVIOUS
<1>2. Off \in States
  BY <1>1, Bounds DEF Off, States, Pcs
<1>3. vols \in Nat
  BY DEF Typed
<1> QED  BY <1>1, <1>2, <1>3 DEF Off, Shape

\* The process of p ends.
LEMMA OffStep ==
  ASSUME IInv, NEW p \in Procs, Become(p, Off),
         UNCHANGED <<files, kept, vols, nodes>>,
         broken \subseteq broken', excused \subseteq excused', excused' \subseteq 1..nodes,
         ~proc[p].opened, \A n \in Nodes \ excused' : ~Mine(p, n)
  PROVE  IInv'
<1>1. Typed
  BY DEF IInv
<1>2. /\ Shape(Off, vols, nodes) /\ ~Off.opened /\ Off.pc = "off" /\ Off.vol = 0
  BY <1>1, OffShape
<1>3. ~Served(Off)
  BY <1>2 DEF Served
<1> QED  BY <1>2, <1>3, QuietStep

\* Only a process that saves has opened a file.
LEMMA NotOpened ==
  ASSUME Typed, NEW p \in Procs, proc[p].todo = <<>> \/ proc[p].pc \notin {"create", "busy"}
  PROVE  ~proc[p].opened /\ proc[p].todo = <<>>
BY ProcFacts DEF Shape

LEMMA EndCreateInv ==
  ASSUME IInv, NEW p \in Procs, EndCreate(p)
  PROVE  IInv'
<1>1. /\ proc[p].pc = "create" /\ proc[p].todo = <<>> /\ Become(p, Off)
      /\ UNCHANGED <<files, vols, nodes, kept, excused, broken>>
  BY DEF EndCreate, counters, history
<1>2. Typed /\ excused \subseteq 1..nodes
  BY DEF IInv, Typed
<1>3. ~proc[p].opened /\ \A n \in Nodes : ~Mine(p, n)
  BY <1>1, <1>2, NotOpened DEF Mine
<1> QED  BY <1>1, <1>2, <1>3, OffStep

LEMMA UmountInv ==
  ASSUME IInv, NEW p \in Procs, Umount(p)
  PROVE  IInv'
<1>1. /\ proc[p].pc \in {"mount", "idle", "dead"} /\ Become(p, Off)
      /\ UNCHANGED <<files, vols, nodes, kept, excused, broken>>
  BY DEF Umount, counters, history
<1>2. Typed /\ excused \subseteq 1..nodes
  BY DEF IInv, Typed
<1>3. ~proc[p].opened /\ \A n \in Nodes : ~Mine(p, n)
  BY <1>1, <1>2, NotOpened DEF Mine
<1> QED  BY <1>1, <1>2, <1>3, OffStep

\* The enclave of an idle session aborts.
LEMMA AbortInv ==
  ASSUME IInv, NEW p \in Procs, proc[p].pc = "idle", Abort(p),
         UNCHANGED <<files, vols, nodes, kept, excused, broken>>
  PROVE  IInv'
<1> DEFINE r == [proc[p] EXCEPT !.pc = "dead"]
<1>1. Become(p, r)
  BY DEF Abort
<1>2. Typed /\ excused \subseteq 1..nodes
  BY DEF IInv, Typed
<1>3. proc[p] \in States /\ Shape(proc[p], vols, nodes)
  BY <1>2, ProcFacts
<1>4. ~proc[p].opened /\ proc[p].todo = <<>>
  BY <1>2, NotOpened
<1>5. /\ r \in States /\ r.pc = "dead" /\ r.vol = proc[p].vol /\ r.todo = <<>> /\ ~r.opened
      /\ r.ents = proc[p].ents
  BY <1>3, <1>4 DEF States, Pcs
<1> HIDE DEF r
<1>6. Shape(r, vols, nodes)
  BY <1>3, <1>5 DEF Shape
<1>7. \A n \in Nodes : ~Mine(p, n)
  BY DEF Mine
<1>8. ~Served(r)
  BY <1>5 DEF Served
<1> QED  BY <1>1, <1>2, <1>4, <1>5, <1>6, <1>7, <1>8, QuietStep

LEMMA LookupInv ==
  ASSUME IInv, NEW p \in Procs, NEW n \in Nodes, Lookup(p, n)
  PROVE  IInv'
BY AbortInv DEF Lookup, counters, history

LEMMA MountInv ==
  ASSUME IInv, NEW p \in Procs, NEW c \in Configs, Mount(p, c)
  PROVE  IInv'
<1> DEFINE v == files[c].val.vol
           r == [Off EXCEPT !.pc = "mount", !.vol = v]
<1>1. /\ proc[p].pc = "off" /\ files[c].st = "whole" /\ v # 0 /\ Become(p, r)
      /\ excused' = IF Others(p, v) = {} THEN excused ELSE excused \cup NodesOf(v)
      /\ UNCHANGED <<files, vols, nodes, kept, broken>>
  BY DEF Mount, LoadsConfig, Mounts, NamesVolume, counters
<1>2. Typed /\ excused \subseteq 1..nodes /\ Agreed
  BY DEF IInv, Typed
<1>3. v \in 1..MaxVolumes /\ v <= vols
  BY <1>1, <1>2, Bounds DEF Typed, Cfg
<1>4. NodesOf(v) \subseteq 1..nodes
  <2>1. kept \subseteq (1..vols) \X (1..nodes)
    BY <1>2 DEF Typed
  <2>2. \A q \in Procs : proc[q].ents \subseteq 1..nodes
    BY <1>2, ProcFacts
  <2> QED  BY <2>1, <2>2 DEF NodesOf
<1>5. ~proc[p].opened
  BY <1>1, <1>2, NotOpened
<1>6. Off \in States /\ ~Off.opened /\ Off.todo = <<>>
  BY <1>2, OffShape
<1>7. /\ r \in States /\ r.pc = "mount" /\ r.vol = v /\ r.todo = <<>> /\ ~r.opened
      /\ r.ents = {} /\ r.node = 0
  <2> HIDE DEF v
  <2>1. v \in 0..MaxVolumes
    BY <1>3
  <2>2. Off.ents = {} /\ Off.node = 0
    BY DEF Off
  <2> QED  BY <1>6, <2>1, <2>2 DEF States, Pcs
<1>8. \A n \in Nodes : ~Mine(p, n)
  BY <1>1 DEF Mine
<1>9. \E d \in Configs : files[d].st = "whole" /\ r.vol = files[d].val.vol
  BY <1>1, <1>7
<1> HIDE DEF r, v
<1>10. Shape(r, vols, nodes)
  BY <1>3, <1>7 DEF Shape
<1>11. ASSUME NEW n \in Nodes \ excused', NEW q \in Procs, Mine(q, n)
       PROVE  proc[q].vol # v
  <2> SUFFICES ASSUME proc[q].vol = v PROVE FALSE
    OBVIOUS
  <2>1. q \in Others(p, v)
    BY <1>1, <1>11 DEF Others, Mine
  <2>2. n \notin NodesOf(v) /\ n \notin excused
    BY <1>1, <1>11, <2>1
  <2>3. n \notin proc[q].ents => <<v, n>> \in kept
    BY <1>2, <1>11, <2>2 DEF Agreed, Right, Saved
  <2> QED  BY <2>2, <2>3 DEF NodesOf
<1>12. excused \subseteq excused' /\ excused' \subseteq 1..nodes
  BY <1>1, <1>2, <1>4
<1>13. ~Served(r)
  BY <1>7 DEF Served
<1> QED  BY <1>1, <1>5, <1>7, <1>8, <1>9, <1>10, <1>11, <1>12, <1>13, QuietStep

LEMMA LoadPartInv ==
  ASSUME IInv, NEW p \in Procs, LoadPart(p)
  PROVE  IInv'
<1> DEFINE f == files[<<proc[p].vol, Loading(p)>>]
           r == CASE f.st # "whole" -> Off
                  [] f.st = "whole" /\ Loading(p) = "root" ->
                       [proc[p] EXCEPT !.pc = "idle", !.node = 0, !.ents = f.val]
                  [] OTHER -> [proc[p] EXCEPT !.node = @ + 1]
<1>1. /\ proc[p].pc = "mount" /\ Become(p, r)
      /\ UNCHANGED <<files, vols, nodes, kept, excused, broken>>
  BY DEF LoadPart, counters, history
<1>2. Typed /\ excused \subseteq 1..nodes /\ Agreed
  BY DEF IInv, Typed
<1>3. /\ proc[p] \in States /\ Shape(proc[p], vols, nodes) /\ proc[p].vol \in Volumes
      /\ proc[p].node \in Nat
  BY <1>1, <1>2, ProcFacts
<1>3a. /\ proc[p].node \in 0..2 /\ (Loading(p) = "root" <=> proc[p].node = 2)
       /\ (Loading(p) = "user" <=> proc[p].node = 1)
  <2>1. proc[p].node \in 0..2
    BY <1>1, <1>3 DEF Shape
  <2>2. proc[p].node = 0 \/ proc[p].node = 1 \/ proc[p].node = 2
    BY <2>1
  <2> QED  BY <2>1, <2>2 DEF Loading
<1>4. ~proc[p].opened /\ proc[p].todo = <<>> /\ \A n \in Nodes : ~Mine(p, n)
  BY <1>1, <1>2, NotOpened DEF Mine
<1>5. CASE r = Off
  BY <1>1, <1>2, <1>4, <1>5, OffStep
<1>6. CASE /\ f.st = "whole" /\ Loading(p) = "root"
           /\ r = [proc[p] EXCEPT !.pc = "idle", !.node = 0, !.ents = f.val]
  <2>1. RootWhole(proc[p].vol) /\ f = files[<<proc[p].vol, "root">>]
    BY <1>6 DEF RootWhole
  <2>2. f.val \subseteq 1..nodes /\ f.val \subseteq Nodes
    BY <1>2, <1>3, <2>1, ProcFacts DEF Typed, RootWhole
  <2>3. /\ r \in States /\ r.pc = "idle" /\ r.vol = proc[p].vol /\ r.todo = <<>> /\ ~r.opened
        /\ r.ents = f.val
    BY <1>3, <1>4, <1>6, <2>2 DEF States, Pcs
  <2> HIDE DEF r
  <2>4. Shape(r, vols, nodes)
    BY <1>1, <1>3, <2>2, <2>3 DEF Shape
  <2>5. ASSUME NEW n \in Nodes \ excused'
        PROVE  n \in r.ents <=> <<r.vol, n>> \in kept
    <3>1. Right(n)
      BY <1>1, <1>2 DEF Agreed
    <3>2. ~Flying(proc[p].vol, n)
      <4> SUFFICES ASSUME NEW q \in Procs, Mine(q, n), proc[q].vol = proc[p].vol PROVE FALSE
        BY DEF Flying
      <4>1. Others(q, proc[q].vol) = {}
        BY <3>1 DEF Right, Alone
      <4>2. p # q
        BY <1>4
      <4> QED  BY <1>1, <4>1, <4>2 DEF Others
    <3> QED  BY <1>3, <2>1, <2>3, <3>1, <3>2 DEF Right, RootRight, InRoot
  <2>6. Served(proc[p])
    BY <1>1, <1>3a, <1>6 DEF Served
  <2> QED  BY <1>1, <1>2, <1>4, <2>3, <2>4, <2>5, <2>6, QuietStep
<1>7. CASE /\ f.st = "whole" /\ Loading(p) # "root"
           /\ r = [proc[p] EXCEPT !.node = @ + 1]
  <2>1. /\ r \in States /\ r.pc = "mount" /\ r.vol = proc[p].vol /\ r.todo = <<>> /\ ~r.opened
        /\ r.ents = proc[p].ents /\ r.node = proc[p].node + 1
    <3>1. proc[p].node + 1 \in Nat
      BY <1>3
    <3>2. r = [proc[p] EXCEPT !.node = proc[p].node + 1]
      BY <1>7
    <3> HIDE DEF r
    <3> QED  BY <1>1, <1>3, <1>4, <3>1, <3>2 DEF States
  <2>2. r.node \in 0..2
    BY <1>3a, <1>7, <2>1
  <2>3. Served(r) => files[<<r.vol, "user">>].st = "whole"
    <3>1. r.node = 2 => Loading(p) = "user"
      BY <1>3a, <2>1
    <3> QED  BY <1>7, <2>1, <3>1 DEF Served
  <2> HIDE DEF r
  <2>4. Shape(r, vols, nodes)
    BY <1>1, <1>3, <2>1, <2>2 DEF Shape
  <2> QED  BY <1>1, <1>2, <1>4, <2>1, <2>3, <2>4, QuietStep
<1> QED  BY <1>5, <1>6, <1>7

-----------------------------------------------------------------------------
(* Saving.                                                                 *)

\* A process that has come past the first of its saves.
LEMMA Popped ==
  ASSUME Typed, NEW p \in Procs, proc[p].todo # <<>>, NEW r,
         r = [proc[p] EXCEPT !.opened = FALSE, !.todo = Tail(proc[p].todo)]
  PROVE  /\ r.pc = proc[p].pc /\ r.vol = proc[p].vol /\ r.ents = proc[p].ents
         /\ r.node = proc[p].node /\ r.todo = Tail(proc[p].todo) /\ ~r.opened
         /\ Shape(r, vols, nodes)
         /\ Pend(p) \subseteq FilesOf(r.todo) \cup {Writing(p)}
<1>1. /\ proc[p] \in States /\ Shape(proc[p], vols, nodes)
  BY ProcFacts
<1>2. /\ proc[p].pc \in {"create", "busy"}
      /\ Tail(proc[p].todo) \in Seq(Saves)
      /\ Len(Tail(proc[p].todo)) = Len(proc[p].todo) - 1
      /\ \A i \in DOMAIN Tail(proc[p].todo) :
           i + 1 \in DOMAIN proc[p].todo /\ Tail(proc[p].todo)[i] = proc[p].todo[i + 1]
      /\ Pend(p) \subseteq FilesOf(Tail(proc[p].todo)) \cup {Writing(p)}
  BY SaveFacts
<1>3. /\ r \in States /\ r.pc = proc[p].pc /\ r.vol = proc[p].vol /\ r.ents = proc[p].ents
      /\ r.node = proc[p].node /\ r.todo = Tail(proc[p].todo) /\ ~r.opened
  BY <1>1, <1>2 DEF States
<1>4. ASSUME r.pc = "create", NEW i \in DOMAIN r.todo
      PROVE  IF i = Len(r.todo) THEN ConfigSave(r.todo[i], r.vol) ELSE PartSave(r.todo[i], r.vol)
  <2>1. i \in Nat /\ Len(proc[p].todo) \in Nat /\ Len(r.todo) \in Nat
    BY <1>1, <1>2, <1>3, <1>4 DEF States
  <2>2. i = Len(r.todo) <=> i + 1 = Len(proc[p].todo)
    BY <1>2, <1>3, <2>1
  <2>3. i + 1 \in DOMAIN proc[p].todo /\ r.todo[i] = proc[p].todo[i + 1]
    BY <1>2, <1>3, <1>4
  <2> QED  BY <1>1, <1>3, <1>4, <2>2, <2>3 DEF Shape
<1>5. ASSUME r.pc = "busy", NEW i \in DOMAIN r.todo
      PROVE  RequestSave(r.todo[i], r)
  <2>1. i + 1 \in DOMAIN proc[p].todo /\ r.todo[i] = proc[p].todo[i + 1]
    BY <1>2, <1>3, <1>5
  <2>2. RequestSave(proc[p].todo[i + 1], proc[p])
    BY <1>1, <1>3, <1>5, <2>1 DEF Shape
  <2> QED  BY <1>3, <2>1, <2>2 DEF RequestSave
<1>6. Shape(r, vols, nodes)
  BY <1>1, <1>2, <1>3, <1>4, <1>5 DEF Shape
<1> QED  BY <1>2, <1>3, <1>6

\* The node a request is about, and what may be gone with a file.
LEMMA SubjectFacts ==
  ASSUME Typed, NEW p \in Procs, proc[p].pc \in {"create", "busy"}
  PROVE  /\ Subject(p) \subseteq 1..nodes
         /\ \A n \in Nodes : Mine(p, n) => n \in Subject(p)
         /\ \A f : Victims(p, f) \subseteq 1..nodes
<1>1. Shape(proc[p], vols, nodes) /\ nodes \in Nat
  BY ProcFacts
<1>2. Subject(p) \subseteq 1..nodes
  BY <1>1 DEF Subject, Shape
<1>3. \A n \in Nodes : Mine(p, n) => n \in Subject(p)
  BY DEF Mine, Subject, Nodes
<1>4. \A v : NodesOf(v) \subseteq 1..nodes
  <2>1. kept \subseteq (1..vols) \X (1..nodes)
    BY DEF Typed
  <2>2. \A q \in Procs : proc[q].ents \subseteq 1..nodes
    BY ProcFacts
  <2> QED  BY <2>1, <2>2 DEF NodesOf
<1> QED  BY <1>2, <1>3, <1>4 DEF Victims

LEMMA RefuseOpenInv ==
  ASSUME IInv, NEW p \in Procs, RefuseOpen(p)
  PROVE  IInv'
<1> DEFINE r == [proc[p] EXCEPT !.opened = FALSE, !.todo = Tail(proc[p].todo)]
<1>1. /\ proc[p].todo # <<>> /\ ~proc[p].opened
      /\ Become(p, [proc[p] EXCEPT !.todo = Tail(@)])
      /\ excused' = excused \cup Subject(p)
      /\ broken' = IF files[Writing(p)].st = "whole" THEN broken ELSE broken \cup {Writing(p)}
      /\ UNCHANGED <<files, vols, nodes, kept>>
  BY DEF RefuseOpen
<1>2. Typed /\ excused \subseteq 1..nodes /\ Agreed
  BY DEF IInv, Typed
<1>3. proc[p] \in States /\ proc[p].pc \in {"create", "busy"} /\ proc[p].vol \in Volumes
  BY <1>1, <1>2, ProcFacts, SaveFacts
<1>4. Become(p, r)
  <2>1. [proc[p] EXCEPT !.todo = Tail(@)] = r
    BY <1>1, <1>3 DEF States
  <2> QED  BY <1>1, <2>1
<1>5. /\ r.pc = proc[p].pc /\ r.vol = proc[p].vol /\ r.ents = proc[p].ents
      /\ r.node = proc[p].node /\ r.todo = Tail(proc[p].todo) /\ ~r.opened
      /\ Shape(r, vols, nodes)
      /\ Pend(p) \subseteq FilesOf(r.todo) \cup {Writing(p)}
  BY <1>1, <1>2, Popped
<1> HIDE DEF r
<1>6. Subject(p) \subseteq 1..nodes /\ \A n \in Nodes : Mine(p, n) => n \in Subject(p)
  BY <1>2, <1>3, SubjectFacts
<1>7. \A f \in Pend(p) \ FilesOf(r.todo) : files[f].st = "whole" \/ f \in broken'
  BY <1>1, <1>5
<1>8. ASSUME NEW n \in Nodes \ excused'
      PROVE  /\ ~Mine(p, n) /\ ~(r.pc = "busy" /\ r.node = n)
             /\ r.pc \in {"idle", "busy"} => (n \in r.ents <=> <<r.vol, n>> \in kept)
  <2>1. ~Mine(p, n)
    BY <1>1, <1>6
  <2>2. Right(n)
    BY <1>1, <1>2 DEF Agreed
  <2> QED  BY <1>5, <2>1, <2>2 DEF Right, ViewRight, Mine
<1>9. r.pc \in {"mount", "idle", "busy"} =>
        proc[p].pc \in {"mount", "idle", "busy"} /\ r.vol = proc[p].vol
  BY <1>5
<1>10. Served(r) => Served(proc[p]) /\ r.vol = proc[p].vol
  BY <1>5 DEF Served
<1> QED  BY <1>1, <1>2, <1>4, <1>5, <1>6, <1>7, <1>8, <1>9, <1>10, QuietStep

\* Who saves a part of a volume, and who the file of a node.
LEMMA WritingPart ==
  ASSUME IInv, NEW p \in Procs, proc[p].todo # <<>>, NEW n \in Nodes \ excused,
         NEW v \in Volumes, NEW part \in Parts, Writing(p) = <<v, part>>
  PROVE  /\ v = proc[p].vol
         /\ \A q \in Procs : Mine(q, n) /\ proc[q].vol = v => q = p
         /\ \/ /\ proc[p].pc = "busy" /\ part # "user"
               /\ part = "root" => Head(proc[p].todo).val = proc[p].ents
            \/ /\ proc[p].pc = "create" /\ <<v, n>> \notin kept /\ ~Mine(p, n)
               /\ part = "root" => Head(proc[p].todo).val = {}
<1>1. Typed /\ Unknown /\ Right(n)
  BY DEF IInv, Agreed
<1>2. <<v, part>> \notin Configs /\ part # "node"
  BY FileFacts DEF Parts
<1>3. CASE proc[p].pc = "create"
  <2>1. \E pt \in Parts : Writing(p) = <<proc[p].vol, pt>> /\ (pt = "root" => Head(proc[p].todo).val = {})
    BY <1>1, <1>2, <1>3, SaveFacts
  <2>2. v = proc[p].vol /\ (part = "root" => Head(proc[p].todo).val = {})
    BY <2>1
  <2>3. <<v, n>> \notin kept /\ \A q \in Procs \ {p} : proc[q].vol # v
    BY <1>1, <1>3, <2>2 DEF Unknown
  <2>4. ~Mine(p, n)
    BY <1>3 DEF Mine
  <2> QED  BY <1>3, <2>2, <2>3, <2>4
<1>4. CASE proc[p].pc = "busy"
  <2>1. v = proc[p].vol /\ part # "user" /\ (part = "root" => Head(proc[p].todo).val = proc[p].ents)
    BY <1>1, <1>2, <1>4, SaveFacts
  <2>2. ASSUME NEW q \in Procs, Mine(q, n), proc[q].vol = v, q # p
        PROVE  FALSE
    <3>1. Others(q, proc[q].vol) = {}
      BY <1>1, <2>2 DEF Right, Alone
    <3>2. p \in Others(q, proc[q].vol)
      BY <1>4, <2>1, <2>2 DEF Others
    <3> QED  BY <3>1, <3>2
  <2> QED  BY <1>4, <2>1, <2>2
<1> QED  BY <1>1, <1>3, <1>4, SaveFacts

LEMMA WritingNode ==
  ASSUME IInv, NEW p \in Procs, proc[p].todo # <<>>, NEW n \in Nodes,
         Writing(p) = <<n, "node">>
  PROVE  Mine(p, n)
<1>1. Typed
  BY DEF IInv
<1>2. <<n, "node">> \notin Configs
  BY FileFacts
<1>3. proc[p].pc = "create" => \E part \in Parts : Writing(p) = <<proc[p].vol, part>>
  BY <1>1, <1>2, SaveFacts
<1>4. proc[p].pc = "busy"
  BY <1>1, <1>3, SaveFacts DEF Parts
<1>5. proc[p].node = n
  BY <1>1, <1>4, SaveFacts
<1> QED  BY <1>4, <1>5 DEF Mine

\* Only secfs_cli saves a configuration, as the last of its files.
LEMMA WritingConfig ==
  ASSUME Typed, NEW p \in Procs, proc[p].todo # <<>>, Writing(p) \in Configs
  PROVE  /\ proc[p].pc = "create" /\ Head(proc[p].todo).val \in Cfg
         /\ Head(proc[p].todo).val.vol = proc[p].vol
         /\ InitsEnclave(Head(proc[p].todo).val) /\ InitsStorage(Head(proc[p].todo).val)
         /\ Tail(proc[p].todo) = <<>> /\ \A f \in Pend(p) : f = Writing(p)
<1>1. proc[p].vol \in Volumes /\ proc[p].pc \in {"create", "busy"}
  BY SaveFacts
<1>2. \A part \in Parts : Writing(p) # <<proc[p].vol, part>>
  BY <1>1, FileFacts
<1>3. proc[p].pc # "busy"
  <2> SUFFICES ASSUME proc[p].pc = "busy" PROVE FALSE
    OBVIOUS
  <2>1. proc[p].node \in Nodes
    BY ProcFacts DEF Shape
  <2>2. Writing(p) # <<proc[p].node, "node">>
    BY <2>1, FileFacts
  <2>3. "root" \in Parts /\ "super" \in Parts
    BY DEF Parts
  <2> QED  BY <1>2, <2>2, <2>3, SaveFacts
<1> QED  BY <1>1, <1>2, <1>3, SaveFacts

\* A step on the file that p is saving: it is truncated, written or lost.
LEMMA SaveStep ==
  ASSUME IInv, NEW p \in Procs, proc[p].todo # <<>>, NEW r, Become(p, r),
         r.pc = proc[p].pc, r.vol = proc[p].vol, r.ents = proc[p].ents, r.node = proc[p].node,
         Shape(r, vols, nodes), Pend(p) \subseteq FilesOf(r.todo) \cup {Writing(p)},
         NEW x, files' = [files EXCEPT ![Writing(p)] = x],
         x.st = "whole" => x.val = Head(proc[p].todo).val /\ r.todo = Tail(proc[p].todo),
         x.st # "whole" =>
           Writing(p) \in broken' \/ (r.opened /\ Head(r.todo).file = Writing(p)),
         broken \subseteq broken' \cup {Writing(p)},
         UNCHANGED <<vols, nodes, kept>>,
         excused \subseteq excused', excused' \subseteq 1..nodes,
         \A n \in Nodes \ excused' :
           /\ \A v \in Volumes, part \in Parts : Writing(p) = <<v, part>> /\ x.st # "whole" =>
                \/ <<v, part>> \in FilesOf(r.todo) /\ <<v, part>> \in Rewriting'
                \/ <<v, n>> \notin kept /\ ~Mine(p, n)
           /\ Writing(p) = <<n, "node">> => x.st = "whole" \/ Writing(p) \in FilesOf(r.todo)
  PROVE  IInv'
<1> DEFINE W == Writing(p)
<1>1. Typed /\ Named /\ Unknown /\ Loaded /\ Agreed
  BY DEF IInv
<1>2. /\ vols \in 0..MaxVolumes /\ nodes \in 0..MaxNodes /\ DOMAIN files = Files
      /\ kept \subseteq (1..vols) \X (1..nodes) /\ vols \in Nat /\ nodes \in Nat
  BY <1>1, Bounds DEF Typed
<1>3. W \in Files /\ proc[p].pc \in {"create", "busy"} /\ proc[p].vol \in 1..vols
      /\ proc[p].vol \in Volumes
  BY <1>1, SaveFacts
<1>4. files'[W] = x /\ \A f \in Files : f # W => files'[f] = files[f]
  BY <1>2, <1>3
<1>5. DOMAIN files' = Files
  BY <1>2
<1>6. \A f : f \in Rewriting /\ f # W => f \in Rewriting'
  <2>1. /\ \A f : f \in Rewriting <=> \E q \in Procs : proc[q].opened /\ Writing(q) = f
        /\ \A f : f \in Rewriting' <=> \/ \E q \in Procs \ {p} : proc[q].opened /\ Writing(q) = f
                                       \/ r.opened /\ Head(r.todo).file = f
    BY <1>1, RewritingStep
  <2> QED  BY <2>1
<1>7. W \in Configs =>
        /\ proc[p].pc = "create" /\ Head(proc[p].todo).val \in Cfg
        /\ Head(proc[p].todo).val.vol = proc[p].vol
        /\ InitsEnclave(Head(proc[p].todo).val) /\ InitsStorage(Head(proc[p].todo).val)
        /\ Tail(proc[p].todo) = <<>> /\ \A f \in Pend(p) : f = W
  BY <1>1, WritingConfig
<1> HIDE DEF W
<1>8. ASSUME NEW c \in Configs, files'[c].st = "whole"
      PROVE  \/ files[c].st = "whole" /\ files'[c].val = files[c].val
             \/ /\ files'[c].val \in Cfg /\ files'[c].val.vol = proc[p].vol /\ c = W
                /\ InitsEnclave(files'[c].val) /\ InitsStorage(files'[c].val)
                /\ r.todo = <<>>
  <2>1. c \in Files
    BY FileFacts
  <2>2. CASE c # W
    BY <1>4, <1>8, <2>1, <2>2
  <2>3. CASE c = W
    BY <1>4, <1>7, <1>8, <2>3, ZenonT(30)
  <2> QED  BY <2>2, <2>3
<1>9. ASSUME NEW v \in Volumes, files'[<<v, "root">>].st = "whole"
      PROVE  \/ files[<<v, "root">>].st = "whole" /\ files'[<<v, "root">>].val = files[<<v, "root">>].val
             \/ files'[<<v, "root">>].val \subseteq 1..nodes
  <2>1. <<v, "root">> \in Files /\ <<v, "root">> \notin Configs
    BY FileFacts
  <2>2. CASE <<v, "root">> # W
    BY <1>4, <1>9, <2>1, <2>2
  <2>3. CASE <<v, "root">> = W
    <3>1. files'[<<v, "root">>].val = Head(proc[p].todo).val
      BY <1>4, <1>9, <2>3
    <3>2. proc[p].ents \subseteq 1..nodes
      BY <1>1, ProcFacts
    <3>3. CASE proc[p].pc = "create"
      <4>1. \E part \in Parts : W = <<proc[p].vol, part>> /\ (part = "root" => Head(proc[p].todo).val = {})
        BY <1>1, <2>1, <2>3, <3>3, SaveFacts DEF W
      <4>2. Head(proc[p].todo).val = {}
        BY <2>3, <4>1
      <4> QED  BY <3>1, <4>2
    <3>4. CASE proc[p].pc = "busy"
      <4>1. Head(proc[p].todo).val = proc[p].ents
        BY <1>1, <2>3, <3>4, SaveFacts DEF W
      <4> QED  BY <3>1, <3>2, <4>1
    <3> QED  BY <1>3, <3>3, <3>4
  <2> QED  BY <2>2, <2>3
<1>10. Typed'
  <2>1. \A c \in Configs : files'[c].st = "whole" =>
           \/ files[c].st = "whole" /\ files'[c].val = files[c].val
           \/ files'[c].val \in Cfg /\ files'[c].val.vol <= vols'
    BY <1>2, <1>3, <1>8
  <2> QED  BY <1>1, <1>2, <1>5, <1>9, <2>1, TypedStep
<1>11. ASSUME NEW f \in Files, Sound(f)
       PROVE  Sound(f)'
  <2>1. CASE f = W
    <3>1. \/ files'[f].st = "whole" \/ f \in broken'
          \/ r.opened /\ Head(r.todo).file = f
      BY <1>4, <2>1 DEF W
    <3> QED  BY <1>1, <1>11, <3>1, SoundStep
  <2>2. CASE f # W
    <3>1. files'[f] = files[f]
      BY <1>4, <2>2
    <3>2. f \in broken => f \in broken'
      BY <2>2 DEF W
    <3>3. ~(proc[p].opened /\ Writing(p) = f)
      BY <2>2 DEF W
    <3> QED  BY <1>1, <1>11, <3>1, <3>2, <3>3, SoundStep
  <2> QED  BY <2>1, <2>2
<1>12. \A v \in Volumes, part \in Parts : Sound(<<v, part>>) => Sound(<<v, part>>)'
  BY <1>11, FileFacts
<1>13. Named'
  <2>1. ASSUME NEW v \in Volumes, NEW part \in Parts, proc[p].pc = "create", proc[p].vol = v
        PROVE  <<v, part>> \in FilesOf(r.todo) \/ Sound(<<v, part>>)'
    <3>1. <<v, part>> \in Pend(p) \/ Sound(<<v, part>>)
      BY <1>1, <2>1 DEF Named
    <3>2. CASE <<v, part>> = W
      <4>1. files'[<<v, part>>].st = "whole" \/ <<v, part>> \in broken' \/ <<v, part>> \in Rewriting'
        <5>1. r.opened /\ Head(r.todo).file = W => W \in Rewriting'
          BY <1>1, RewritingStep
        <5> QED  BY <1>4, <3>2, <5>1 DEF W
      <4>2. Sound(<<v, part>>)'
        BY <4>1 DEF Sound
      <4> QED  BY <4>2
    <3>3. CASE <<v, part>> # W
      <4>1. <<v, part>> \in Pend(p) => <<v, part>> \in FilesOf(r.todo)
        BY <3>3 DEF W
      <4>2. Sound(<<v, part>>) => Sound(<<v, part>>)'
        BY <1>12
      <4> QED  BY <3>1, <4>1, <4>2
    <3> QED  BY <3>2, <3>3
  <2>2. ASSUME NEW c \in Configs, files'[c].st = "whole"
        PROVE  \/ files[c].st = "whole" /\ files'[c].val = files[c].val
               \/ /\ InitsEnclave(files'[c].val) /\ InitsStorage(files'[c].val)
                  /\ \A v \in Volumes, part \in Parts :
                       files'[c].val.vol = v => Sound(<<v, part>>)'
    <3>1. CASE files[c].st = "whole" /\ files'[c].val = files[c].val
      BY <3>1
    <3>2. CASE /\ files'[c].val.vol = proc[p].vol /\ c = W /\ r.todo = <<>>
               /\ InitsEnclave(files'[c].val) /\ InitsStorage(files'[c].val)
      <4>1. proc[p].pc = "create" /\ files'[c].val.vol = proc[p].vol
        BY <1>7, <3>2
      <4>2. FilesOf(r.todo) = {}
        <5>1. DOMAIN r.todo = {}
          BY <3>2
        <5> QED  BY <5>1 DEF FilesOf
      <4>3. ASSUME NEW v \in Volumes, NEW part \in Parts, files'[c].val.vol = v
            PROVE  Sound(<<v, part>>)'
        BY <2>1, <4>1, <4>2, <4>3
      <4> QED  BY <3>2, <4>3
    <3> QED  BY <1>8, <2>2, <3>1, <3>2
  <2>3. ASSUME NEW c \in Configs, files[c].st = "absent" \/ Sound(c)
        PROVE  files'[c].st = "absent" \/ Sound(c)'
    <3>1. c \in Files
      BY FileFacts
    <3>2. CASE Sound(c)
      BY <1>11, <3>1, <3>2
    <3>3. CASE files[c].st = "absent" /\ c # W
      BY <1>4, <3>1, <3>3
    <3>4. CASE c = W
      <4>1. \/ files'[c].st = "whole" \/ c \in broken' \/ c \in Rewriting'
        <5>1. r.opened /\ Head(r.todo).file = W => W \in Rewriting'
          BY <1>1, RewritingStep
        <5> QED  BY <1>4, <3>4, <5>1 DEF W
      <4>2. Sound(c)'
        BY <4>1 DEF Sound
      <4> QED  BY <4>2
    <3> QED  BY <2>3, <3>2, <3>3, <3>4
  <2>4. \A c \in Configs : files[c].st = "absent" \/ Sound(c) =>
          files'[c].st = "absent" \/ Sound(c)'
    BY <2>3
  <2> QED  BY <1>1, <1>10, <1>12, <2>1, <2>2, <2>4, NamedStep
<1>14. Unknown'
  <2>1. \A c \in Configs : files'[c].st = "whole" =>
           \/ files[c].st = "whole" /\ files'[c].val = files[c].val
           \/ files'[c].val.vol = proc[p].vol /\ r.todo = <<>>
    BY <1>8
  <2> QED  BY <1>1, <2>1, UnknownStep
<1>15. ASSUME NEW n \in Nodes \ excused'
       PROVE  Right(n)'
  <2>1. Right(n) /\ n \in Nodes \ excused /\ "root" \in Parts /\ "super" \in Parts
    BY <1>1 DEF Agreed, Parts
  <2>2. ASSUME NEW v \in Volumes
        PROVE  /\ RootSame(v) \/ RootLost(p, r, v, n) \/ RootNew(p, v, n)
               /\ W = <<v, "root">> => RootLost(p, r, v, n) \/ RootNew(p, v, n)
    <3>1. <<v, "root">> \in Files
      BY FileFacts
    <3>2. W # <<v, "root">> => RootSame(v)
      BY <1>4, <3>1 DEF RootSame
    <3>3. ASSUME W = <<v, "root">>
          PROVE  RootLost(p, r, v, n) \/ RootNew(p, v, n)
      <4>1. /\ v = proc[p].vol
            /\ \A q \in Procs : Mine(q, n) /\ proc[q].vol = v => q = p
            /\ \/ proc[p].pc = "busy" /\ Head(proc[p].todo).val = proc[p].ents
               \/ /\ proc[p].pc = "create" /\ Head(proc[p].todo).val = {}
                  /\ <<v, n>> \notin kept /\ ~Mine(p, n)
        BY <2>1, <3>3, WritingPart DEF W
      <4>2. CASE x.st # "whole"
        <5>1. \/ <<v, "root">> \in FilesOf(r.todo) /\ <<v, "root">> \in Rewriting'
              \/ <<v, n>> \notin kept /\ ~Mine(p, n)
          BY <2>1, <3>3, <4>2 DEF W
        <5>2. files'[<<v, "root">>].st # "whole"
          BY <1>4, <3>3, <4>2
        <5> QED  BY <4>1, <5>1, <5>2 DEF RootLost
      <4>3. CASE x.st = "whole"
        <5>1. files'[<<v, "root">>].st = "whole" /\ files'[<<v, "root">>].val = Head(proc[p].todo).val
          BY <1>4, <3>3, <4>3
        <5>2. Mine(p, n) => Flying(v, n)
          BY <4>1 DEF Flying
        <5>3. proc[p].pc = "busy" /\ ~Mine(p, n) => (n \in proc[p].ents <=> <<v, n>> \in kept)
          BY <2>1, <4>1 DEF Right, ViewRight
        <5> QED  BY <4>1, <5>1, <5>2, <5>3 DEF RootNew
      <4> QED  BY <4>2, <4>3
    <3> QED  BY <3>2, <3>3
  <2>3. ASSUME NEW v \in Volumes, NEW part \in Parts, <<v, n>> \in kept, PartThere(v, part)
        PROVE  PartThere(v, part)'
    <3>1. <<v, part>> \in Files
      BY FileFacts
    <3>2. CASE <<v, part>> # W
      BY <1>4, <1>6, <2>3, <3>1, <3>2 DEF PartThere
    <3>3. CASE <<v, part>> = W
      <4>1. x.st # "whole" => <<v, part>> \in Rewriting'
        BY <2>3, <3>3 DEF W
      <4> QED  BY <1>4, <3>3, <4>1 DEF PartThere
    <3> QED  BY <3>2, <3>3
  <2>9. ASSUME NEW v \in Volumes
        PROVE  /\ \/ files'[<<v, "super">>] = files[<<v, "super">>] \/ files'[<<v, "super">>].st = "whole"
                  \/ \A q \in Procs : Mine(q, n) /\ proc[q].vol = v =>
                       q = p /\ <<v, "super">> \in FilesOf(r.todo)
    <3>1. <<v, "super">> \in Files
      BY <2>1, FileFacts
    <3>2. CASE <<v, "super">> # W
      BY <1>4, <3>1, <3>2
    <3>3. CASE <<v, "super">> = W
      <4>1. \A q \in Procs : Mine(q, n) /\ proc[q].vol = v => q = p
        BY <2>1, <3>3, WritingPart DEF W
      <4>2. x.st # "whole" => <<v, "super">> \in FilesOf(r.todo) \/ ~Mine(p, n)
        BY <2>1, <3>3 DEF W
      <4> QED  BY <1>4, <3>3, <4>1, <4>2
    <3> QED  BY <3>2, <3>3
  <2>4. \/ files'[<<n, "node">>] = files[<<n, "node">>]
        \/ files'[<<n, "node">>].st = "whole"
        \/ Mine(p, n) /\ <<n, "node">> \in FilesOf(r.todo)
    <3>1. <<n, "node">> \in Files
      BY FileFacts
    <3>2. W = <<n, "node">> => Mine(p, n)
      BY WritingNode DEF W
    <3> QED  BY <1>4, <3>1, <3>2 DEF W
  <2>5. (r.pc = "busy" /\ r.node = n) <=> Mine(p, n)
    BY DEF Mine
  <2>6. ASSUME Mine(p, n)
        PROVE  /\ \/ <<r.vol, "root">> \notin Pend(p) \/ <<r.vol, "root">> \in FilesOf(r.todo)
                  \/ RootNew(p, r.vol, n)
               /\ \/ <<r.vol, "super">> \notin Pend(p) \/ <<r.vol, "super">> \in FilesOf(r.todo)
                  \/ files'[<<r.vol, "super">>].st = "whole"
               /\ \/ <<n, "node">> \notin Pend(p) \/ <<n, "node">> \in FilesOf(r.todo)
                  \/ files'[<<n, "node">>].st = "whole"
    <3>1. W = <<r.vol, "root">> => RootLost(p, r, r.vol, n) \/ RootNew(p, r.vol, n)
      BY <1>3, <2>2
    <3>2. RootLost(p, r, r.vol, n) => <<r.vol, "root">> \in FilesOf(r.todo)
      BY <2>6 DEF RootLost
    <3>3. W = <<n, "node">> => W \in FilesOf(r.todo) \/ files'[W].st = "whole"
      BY <1>4 DEF W
    <3>4. W = <<r.vol, "super">> => W \in FilesOf(r.todo) \/ files'[W].st = "whole"
      <4>1. W = <<r.vol, "super">> => x.st = "whole" \/ W \in FilesOf(r.todo)
        BY <1>3, <2>1, <2>6 DEF W
      <4> QED  BY <1>4, <4>1
    <3> QED  BY <3>1, <3>2, <3>3, <3>4 DEF W
  <2>7. r.pc \in {"idle", "busy"} /\ ~Mine(p, n) => (n \in r.ents <=> <<r.vol, n>> \in kept)
    BY <2>1 DEF Right, ViewRight
  <2>8. r.pc # "off" => r.vol \in Volumes
    BY <1>3
  <2> QED  BY <1>1, <2>1, <2>2, <2>3, <2>4, <2>5, <2>6, <2>7, <2>8, <2>9, RightStep
<1>16. Agreed'
  BY <1>15 DEF Agreed
<1>17. Loaded'
  <2>1. ASSUME NEW v \in Volumes
        PROVE  \/ files'[<<v, "user">>] = files[<<v, "user">>]
               \/ ~Served(r) /\ \A q \in Procs \ {p} : proc[q].vol # v
    <3>1. <<v, "user">> \in Files /\ <<v, "user">> \notin Configs
      BY FileFacts DEF Parts
    <3>2. CASE W # <<v, "user">>
      BY <1>4, <3>1, <3>2
    <3>3. CASE W = <<v, "user">>
      <4>1. proc[p].pc = "create"
        BY <1>1, <1>3, <3>3, SaveFacts DEF W
      <4>2. proc[p].vol = v
        BY <1>1, <3>1, <3>3, <4>1, SaveFacts DEF W
      <4> QED  BY <1>1, <4>1, <4>2 DEF Unknown, Served
    <3> QED  BY <3>2, <3>3
  <2>2. Served(r) => Served(proc[p])
    BY DEF Served
  <2> QED  BY <1>1, <2>1, <2>2, LoadedStep
<1> QED  BY <1>10, <1>13, <1>14, <1>16, <1>17 DEF IInv

LEMMA TruncateInv ==
  ASSUME IInv, NEW p \in Procs, Truncate(p)
  PROVE  IInv'
<1> DEFINE r == [proc[p] EXCEPT !.opened = TRUE]
<1>1. /\ proc[p].todo # <<>> /\ files' = [files EXCEPT ![Writing(p)] = Empty]
      /\ Become(p, r) /\ UNCHANGED <<vols, nodes, kept, excused, broken>>
  BY DEF Truncate, counters, history
<1>2. Typed /\ excused \subseteq 1..nodes
  BY DEF IInv, Typed
<1>3. proc[p] \in States /\ Shape(proc[p], vols, nodes)
  BY <1>2, ProcFacts
<1>4. /\ r \in States /\ r.pc = proc[p].pc /\ r.vol = proc[p].vol /\ r.ents = proc[p].ents
      /\ r.node = proc[p].node /\ r.todo = proc[p].todo /\ r.opened
  BY <1>3 DEF States
<1> HIDE DEF r
<1>5. Shape(r, vols, nodes)
  BY <1>1, <1>3, <1>4 DEF Shape, RequestSave
<1>6. FilesOf(r.todo) = Pend(p) /\ Head(r.todo).file = Writing(p)
  BY <1>4 DEF Pend, Writing
<1>7. Writing(p) \in FilesOf(r.todo)
  BY <1>1, <1>2, <1>6, SaveFacts
<1>8. Writing(p) \in Rewriting'
  BY <1>1, <1>2, <1>4, <1>6, RewritingStep
<1>9. Empty.st # "whole"
  BY DEF Empty
<1> QED  BY <1>1, <1>2, <1>4, <1>5, <1>6, <1>7, <1>8, <1>9, SaveStep

LEMMA WriteInv ==
  ASSUME IInv, NEW p \in Procs, Write(p)
  PROVE  IInv'
<1> DEFINE r == [proc[p] EXCEPT !.opened = FALSE, !.todo = Tail(proc[p].todo)]
           x == Whole(Head(proc[p].todo).val)
<1>1. /\ proc[p].opened /\ files' = [files EXCEPT ![Writing(p)] = x]
      /\ broken' = broken \ {Writing(p)}
      /\ UNCHANGED <<vols, nodes, kept, excused>>
  BY DEF Write, counters
<1>2. Become(p, r)
  BY DEF Write
<1>3. Typed /\ excused \subseteq 1..nodes
  BY DEF IInv, Typed
<1>4. proc[p].todo # <<>>
  BY <1>1, <1>3, ProcFacts DEF Shape
<1>5. /\ r.pc = proc[p].pc /\ r.vol = proc[p].vol /\ r.ents = proc[p].ents
      /\ r.node = proc[p].node /\ r.todo = Tail(proc[p].todo)
      /\ Shape(r, vols, nodes) /\ Pend(p) \subseteq FilesOf(r.todo) \cup {Writing(p)}
  BY <1>3, <1>4, Popped
<1>6. x.st = "whole" /\ x.val = Head(proc[p].todo).val
  BY DEF Whole
<1> HIDE DEF r, x
<1> QED  BY <1>1, <1>2, <1>3, <1>4, <1>5, <1>6, SaveStep

LEMMA RefuseWriteInv ==
  ASSUME IInv, NEW p \in Procs, RefuseWrite(p)
  PROVE  IInv'
<1> DEFINE r == [proc[p] EXCEPT !.opened = FALSE, !.todo = Tail(proc[p].todo)]
<1>1. /\ proc[p].opened
      /\ excused' = excused \cup Victims(p, Writing(p))
      /\ broken' = broken \cup {Writing(p)}
      /\ UNCHANGED <<vols, nodes, kept>>
  BY DEF RefuseWrite
<1>2. Become(p, r)
  BY DEF RefuseWrite
<1>3. PICK x \in {Empty, Partial} : files' = [files EXCEPT ![Writing(p)] = x]
  BY DEF RefuseWrite
<1>4. Typed /\ excused \subseteq 1..nodes
  BY DEF IInv, Typed
<1>5. proc[p].todo # <<>>
  BY <1>1, <1>4, ProcFacts DEF Shape
<1>6. /\ r.pc = proc[p].pc /\ r.vol = proc[p].vol /\ r.ents = proc[p].ents
      /\ r.node = proc[p].node /\ r.todo = Tail(proc[p].todo)
      /\ Shape(r, vols, nodes) /\ Pend(p) \subseteq FilesOf(r.todo) \cup {Writing(p)}
  BY <1>4, <1>5, Popped
<1>7. x.st # "whole"
  BY DEF Empty, Partial
<1>8. proc[p].pc \in {"create", "busy"}
  BY <1>4, <1>5, SaveFacts
<1>9. /\ \A f : Victims(p, f) \subseteq 1..nodes
      /\ \A n \in Nodes : Mine(p, n) => n \in Subject(p)
  BY <1>4, <1>8, SubjectFacts
<1>10. ASSUME NEW n \in Nodes \ excused', NEW v \in Volumes, NEW part \in Parts,
              Writing(p) = <<v, part>>
       PROVE  <<v, n>> \notin kept /\ ~Mine(p, n)
  <2>1. n \in Nodes \ excused
    BY <1>1, <1>10
  <2>2. v = proc[p].vol
    BY <1>5, <1>10, <2>1, WritingPart
  <2>3. n \notin NodesOf(v) /\ n \notin Subject(p)
    BY <1>1, <1>10, <2>2 DEF Victims
  <2> QED  BY <1>9, <1>10, <2>3 DEF NodesOf
<1>11. ASSUME NEW n \in Nodes \ excused', Writing(p) = <<n, "node">>
       PROVE  FALSE
  <2>1. Mine(p, n)
    BY <1>5, <1>11, WritingNode
  <2>2. Victims(p, Writing(p)) = Subject(p)
    BY <1>11, <2>1 DEF Victims, Mine, Parts
  <2> QED  BY <1>1, <1>9, <1>11, <2>1, <2>2
<1> HIDE DEF r
<1> QED  BY <1>1, <1>2, <1>3, <1>4, <1>5, <1>6, <1>7, <1>9, <1>10, <1>11, SaveStep

\* A process that is killed while it saves leaves its file as it is.
LEMMA KillInv ==
  ASSUME IInv, NEW p \in Procs, Kill(p)
  PROVE  IInv'
<1>1. /\ proc[p].pc \in {"create", "busy"} /\ Become(p, Off)
      /\ excused' = excused \cup Subject(p)
                    \cup (IF proc[p].opened THEN Victims(p, Writing(p)) ELSE {})
      /\ broken' = broken \cup (IF proc[p].opened THEN {Writing(p)} ELSE {})
      /\ UNCHANGED <<files, vols, nodes, kept>>
  BY DEF Kill
<1>2. Typed /\ Named /\ Unknown /\ Loaded /\ Agreed /\ excused \subseteq 1..nodes
  BY DEF IInv, Typed
<1>3. /\ Subject(p) \subseteq 1..nodes
      /\ \A f : Victims(p, f) \subseteq 1..nodes
      /\ \A n \in Nodes : Mine(p, n) => n \in Subject(p)
  BY <1>1, <1>2, SubjectFacts
<1>4. excused \subseteq excused' /\ excused' \subseteq 1..nodes /\ broken \subseteq broken'
  BY <1>1, <1>2, <1>3
<1>5. \A n \in Nodes \ excused' : ~Mine(p, n)
  BY <1>1, <1>3
<1>6. CASE ~proc[p].opened
  BY <1>1, <1>4, <1>5, <1>6, OffStep
<1>7. CASE proc[p].opened
  <2>1. /\ Shape(Off, vols, nodes) /\ ~Off.opened /\ Off.pc = "off" /\ Off.vol = 0
        /\ Off.todo = <<>>
    BY <1>2, OffShape
  <2>2. /\ vols \in 0..MaxVolumes /\ nodes \in 0..MaxNodes /\ DOMAIN files = Files
        /\ kept \subseteq (1..vols) \X (1..nodes) /\ vols \in Nat /\ nodes \in Nat
    BY <1>2, Bounds DEF Typed
  <2>3. Typed'
    BY <1>1, <1>2, <1>4, <2>1, <2>2, TypedStep
  <2>4. Writing(p) \in broken'
    BY <1>1, <1>7
  <2>5. \A f : Sound(f) => Sound(f)'
    BY <1>1, <1>2, <1>4, <2>4, SoundStep
  <2>6. Named'
    <3>1. \A v \in Volumes, part \in Parts : Sound(<<v, part>>) => Sound(<<v, part>>)'
      BY <2>5
    <3>2. \A c \in Configs : files[c].st = "absent" \/ Sound(c) =>
            files'[c].st = "absent" \/ Sound(c)'
      BY <1>1, <2>5
    <3> QED  BY <1>1, <1>2, <2>1, <2>3, <3>1, <3>2, NamedStep
  <2>7. Unknown'
    BY <1>1, <1>2, <2>1, UnknownStep
  <2>8. proc[p].todo # <<>>
    BY <1>2, <1>7, ProcFacts DEF Shape
  <2>9. ASSUME NEW n \in Nodes \ excused'
        PROVE  Right(n)'
    <3>1. Right(n) /\ n \in Nodes \ excused /\ ~Mine(p, n)
      BY <1>2, <1>4, <1>5, <2>9 DEF Agreed
    <3>2. \A v \in Volumes : RootSame(v)
      BY <1>1 DEF RootSame
    <3>3. ASSUME NEW v \in Volumes, NEW part \in Parts, <<v, n>> \in kept, PartThere(v, part)
          PROVE  PartThere(v, part)'
      <4>1. CASE Writing(p) # <<v, part>>
        BY <1>1, <1>2, <3>3, <4>1, RewritingStep DEF PartThere
      <4>2. CASE Writing(p) = <<v, part>>
        <5>1. v = proc[p].vol
          BY <2>8, <3>1, <4>2, WritingPart
        <5>2. n \in NodesOf(v)
          BY <3>1, <3>3 DEF NodesOf
        <5>3. n \in Victims(p, Writing(p))
          BY <4>2, <5>1, <5>2 DEF Victims
        <5> QED  BY <1>1, <1>7, <2>9, <5>3
      <4> QED  BY <4>1, <4>2
    <3> QED  BY <1>1, <1>2, <2>1, <3>1, <3>2, <3>3, RightStep
  <2>10. Agreed'
    BY <2>9 DEF Agreed
  <2>11. Loaded'
    <3>1. ~Served(Off)
      BY <2>1 DEF Served
    <3> QED  BY <1>1, <1>2, <3>1, LoadedStep
  <2> QED  BY <2>3, <2>6, <2>7, <2>10, <2>11 DEF IInv
<1> QED  BY <1>6, <1>7

-----------------------------------------------------------------------------
(* Steps that begin or end something.                                      *)

\* A volume that nobody knows of yet.
LEMMA CreateInv ==
  ASSUME IInv, NEW p \in Procs, NEW from \in Configs, NEW to \in Configs, Create(p, from, to)
  PROVE  IInv'
<1> DEFINE cfg == files[from].val
           v == vols + 1
           todo == CreatesVolume(v, cfg, to)
           r == [Off EXCEPT !.pc = "create", !.vol = v, !.todo = todo]
<1>1. /\ proc[p].pc = "off" /\ v <= MaxVolumes /\ files[from].st = "whole"
      /\ InitsEnclave(cfg) /\ InitsStorage(cfg)
      /\ vols' = v /\ Become(p, r) /\ UNCHANGED <<files, nodes, kept, excused, broken>>
  BY DEF Create, LoadsConfig, history
<1>2. Typed /\ Named /\ Unknown /\ Loaded /\ Agreed
  BY DEF IInv
<1>3. /\ vols \in 0..MaxVolumes /\ nodes \in 0..MaxNodes /\ DOMAIN files = Files
      /\ kept \subseteq (1..vols) \X (1..nodes) /\ excused \subseteq 1..nodes
      /\ vols \in Nat /\ nodes \in Nat
  BY <1>2, Bounds DEF Typed
<1>4. v \in Volumes /\ v \in 0..MaxVolumes /\ v # 0 /\ vols <= v
  BY <1>1, <1>3, Bounds DEF Volumes
<1>5. cfg \in Cfg
  BY <1>1, <1>2 DEF Typed
<1>6. /\ [cfg EXCEPT !.vol = v] \in Cfg /\ [cfg EXCEPT !.vol = v].vol = v
      /\ InitsEnclave([cfg EXCEPT !.vol = v]) /\ InitsStorage([cfg EXCEPT !.vol = v])
  <2> HIDE DEF cfg, v
  <2>1. [cfg EXCEPT !.vol = v].fields = cfg.fields
    BY <1>5 DEF Cfg
  <2> QED  BY <1>1, <1>4, <1>5, <2>1 DEF Cfg, InitsEnclave, InitsStorage, LoadsApi
<1> DEFINE named == [cfg EXCEPT !.vol = v]
<1>7. todo = <<[file |-> <<v, "user">>, val |-> UserTable], [file |-> <<v, "root">>, val |-> {}],
               [file |-> <<v, "super">>, val |-> 0], [file |-> to, val |-> named]>>
  BY DEF CreatesVolume, Save
<1> HIDE DEF named, cfg, v, todo
<1>8. <<v, "user">> \in Files /\ <<v, "root">> \in Files /\ <<v, "super">> \in Files /\ to \in Files
  BY <1>4, FileFacts DEF Parts
<1>9. todo \in Seq(Saves)
  <2>0. 0 \in Cfg \cup (SUBSET Nodes) \cup {0, UserTable}
        /\ UserTable \in Cfg \cup (SUBSET Nodes) \cup {0, UserTable}
    <3> HIDE DEF UserTable
    <3>1. 0 \in {0, UserTable} /\ UserTable \in {0, UserTable}
      OBVIOUS
    <3> QED  BY <3>1
  <2>1. [file |-> <<v, "user">>, val |-> UserTable] \in Saves
    BY <1>8, <2>0 DEF Saves
  <2>2. [file |-> <<v, "root">>, val |-> {}] \in Saves
    BY <1>8 DEF Saves
  <2>3. [file |-> <<v, "super">>, val |-> 0] \in Saves
    BY <1>8, <2>0 DEF Saves
  <2>4. [file |-> to, val |-> named] \in Saves
    BY <1>6, <1>8 DEF Saves, named
  <2> QED  BY <1>7, <2>1, <2>2, <2>3, <2>4
<1>10. Len(todo) = 4 /\ DOMAIN todo = {1, 2, 3, 4} /\ todo # <<>>
  <2>1. Len(todo) = 4 /\ DOMAIN todo = 1..4
    BY <1>7
  <2> QED  BY <2>1, SMTT(30)
<1>11. /\ todo[1] = [file |-> <<v, "user">>, val |-> UserTable]
       /\ todo[2] = [file |-> <<v, "root">>, val |-> {}]
       /\ todo[3] = [file |-> <<v, "super">>, val |-> 0]
       /\ todo[4] = [file |-> to, val |-> named]
  BY <1>7
<1>12. /\ Off \in States /\ ~Off.opened
       /\ Off.ents = {} /\ Off.node = 0
  BY <1>2, OffShape DEF Off
<1>13. /\ r \in States /\ r.pc = "create" /\ r.vol = v /\ r.todo = todo /\ ~r.opened
       /\ r.ents = {} /\ r.node = 0
  BY <1>4, <1>9, <1>12 DEF States, Pcs
<1> HIDE DEF r
<1>14. Shape(r, vols', nodes')
  <2>1. ASSUME NEW i \in DOMAIN r.todo
        PROVE  IF i = Len(r.todo) THEN ConfigSave(r.todo[i], r.vol) ELSE PartSave(r.todo[i], r.vol)
    <3>1. i = 1 => PartSave(todo[i], v)
      BY <1>11 DEF PartSave, Parts
    <3>2. i = 2 => PartSave(todo[i], v)
      BY <1>11 DEF PartSave, Parts
    <3>3. i = 3 => PartSave(todo[i], v)
      BY <1>11 DEF PartSave, Parts
    <3>4. i = 4 => ConfigSave(todo[i], v)
      <4>1. named \in Cfg /\ named.vol = v /\ InitsEnclave(named) /\ InitsStorage(named)
        BY <1>6 DEF named
      <4>2. todo[4].file = to /\ todo[4].val = named
        BY <1>11
      <4> QED  BY <4>1, <4>2 DEF ConfigSave
    <3> QED  BY <1>10, <1>13, <2>1, <3>1, <3>2, <3>3, <3>4
  <2>2. v <= vols'
    BY <1>1, <1>4 DEF Volumes
  <2> QED  BY <1>4, <1>10, <1>13, <2>1, <2>2 DEF Shape
<1>15. \A part \in Parts : <<v, part>> \in FilesOf(r.todo)
  BY <1>10, <1>11, <1>13 DEF FilesOf, Parts
<1>16. Typed'
  <2>1. kept \subseteq (1..v) \X (1..nodes)
    BY <1>3, <1>4
  <2> QED  BY <1>1, <1>2, <1>3, <1>4, <1>14, <2>1, TypedStep
<1>17. ~proc[p].opened /\ proc[p].vol = 0
  BY <1>1, <1>2, NotOpened, ProcFacts DEF Shape
<1>18. Named'
  <2>1. \A w \in Volumes, part \in Parts : Sound(<<w, part>>) => Sound(<<w, part>>)'
    BY <1>1, <1>2, <1>17, SoundStep
  <2>2. \A c \in Configs : files[c].st = "absent" \/ Sound(c) =>
          files'[c].st = "absent" \/ Sound(c)'
    BY <1>1, <1>2, <1>17, SoundStep
  <2> QED  BY <1>1, <1>2, <1>13, <1>15, <1>16, <2>1, <2>2, NamedStep
<1>19. /\ \A c \in Configs : files[c].st = "whole" => files[c].val.vol # v
       /\ \A q \in Procs : proc[q].vol # v
       /\ \A n \in Nodes : <<v, n>> \notin kept
  <2>1. \A c \in Configs : files[c].st = "whole" => files[c].val \in Cfg /\ files[c].val.vol <= vols
    BY <1>2 DEF Typed
  <2>2. \A q \in Procs : proc[q].vol \in 0..MaxVolumes /\ proc[q].vol <= vols
    BY <1>2, ProcFacts DEF Shape
  <2> QED  BY <1>3, <2>1, <2>2, Bounds DEF v, Cfg
<1>20. Unknown'
  <2>1. proc'[p] = r /\ \A q \in Procs \ {p} : proc'[q] = proc[q]
    BY <1>1, <1>2, BecomeFacts
  <2>2. ASSUME NEW q \in Procs, proc'[q].pc = "create", proc'[q].todo # <<>>
        PROVE  /\ \A c \in Configs : files'[c].st = "whole" => files'[c].val.vol # proc'[q].vol
               /\ \A s \in Procs \ {q} : proc'[s].vol # proc'[q].vol
               /\ \A n \in Nodes : <<proc'[q].vol, n>> \notin kept'
    <3>1. CASE q = p
      BY <1>1, <1>13, <1>19, <2>1, <3>1
    <3>2. CASE q # p
      <4>1. /\ \A c \in Configs : files[c].st = "whole" => files[c].val.vol # proc[q].vol
            /\ \A s \in Procs \ {q} : proc[s].vol # proc[q].vol
            /\ \A n \in Nodes : <<proc[q].vol, n>> \notin kept
        BY <1>2, <2>1, <2>2, <3>2 DEF Unknown
      <4>2. r.vol # proc[q].vol
        BY <1>13, <1>19
      <4> QED  BY <1>1, <2>1, <3>2, <4>1, <4>2
    <3> QED  BY <3>1, <3>2
  <2> QED  BY <2>2 DEF Unknown
<1>21. ASSUME NEW n \in Nodes \ excused'
       PROVE  Right(n)'
  <2>1. Right(n) /\ ~Mine(p, n)
    BY <1>1, <1>2 DEF Agreed, Mine
  <2>2. \A w \in Volumes : RootSame(w)
    BY <1>1 DEF RootSame
  <2>3. \A f : f \in Rewriting => f \in Rewriting'
    BY <1>1, <1>2, <1>17, RewritingStep
  <2>4. \A w \in Volumes, part \in Parts : PartThere(w, part) => PartThere(w, part)'
    BY <1>1, <2>3 DEF PartThere
  <2> QED  BY <1>1, <1>2, <1>4, <1>13, <2>1, <2>2, <2>4, RightStep
<1>22. Agreed'
  BY <1>21 DEF Agreed
<1>23. Loaded'
  <2>1. ~Served(r)
    BY <1>13 DEF Served
  <2> QED  BY <1>1, <1>2, <2>1, LoadedStep
<1> QED  BY <1>16, <1>18, <1>20, <1>22, <1>23 DEF IInv

\* A request of p begins: it is about node k, and maybe removes the file of k.
LEMMA BusyStep ==
  ASSUME IInv, NEW p \in Procs, proc[p].pc = "idle", NEW r, Become(p, r),
         NEW k \in Nodes, nodes' \in 0..MaxNodes, nodes <= nodes', k \in 1..nodes',
         r.pc = "busy", r.vol = proc[p].vol, r.node = k, ~r.opened,
         r.ents \subseteq proc[p].ents \cup {k}, proc[p].ents \subseteq r.ents \cup {k},
         Shape(r, vols, nodes'),
         files' = files \/ files' = [files EXCEPT ![<<k, "node">>] = Absent],
         UNCHANGED <<vols, kept, broken>>,
         excused' = IF Others(p, proc[p].vol) = {} THEN excused ELSE excused \cup {k},
         k \notin excused' => Right(k)'
  PROVE  IInv'
<1>1. Typed /\ Named /\ Unknown /\ Loaded /\ Agreed
  BY DEF IInv
<1>2. /\ vols \in 0..MaxVolumes /\ nodes \in 0..MaxNodes /\ DOMAIN files = Files
      /\ kept \subseteq (1..vols) \X (1..nodes) /\ excused \subseteq 1..nodes
      /\ vols \in Nat /\ nodes \in Nat /\ nodes' \in Nat
  BY <1>1, Bounds DEF Typed
<1>3. ~proc[p].opened /\ proc[p].vol \in Volumes
  BY <1>1, NotOpened, ProcFacts
<1>4. /\ DOMAIN files' = Files
      /\ \A f \in Files : f # <<k, "node">> => files'[f] = files[f]
  BY <1>2
<1>5. /\ \A c \in Configs : files'[c] = files[c]
      /\ \A v \in Volumes, part \in Parts : files'[<<v, part>>] = files[<<v, part>>]
      /\ \A v \in Volumes : /\ files'[<<v, "root">>] = files[<<v, "root">>]
                            /\ files'[<<v, "super">>] = files[<<v, "super">>]
                            /\ files'[<<v, "user">>] = files[<<v, "user">>]
  <2>1. (\A part \in Parts : part # "node") /\ {"root", "super", "user"} \subseteq Parts
    BY DEF Parts
  <2>2. \A v \in Volumes, part \in Parts : <<v, part>> # <<k, "node">>
    BY <2>1
  <2>3. \A v \in Volumes, part \in Parts : files'[<<v, part>>] = files[<<v, part>>]
    BY <1>4, <2>2, FileFacts
  <2>4. \A c \in Configs : c # <<k, "node">>
    BY FileFacts
  <2>5. \A c \in Configs : files'[c] = files[c]
    BY <1>4, <2>4, FileFacts
  <2> QED  BY <2>1, <2>3, <2>5
<1>6. Typed'
  <2>1. kept \subseteq (1..vols) \X (1..nodes') /\ excused' \subseteq 1..nodes'
    BY <1>2
  <2>2. \A v \in Volumes : files'[<<v, "root">>] = files[<<v, "root">>]
    BY <1>5
  <2>3. \A c \in Configs : files'[c] = files[c]
    BY <1>5
  <2>4. \A c \in Configs : files'[c].st = "whole" => files[c].st = "whole" /\ files'[c].val = files[c].val
    BY <2>3
  <2> QED  BY <1>1, <1>2, <1>4, <2>1, <2>2, <2>4, TypedStep
<1>7. Named'
  <2>1. ASSUME NEW v \in Volumes, NEW part \in Parts, Sound(<<v, part>>)
        PROVE  Sound(<<v, part>>)'
    <3>1. files'[<<v, part>>] = files[<<v, part>>]
      BY <1>5
    <3> QED  BY <1>1, <1>3, <2>1, <3>1, SoundStep
  <2>2. \A v \in Volumes, part \in Parts : Sound(<<v, part>>) => Sound(<<v, part>>)'
    BY <2>1
  <2>3. ASSUME NEW c \in Configs, files[c].st = "absent" \/ Sound(c)
        PROVE  files'[c].st = "absent" \/ Sound(c)'
    <3>1. files'[c] = files[c]
      BY <1>5
    <3>2. Sound(c) => Sound(c)'
      BY <1>1, <1>3, <3>1, SoundStep
    <3> QED  BY <2>3, <3>1, <3>2
  <2>4. \A c \in Configs : files[c].st = "absent" \/ Sound(c) =>
          files'[c].st = "absent" \/ Sound(c)'
    BY <2>3
  <2> QED  BY <1>1, <1>5, <1>6, <2>2, <2>4, NamedStep
<1>8. Unknown'
  BY <1>1, <1>5, UnknownStep
<1>9. ASSUME NEW n \in Nodes \ excused', n # k
      PROVE  Right(n)'
  <2>1. Right(n) /\ ~Mine(p, n) /\ n \notin excused
    BY <1>1, <1>9 DEF Agreed, Mine
  <2>2. \A v \in Volumes : RootSame(v)
    BY <1>5 DEF RootSame
  <2>3. \A v \in Volumes, part \in Parts : PartThere(v, part) => PartThere(v, part)'
    <3>1. \A f : f \in Rewriting => f \in Rewriting'
      BY <1>1, <1>3, RewritingStep
    <3> QED  BY <1>5, <3>1 DEF PartThere
  <2>4. files'[<<n, "node">>] = files[<<n, "node">>]
    <3>1. <<n, "node">> \in Files /\ <<n, "node">> # <<k, "node">>
      BY <1>9, FileFacts
    <3> QED  BY <1>4, <3>1
  <2>5. n \in r.ents <=> <<r.vol, n>> \in kept
    BY <1>9, <2>1 DEF Right, ViewRight
  <2>6. \A v \in Volumes : files'[<<v, "super">>] = files[<<v, "super">>]
    BY <1>5
  <2>7. ~(r.pc = "busy" /\ r.node = n)
    BY <1>9
  <2>8. \A v \in Volumes : <<v, n>> \in kept' <=> <<v, n>> \in kept
    OBVIOUS
  <2>9. /\ n \in Nodes /\ (r.pc # "off" => r.vol \in Volumes)
        /\ (r.pc = "busy" /\ r.node = n) <=> Mine(p, n)
    BY <1>3, <2>1, <2>7
  <2>10. r.pc \in {"mount", "idle", "busy"} =>
           \/ proc[p].pc \in {"mount", "idle", "busy"} /\ r.vol = proc[p].vol
           \/ \A q \in Procs : Mine(q, n) => proc[q].vol # r.vol
    OBVIOUS
  <2>11. \A v \in Volumes : RootSame(v) \/ RootLost(p, r, v, n) \/ RootNew(p, v, n)
    BY <2>2
  <2>12. \A v \in Volumes, part \in Parts : <<v, n>> \in kept /\ PartThere(v, part) => PartThere(v, part)'
    BY <2>3
  <2> QED  BY <1>1, <2>1, <2>4, <2>5, <2>6, <2>8, <2>9, <2>10, <2>11, <2>12, RightStep
<1>10. Agreed'
  <2>1. \A n \in Nodes \ excused' : Right(n)'
    BY <1>9
  <2> QED  BY <2>1 DEF Agreed
<1>11. Loaded'
  <2>1. Served(proc[p])
    BY DEF Served
  <2> QED  BY <1>1, <1>5, <2>1, LoadedStep
<1> QED  BY <1>6, <1>7, <1>8, <1>10, <1>11 DEF IInv

\* A node that nobody knows of yet.
LEMMA AddEntryInv ==
  ASSUME IInv, NEW p \in Procs, AddEntry(p)
  PROVE  IInv'
<1>0. PICK k : k = nodes + 1
  OBVIOUS
<1> DEFINE todo == Adds(p, k)
           r == [proc[p] EXCEPT !.pc = "busy", !.ents = proc[p].ents \cup {k}, !.node = k,
                                !.todo = todo]
<1>1. /\ proc[p].pc = "idle" /\ k <= MaxNodes /\ nodes' = k /\ Become(p, r)
      /\ excused' = IF Others(p, proc[p].vol) = {} THEN excused ELSE excused \cup {k}
      /\ UNCHANGED <<files, vols, kept, broken>>
  BY <1>0 DEF AddEntry, Busy
<1>2. Typed /\ Agreed
  BY DEF IInv
<1>3. /\ nodes \in Nat /\ vols \in Nat /\ kept \subseteq (1..vols) \X (1..nodes)
  BY <1>2, Bounds DEF Typed
<1>4. k \in Nodes /\ k \in 1..nodes' /\ nodes' \in 0..MaxNodes /\ nodes <= nodes' /\ k \in Nat
  BY <1>0, <1>1, <1>3, Bounds DEF Nodes
<1>5. /\ proc[p] \in States /\ Shape(proc[p], vols, nodes) /\ proc[p].vol \in Volumes
      /\ ~proc[p].opened /\ proc[p].ents \subseteq 1..nodes
  BY <1>1, <1>2, ProcFacts, NotOpened
<1>6. proc[p].ents \cup {k} \subseteq Nodes /\ proc[p].ents \cup {k} \subseteq 1..nodes'
  BY <1>0, <1>1, <1>3, <1>4, <1>5, Bounds DEF Nodes
<1>7. todo = <<[file |-> <<proc[p].vol, "root">>, val |-> proc[p].ents \cup {k}],
               [file |-> <<proc[p].vol, "super">>, val |-> 0], [file |-> <<k, "node">>, val |-> 0]>>
  BY DEF Adds, SaveRoot, SaveSuper, Save
<1> HIDE DEF todo
<1>8. todo \in Seq(Saves)
  <2>1. /\ <<proc[p].vol, "root">> \in Files /\ <<proc[p].vol, "super">> \in Files
        /\ <<k, "node">> \in Files
    BY <1>4, <1>5, FileFacts DEF Parts
  <2>2. [file |-> <<proc[p].vol, "root">>, val |-> proc[p].ents \cup {k}] \in Saves
    BY <1>6, <2>1 DEF Saves
  <2>3. [file |-> <<proc[p].vol, "super">>, val |-> 0] \in Saves
    BY <2>1 DEF Saves
  <2>4. [file |-> <<k, "node">>, val |-> 0] \in Saves
    BY <2>1 DEF Saves
  <2> QED  BY <1>7, <2>2, <2>3, <2>4
<1>9. DOMAIN todo = {1, 2, 3} /\ todo # <<>>
  <2>1. Len(todo) = 3 /\ DOMAIN todo = 1..3
    BY <1>7
  <2> QED  BY <2>1
<1>10. /\ todo[1] = [file |-> <<proc[p].vol, "root">>, val |-> proc[p].ents \cup {k}]
       /\ todo[2] = [file |-> <<proc[p].vol, "super">>, val |-> 0]
       /\ todo[3] = [file |-> <<k, "node">>, val |-> 0]
  BY <1>7
<1>11. /\ r \in States /\ r.pc = "busy" /\ r.vol = proc[p].vol /\ r.todo = todo /\ ~r.opened
       /\ r.ents = proc[p].ents \cup {k} /\ r.node = k
  BY <1>4, <1>5, <1>6, <1>8 DEF States, Pcs
<1> HIDE DEF r
<1>12. Shape(r, vols, nodes')
  <2>1. \A i \in DOMAIN r.todo : RequestSave(r.todo[i], r)
    BY <1>9, <1>10, <1>11 DEF RequestSave
  <2>2. r.vol <= vols /\ r.vol # 0
    BY <1>1, <1>5, <1>11 DEF Shape
  <2> QED  BY <1>4, <1>6, <1>11, <2>1, <2>2 DEF Shape
<1>13. /\ <<proc[p].vol, "root">> \in FilesOf(r.todo) /\ <<k, "node">> \in FilesOf(r.todo)
       /\ <<proc[p].vol, "super">> \in FilesOf(r.todo)
  BY <1>9, <1>10, <1>11 DEF FilesOf
<1>14. ASSUME k \notin excused'
       PROVE  Right(k)'
  <2>1. Others(p, proc[p].vol) = {}
    BY <1>1, <1>14
  <2>2. proc'[p] = r /\ \A q \in Procs \ {p} : proc'[q] = proc[q]
    BY <1>1, <1>2, BecomeFacts
  <2>3. k \notin 1..nodes
    BY <1>0, <1>3
  <2>4. \A v : <<v, k>> \notin kept
    BY <1>3, <2>3
  <2>5. \A q \in Procs : k \notin proc[q].ents /\ (proc[q].pc = "busy" => proc[q].node # k)
    BY <1>2, <2>3, ProcFacts DEF Shape
  <2>6. \A v \in Volumes : RootWhole(v) => ~InRoot(v, k)
    BY <1>2, <2>3 DEF Typed, RootWhole, InRoot
  <2>7. \A q \in Procs : Mine(q, k)' <=> q = p
    BY <1>11, <2>2, <2>5 DEF Mine
  <2>8. RootRight(k)'
    BY <1>1, <2>4, <2>6 DEF RootRight, RootWhole, InRoot
  <2>9. ViewRight(k)'
    <3> SUFFICES ASSUME NEW q \in Procs, q # p
                 PROVE  k \in proc'[q].ents <=> <<proc'[q].vol, k>> \in kept'
      BY <2>7 DEF ViewRight
    <3> QED  BY <1>1, <2>2, <2>4, <2>5
  <2>10. FilesThere(k)' /\ OneVolume(k)'
    BY <1>1, <2>4 DEF FilesThere, OneVolume
  <2>11. Alone(k)'
    <3>1. Others(p, proc[p].vol)' = {}
      BY <1>11, <2>1, <2>2 DEF Others
    <3> QED  BY <1>1, <2>4, <2>7, <3>1 DEF Alone
  <2>12. Saved(k)'
    <3> SUFFICES ASSUME NEW q \in Procs, q = p
                 PROVE  /\ <<proc'[q].vol, "root">> \in Pend(q)'
                        /\ <<proc'[q].vol, "super">> \in Pend(q)'
                        /\ k \in proc'[q].ents /\ <<k, "node">> \in Pend(q)'
      BY <2>7 DEF Saved
    <3> QED  BY <1>11, <1>13, <2>2 DEF Pend
  <2> QED  BY <2>8, <2>9, <2>10, <2>11, <2>12 DEF Right
<1>15. r.ents \subseteq proc[p].ents \cup {k} /\ proc[p].ents \subseteq r.ents \cup {k}
  BY <1>11
<1>16. files' = files /\ UNCHANGED <<vols, kept, broken>>
  BY <1>1
<1> QED  BY <1>1, <1>4, <1>11, <1>12, <1>14, <1>15, <1>16, BusyStep

\* The file of the node is removed before the root is saved.
LEMMA RemoveEntryInv ==
  ASSUME IInv, NEW p \in Procs, NEW k \in Nodes, RemoveEntry(p, k)
  PROVE  IInv'
<1> DEFINE todo == Removes(p, k)
           r == [proc[p] EXCEPT !.pc = "busy", !.ents = proc[p].ents \ {k}, !.node = k,
                                !.todo = todo]
<1>1. /\ proc[p].pc = "idle" /\ k \in proc[p].ents /\ UNCHANGED <<vols, nodes, kept, broken>>
  BY DEF RemoveEntry, counters
<1>2. CASE Aborts(k) /\ Abort(p) /\ UNCHANGED <<files, excused>>
  BY <1>1, <1>2, AbortInv
<1>3. CASE RemoveFile(<<k, "node">>) /\ Busy(p, proc[p].ents \ {k}, k, Removes(p, k))
  <2>1. /\ files' = [files EXCEPT ![<<k, "node">>] = Absent] /\ Become(p, r)
        /\ excused' = IF Others(p, proc[p].vol) = {} THEN excused ELSE excused \cup {k}
    BY <1>3 DEF RemoveFile, Busy
  <2>2. Typed /\ Agreed
    BY DEF IInv
  <2>3. /\ nodes \in Nat /\ nodes \in 0..MaxNodes /\ vols \in Nat
        /\ kept \subseteq (1..vols) \X (1..nodes) /\ DOMAIN files = Files
    BY <2>2, Bounds DEF Typed
  <2>4. /\ proc[p] \in States /\ Shape(proc[p], vols, nodes) /\ proc[p].vol \in Volumes
        /\ ~proc[p].opened /\ proc[p].ents \subseteq 1..nodes /\ 1..nodes \subseteq Nodes
    BY <1>1, <2>2, ProcFacts, NotOpened
  <2>5. k \in 1..nodes /\ k \in Nat
    BY <1>1, <2>4
  <2>6. todo = <<[file |-> <<proc[p].vol, "root">>, val |-> proc[p].ents \ {k}]>>
    BY DEF Removes, SaveRoot, Save
  <2>7. proc[p].ents \ {k} \subseteq Nodes /\ proc[p].ents \ {k} \subseteq 1..nodes
    BY <2>4
  <2> HIDE DEF todo
  <2>8. todo \in Seq(Saves)
    <3>1. <<proc[p].vol, "root">> \in Files
      BY <2>4, FileFacts
    <3>2. [file |-> <<proc[p].vol, "root">>, val |-> proc[p].ents \ {k}] \in Saves
      BY <2>7, <3>1 DEF Saves
    <3> QED  BY <2>6, <3>2
  <2>9. /\ DOMAIN todo = {1} /\ todo # <<>>
        /\ todo[1] = [file |-> <<proc[p].vol, "root">>, val |-> proc[p].ents \ {k}]
    <3>1. Len(todo) = 1 /\ DOMAIN todo = 1..1
      BY <2>6
    <3> QED  BY <2>6, <3>1
  <2>10. /\ r \in States /\ r.pc = "busy" /\ r.vol = proc[p].vol /\ r.todo = todo /\ ~r.opened
         /\ r.ents = proc[p].ents \ {k} /\ r.node = k
    BY <2>4, <2>5, <2>7, <2>8 DEF States, Pcs
  <2> HIDE DEF r
  <2>11. Shape(r, vols, nodes')
    <3>1. \A i \in DOMAIN r.todo : RequestSave(r.todo[i], r)
      BY <2>9, <2>10 DEF RequestSave
    <3>2. r.vol <= vols /\ r.vol # 0
      BY <1>1, <2>4, <2>10 DEF Shape
    <3> QED  BY <1>1, <2>5, <2>7, <2>9, <2>10, <3>1, <3>2 DEF Shape
  <2>12. <<proc[p].vol, "root">> \in FilesOf(r.todo)
    BY <2>9, <2>10 DEF FilesOf
  <2>13. ASSUME k \notin excused'
         PROVE  Right(k)'
    <3> DEFINE v == proc[p].vol
    <3>1. Others(p, v) = {} /\ Right(k)
      BY <2>1, <2>2, <2>13 DEF Agreed
    <3>2. proc'[p] = r /\ \A q \in Procs \ {p} : proc'[q] = proc[q]
      BY <2>1, <2>2, BecomeFacts
    <3>3. <<v, k>> \in kept
      BY <1>1, <3>1 DEF Right, ViewRight, Mine
    <3>4. \A q \in Procs : ~Mine(q, k)
      <4> SUFFICES ASSUME NEW q \in Procs, Mine(q, k) PROVE FALSE
        OBVIOUS
      <4>1. Others(q, proc[q].vol) = {} /\ v = proc[q].vol
        BY <2>4, <3>1, <3>3 DEF Right, Alone
      <4>2. p # q
        BY <1>1 DEF Mine
      <4> QED  BY <1>1, <4>1, <4>2 DEF Others
    <3>5. \A q \in Procs : Mine(q, k)' <=> q = p
      BY <2>10, <3>2, <3>4 DEF Mine
    <3>6. proc'[p].vol = v /\ proc'[p].ents = proc[p].ents \ {k} /\ proc'[p].todo = r.todo
      BY <2>10, <3>2
    <3>7. /\ \A w \in Volumes, part \in Parts : files'[<<w, part>>] = files[<<w, part>>]
          /\ \A w \in Volumes : files'[<<w, "root">>] = files[<<w, "root">>]
      <4>1. (\A part \in Parts : part # "node") /\ "root" \in Parts
        BY DEF Parts
      <4>2. \A w \in Volumes, part \in Parts : <<w, part>> # <<k, "node">>
        BY <4>1
      <4>3. \A f \in Files : f # <<k, "node">> => files'[f] = files[f]
        BY <2>1, <2>3
      <4> QED  BY <4>1, <4>2, <4>3, FileFacts
    <3>8. RootRight(k)'
      <4> SUFFICES ASSUME NEW w \in Volumes, RootWhole(w)'
                   PROVE  InRoot(w, k)' <=> <<w, k>> \in kept'
        BY DEF RootRight
      <4> QED  BY <1>1, <3>1, <3>4, <3>7 DEF Right, RootRight, RootWhole, InRoot, Flying
    <3>9. ViewRight(k)'
      <4> SUFFICES ASSUME NEW q \in Procs, q # p, proc'[q].pc \in {"idle", "busy"}
                   PROVE  k \in proc'[q].ents <=> <<proc'[q].vol, k>> \in kept'
        BY <3>5 DEF ViewRight
      <4> QED  BY <1>1, <3>1, <3>2, <3>4 DEF Right, ViewRight
    <3>10. FilesThere(k)'
      <4> SUFFICES ASSUME NEW w \in Volumes, <<w, k>> \in kept
                   PROVE  \A part \in Parts : PartThere(w, part)'
        BY <1>1, <3>5 DEF FilesThere
      <4>1. \A part \in Parts : PartThere(w, part)
        BY <3>1 DEF Right, FilesThere
      <4>2. \A f : f \in Rewriting => f \in Rewriting'
        BY <2>1, <2>2, <2>4, RewritingStep
      <4> QED  BY <3>7, <4>1, <4>2 DEF PartThere
    <3>11. OneVolume(k)'
      BY <1>1, <3>1 DEF Right, OneVolume
    <3>12. Alone(k)'
      <4>1. Others(p, proc[p].vol)' = {}
        BY <3>1, <3>2, <3>6 DEF Others
      <4>2. \A w \in Volumes : <<w, k>> \in kept' => w = proc'[p].vol
        BY <1>1, <2>4, <3>1, <3>3, <3>6 DEF Right, OneVolume
      <4> QED  BY <3>5, <4>1, <4>2 DEF Alone
    <3>13. Saved(k)'
      <4> SUFFICES ASSUME NEW q \in Procs, q = p
                   PROVE  /\ <<proc'[q].vol, "root">> \in Pend(q)'
                          /\ k \notin proc'[q].ents /\ <<proc'[q].vol, k>> \in kept'
        BY <3>5 DEF Saved
      <4> QED  BY <1>1, <2>12, <3>3, <3>6 DEF Pend
    <3> QED  BY <3>8, <3>9, <3>10, <3>11, <3>12, <3>13 DEF Right
  <2>14. r.ents \subseteq proc[p].ents \cup {k} /\ proc[p].ents \subseteq r.ents \cup {k}
    BY <2>10
  <2>15. nodes' \in 0..MaxNodes /\ nodes <= nodes' /\ k \in 1..nodes'
    BY <1>1, <2>3, <2>5
  <2> QED  BY <1>1, <2>1, <2>10, <2>11, <2>13, <2>14, <2>15, BusyStep
<1> QED  BY <1>2, <1>3 DEF RemoveEntry

\* The kernel is told, and what it was told is so.
LEMMA ReplyInv ==
  ASSUME IInv, NEW p \in Procs, Reply(p)
  PROVE  IInv'
<1>0. PICK k : k = proc[p].node
  OBVIOUS
<1> DEFINE v == proc[p].vol
           r == [proc[p] EXCEPT !.pc = "idle", !.node = 0]
<1>1. /\ proc[p].pc = "busy" /\ proc[p].todo = <<>> /\ Become(p, r)
      /\ kept' = IF k \in proc[p].ents THEN kept \cup {<<v, k>>} ELSE kept \ {<<v, k>>}
      /\ UNCHANGED <<files, vols, nodes, excused, broken>>
  BY <1>0 DEF Reply, counters
<1>2. Typed /\ Named /\ Unknown /\ Loaded /\ Agreed
  BY DEF IInv
<1>3. /\ nodes \in Nat /\ nodes \in 0..MaxNodes /\ vols \in Nat /\ vols \in 0..MaxVolumes
      /\ kept \subseteq (1..vols) \X (1..nodes) /\ DOMAIN files = Files
      /\ excused \subseteq 1..nodes
  BY <1>2, Bounds DEF Typed
<1>4. /\ proc[p] \in States /\ Shape(proc[p], vols, nodes) /\ v \in Volumes /\ v \in 1..vols
      /\ ~proc[p].opened /\ 1..nodes \subseteq Nodes
  BY <1>1, <1>2, ProcFacts, NotOpened
<1>5. k \in 1..nodes /\ k \in Nodes
  BY <1>0, <1>1, <1>4 DEF Shape
<1>6. /\ r \in States /\ r.pc = "idle" /\ r.vol = v /\ r.todo = <<>> /\ ~r.opened
      /\ r.ents = proc[p].ents
  BY <1>1, <1>4 DEF States, Pcs
<1> HIDE DEF r
<1>7. Shape(r, vols, nodes)
  BY <1>1, <1>4, <1>6 DEF Shape
<1>8. Typed'
  <2>1. kept' \subseteq (1..vols) \X (1..nodes)
    BY <1>1, <1>3, <1>4, <1>5
  <2> QED  BY <1>1, <1>2, <1>3, <1>7, <2>1, TypedStep
<1>9. Named'
  <2>1. \A w \in Volumes, part \in Parts : Sound(<<w, part>>) => Sound(<<w, part>>)'
    BY <1>1, <1>2, <1>4, SoundStep
  <2>2. \A c \in Configs : files[c].st = "absent" \/ Sound(c) =>
          files'[c].st = "absent" \/ Sound(c)'
    BY <1>1, <1>2, <1>4, SoundStep
  <2> QED  BY <1>1, <1>2, <1>6, <1>8, <2>1, <2>2, NamedStep
<1>10. Unknown'
  <2>1. \A y \in kept' : y \in kept \/ (y[1] = proc[p].vol /\ r.pc = "idle")
    BY <1>1, <1>6
  <2> QED  BY <1>1, <1>2, <1>6, <2>1, UnknownStep
<1>11. \A f : f \in Rewriting => f \in Rewriting'
  BY <1>1, <1>2, <1>4, RewritingStep
<1>12. ASSUME NEW n \in Nodes \ excused', n # k
       PROVE  Right(n)'
  <2>1. Right(n) /\ ~Mine(p, n)
    BY <1>0, <1>1, <1>2, <1>12 DEF Agreed, Mine
  <2>2. \A w \in Volumes : RootSame(w)
    BY <1>1 DEF RootSame
  <2>3. \A w \in Volumes : <<w, n>> \in kept' <=> <<w, n>> \in kept
    BY <1>1, <1>12
  <2>4. n \in r.ents <=> <<r.vol, n>> \in kept
    BY <1>1, <1>6, <2>1 DEF Right, ViewRight
  <2>5. \A w \in Volumes, part \in Parts : PartThere(w, part) => PartThere(w, part)'
    BY <1>1, <1>11 DEF PartThere
  <2> QED  BY <1>1, <1>2, <1>4, <1>6, <2>1, <2>2, <2>3, <2>4, <2>5, RightStep
<1>13. ASSUME k \notin excused'
       PROVE  Right(k)'
  <2>1. Right(k) /\ Mine(p, k)
    BY <1>0, <1>1, <1>2, <1>5, <1>13 DEF Agreed, Mine
  <2>2. proc'[p] = r /\ \A q \in Procs \ {p} : proc'[q] = proc[q]
    BY <1>1, <1>2, BecomeFacts
  <2>3. Pend(p) = {}
    <3>1. DOMAIN proc[p].todo = {}
      BY <1>1
    <3> QED  BY <3>1 DEF Pend, FilesOf
  <2>4. /\ RootWhole(v) /\ (InRoot(v, k) <=> k \in proc[p].ents)
        /\ k \in proc[p].ents => NodeWhole(k) /\ files[<<v, "super">>].st = "whole"
    BY <2>1, <2>3 DEF Right, Saved
  <2>5. /\ Others(p, v) = {} /\ \A q \in Procs : Mine(q, k) => q = p
        /\ \A w \in Volumes : <<w, k>> \in kept => w = v
    BY <2>1 DEF Right, Alone
  <2>6. \A w \in Volumes : <<w, k>> \in kept' <=> w = v /\ k \in proc[p].ents
    BY <1>1, <2>5
  <2>7. \A q \in Procs : ~Mine(q, k)'
    BY <1>6, <2>2, <2>5 DEF Mine
  <2>8. RootRight(k)'
    <3> SUFFICES ASSUME NEW w \in Volumes, RootWhole(w)
                 PROVE  InRoot(w, k) <=> <<w, k>> \in kept'
      BY <1>1 DEF RootRight, RootWhole, InRoot
    <3>1. CASE w = v
      BY <2>4, <2>6, <3>1
    <3>2. CASE w # v
      <4>1. ~Flying(w, k)
        BY <2>5, <3>2 DEF Flying
      <4> QED  BY <2>1, <2>5, <2>6, <3>2, <4>1 DEF Right, RootRight
    <3> QED  BY <3>1, <3>2
  <2>9. ViewRight(k)'
    <3> SUFFICES ASSUME NEW q \in Procs, proc'[q].pc \in {"idle", "busy"}
                 PROVE  k \in proc'[q].ents <=> <<proc'[q].vol, k>> \in kept'
      BY DEF ViewRight
    <3>1. CASE q = p
      BY <1>4, <1>6, <2>2, <2>6, <3>1
    <3>2. CASE q # p
      <4>1. proc'[q] = proc[q] /\ ~Mine(q, k)
        BY <2>2, <2>5, <3>2
      <4>2. proc[q].vol \in Volumes
        BY <1>2, <4>1, ProcFacts
      <4>3. k \in proc[q].ents <=> <<proc[q].vol, k>> \in kept
        BY <2>1, <4>1 DEF Right, ViewRight
      <4>4. proc[q].vol # v
        BY <2>5, <3>2, <4>1 DEF Others
      <4> QED  BY <2>5, <2>6, <4>1, <4>2, <4>3, <4>4
    <3> QED  BY <3>1, <3>2
  <2>10. FilesThere(k)'
    <3>1. files[<<v, "user">>].st = "whole"
      BY <1>1, <1>2 DEF Loaded, Served
    <3>2. k \in proc[p].ents => \A part \in Parts : files[<<v, part>>].st = "whole"
      BY <2>4, <3>1 DEF Parts, RootWhole
    <3> QED  BY <1>1, <2>4, <2>6, <3>2 DEF FilesThere, PartThere, NodeWhole
  <2>11. Alone(k)' /\ Saved(k)'
    BY <2>7 DEF Alone, Saved
  <2>12. OneVolume(k)'
    BY <2>6 DEF OneVolume
  <2> QED  BY <2>8, <2>9, <2>10, <2>11, <2>12 DEF Right
<1>14. Agreed'
  <2>1. \A n \in Nodes \ excused' : Right(n)'
    BY <1>12, <1>13
  <2> QED  BY <2>1 DEF Agreed
<1>15. Loaded'
  <2>1. Served(proc[p])
    BY <1>1 DEF Served
  <2> QED  BY <1>1, <1>2, <1>6, <2>1, LoadedStep
<1> QED  BY <1>8, <1>9, <1>10, <1>14, <1>15 DEF IInv

-----------------------------------------------------------------------------
(* The invariant holds, and what follows from it.                          *)

LEMMA InitInv == Init => IInv
<1> SUFFICES ASSUME Init PROVE IInv
  OBVIOUS
<1>1. PICK fs \in SUBSET Fields :
        files = [f \in Files |-> IF f = Base THEN Whole([fields |-> fs, vol |-> 0]) ELSE Absent]
  BY DEF Init
<1>2. /\ proc = [p \in Procs |-> Off] /\ vols = 0 /\ nodes = 0
      /\ kept = {} /\ excused = {} /\ broken = {}
  BY DEF Init
<1>3. \A p \in Procs : proc[p] = Off
  BY <1>2
<1>4. Off.pc = "off" /\ ~Off.opened /\ Off.vol = 0 /\ Off.ents = {} /\ Off.todo = <<>> /\ Off \in States
  <2>1. <<>> \in Seq(Saves)
    OBVIOUS
  <2> QED  BY <2>1, Bounds DEF Off, States, Pcs
<1>5. \A f \in Files : files[f].st = "whole" => f = Base /\ files[f].val = [fields |-> fs, vol |-> 0]
  <2>1. Absent.st # "whole"
    BY DEF Absent
  <2>2. \A x : Whole(x).val = x
    BY DEF Whole
  <2> QED  BY <1>1, <2>1, <2>2
<1>6. [fields |-> fs, vol |-> 0] \in Cfg /\ [fields |-> fs, vol |-> 0].vol = 0
  BY <1>1, Bounds DEF Cfg
<1>7. \A v \in Volumes : files[<<v, "root">>].st # "whole"
  BY <1>5, Bounds, FileFacts
<1>8. \A c \in Configs : files[c].st = "whole" => files[c].val \in Cfg /\ files[c].val.vol = 0
  BY <1>5, <1>6, FileFacts
<1>9. Typed
  <2>1. Shape(Off, 0, 0)
    <3>1. Off.todo = <<>> /\ Off.ents \subseteq 1..0 /\ Off.vol <= 0 /\ Off.pc # "create" /\ Off.pc # "busy"
      BY <1>4
    <3> QED  BY <1>4, <3>1 DEF Shape
  <2>2. DOMAIN files = Files /\ DOMAIN proc = Procs
    BY <1>1, <1>2
  <2>3. \A p \in Procs : Shape(proc[p], vols, nodes)
    BY <1>2, <1>3, <2>1
  <2>4. vols \in 0..MaxVolumes /\ nodes \in 0..MaxNodes
    BY <1>2, Bounds
  <2>5. \A c \in Configs : files[c].st = "whole" => files[c].val \in Cfg /\ files[c].val.vol <= vols
    BY <1>2, <1>8
  <2> QED  BY <1>2, <1>7, <2>2, <2>3, <2>4, <2>5 DEF Typed
<1>10. Named
  <2>1. \A f \in Files : files[f].st \in {"absent", "whole"}
    BY <1>1 DEF Absent, Whole
  <2>2. \A c \in Configs : files[c].st = "absent" \/ Sound(c)
    BY <2>1, FileFacts DEF Sound
  <2> QED  BY <1>3, <1>4, <1>8, <2>2 DEF Named, NamesVolume
<1>13. Loaded
  BY <1>3, <1>4 DEF Loaded, Served
<1>11. Unknown
  BY <1>3, <1>4 DEF Unknown
<1>12. ASSUME NEW n \in Nodes
       PROVE  Right(n)
  <2>1. \A p \in Procs : ~Mine(p, n)
    BY <1>3, <1>4 DEF Mine
  <2>2. RootRight(n)
    BY <1>7 DEF RootRight, RootWhole
  <2>3. ViewRight(n)
    BY <1>3, <1>4 DEF ViewRight
  <2>4. FilesThere(n) /\ OneVolume(n)
    BY <1>2 DEF FilesThere, OneVolume
  <2>5. Alone(n) /\ Saved(n)
    BY <2>1 DEF Alone, Saved
  <2> QED  BY <2>2, <2>3, <2>4, <2>5 DEF Right
<1> QED  BY <1>9, <1>10, <1>11, <1>12, <1>13 DEF IInv, Agreed

LEMMA StutterInv == IInv /\ UNCHANGED vars => IInv'
<1> SUFFICES ASSUME IInv, UNCHANGED vars PROVE IInv'
  OBVIOUS
<1>1. UNCHANGED <<files, proc, vols, nodes, kept, excused, broken>>
  BY DEF vars, counters, history
<1>2. Typed'
  BY <1>1 DEF IInv, Typed
<1>3. Named'
  <2>1. \A f : Sound(f)' <=> Sound(f)
    BY <1>1 DEF Sound, Rewriting, Writing
  <2>2. \A cfg : Leads(cfg)' <=> Leads(cfg)
    BY <2>1 DEF Leads
  <2>3. \A p \in Procs : Pend(p)' = Pend(p)
    BY <1>1 DEF Pend
  <2> QED  BY <1>1, <2>1, <2>2, <2>3 DEF IInv, Named
<1>6. Loaded'
  BY <1>1 DEF IInv, Loaded
<1>4. Unknown'
  BY <1>1 DEF IInv, Unknown
<1>5. ASSUME NEW n \in Nodes \ excused'
      PROVE  Right(n)'
  <2>1. Right(n)
    BY <1>1 DEF IInv, Agreed
  <2>2. RootRight(n)' /\ ViewRight(n)'
    BY <1>1, <2>1 DEF Right, RootRight, ViewRight, RootWhole, InRoot, Flying, Mine
  <2>3. FilesThere(n)' /\ OneVolume(n)'
    BY <1>1, <2>1 DEF Right, FilesThere, OneVolume, PartThere, NodeWhole, Rewriting, Writing, Mine
  <2>4. Alone(n)' /\ Saved(n)'
    BY <1>1, <2>1 DEF Right, Alone, Saved, Others, RootWhole, InRoot, NodeWhole, Pend, Mine
  <2> QED  BY <2>2, <2>3, <2>4 DEF Right
<1> QED  BY <1>2, <1>3, <1>4, <1>5, <1>6 DEF IInv, Agreed

LEMMA NextInv == IInv /\ [Next]_vars => IInv'
<1> SUFFICES ASSUME IInv, Next PROVE IInv'
  BY StutterInv
<1>1. PICK p \in Procs :
        \/ \E c, d \in Configs : Create(p, c, d)
        \/ \E c \in Configs : Mount(p, c)
        \/ \E n \in Nodes : Lookup(p, n) \/ RemoveEntry(p, n)
        \/ Truncate(p) \/ Write(p) \/ RefuseOpen(p) \/ RefuseWrite(p)
        \/ EndCreate(p) \/ LoadPart(p) \/ AddEntry(p) \/ Reply(p)
        \/ Umount(p) \/ Kill(p)
  BY DEF Next
<1>2. CASE \E c, d \in Configs : Create(p, c, d)
  BY <1>2, CreateInv
<1>3. CASE \E c \in Configs : Mount(p, c)
  BY <1>3, MountInv
<1>4. CASE \E n \in Nodes : Lookup(p, n) \/ RemoveEntry(p, n)
  BY <1>4, LookupInv, RemoveEntryInv
<1>5. CASE Truncate(p) \/ Write(p) \/ RefuseOpen(p) \/ RefuseWrite(p)
  BY <1>5, TruncateInv, WriteInv, RefuseOpenInv, RefuseWriteInv
<1>6. CASE EndCreate(p) \/ LoadPart(p) \/ AddEntry(p) \/ Reply(p)
  BY <1>6, EndCreateInv, LoadPartInv, AddEntryInv, ReplyInv
<1>7. CASE Umount(p) \/ Kill(p)
  BY <1>7, UmountInv, KillInv
<1> QED  BY <1>1, <1>2, <1>3, <1>4, <1>5, <1>6, <1>7

LEMMA Invariance == Spec => []IInv
BY InitInv, NextInv, PTL DEF Spec

\* secfs_cli dumps the configuration that names a volume after the volume's own
\* files, however many processes create, mount, fail and are killed: whoever
\* mounts it, with a private key in it, gets past everything mounting asks of a
\* configuration, and finds the user table, the root and the Superinfo whole,
\* cut short, or being written; and no configuration is lost but to a kill or a
\* full disk.
THEOREM NamedVolumesMount == Spec => []ConfigNamesVolume
<1>1. IInv => ConfigNamesVolume
  BY DEF IInv, Named, Leads, ConfigNamesVolume, Mounts
<1> QED  BY <1>1, Invariance, PTL

\* Whatever the kernel was told of a node by ecall_fs_create, ecall_fs_mkdir,
\* ecall_fs_unlink or ecall_fs_rmdir is what the storage holds: an entry in the
\* root, a volume that can be mounted and a file to load, or no entry, for any
\* number of sessions one after another.
THEOREM EntriesOutliveSessions == Spec => []EntriesKept
<1>1. ASSUME IInv, NEW v \in 1..vols, NEW n \in Nodes \ (excused \cup InFlight)
      PROVE  /\ RootWhole(v) => (InRoot(v, n) <=> <<v, n>> \in kept)
             /\ <<v, n>> \in kept => NodeWhole(n) /\ \A part \in Parts : PartThere(v, part)
  <2>1. v \in Volumes /\ Right(n)
    <3>1. vols \in 0..MaxVolumes /\ Right(n)
      BY <1>1 DEF IInv, Typed, Agreed
    <3> QED  BY <3>1, Bounds DEF Volumes
  <2>2. \A p \in Procs : ~Mine(p, n)
    BY DEF Mine, InFlight
  <2>3. ~Flying(v, n)
    BY <2>2 DEF Flying
  <2> QED  BY <2>1, <2>2, <2>3 DEF Right, RootRight, FilesThere
<1>2. IInv => EntriesKept
  BY <1>1 DEF EntriesKept, RootWhole, InRoot, NodeWhole, PartThere
<1> QED  BY <1>2, Invariance, PTL

\* An idle session sees the root as it is stored, so that what it saves next
\* loses nothing: load_metadata at mounting and the saves of its own requests
\* keep it so, unless a second session works on the volume.
THEOREM NoStaleView == Spec => []ViewsFresh
<1>1. ASSUME IInv, NEW p \in Procs, proc[p].pc = "idle", RootWhole(proc[p].vol),
             NEW n \in (files[<<proc[p].vol, "root">>].val \ proc[p].ents)
                       \cup (proc[p].ents \ files[<<proc[p].vol, "root">>].val)
      PROVE  n \in excused
  <2> DEFINE v == proc[p].vol
  <2>1. Typed /\ Agreed
    BY <1>1 DEF IInv
  <2>2. v \in Volumes /\ proc[p].ents \subseteq Nodes /\ 1..nodes \subseteq Nodes
    BY <1>1, <2>1, ProcFacts
  <2>3. n \in Nodes
    BY <1>1, <2>1, <2>2 DEF Typed, RootWhole
  <2> SUFFICES ASSUME n \notin excused PROVE FALSE
    OBVIOUS
  <2>4. Right(n)
    BY <2>1, <2>3 DEF Agreed
  <2>5. n \in proc[p].ents <=> <<v, n>> \in kept
    BY <1>1, <2>4 DEF Right, ViewRight, Mine
  <2>6. Flying(v, n)
    BY <1>1, <2>2, <2>4, <2>5 DEF Right, RootRight, InRoot
  <2>7. PICK q \in Procs : Mine(q, n) /\ proc[q].vol = v
    BY <2>6 DEF Flying
  <2>8. Others(q, proc[q].vol) = {}
    BY <2>4, <2>7 DEF Right, Alone
  <2>9. p \in Others(q, proc[q].vol)
    BY <1>1, <2>7 DEF Others, Mine
  <2> QED  BY <2>8, <2>9
<1>2. IInv => ViewsFresh
  BY <1>1 DEF ViewsFresh, RootWhole
<1> QED  BY <1>2, Invariance, PTL

=============================================================================
