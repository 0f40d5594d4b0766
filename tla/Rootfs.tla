------------------------------- MODULE Rootfs -------------------------------
(***************************************************************************)
(* The operator's commands "encvol rootfs init", "pack" and "import" on a  *)
(* build host: they bootstrap a workspace, and pack a workspace or a       *)
(* filesystem into an archive with a descriptor beside it.  Commands may   *)
(* run at the same time; they fail, are killed, lose power, and are        *)
(* repeated after the operator has removed what they left.                 *)
(***************************************************************************)
EXTENDS Naturals, FiniteSets

CONSTANTS
    Commands,    \* runs of "encvol rootfs"
    Workspaces,  \* directories to bootstrap and to pack
    Devices,     \* block devices with a filesystem to import
    Files,       \* paths of archives and of descriptors
    Outputs,     \* the paths given as --output, a subset of Files
    Descriptor,  \* descriptor_path: the path with its last suffix replaced
    Inside,      \* the workspace an output lies in, or NoTree
    Jobs,        \* what the operator may ask for, a subset of Job
    Steady,      \* the commands that nobody kills and whose tools do not fail
    NoCommand, NoTree

Trees == Workspaces \cup Devices

\* https: is the archive's URL one that a descriptor may name?
Job == [kind : {"init", "pack", "import"}, tree : Trees, output : Outputs, https : BOOLEAN]

ASSUME RootfsAssumption ==
    /\ NoCommand \notin Commands /\ NoTree \notin Trees
    /\ Workspaces \cap Devices = {}
    /\ Outputs \subseteq Files
    /\ Descriptor \in [Outputs -> Files]
    /\ Inside \in [Outputs -> Workspaces \cup {NoTree}]
    /\ Jobs \subseteq Job
    /\ Steady \subseteq Commands
    /\ \A j \in Jobs : (j.kind = "import") = (j.tree \in Devices)
    /\ \A o \in Outputs : Descriptor[o] \in Outputs => Descriptor[Descriptor[o]] = Descriptor[o]

VARIABLES
    orderly,  \* one command at a time uses a path, and the power stays
    pc,       \* each command's next step, or how it ended
    job,      \* what each command was asked for
    tree,     \* what lies in each workspace and on each device
    file,     \* what lies at each path
    parents,  \* the outputs whose directory exists
    mount,    \* how each command has its device mounted
    hash,     \* the archive each command took the hash of
    packed,   \* the importing commands whose packing succeeded
    stuck     \* history: the commands whose umount failed

vars == <<orderly, pc, job, tree, file, parents, mount, hash, packed, stuck>>

InitSteps == {"empty", "bootstrap", "configure"}
PackSteps == {"validate", "free", "tar", "archiving", "hash", "describe"}
Steps     == InitSteps \cup PackSteps \cup {"mount", "umount"}
Ends      == {"new", "done", "error", "killed"}

(***************************************************************************)
(* A tree: absent, an empty directory, something that is no Debian system  *)
(* yet ("partial"), one whose components are there but whose bootstrap has *)
(* not finished, a complete one, or a filesystem that lost its contents.   *)
(***************************************************************************)
Contents == {"absent", "empty", "partial", "unfinished", "debian", "lost"}

(***************************************************************************)
(* A file: by is the command whose archive it is or, in a descriptor,      *)
(* whose archive it names; "open" is an archive tar is writing.            *)
(***************************************************************************)
File == [kind : {"none", "open", "torn", "archive", "descriptor"}, by : Commands \cup {NoCommand}]

None          == [kind |-> "none", by |-> NoCommand]
Torn          == [kind |-> "torn", by |-> NoCommand]
Open(c)       == [kind |-> "open", by |-> c]
Archive(c)    == [kind |-> "archive", by |-> c]
Describing(h) == [kind |-> "descriptor", by |-> h]

TypeOK ==
    /\ orderly \in BOOLEAN
    /\ pc \in [Commands -> Steps \cup Ends] /\ job \in [Commands -> Job]
    /\ tree \in [Trees -> Contents] /\ file \in [Files -> File]
    /\ parents \subseteq Outputs
    /\ mount \in [Commands -> {"none", "ro", "rw"}]
    /\ hash \in [Commands -> Commands \cup {NoCommand}]
    /\ packed \subseteq Commands /\ stuck \subseteq Commands

Init ==
    /\ orderly \in BOOLEAN
    /\ pc = [c \in Commands |-> "new"] /\ job \in [Commands -> Jobs]
    /\ tree \in [Trees -> {"absent", "empty", "partial", "debian"}]
    /\ \A d \in Devices : tree[d] \in {"partial", "debian"}
    /\ file = [f \in Files |-> None]
    /\ parents \in SUBSET Outputs
    /\ \A o \in Outputs : Inside[o] = NoTree => o \in parents
    /\ mount = [c \in Commands |-> "none"]
    /\ hash = [c \in Commands |-> NoCommand]
    /\ packed = {} /\ stuck = {}

-----------------------------------------------------------------------------
Running == {c \in Commands : pc[c] \in Steps}

Tree(c)   == job[c].tree
Output(c) == job[c].output

\* The paths a command works on.
Uses(c) == {Tree(c)} \cup (IF job[c].kind = "init" THEN {} ELSE {Output(c), Descriptor[Output(c)]})

Step(c, from, to) == pc[c] = from /\ pc' = [pc EXCEPT ![c] = to]

Error(c, from) == Step(c, from, "error")

\* May a command fail for a reason of its own?
MayFail(c) == c \notin Steady

Start(c) ==
    /\ pc[c] = "new"
    /\ orderly => \A d \in Running : Uses(d) \cap Uses(c) = {}
    /\ pc' = [pc EXCEPT ![c] = CASE job[c].kind = "init"   -> "empty"
                                 [] job[c].kind = "pack"   -> "validate"
                                 [] job[c].kind = "import" -> "mount"]
    /\ UNCHANGED <<orderly, job, tree, file, parents, mount, hash, packed, stuck>>

-----------------------------------------------------------------------------
(* init: require_empty_workspace, debootstrap.                             *)

RequireEmpty(c) ==
    /\ Step(c, "empty", "bootstrap")
    /\ tree[Tree(c)] \in {"absent", "empty"}
    /\ tree' = [tree EXCEPT ![Tree(c)] = "empty"]
    /\ UNCHANGED <<orderly, job, file, parents, mount, hash, packed, stuck>>

\* debootstrap unpacks the packages; apt and systemd are there before they are
\* configured.
Unpack(c) ==
    /\ Step(c, "bootstrap", "configure")
    /\ tree' = [tree EXCEPT ![Tree(c)] = "unfinished"]
    /\ UNCHANGED <<orderly, job, file, parents, mount, hash, packed, stuck>>

FinishBootstrap(c) ==
    /\ Step(c, "configure", "done")
    /\ tree' = [tree EXCEPT ![Tree(c)] = "debian"]
    /\ UNCHANGED <<orderly, job, file, parents, mount, hash, packed, stuck>>

\* A workspace that is not empty is refused, and so is a release that is none,
\* once the directory is made; debootstrap leaves what it has done.
InitFails(c) ==
    /\ \/ /\ Error(c, "empty")
          /\ tree[Tree(c)] \notin {"absent", "empty"} \/ MayFail(c)
          /\ tree' \in {tree, [tree EXCEPT ![Tree(c)] = IF @ = "absent" THEN "empty" ELSE @]}
       \/ /\ Error(c, "bootstrap") /\ MayFail(c)
          /\ tree' \in {tree, [tree EXCEPT ![Tree(c)] = "partial"]}
       \/ Error(c, "configure") /\ MayFail(c) /\ UNCHANGED tree
    /\ UNCHANGED <<orderly, job, file, parents, mount, hash, packed, stuck>>

-----------------------------------------------------------------------------
(* import: the device is mounted at a new temporary directory.             *)

\* (Mutant of MountSource: without --read-only.)
MountWritable(c) ==
    /\ Step(c, "mount", "validate")
    /\ mount' = [mount EXCEPT ![c] = "rw"]
    /\ UNCHANGED <<orderly, job, tree, file, parents, hash, packed, stuck>>

MountSource(c) ==
    /\ Step(c, "mount", "validate")
    /\ mount' = [mount EXCEPT ![c] = "ro"]
    /\ UNCHANGED <<orderly, job, tree, file, parents, hash, packed, stuck>>

MountFails(c) ==
    /\ Error(c, "mount") /\ MayFail(c)
    /\ UNCHANGED <<orderly, job, tree, file, parents, mount, hash, packed, stuck>>

-----------------------------------------------------------------------------
(* pack: pack_workspace, also of a mounted device.                         *)

\* Where a command goes on once its packing has failed or succeeded: import
\* unmounts in either case.
AfterPack(c, end) == IF job[c].kind = "import" THEN "umount" ELSE end

\* (Mutant of PackError: an error leaves import before the umount.)
PackErrorAtOnce(c, from) == Error(c, from)

PackError(c, from) == Step(c, from, AfterPack(c, "error"))

HasComponents(t) == tree[t] \in {"unfinished", "debian"}

\* A directory that does not exist yet counts as outside.
output_is_in_workspace(t, o) == o \in parents /\ Inside[o] = t

Validate(c) ==
    /\ Step(c, "validate", "free")
    /\ HasComponents(Tree(c))
    /\ ~output_is_in_workspace(Tree(c), Output(c))
    /\ UNCHANGED <<orderly, job, tree, file, parents, mount, hash, packed, stuck>>

\* What the workspace an output lies in holds when the output's directory is made.
WithDirectory(o) ==
    [t \in Trees |-> IF t = Inside[o] /\ tree[t] \in {"absent", "empty"} THEN "partial" ELSE tree[t]]

\* (Mutants of RequireFree: the descriptor is not looked for, the directory is
\* not made.)
RequireFreeAt(c, paths) ==
    /\ Step(c, "free", "tar")
    /\ \A f \in paths : file[f] = None
    /\ parents' = parents \cup {Output(c)}
    /\ tree' = WithDirectory(Output(c))
    /\ UNCHANGED <<orderly, job, file, mount, hash, packed, stuck>>

RequireFreeArchive(c)   == RequireFreeAt(c, {Output(c)})

RequireFreeDirectory(c) == RequireFreeAt(c, {Output(c), Descriptor[Output(c)]}) /\ Output(c) \in parents

\* Neither file exists; the archive's directory is made.
RequireFree(c) ==
    /\ Step(c, "free", "tar")
    /\ file[Output(c)] = None /\ file[Descriptor[Output(c)]] = None
    /\ parents' = parents \cup {Output(c)}
    /\ tree' = WithDirectory(Output(c))
    /\ UNCHANGED <<orderly, job, file, mount, hash, packed, stuck>>

\* tar creates its file, or truncates the one that has come meanwhile.
OpenArchive(c) ==
    /\ Step(c, "tar", "archiving")
    /\ file' = [file EXCEPT ![Output(c)] = Open(c)]
    /\ UNCHANGED <<orderly, job, tree, parents, mount, hash, packed, stuck>>

\* Two tars that write one file leave neither's archive.
CloseArchive(c) ==
    /\ Step(c, "archiving", "hash")
    /\ file' = [file EXCEPT ![Output(c)] = IF @ = Open(c) THEN Archive(c) ELSE Torn]
    /\ UNCHANGED <<orderly, job, tree, parents, mount, hash, packed, stuck>>

\* (Mutant of HashArchive: the file is kept instead of its hash.)
HashWholeArchive(c) ==
    /\ Step(c, "hash", "describe")
    /\ hash' = [hash EXCEPT ![c] = file[Output(c)]]
    /\ UNCHANGED <<orderly, job, tree, file, parents, mount, packed, stuck>>

\* The file is read back.
HashArchive(c) ==
    /\ Step(c, "hash", "describe")
    /\ hash' = [hash EXCEPT ![c] = IF file[Output(c)].kind = "archive" THEN file[Output(c)].by ELSE NoCommand]
    /\ UNCHANGED <<orderly, job, tree, file, parents, mount, packed, stuck>>

\* The descriptor is complete, is validated (its URL, too) and written.
Describe(c) ==
    /\ Step(c, "describe", AfterPack(c, "done"))
    /\ job[c].https
    /\ file' = [file EXCEPT ![Descriptor[Output(c)]] = Describing(hash[c])]
    /\ packed' = packed \cup {c}
    /\ UNCHANGED <<orderly, job, tree, parents, mount, hash, stuck>>

\* (Mutant of TarFails: tar's exit status is not looked at.)
TarFailsUnseen(c) ==
    /\ Step(c, "archiving", "hash") /\ MayFail(c)
    /\ file' = [file EXCEPT ![Output(c)] = Torn]
    /\ UNCHANGED <<orderly, job, tree, parents, mount, hash, packed, stuck>>

\* tar leaves what it has written.
TarFails(c) ==
    /\ PackError(c, "archiving") /\ MayFail(c)
    /\ file' = [file EXCEPT ![Output(c)] = Torn]
    /\ UNCHANGED <<orderly, job, tree, parents, mount, hash, packed, stuck>>

\* A check of the code refuses what the command finds.
Refused(c) ==
    \/ pc[c] = "validate" /\ ~HasComponents(Tree(c))
    \/ pc[c] = "validate" /\ output_is_in_workspace(Tree(c), Output(c))
    \/ pc[c] = "free" /\ (file[Output(c)] # None \/ file[Descriptor[Output(c)]] # None)
    \/ pc[c] = "describe" /\ ~job[c].https

\* A check refuses, or a command or a write fails: nothing is removed.
PackFails(c) ==
    /\ \/ /\ \E from \in {"validate", "free", "tar", "hash", "describe"} : PackError(c, from)
          /\ Refused(c) \/ MayFail(c)
          /\ UNCHANGED file
       \/ /\ PackError(c, "describe") /\ job[c].https /\ MayFail(c)
          /\ file' = [file EXCEPT ![Descriptor[Output(c)]] = Torn]
    /\ UNCHANGED <<orderly, job, tree, parents, mount, hash, packed, stuck>>

\* The mount point is removed, with everything in it that can be removed.
Unmount(c) ==
    /\ Step(c, "umount", IF c \in packed THEN "done" ELSE "error")
    /\ mount' = [mount EXCEPT ![c] = "none"]
    /\ UNCHANGED <<orderly, job, tree, file, parents, hash, packed, stuck>>

\* The mount point is removed although the device is still mounted there: a
\* filesystem that is not mounted read-only loses its contents.
UnmountFails(c) ==
    /\ Error(c, "umount") /\ MayFail(c)
    /\ stuck' = stuck \cup {c}
    /\ tree' = [tree EXCEPT ![Tree(c)] = IF mount[c] = "rw" THEN "lost" ELSE @]
    /\ UNCHANGED <<orderly, job, file, parents, mount, hash, packed>>

-----------------------------------------------------------------------------
(* The operator and the host.                                              *)

\* What the files a command was writing look like once it is killed.
CutShort(c, f) ==
    \/ f = Output(c) /\ pc[c] = "archiving"
    \/ f = Descriptor[Output(c)] /\ pc[c] = "describe" /\ job[c].https

\* The operator interrupts a command; the command it has started dies with it.
Kill(c) ==
    /\ pc[c] \in Steps /\ MayFail(c)
    /\ pc' = [pc EXCEPT ![c] = "killed"]
    /\ \E cut \in SUBSET {f \in Files : CutShort(c, f)} :
          /\ pc[c] = "archiving" => Output(c) \in cut
          /\ file' = [f \in Files |-> IF f \in cut THEN Torn ELSE file[f]]
    /\ UNCHANGED <<orderly, job, tree, parents, mount, hash, packed, stuck>>

\* The operator removes what lies at a path nobody uses.
Remove(f) ==
    /\ file[f] # None /\ \A c \in Running : f \notin Uses(c)
    /\ file' = [file EXCEPT ![f] = None]
    /\ UNCHANGED <<orderly, pc, job, tree, parents, mount, hash, packed, stuck>>

Clear(w) ==
    /\ tree[w] \in {"partial", "unfinished"} /\ \A c \in Running : w \notin Uses(c)
    /\ tree' = [tree EXCEPT ![w] = "empty"]
    /\ UNCHANGED <<orderly, pc, job, file, parents, mount, hash, packed, stuck>>

\* The power goes: nothing was synchronised, and nothing stays mounted.
PowerCut ==
    /\ ~orderly /\ Running # {}
    /\ pc' = [c \in Commands |-> IF c \in Running THEN "killed" ELSE pc[c]]
    /\ \E cut \in SUBSET {f \in Files : file[f] # None} :
          file' = [f \in Files |-> IF f \in cut \/ file[f].kind = "open" THEN Torn ELSE file[f]]
    /\ mount' = [c \in Commands |-> "none"]
    /\ UNCHANGED <<orderly, job, tree, parents, hash, packed, stuck>>

-----------------------------------------------------------------------------
Advance(c) ==
    \/ RequireEmpty(c) \/ Unpack(c) \/ FinishBootstrap(c) \/ InitFails(c)
    \/ MountSource(c) \/ MountFails(c)
    \/ Validate(c) \/ RequireFree(c) \/ OpenArchive(c) \/ CloseArchive(c)
    \/ HashArchive(c) \/ Describe(c) \/ TarFails(c) \/ PackFails(c)
    \/ Unmount(c) \/ UnmountFails(c)

Next ==
    \/ \E c \in Commands : Start(c) \/ Advance(c) \/ Kill(c)
    \/ \E f \in Files : Remove(f)
    \/ \E w \in Workspaces : Clear(w)
    \/ PowerCut

Spec == Init /\ [][Next]_vars

\* A command does not stop between two steps.
FairSpec == Spec /\ \A c \in Commands : WF_vars(Advance(c))
-----------------------------------------------------------------------------
(* What the commands guarantee.                                            *)

\* An import never changes the filesystem it packs: the temporary directory is
\* removed with all it holds even when the umount before it failed, and only
\* the read-only mount then keeps the device's files (import_source).
SourcesKept == \A d \in Devices : tree[d] # "lost"

\* However packing ends, import unmounts the device before it returns: what
\* stays mounted is what umount itself refused, or a killed command's.
MountUndone ==
    \A c \in Commands : pc[c] \in {"done", "error"} /\ mount[c] # "none" => c \in stuck

\* Is f a path whose descriptor has the same path?
SelfDescribed(f) == f \in Outputs /\ Descriptor[f] = f

\* Where one command at a time uses a path, a descriptor names the complete
\* archive that lies beside it, whatever failed and was removed and repeated
\* before: never an archive cut short, another command's, or one whose packing
\* did not succeed (pack_workspace, "writes a descriptor next to the archive").
DescriptorNamesArchive ==
    orderly =>
        \A f \in Files : file[f].kind = "descriptor" /\ ~SelfDescribed(f) =>
            LET c == file[f].by
            IN  /\ c \in packed /\ f = Descriptor[Output(c)]
                /\ file[Output(c)] \in {Archive(c), None}

\* There a finished archive or descriptor is never written again: a command
\* whose paths are taken, by an archive of another format with the same
\* descriptor for instance, is refused before it writes.
FinishedKept ==
    [][ orderly =>
          \A f \in Files : file[f].kind \in {"archive", "descriptor"} /\ ~SelfDescribed(f)
              => file'[f] \in {file[f], None} ]_vars

\* What a command that nothing disturbs needs for its archive.
CanPack(c) ==
    /\ HasComponents(Tree(c)) /\ ~output_is_in_workspace(Tree(c), Output(c))
    /\ file[Output(c)] = None /\ file[Descriptor[Output(c)]] = None
    /\ job[c].https /\ ~SelfDescribed(Output(c))

\* A pack or import nothing disturbs leaves its archive and its descriptor,
\* whatever earlier commands left and the operator removed.
PackSucceeds ==
    \A c \in Steady :
        (orderly /\ pc[c] = "validate" /\ CanPack(c))
            ~> /\ pc[c] = "done" /\ file[Output(c)] = Archive(c)
               /\ file[Descriptor[Output(c)]] = Describing(c)
=============================================================================
