--------------------------- MODULE InPlaceInstall ---------------------------
(***************************************************************************)
(* The in-place installation of one target disk: the plan made on the      *)
(* running host, and the RAM installer that carries it out command by      *)
(* command on the disk, with commands that fail, power losses, reboots and *)
(* further attempts.                                                       *)
(***************************************************************************)
EXTENDS StagingPlan

CONSTANTS
    Hosts,         \* machines: see HostsAssumption
    Sources,       \* sources an attempt may ask for, a subset of Source
    MaxAttempts,   \* bound on the attempts made on one machine
    TornResize     \* does a power loss inside resize2fs cost the filesystem?

(***************************************************************************)
(* A volume is what lies on the disk at lo..hi: an original filesystem     *)
(* ("old") with the number of its partition, the staging filesystem, the   *)
(* LUKS container ("crypt") or the ESP.  used is the size in MiB below     *)
(* which an original filesystem cannot be shrunk.                          *)
(***************************************************************************)
Volume == [tag : {"old", "staging", "crypt", "esp"}, num : Nat, lo : Nat, hi : Nat,
           used : Nat, type : {"ext4", "crypto_LUKS", "vfat", "xfs"}]

NewVolume(tag, e, type) ==
    [tag |-> tag, num |-> e.num, lo |-> e.lo, hi |-> e.hi, used |-> 0, type |-> type]

\* Volume v is complete and its partition is listed where it starts.
Listed(t, v) == \E e \in t : e.num = v.num /\ e.lo = v.lo /\ v.hi <= e.hi

(***************************************************************************)
(* root is the partition number of the running root, 0 when the root is on *)
(* another disk; used is what the root filesystem holds; bootMib is the    *)
(* size of the first partition of the new layout: 512 for UEFI, 1 for      *)
(* BIOS.  failing is the number of attempts, from the first, in which      *)
(* commands fail by themselves and the power goes.                         *)
(***************************************************************************)
ASSUME HostsAssumption ==
    \A h \in Hosts :
        /\ WellFormed(h.table)
        /\ h.vols \subseteq Volume
        /\ \A v \in h.vols : v.tag = "old" /\ v.lo < v.hi /\ Listed(h.table, v)
        /\ \A v, w \in h.vols : v # w => v.num # w.num
        /\ h.root \in Nat /\ h.used \in Nat
        /\ h.root # 0 => \E v \in h.vols : v.num = h.root
        /\ h.bootMib \in Nat \ {0}
        /\ h.uefi \in BOOLEAN /\ h.failing \in Nat

ASSUME RunAssumption ==
    /\ Sources \subseteq Source
    /\ MaxAttempts \in Nat
    /\ TornResize \in BOOLEAN

VARIABLES
    host,       \* the machine, an element of Hosts
    table,      \* the partition table on the disk
    view,       \* the partitions the running kernel knows
    vols,       \* the volumes on the disk
    mounted,    \* what the installer has mounted or opened
    source,     \* the source of this attempt
    plan,       \* the staging strategy in the manifest
    archive,    \* the rootfs archive on the staging filesystem
    system,     \* how far the new system has come
    toWipe,     \* partitions still to be deleted
    luksStart,  \* first sector of the LUKS partition, read before it is re-created
    base,       \* history: the volumes when this attempt was planned
    erased,     \* history: has this attempt begun to delete partitions?
    attempts,   \* attempts made so far
    pc          \* the installer's next step, or where the machine stands

vars == <<host, table, view, vols, mounted, source, plan, archive, system, toWipe,
          luksStart, base, erased, attempts, pc>>

diskVars    == <<table, view, vols>>
imageVars   == <<archive, system>>
noteVars    == <<toWipe, luksStart, erased>>
attemptVars == <<host, source, plan, base, attempts>>

\* The installer's steps before and after the first partition is deleted.
StagingSteps == {"verify", "resize", "shrink", "shrink_nodes", "new_staging", "probe",
                 "mkfs", "mount_staging", "stage", "pack", "umount_old", "recheck"}
LayoutSteps  == {"wipe", "partition", "nodes", "luks", "volumes", "esp"}
SystemSteps  == {"extract", "configure", "bootloader"}
GrowSteps    == {"cleanup", "drop_staging", "drop_crypt", "new_crypt", "grow_nodes", "grow"}
Steps        == StagingSteps \cup LayoutSteps \cup SystemSteps \cup GrowSteps
Rest         == {"host", "done", "failed", "off", "installed", "dead"}

NoStrategy == [kind |-> "existing-free", number |-> 0, size |-> 0,
               part |-> 0, target |-> 0, end |-> 0]

TypeOK ==
    /\ host \in Hosts
    /\ table \subseteq Entry /\ view \subseteq Entry
    /\ vols \subseteq Volume /\ base \subseteq Volume
    /\ mounted \subseteq {"staging", "oldroot", "crypt", "target"}
    /\ source \in Source /\ plan \in Strategy
    /\ archive \in {"none", "partial", "bad", "good"}
    /\ system \in {"none", "broken", "extracted", "configured", "bootable"}
    /\ toWipe \subseteq Nat /\ luksStart \in Nat
    /\ erased \in BOOLEAN /\ attempts \in Nat
    /\ pc \in Steps \cup Rest

-----------------------------------------------------------------------------
Init ==
    /\ host \in Hosts
    /\ table = host.table /\ view = host.table
    /\ vols = host.vols /\ base = host.vols
    /\ mounted = {}
    /\ source = [kind |-> "live-root", length |-> 0]
    /\ plan = NoStrategy
    /\ archive = "none" /\ system = "none"
    /\ toWipe = {} /\ luksStart = 0
    /\ erased = FALSE
    /\ attempts = 0
    /\ pc = "host"

\* May a command fail for a reason of its own?
MayFail == attempts <= host.failing

Goto(from, to) == pc = from /\ pc' = to

\* Partitions of the disk in use: the kernel then refuses to read the table again.
Busy == mounted \cap {"staging", "oldroot", "crypt"} # {}

\* What is left of the volumes when the sectors of e are written.
Spared(e) == {v \in vols : Apart(v, e)}

\* The volumes when v is given the end hi.
Rewritten(v, hi) ==
    {w \in vols \ {v} : Apart(w, [v EXCEPT !.hi = hi])} \cup {[v EXCEPT !.hi = hi]}

\* sgdisk wrote table t.
Sgdisk(t) == table' = t /\ view' \in Reread(view, t, Busy)

(***************************************************************************)
(* The host: prepare plans the attempt and writes the manifest; the handoff *)
(* boots the RAM installer, whose kernel reads the table afresh.            *)
(***************************************************************************)
Plans(src) ==
    LET required == staging_requirement_mib(host.used, src)
    IN  IF host.root # 0
          THEN choose_root_disk_staging(table, vols, host.root, host.used, required)
          ELSE choose_non_root_staging(table, vols, required)

Prepare ==
    /\ Goto("host", "verify")
    /\ attempts < MaxAttempts
    /\ \E src \in Sources : source' = src /\ plan' \in Plans(src)
    /\ attempts' = attempts + 1
    /\ view' = table
    /\ base' = {v \in vols : Listed(table, v)}
    /\ archive' = "none" /\ system' = "none" /\ erased' = FALSE
    /\ mounted' = {} /\ toWipe' = {} /\ luksStart' = 0
    /\ UNCHANGED <<host, table, vols>>

-----------------------------------------------------------------------------
(* The staging partition: verify_original_root, create_staging_partition.  *)

\* The root on the target disk is still the partition the manifest names.
OriginalRootUnchanged ==
    host.root = 0 \/ \E e \in Numbered(view, host.root), v \in vols :
                          v.tag = "old" /\ v.num = host.root /\ v.lo = e.lo

VerifyOriginalRoot ==
    /\ pc = "verify"
    /\ OriginalRootUnchanged
    /\ pc' = IF plan.kind = "shrink-ext4" THEN "resize" ELSE "new_staging"
    /\ UNCHANGED <<mounted, diskVars, imageVars, noteVars, attemptVars>>

\* What resize2fs makes of the volume on the partition to shrink: it refuses
\* a size that does not hold the data or exceeds the partition.
Resizable(v, e) ==
    /\ v.lo = e.lo /\ v.type = "ext4"
    /\ v.used <= plan.target /\ e.lo + plan.target * MiB <= e.hi

ToResize == {v \in vols : \E e \in Numbered(view, plan.part) : Resizable(v, e)}

ResizeFilesystem ==
    /\ Goto("resize", "shrink")
    /\ \E v \in ToResize :
          vols' = Rewritten(v, v.lo + plan.target * MiB)
    /\ UNCHANGED <<table, view, mounted, imageVars, noteVars, attemptVars>>

\* (Mutant of ShrunkEntries: the end is taken as the last whole MiB.)
ShrunkEntriesInclusiveEnd ==
    {n \in {NewEntry(plan.part, start * MiB, (plan.end - 1) * MiB) :
               start \in partition_start_mib(table, plan.part)} : Accepts(Without(table, plan.part), n)}

\* One sgdisk deletes the partition and creates it again, from the start the
\* installer reads to the end the planner computed.
ShrunkEntries ==
    {n \in {NewEntry(plan.part, start * MiB, plan.end * MiB) :
               start \in partition_start_mib(table, plan.part)} : Accepts(Without(table, plan.part), n)}

ShrinkPartition ==
    /\ Goto("shrink", "shrink_nodes")
    /\ \E e \in ShrunkEntries : Sgdisk(Without(table, plan.part) \cup {e})
    /\ UNCHANGED <<vols, mounted, imageVars, noteVars, attemptVars>>

UpdateShrunkNode ==
    /\ Goto("shrink_nodes", "new_staging")
    /\ \E e \in Numbered(table, plan.part) : PartxAccepts(view, e) /\ view' = Partx(view, e)
    /\ UNCHANGED <<table, vols, mounted, imageVars, noteVars, attemptVars>>

StagingEntries ==
    {e \in {NewEntry(plan.number, start * MiB, (start + plan.size) * MiB) :
               start \in end_free_start_mib(table, plan.size)} : Accepts(table, e)}

CreateStaging ==
    /\ Goto("new_staging", "probe")
    /\ \E e \in StagingEntries : Sgdisk(table \cup {e})
    /\ UNCHANGED <<vols, mounted, imageVars, noteVars, attemptVars>>

\* partprobe, then the wait for the device node.
ProbeStaging ==
    /\ Goto("probe", "mkfs")
    /\ view' = table
    /\ UNCHANGED <<table, vols, mounted, imageVars, noteVars, attemptVars>>

FormatStaging ==
    /\ Goto("mkfs", "mount_staging")
    /\ \E e \in Numbered(view, plan.number) :
          vols' = Spared(e) \cup {NewVolume("staging", e, "ext4")}
    /\ UNCHANGED <<table, view, mounted, imageVars, noteVars, attemptVars>>

MountStaging ==
    /\ Goto("mount_staging", "stage")
    /\ mounted' = mounted \cup {"staging"}
    /\ UNCHANGED <<diskVars, imageVars, noteVars, attemptVars>>

-----------------------------------------------------------------------------
(* The archive: stage_rootfs and the second hash in run.                   *)

\* The hash is taken of the stream while it is written; the file may come
\* out different (the second hash is there for that).
Download ==
    /\ source.kind = "https-rootfs"
    /\ Goto("stage", "recheck")
    /\ archive' \in {"good"} \cup (IF MayFail THEN {"bad"} ELSE {})
    /\ UNCHANGED <<mounted, system, diskVars, noteVars, attemptVars>>

\* The stream is not what the descriptor promises: the file is removed.
DownloadMismatch ==
    /\ source.kind = "https-rootfs" /\ MayFail
    /\ Goto("stage", "failed")
    /\ archive' = "none"
    /\ UNCHANGED <<mounted, system, diskVars, noteVars, attemptVars>>

\* The old root is mounted read-only (and checked for a Debian system).
MountOldRoot ==
    /\ source.kind = "live-root"
    /\ Goto("stage", "pack")
    /\ mounted' = mounted \cup {"oldroot"}
    /\ UNCHANGED <<diskVars, imageVars, noteVars, attemptVars>>

PackOldRoot ==
    /\ Goto("pack", "umount_old")
    /\ archive' = "good"
    /\ UNCHANGED <<mounted, system, diskVars, noteVars, attemptVars>>

\* tar fails: the old root is unmounted, if that works, before the error is returned.
PackFails ==
    /\ MayFail
    /\ Goto("pack", "failed")
    /\ archive' = "partial"
    /\ mounted' \in {mounted, mounted \ {"oldroot"}}
    /\ UNCHANGED <<system, diskVars, noteVars, attemptVars>>

UnmountOldRoot ==
    /\ Goto("umount_old", "recheck")
    /\ mounted' = mounted \ {"oldroot"}
    /\ UNCHANGED <<diskVars, imageVars, noteVars, attemptVars>>

\* (Mutants of RecheckArchive: no second hash; staging is not excepted.)
RecheckArchiveWithoutHash ==
    /\ Goto("recheck", "wipe")
    /\ toWipe' = Numbers(view) \ {plan.number}
    /\ UNCHANGED <<mounted, luksStart, erased, diskVars, imageVars, attemptVars>>

RecheckArchiveWipingAll ==
    /\ Goto("recheck", "wipe")
    /\ archive = "good"
    /\ toWipe' = Numbers(view)
    /\ UNCHANGED <<mounted, luksStart, erased, diskVars, imageVars, attemptVars>>

\* The file hashes to the descriptor's value.  The partitions to delete are
\* the ones the kernel knows now, without the staging partition.
RecheckArchive ==
    /\ Goto("recheck", "wipe")
    /\ archive = "good"
    /\ toWipe' = Numbers(view) \ {plan.number}
    /\ UNCHANGED <<mounted, luksStart, erased, diskVars, imageVars, attemptVars>>

-----------------------------------------------------------------------------
(* The new layout: create_preserved_layout.                                *)

WipePartition ==
    /\ pc = "wipe"
    /\ \E n \in toWipe :
          /\ n \in Numbers(table)
          /\ Sgdisk(Without(table, n))
          /\ toWipe' = toWipe \ {n}
    /\ erased' = TRUE
    /\ UNCHANGED <<vols, mounted, luksStart, pc, imageVars, attemptVars>>

WipeDone ==
    /\ Goto("wipe", "partition")
    /\ toWipe = {}
    /\ UNCHANGED <<mounted, diskVars, imageVars, noteVars, attemptVars>>

BootEntry == NewEntry(1, MiB, MiB + host.bootMib * MiB)

\* The second partition: from the first free sector to a MiB before staging.
CryptEntries ==
    {e \in {NewEntry(2, start, (staging - 1) * MiB) :
               start \in DefaultStarts(table \cup {BootEntry}),
               staging \in partition_start_mib(table, plan.number)} :
        Accepts(table, BootEntry) /\ Accepts(table \cup {BootEntry}, e)}

CreatePartitions ==
    /\ Goto("partition", "nodes")
    /\ \E e \in CryptEntries : Sgdisk(table \cup {BootEntry, e})
    /\ UNCHANGED <<vols, mounted, imageVars, noteVars, attemptVars>>

\* (Mutant of UpdateNodes: partx is not run.)
KeepNodes ==
    /\ Goto("nodes", "luks")
    /\ UNCHANGED <<mounted, diskVars, imageVars, noteVars, attemptVars>>

\* partx --update --nr 1:2, one number after the other.
UpdatedViews ==
    {w \in UNION {{Partx(Partx(view, e1), e2) : e1 \in {e \in Numbered(table, 1) : PartxAccepts(view, e)}} :
                     e2 \in Numbered(table, 2)} :
        \A e2 \in Numbered(w, 2) : PartxAccepts(w, e2)}

UpdateNodes ==
    /\ Goto("nodes", "luks")
    /\ view' \in UpdatedViews
    /\ UNCHANGED <<table, vols, mounted, imageVars, noteVars, attemptVars>>

\* wipefs, luksFormat and open of the second partition's device.
FormatLuks ==
    /\ Goto("luks", "volumes")
    /\ \E e \in Numbered(view, 2) :
          vols' = Spared(e) \cup {NewVolume("crypt", e, "crypto_LUKS")}
    /\ mounted' = mounted \cup {"crypt"}
    /\ UNCHANGED <<table, view, imageVars, noteVars, attemptVars>>

\* LVM, the filesystems inside the container, and the mount of the root.
CreateVolumes ==
    /\ pc = "volumes"
    /\ pc' = IF host.uefi THEN "esp" ELSE "extract"
    /\ mounted' = mounted \cup {"target"}
    /\ UNCHANGED <<diskVars, imageVars, noteVars, attemptVars>>

\* (Mutant of FormatEsp: mkfs.fat is given the second partition.)
FormatEspOnCrypt ==
    /\ Goto("esp", "extract")
    /\ \E e \in Numbered(view, 2) : vols' = Spared(e) \cup {NewVolume("esp", e, "vfat")}
    /\ UNCHANGED <<table, view, mounted, imageVars, noteVars, attemptVars>>

FormatEsp ==
    /\ Goto("esp", "extract")
    /\ \E e \in Numbered(view, 1) : vols' = Spared(e) \cup {NewVolume("esp", e, "vfat")}
    /\ UNCHANGED <<table, view, mounted, imageVars, noteVars, attemptVars>>

-----------------------------------------------------------------------------
(* The new system, and the growth into the staging space.                  *)

\* (Mutant of Extract: the archive's status is taken for the system's.)
ExtractMixedUp ==
    /\ Goto("extract", "configure")
    /\ system' = archive
    /\ UNCHANGED <<mounted, archive, diskVars, noteVars, attemptVars>>

Extract ==
    /\ Goto("extract", "configure")
    /\ system' = IF archive = "good" THEN "extracted" ELSE "broken"
    /\ UNCHANGED <<mounted, archive, diskVars, noteVars, attemptVars>>

\* Configuration files, chroot mounts, packages, the Tang binding with the
\* passphrase of the environment (DirectInstall has a typed one, too).
Configure ==
    /\ Goto("configure", "bootloader")
    /\ system' = IF system = "extracted" THEN "configured" ELSE "broken"
    /\ UNCHANGED <<mounted, archive, diskVars, noteVars, attemptVars>>

InstallBootloader ==
    /\ Goto("bootloader", "cleanup")
    /\ system' = IF system = "configured" THEN "bootable" ELSE "broken"
    /\ UNCHANGED <<mounted, archive, diskVars, noteVars, attemptVars>>

\* (Mutants of UnmountStaging: the start of the first partition is noted;
\* staging is not unmounted.)
UnmountStagingWrongStart ==
    /\ Goto("cleanup", "drop_staging")
    /\ \E e \in Numbered(table, 1) : luksStart' = e.lo
    /\ mounted' = mounted \ {"staging"}
    /\ UNCHANGED <<toWipe, erased, diskVars, imageVars, attemptVars>>

UnmountStagingSkipped ==
    /\ Goto("cleanup", "drop_staging")
    /\ \E e \in Numbered(table, 2) : luksStart' = e.lo
    /\ UNCHANGED <<mounted, toWipe, erased, diskVars, imageVars, attemptVars>>

\* The start of the LUKS partition is noted and staging is unmounted.
UnmountStaging ==
    /\ Goto("cleanup", "drop_staging")
    /\ \E e \in Numbered(table, 2) : luksStart' = e.lo
    /\ mounted' = mounted \ {"staging"}
    /\ UNCHANGED <<toWipe, erased, diskVars, imageVars, attemptVars>>

DropStaging ==
    /\ Goto("drop_staging", "drop_crypt")
    /\ plan.number \in Numbers(table)
    /\ Sgdisk(Without(table, plan.number))
    /\ UNCHANGED <<vols, mounted, imageVars, noteVars, attemptVars>>

DropCrypt ==
    /\ Goto("drop_crypt", "new_crypt")
    /\ 2 \in Numbers(table)
    /\ Sgdisk(Without(table, 2))
    /\ UNCHANGED <<vols, mounted, imageVars, noteVars, attemptVars>>

GrownEntries ==
    {e \in {NewEntry(2, luksStart, end) : end \in DefaultEnds(table, luksStart)} : Accepts(table, e)}

RecreateCrypt ==
    /\ Goto("new_crypt", "grow_nodes")
    /\ \E e \in GrownEntries : Sgdisk(table \cup {e})
    /\ UNCHANGED <<vols, mounted, imageVars, noteVars, attemptVars>>

UpdateCryptNode ==
    /\ Goto("grow_nodes", "grow")
    /\ \E e \in Numbered(table, 2) : PartxAccepts(view, e) /\ view' = Partx(view, e)
    /\ UNCHANGED <<table, vols, mounted, imageVars, noteVars, attemptVars>>

\* (Mutant of DeferGrow: a partx that fails is waited for.)
WaitForGrow ==
    /\ Goto("grow_nodes", "grow_nodes")
    /\ UNCHANGED <<mounted, diskVars, imageVars, noteVars, attemptVars>>

\* partx fails: "root grow deferred until reboot", and run returns Ok.
DeferGrow ==
    /\ Goto("grow_nodes", "done")
    /\ MayFail \/ \A e \in Numbered(table, 2) : ~PartxAccepts(view, e)
    /\ UNCHANGED <<mounted, diskVars, imageVars, noteVars, attemptVars>>

\* cryptsetup resize, pvresize, lvextend, resize2fs.
Grow ==
    /\ Goto("grow", "done")
    /\ \E e \in Numbered(view, 2), v \in {v \in vols : v.tag = "crypt"} :
          vols' = Rewritten(v, e.hi)
    /\ UNCHANGED <<table, view, mounted, imageVars, noteVars, attemptVars>>

-----------------------------------------------------------------------------
(* What goes wrong.                                                        *)

\* A check of the installer, or the tool it runs, refuses what it is asked.
Refused ==
    \/ pc = "verify"       /\ ~OriginalRootUnchanged
    \/ pc = "resize"       /\ ToResize = {}
    \/ pc = "shrink"       /\ ShrunkEntries = {}
    \/ pc = "new_staging"  /\ StagingEntries = {}
    \/ pc = "recheck"      /\ archive # "good"
    \/ pc = "wipe"         /\ ~(toWipe \subseteq Numbers(table))
    \/ pc = "partition"    /\ CryptEntries = {}
    \/ pc = "nodes"        /\ UpdatedViews = {}
    \/ pc = "new_crypt"    /\ GrownEntries = {}

\* run returns an error: nothing is undone, and nothing runs afterwards.
Abort ==
    /\ Refused \/ (MayFail /\ pc \in Steps \ {"grow_nodes"})
    /\ pc' = "failed"
    /\ UNCHANGED <<mounted, diskVars, imageVars, noteVars, attemptVars>>

\* The power goes.  Interrupting resize2fs may cost the filesystem it works on.
LosePower ==
    /\ attempts <= host.failing
    /\ pc \in Steps
    /\ pc' = "off"
    /\ mounted' = {}
    /\ vols' \in {vols} \cup (IF TornResize /\ pc = "resize"
                                THEN {vols \ {v} : v \in ToResize} ELSE {})
    /\ UNCHANGED <<table, view, imageVars, noteVars, attemptVars>>

\* The old system boots: its root is on another disk, or complete and listed.
OldBoots ==
    host.root = 0 \/ \E v \in vols : v.tag = "old" /\ v.num = host.root /\ Listed(table, v)

\* The new system boots: it is finished, and its container is listed where it starts.
NewBoots ==
    system = "bootable" /\ \E v \in vols : v.tag = "crypt" /\ Listed(table, v)

\* The one-shot boot entry is used up: the machine boots what its disks hold.
Reboot ==
    /\ pc \in {"done", "failed", "off"}
    /\ pc' = IF NewBoots THEN "installed" ELSE IF OldBoots THEN "host" ELSE "dead"
    /\ view' = table
    /\ mounted' = {}
    /\ UNCHANGED <<table, vols, imageVars, noteVars, attemptVars>>

-----------------------------------------------------------------------------
StageStep ==
    \/ VerifyOriginalRoot \/ ResizeFilesystem \/ ShrinkPartition \/ UpdateShrunkNode
    \/ CreateStaging \/ ProbeStaging \/ FormatStaging \/ MountStaging
    \/ Download \/ DownloadMismatch
    \/ MountOldRoot \/ PackOldRoot \/ PackFails \/ UnmountOldRoot \/ RecheckArchive

LayoutStep ==
    \/ WipePartition \/ WipeDone \/ CreatePartitions \/ UpdateNodes
    \/ FormatLuks \/ CreateVolumes \/ FormatEsp

SystemStep ==
    \/ Extract \/ Configure \/ InstallBootloader
    \/ UnmountStaging \/ DropStaging \/ DropCrypt \/ RecreateCrypt
    \/ UpdateCryptNode \/ DeferGrow \/ Grow

\* A step of the running installer: it goes on to its next command or gives up.
Run == StageStep \/ LayoutStep \/ SystemStep \/ Abort

Next == Prepare \/ Run \/ LosePower \/ Reboot

Spec == Init /\ [][Next]_vars

\* The installer is a sequential program whose every command returns, and a
\* machine that is off or at the end of a run is started again.
FairSpec == Spec /\ WF_vars(Run) /\ WF_vars(Reboot)

-----------------------------------------------------------------------------
(* Properties.                                                             *)

\* Until the installer deletes the first partition, every filesystem the disk
\* held when the attempt was planned is complete, where it was, and inside its
\* listed partition: shrinking, staging, failures and power losses between
\* those commands take nothing away (create_staging_partition).
VolumesKept ==
    ~erased =>
        \A b \in base : \E v \in vols :
            /\ v.tag = b.tag /\ v.num = b.num /\ v.lo = b.lo /\ v.used = b.used
            /\ v.hi < b.hi => v.lo + v.used * MiB <= v.hi
            /\ Listed(table, v)

\* A partition other than the staging partition disappears from the table only
\* while the verified archive lies on the mounted staging filesystem and the
\* old root is not mounted, or once the new system is bootable.
ErasedOnlyWithArchive ==
    [][ (\E n \in Numbers(table) \ {plan.number} : n \notin Numbers(table'))
        => \/ archive = "good" /\ "staging" \in mounted /\ "oldroot" \notin mounted
           \/ system = "bootable" ]_vars

\* From the first deletion until the new system is bootable the staging
\* filesystem with the verified archive is complete and listed, whatever
\* fails and whenever the power goes (create_preserved_layout).
ArchiveOutlivesErasure ==
    erased /\ system # "bootable" =>
        /\ archive = "good"
        /\ \E v \in vols : v.tag = "staging" /\ v.num = plan.number /\ Listed(table, v)

\* The LUKS container is never written over and never listed at another start
\* or cut short, in particular when its entry is deleted and created again to
\* grow into the staging space (remove_staging_and_grow).
ContainerKept ==
    system # "none" =>
        \E v \in vols : /\ v.tag = "crypt"
                        /\ \A e \in Numbered(table, 2) : e.lo = v.lo /\ v.hi <= e.hi

\* Once the container's entry is deleted the disk always accepts the entry that
\* covers it again: the window without an entry ends unless the power goes or
\* the command itself fails.
ContainerRelistable ==
    pc = "new_crypt" =>
        \E e \in GrownEntries, v \in vols : v.tag = "crypt" /\ e.lo = v.lo /\ v.hi <= e.hi

\* A device the installer formats is the partition the table lists: the
\* kernel's view of it is never stale at that moment (partprobe and partx).
FormatsListedPartition ==
    /\ pc = "mkfs" => \E e \in Numbered(view, plan.number) : e \in table
    /\ pc = "luks" => \E e \in Numbered(view, 2) : e \in table
    /\ pc = "esp"  => \E e \in Numbered(view, 1) : e \in table

\* The partitions of mounted filesystems stay listed.
MountedStaysListed ==
    /\ "staging" \in mounted => plan.number \in Numbers(table)
    /\ "oldroot" \in mounted /\ host.root # 0 => host.root \in Numbers(table)

\* A run that fails, or loses power, before the first deletion brings the old
\* system back, and a machine never ends with neither system while the archive
\* is not on the disk.
FailureBeforeErasureBoots ==
    /\ pc \in {"failed", "off"} /\ ~erased => OldBoots
    /\ pc = "dead" => erased

\* Every attempt comes to an end: the machine returns to its old system, to
\* the new one, or needs recovery media.  One that has come to the growth ends
\* with the new system, also if the growth is put off (remove_staging_and_grow).
EveryAttemptEnds ==
    /\ pc = "verify" ~> pc \in {"host", "installed", "dead"}
    /\ pc = "grow_nodes" ~> pc = "installed"

\* Behind what the plan leaves of the partitions there is room for the staging
\* partition and the margin.
HasRoom ==
    \A e \in table :
        (IF e.num = plan.part THEN plan.end * MiB ELSE e.hi) + (plan.size + GptTailMargin) * MiB
            <= DiskSectors

\* An attempt in which no command fails by itself, and for which there is room,
\* installs the system: the first one, and one after a failure or a power loss at
\* any step that left no staging partition.  What the planner counted on the
\* installer finds again, though it looks for it with another rule.
AttemptInstalls ==
    (/\ pc = "verify" /\ attempts > host.failing /\ HasRoom
     /\ Numbers(table) \subseteq Numbers(host.table)) ~> pc = "installed"

-----------------------------------------------------------------------------
(* The promise of Custody, kept by the installer.                          *)

\* The new root counts once it is extracted, and as long as its container is
\* not written over: while the container's entry is deleted it is on the disk
\* though no entry leads to it.
HeldCopies ==
    (IF OldBoots THEN {"old"} ELSE {})
      \cup (IF archive = "good" /\ \E v \in vols : v.tag = "staging" /\ v.num = plan.number /\ Listed(table, v)
             THEN {"archive"} ELSE {})
      \cup (IF system \in {"extracted", "configured", "bootable"} /\ \E v \in vols : v.tag = "crypt"
             THEN {"new"} ELSE {})

Promise == INSTANCE Custody WITH held <- HeldCopies

\* The installer, with its failures, power losses and further attempts,
\* implements Custody: no step gives up the last copy of the root.
KeepsCustody == Promise!Spec

-----------------------------------------------------------------------------
(* What docs/how-it-works.md says and the code does not do on every         *)
(* machine.                                                                *)

\* "After the staged archive verifies, every non-staging partition on the
\* selected disk is erased and replaced by the encrypted encvol layout"
\* (docs/how-it-works.md): on a machine where no command fails by itself the
\* installer does not give up between the erasure and the new layout.
ErasureIsCarriedThrough == attempts > host.failing /\ erased => pc # "failed"

\* "It uses existing end-of-disk free space when available; otherwise it shrinks
\* only a final ext4 partition and never moves partitions"
\* (docs/how-it-works.md): a plan on existing free space has that much free
\* space at the end of the disk, and until the erasure every partition that stays
\* in the table stays where it starts.
UsesAvailableSpace ==
    pc = "verify" /\ plan.kind = "existing-free" =>
        \E g \in Gaps(table) : g.hi = UsableEnd /\ g.hi - g.lo >= plan.size * MiB

MovesNothing ==
    [][~erased' => \A e \in table, f \in table' : e.num = f.num => e.lo = f.lo]_vars

=============================================================================
