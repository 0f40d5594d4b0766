----------------------------- MODULE CustodyProofs -----------------------------
(***************************************************************************)
(* No step of the in-place installation gives up the last copy of the      *)
(* root.  Before the erasure that is because the old filesystems are kept, *)
(* during it because the archive is (ErasureProofs), and after it because  *)
(* the container of the new system is.                                     *)
(***************************************************************************)
EXTENDS ErasureProofs

-----------------------------------------------------------------------------
(* The inductive invariant of the disk.                                    *)

\* Volumes are not empty and no two of them share a sector.
Disjoint(V) ==
    /\ \A v \in V : v.lo < v.hi
    /\ \A v, w \in V : v # w => Apart(v, w)

\* From the boot of the RAM installer to the second partition of the shrink,
\* and from partprobe to the choice of what to delete, the kernel is right.
ViewFollows ==
    pc \in {"verify", "resize", "shrink", "mkfs", "mount_staging", "stage", "pack",
            "umount_old", "recheck"}
      => view = table

\* What is listed while the old partitions go and the new ones come.
NewTable == {"nodes", "luks", "volumes", "esp"} \cup SystemSteps
              \cup {"cleanup", "drop_staging", "drop_crypt", "grow_nodes", "grow"}

LayoutListed ==
    /\ pc = "wipe" => Numbers(table) \subseteq toWipe \cup {plan.number}
    /\ pc = "partition" => Numbers(table) \subseteq {plan.number}
    /\ pc \in NewTable =>
          /\ Numbers(table) \subseteq {1, 2, plan.number}
          /\ BootEntry \in table
          /\ \A e \in Numbered(table, 2) : e.lo = BootEntry.hi
    /\ pc = "drop_crypt" => Numbers(table) \subseteq {1, 2}
    /\ pc = "new_crypt" => table = {BootEntry}
    /\ pc \in {"drop_staging", "drop_crypt", "new_crypt"} => luksStart = BootEntry.hi
    /\ pc = "grow" => Numbered(view, 2) \subseteq table

\* Containers begin right behind the boot partition, those of earlier attempts
\* as well.
ContainersBehindBoot == \A v \in vols : v.tag = "crypt" => v.lo = BootEntry.hi

\* A container fits the entry of the second partition, if there is one.
ContainerFits ==
    \E v \in vols : /\ v.tag = "crypt" /\ v.hi <= UsableEnd
                    /\ \A e \in Numbered(table, 2) : e.lo = v.lo /\ v.hi <= e.hi

ContainerThere == system # "none" \/ pc \in {"volumes", "esp", "extract"} => ContainerFits

\* A shrink gives the filesystem a size, and resize2fs has given it that one
\* when its partition is cut.
PlanFits ==
    /\ pc \in {"resize", "shrink"} => plan.kind = "shrink-ext4"
    /\ pc \in {"verify", "resize", "shrink"} /\ plan.kind = "shrink-ext4" => plan.target > 0
    /\ pc = "shrink" => \A v \in vols, e \in Numbered(table, plan.part) :
                            v.lo = e.lo => v.hi <= e.lo + plan.target * MiB

DiskInv ==
    /\ Safe
    /\ Disjoint(vols)
    /\ ViewFollows
    /\ LayoutListed
    /\ ContainersBehindBoot
    /\ ContainerThere
    /\ PlanFits

-----------------------------------------------------------------------------
(* The planner and the new layout.                                         *)

\* What the planner returns: a number that is not taken, and for a shrink a size.
LEMMA PlansFit ==
    ASSUME TypeOK, NEW src \in Sources, NEW p \in Plans(src)
    PROVE  /\ p.number \notin Numbers(table)
           /\ p.kind = "shrink-ext4" => p.target > 0
PROOF
<1> DEFINE required == staging_requirement_mib(host.used, src)
           Fits(q) == q.number \notin Numbers(table) /\ (q.kind = "shrink-ext4" => q.target > 0)
<1>1. host.used \in Nat
  BY HostsAssumption DEF TypeOK
<1>2. \A n \in next_partition_number(table) : n \notin Numbers(table)
  <2>1. \A e \in table : e.num \in Nat
    BY DEF TypeOK, Entry
  <2> QED
    BY <2>1 DEF next_partition_number, Numbers
<1>3. \A q \in staging_from_existing_free(table, required) : Fits(q)
  BY <1>2 DEF staging_from_existing_free
<1>4. ASSUME NEW n, NEW b, NEW u \in Nat, NEW type,
             NEW q \in ShrinkStaging(table, required, n, b, u, type)
      PROVE  Fits(q)
  <2>1. q.number \in next_partition_number(table) /\ q.target = u + MinRootHeadroom
    BY DEF ShrinkStaging
  <2>2. u + MinRootHeadroom > 0
    BY HeadroomAssumption
  <2> QED
    BY <1>2, <2>1, <2>2
<1>5. CASE host.root # 0 /\ p \notin staging_from_existing_free(table, required)
  <2>1. PICK b \in partition_bounds(table, host.root), v \in vols :
           p \in ShrinkStaging(table, required, host.root, b, host.used, v.type)
    BY <1>5 DEF Plans, choose_root_disk_staging
  <2> QED
    BY <1>1, <1>4, <2>1
<1>6. CASE host.root = 0 /\ p \notin staging_from_existing_free(table, required)
  <2>1. PICK r \in final_partition(table), v \in vols :
           p \in ShrinkStaging(table, required, r.num,
                    [start |-> parse_mib(r.lo), size |-> parse_mib(r.hi - r.lo)], v.used, v.type)
    BY <1>6 DEF Plans, choose_non_root_staging, VolumesAt
  <2>2. v.used \in Nat
    BY DEF TypeOK, Volume
  <2> QED
    BY <1>4, <2>1, <2>2
<1> QED
  BY <1>3, <1>5, <1>6

\* The boot partition ends on a whole MiB inside the disk's numbers.
LEMMA BootEntryEnds ==
    ASSUME TypeOK
    PROVE  /\ BootEntry.num = 1 /\ BootEntry.lo = MiB
           /\ BootEntry.hi \in Nat /\ MiB < BootEntry.hi
           /\ ((BootEntry.hi + MiB - 1) \div MiB) * MiB = BootEntry.hi
PROOF
<1>1. host.bootMib \in Nat \ {0}
  BY HostsAssumption DEF TypeOK
<1>2. BootEntry.num = 1 /\ BootEntry.lo = MiB /\ BootEntry.hi = MiB + host.bootMib * MiB
  BY DEF BootEntry, NewEntry
<1> QED
  BY <1>1, <1>2 DEF MiB

\* With nothing but staging in the table, the second partition begins where the
\* boot partition ends: the gaps before it and behind staging do not do.
LEMMA CryptBehindBoot ==
    ASSUME TypeOK, WellFormed(table), Numbers(table) \subseteq {plan.number}, plan.number >= 3,
           NEW e \in CryptEntries
    PROVE  e.num = 2 /\ e.lo = BootEntry.hi
PROOF
<1>1. PICK staging \in partition_start_mib(table, plan.number),
           start \in DefaultStarts(table \cup {BootEntry}) :
         e = NewEntry(2, start, (staging - 1) * MiB)
  BY DEF CryptEntries
<1>2. PICK g \in Gaps(table \cup {BootEntry}) : start = ((g.lo + MiB - 1) \div MiB) * MiB
  BY <1>1 DEF DefaultStarts
<1>3. g.lo \in {FirstUsable} \cup {f.hi : f \in table \cup {BootEntry}}
  BY <1>2 DEF Gaps
<1>4. PICK s \in table : table = {s} /\ staging = parse_mib(s.lo)
  <2>1. PICK r \in FirstRow(table, plan.number) : staging = parse_mib(r.lo)
    BY <1>1 DEF partition_start_mib
  <2>2. PICK s \in Numbered(table, plan.number) : r.lo = s.lo
    BY <2>1, FirstRowIsEntry DEF WellFormed
  <2>3. table = {s}
    BY <2>2 DEF WellFormed, Numbered, Numbers
  <2> QED
    BY <2>1, <2>2, <2>3
<1>5. g.lo = FirstUsable \/ g.lo = s.hi \/ g.lo = BootEntry.hi
  BY <1>3, <1>4
<1>6. e.num = 2 /\ e.lo = ((g.lo + MiB - 1) \div MiB) * MiB /\ e.hi = (parse_mib(s.lo) - 1) * MiB
  BY <1>1, <1>2, <1>4 DEF NewEntry
<1>7. e.lo < e.hi /\ Apart(e, BootEntry)
  BY DEF CryptEntries, Accepts
<1>8. s.lo \in Nat /\ s.hi \in Nat /\ s.lo < s.hi
  BY <1>4 DEF WellFormed, Entry
<1>9. g.lo # FirstUsable
  <2> SUFFICES ASSUME g.lo = FirstUsable PROVE FALSE
    OBVIOUS
  <2>1. e.lo = MiB
    BY <1>6 DEF FirstUsable, MiB
  <2>2. e.hi \in Int
    <3>1. parse_mib(s.lo) \in Nat
      BY <1>8, ParseMibNat
    <3> QED
      BY <1>6, <3>1 DEF MiB
  <2> QED
    BY <1>7, <2>1, <2>2, BootEntryEnds DEF Apart, MiB
<1>10. g.lo # s.hi
  <2> SUFFICES ASSUME g.lo = s.hi PROVE FALSE
    OBVIOUS
  <2>1. e.lo >= s.hi /\ e.lo \in Nat
    BY <1>6, <1>8 DEF MiB
  <2>2. e.hi < s.lo /\ e.hi \in Int
    <3>1. parse_mib(s.lo) \in Nat /\ parse_mib(s.lo) * 2048 < s.lo + 2048
      BY <1>8, ParseMibNat DEF MiB
    <3> QED
      BY <1>6, <1>8, <3>1 DEF MiB
  <2> QED
    BY <1>7, <1>8, <2>1, <2>2
<1> QED
  BY <1>5, <1>6, <1>9, <1>10, BootEntryEnds

-----------------------------------------------------------------------------
(* The volumes.                                                            *)

\* mkfs and luksFormat put a volume on a listed partition and nothing else there.
LEMMA FormattedDisjoint ==
    ASSUME Disjoint(vols), WellFormed(table), NEW e \in table, NEW tag, NEW type
    PROVE  Disjoint(Spared(e) \cup {NewVolume(tag, e, type)})
PROOF
<1>1. /\ NewVolume(tag, e, type).lo = e.lo /\ NewVolume(tag, e, type).hi = e.hi
      /\ e.lo < e.hi
  BY DEF NewVolume, WellFormed
<1>2. \A v \in Spared(e) : v \in vols /\ Apart(v, e)
  BY DEF Spared
<1> QED
  BY <1>1, <1>2 DEF Disjoint, Apart

\* A volume that is given another end replaces what it then covers.
LEMMA RewrittenDisjoint ==
    ASSUME Disjoint(vols), NEW v \in vols, NEW hi, v.lo < hi, vols \subseteq Volume
    PROVE  Disjoint(Rewritten(v, hi))
PROOF
<1>1. [v EXCEPT !.hi = hi].lo = v.lo /\ [v EXCEPT !.hi = hi].hi = hi
  BY DEF Volume
<1> QED
  BY <1>1 DEF Disjoint, Rewritten, Apart

\* The end resize2fs is asked for lies behind the start.
LEMMA ResizedIsNotEmpty ==
    ASSUME DiskInv, ResizeFilesystem, NEW v \in ToResize
    PROVE  v \in vols /\ v.lo < v.lo + plan.target * MiB
PROOF
<1>1. v \in vols /\ v.lo \in Nat
  BY DEF ToResize, DiskInv, Safe, TypeOK, Volume
<1>2. plan.target \in Nat /\ plan.target > 0
  BY DEF ResizeFilesystem, Goto, DiskInv, PlanFits, Safe, TypeOK, Strategy
<1> QED
  BY <1>1, <1>2 DEF MiB

\* The container grows to the end of the entry it begins in.
LEMMA GrownIsNotEmpty ==
    ASSUME DiskInv, Grow, NEW e \in Numbered(view, 2), NEW v \in vols, v.tag = "crypt"
    PROVE  e \in table /\ v.lo = e.lo /\ v.lo < e.hi
PROOF
<1>1. e \in table /\ e.num = 2 /\ e.lo = BootEntry.hi
  BY DEF Grow, Goto, DiskInv, LayoutListed, NewTable, Numbered
<1>2. v.lo = BootEntry.hi /\ e.lo < e.hi
  BY <1>1 DEF DiskInv, ContainersBehindBoot, Safe, NodesKept, WellFormed
<1> QED
  BY <1>1, <1>2

LEMMA DisjointStep == DiskInv /\ [Next]_vars => Disjoint(vols)'
PROOF
<1> SUFFICES ASSUME DiskInv, [Next]_vars PROVE Disjoint(vols')
  BY DEF Disjoint, Apart
<1>1. Disjoint(vols) /\ WellFormed(table) /\ vols \subseteq Volume
  BY DEF DiskInv, Safe, NodesKept, TypeOK
<1>2. CASE ResizeFilesystem
  BY <1>1, <1>2, ResizedIsNotEmpty, RewrittenDisjoint DEF ResizeFilesystem
<1>3. CASE FormatStaging
  BY <1>1, <1>3, FormattedDisjoint
     DEF FormatStaging, Goto, DiskInv, Safe, NodesKept, Numbered
<1>4. CASE FormatLuks
  BY <1>1, <1>4, FormattedDisjoint DEF FormatLuks, Goto, DiskInv, Safe, NodesKept
<1>5. CASE FormatEsp
  BY <1>1, <1>5, FormattedDisjoint DEF FormatEsp, Goto, DiskInv, Safe, NodesKept
<1>6. CASE Grow
  <2>1. PICK e \in Numbered(view, 2), v \in vols : v.tag = "crypt" /\ vols' = Rewritten(v, e.hi)
    BY <1>6 DEF Grow
  <2> QED
    BY <1>1, <1>6, <2>1, GrownIsNotEmpty, RewrittenDisjoint
<1>7. CASE LosePower \/ UNCHANGED vols
  <2>1. vols' \subseteq vols
    BY <1>7 DEF LosePower
  <2> QED
    BY <1>1, <2>1 DEF Disjoint
<1> QED
  BY <1>2, <1>3, <1>4, <1>5, <1>6, <1>7, VolumesChange

LEMMA ViewStep == DiskInv /\ [Next]_vars => ViewFollows'
BY DEF Next, Run, StageStep, LayoutStep, SystemStep, Prepare, VerifyOriginalRoot,
       ResizeFilesystem, ShrinkPartition, UpdateShrunkNode, CreateStaging, ProbeStaging,
       FormatStaging, MountStaging, Download, DownloadMismatch, MountOldRoot, PackOldRoot,
       PackFails, UnmountOldRoot, RecheckArchive, WipePartition, WipeDone, CreatePartitions,
       UpdateNodes, FormatLuks, CreateVolumes, FormatEsp, Extract, Configure, InstallBootloader,
       UnmountStaging, DropStaging, DropCrypt, RecreateCrypt, UpdateCryptNode, DeferGrow, Grow,
       Abort, LosePower, Reboot, DiskInv, ViewFollows, Goto, vars, diskVars

-----------------------------------------------------------------------------
(* The new layout.                                                         *)

LEMMA LayoutListedStep == DiskInv /\ [Next]_vars => LayoutListed'
PROOF
<1> SUFFICES ASSUME DiskInv, [Next]_vars PROVE LayoutListed'
  OBVIOUS
<1>0. /\ host' = host /\ BootEntry' = BootEntry /\ BootEntry.num = 1
      /\ TypeOK /\ WellFormed(table) /\ LayoutListed
  BY PlanChanges, BootEntryEnds DEF DiskInv, Safe, NodesKept, BootEntry
<1> USE DEF Goto, diskVars, noteVars, attemptVars, LayoutListed, NewTable, SystemSteps
<1>1. CASE Prepare
  BY <1>1 DEF Prepare
<1>2. CASE RecheckArchive
  BY <1>2 DEF RecheckArchive, DiskInv, ViewFollows
<1>3. CASE WipePartition
  <2>1. PICK n \in toWipe : table' = Without(table, n) /\ toWipe' = toWipe \ {n}
    BY <1>3 DEF WipePartition, Sgdisk
  <2>2. Numbers(table') \subseteq Numbers(table) \ {n}
    BY <2>1 DEF Numbers, Without
  <2> QED
    BY <1>0, <1>3, <2>1, <2>2 DEF WipePartition
<1>4. CASE WipeDone
  BY <1>0, <1>4 DEF WipeDone
<1>5. CASE CreatePartitions
  <2>1. PICK e \in CryptEntries : table' = table \cup {BootEntry, e}
    BY <1>5 DEF CreatePartitions, Sgdisk
  <2>2. plan.number >= 3 /\ Numbers(table) \subseteq {plan.number}
    BY <1>0, <1>5 DEF CreatePartitions, DiskInv, Safe, StagingKept, Steps, LayoutSteps
  <2>3. e.num = 2 /\ e.lo = BootEntry.hi
    BY <1>0, <2>1, <2>2, CryptBehindBoot
  <2>4. Numbers(table') \subseteq {1, 2, plan.number} /\ BootEntry \in table'
    BY <1>0, <2>1, <2>2, <2>3 DEF Numbers
  <2>5. Numbered(table', 2) = {e}
    BY <1>0, <2>1, <2>2, <2>3 DEF Numbered, Numbers
  <2> QED
    BY <1>0, <1>5, <2>3, <2>4, <2>5 DEF CreatePartitions
<1>6. CASE UpdateNodes \/ FormatLuks \/ CreateVolumes \/ FormatEsp
  BY <1>0, <1>6 DEF UpdateNodes, FormatLuks, CreateVolumes, FormatEsp
<1>7. CASE Extract \/ Configure \/ InstallBootloader
  BY <1>0, <1>7 DEF Extract, Configure, InstallBootloader
<1>8. CASE UnmountStaging
  BY <1>0, <1>8 DEF UnmountStaging
<1>9. CASE DropStaging
  <2>1. table' = Without(table, plan.number) /\ plan.number >= 3
    BY <1>9 DEF DropStaging, Sgdisk, DiskInv, Safe, StagingKept, Steps, GrowSteps
  <2>2. /\ Numbers(table') \subseteq Numbers(table) \ {plan.number}
        /\ BootEntry \in table => BootEntry \in table'
        /\ Numbered(table', 2) \subseteq Numbered(table, 2)
    BY <1>0, <2>1 DEF Numbers, Numbered, Without
  <2> QED
    BY <1>0, <1>9, <2>2 DEF DropStaging
<1>10. CASE DropCrypt
  <2>1. table' = Without(table, 2) /\ BootEntry \in table /\ Numbers(table) \subseteq {1, 2}
    BY <1>0, <1>10 DEF DropCrypt, Sgdisk
  <2>2. table' = {BootEntry}
    BY <1>0, <2>1 DEF Without, Numbers, WellFormed
  <2> QED
    BY <1>0, <1>10, <2>2 DEF DropCrypt
<1>11. CASE RecreateCrypt
  <2>1. PICK e \in GrownEntries : table' = table \cup {e}
    BY <1>11 DEF RecreateCrypt, Sgdisk
  <2>2. e.num = 2 /\ e.lo = BootEntry.hi /\ table = {BootEntry}
    BY <1>0, <1>11 DEF RecreateCrypt, GrownEntries, NewEntry
  <2> QED
    BY <1>0, <1>11, <2>1, <2>2 DEF RecreateCrypt, Numbers, Numbered
<1>12. CASE UpdateCryptNode
  <2>1. PICK e \in Numbered(table, 2) : view' = Partx(view, e)
    BY <1>12 DEF UpdateCryptNode
  <2>2. Numbered(view', 2) \subseteq table
    BY <2>1 DEF Numbered, Partx, Without
  <2> QED
    BY <1>0, <1>12, <2>2 DEF UpdateCryptNode
<1>13. CASE DeferGrow \/ Grow \/ Abort \/ LosePower \/ Reboot
  BY <1>13 DEF DeferGrow, Grow, Abort, LosePower, Reboot
<1>14. CASE StageStep /\ ~RecheckArchive
  BY <1>14 DEF StageStep, VerifyOriginalRoot, ResizeFilesystem, ShrinkPartition,
     UpdateShrunkNode, CreateStaging, ProbeStaging, FormatStaging, MountStaging, Download,
     DownloadMismatch, MountOldRoot, PackOldRoot, PackFails, UnmountOldRoot
<1>15. CASE UNCHANGED vars
  BY <1>0, <1>15 DEF vars
<1> QED
  BY <1>1, <1>2, <1>3, <1>4, <1>5, <1>6, <1>7, <1>8, <1>9, <1>10, <1>11, <1>12, <1>13,
     <1>14, <1>15 DEF Next, Run, LayoutStep, SystemStep

\* Whatever is written over the volumes, a container lies behind the boot partition.
LEMMA ContainersStep == DiskInv /\ [Next]_vars => ContainersBehindBoot'
PROOF
<1> SUFFICES ASSUME DiskInv, [Next]_vars PROVE ContainersBehindBoot'
  OBVIOUS
<1>1. BootEntry' = BootEntry /\ ContainersBehindBoot /\ vols \subseteq Volume
  BY PlanChanges DEF DiskInv, Safe, TypeOK, BootEntry
<1>2. ASSUME NEW v \in vols, NEW hi, vols' = Rewritten(v, hi) PROVE ContainersBehindBoot'
  <2>1. [v EXCEPT !.hi = hi].lo = v.lo /\ [v EXCEPT !.hi = hi].tag = v.tag
    BY <1>1 DEF Volume
  <2> QED
    BY <1>1, <1>2, <2>1 DEF Rewritten, ContainersBehindBoot
<1>3. CASE ResizeFilesystem \/ Grow
  BY <1>2, <1>3 DEF ResizeFilesystem, ToResize, Grow
<1>4. CASE FormatStaging \/ FormatEsp
  BY <1>1, <1>4 DEF FormatStaging, FormatEsp, NewVolume, Spared, ContainersBehindBoot
<1>5. CASE FormatLuks
  <2>1. PICK e \in Numbered(view, 2) : vols' = Spared(e) \cup {NewVolume("crypt", e, "crypto_LUKS")}
    BY <1>5 DEF FormatLuks
  <2>2. e \in Numbered(table, 2)
    BY <1>5, <2>1 DEF FormatLuks, Goto, DiskInv, Safe, NodesKept, Numbered
  <2>3. e.lo = BootEntry.hi
    BY <1>5, <2>2 DEF FormatLuks, Goto, DiskInv, LayoutListed, NewTable
  <2> QED
    BY <1>1, <2>1, <2>3 DEF NewVolume, Spared, ContainersBehindBoot
<1>6. CASE LosePower \/ UNCHANGED vols
  BY <1>1, <1>6 DEF LosePower, ContainersBehindBoot
<1> QED
  BY <1>3, <1>4, <1>5, <1>6, VolumesChange

-----------------------------------------------------------------------------
(* The container.                                                          *)

\* luksFormat makes a container that fits the entry it is made on.
LEMMA FormatLuksFits ==
    ASSUME DiskInv, FormatLuks
    PROVE  ContainerFits'
PROOF
<1>1. PICK e \in Numbered(view, 2) : vols' = Spared(e) \cup {NewVolume("crypt", e, "crypto_LUKS")}
  BY DEF FormatLuks
<1>2. e \in table /\ e.num = 2 /\ table' = table /\ WellFormed(table)
  BY <1>1 DEF FormatLuks, Goto, DiskInv, Safe, NodesKept, Numbered
<1>3. e.hi <= UsableEnd /\ e.hi \in Nat /\ \A f \in Numbered(table, 2) : f = e
  BY <1>2 DEF WellFormed, Numbered, Entry
<1> DEFINE v == NewVolume("crypt", e, "crypto_LUKS")
<1>4. v \in vols' /\ v.tag = "crypt" /\ v.lo = e.lo /\ v.hi = e.hi
  BY <1>1 DEF NewVolume
<1> QED
  BY <1>2, <1>3, <1>4 DEF ContainerFits, UsableEnd

\* mkfs.fat is given the first partition, and the container is in the second.
LEMMA FormatEspSpares ==
    ASSUME DiskInv, FormatEsp, ContainerFits
    PROVE  ContainerFits'
PROOF
<1>1. PICK v \in vols : /\ v.tag = "crypt" /\ v.hi <= UsableEnd
                        /\ \A e \in Numbered(table, 2) : e.lo = v.lo /\ v.hi <= e.hi
  BY DEF ContainerFits
<1>2. PICK b \in Numbered(view, 1) : vols' = Spared(b) \cup {NewVolume("esp", b, "vfat")}
  BY DEF FormatEsp
<1>3. PICK e \in Numbered(table, 2) : TRUE
  BY DEF FormatEsp, Goto, DiskInv, Safe, NodesKept, Numbered
<1>4. b \in table /\ b.num = 1 /\ e \in table /\ e.num = 2 /\ table' = table /\ WellFormed(table)
  BY <1>2, <1>3 DEF FormatEsp, Goto, DiskInv, Safe, NodesKept, Numbered
<1>5. Apart(e, b) /\ e.lo = v.lo /\ v.hi <= e.hi
  BY <1>1, <1>3, <1>4 DEF WellFormed
<1>6. {v.lo, v.hi, e.hi, b.lo, b.hi} \subseteq Nat
  BY <1>1, <1>4 DEF DiskInv, Safe, TypeOK, Volume, WellFormed, Entry
<1>7. v \in vols'
  BY <1>1, <1>2, <1>5, <1>6 DEF Spared, Apart
<1> QED
  BY <1>1, <1>4, <1>7 DEF ContainerFits, UsableEnd

\* cryptsetup resize gives the container the end of its entry.
LEMMA GrowFits ==
    ASSUME DiskInv, Grow
    PROVE  ContainerFits'
PROOF
<1>1. PICK e \in Numbered(view, 2), v \in vols : v.tag = "crypt" /\ vols' = Rewritten(v, e.hi)
  BY DEF Grow
<1>2. e \in table /\ v.lo = e.lo /\ e.num = 2
  BY <1>1, GrownIsNotEmpty DEF Numbered
<1>3. table' = table /\ WellFormed(table) /\ v \in Volume
  BY DEF Grow, DiskInv, Safe, NodesKept, TypeOK
<1>4. PICK w \in vols' : w.tag = "crypt" /\ w.lo = e.lo /\ w.hi = e.hi
  <2>1. [v EXCEPT !.hi = e.hi] \in vols'
    BY <1>1 DEF Rewritten
  <2> QED
    BY <1>1, <1>2, <1>3, <2>1 DEF Volume
<1>5. e.hi <= UsableEnd /\ e.hi \in Nat /\ \A f \in Numbered(table, 2) : f = e
  BY <1>2, <1>3 DEF WellFormed, Numbered, Entry
<1> QED
  BY <1>3, <1>4, <1>5 DEF ContainerFits, UsableEnd

\* The entry sgdisk makes from the noted start to the end of the gap.
LEMMA GrownEntryCovers ==
    ASSUME DiskInv, pc = "new_crypt"
    PROVE  /\ \A e \in GrownEntries : e.num = 2 /\ e.lo = BootEntry.hi /\ e.hi = UsableEnd
           /\ BootEntry.hi < UsableEnd =>
                 NewEntry(2, BootEntry.hi, UsableEnd) \in GrownEntries
PROOF
<1>1. /\ table = {BootEntry} /\ luksStart = BootEntry.hi /\ TypeOK
      /\ UsableEnd \in Int
  BY DiskAssumption DEF DiskInv, LayoutListed, Safe, UsableEnd
<1>2. /\ BootEntry.num = 1 /\ BootEntry.lo = MiB
      /\ BootEntry.hi \in Nat /\ MiB < BootEntry.hi
  BY <1>1, BootEntryEnds
<1>3. \A g \in Gaps(table) : g.lo <= luksStart /\ luksStart < g.hi => g.hi = UsableEnd
  BY <1>1, <1>2 DEF Gaps, MiB
<1>4. ASSUME BootEntry.hi < UsableEnd PROVE UsableEnd \in DefaultEnds(table, luksStart)
  <2>1. BootEntry.hi \in {FirstUsable} \cup {e.hi : e \in table}
    BY <1>1
  <2>2. PICK g \in [lo : {FirstUsable} \cup {e.hi : e \in table},
                    hi : {UsableEnd} \cup {e.lo : e \in table}] :
           g.lo = BootEntry.hi /\ g.hi = UsableEnd
    <3>1. [lo |-> BootEntry.hi, hi |-> UsableEnd] \in
             [lo : {FirstUsable} \cup {e.hi : e \in table}, hi : {UsableEnd} \cup {e.lo : e \in table}]
      BY <2>1
    <3> QED
      BY <3>1
  <2>3. g \in Gaps(table)
    BY <1>1, <1>2, <1>4, <2>2 DEF Gaps, Apart
  <2> QED
    BY <1>1, <1>2, <1>4, <2>2, <2>3 DEF DefaultEnds
<1>5. ASSUME BootEntry.hi < UsableEnd PROVE Accepts(table, NewEntry(2, BootEntry.hi, UsableEnd))
  BY <1>1, <1>2, <1>5 DEF Accepts, NewEntry, Numbers, Apart, FirstUsable, MiB
<1>6. \A e \in GrownEntries : e.num = 2 /\ e.lo = BootEntry.hi /\ e.hi = UsableEnd
  BY <1>1, <1>3 DEF GrownEntries, DefaultEnds, NewEntry
<1>7. ASSUME BootEntry.hi < UsableEnd PROVE NewEntry(2, BootEntry.hi, UsableEnd) \in GrownEntries
  BY <1>1, <1>4, <1>5, <1>7 DEF GrownEntries
<1> QED
  BY <1>6, <1>7

\* The entry that is created again covers the container.
LEMMA RecreateCryptFits ==
    ASSUME DiskInv, RecreateCrypt, ContainerFits
    PROVE  ContainerFits'
PROOF
<1>1. PICK v \in vols : v.tag = "crypt" /\ v.hi <= UsableEnd
  BY DEF ContainerFits
<1>2. pc = "new_crypt" /\ table = {BootEntry} /\ BootEntry.num = 1 /\ vols' = vols
  BY BootEntryEnds DEF RecreateCrypt, Goto, DiskInv, LayoutListed, Safe
<1>3. PICK e \in GrownEntries : table' = table \cup {e}
  BY DEF RecreateCrypt, Sgdisk
<1>4. e.lo = v.lo /\ e.hi = UsableEnd
  BY <1>1, <1>2, <1>3, GrownEntryCovers DEF DiskInv, ContainersBehindBoot
<1>5. Numbered(table', 2) \subseteq {e}
  BY <1>2, <1>3 DEF Numbered
<1> QED
  BY <1>1, <1>2, <1>4, <1>5 DEF ContainerFits, UsableEnd

\* Deleting an entry, or changing nothing, leaves the container what it was.
LEMMA FewerEntriesFit ==
    ASSUME ContainerFits, Numbered(table', 2) \subseteq Numbered(table, 2), vols' = vols
    PROVE  ContainerFits'
BY DEF ContainerFits, UsableEnd

LEMMA ContainerStep == DiskInv /\ [Next]_vars => ContainerThere'
PROOF
<1> SUFFICES ASSUME DiskInv, [Next]_vars,
                    system' # "none" \/ pc' \in {"volumes", "esp", "extract"}
             PROVE  ContainerFits'
  BY DEF ContainerThere
<1>1. CASE FormatLuks
  BY <1>1, FormatLuksFits
<1>2. CASE ~FormatLuks
  <2>1. system # "none" \/ pc \in {"volumes", "esp", "extract"}
    BY <1>2 DEF Next, Run, StageStep, LayoutStep, SystemStep, Prepare, VerifyOriginalRoot,
       ResizeFilesystem, ShrinkPartition, UpdateShrunkNode, CreateStaging, ProbeStaging,
       FormatStaging, MountStaging, Download, DownloadMismatch, MountOldRoot, PackOldRoot,
       PackFails, UnmountOldRoot, RecheckArchive, WipePartition, WipeDone, CreatePartitions,
       UpdateNodes, CreateVolumes, FormatEsp, Extract, Configure, InstallBootloader,
       UnmountStaging, DropStaging, DropCrypt, RecreateCrypt, UpdateCryptNode, DeferGrow, Grow,
       Abort, LosePower, Reboot, Goto, vars, imageVars, DiskInv, Safe, Phases
  <2>2. ContainerFits
    BY <2>1 DEF DiskInv, ContainerThere
  <2>3. pc \notin StagingSteps \cup (LayoutSteps \ {"volumes", "esp"})
    BY <2>1 DEF DiskInv, Safe, Phases, StagingSteps, LayoutSteps
  <2>4. CASE FormatEsp
    BY <2>2, <2>4, FormatEspSpares
  <2>5. CASE Grow
    BY <2>5, GrowFits
  <2>6. CASE RecreateCrypt
    BY <2>2, <2>6, RecreateCryptFits
  <2>7. CASE ~FormatEsp /\ ~Grow /\ ~RecreateCrypt
    <3>1. vols' = vols
      BY <1>2, <2>3, <2>7, VolumesChange
         DEF ResizeFilesystem, FormatStaging, LosePower, Goto, StagingSteps
    <3>2. UNCHANGED table \/ DropStaging \/ DropCrypt
      BY <2>3, <2>7, TableChanges
         DEF ShrinkPartition, CreateStaging, WipePartition, CreatePartitions, Goto,
             StagingSteps, LayoutSteps
    <3>3. Numbered(table', 2) \subseteq Numbered(table, 2)
      BY <3>2 DEF DropStaging, DropCrypt, Sgdisk, Numbered, Without
    <3> QED
      BY <2>2, <3>1, <3>3, FewerEntriesFit
  <2> QED
    BY <2>4, <2>5, <2>6, <2>7
<1> QED
  BY <1>1, <1>2

-----------------------------------------------------------------------------
(* The plan.                                                               *)

\* Nothing happens to the table between the plan and the shrink.
LEMMA PlanFollows ==
    ASSUME [Next]_vars, ~Prepare, pc' \in {"verify", "resize", "shrink"}
    PROVE  /\ pc \in {"verify", "resize", "shrink"} /\ UNCHANGED <<table, plan>>
           /\ pc' = pc \/ VerifyOriginalRoot \/ ResizeFilesystem
           /\ pc' = pc => UNCHANGED vols
BY DEF Next, Run, StageStep, LayoutStep, SystemStep, VerifyOriginalRoot,
       ResizeFilesystem, ShrinkPartition, UpdateShrunkNode, CreateStaging, ProbeStaging,
       FormatStaging, MountStaging, Download, DownloadMismatch, MountOldRoot, PackOldRoot,
       PackFails, UnmountOldRoot, RecheckArchive, WipePartition, WipeDone, CreatePartitions,
       UpdateNodes, FormatLuks, CreateVolumes, FormatEsp, Extract, Configure, InstallBootloader,
       UnmountStaging, DropStaging, DropCrypt, RecreateCrypt, UpdateCryptNode, DeferGrow, Grow,
       Abort, LosePower, Reboot, Goto, vars, diskVars, attemptVars

\* After resize2fs what begins where the partition begins is no larger than the
\* partition will be.
LEMMA ResizedFits ==
    ASSUME DiskInv, ResizeFilesystem, NEW w \in vols', NEW e \in Numbered(table, plan.part),
           w.lo = e.lo
    PROVE  w.hi <= e.lo + plan.target * MiB
PROOF
<1>1. PICK v \in ToResize : vols' = Rewritten(v, v.lo + plan.target * MiB)
  BY DEF ResizeFilesystem
<1>2. view = table /\ WellFormed(table)
  BY DEF ResizeFilesystem, Goto, DiskInv, ViewFollows, Safe, NodesKept
<1>3. v \in vols /\ v.lo = e.lo
  BY <1>1, <1>2 DEF ToResize, Resizable, Numbered, WellFormed
<1>4. v \in Volume /\ vols \subseteq Volume /\ v.lo < v.lo + plan.target * MiB
  BY <1>1, ResizedIsNotEmpty DEF DiskInv, Safe, TypeOK, ToResize
<1>5. CASE w \in vols /\ w # v
  <2>1. Apart(w, v) /\ w.lo < w.hi /\ v.lo < v.hi
    BY <1>3, <1>5 DEF DiskInv, Disjoint
  <2> QED
    BY <1>3, <1>4, <1>5, <2>1 DEF Apart, Volume
<1>6. CASE ~(w \in vols /\ w # v)
  <2>1. w = [v EXCEPT !.hi = v.lo + plan.target * MiB]
    BY <1>1, <1>6 DEF Rewritten
  <2>2. w.hi = v.lo + plan.target * MiB
    BY <1>4, <2>1 DEF Volume
  <2>3. w.hi = e.lo + plan.target * MiB
    BY <1>3, <2>2
  <2>4. w.hi \in Int
    <3>1. plan.target \in Nat /\ v.lo \in Nat
      BY <1>4 DEF DiskInv, Safe, TypeOK, Strategy, Volume
    <3> QED
      BY <2>2, <3>1 DEF MiB
  <2> QED
    BY <2>3, <2>4
<1> QED
  BY <1>5, <1>6

LEMMA PlanStep == DiskInv /\ [Next]_vars => PlanFits'
PROOF
<1> SUFFICES ASSUME DiskInv, [Next]_vars PROVE PlanFits'
  OBVIOUS
<1>0. TypeOK /\ WellFormed(table) /\ PlanFits
  BY DEF DiskInv, Safe, NodesKept
<1>1. CASE Prepare
  <2>1. PICK src \in Sources : plan' \in Plans(src)
    BY <1>1 DEF Prepare
  <2>2. table' = table /\ pc' = "verify"
    BY <1>1 DEF Prepare, Goto
  <2>3. plan'.kind = "shrink-ext4" => plan'.target > 0
    BY <1>0, <2>1, PlansFit
  <2> QED
    BY <2>2, <2>3 DEF PlanFits
<1>2. CASE ~Prepare /\ pc' \in {"verify", "resize", "shrink"}
  <2>1. /\ pc \in {"verify", "resize", "shrink"} /\ table' = table /\ plan' = plan
        /\ pc' = pc \/ VerifyOriginalRoot \/ ResizeFilesystem
        /\ pc' = pc => vols' = vols
    BY <1>2, PlanFollows
  <2>2. pc' \in {"resize", "shrink"} => plan'.kind = "shrink-ext4"
    BY <1>0, <2>1 DEF PlanFits, VerifyOriginalRoot, ResizeFilesystem, Goto
  <2>3. plan'.kind = "shrink-ext4" => plan'.target > 0
    BY <1>0, <2>1 DEF PlanFits
  <2>4. ASSUME pc' = "shrink", NEW v \in vols', NEW e \in Numbered(table', plan'.part), v.lo = e.lo
        PROVE  v.hi <= e.lo + plan'.target * MiB
    <3>1. CASE ResizeFilesystem
      BY <2>1, <2>4, <3>1, ResizedFits
    <3>2. CASE ~ResizeFilesystem
      <4>1. pc = "shrink" /\ vols' = vols
        BY <2>1, <2>4, <3>2 DEF VerifyOriginalRoot
      <4> QED
        BY <1>0, <2>1, <2>4, <4>1 DEF PlanFits
    <3> QED
      BY <3>1, <3>2
  <2> QED
    BY <2>2, <2>3, <2>4 DEF PlanFits
<1>3. CASE pc' \notin {"verify", "resize", "shrink"}
  BY <1>3 DEF PlanFits
<1> QED
  BY <1>1, <1>2, <1>3

-----------------------------------------------------------------------------
(* The container is kept.                                                  *)

LEMMA InitDisjoint == Init => Disjoint(vols)
PROOF
<1> SUFFICES ASSUME Init PROVE Disjoint(vols)
  OBVIOUS
<1>1. /\ host \in Hosts /\ vols = host.vols /\ WellFormed(host.table)
      /\ vols \subseteq Volume
      /\ \A v \in vols : v.lo < v.hi /\ Listed(host.table, v)
      /\ \A v, w \in vols : v # w => v.num # w.num
  BY HostsAssumption DEF Init
<1>2. ASSUME NEW v \in vols, NEW w \in vols, v # w PROVE Apart(v, w)
  <2>1. PICK e \in host.table : e.num = w.num /\ e.lo = w.lo /\ w.hi <= e.hi
    BY <1>1 DEF Listed
  <2>2. v.num # e.num /\ v.lo \in Nat /\ v.hi \in Nat
    BY <1>1, <1>2, <2>1 DEF Volume
  <2>3. Apart(v, e)
    BY <1>1, <2>1, <2>2, ListedApart
  <2> QED
    BY <1>1, <2>1, <2>2, <2>3 DEF Apart, Volume, WellFormed, Entry
<1> QED
  BY <1>1, <1>2 DEF Disjoint

LEMMA InitDisk == Init => DiskInv
PROOF
<1> SUFFICES ASSUME Init PROVE DiskInv
  OBVIOUS
<1>1. pc = "host" /\ system = "none" /\ \A v \in vols : v.tag = "old"
  BY HostsAssumption DEF Init
<1>2. Safe /\ Disjoint(vols)
  BY InitSafe, InitDisjoint
<1> QED
  BY <1>1, <1>2 DEF DiskInv, ViewFollows, LayoutListed, NewTable, SystemSteps,
     ContainersBehindBoot, ContainerThere, PlanFits

LEMMA NextDisk == DiskInv /\ [Next]_vars => DiskInv'
BY NextSafe, DisjointStep, ViewStep, LayoutListedStep, ContainersStep, ContainerStep, PlanStep
   DEF DiskInv

LEMMA DiskInvAlways == Spec => []DiskInv
BY InitDisk, NextDisk, PTL DEF Spec

\* From luksFormat on the container of the new system is not written over, not
\* cut and never listed at another start, on every machine, also while its
\* entry is deleted and created again (create_preserved_layout,
\* remove_staging_and_grow).
THEOREM ContainerKeptAlways == Spec => []ContainerKept
PROOF
<1>1. DiskInv => ContainerKept
  BY DEF DiskInv, ContainerThere, ContainerFits, ContainerKept
<1> QED
  BY <1>1, DiskInvAlways, PTL

\* While the container's entry is deleted the disk would accept the entry that
\* covers it: only a failure of the command or of the power leaves it unlisted.
THEOREM ContainerRelistableAlways == Spec => []ContainerRelistable
PROOF
<1>1. ASSUME DiskInv PROVE ContainerRelistable
  <2> SUFFICES ASSUME pc = "new_crypt"
               PROVE  \E e \in GrownEntries, v \in vols : v.tag = "crypt" /\ e.lo = v.lo /\ v.hi <= e.hi
    BY DEF ContainerRelistable
  <2>1. system = "bootable" /\ UsableEnd \in Int /\ TypeOK
    BY <1>1, DiskAssumption DEF DiskInv, Safe, Phases, GrowSteps, UsableEnd
  <2>2. PICK v \in vols : v.tag = "crypt" /\ v.hi <= UsableEnd
    BY <1>1, <2>1 DEF DiskInv, ContainerThere, ContainerFits
  <2>3. v.lo = BootEntry.hi /\ v.lo < v.hi /\ v.lo \in Nat /\ v.hi \in Nat
    BY <1>1, <2>1, <2>2 DEF DiskInv, ContainersBehindBoot, Disjoint, TypeOK, Volume
  <2>4. NewEntry(2, BootEntry.hi, UsableEnd) \in GrownEntries
    BY <1>1, <2>1, <2>2, <2>3, GrownEntryCovers
  <2> QED
    BY <2>2, <2>3, <2>4 DEF NewEntry
<1> QED
  BY <1>1, DiskInvAlways, PTL
-----------------------------------------------------------------------------
(* The old filesystems: machines on which the installer reads the right    *)
(* start of the partition it shrinks, and a resize2fs that survives a      *)
(* power loss.  sgdisk is given starts in MiB, so that a partition that    *)
(* starts elsewhere is moved; and a free range in front of partition 1 is  *)
(* read in its place.                                                      *)

StartsOnMiB ==
    \A h \in Hosts : \A v \in h.vols : v.type = "ext4" => parse_mib(v.lo) * MiB = v.lo

\* Up to where what lies in front of partition 1 does no harm: the first MiB on
\* another disk than the root's, and on the root's what its filesystem is given,
\* for a free range no larger than that is taken for a root too small to shrink.
FrontLimit(h) == IF h.root = 0 THEN MiB ELSE (h.used + MinRootHeadroom) * MiB

FirstStartsInFront ==
    \A h \in Hosts : \A e \in h.table : h.root \in {0, 1} /\ e.num = 1 => e.lo <= FrontLimit(h)

\* What starts on a MiB: every ext4 filesystem, the staging partition before it
\* is formatted, and the partition to shrink, which holds an ext4 filesystem.
OnMiB ==
    /\ \A v \in vols : v.type = "ext4" => parse_mib(v.lo) * MiB = v.lo
    /\ pc \in {"probe", "mkfs"} =>
          \A e \in Numbered(table, plan.number) : parse_mib(e.lo) * MiB = e.lo
    /\ pc = "shrink" =>
          \E e \in Numbered(table, plan.part), v \in vols : v.type = "ext4" /\ v.lo = e.lo

\* Partition 1 stays in front, and so does the one that takes its number.
FirstInFront ==
    host.root \in {0, 1} => \A e \in Numbered(table, 1) : e.lo <= FrontLimit(host)

\* The start the installer will read is that of the partition with the
\* filesystem, and the planner's end lies no nearer than the size it gives it.
PlanInPlace ==
    pc \in {"verify", "resize", "shrink"} /\ plan.kind = "shrink-ext4" =>
        \A e \in Numbered(table, plan.part), v \in vols, r \in FirstRow(table, plan.part) :
            v.type = "ext4" /\ v.lo = e.lo =>
                parse_mib(r.lo) * MiB = e.lo /\ parse_mib(r.lo) + plan.target <= plan.end

\* What is on the disk of a filesystem b that the attempt found there.
KeptAs(b, v, t) ==
    /\ v.tag = b.tag /\ v.num = b.num /\ v.lo = b.lo /\ v.used = b.used
    /\ v.hi < b.hi => v.lo + v.used * MiB <= v.hi
    /\ Listed(t, v)

\* No filesystem the attempt found has the number of the staging partition, so
\* that with nothing to delete there is nothing to lose either.
NothingToLose ==
    /\ pc \in StagingSteps \cup {"wipe"} => \A b \in base : b.num # plan.number
    /\ pc = "wipe" /\ ~erased => toWipe = Numbers(table) \ {plan.number}
    /\ ~erased /\ pc \in (LayoutSteps \cup SystemSteps \cup GrowSteps) \ {"wipe"} => base = {}

\* Every attempt starts from a system that boots.
RootKept ==
    /\ ~erased => host.root = 0 \/ \E b \in base : b.tag = "old" /\ b.num = host.root
    /\ pc = "host" => OldBoots
    /\ pc = "dead" => erased

KeepInv ==
    /\ DiskInv
    /\ OnMiB
    /\ FirstInFront
    /\ PlanInPlace
    /\ VolumesKept
    /\ NothingToLose
    /\ RootKept

\* The staging partition is created at a whole MiB.
LEMMA StagingOnMiB ==
    ASSUME TypeOK, NEW e \in StagingEntries
    PROVE  e.num = plan.number /\ e.num \notin Numbers(table) /\ parse_mib(e.lo) * MiB = e.lo
PROOF
<1>1. PICK start \in end_free_start_mib(table, plan.size) :
         e = NewEntry(plan.number, start * MiB, (start + plan.size) * MiB)
  BY DEF StagingEntries
<1>2. start \in Nat
  BY StartIsNat
<1>3. e.num \notin Numbers(table)
  BY DEF StagingEntries, Accepts
<1> QED
  BY <1>1, <1>2, <1>3, WholeMiB DEF NewEntry

\* A filesystem that is given another end keeps its start and its type.
LEMMA RewrittenOnMiB ==
    ASSUME OnMiB, NEW v \in vols, NEW hi, vols \subseteq Volume
    PROVE  \A w \in Rewritten(v, hi) : w.type = "ext4" => parse_mib(w.lo) * MiB = w.lo
PROOF
<1>1. [v EXCEPT !.hi = hi].lo = v.lo /\ [v EXCEPT !.hi = hi].type = v.type
  BY DEF Volume
<1> QED
  BY <1>1 DEF OnMiB, Rewritten

LEMMA OnMiBStep == DiskInv /\ OnMiB /\ [Next]_vars => OnMiB'
PROOF
<1> SUFFICES ASSUME DiskInv, OnMiB, [Next]_vars PROVE OnMiB'
  OBVIOUS
<1>1. TypeOK /\ WellFormed(table) /\ vols \subseteq Volume
  BY DEF DiskInv, Safe, NodesKept, TypeOK
<1>2. \A v \in vols' : v.type = "ext4" => parse_mib(v.lo) * MiB = v.lo
  <2>1. CASE ResizeFilesystem \/ Grow
    BY <1>1, <2>1, RewrittenOnMiB DEF ResizeFilesystem, ToResize, Grow
  <2>2. CASE FormatStaging
    <3>1. PICK e \in Numbered(view, plan.number) :
             vols' = Spared(e) \cup {NewVolume("staging", e, "ext4")}
      BY <2>2 DEF FormatStaging
    <3>2. parse_mib(e.lo) * MiB = e.lo
      BY <2>2, <3>1 DEF FormatStaging, Goto, DiskInv, ViewFollows, OnMiB
    <3> QED
      BY <3>1, <3>2 DEF Spared, NewVolume, OnMiB
  <2>3. CASE FormatLuks \/ FormatEsp
    BY <2>3 DEF FormatLuks, FormatEsp, Spared, NewVolume, OnMiB
  <2>4. CASE LosePower \/ UNCHANGED vols
    BY <2>4 DEF LosePower, OnMiB
  <2> QED
    BY <2>1, <2>2, <2>3, <2>4, VolumesChange
<1>3. ASSUME pc' \in {"probe", "mkfs"}, NEW e \in Numbered(table', plan'.number)
      PROVE  parse_mib(e.lo) * MiB = e.lo
  <2>1. CASE CreateStaging
    <3>1. PICK n \in StagingEntries : table' = table \cup {n} /\ plan' = plan
      BY <2>1 DEF CreateStaging, Sgdisk, attemptVars
    <3>2. e = n
      BY <1>1, <1>3, <3>1, StagingOnMiB DEF Numbered, Numbers
    <3> QED
      BY <1>1, <3>2, StagingOnMiB
  <2>2. CASE ~CreateStaging
    <3>1. ~Prepare
      BY <1>3 DEF Prepare, Goto
    <3>2. pc \in {"probe", "mkfs"} /\ table' = table /\ plan' = plan
      BY <1>3, <2>2, <3>1, ProbeFollows, PlanChanges
    <3> QED
      BY <1>3, <3>2 DEF OnMiB
  <2> QED
    BY <2>1, <2>2
<1>4. ASSUME pc' = "shrink"
      PROVE  \E e \in Numbered(table', plan'.part), v \in vols' : v.type = "ext4" /\ v.lo = e.lo
  <2>1. ~Prepare
    BY <1>4 DEF Prepare, Goto
  <2>2. /\ table' = table /\ plan' = plan
        /\ (pc' = pc /\ vols' = vols) \/ ResizeFilesystem
    BY <1>4, <2>1, PlanFollows DEF VerifyOriginalRoot
  <2>3. CASE ResizeFilesystem
    <3>1. PICK v \in ToResize : vols' = Rewritten(v, v.lo + plan.target * MiB)
      BY <2>3 DEF ResizeFilesystem
    <3>2. PICK e \in Numbered(table, plan.part) : v \in Volume /\ v.type = "ext4" /\ v.lo = e.lo
      BY <1>1, <2>3, <3>1
         DEF ResizeFilesystem, Goto, DiskInv, ViewFollows, ToResize, Resizable
    <3>3. PICK n \in vols' : n = [v EXCEPT !.hi = v.lo + plan.target * MiB]
      BY <3>1 DEF Rewritten
    <3>4. n.type = v.type /\ n.lo = v.lo
      BY <3>2, <3>3 DEF Volume
    <3> QED
      BY <2>2, <3>2, <3>4
  <2>4. CASE pc' = pc /\ vols' = vols
    BY <1>4, <2>2, <2>4 DEF OnMiB
  <2> QED
    BY <2>2, <2>3, <2>4
<1> QED
  BY <1>2, <1>3, <1>4 DEF OnMiB

-----------------------------------------------------------------------------
(* The start of the partition to shrink.                                   *)

\* The entry that is created again begins no later than the one it replaces.
LEMMA ShrunkStart ==
    ASSUME DiskInv, OnMiB, pc = "shrink", NEW n \in ShrunkEntries
    PROVE  \E e \in Numbered(table, plan.part) : n.lo <= e.lo
PROOF
<1>1. PICK e \in Numbered(table, plan.part) : parse_mib(e.lo) * MiB = e.lo
  BY DEF OnMiB
<1>2. /\ e \in table /\ e.num = plan.part /\ e.lo \in Nat /\ table \subseteq Entry
  BY DEF Numbered, DiskInv, Safe, TypeOK, Entry
<1>3. PICK r \in FirstRow(table, plan.part) : n = NewEntry(plan.part, parse_mib(r.lo) * MiB, plan.end * MiB)
  BY DEF ShrunkEntries, partition_start_mib
<1>4. r.lo \in Nat /\ r.lo <= e.lo
  <2>1. NewRow(e.num, e, FALSE) \in parted_lines(table)
    BY <1>2 DEF parted_lines
  <2>2. NewRow(e.num, e, FALSE).num = plan.part /\ NewRow(e.num, e, FALSE).lo = e.lo
    BY <1>2 DEF NewRow
  <2>3. r \in parted_lines(table) /\ r.lo <= e.lo
    BY <2>1, <2>2 DEF FirstRow
  <2> QED
    BY <1>2, <2>3, RowsType
<1>5. /\ parse_mib(r.lo) \in Nat /\ parse_mib(r.lo) * 2048 < r.lo + 2048
      /\ parse_mib(e.lo) \in Nat /\ parse_mib(e.lo) * 2048 = e.lo
  BY <1>1, <1>2, <1>4, ParseMibNat DEF MiB
<1>6. n.lo = parse_mib(r.lo) * 2048
  BY <1>3 DEF NewEntry, MiB
<1>7. n.lo <= e.lo
  BY <1>2, <1>4, <1>5, <1>6
<1> QED
  BY <1>7

LEMMA FirstInFrontStep == DiskInv /\ OnMiB /\ FirstInFront /\ [Next]_vars => FirstInFront'
PROOF
<1> SUFFICES ASSUME DiskInv, OnMiB, FirstInFront, [Next]_vars, host'.root \in {0, 1},
                    NEW e \in Numbered(table', 1)
             PROVE  e.lo <= FrontLimit(host')
  BY DEF FirstInFront
<1>1. host' = host /\ e \in table' /\ e.num = 1 /\ TypeOK
  BY PlanChanges DEF Numbered, DiskInv, Safe
<1>2. \A f \in table : f.num = 1 => f.lo <= FrontLimit(host) /\ f.lo \in Nat
  BY <1>1 DEF FirstInFront, Numbered, TypeOK, Entry
<1>3. FrontLimit(host) \in Nat /\ MiB <= FrontLimit(host)
  <2>1. host.used \in Nat
    BY <1>1, HostsAssumption DEF TypeOK
  <2> QED
    BY <2>1, HeadroomAssumption DEF FrontLimit, MiB
<1>4. CASE ShrinkPartition
  <2>1. PICK n \in ShrunkEntries : table' = Without(table, plan.part) \cup {n}
    BY <1>4 DEF ShrinkPartition, Sgdisk
  <2>2. PICK f \in Numbered(table, plan.part) : n.lo <= f.lo
    BY <1>4, ShrunkStart DEF ShrinkPartition, Goto
  <2>3. n.num = plan.part /\ n.lo \in Nat
    BY <1>1, ShrunkEntriesType DEF Entry
  <2> QED
    BY <1>1, <1>2, <1>3, <2>1, <2>2, <2>3 DEF Without, Numbered
<1>5. CASE CreateStaging
  <2>1. PICK n \in StagingEntries : table' = table \cup {n}
    BY <1>5 DEF CreateStaging, Sgdisk
  <2>2. n.num = plan.number /\ plan.number >= 3
    BY <1>1, <1>5, StagingOnMiB DEF CreateStaging, Goto, DiskInv, Safe, StagingKept, Steps, StagingSteps
  <2> QED
    BY <1>1, <1>2, <2>1, <2>2
<1>6. CASE CreatePartitions
  <2>1. PICK n \in CryptEntries : table' = table \cup {BootEntry, n}
    BY <1>6 DEF CreatePartitions, Sgdisk
  <2>2. n.num = 2 /\ BootEntry.lo = MiB
    BY <1>1, CryptEntriesType, BootEntryEnds
  <2> QED
    BY <1>1, <1>2, <1>3, <2>1, <2>2
<1>7. CASE RecreateCrypt
  <2>1. PICK n \in GrownEntries : table' = table \cup {n}
    BY <1>7 DEF RecreateCrypt, Sgdisk
  <2>2. n.num = 2
    BY <1>1, GrownEntriesType
  <2> QED
    BY <1>1, <1>2, <2>1, <2>2
<1>8. CASE WipePartition \/ DropStaging \/ DropCrypt \/ UNCHANGED table
  <2>1. table' \subseteq table
    BY <1>8 DEF WipePartition, DropStaging, DropCrypt, Sgdisk, Without
  <2> QED
    BY <1>1, <1>2, <2>1
<1> QED
  BY <1>4, <1>5, <1>6, <1>7, <1>8, TableChanges

\* The row that is read for a number begins no later than its entry, and where
\* it is no free range it is that entry's.
LEMMA RowOfEntry ==
    ASSUME WellFormed(table), NEW e \in table, NEW r \in FirstRow(table, e.num)
    PROVE  /\ r.lo \in Nat /\ r.hi \in Nat /\ FirstUsable <= r.lo /\ r.lo <= e.lo
           /\ r.lo = e.lo \/ (r.free /\ e.num = 1 /\ r.lo < r.hi /\ r.hi <= e.lo)
PROOF
<1>1. /\ table \subseteq Entry /\ r \in parted_lines(table) /\ r.num = e.num
      /\ \A f \in table : f.lo \in Nat /\ f.hi \in Nat /\ FirstUsable <= f.lo /\ f.lo < f.hi
      /\ \A f \in table : f.num = e.num => f = e
  BY DEF FirstRow, WellFormed, Entry
<1>2. r.lo <= e.lo
  <2>1. NewRow(e.num, e, FALSE) \in parted_lines(table)
    BY DEF parted_lines
  <2>2. NewRow(e.num, e, FALSE).num = e.num /\ NewRow(e.num, e, FALSE).lo = e.lo
    BY DEF NewRow
  <2> QED
    BY <2>1, <2>2 DEF FirstRow
<1>3. r.lo \in Nat /\ r.hi \in Nat
  BY <1>1, RowsType
<1>4. CASE ~r.free
  <2>1. \E f \in table : r.num = f.num /\ r.lo = f.lo
    BY <1>1, <1>4, RowsType
  <2> QED
    BY <1>1, <1>2, <1>3, <2>1
<1>5. CASE r.free
  <2>1. /\ r.num = 1 /\ r.lo < r.hi /\ r.lo \in {FirstUsable} \cup {f.hi : f \in table}
        /\ e.hi <= r.lo \/ r.hi <= e.lo
    BY <1>1, <1>5, RowsType
  <2>2. FirstUsable <= r.lo
    BY <1>1, <2>1 DEF FirstUsable
  <2> QED
    BY <1>1, <1>2, <1>3, <1>5, <2>1, <2>2
<1> QED
  BY <1>4, <1>5

\* Where the numbers of a shrink come from.
LEMMA ShrinkBounds ==
    ASSUME TypeOK, NEW src \in Sources, NEW p \in Plans(src), p.kind = "shrink-ext4"
    PROVE  /\ p.target \in Nat
           /\ \/ /\ host.root # 0 /\ p.part = host.root
                 /\ p.target = host.used + MinRootHeadroom
                 /\ \E f \in FirstRow(table, host.root) :
                       p.end = parse_mib(f.lo) + p.target /\ p.target < parse_mib(f.hi - f.lo)
              \/ /\ host.root = 0
                 /\ \E f \in final_partition(table) :
                       p.part = f.num /\ p.end = parse_mib(f.lo) + p.target
PROOF
<1> DEFINE required == staging_requirement_mib(host.used, src)
<1>1. host.used \in Nat /\ p \notin staging_from_existing_free(table, required)
  BY HostsAssumption DEF TypeOK, staging_from_existing_free
<1>2. ASSUME NEW n, NEW b, NEW u, NEW type, NEW q \in ShrinkStaging(table, required, n, b, u, type)
      PROVE  /\ q.part = n /\ q.target = u + MinRootHeadroom /\ q.end = b.start + q.target
             /\ q.target < b.size
  BY DEF ShrinkStaging
<1>3. CASE host.root # 0
  <2>1. PICK b \in partition_bounds(table, host.root), v \in vols :
           p \in ShrinkStaging(table, required, host.root, b, host.used, v.type)
    BY <1>1, <1>3 DEF Plans, choose_root_disk_staging
  <2>2. PICK f \in FirstRow(table, host.root) :
           b = [start |-> parse_mib(f.lo), size |-> parse_mib(f.hi - f.lo)]
    BY DEF partition_bounds
  <2> QED
    BY <1>1, <1>2, <1>3, <2>1, <2>2, HeadroomAssumption
<1>4. CASE host.root = 0
  <2>1. PICK f \in final_partition(table), v \in vols :
           p \in ShrinkStaging(table, required, f.num,
                    [start |-> parse_mib(f.lo), size |-> parse_mib(f.hi - f.lo)], v.used, v.type)
    BY <1>1, <1>4 DEF Plans, choose_non_root_staging, VolumesAt
  <2>2. v.used \in Nat
    BY DEF TypeOK, Volume
  <2> QED
    BY <1>2, <1>4, <2>1, <2>2, HeadroomAssumption
<1> QED
  BY <1>3, <1>4

\* A partition of the first MiB that begins on a MiB begins there.
LEMMA FirstMib ==
    ASSUME NEW lo \in Nat, FirstUsable <= lo, lo <= MiB
    PROVE  parse_mib(lo) = 1
PROOF
<1>1. parse_mib(lo) \in Nat /\ parse_mib(lo) >= 1 /\ parse_mib(lo) * 2048 < lo + 2048
  BY ParseMibNat DEF MiB
<1> QED
  BY <1>1 DEF MiB

\* On a disk whose partition 1 stands in front the planner and the installer read
\* the start of the partition, and not that of a free range.
LEMMA PlansInPlace ==
    ASSUME TypeOK, WellFormed(table), FirstInFront,
           NEW src \in Sources, NEW p \in Plans(src), p.kind = "shrink-ext4",
           NEW e \in Numbered(table, p.part), parse_mib(e.lo) * MiB = e.lo,
           NEW r \in FirstRow(table, p.part)
    PROVE  parse_mib(r.lo) * MiB = e.lo /\ parse_mib(r.lo) + p.target <= p.end
PROOF
<1>1. /\ e \in table /\ e.num = p.part /\ e.lo \in Nat
      /\ FirstUsable <= r.lo /\ r.lo <= e.lo /\ r.lo \in Nat /\ r.hi \in Nat
      /\ r.lo = e.lo \/ (r.free /\ e.num = 1 /\ r.lo < r.hi /\ r.hi <= e.lo)
  BY RowOfEntry DEF Numbered, WellFormed, Entry
<1>2. parse_mib(r.lo) \in Nat
  BY <1>1, ParseMibNat
<1>3. CASE host.root # 0
  <2>1. PICK f \in FirstRow(table, host.root) :
           p.end = parse_mib(f.lo) + p.target /\ p.target < parse_mib(f.hi - f.lo)
    BY <1>3, ShrinkBounds
  <2>2. p.part = host.root /\ p.target = host.used + MinRootHeadroom /\ p.target \in Nat
    BY <1>3, ShrinkBounds
  <2>3. /\ f.lo \in Nat /\ f.hi \in Nat /\ FirstUsable <= f.lo /\ f.lo <= e.lo
        /\ f.lo = e.lo \/ (f.free /\ e.num = 1 /\ f.lo < f.hi /\ f.hi <= e.lo)
    BY <1>1, <2>2, RowOfEntry
  <2>4. f.lo = e.lo
    <3> SUFFICES ASSUME f.lo # e.lo PROVE FALSE
      OBVIOUS
    <3>1. e.num = 1 /\ f.lo < f.hi /\ f.hi <= e.lo
      BY <2>3
    <3>2. e.lo <= p.target * 2048
      BY <1>1, <1>3, <2>2, <3>1 DEF FirstInFront, FrontLimit, MiB
    <3>3. f.hi - f.lo \in Nat
      BY <2>3, <3>1
    <3>4. parse_mib(f.hi - f.lo) \in Nat /\ parse_mib(f.hi - f.lo) * 2048 < (f.hi - f.lo) + 2048
      BY <3>3, ParseMibNat DEF MiB
    <3>5. parse_mib(f.hi - f.lo) * 2048 < p.target * 2048 + 2048
      BY <1>1, <2>2, <2>3, <3>1, <3>2, <3>4 DEF FirstUsable
    <3> QED
      BY <2>1, <2>2, <3>4, <3>5
  <2>5. r.lo = f.lo
    <3>1. r \in parted_lines(table) /\ f \in parted_lines(table) /\ r.num = f.num
      BY <2>2 DEF FirstRow
    <3>2. r.lo <= f.lo /\ f.lo <= r.lo
      BY <2>2, <3>1 DEF FirstRow
    <3> QED
      BY <1>1, <2>3, <3>2
  <2> QED
    BY <1>2, <2>1, <2>2, <2>4, <2>5
<1>4. CASE host.root = 0
  <2>1. PICK f \in final_partition(table) : p.part = f.num /\ p.end = parse_mib(f.lo) + p.target
    BY <1>4, ShrinkBounds
  <2>2. p.target \in Nat
    BY ShrinkBounds
  <2>3. f \in parted_lines(table) /\ table \subseteq Entry /\ f.lo \in Nat
    BY RowsType DEF final_partition, WellFormed
  <2>4. CASE e.num # 1
    <3>1. ~f.free
      BY <1>1, <2>1, <2>3, <2>4, RowsType
    <3>2. PICK g \in table : f.num = g.num /\ f.lo = g.lo
      BY <2>3, <3>1, RowsType
    <3>3. g = e
      BY <1>1, <2>1, <3>2 DEF WellFormed
    <3> QED
      BY <1>1, <1>2, <2>1, <2>2, <2>4, <3>2, <3>3
  <2>5. CASE e.num = 1
    <3>1. e.lo <= MiB
      BY <1>1, <1>4, <2>5 DEF FirstInFront, FrontLimit, Numbered
    <3>2. parse_mib(r.lo) = 1 /\ parse_mib(e.lo) = 1
      BY <1>1, <3>1, FirstMib DEF FirstUsable, MiB
    <3>3. FirstUsable <= f.lo
      BY <2>3, RowsType DEF WellFormed, FirstUsable, Entry
    <3>4. parse_mib(f.lo) \in Nat /\ parse_mib(f.lo) >= 1
      BY <2>3, <3>3, ParseMibNat
    <3> QED
      BY <2>1, <2>2, <3>2, <3>4
  <2> QED
    BY <2>4, <2>5
<1> QED
  BY <1>3, <1>4 DEF TypeOK

LEMMA PlanInPlaceStep ==
    DiskInv /\ OnMiB /\ FirstInFront /\ PlanInPlace /\ [Next]_vars => PlanInPlace'
PROOF
<1> SUFFICES ASSUME DiskInv, OnMiB, FirstInFront, PlanInPlace, [Next]_vars,
                    pc' \in {"verify", "resize", "shrink"}, plan'.kind = "shrink-ext4",
                    NEW e \in Numbered(table', plan'.part), NEW v \in vols',
                    NEW r \in FirstRow(table', plan'.part), v.type = "ext4", v.lo = e.lo
             PROVE  parse_mib(r.lo) * MiB = e.lo /\ parse_mib(r.lo) + plan'.target <= plan'.end
  BY DEF PlanInPlace, FirstRow, parted_lines, Gaps
<1>1. TypeOK /\ WellFormed(table) /\ vols \subseteq Volume
  BY DEF DiskInv, Safe, NodesKept, TypeOK
<1>2. CASE Prepare
  <2>1. PICK src \in Sources : plan' \in Plans(src)
    BY <1>2 DEF Prepare
  <2>2. table' = table /\ vols' = vols
    BY <1>2 DEF Prepare
  <2>3. parse_mib(e.lo) * MiB = e.lo
    BY <2>2 DEF OnMiB
  <2> QED
    BY <1>1, <2>1, <2>2, <2>3, PlansInPlace
<1>3. CASE ~Prepare
  <2>1. /\ pc \in {"verify", "resize", "shrink"} /\ table' = table /\ plan' = plan
        /\ vols' = vols \/ ResizeFilesystem
    BY <1>3, PlanFollows DEF VerifyOriginalRoot, diskVars
  <2>2. \E w \in vols : w.type = "ext4" /\ w.lo = e.lo
    <3>1. CASE ResizeFilesystem
      <4>1. PICK w \in ToResize : vols' = Rewritten(w, w.lo + plan.target * MiB)
        BY <3>1 DEF ResizeFilesystem
      <4>2. v \in vols \/ v = [w EXCEPT !.hi = w.lo + plan.target * MiB]
        BY <4>1 DEF Rewritten
      <4>3. w \in vols /\ w \in Volume
        BY <1>1, <4>1 DEF ToResize
      <4> QED
        BY <4>2, <4>3 DEF Volume
    <3> QED
      BY <2>1, <3>1
  <2> QED
    BY <2>1, <2>2 DEF PlanInPlace
<1> QED
  BY <1>2, <1>3

-----------------------------------------------------------------------------
(* What the steps before the erasure do to a kept filesystem.              *)

\* A volume is listed by one entry, and starts in no other.
LEMMA ListedHere ==
    ASSUME TypeOK, WellFormed(table), NEW v \in vols, v.lo < v.hi, Listed(table, v),
           NEW e \in table, v.lo = e.lo
    PROVE  v.num = e.num /\ v.hi <= e.hi
PROOF
<1>1. PICK f \in table : f.num = v.num /\ f.lo = v.lo /\ v.hi <= f.hi
  BY DEF Listed
<1>2. f = e
  <2> SUFFICES ASSUME f # e PROVE FALSE
    OBVIOUS
  <2>1. Apart(f, e) /\ f.lo < f.hi /\ e.lo < e.hi /\ f \in Entry /\ e \in Entry
    BY <1>1 DEF WellFormed
  <2> QED
    BY <1>1, <2>1 DEF Apart, Entry
<1> QED
  BY <1>1, <1>2

\* resize2fs shrinks one filesystem to a size that holds its data, and writes
\* over no other.
LEMMA ResizeKeeps ==
    ASSUME DiskInv, ResizeFilesystem, NEW b, NEW v \in vols, KeptAs(b, v, table)
    PROVE  \E w \in vols' : KeptAs(b, w, table)
PROOF
<1>1. PICK r \in ToResize : vols' = Rewritten(r, r.lo + plan.target * MiB)
  BY DEF ResizeFilesystem
<1>2. view = table /\ WellFormed(table) /\ TypeOK /\ Disjoint(vols)
  BY DEF ResizeFilesystem, Goto, DiskInv, ViewFollows, Safe, NodesKept
<1>3. PICK e \in table : Resizable(r, e)
  BY <1>1, <1>2 DEF ToResize, Numbered
<1>4. /\ r \in vols /\ r.lo = e.lo /\ r.used <= plan.target
      /\ r.lo < r.lo + plan.target * MiB /\ r.lo + plan.target * MiB <= e.hi
  BY <1>1, <1>3, ResizedIsNotEmpty DEF ToResize, Resizable
<1>5. /\ r \in Volume /\ v \in Volume /\ e \in Entry /\ plan.target \in Nat
      /\ Listed(table, v) /\ v.lo < v.hi
  BY <1>2, <1>4 DEF TypeOK, Strategy, WellFormed, KeptAs, Disjoint
<1>6. PICK n \in vols' : /\ n = [r EXCEPT !.hi = r.lo + plan.target * MiB]
  BY <1>1 DEF Rewritten
<1>7. /\ n.tag = r.tag /\ n.num = r.num /\ n.lo = r.lo /\ n.used = r.used
      /\ n.hi = r.lo + plan.target * MiB
  BY <1>5, <1>6 DEF Volume
<1>8. CASE v = r
  <2>1. v.num = e.num
    BY <1>2, <1>4, <1>5, <1>8, ListedHere
  <2>2. Listed(table, n)
    BY <1>4, <1>7, <1>8, <2>1 DEF Listed
  <2>3. n.lo + n.used * MiB <= n.hi
    BY <1>4, <1>5, <1>7 DEF Volume, MiB
  <2> QED
    BY <1>7, <1>8, <2>2, <2>3 DEF KeptAs
<1>9. CASE v # r
  <2>1. PICK f \in table : f.num = v.num /\ f.lo = v.lo /\ v.hi <= f.hi
    BY <1>5 DEF Listed
  <2>2. Apart(v, r) /\ r.lo < r.hi
    BY <1>2, <1>4, <1>9 DEF Disjoint
  <2>3. f # e
    BY <1>4, <1>5, <2>1, <2>2 DEF Apart, Volume
  <2>4. Apart(f, e) /\ f \in Entry
    BY <1>2, <2>1, <2>3 DEF WellFormed
  <2>5. n.lo = e.lo /\ n.hi <= e.hi /\ n.hi \in Int
    BY <1>4, <1>5, <1>7 DEF Volume, MiB
  <2>6. Apart(v, n)
    BY <1>5, <2>1, <2>4, <2>5 DEF Apart, Volume, Entry
  <2>7. v \in vols'
    BY <1>1, <1>6, <1>9, <2>6 DEF Rewritten
  <2> QED
    BY <2>7
<1> QED
  BY <1>8, <1>9

\* The shrunk partition starts where it did and still holds its filesystem.
LEMMA ShrinkKeeps ==
    ASSUME DiskInv, OnMiB, PlanInPlace, ShrinkPartition,
           NEW b, NEW v \in vols, KeptAs(b, v, table)
    PROVE  KeptAs(b, v, table')
PROOF
<1>1. PICK n \in ShrunkEntries : table' = Without(table, plan.part) \cup {n}
  BY DEF ShrinkPartition, Sgdisk
<1>2. PICK r \in FirstRow(table, plan.part) :
         n = NewEntry(plan.part, parse_mib(r.lo) * MiB, plan.end * MiB)
  BY <1>1 DEF ShrunkEntries, partition_start_mib
<1>3. PICK f \in table : f.num = v.num /\ f.lo = v.lo /\ v.hi <= f.hi
  BY DEF KeptAs, Listed
<1>4. CASE f.num # plan.part
  BY <1>1, <1>3, <1>4 DEF KeptAs, Listed, Without
<1>5. CASE f.num = plan.part
  <2>1. /\ TypeOK /\ WellFormed(table) /\ plan.kind = "shrink-ext4" /\ pc = "shrink"
        /\ f \in Entry /\ plan.target \in Nat /\ plan.end \in Nat /\ v \in Volume
    BY DEF ShrinkPartition, Goto, DiskInv, PlanFits, Safe, NodesKept, TypeOK, Strategy, WellFormed
  <2>2. PICK e \in Numbered(table, plan.part), w \in vols : w.type = "ext4" /\ w.lo = e.lo
    BY <2>1 DEF OnMiB
  <2>3. f = e
    BY <1>5, <2>1 DEF WellFormed, Numbered
  <2>4. parse_mib(r.lo) * MiB = f.lo /\ parse_mib(r.lo) + plan.target <= plan.end
    BY <2>1, <2>2, <2>3 DEF PlanInPlace
  <2>5. v.hi <= f.lo + plan.target * MiB
    BY <1>3, <1>5, <2>1 DEF DiskInv, PlanFits, Numbered
  <2>6. n.num = v.num /\ n.lo = v.lo /\ n.hi = plan.end * MiB
    BY <1>2, <1>3, <1>5, <2>4 DEF NewEntry
  <2>7. parse_mib(r.lo) \in Nat
    <3>1. NewRow(f.num, f, FALSE) \in parted_lines(table) /\ r \in FirstRow(table, f.num)
      BY <1>5 DEF parted_lines
    <3>2. r.lo \in Nat
      BY <2>1, <3>1, RowOfEntry
    <3> QED
      BY <3>2, ParseMibNat
  <2>8. f.lo + plan.target * MiB <= plan.end * MiB
    BY <2>1, <2>4, <2>7 DEF MiB
  <2>9. v.hi <= n.hi
    BY <2>1, <2>5, <2>6, <2>8 DEF Entry, Volume, MiB
  <2> QED
    BY <1>1, <2>6, <2>9 DEF KeptAs, Listed
<1> QED
  BY <1>4, <1>5

\* mkfs is given the staging partition, where no kept filesystem lies.
LEMMA FormatStagingKeeps ==
    ASSUME DiskInv, FormatStaging, NEW b, NEW v \in vols, KeptAs(b, v, table),
           b.num # plan.number
    PROVE  v \in vols'
PROOF
<1>1. PICK e \in Numbered(view, plan.number) :
         vols' = Spared(e) \cup {NewVolume("staging", e, "ext4")}
  BY DEF FormatStaging
<1>2. e \in table /\ e.num = plan.number /\ WellFormed(table) /\ v \in Volume
  BY <1>1 DEF FormatStaging, Goto, DiskInv, ViewFollows, Safe, NodesKept, TypeOK, Numbered
<1>3. Apart(v, e)
  BY <1>2, ListedApart DEF KeptAs, Volume
<1> QED
  BY <1>1, <1>3 DEF Spared

\* The steps that bring a history forward.
LEMMA HistoryFollows ==
    ASSUME [Next]_vars, ~Prepare
    PROVE  UNCHANGED base /\ (~erased' => ~erased /\ ~WipePartition)
BY DEF Next, Run, StageStep, LayoutStep, SystemStep, VerifyOriginalRoot,
       ResizeFilesystem, ShrinkPartition, UpdateShrunkNode, CreateStaging, ProbeStaging,
       FormatStaging, MountStaging, Download, DownloadMismatch, MountOldRoot, PackOldRoot,
       PackFails, UnmountOldRoot, RecheckArchive, WipePartition, WipeDone, CreatePartitions,
       UpdateNodes, FormatLuks, CreateVolumes, FormatEsp, Extract, Configure, InstallBootloader,
       UnmountStaging, DropStaging, DropCrypt, RecreateCrypt, UpdateCryptNode, DeferGrow, Grow,
       Abort, LosePower, Reboot, Goto, vars, noteVars, attemptVars

LEMMA VolumesStep ==
    ASSUME ~TornResize, KeepInv, [Next]_vars
    PROVE  VolumesKept'
PROOF
<1> SUFFICES ASSUME ~erased', NEW b \in base'
             PROVE  \E v \in vols' : KeptAs(b, v, table')
  BY DEF VolumesKept, KeptAs, Listed
<1>1. CASE Prepare
  <2>1. b \in vols /\ Listed(table, b) /\ vols' = vols /\ table' = table
    BY <1>1 DEF Prepare
  <2>2. b \in Volume
    BY <2>1 DEF KeepInv, DiskInv, Safe, TypeOK
  <2> QED
    BY <2>1, <2>2 DEF KeptAs, Volume
<1>2. CASE ~Prepare
  <2>1. b \in base /\ ~erased /\ ~WipePartition
    BY <1>2, HistoryFollows
  <2>2. PICK v \in vols : KeptAs(b, v, table)
    BY <2>1 DEF KeepInv, VolumesKept, KeptAs
  <2>3. DiskInv /\ OnMiB /\ PlanInPlace
    BY DEF KeepInv
  <2>4. pc \in StagingSteps \cup {"wipe"} => b.num # plan.number
    BY <2>1 DEF KeepInv, NothingToLose
  <2>5. pc \in StagingSteps \cup {"wipe"} \cup Rest
    BY <2>1, <2>3 DEF KeepInv, NothingToLose, DiskInv, Safe, TypeOK, Steps
  <2>6. CASE ResizeFilesystem
    BY <2>2, <2>3, <2>6, ResizeKeeps DEF ResizeFilesystem
  <2>7. CASE ShrinkPartition
    BY <2>2, <2>3, <2>7, ShrinkKeeps DEF ShrinkPartition
  <2>8. CASE FormatStaging
    <3>1. b.num # plan.number /\ table' = table
      BY <2>4, <2>8 DEF FormatStaging, Goto, StagingSteps
    <3> QED
      BY <2>2, <2>3, <2>8, <3>1, FormatStagingKeeps
  <2>9. CASE ~ResizeFilesystem /\ ~ShrinkPartition /\ ~FormatStaging
    <3>1. vols' = vols
      BY <2>5, <2>9, VolumesChange
         DEF FormatLuks, FormatEsp, Grow, LosePower, Goto, StagingSteps, Rest
    <3>2. table \subseteq table'
      BY <2>1, <2>5, <2>9, TableChanges
         DEF CreateStaging, CreatePartitions, DropStaging, DropCrypt, RecreateCrypt, Sgdisk,
             Goto, StagingSteps, Rest
    <3> QED
      BY <2>2, <3>1, <3>2 DEF KeptAs, Listed
  <2> QED
    BY <2>6, <2>7, <2>8, <2>9
<1> QED
  BY <1>1, <1>2
\* With every filesystem kept and nothing but staging to leave alone, an
\* attempt that has nothing to delete found no filesystem.
LEMMA NothingToDelete ==
    ASSUME KeepInv, pc = "wipe", ~erased, toWipe = {}
    PROVE  base = {}
PROOF
<1> SUFFICES ASSUME NEW b \in base PROVE FALSE
  OBVIOUS
<1>1. b.num # plan.number /\ Numbers(table) \subseteq {plan.number}
  BY DEF KeepInv, NothingToLose
<1>2. PICK v \in vols : v.num = b.num /\ Listed(table, v)
  BY DEF KeepInv, VolumesKept
<1> QED
  BY <1>1, <1>2 DEF Listed, Numbers

LEMMA NothingToLoseStep ==
    ASSUME KeepInv, [Next]_vars
    PROVE  NothingToLose'
PROOF
<1>0. DiskInv /\ NothingToLose
  BY DEF KeepInv
<1> USE DEF Goto, diskVars, noteVars, attemptVars, NothingToLose, StagingSteps, LayoutSteps,
            SystemSteps, GrowSteps
<1>1. CASE Prepare
  <2>1. PICK src \in Sources : plan' \in Plans(src)
    BY <1>1 DEF Prepare
  <2>2. plan'.number \notin Numbers(table)
    BY <1>0, <2>1, PlansFit DEF DiskInv, Safe
  <2>3. \A b \in base' : b.num \in Numbers(table)
    BY <1>1 DEF Prepare, Listed, Numbers
  <2> QED
    BY <1>1, <2>2, <2>3 DEF Prepare
<1>2. CASE VerifyOriginalRoot \/ ResizeFilesystem \/ ShrinkPartition \/ UpdateShrunkNode
  BY <1>0, <1>2 DEF VerifyOriginalRoot, ResizeFilesystem, ShrinkPartition, UpdateShrunkNode
<1>3. CASE CreateStaging \/ ProbeStaging \/ FormatStaging \/ MountStaging
  BY <1>0, <1>3 DEF CreateStaging, ProbeStaging, FormatStaging, MountStaging
<1>4. CASE \/ Download \/ DownloadMismatch \/ MountOldRoot
           \/ PackOldRoot \/ PackFails \/ UnmountOldRoot
  BY <1>0, <1>4 DEF Download, DownloadMismatch, MountOldRoot, PackOldRoot, PackFails, UnmountOldRoot
<1>5. CASE RecheckArchive
  BY <1>0, <1>5 DEF RecheckArchive, DiskInv, ViewFollows
<1>6. CASE WipePartition
  BY <1>0, <1>6 DEF WipePartition
<1>7. CASE WipeDone
  BY <1>0, <1>7, NothingToDelete DEF WipeDone
<1>8. CASE LayoutStep /\ ~WipePartition /\ ~WipeDone
  BY <1>0, <1>8 DEF LayoutStep, CreatePartitions, UpdateNodes, FormatLuks, CreateVolumes, FormatEsp
<1>9. CASE SystemStep
  BY <1>0, <1>9 DEF SystemStep, Extract, Configure, InstallBootloader, UnmountStaging,
     DropStaging, DropCrypt, RecreateCrypt, UpdateCryptNode, DeferGrow, Grow
<1>10. CASE Abort \/ LosePower \/ Reboot
  BY <1>0, <1>10 DEF Abort, LosePower, Reboot
<1>11. CASE UNCHANGED vars
  BY <1>0, <1>11 DEF vars
<1> QED
  BY <1>1, <1>2, <1>3, <1>4, <1>5, <1>6, <1>7, <1>8, <1>9, <1>10, <1>11
     DEF Next, Run, StageStep

\* Before the first deletion the old system boots.
LEMMA OldKept ==
    ASSUME KeepInv, ~erased
    PROVE  OldBoots
PROOF
<1> SUFFICES ASSUME host.root # 0 PROVE OldBoots
  BY DEF OldBoots
<1>1. PICK b \in base : b.tag = "old" /\ b.num = host.root
  BY DEF KeepInv, RootKept
<1>2. PICK v \in vols : v.tag = b.tag /\ v.num = b.num /\ Listed(table, v)
  BY DEF KeepInv, VolumesKept
<1> QED
  BY <1>1, <1>2 DEF OldBoots

\* The steps that reach the host again, or nothing.
LEMMA RestFollows ==
    ASSUME [Next]_vars, ~Prepare, ~Reboot, pc' \in {"host", "dead"}
    PROVE  pc' = pc /\ UNCHANGED <<table, vols, erased>>
BY DEF Next, Run, StageStep, LayoutStep, SystemStep, VerifyOriginalRoot,
       ResizeFilesystem, ShrinkPartition, UpdateShrunkNode, CreateStaging, ProbeStaging,
       FormatStaging, MountStaging, Download, DownloadMismatch, MountOldRoot, PackOldRoot,
       PackFails, UnmountOldRoot, RecheckArchive, WipePartition, WipeDone, CreatePartitions,
       UpdateNodes, FormatLuks, CreateVolumes, FormatEsp, Extract, Configure, InstallBootloader,
       UnmountStaging, DropStaging, DropCrypt, RecreateCrypt, UpdateCryptNode, DeferGrow, Grow,
       Abort, LosePower, Goto, vars

LEMMA RootKeptStep ==
    ASSUME KeepInv, [Next]_vars
    PROVE  RootKept'
PROOF
<1>0. RootKept /\ host' = host
  BY PlanChanges DEF KeepInv
<1>1. CASE Prepare
  <2>1. OldBoots /\ pc' = "verify" /\ base' = {v \in vols : Listed(table, v)}
    BY <1>0, <1>1 DEF Prepare, Goto, RootKept
  <2> QED
    BY <1>0, <2>1 DEF RootKept, OldBoots
<1>2. CASE Reboot
  <2>1. /\ UNCHANGED <<table, vols, base, erased>>
        /\ pc' = "host" => OldBoots
        /\ pc' = "dead" => ~OldBoots
    BY <1>2 DEF Reboot, noteVars, attemptVars
  <2>2. OldBoots' = OldBoots
    BY <1>0, <2>1 DEF OldBoots, Listed
  <2>3. pc' = "dead" => erased
    BY <2>1, OldKept
  <2> QED
    BY <1>0, <2>1, <2>2, <2>3 DEF RootKept
<1>3. CASE ~Prepare /\ ~Reboot
  <2>1. base' = base /\ (~erased' => ~erased)
    BY <1>3, HistoryFollows
  <2>2. pc' \in {"host", "dead"} => pc' = pc /\ UNCHANGED <<table, vols, erased>>
    BY <1>3, RestFollows
  <2>3. pc' = "host" => OldBoots'
    BY <1>0, <2>2 DEF RootKept, OldBoots, Listed
  <2> QED
    BY <1>0, <2>1, <2>2, <2>3 DEF RootKept
<1> QED
  BY <1>1, <1>2, <1>3

LEMMA InitKeep ==
    ASSUME StartsOnMiB, FirstStartsInFront, Init
    PROVE  KeepInv
PROOF
<1>1. /\ host \in Hosts /\ table = host.table /\ vols = host.vols /\ base = host.vols
      /\ pc = "host"
  BY DEF Init
<1>2. /\ vols \subseteq Volume
      /\ \A v \in vols : v.tag = "old" /\ Listed(table, v)
      /\ host.root # 0 => \E v \in vols : v.num = host.root
  BY <1>1, HostsAssumption
<1>3. DiskInv /\ OnMiB /\ PlanInPlace
  BY <1>1, InitDisk DEF Init, StartsOnMiB, OnMiB, PlanInPlace
<1>4. FirstInFront
  BY <1>1 DEF FirstStartsInFront, FirstInFront, Numbered
<1>5. VolumesKept
  BY <1>1, <1>2 DEF VolumesKept, Volume
<1>6. RootKept
  BY <1>1, <1>2 DEF RootKept, OldBoots
<1> QED
  BY <1>1, <1>3, <1>4, <1>5, <1>6 DEF KeepInv, NothingToLose, StagingSteps, LayoutSteps,
     SystemSteps, GrowSteps

LEMMA NextKeep ==
    ASSUME ~TornResize, KeepInv, [Next]_vars
    PROVE  KeepInv'
BY NextDisk, OnMiBStep, FirstInFrontStep, PlanInPlaceStep, VolumesStep, NothingToLoseStep, RootKeptStep
   DEF KeepInv

LEMMA KeepInvAlways ==
    ASSUME ~TornResize, StartsOnMiB, FirstStartsInFront
    PROVE  Spec => []KeepInv
PROOF
<1>1. Init => KeepInv
  BY InitKeep
<1>2. KeepInv /\ [Next]_vars => KeepInv'
  BY NextKeep
<1> QED
  BY <1>1, <1>2, PTL DEF Spec

\* Shrinking, staging, failures and power losses before the first deletion take
\* no filesystem from the disk (create_staging_partition), on every machine
\* whose partitions start on a MiB and whose partition 1 stands in front.
THEOREM VolumesKeptAlways ==
    ASSUME ~TornResize, StartsOnMiB, FirstStartsInFront
    PROVE  Spec => []VolumesKept
PROOF
<1>1. KeepInv => VolumesKept
  BY DEF KeepInv
<1> QED
  BY <1>1, KeepInvAlways, PTL

\* A run that gives up or loses power before the first deletion brings the old
\* system back, and no such machine is left without a system before one.
THEOREM FailureBeforeErasureBootsAlways ==
    ASSUME ~TornResize, StartsOnMiB, FirstStartsInFront
    PROVE  Spec => []FailureBeforeErasureBoots
PROOF
<1>1. KeepInv => FailureBeforeErasureBoots
  BY OldKept DEF KeepInv, RootKept, FailureBeforeErasureBoots
<1> QED
  BY <1>1, KeepInvAlways, PTL
-----------------------------------------------------------------------------
(* The refinement of Custody.                                              *)

ArchiveHeld == archive = "good" /\ StagingListed

NewHeld ==
    system \in {"extracted", "configured", "bootable"} /\ \E v \in vols : v.tag = "crypt"

\* A step of Custody, or none, from what happens to each of the copies.
LEMMA CopiesStep ==
    ASSUME \/ OldBoots /\ OldBoots' /\ (NewHeld' <=> NewHeld)
           \/ OldBoots /\ OldBoots' /\ (NewHeld' => NewHeld) /\ ~ArchiveHeld'
           \/ (OldBoots' <=> OldBoots) /\ ArchiveHeld /\ ArchiveHeld' /\ (NewHeld => NewHeld')
           \/ ArchiveHeld /\ ArchiveHeld' /\ (NewHeld' <=> NewHeld)
           \/ /\ NewHeld /\ NewHeld' /\ (ArchiveHeld' => ArchiveHeld)
              /\ (OldBoots' => OldBoots) \/ (ArchiveHeld' <=> ArchiveHeld)
    PROVE  [Promise!Next]_HeldCopies
PROOF
<1> DEFINE h == HeldCopies
<1>1. h = (IF OldBoots THEN {"old"} ELSE {}) \cup (IF ArchiveHeld THEN {"archive"} ELSE {})
             \cup (IF NewHeld THEN {"new"} ELSE {})
  BY DEF HeldCopies, ArchiveHeld, NewHeld, StagingListed
<1>2. h' = (IF OldBoots' THEN {"old"} ELSE {}) \cup (IF ArchiveHeld' THEN {"archive"} ELSE {})
              \cup (IF NewHeld' THEN {"new"} ELSE {})
  BY DEF HeldCopies, ArchiveHeld, NewHeld, StagingListed
<1> HIDE DEF h
<1>3. ASSUME h' \subseteq h, h' # {} PROVE Promise!Discard
  BY <1>3 DEF Promise!Discard, h
<1>4. ASSUME h # {}, h' = h \cup {"old"} PROVE Promise!Reappear
  BY <1>4 DEF Promise!Reappear, h
<1>5. ASSUME h # {}, h' = h \cup {"archive"} PROVE Promise!Capture
  BY <1>5 DEF Promise!Capture, h
<1>6. ASSUME "archive" \in h, h' = h \cup {"new"} PROVE Promise!Install
  BY <1>6 DEF Promise!Install, h
<1>7. \/ h' \subseteq h /\ h' # {}
      \/ h # {} /\ h' = h \cup {"old"}
      \/ h # {} /\ h' = h \cup {"archive"}
      \/ "archive" \in h /\ h' = h \cup {"new"}
  <2>1. CASE OldBoots /\ OldBoots' /\ (NewHeld' <=> NewHeld)
    BY <1>1, <1>2, <2>1
  <2>2. CASE OldBoots /\ OldBoots' /\ (NewHeld' => NewHeld) /\ ~ArchiveHeld'
    BY <1>1, <1>2, <2>2
  <2>3. CASE (OldBoots' <=> OldBoots) /\ ArchiveHeld /\ ArchiveHeld' /\ (NewHeld => NewHeld')
    BY <1>1, <1>2, <2>3
  <2>4. CASE ArchiveHeld /\ ArchiveHeld' /\ (NewHeld' <=> NewHeld)
    BY <1>1, <1>2, <2>4
  <2>5. CASE /\ NewHeld /\ NewHeld' /\ (ArchiveHeld' => ArchiveHeld)
             /\ (OldBoots' => OldBoots) \/ (ArchiveHeld' <=> ArchiveHeld)
    BY <1>1, <1>2, <2>5
  <2> QED
    BY <2>1, <2>2, <2>3, <2>4, <2>5
<1> QED
  BY <1>3, <1>4, <1>5, <1>6, <1>7 DEF Promise!Next
\* Nothing happens to the copies on a machine that rests.
LEMMA RestKeeps ==
    ASSUME [Next]_vars, pc \in Rest, ~Prepare
    PROVE  HeldCopies' = HeldCopies
PROOF
<1>1. UNCHANGED <<host, table, vols, plan, archive, system>>
  BY DEF Next, Run, StageStep, LayoutStep, SystemStep, VerifyOriginalRoot,
     ResizeFilesystem, ShrinkPartition, UpdateShrunkNode, CreateStaging, ProbeStaging,
     FormatStaging, MountStaging, Download, DownloadMismatch, MountOldRoot, PackOldRoot,
     PackFails, UnmountOldRoot, RecheckArchive, WipePartition, WipeDone, CreatePartitions,
     UpdateNodes, FormatLuks, CreateVolumes, FormatEsp, Extract, Configure, InstallBootloader,
     UnmountStaging, DropStaging, DropCrypt, RecreateCrypt, UpdateCryptNode, DeferGrow, Grow,
     Abort, LosePower, Reboot, Goto, vars, diskVars, imageVars, attemptVars, Rest, Steps,
     StagingSteps, LayoutSteps, SystemSteps, GrowSteps
<1> QED
  BY <1>1 DEF HeldCopies, OldBoots, Listed

\* An attempt begins from the old system alone.
LEMMA PrepareKeeps ==
    ASSUME KeepInv, Prepare
    PROVE  OldBoots /\ OldBoots' /\ (NewHeld' => NewHeld) /\ ~ArchiveHeld'
PROOF
<1>1. OldBoots /\ UNCHANGED <<host, table, vols>> /\ archive' = "none" /\ system' = "none"
  BY DEF Prepare, Goto, KeepInv, RootKept
<1>2. OldBoots'
  BY <1>1 DEF OldBoots, Listed
<1> QED
  BY <1>1, <1>2 DEF NewHeld, ArchiveHeld

\* While the installer makes room the old system boots, before each step and after it.
LEMMA StagingKeeps ==
    ASSUME ~TornResize, KeepInv, [Next]_vars, pc \in StagingSteps
    PROVE  OldBoots /\ OldBoots' /\ ~NewHeld /\ ~NewHeld'
PROOF
<1>1. ~erased /\ system = "none"
  BY DEF KeepInv, DiskInv, Safe, Phases
<1>2. ~erased' /\ system' = "none"
  BY <1>1 DEF Next, Run, StageStep, LayoutStep, SystemStep, Prepare, VerifyOriginalRoot,
     ResizeFilesystem, ShrinkPartition, UpdateShrunkNode, CreateStaging, ProbeStaging,
     FormatStaging, MountStaging, Download, DownloadMismatch, MountOldRoot, PackOldRoot,
     PackFails, UnmountOldRoot, RecheckArchive, WipePartition, WipeDone, CreatePartitions,
     UpdateNodes, FormatLuks, CreateVolumes, FormatEsp, Extract, Configure, InstallBootloader,
     UnmountStaging, DropStaging, DropCrypt, RecreateCrypt, UpdateCryptNode, DeferGrow, Grow,
     Abort, LosePower, Reboot, Goto, vars, imageVars, noteVars, StagingSteps
<1>3. OldBoots
  BY <1>1, OldKept
<1>4. KeepInv'
  BY NextKeep
<1>5. OldBoots'
  <2>1. host.root = 0 \/ \E b \in base' : b.tag = "old" /\ b.num = host.root
    BY <1>2, <1>4, PlanChanges DEF KeepInv, RootKept
  <2>2. \A b \in base' : \E v \in vols' : KeptAs(b, v, table')
    BY <1>2, VolumesStep DEF VolumesKept, KeptAs, Listed
  <2> QED
    BY <2>1, <2>2, PlanChanges DEF OldBoots, KeptAs, Listed
<1> QED
  BY <1>1, <1>2, <1>3, <1>5 DEF NewHeld

\* From the first deletion to the finished system the archive is there.
LEMMA LayoutKeeps ==
    ASSUME KeepInv, [Next]_vars, pc \in LayoutSteps \cup SystemSteps
    PROVE  ArchiveHeld /\ ArchiveHeld'
PROOF
<1>1. archive = "good" /\ StagingListed /\ Safe
  BY DEF KeepInv, DiskInv, Safe, Phases, StagingKept, Staged
<1>2. ~Prepare /\ archive' = archive
  BY DEF Next, Run, StageStep, LayoutStep, SystemStep, Prepare, VerifyOriginalRoot,
     ResizeFilesystem, ShrinkPartition, UpdateShrunkNode, CreateStaging, ProbeStaging,
     FormatStaging, MountStaging, Download, DownloadMismatch, MountOldRoot, PackOldRoot,
     PackFails, UnmountOldRoot, RecheckArchive, WipePartition, WipeDone, CreatePartitions,
     UpdateNodes, FormatLuks, CreateVolumes, FormatEsp, Extract, Configure, InstallBootloader,
     UnmountStaging, DropStaging, DropCrypt, RecreateCrypt, UpdateCryptNode, DeferGrow, Grow,
     Abort, LosePower, Reboot, Goto, vars, imageVars, LayoutSteps, SystemSteps
<1>3. StagingListed'
  BY <1>1, <1>2, StagingListedStep DEF Staged
<1> QED
  BY <1>1, <1>2, <1>3 DEF ArchiveHeld

\* The new root is made from the archive, at extract, and nowhere else.
LEMMA NewFromArchive ==
    ASSUME ~TornResize, KeepInv, [Next]_vars, pc \in LayoutSteps \cup SystemSteps
    PROVE  \/ (NewHeld' <=> NewHeld)
           \/ (OldBoots' <=> OldBoots) /\ (NewHeld => NewHeld')
PROOF
<1>1. DiskInv /\ Phases
  BY DEF KeepInv, DiskInv, Safe
<1>2. CASE pc \in LayoutSteps
  <2>1. system = "none" /\ system' = "none"
    BY <1>1, <1>2 DEF Phases, Next, Run, StageStep, LayoutStep, SystemStep, Prepare,
       VerifyOriginalRoot, ResizeFilesystem, ShrinkPartition, UpdateShrunkNode, CreateStaging,
       ProbeStaging, FormatStaging, MountStaging, Download, DownloadMismatch, MountOldRoot,
       PackOldRoot, PackFails, UnmountOldRoot, RecheckArchive, WipePartition, WipeDone,
       CreatePartitions, UpdateNodes, FormatLuks, CreateVolumes, FormatEsp, Extract, Configure,
       InstallBootloader, UnmountStaging, DropStaging, DropCrypt, RecreateCrypt,
       UpdateCryptNode, DeferGrow, Grow, Abort, LosePower, Reboot, Goto, vars, imageVars,
       LayoutSteps
  <2> QED
    BY <2>1 DEF NewHeld
<1>3. CASE pc \in SystemSteps
  <2>1. UNCHANGED <<host, table, vols>>
    BY <1>3, TableChanges, VolumesChange, PlanChanges
       DEF ShrinkPartition, CreateStaging, WipePartition, CreatePartitions, DropStaging,
           DropCrypt, RecreateCrypt, ResizeFilesystem, FormatStaging, FormatLuks, FormatEsp,
           Grow, LosePower, Goto, SystemSteps
  <2>2. OldBoots' <=> OldBoots
    BY <2>1 DEF OldBoots, Listed
  <2>3. system \in {"extracted", "configured", "bootable"}
           => system' \in {"extracted", "configured", "bootable"}
    BY <1>1, <1>3 DEF Phases, Next, Run, StageStep, LayoutStep, SystemStep, Prepare,
       VerifyOriginalRoot, ResizeFilesystem, ShrinkPartition, UpdateShrunkNode, CreateStaging,
       ProbeStaging, FormatStaging, MountStaging, Download, DownloadMismatch, MountOldRoot,
       PackOldRoot, PackFails, UnmountOldRoot, RecheckArchive, WipePartition, WipeDone,
       CreatePartitions, UpdateNodes, FormatLuks, CreateVolumes, FormatEsp, Extract, Configure,
       InstallBootloader, UnmountStaging, DropStaging, DropCrypt, RecreateCrypt,
       UpdateCryptNode, DeferGrow, Grow, Abort, LosePower, Reboot, Goto, vars, imageVars,
       SystemSteps
  <2> QED
    BY <2>1, <2>2, <2>3 DEF NewHeld
<1> QED
  BY <1>2, <1>3
\* While the container grows into the staging space the new root is on the disk;
\* the archive goes, and the only step that can bring the old root back to light
\* leaves the archive what it was.
LEMMA GrowKeeps ==
    ASSUME ~TornResize, KeepInv, [Next]_vars, pc \in GrowSteps
    PROVE  /\ NewHeld /\ NewHeld' /\ (ArchiveHeld' => ArchiveHeld)
           /\ (OldBoots' => OldBoots) \/ (ArchiveHeld' <=> ArchiveHeld)
PROOF
<1>1. DiskInv /\ system = "bootable" /\ plan.number >= 3 /\ TypeOK
  BY DEF KeepInv, DiskInv, Safe, Phases, StagingKept, Steps
<1>2. system' = system /\ archive' = archive /\ plan' = plan /\ host' = host
  BY PlanChanges DEF Next, Run, StageStep, LayoutStep, SystemStep, Prepare,
     VerifyOriginalRoot, ResizeFilesystem, ShrinkPartition, UpdateShrunkNode, CreateStaging,
     ProbeStaging, FormatStaging, MountStaging, Download, DownloadMismatch, MountOldRoot,
     PackOldRoot, PackFails, UnmountOldRoot, RecheckArchive, WipePartition, WipeDone,
     CreatePartitions, UpdateNodes, FormatLuks, CreateVolumes, FormatEsp, Extract, Configure,
     InstallBootloader, UnmountStaging, DropStaging, DropCrypt, RecreateCrypt,
     UpdateCryptNode, DeferGrow, Grow, Abort, LosePower, Reboot, Goto, vars, imageVars,
     GrowSteps
<1>3. NewHeld /\ NewHeld'
  <2>1. ContainerThere /\ ContainerThere'
    BY <1>1, NextDisk DEF DiskInv
  <2> QED
    BY <1>1, <1>2, <2>1 DEF ContainerThere, ContainerFits, NewHeld
<1>4. CASE RecreateCrypt
  <2>1. PICK e \in GrownEntries : table' = table \cup {e}
    BY <1>4 DEF RecreateCrypt, Sgdisk
  <2>2. vols' = vols /\ e.num = 2
    BY <1>4, <2>1 DEF RecreateCrypt, GrownEntries, NewEntry
  <2>3. StagingListed' <=> StagingListed
    BY <1>1, <1>2, <2>1, <2>2 DEF StagingListed, Listed
  <2> QED
    BY <1>2, <1>3, <2>3 DEF ArchiveHeld
<1>5. CASE ~RecreateCrypt
  <2>1. \A v \in vols' : v.tag # "crypt" => v \in vols
    <3>1. CASE Grow
      <4>1. PICK e \in Numbered(view, 2), v \in vols : v.tag = "crypt" /\ vols' = Rewritten(v, e.hi)
        BY <3>1 DEF Grow
      <4>2. [v EXCEPT !.hi = e.hi].tag = "crypt"
        BY <1>1, <4>1 DEF TypeOK, Volume
      <4> QED
        BY <4>1, <4>2 DEF Rewritten
    <3>2. CASE UNCHANGED vols
      BY <3>2
    <3>3. CASE LosePower
      BY <3>3 DEF LosePower
    <3> QED
      BY <3>1, <3>2, <3>3, VolumesChange
         DEF ResizeFilesystem, FormatStaging, FormatLuks, FormatEsp, Goto, GrowSteps
  <2>2. table' \subseteq table
    BY <1>5, TableChanges
       DEF ShrinkPartition, CreateStaging, WipePartition, CreatePartitions, DropStaging,
           DropCrypt, Sgdisk, Without, Goto, GrowSteps
  <2>3. OldBoots' => OldBoots
    BY <1>2, <2>1, <2>2 DEF OldBoots, Listed
  <2>4. StagingListed' => StagingListed
    BY <1>2, <2>1, <2>2 DEF StagingListed, Listed
  <2> QED
    BY <1>2, <1>3, <2>3, <2>4 DEF ArchiveHeld
<1> QED
  BY <1>4, <1>5

LEMMA InitKeeps == Init => Promise!Init
PROOF
<1> SUFFICES ASSUME Init PROVE HeldCopies = {"old"}
  BY DEF Promise!Init
<1>1. /\ host \in Hosts /\ table = host.table /\ vols = host.vols
      /\ archive = "none" /\ system = "none"
  BY DEF Init
<1>2. OldBoots
  BY <1>1, HostsAssumption DEF OldBoots
<1> QED
  BY <1>1, <1>2 DEF HeldCopies

LEMMA NextKeeps ==
    ASSUME ~TornResize, KeepInv, [Next]_vars
    PROVE  [Promise!Next]_HeldCopies
PROOF
<1>1. CASE Prepare
  BY <1>1, PrepareKeeps, CopiesStep
<1>2. CASE pc \in StagingSteps
  BY <1>2, StagingKeeps, CopiesStep
<1>3. CASE pc \in LayoutSteps \cup SystemSteps
  BY <1>3, LayoutKeeps, NewFromArchive, CopiesStep
<1>4. CASE pc \in GrowSteps
  BY <1>4, GrowKeeps, CopiesStep
<1>5. CASE pc \in Rest /\ ~Prepare
  BY <1>5, RestKeeps
<1> QED
  BY <1>1, <1>2, <1>3, <1>4, <1>5 DEF KeepInv, DiskInv, Safe, TypeOK, Steps

\* The installer implements Custody: on a machine whose partitions start on a
\* MiB and whose partition 1 stands in front, no command that fails, no power
\* loss and no further attempt gives up the last copy of the root (the order
\* prepare, create_staging_partition, stage_rootfs, create_preserved_layout,
\* remove_staging_and_grow).
THEOREM KeepsCustodyAlways ==
    ASSUME ~TornResize, StartsOnMiB, FirstStartsInFront
    PROVE  Spec => KeepsCustody
PROOF
<1>1. Init => Promise!Init
  BY InitKeeps
<1>2. KeepInv /\ [Next]_vars => [Promise!Next]_HeldCopies
  BY NextKeeps
<1> QED
  BY <1>1, <1>2, KeepInvAlways, PTL DEF Spec, KeepsCustody, Promise!Spec
\* At every moment of the installation of such a machine there is a copy of the
\* root: an old system that boots, a verified archive on a listed filesystem, or
\* the new root.
THEOREM ACopyIsHeldAlways ==
    ASSUME ~TornResize, StartsOnMiB, FirstStartsInFront
    PROVE  Spec => [](HeldCopies # {})
PROOF
<1>1. Promise!Init => HeldCopies # {}
  BY DEF Promise!Init
<1>2. HeldCopies # {} /\ [Promise!Next]_HeldCopies => (HeldCopies # {})'
  BY DEF Promise!Next, Promise!Capture, Promise!Install, Promise!Reappear, Promise!Discard
<1> QED
  BY <1>1, <1>2, KeepsCustodyAlways, PTL DEF KeepsCustody, Promise!Spec
=============================================================================
