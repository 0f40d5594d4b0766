---------------------------- MODULE ErasureProofs ----------------------------
(***************************************************************************)
(* The erasure of the old partitions in InPlaceInstall is safe on every    *)
(* machine: what the invariant of InPlaceInstallProofs says of the types,  *)
(* extended by what each stage of the installer relies on.                 *)
(***************************************************************************)
EXTENDS InPlaceInstallProofs

-----------------------------------------------------------------------------
(* The inductive invariant.                                                *)

\* The steps at which the staging filesystem is mounted.
Staged == {"stage", "pack", "umount_old", "recheck", "cleanup"} \cup LayoutSteps \cup SystemSteps

\* The staging filesystem is complete and listed.
StagingListed == \E v \in vols : v.tag = "staging" /\ v.num = plan.number /\ Listed(table, v)

\* What has been done, and what has not, when the installer reaches a step.
Phases ==
    /\ pc \in StagingSteps => ~erased /\ system = "none"
    /\ pc \in LayoutSteps \cup {"extract"} => system = "none"
    /\ pc = "configure" => system = "extracted"
    /\ pc = "bootloader" => system = "configured"
    /\ pc \in GrowSteps => system = "bootable"
    /\ pc \in LayoutSteps \cup SystemSteps => archive = "good"
    /\ pc \in Staged => "staging" \in mounted
    /\ "staging" \in mounted => pc \in Staged \cup Rest
    /\ "oldroot" \in mounted => pc \in {"pack", "umount_old"} \cup Rest

\* The staging partition's number collides with nothing that is deleted or
\* created, and its filesystem is there from its creation to its removal.
StagingKept ==
    /\ pc \in Steps => plan.number >= 3
    /\ plan.number \notin toWipe
    /\ pc \in {"probe", "mkfs"} => plan.number \in Numbers(table)
    /\ pc \in Staged \cup {"mount_staging"} => StagingListed

\* The table is one, and the kernel's view agrees with it where a device of
\* the disk is formatted.
NodesKept ==
    /\ WellFormed(table)
    /\ pc \in {"verify", "mkfs"} => view = table
    /\ pc \in {"luks", "volumes", "esp"} =>
          \A n \in {1, 2} : Numbered(view, n) # {} /\ Numbered(view, n) \subseteq table

\* The partition of the running root is not lost before the erasure.
RootListed ==
    host.root # 0 /\ pc \in StagingSteps \ {"verify"} => host.root \in Numbers(table)

Safe ==
    /\ TypeOK
    /\ Phases
    /\ StagingKept
    /\ NodesKept
    /\ RootListed
    /\ MountedStaysListed
    /\ ArchiveOutlivesErasure

-----------------------------------------------------------------------------
(* Tables.                                                                 *)

\* sgdisk makes a table of a table and an entry it accepts.
LEMMA AcceptedWellFormed ==
    ASSUME NEW t, NEW e \in Entry, WellFormed(t), Accepts(t, e)
    PROVE  WellFormed(t \cup {e})
PROOF
<1>1. \A f \in t : f \in Entry /\ Apart(f, e) /\ Apart(e, f) /\ f.num # e.num
  BY DEF WellFormed, Accepts, Numbers, Apart
<1>2. \A f, g \in t \cup {e} : f # g => f.num # g.num /\ Apart(f, g)
  BY <1>1 DEF WellFormed
<1>3. \A f \in t \cup {e} : FirstUsable <= f.lo /\ f.lo < f.hi /\ f.hi <= UsableEnd
  BY DEF WellFormed, Accepts
<1> QED
  BY <1>1, <1>2, <1>3 DEF WellFormed

\* Deleting an entry leaves a table.
LEMMA WithoutWellFormed ==
    ASSUME NEW t, NEW n, WellFormed(t)
    PROVE  WellFormed(Without(t, n))
BY DEF WellFormed, Without

\* In a table, what lies in one partition is apart from every other partition.
LEMMA ListedApart ==
    ASSUME NEW t, NEW e \in t, NEW v, WellFormed(t), Listed(t, v), v.lo \in Nat, v.hi \in Nat,
           v.num # e.num
    PROVE  Apart(v, e)
PROOF
<1>1. PICK f \in t : f.num = v.num /\ f.lo = v.lo /\ v.hi <= f.hi
  BY DEF Listed
<1>2. Apart(f, e) /\ e \in Entry /\ f \in Entry
  BY <1>1 DEF WellFormed
<1> QED
  BY <1>1, <1>2 DEF Apart, Entry

-----------------------------------------------------------------------------
(* Which steps change what.                                                *)

\* The steps that run sgdisk.
LEMMA TableChanges ==
    [Next]_vars => \/ ShrinkPartition \/ CreateStaging \/ WipePartition \/ CreatePartitions
                   \/ DropStaging \/ DropCrypt \/ RecreateCrypt \/ UNCHANGED table
BY DEF Next, Run, StageStep, LayoutStep, SystemStep, Prepare, VerifyOriginalRoot,
       ResizeFilesystem, UpdateShrunkNode, ProbeStaging, FormatStaging, MountStaging, Download,
       DownloadMismatch, MountOldRoot, PackOldRoot, PackFails, UnmountOldRoot, RecheckArchive,
       WipeDone, UpdateNodes, FormatLuks, CreateVolumes, FormatEsp, Extract, Configure,
       InstallBootloader, UnmountStaging, UpdateCryptNode, DeferGrow, Grow, Abort, LosePower,
       Reboot, diskVars, vars

\* The steps that write a filesystem or a container.
LEMMA VolumesChange ==
    [Next]_vars => \/ ResizeFilesystem \/ FormatStaging \/ FormatLuks \/ FormatEsp \/ Grow
                   \/ LosePower \/ UNCHANGED vols
BY DEF Next, Run, StageStep, LayoutStep, SystemStep, Prepare, VerifyOriginalRoot,
       ShrinkPartition, UpdateShrunkNode, CreateStaging, ProbeStaging, MountStaging, Download,
       DownloadMismatch, MountOldRoot, PackOldRoot, PackFails, UnmountOldRoot, RecheckArchive,
       WipePartition, WipeDone, CreatePartitions, UpdateNodes, CreateVolumes, Extract, Configure,
       InstallBootloader, UnmountStaging, DropStaging, DropCrypt, RecreateCrypt,
       UpdateCryptNode, DeferGrow, Abort, Reboot, diskVars, vars

\* The machine is what it is; the plan is made once per attempt.
LEMMA PlanChanges == [Next]_vars => UNCHANGED host /\ (Prepare \/ UNCHANGED plan)
BY DEF Next, Run, StageStep, LayoutStep, SystemStep, Prepare, VerifyOriginalRoot,
       ResizeFilesystem, ShrinkPartition, UpdateShrunkNode, CreateStaging, ProbeStaging,
       FormatStaging, MountStaging, Download, DownloadMismatch, MountOldRoot, PackOldRoot,
       PackFails, UnmountOldRoot, RecheckArchive, WipePartition, WipeDone, CreatePartitions,
       UpdateNodes, FormatLuks, CreateVolumes, FormatEsp, Extract, Configure, InstallBootloader,
       UnmountStaging, DropStaging, DropCrypt, RecreateCrypt, UpdateCryptNode, DeferGrow, Grow,
       Abort, LosePower, Reboot, attemptVars, vars

\* Where a step leads.
LEMMA StepsFollow ==
    ASSUME [Next]_vars, ~Prepare, pc' \in Steps
    PROVE  pc \in Steps
BY DEF Next, Run, StageStep, LayoutStep, SystemStep, VerifyOriginalRoot,
       ResizeFilesystem, ShrinkPartition, UpdateShrunkNode, CreateStaging,
       ProbeStaging, FormatStaging, MountStaging, Download, DownloadMismatch,
       MountOldRoot, PackOldRoot, PackFails, UnmountOldRoot, RecheckArchive,
       WipePartition, WipeDone, CreatePartitions, UpdateNodes, FormatLuks,
       CreateVolumes, FormatEsp, Extract, Configure, InstallBootloader,
       UnmountStaging, DropStaging, DropCrypt, RecreateCrypt, UpdateCryptNode,
       DeferGrow, Grow, Abort, LosePower, Reboot, Goto, vars, Steps, StagingSteps,
       LayoutSteps, SystemSteps, GrowSteps

LEMMA StagedFollows ==
    ASSUME [Next]_vars, ~Prepare, pc' \in Staged \cup {"mount_staging"}
    PROVE  FormatStaging \/ pc \in Staged \cup {"mount_staging"}
BY DEF Next, Run, StageStep, LayoutStep, SystemStep, VerifyOriginalRoot,
       ResizeFilesystem, ShrinkPartition, UpdateShrunkNode, CreateStaging,
       ProbeStaging, MountStaging, Download, DownloadMismatch, MountOldRoot,
       PackOldRoot, PackFails, UnmountOldRoot, RecheckArchive, WipePartition,
       WipeDone, CreatePartitions, UpdateNodes, FormatLuks, CreateVolumes,
       FormatEsp, Extract, Configure, InstallBootloader, UnmountStaging,
       DropStaging, DropCrypt, RecreateCrypt, UpdateCryptNode, DeferGrow, Grow,
       Abort, LosePower, Reboot, Goto, vars, Staged, LayoutSteps, SystemSteps

LEMMA ProbeFollows ==
    ASSUME [Next]_vars, ~Prepare, ~CreateStaging, pc' \in {"probe", "mkfs"}
    PROVE  pc \in {"probe", "mkfs"} /\ UNCHANGED table
BY DEF Next, Run, StageStep, LayoutStep, SystemStep, VerifyOriginalRoot,
       ResizeFilesystem, ShrinkPartition, UpdateShrunkNode, ProbeStaging,
       FormatStaging, MountStaging, Download, DownloadMismatch, MountOldRoot,
       PackOldRoot, PackFails, UnmountOldRoot, RecheckArchive, WipePartition,
       WipeDone, CreatePartitions, UpdateNodes, FormatLuks, CreateVolumes,
       FormatEsp, Extract, Configure, InstallBootloader, UnmountStaging,
       DropStaging, DropCrypt, RecreateCrypt, UpdateCryptNode, DeferGrow, Grow,
       Abort, LosePower, Reboot, Goto, vars, diskVars

\* The partitions to delete are chosen once, without the staging partition.
LEMMA NothingMoreToWipe ==
    ASSUME [Next]_vars, ~Prepare, plan.number \notin toWipe
    PROVE  plan.number \notin toWipe'
BY DEF Next, Run, StageStep, LayoutStep, SystemStep, VerifyOriginalRoot,
       ResizeFilesystem, ShrinkPartition, UpdateShrunkNode, CreateStaging,
       ProbeStaging, FormatStaging, MountStaging, Download, DownloadMismatch,
       MountOldRoot, PackOldRoot, PackFails, UnmountOldRoot, RecheckArchive,
       WipePartition, WipeDone, CreatePartitions, UpdateNodes, FormatLuks,
       CreateVolumes, FormatEsp, Extract, Configure, InstallBootloader,
       UnmountStaging, DropStaging, DropCrypt, RecreateCrypt, UpdateCryptNode,
       DeferGrow, Grow, Abort, LosePower, Reboot, Goto, vars, noteVars

-----------------------------------------------------------------------------
(* What each step of Next does to the invariant, conjunct by conjunct.     *)

LEMMA PhasesStep == TypeOK /\ Phases /\ [Next]_vars => Phases'
PROOF
<1> SUFFICES ASSUME TypeOK, Phases, [Next]_vars PROVE Phases'
  OBVIOUS
<1> USE DEF Goto, diskVars, imageVars, noteVars, attemptVars, Phases, Steps,
            StagingSteps, LayoutSteps, SystemSteps, GrowSteps, Rest, Staged
<1>1. CASE Prepare
  BY <1>1 DEF Prepare
<1>2. CASE VerifyOriginalRoot
  BY <1>2 DEF VerifyOriginalRoot
<1>3. CASE ResizeFilesystem \/ ShrinkPartition \/ UpdateShrunkNode
  BY <1>3 DEF ResizeFilesystem, ShrinkPartition, UpdateShrunkNode
<1>4. CASE CreateStaging \/ ProbeStaging \/ FormatStaging \/ MountStaging
  BY <1>4 DEF CreateStaging, ProbeStaging, FormatStaging, MountStaging
<1>5. CASE Download \/ DownloadMismatch \/ MountOldRoot
  BY <1>5 DEF Download, DownloadMismatch, MountOldRoot
<1>6. CASE PackOldRoot \/ PackFails \/ UnmountOldRoot
  BY <1>6 DEF PackOldRoot, PackFails, UnmountOldRoot
<1>7. CASE RecheckArchive
  BY <1>7 DEF RecheckArchive
<1>8. CASE WipePartition \/ WipeDone \/ CreatePartitions \/ UpdateNodes
  BY <1>8 DEF WipePartition, WipeDone, CreatePartitions, UpdateNodes
<1>9. CASE FormatLuks \/ CreateVolumes \/ FormatEsp
  BY <1>9 DEF FormatLuks, CreateVolumes, FormatEsp
<1>10. CASE Extract \/ Configure \/ InstallBootloader
  BY <1>10 DEF Extract, Configure, InstallBootloader
<1>11. CASE UnmountStaging \/ DropStaging \/ DropCrypt \/ RecreateCrypt
  BY <1>11 DEF UnmountStaging, DropStaging, DropCrypt, RecreateCrypt
<1>12. CASE UpdateCryptNode \/ DeferGrow \/ Grow
  BY <1>12 DEF UpdateCryptNode, DeferGrow, Grow
<1>13. CASE Abort
  BY <1>13 DEF Abort
<1>14. CASE LosePower
  BY <1>14 DEF LosePower
<1>15. CASE Reboot
  BY <1>15 DEF Reboot
<1>16. CASE UNCHANGED vars
  BY <1>16 DEF vars
<1> QED
  BY <1>1, <1>2, <1>3, <1>4, <1>5, <1>6, <1>7, <1>8, <1>9, <1>10, <1>11, <1>12, <1>13,
     <1>14, <1>15, <1>16 DEF Next, Run, StageStep, LayoutStep, SystemStep

\* The table stays a table whatever the installer asks of sgdisk.
LEMMA TableStep == Safe /\ [Next]_vars => WellFormed(table)'
PROOF
<1> SUFFICES ASSUME Safe, [Next]_vars PROVE WellFormed(table)'
  OBVIOUS
<1>1. TypeOK /\ WellFormed(table)
  BY DEF Safe, NodesKept
<1>2. CASE ShrinkPartition
  <2>1. PICK e \in ShrunkEntries : table' = Without(table, plan.part) \cup {e}
    BY <1>2 DEF ShrinkPartition, Sgdisk
  <2>2. WellFormed(Without(table, plan.part) \cup {e})
    BY <1>1, ShrunkEntriesType, WithoutWellFormed, AcceptedWellFormed
  <2> QED
    BY <2>1, <2>2
<1>3. CASE CreateStaging
  <2>1. PICK e \in StagingEntries : table' = table \cup {e}
    BY <1>3 DEF CreateStaging, Sgdisk
  <2> QED
    BY <1>1, <2>1, StagingEntriesType, AcceptedWellFormed
<1>4. CASE WipePartition
  BY <1>1, <1>4, WithoutWellFormed DEF WipePartition, Sgdisk
<1>5. CASE CreatePartitions
  <2>1. PICK e \in CryptEntries : table' = table \cup {BootEntry, e}
    BY <1>5 DEF CreatePartitions, Sgdisk
  <2>2. WellFormed(table \cup {BootEntry})
    BY <1>1, CryptEntriesType, AcceptedWellFormed
  <2>3. WellFormed((table \cup {BootEntry}) \cup {e})
    BY <1>1, <2>2, CryptEntriesType, AcceptedWellFormed
  <2>4. (table \cup {BootEntry}) \cup {e} = table \cup {BootEntry, e}
    OBVIOUS
  <2> QED
    BY <2>1, <2>3, <2>4
<1>6. CASE DropStaging \/ DropCrypt
  BY <1>1, <1>6, WithoutWellFormed DEF DropStaging, DropCrypt, Sgdisk
<1>7. CASE RecreateCrypt
  <2>1. PICK e \in GrownEntries : table' = table \cup {e}
    BY <1>7 DEF RecreateCrypt, Sgdisk
  <2> QED
    BY <1>1, <2>1, GrownEntriesType, AcceptedWellFormed
<1>8. CASE UNCHANGED table
  BY <1>1, <1>8
<1> QED
  BY <1>2, <1>3, <1>4, <1>5, <1>6, <1>7, <1>8, TableChanges

\* Nothing touches the staging filesystem between its creation and the removal
\* of its entry: no other partition overlaps it, and its number is never deleted.
LEMMA StagingListedStep ==
    ASSUME Safe, [Next]_vars, ~Prepare, StagingListed,
           pc \in Staged \cup {"mount_staging"} \cup Rest
    PROVE  StagingListed'
PROOF
<1> USE DEF Staged, Rest, LayoutSteps, SystemSteps
<1>1. PICK v \in vols : v.tag = "staging" /\ v.num = plan.number /\ Listed(table, v)
  BY DEF StagingListed
<1>2. plan' = plan
  BY PlanChanges
<1>3. v.lo \in Nat /\ v.hi \in Nat /\ TypeOK /\ WellFormed(table)
  BY DEF Safe, NodesKept, TypeOK, Volume
<1>4. Listed(table, v)'
  <2>1. CASE WipePartition
    <3>1. PICK n \in toWipe : table' = Without(table, n)
      BY <2>1 DEF WipePartition, Sgdisk
    <3>2. n # v.num
      BY <1>1 DEF Safe, StagingKept
    <3> QED
      BY <1>1, <3>1, <3>2 DEF Listed, Without
  <2>2. CASE CreatePartitions
    <3>1. table \subseteq table'
      BY <2>2 DEF CreatePartitions, Sgdisk
    <3> QED
      BY <1>1, <3>1 DEF Listed
  <2>3. CASE UNCHANGED table
    BY <1>1, <2>3 DEF Listed
  <2> QED
    BY <2>1, <2>2, <2>3, TableChanges
       DEF ShrinkPartition, CreateStaging, DropStaging, DropCrypt, RecreateCrypt, Goto
<1>5. v \in vols'
  <2>1. CASE FormatLuks
    <3>1. PICK e \in Numbered(view, 2) : vols' = Spared(e) \cup {NewVolume("crypt", e, "crypto_LUKS")}
      BY <2>1 DEF FormatLuks
    <3>2. e \in table /\ e.num = 2
      BY <2>1, <3>1 DEF FormatLuks, Goto, Safe, NodesKept, Numbered
    <3>3. v.num # 2
      BY <1>1, <2>1 DEF FormatLuks, Goto, Safe, StagingKept, Steps
    <3> QED
      BY <1>1, <1>3, <3>1, <3>2, <3>3, ListedApart DEF Spared
  <2>2. CASE FormatEsp
    <3>1. PICK e \in Numbered(view, 1) : vols' = Spared(e) \cup {NewVolume("esp", e, "vfat")}
      BY <2>2 DEF FormatEsp
    <3>2. e \in table /\ e.num = 1
      BY <2>2, <3>1 DEF FormatEsp, Goto, Safe, NodesKept, Numbered
    <3>3. v.num # 1
      BY <1>1, <2>2 DEF FormatEsp, Goto, Safe, StagingKept, Steps
    <3> QED
      BY <1>1, <1>3, <3>1, <3>2, <3>3, ListedApart DEF Spared
  <2>3. CASE UNCHANGED vols
    BY <1>1, <2>3
  <2>4. CASE LosePower
    BY <1>1, <2>4 DEF LosePower
  <2> QED
    BY <2>1, <2>2, <2>3, <2>4, VolumesChange DEF ResizeFilesystem, FormatStaging, Grow, Goto
<1> QED
  BY <1>1, <1>2, <1>4, <1>5 DEF StagingListed, Listed

\* mkfs makes the staging filesystem on the partition the table lists.
LEMMA FormatStagingLists ==
    ASSUME Safe, FormatStaging
    PROVE  StagingListed'
PROOF
<1>1. PICK e \in Numbered(view, plan.number) :
         vols' = Spared(e) \cup {NewVolume("staging", e, "ext4")}
  BY DEF FormatStaging
<1>2. e \in table /\ e \in Entry
  BY <1>1 DEF FormatStaging, Goto, Safe, NodesKept, Numbered, TypeOK
<1>3. plan' = plan /\ table' = table
  BY DEF FormatStaging, attemptVars
<1>4. e.num = plan.number
  BY <1>1 DEF Numbered
<1>5. NewVolume("staging", e, "ext4") \in vols'
  BY <1>1
<1>6. Listed(table', NewVolume("staging", e, "ext4"))
  BY <1>2, <1>3, <1>4 DEF Listed, NewVolume, Entry
<1> QED
  BY <1>3, <1>4, <1>5, <1>6 DEF StagingListed, NewVolume

LEMMA StagingStep == Safe /\ [Next]_vars => StagingKept'
PROOF
<1> SUFFICES ASSUME Safe, [Next]_vars PROVE StagingKept'
  OBVIOUS
<1> USE DEF Goto, diskVars, imageVars, noteVars, attemptVars
<1>1. CASE Prepare
  <2>1. plan'.number >= 3
    BY <1>1, PlansType DEF Prepare, Safe
  <2> QED
    BY <1>1, <2>1 DEF Prepare, StagingKept, Staged, LayoutSteps, SystemSteps
<1>2. CASE ~Prepare
  <2>1. plan' = plan
    BY <1>2, PlanChanges
  <2>2. pc' \in Steps => pc \in Steps
    BY <1>2, StepsFollow
  <2>3. pc' \in Steps => plan'.number >= 3
    BY <2>1, <2>2 DEF Safe, StagingKept
  <2>4. plan'.number \notin toWipe'
    BY <1>2, <2>1, NothingMoreToWipe DEF Safe, StagingKept
  <2>5. pc' \in {"probe", "mkfs"} => plan'.number \in Numbers(table')
    <3>1. CASE CreateStaging
      <4>1. PICK e \in StagingEntries : table' = table \cup {e}
        BY <3>1 DEF CreateStaging, Sgdisk
      <4>2. e.num = plan.number
        BY <4>1, StagingEntriesType DEF Safe
      <4> QED
        BY <2>1, <4>1, <4>2 DEF Numbers
    <3>2. CASE ~CreateStaging /\ pc' \in {"probe", "mkfs"}
      <4>1. pc \in {"probe", "mkfs"} /\ table' = table
        BY <1>2, <3>2, ProbeFollows
      <4> QED
        BY <2>1, <4>1 DEF Safe, StagingKept, Numbers
    <3> QED
      BY <3>1, <3>2
  <2>6. pc' \in Staged \cup {"mount_staging"} => StagingListed'
    <3>1. pc' \in Staged \cup {"mount_staging"} =>
              FormatStaging \/ pc \in Staged \cup {"mount_staging"}
      BY <1>2, StagedFollows
    <3>2. pc \in Staged \cup {"mount_staging"} => StagingListed'
      BY <1>2, StagingListedStep DEF Safe, StagingKept
    <3> QED
      BY <3>1, <3>2, FormatStagingLists
  <2> QED
    BY <2>3, <2>4, <2>5, <2>6 DEF StagingKept
<1> QED
  BY <1>1, <1>2

LEMMA NodesStep == Safe /\ [Next]_vars => NodesKept'
PROOF
<1> SUFFICES ASSUME Safe, [Next]_vars PROVE NodesKept'
  OBVIOUS
<1>1. WellFormed(table)'
  BY TableStep
<1>2. (pc \in {"verify", "mkfs"} => view = table)'
  BY DEF Next, Run, StageStep, LayoutStep, SystemStep, Prepare, VerifyOriginalRoot,
         ResizeFilesystem, ShrinkPartition, UpdateShrunkNode, CreateStaging, ProbeStaging,
         FormatStaging, MountStaging, Download, DownloadMismatch, MountOldRoot, PackOldRoot,
         PackFails, UnmountOldRoot, RecheckArchive, WipePartition, WipeDone,
         CreatePartitions, UpdateNodes, FormatLuks, CreateVolumes, FormatEsp, Extract,
         Configure, InstallBootloader, UnmountStaging, DropStaging, DropCrypt,
         RecreateCrypt, UpdateCryptNode, DeferGrow, Grow, Abort, LosePower, Reboot, Safe,
         NodesKept, Sgdisk, Goto, vars, diskVars
<1>3. (pc \in {"luks", "volumes", "esp"} =>
          \A n \in {1, 2} : Numbered(view, n) # {} /\ Numbered(view, n) \subseteq table)'
  <2>1. CASE UpdateNodes
    <3>1. PICK e2 \in Numbered(table, 2) : \E e1 \in Numbered(table, 1) :
             view' = Partx(Partx(view, e1), e2)
      BY <2>1 DEF UpdateNodes, UpdatedViews
    <3>2. PICK e1 \in Numbered(table, 1) : view' = Partx(Partx(view, e1), e2)
      BY <3>1
    <3>3. e1.num = 1 /\ e2.num = 2 /\ e1 \in table /\ e2 \in table
      BY <3>1, <3>2 DEF Numbered
    <3>4. Numbered(view', 1) = {e1} /\ Numbered(view', 2) = {e2}
      BY <3>2, <3>3 DEF Numbered, Partx, Without
    <3>5. table' = table
      BY <2>1 DEF UpdateNodes
    <3> QED
      BY <3>3, <3>4, <3>5
  <2>2. CASE ~UpdateNodes /\ pc' \in {"luks", "volumes", "esp"}
    <3>1. pc \in {"luks", "volumes", "esp"} /\ UNCHANGED <<table, view>>
      BY <2>2 DEF Next, Run, StageStep, LayoutStep, SystemStep, Prepare, VerifyOriginalRoot,
             ResizeFilesystem, ShrinkPartition, UpdateShrunkNode, CreateStaging,
             ProbeStaging, FormatStaging, MountStaging, Download, DownloadMismatch,
             MountOldRoot, PackOldRoot, PackFails, UnmountOldRoot, RecheckArchive,
             WipePartition, WipeDone, CreatePartitions, FormatLuks, CreateVolumes,
             FormatEsp, Extract, Configure, InstallBootloader, UnmountStaging, DropStaging,
             DropCrypt, RecreateCrypt, UpdateCryptNode, DeferGrow, Grow, Abort, LosePower,
             Reboot, Goto, vars, diskVars
    <3> QED
      BY <3>1 DEF Safe, NodesKept, Numbered
  <2> QED
    BY <2>1, <2>2
<1> QED
  BY <1>1, <1>2, <1>3 DEF NodesKept

LEMMA RootStep == Safe /\ [Next]_vars => RootListed'
PROOF
<1> SUFFICES ASSUME Safe, [Next]_vars, host'.root # 0, pc' \in StagingSteps \ {"verify"}
             PROVE  host'.root \in Numbers(table')
  BY DEF RootListed
<1>1. host' = host
  BY PlanChanges
<1>2. CASE VerifyOriginalRoot
  <2>1. PICK e \in Numbered(view, host.root) : TRUE
    BY <1>1, <1>2 DEF VerifyOriginalRoot, OriginalRootUnchanged
  <2>2. view = table /\ table' = table
    BY <1>2 DEF VerifyOriginalRoot, Safe, NodesKept, diskVars
  <2> QED
    BY <1>1, <2>1, <2>2 DEF Numbered, Numbers
<1>3. CASE ~VerifyOriginalRoot
  <2>1. pc \in StagingSteps \ {"verify"}
    BY <1>3 DEF Next, Run, StageStep, LayoutStep, SystemStep, Prepare, ResizeFilesystem,
           ShrinkPartition, UpdateShrunkNode, CreateStaging, ProbeStaging, FormatStaging,
           MountStaging, Download, DownloadMismatch, MountOldRoot, PackOldRoot, PackFails,
           UnmountOldRoot, RecheckArchive, WipePartition, WipeDone, CreatePartitions,
           UpdateNodes, FormatLuks, CreateVolumes, FormatEsp, Extract, Configure,
           InstallBootloader, UnmountStaging, DropStaging, DropCrypt, RecreateCrypt,
           UpdateCryptNode, DeferGrow, Grow, Abort, LosePower, Reboot, Goto, vars,
           StagingSteps
  <2>2. host.root \in Numbers(table)
    BY <1>1, <2>1 DEF Safe, RootListed
  <2>3. CASE ShrinkPartition
    <3>1. PICK e \in ShrunkEntries : table' = Without(table, plan.part) \cup {e}
      BY <2>3 DEF ShrinkPartition, Sgdisk
    <3>2. e.num = plan.part
      BY <3>1, ShrunkEntriesType DEF Safe
    <3> QED
      BY <1>1, <2>2, <3>1, <3>2 DEF Numbers, Without
  <2>4. CASE CreateStaging
    BY <1>1, <2>2, <2>4 DEF CreateStaging, Sgdisk, Numbers
  <2>5. CASE UNCHANGED table
    BY <1>1, <2>2, <2>5 DEF Numbers
  <2> QED
    BY <2>1, <2>3, <2>4, <2>5, TableChanges
       DEF WipePartition, CreatePartitions, DropStaging, DropCrypt, RecreateCrypt, Goto, StagingSteps
<1> QED
  BY <1>2, <1>3

LEMMA MountedStep == Safe /\ [Next]_vars => MountedStaysListed'
PROOF
<1> SUFFICES ASSUME Safe, [Next]_vars PROVE MountedStaysListed'
  OBVIOUS
<1>1. "staging" \in mounted' => plan'.number \in Numbers(table')
  <2> SUFFICES ASSUME "staging" \in mounted' PROVE plan'.number \in Numbers(table')
    OBVIOUS
  <2>1. CASE pc \in Staged \cup {"mount_staging"}
    <3>1. ~Prepare
      BY <2>1 DEF Prepare, Goto, Staged, LayoutSteps, SystemSteps
    <3>2. StagingListed'
      BY <2>1, <3>1, StagingListedStep DEF Safe, StagingKept
    <3> QED
      BY <3>2 DEF StagingListed, Listed, Numbers
  <2>2. CASE pc \notin Staged \cup {"mount_staging"}
    <3>1. "staging" \in mounted /\ pc \in Rest /\ UNCHANGED <<plan, table>>
      BY <2>2 DEF Next, Run, StageStep, LayoutStep, SystemStep, Prepare, VerifyOriginalRoot,
             ResizeFilesystem, ShrinkPartition, UpdateShrunkNode, CreateStaging,
             ProbeStaging, FormatStaging, MountStaging, Download, DownloadMismatch,
             MountOldRoot, PackOldRoot, PackFails, UnmountOldRoot, RecheckArchive,
             WipePartition, WipeDone, CreatePartitions, UpdateNodes, FormatLuks,
             CreateVolumes, FormatEsp, Extract, Configure, InstallBootloader,
             UnmountStaging, DropStaging, DropCrypt, RecreateCrypt, UpdateCryptNode,
             DeferGrow, Grow, Abort, LosePower, Reboot, Safe, Phases, Goto, vars, diskVars,
             attemptVars, Staged, Rest, LayoutSteps, SystemSteps
    <3> QED
      BY <3>1 DEF Safe, MountedStaysListed, Numbers
  <2> QED
    BY <2>1, <2>2
<1>2. "oldroot" \in mounted' /\ host'.root # 0 => host'.root \in Numbers(table')
  <2> SUFFICES ASSUME "oldroot" \in mounted', host'.root # 0 PROVE host'.root \in Numbers(table')
    OBVIOUS
  <2>1. UNCHANGED <<host, table>> /\ ("oldroot" \in mounted \/ pc \in StagingSteps \ {"verify"})
    BY DEF Next, Run, StageStep, LayoutStep, SystemStep, Prepare, VerifyOriginalRoot,
           ResizeFilesystem, ShrinkPartition, UpdateShrunkNode, CreateStaging, ProbeStaging,
           FormatStaging, MountStaging, Download, DownloadMismatch, MountOldRoot,
           PackOldRoot, PackFails, UnmountOldRoot, RecheckArchive, WipePartition, WipeDone,
           CreatePartitions, UpdateNodes, FormatLuks, CreateVolumes, FormatEsp, Extract,
           Configure, InstallBootloader, UnmountStaging, DropStaging, DropCrypt,
           RecreateCrypt, UpdateCryptNode, DeferGrow, Grow, Abort, LosePower, Reboot, Safe,
           Phases, Goto, vars, diskVars, attemptVars, StagingSteps, Rest
  <2> QED
    BY <2>1 DEF Safe, RootListed, MountedStaysListed, Numbers
<1> QED
  BY <1>1, <1>2 DEF MountedStaysListed

\* The archive on the staging filesystem is safe from the first deletion on.
LEMMA ArchiveStep == Safe /\ [Next]_vars => ArchiveOutlivesErasure'
PROOF
<1> SUFFICES ASSUME Safe, [Next]_vars, erased', system' # "bootable"
             PROVE  archive' = "good" /\ StagingListed'
  BY DEF ArchiveOutlivesErasure, StagingListed
<1>1. ~Prepare
  BY DEF Prepare
<1>2. erased \/ WipePartition
  BY <1>1 DEF Next, Run, StageStep, LayoutStep, SystemStep, Prepare, VerifyOriginalRoot,
         ResizeFilesystem, ShrinkPartition, UpdateShrunkNode, CreateStaging, ProbeStaging,
         FormatStaging, MountStaging, Download, DownloadMismatch, MountOldRoot, PackOldRoot,
         PackFails, UnmountOldRoot, RecheckArchive, WipeDone, CreatePartitions, UpdateNodes,
         FormatLuks, CreateVolumes, FormatEsp, Extract, Configure, InstallBootloader,
         UnmountStaging, DropStaging, DropCrypt, RecreateCrypt, UpdateCryptNode, DeferGrow,
         Grow, Abort, LosePower, Reboot, vars, noteVars
<1>3. system # "bootable"
  BY <1>1 DEF Next, Run, StageStep, LayoutStep, SystemStep, Prepare, VerifyOriginalRoot,
         ResizeFilesystem, ShrinkPartition, UpdateShrunkNode, CreateStaging, ProbeStaging,
         FormatStaging, MountStaging, Download, DownloadMismatch, MountOldRoot, PackOldRoot,
         PackFails, UnmountOldRoot, RecheckArchive, WipePartition, WipeDone,
         CreatePartitions, UpdateNodes, FormatLuks, CreateVolumes, FormatEsp, Extract,
         Configure, InstallBootloader, UnmountStaging, DropStaging, DropCrypt,
         RecreateCrypt, UpdateCryptNode, DeferGrow, Grow, Abort, LosePower, Reboot, Safe,
         Phases, Goto, vars, imageVars, SystemSteps
<1>4. archive = "good" /\ StagingListed
  <2>1. CASE WipePartition
    BY <2>1 DEF WipePartition, Safe, Phases, StagingKept, Staged, LayoutSteps
  <2>2. CASE erased
    BY <1>3, <2>2 DEF Safe, ArchiveOutlivesErasure, StagingListed
  <2> QED
    BY <1>2, <2>1, <2>2
<1>5. pc \notin StagingSteps /\ pc \notin GrowSteps
  BY <1>2, <1>3 DEF Safe, Phases, WipePartition, StagingSteps, GrowSteps
<1>6. pc \in Staged \cup Rest
  BY <1>5 DEF Safe, TypeOK, Steps, Staged
<1>7. archive' = archive
  BY <1>1, <1>5 DEF Next, Run, StageStep, LayoutStep, SystemStep, Prepare,
         VerifyOriginalRoot, ResizeFilesystem, ShrinkPartition, UpdateShrunkNode,
         CreateStaging, ProbeStaging, FormatStaging, MountStaging, Download,
         DownloadMismatch, MountOldRoot, PackOldRoot, PackFails, UnmountOldRoot,
         RecheckArchive, WipePartition, WipeDone, CreatePartitions, UpdateNodes, FormatLuks,
         CreateVolumes, FormatEsp, Extract, Configure, InstallBootloader, UnmountStaging,
         DropStaging, DropCrypt, RecreateCrypt, UpdateCryptNode, DeferGrow, Grow, Abort,
         LosePower, Reboot, vars, imageVars, StagingSteps, Goto
<1>8. StagingListed'
  BY <1>1, <1>4, <1>6, StagingListedStep
<1> QED
  BY <1>4, <1>7, <1>8

-----------------------------------------------------------------------------
(* The theorems.                                                           *)

LEMMA InitSafe == Init => Safe
PROOF
<1> SUFFICES ASSUME Init PROVE Safe
  OBVIOUS
<1>1. WellFormed(table)
  BY HostsAssumption DEF Init
<1>2. pc = "host" /\ mounted = {} /\ toWipe = {} /\ ~erased
  BY DEF Init
<1>3. Phases /\ StagingKept /\ RootListed
  BY <1>2 DEF Phases, StagingKept, RootListed, Steps, StagingSteps, LayoutSteps, SystemSteps,
              GrowSteps, Rest, Staged
<1>4. NodesKept /\ MountedStaysListed /\ ArchiveOutlivesErasure
  BY <1>1, <1>2 DEF NodesKept, MountedStaysListed, ArchiveOutlivesErasure
<1> QED
  BY <1>3, <1>4, InitType DEF Safe

LEMMA NextSafe == Safe /\ [Next]_vars => Safe'
BY NextType, PhasesStep, StagingStep, NodesStep, RootStep, MountedStep, ArchiveStep DEF Safe

LEMMA SafeAlways == Spec => []Safe
BY InitSafe, NextSafe, PTL DEF Spec

\* From the first deletion until the new system is bootable the staging
\* filesystem holds the verified archive and is listed, on every machine and
\* whatever fails (create_preserved_layout).
THEOREM ArchiveOutlivesErasureAlways == Spec => []ArchiveOutlivesErasure
PROOF
<1>1. Safe => ArchiveOutlivesErasure
  BY DEF Safe
<1> QED
  BY <1>1, SafeAlways, PTL

\* The partitions of mounted filesystems are never deleted.
THEOREM MountedStaysListedAlways == Spec => []MountedStaysListed
PROOF
<1>1. Safe => MountedStaysListed
  BY DEF Safe
<1> QED
  BY <1>1, SafeAlways, PTL

\* A device is only formatted when the kernel's view of it is the table's
\* (partprobe before mkfs.ext4, partx before luksFormat and mkfs.fat).
THEOREM FormatsListedPartitionAlways == Spec => []FormatsListedPartition
PROOF
<1>1. ASSUME Safe PROVE FormatsListedPartition
  <2>1. pc = "mkfs" => \E e \in Numbered(view, plan.number) : e \in table
    BY <1>1 DEF Safe, StagingKept, NodesKept, Numbered, Numbers
  <2>2. pc \in {"luks", "esp"} =>
           (\E e \in Numbered(view, 1) : e \in table) /\ (\E e \in Numbered(view, 2) : e \in table)
    BY <1>1 DEF Safe, NodesKept
  <2> QED
    BY <2>1, <2>2 DEF FormatsListedPartition
<1> QED
  BY <1>1, SafeAlways, PTL

\* No step deletes a partition other than staging unless the verified archive
\* lies on the mounted staging filesystem, or the new system is bootable.
THEOREM ErasedOnlyWithArchiveAlways == Spec => ErasedOnlyWithArchive
PROOF
<1> DEFINE Given == archive = "good" /\ "staging" \in mounted /\ "oldroot" \notin mounted
           Kept  == (\E n \in Numbers(table) \ {plan.number} : n \notin Numbers(table'))
                       => Given \/ system = "bootable"
<1>1. ASSUME Safe, [Next]_vars PROVE Kept
  <2>1. CASE ShrinkPartition
    <3>1. PICK e \in ShrunkEntries : table' = Without(table, plan.part) \cup {e}
      BY <2>1 DEF ShrinkPartition, Sgdisk
    <3>2. e.num = plan.part
      BY <1>1, <3>1, ShrunkEntriesType DEF Safe
    <3>3. Numbers(table) \subseteq Numbers(table')
      BY <3>1, <3>2 DEF Numbers, Without
    <3> QED
      BY <3>3
  <2>2. CASE CreateStaging \/ CreatePartitions \/ RecreateCrypt
    <3>1. table \subseteq table'
      BY <2>2 DEF CreateStaging, CreatePartitions, RecreateCrypt, Sgdisk
    <3> QED
      BY <3>1 DEF Numbers
  <2>3. CASE WipePartition
    BY <1>1, <2>3 DEF WipePartition, Safe, Phases, Staged, LayoutSteps, Rest
  <2>4. CASE DropStaging \/ DropCrypt
    BY <1>1, <2>4 DEF DropStaging, DropCrypt, Goto, Safe, Phases, GrowSteps
  <2>5. CASE UNCHANGED table
    BY <2>5 DEF Numbers
  <2> QED
    BY <1>1, <2>1, <2>2, <2>3, <2>4, <2>5, TableChanges
<1>2. ASSUME Safe, [Next]_vars PROVE [Kept]_vars
  BY <1>1, <1>2
<1> QED
  BY <1>2, SafeAlways, PTL DEF Spec, ErasedOnlyWithArchive

=============================================================================
