------------------------- MODULE DirectInstallProofs -------------------------
(***************************************************************************)
(* Proofs about DirectInstall, for any disks, names, machines and number   *)
(* of attempts, with all failures and power cuts: nothing is written       *)
(* before the archive verifies, success means a complete system that the   *)
(* recovery helper can open, and, if names keep their disks, only the      *)
(* confirmed disk is written.                                              *)
(***************************************************************************)
EXTENDS DirectInstall, TLAPS

\* The steps after the archive has been verified.
Writing == Steps \ {"verify", "download"}

\* The installer runs in RAM only, and writes with the verified archive there.
Phases ==
    /\ pc # "idle" => power = "ram"
    /\ pc \in Writing \cup {"done"} => rootfs = "good"

\* What the command before each step has left on the target disk.
Formatted == {"table", "luks", "volumes", "root", "swap"}
Laid      == Formatted \cup (IF host.data_volume THEN {"data"} ELSE {})
Bootable  == Laid \cup (IF host.uefi THEN {"esp"} ELSE {})

\* What an earlier attempt's ESP still holds until mkfs makes the new one.
OldEsp == {"esp", "loader"}

\* The pieces on the target disk, besides what is left of an earlier ESP.
LaidOut(pieces, new) ==
    IF host.uefi THEN pieces \ OldEsp = new ELSE pieces = new

\* A BIOS machine has no ESP, on any disk.
NoBiosEsp == ~host.uefi => \A d \in Disks : "esp" \notin disk[d]

LayoutProgress ==
    /\ pc \in {"zap", "partition", "luks_format"} => disk[Target] \cap (TablePieces \ {"table"}) = {}
    /\ pc \in {"luks_open", "volumes"} => LaidOut(disk[Target], {"table", "luks"})
    /\ pc = "mkfs" => LaidOut(disk[Target], {"table", "luks", "volumes"})
    /\ pc \in {"mount_root", "data"} => LaidOut(disk[Target], Formatted)
    /\ pc = "esp" => LaidOut(disk[Target], Laid)
    /\ pc = "extract" => disk[Target] = Bootable

SystemProgress ==
    /\ pc = "configure" => disk[Target] = Bootable \cup {"files"}
    /\ pc \in {"chroot", "packages"} => disk[Target] = Bootable \cup {"files", "config"}
    /\ pc = "tang" => disk[Target] = Bootable \cup {"files", "config", "packages"}
    /\ pc = "grub_install" =>
           disk[Target] = Bootable \cup {"files", "config", "packages", "tang"}
    /\ pc = "initramfs" =>
           disk[Target] = Bootable \cup {"files", "config", "packages", "tang", "loader"}
    /\ pc = "menu" =>
           disk[Target] = Bootable \cup {"files", "config", "packages", "tang", "loader",
                                         "initramfs"}
    /\ pc = "done" => disk[Target] = Needed

\* From the mounts on, what is written below /target lies on the new volumes.
Mounted ==
    /\ pc \in {"data", "esp", "extract", "configure", "chroot", "packages", "tang",
               "grub_install"} => "root" \in mounts
    /\ pc \in {"extract", "configure", "chroot", "packages", "tang", "grub_install"}
           /\ host.uefi => "esp" \in mounts

\* Behind the Tang binding one line opens the container.
Bound ==
    pc \in {"grub_install", "initramfs", "menu", "done"} =>
        key[Target] = FirstLine(ask_passphrase)

Inv == TypeOK /\ Phases /\ Mounted /\ NoBiosEsp /\ LayoutProgress /\ SystemProgress /\ Bound

-----------------------------------------------------------------------------
(* The invariant.                                                          *)

LEMMA InitInv == Init => Inv
  BY DEF Init, Inv, TypeOK, Namings, Pieces, Steps, Phases, Writing, Mounted, NoBiosEsp,
         LayoutProgress, SystemProgress, Bound

\* Every step keeps the types.
LEMMA TypesStep == TypeOK /\ [Next]_vars => TypeOK'
  <1> SUFFICES ASSUME TypeOK, [Next]_vars PROVE TypeOK'
    OBVIOUS
  <1> USE DEF TypeOK, planVars
  <1>0. Target \in Disks
    BY DEF Target, Namings
  <1>1. ASSUME NEW n \in Names, Prepare(n) PROVE TypeOK'
    BY <1>1 DEF Prepare, Naming, Namings, Steps
  <1>2. CASE VerifyTargetDisk \/ TargetMounted \/ Download \/ Mismatch \/ TangRefused \/ Abort
    BY <1>2 DEF VerifyTargetDisk, TargetMounted, Download, Mismatch, TangRefused, Abort, Goto, Steps
  <1>3. ASSUME NEW from, NEW to \in Steps, Wipe(from, to) PROVE TypeOK'
    BY <1>0, <1>3 DEF Wipe, Goto, Pieces
  <1>4. CASE WipeDisk \/ ZapTable
    BY <1>3, <1>4 DEF WipeDisk, ZapTable, Steps
  <1>5. ASSUME NEW from, NEW to \in Steps \cup {"done"}, NEW needs, NEW new \in SUBSET Pieces,
               NEW m \in SUBSET {"crypt", "root", "data", "esp", "dev"},
               Build(from, to, needs, new, m)
        PROVE  TypeOK'
    BY <1>0, <1>5 DEF Build, Goto, ask_passphrase, Passphrases
  <1>6. CASE \/ MakePartitions \/ LuksFormat \/ LuksOpen \/ MakeVolumes \/ FormatVolumes
             \/ MountRoot \/ MakeData \/ NoData \/ MakeEsp \/ NoEsp
    BY <1>5, <1>6 DEF MakePartitions, LuksFormat, LuksOpen, MakeVolumes, FormatVolumes,
                      MountRoot, MakeData, NoData, MakeEsp, NoEsp, Steps, Pieces
  <1>7. CASE \/ Extract \/ Configure \/ BindMounts \/ InstallPackages \/ BindTang
             \/ InstallLoader \/ UpdateInitramfs \/ UpdateMenu
    BY <1>5, <1>7 DEF Extract, Configure, BindMounts, InstallPackages, BindTang, InstallLoader,
                      UpdateInitramfs, UpdateMenu, Written, Steps, Pieces
  <1>8. CASE Leave \/ PowerCut
    BY <1>8 DEF Leave, PowerCut, Off
  <1>9. CASE Boot
    BY <1>9 DEF Boot, Naming
  <1>10. CASE UNCHANGED vars
    BY <1>10 DEF vars
  <1> QED
    BY <1>1, <1>2, <1>4, <1>6, <1>7, <1>8, <1>9, <1>10 DEF Next, Installer

\* Every step keeps the phases.
LEMMA PhasesStep == Inv /\ [Next]_vars => Phases'
  <1> SUFFICES ASSUME Inv, [Next]_vars PROVE Phases'
    OBVIOUS
  <1> USE DEF Inv, Phases, Writing, Steps, planVars
  <1>1. ASSUME NEW n \in Names, Prepare(n) PROVE Phases'
    BY <1>1 DEF Prepare
  <1>2. CASE VerifyTargetDisk \/ TargetMounted \/ Download \/ Mismatch \/ TangRefused \/ Abort
    BY <1>2 DEF VerifyTargetDisk, TargetMounted, Download, Mismatch, TangRefused, Abort, Goto
  <1>3. CASE WipeDisk \/ ZapTable
    BY <1>3 DEF WipeDisk, ZapTable, Wipe, Goto
  <1>4. ASSUME NEW from \in Writing, NEW to, NEW needs, NEW new, NEW m,
               Build(from, to, needs, new, m)
        PROVE  Phases'
    BY <1>4 DEF Build, Goto
  <1>5. CASE \/ MakePartitions \/ LuksFormat \/ LuksOpen \/ MakeVolumes \/ FormatVolumes
             \/ MountRoot \/ MakeData \/ NoData \/ MakeEsp \/ NoEsp
    BY <1>4, <1>5 DEF MakePartitions, LuksFormat, LuksOpen, MakeVolumes, FormatVolumes,
                      MountRoot, MakeData, NoData, MakeEsp, NoEsp
  <1>6. CASE \/ Extract \/ Configure \/ BindMounts \/ InstallPackages \/ BindTang
             \/ InstallLoader \/ UpdateInitramfs \/ UpdateMenu
    BY <1>4, <1>6 DEF Extract, Configure, BindMounts, InstallPackages, BindTang, InstallLoader,
                      UpdateInitramfs, UpdateMenu
  <1>7. CASE Leave \/ PowerCut
    BY <1>7 DEF Leave, PowerCut, Off
  <1>8. CASE Boot
    BY <1>8 DEF Boot
  <1>9. CASE UNCHANGED vars
    BY <1>9 DEF vars
  <1> QED
    BY <1>1, <1>2, <1>3, <1>5, <1>6, <1>7, <1>8, <1>9 DEF Next, Installer

\* The mounts are made before the steps that write below them.
LEMMA MountedStep == Inv /\ [Next]_vars => Mounted'
  <1> SUFFICES ASSUME Inv, [Next]_vars PROVE Mounted'
    OBVIOUS
  <1> USE DEF Inv, Mounted, planVars
  <1>1. ASSUME NEW n \in Names, Prepare(n) PROVE Mounted'
    BY <1>1 DEF Prepare
  <1>2. CASE VerifyTargetDisk \/ TargetMounted \/ Download \/ Mismatch \/ TangRefused \/ Abort
    BY <1>2 DEF VerifyTargetDisk, TargetMounted, Download, Mismatch, TangRefused, Abort, Goto
  <1>3. CASE WipeDisk \/ ZapTable
    BY <1>3 DEF WipeDisk, ZapTable, Wipe, Goto
  <1>4. CASE \/ MakePartitions \/ LuksFormat \/ LuksOpen \/ MakeVolumes \/ FormatVolumes
             \/ MountRoot
    BY <1>4 DEF MakePartitions, LuksFormat, LuksOpen, MakeVolumes, FormatVolumes,
                MountRoot, Build, Goto
  <1>5. CASE MakeData \/ NoData \/ MakeEsp \/ NoEsp
    BY <1>5 DEF MakeData, NoData, MakeEsp, NoEsp, Build, Goto
  <1>6. CASE \/ Extract \/ Configure \/ BindMounts \/ InstallPackages \/ BindTang
             \/ InstallLoader \/ UpdateInitramfs \/ UpdateMenu
    BY <1>6 DEF Extract, Configure, BindMounts, InstallPackages, BindTang, InstallLoader,
                UpdateInitramfs, UpdateMenu, Build, Goto
  <1>7. CASE Leave \/ PowerCut
    BY <1>7 DEF Leave, PowerCut, Off
  <1>8. CASE Boot
    BY <1>8 DEF Boot, Phases
  <1>9. CASE UNCHANGED vars
    BY <1>9 DEF vars
  <1> QED
    BY <1>1, <1>2, <1>3, <1>4, <1>5, <1>6, <1>7, <1>8, <1>9 DEF Next, Installer

\* What a step that builds adds is all that changes on the target disk.
LEMMA BuildAdds ==
  ASSUME TypeOK, NEW from, NEW to, NEW needs, NEW new, NEW m, Build(from, to, needs, new, m)
  PROVE  /\ pc = from /\ pc' = to /\ host' = host /\ Target' = Target
         /\ disk'[Target] = (disk[Target] \ Replaced(new)) \cup new
         /\ \A d \in Disks : d # Target => disk'[d] = disk[d]
         /\ "luks" \notin new => key' = key
         /\ "luks" \notin new /\ "esp" \notin new => Replaced(new) = {}
  BY DEF Build, Goto, planVars, Target, TypeOK, Namings, Replaced

\* The ESP is made for UEFI only.
LEMMA NoBiosEspStep == Inv /\ [Next]_vars => NoBiosEsp'
  <1> SUFFICES ASSUME Inv, [Next]_vars, ~host'.uefi, NEW d \in Disks PROVE "esp" \notin disk'[d]
    BY DEF NoBiosEsp
  <1> USE DEF Inv, NoBiosEsp, planVars
  <1>1. CASE disk' = disk /\ host' = host
    BY <1>1
  <1>2. ASSUME NEW n \in Names, Prepare(n) PROVE disk' = disk /\ host' = host
    BY <1>2 DEF Prepare
  <1>3. CASE VerifyTargetDisk \/ TargetMounted \/ Download \/ Mismatch \/ TangRefused \/ Abort
    BY <1>1, <1>3 DEF VerifyTargetDisk, TargetMounted, Download, Mismatch, TangRefused, Abort
  <1>4. CASE WipeDisk \/ ZapTable
    <2>1. host' = host /\ disk' = [disk EXCEPT ![Target] = @ \ TablePieces]
      BY <1>4 DEF WipeDisk, ZapTable, Wipe
    <2>2. disk'[d] \subseteq disk[d]
      BY <2>1 DEF TypeOK
    <2> QED
      BY <2>1, <2>2
  <1>5. ASSUME NEW from, NEW to, NEW needs, NEW new, NEW m, Build(from, to, needs, new, m),
               host.uefi \/ "esp" \notin new
        PROVE  "esp" \notin disk'[d]
    <2>1. host' = host /\ (d = Target \/ disk'[d] = disk[d])
      BY <1>5, BuildAdds
    <2>2. disk'[Target] \subseteq disk[Target] \cup new
      BY <1>5, BuildAdds
    <2> QED
      BY <1>5, <2>1, <2>2
  <1>6. CASE \/ MakePartitions \/ LuksFormat \/ LuksOpen \/ MakeVolumes \/ FormatVolumes
             \/ MountRoot \/ MakeData \/ NoData \/ NoEsp
    BY <1>5, <1>6 DEF MakePartitions, LuksFormat, LuksOpen, MakeVolumes, FormatVolumes, MountRoot,
                      MakeData, NoData, NoEsp
  <1>7. CASE MakeEsp
    BY <1>5, <1>7 DEF MakeEsp
  <1>8. CASE \/ Extract \/ Configure \/ BindMounts \/ InstallPackages \/ BindTang
             \/ InstallLoader \/ UpdateInitramfs \/ UpdateMenu
    BY <1>5, <1>8 DEF Extract, Configure, BindMounts, InstallPackages, BindTang,
                      InstallLoader, UpdateInitramfs, UpdateMenu, Written
  <1>9. CASE Leave \/ PowerCut \/ Boot \/ UNCHANGED vars
    BY <1>1, <1>9 DEF Leave, PowerCut, Boot, vars
  <1> QED
    BY <1>1, <1>2, <1>3, <1>4, <1>6, <1>7, <1>8, <1>9 DEF Next, Installer

\* The layout grows command by command.
LEMMA LayoutStep == Inv /\ [Next]_vars => LayoutProgress'
  <1> SUFFICES ASSUME Inv, [Next]_vars PROVE LayoutProgress'
    OBVIOUS
  <1> USE DEF Inv, LayoutProgress
  <1>0. TypeOK /\ Target \in Disks /\ disk[Target] \subseteq Pieces
    BY DEF TypeOK, Target, Namings
  <1>1. ASSUME NEW n \in Names, Prepare(n) PROVE LayoutProgress'
    BY <1>1 DEF Prepare
  <1>2. CASE VerifyTargetDisk \/ TargetMounted \/ Download \/ Mismatch \/ TangRefused \/ Abort
    <2>1. pc' \in {"download", "wipefs", "failed"}
      BY <1>2 DEF VerifyTargetDisk, TargetMounted, Download, Mismatch, TangRefused, Abort, Goto
    <2> QED
      BY <2>1
  <1>3. CASE WipeDisk \/ ZapTable
    <2>1. /\ pc' \in {"zap", "partition"} /\ Target' = Target /\ TablePieces' = TablePieces
          /\ disk'[Target] = disk[Target] \ TablePieces
      BY <1>0, <1>3 DEF WipeDisk, ZapTable, Wipe, Goto, planVars, Target, TablePieces, TypeOK
    <2> QED
      BY <2>1
  <1>4. CASE MakePartitions
    <2>1. /\ pc = "partition" /\ pc' = "luks_format" /\ Target' = Target
          /\ TablePieces' = TablePieces /\ disk'[Target] = disk[Target] \cup {"table"}
      BY <1>0, <1>4, BuildAdds DEF MakePartitions, TablePieces
    <2> QED
      BY <2>1
  <1>5. CASE LuksFormat
    <2>1. /\ pc = "luks_format" /\ pc' = "luks_open" /\ Target' = Target /\ host' = host
          /\ disk'[Target] = (disk[Target] \ InContainer) \cup {"luks"}
      BY <1>0, <1>5, BuildAdds DEF LuksFormat, Replaced
    <2>2. "table" \in disk[Target]
      BY <1>5 DEF LuksFormat, Build, TypeOK
    <2>3. disk[Target] \cap (TablePieces \ {"table"}) = {}
      BY <2>1
    <2>4. CASE host.uefi
      BY <1>0, <2>1, <2>2, <2>3, <2>4 DEF LaidOut, OldEsp, InContainer, TablePieces, Pieces
    <2>5. CASE ~host.uefi
      <3>1. "esp" \notin disk[Target]
        BY <1>0, <2>5 DEF NoBiosEsp
      <3> QED
        BY <1>0, <2>1, <2>2, <2>3, <2>5, <3>1 DEF LaidOut, InContainer, TablePieces, Pieces
    <2> QED
      BY <2>4, <2>5
  <1>6. ASSUME NEW from, NEW to, NEW needs, NEW new, NEW m, Build(from, to, needs, new, m),
               new \cap {"luks", "esp", "loader"} = {}
        PROVE  /\ pc = from /\ pc' = to /\ Target' = Target /\ host' = host
               /\ disk'[Target] = disk[Target] \cup new
               /\ \A old : LaidOut(disk[Target], old) => LaidOut(disk[Target] \cup new, old \cup new)
    BY <1>0, <1>6, BuildAdds DEF LaidOut, OldEsp
  <1>7. CASE LuksOpen \/ MakeVolumes \/ FormatVolumes \/ MountRoot
    <2>1. CASE LuksOpen
      BY <1>6, <2>1 DEF LuksOpen, LaidOut
    <2>2. CASE MakeVolumes
      BY <1>6, <2>2 DEF MakeVolumes, LaidOut, OldEsp
    <2>3. CASE FormatVolumes
      BY <1>6, <2>3 DEF FormatVolumes, LaidOut, OldEsp, Formatted
    <2>4. CASE MountRoot
      BY <1>6, <2>4 DEF MountRoot, LaidOut
    <2> QED
      BY <1>7, <2>1, <2>2, <2>3, <2>4
  <1>8. CASE MakeData \/ NoData
    BY <1>6, <1>8 DEF MakeData, NoData, LaidOut, Laid, Formatted, OldEsp
  <1>9. CASE MakeEsp \/ NoEsp
    <2>1. pc = "esp" /\ pc' = "extract" /\ Target' = Target /\ host' = host /\ Laid' = Laid
      BY <1>0, <1>9, BuildAdds DEF MakeEsp, NoEsp, Laid, Build, Goto, planVars, Target
    <2>2. LaidOut(disk[Target], Laid)
      BY <2>1
    <2>3. disk'[Target] = Bootable
      <3>1. CASE MakeEsp
        <4>1. host.uefi /\ disk'[Target] = (disk[Target] \ {"loader"}) \cup {"esp"}
          BY <1>0, <3>1, BuildAdds DEF MakeEsp, Replaced
        <4>2. disk[Target] \ OldEsp = Laid
          BY <2>2, <4>1 DEF LaidOut
        <4> QED
          BY <4>1, <4>2 DEF OldEsp, Bootable, Laid, Formatted
      <3>2. CASE NoEsp
        BY <1>6, <2>2, <3>2 DEF NoEsp, LaidOut, Bootable
      <3> QED
        BY <1>9, <3>1, <3>2
    <2> QED
      BY <2>1, <2>3 DEF Bootable
  <1>10. CASE \/ Extract \/ Configure \/ BindMounts \/ InstallPackages \/ BindTang
              \/ InstallLoader \/ UpdateInitramfs \/ UpdateMenu
    <2>1. pc' \in {"configure", "chroot", "packages", "tang", "grub_install", "initramfs", "menu", "done"}
      BY <1>10 DEF Extract, Configure, BindMounts, InstallPackages, BindTang, InstallLoader,
                   UpdateInitramfs, UpdateMenu, Build, Goto
    <2> QED
      BY <2>1
  <1>11. CASE Leave \/ PowerCut
    BY <1>11 DEF Leave, PowerCut, Off
  <1>12. CASE Boot
    BY <1>12 DEF Boot, Phases
  <1>13. CASE UNCHANGED vars
    BY <1>13 DEF vars, Target, LaidOut, Laid, Bootable, TablePieces
  <1> QED
    BY <1>1, <1>2, <1>3, <1>4, <1>5, <1>7, <1>8, <1>9, <1>10, <1>11, <1>12, <1>13 DEF Next, Installer

\* The system grows command by command, each piece in its place because of the
\* mounts, and the last command completes it.
LEMMA SystemStep == Inv /\ [Next]_vars => SystemProgress'
  <1> SUFFICES ASSUME Inv, [Next]_vars PROVE SystemProgress'
    OBVIOUS
  <1> USE DEF Inv, SystemProgress
  <1>1. ASSUME NEW n \in Names, Prepare(n) PROVE SystemProgress'
    BY <1>1 DEF Prepare
  <1>2. CASE VerifyTargetDisk \/ TargetMounted \/ Download \/ Mismatch \/ TangRefused \/ Abort
    BY <1>2 DEF VerifyTargetDisk, TargetMounted, Download, Mismatch, TangRefused, Abort, Goto
  <1>3. CASE WipeDisk \/ ZapTable
    BY <1>3 DEF WipeDisk, ZapTable, Wipe, Goto
  <1>4. CASE \/ MakePartitions \/ LuksFormat \/ LuksOpen \/ MakeVolumes \/ FormatVolumes
             \/ MountRoot \/ MakeData \/ NoData \/ MakeEsp \/ NoEsp
    BY <1>4, BuildAdds DEF MakePartitions, LuksFormat, LuksOpen, MakeVolumes, FormatVolumes,
                           MountRoot, MakeData, NoData, MakeEsp, NoEsp
  <1>5. CASE Extract \/ Configure \/ BindMounts \/ InstallPackages \/ BindTang
    BY <1>5, BuildAdds DEF Extract, Configure, BindMounts, InstallPackages, BindTang, Written,
                           Mounted, LayoutProgress, Bootable, Laid
  <1>6. CASE InstallLoader \/ UpdateInitramfs
    BY <1>6, BuildAdds DEF InstallLoader, UpdateInitramfs, Written, Mounted, Bootable, Laid
  <1>7. CASE UpdateMenu
    <2>1. disk'[Target] = Bootable \cup {"files", "config", "packages", "tang", "loader",
                                         "initramfs", "menu"}
      BY <1>7, BuildAdds DEF UpdateMenu
    <2>2. Needed = Bootable \cup {"files", "config", "packages", "tang", "loader", "initramfs",
                                  "menu"}
      BY DEF Needed, Pieces, Bootable, Laid, Formatted
    <2>3. pc' = "done" /\ Target' = Target /\ Needed' = Needed
      BY <1>7, BuildAdds DEF UpdateMenu, Needed
    <2> QED
      BY <2>1, <2>2, <2>3
  <1>8. CASE Leave \/ PowerCut
    BY <1>8 DEF Leave, PowerCut, Off
  <1>9. CASE Boot
    BY <1>9 DEF Boot, Phases
  <1>10. CASE UNCHANGED vars
    BY <1>10 DEF vars, Target, Needed, Bootable, Laid
  <1> QED
    BY <1>1, <1>2, <1>3, <1>4, <1>5, <1>6, <1>7, <1>8, <1>9, <1>10 DEF Next, Installer

\* What Tang was bound to stays the container's key.
LEMMA BoundStep == Inv /\ [Next]_vars => Bound'
  <1> SUFFICES ASSUME Inv, [Next]_vars PROVE Bound'
    OBVIOUS
  <1> USE DEF Inv, Bound
  <1>1. ASSUME NEW n \in Names, Prepare(n) PROVE Bound'
    BY <1>1 DEF Prepare
  <1>2. CASE VerifyTargetDisk \/ TargetMounted \/ Download \/ Mismatch \/ TangRefused \/ Abort
    BY <1>2 DEF VerifyTargetDisk, TargetMounted, Download, Mismatch, TangRefused, Abort, Goto
  <1>3. CASE WipeDisk \/ ZapTable
    BY <1>3 DEF WipeDisk, ZapTable, Wipe, Goto
  <1>4. CASE \/ MakePartitions \/ LuksFormat \/ LuksOpen \/ MakeVolumes \/ FormatVolumes
             \/ MountRoot \/ MakeData \/ NoData \/ MakeEsp \/ NoEsp
    BY <1>4, BuildAdds DEF MakePartitions, LuksFormat, LuksOpen, MakeVolumes, FormatVolumes,
                           MountRoot, MakeData, NoData, MakeEsp, NoEsp
  <1>5. CASE Extract \/ Configure \/ BindMounts \/ InstallPackages
    BY <1>5, BuildAdds DEF Extract, Configure, BindMounts, InstallPackages
  <1>6. CASE BindTang
    BY <1>6, BuildAdds DEF BindTang, ask_passphrase
  <1>7. CASE InstallLoader \/ UpdateInitramfs \/ UpdateMenu
    BY <1>7, BuildAdds DEF InstallLoader, UpdateInitramfs, UpdateMenu, Written, ask_passphrase
  <1>8. CASE Leave \/ PowerCut
    BY <1>8 DEF Leave, PowerCut, Off
  <1>9. CASE Boot
    BY <1>9 DEF Boot, Phases
  <1>10. CASE UNCHANGED vars
    BY <1>10 DEF vars, Target, ask_passphrase
  <1> QED
    BY <1>1, <1>2, <1>3, <1>4, <1>5, <1>6, <1>7, <1>8, <1>9, <1>10 DEF Next, Installer

\* Inv holds in every state.
LEMMA InvAlways == Spec => []Inv
  <1>1. Inv /\ [Next]_vars => Inv'
    BY TypesStep, PhasesStep, MountedStep, NoBiosEspStep, LayoutStep, SystemStep, BoundStep DEF Inv
  <1> QED
    BY <1>1, InitInv, PTL DEF Spec

-----------------------------------------------------------------------------
(* The theorems.                                                           *)

\* Every variable stays in its range.
THEOREM TypeCorrect == Spec => []TypeOK
  <1>1. Inv => TypeOK
    BY DEF Inv
  <1> QED
    BY <1>1, InvAlways, PTL

\* A run of the installer that ends with success has built the whole system,
\* for either firmware and layout, whatever earlier attempts left behind, and
\* the line the operator types opens its container.
THEOREM DoneIsCompleteAlways == Spec => []DoneIsComplete
  <1>1. Inv => DoneIsComplete
    BY DEF Inv, SystemProgress, Bound, DoneIsComplete
  <1> QED
    BY <1>1, InvAlways, PTL

\* Only the installer's commands, from wipefs on, write to a disk, and they
\* write to the target.
LEMMA OnlyTargetWritten ==
  ASSUME Inv, Next, disk' # disk
  PROVE  power = "ram" /\ pc \in Writing /\ \E new : disk' = [disk EXCEPT ![Target] = new]
  <1>1. ~ \E n \in Names : Prepare(n)
    BY DEF Prepare
  <1>2. ~ (VerifyTargetDisk \/ TargetMounted \/ Download \/ Mismatch \/ TangRefused \/ Abort)
    BY DEF VerifyTargetDisk, TargetMounted, Download, Mismatch, TangRefused, Abort
  <1>3. ~ (Leave \/ PowerCut \/ Boot)
    BY DEF Leave, PowerCut, Boot
  <1>4. CASE WipeDisk \/ ZapTable
    BY <1>4 DEF WipeDisk, ZapTable, Wipe, Goto, Writing, Steps
  <1>5. ASSUME NEW from \in Writing, NEW to, NEW needs, NEW new, NEW m,
               Build(from, to, needs, new, m)
        PROVE  power = "ram" /\ pc \in Writing /\ \E k : disk' = [disk EXCEPT ![Target] = k]
    BY <1>5 DEF Build, Goto
  <1>6. CASE \/ MakePartitions \/ LuksFormat \/ LuksOpen \/ MakeVolumes \/ FormatVolumes
             \/ MountRoot \/ MakeData \/ NoData \/ MakeEsp \/ NoEsp
    BY <1>5, <1>6 DEF MakePartitions, LuksFormat, LuksOpen, MakeVolumes, FormatVolumes,
                      MountRoot, MakeData, NoData, MakeEsp, NoEsp, Writing, Steps
  <1>7. CASE \/ Extract \/ Configure \/ BindMounts \/ InstallPackages \/ BindTang
             \/ InstallLoader \/ UpdateInitramfs \/ UpdateMenu
    BY <1>5, <1>7 DEF Extract, Configure, BindMounts, InstallPackages, BindTang, InstallLoader,
                      UpdateInitramfs, UpdateMenu, Writing, Steps
  <1> QED
    BY <1>1, <1>2, <1>3, <1>4, <1>6, <1>7 DEF Next, Installer

\* No disk is written unless the archive whose hash was compared lies in RAM.
THEOREM WritesAfterVerificationAlways == Spec => WritesAfterVerification
  <1>1. Inv /\ [Next]_vars => [disk' # disk => rootfs = "good"]_vars
    <2> SUFFICES ASSUME Inv, Next, disk' # disk PROVE rootfs = "good"
      BY DEF vars
    <2> QED
      BY OnlyTargetWritten DEF Inv, Phases
  <1> QED
    BY <1>1, InvAlways, PTL DEF Spec, WritesAfterVerification

\* The manifest's name stands for the confirmed disk as long as names do not
\* move between the host's boot and the installer's.
TargetIsChosen == power = "ram" => Target = chosen

LEMMA ChosenStep ==
  ASSUME StableNames, Inv, TargetIsChosen, [Next]_vars
  PROVE  TargetIsChosen'
  <1> USE DEF TargetIsChosen, Target, planVars
  <1>1. ASSUME NEW n \in Names, Prepare(n) PROVE TargetIsChosen'
    BY <1>1 DEF Prepare, Naming
  <1>2. CASE VerifyTargetDisk \/ TargetMounted \/ Download \/ Mismatch \/ TangRefused \/ Abort
    BY <1>2 DEF VerifyTargetDisk, TargetMounted, Download, Mismatch, TangRefused, Abort
  <1>3. CASE WipeDisk \/ ZapTable
    BY <1>3 DEF WipeDisk, ZapTable, Wipe
  <1>4. ASSUME NEW from, NEW to, NEW needs, NEW new, NEW m, Build(from, to, needs, new, m)
        PROVE  TargetIsChosen'
    BY <1>4 DEF Build
  <1>5. CASE \/ MakePartitions \/ LuksFormat \/ LuksOpen \/ MakeVolumes \/ FormatVolumes
             \/ MountRoot \/ MakeData \/ NoData \/ MakeEsp \/ NoEsp
    BY <1>4, <1>5 DEF MakePartitions, LuksFormat, LuksOpen, MakeVolumes, FormatVolumes,
                      MountRoot, MakeData, NoData, MakeEsp, NoEsp
  <1>6. CASE \/ Extract \/ Configure \/ BindMounts \/ InstallPackages \/ BindTang
             \/ InstallLoader \/ UpdateInitramfs \/ UpdateMenu
    BY <1>4, <1>6 DEF Extract, Configure, BindMounts, InstallPackages, BindTang, InstallLoader,
                      UpdateInitramfs, UpdateMenu
  <1>7. CASE Leave \/ PowerCut
    BY <1>7 DEF Leave, PowerCut, Off
  <1>8. CASE Boot
    BY <1>8 DEF Boot
  <1>9. CASE UNCHANGED vars
    BY <1>9 DEF vars
  <1> QED
    BY <1>1, <1>2, <1>3, <1>5, <1>6, <1>7, <1>8, <1>9 DEF Next, Installer

\* With stable names only the disk the operator confirmed is ever written.
THEOREM OnlyChosenDiskChangesAlways ==
  ASSUME StableNames
  PROVE  Spec => OnlyChosenDiskChanges
  <1>1. Init => TargetIsChosen
    BY DEF Init, TargetIsChosen
  <1>2. Inv /\ TargetIsChosen /\ [Next]_vars => TargetIsChosen'
    BY ChosenStep
  <1>3. Inv /\ TargetIsChosen /\ [Next]_vars
          => [\A d \in Disks : disk'[d] # disk[d] => d = chosen]_vars
    <2> SUFFICES ASSUME Inv, TargetIsChosen, Next, NEW d \in Disks, disk'[d] # disk[d]
                 PROVE  d = chosen
      BY DEF vars
    <2>1. PICK new : power = "ram" /\ disk' = [disk EXCEPT ![Target] = new]
      BY OnlyTargetWritten
    <2> QED
      BY <2>1 DEF TargetIsChosen, Inv, TypeOK
  <1> QED
    BY <1>1, <1>2, <1>3, InvAlways, PTL DEF Spec, OnlyChosenDiskChanges
=============================================================================
