---------------------------- MODULE DirectInstall ----------------------------
(***************************************************************************)
(* The direct installation, from a prebuilt rootfs onto a disk that is not *)
(* the running root's: the client accepts a disk and writes its name into  *)
(* the manifest; the RAM installer checks the disk of that name, downloads *)
(* and verifies the rootfs, replaces the disk and builds the new system.   *)
(* Commands fail, the power goes, and the operator tries again.            *)
(***************************************************************************)
EXTENDS Naturals, FiniteSets

CONSTANTS
    Disks, Names,       \* the disks, and as many device names: /dev/sda, ...
    Hosts,              \* machines: see HostsAssumption
    MaxAttempts,        \* bound on the attempts made on one machine
    FailingAttempts,    \* in how many of them, the first, may anything fail?
    StableNames         \* does every boot give the disks the same names?

(***************************************************************************)
(* root: the disk of the running root.  direct: the disks of which the     *)
(* host mounts a partition by its own name; mapped: those of which it      *)
(* mounts a volume by the name of a mapping.  held: those the RAM image    *)
(* mounts by itself.  A foreign disk may hold an old system, too.  asked:  *)
(* the operator types the passphrase; otherwise the environment has it, as *)
(* in the QEMU tests.                                                      *)
(***************************************************************************)
ASSUME HostsAssumption ==
    \A h \in Hosts :
        /\ h.root \in Disks /\ h.root \in h.direct \cup h.mapped
        /\ h.direct \subseteq Disks /\ h.mapped \subseteq Disks /\ h.held \subseteq Disks
        /\ {h.uefi, h.data_volume, h.asked} \subseteq BOOLEAN

Namings == {f \in [Names -> Disks] : \A d \in Disks : \E n \in Names :
                                        f[n] = d /\ \A k \in Names : f[k] = d => k = n}

ASSUME RunAssumption ==
    /\ MaxAttempts \in Nat /\ FailingAttempts \in Nat
    /\ StableNames \in BOOLEAN

VARIABLES
    host,       \* the machine
    names,      \* the disk each name stands for, this time
    power,      \* what the machine does
    pc,         \* the installer's next command, or how it ended
    target,     \* the disk's name in the manifest
    chosen,     \* history: the disk the operator chose and confirmed
    disk,       \* what each disk holds: "old" or pieces of the new system
    key,        \* the passphrase each disk's container was made with
    rootfs,     \* /encvol-rootfs.tar, in RAM
    mounts,     \* what the installer has opened and mounted
    attempts    \* attempts made so far

vars == <<host, names, power, pc, target, chosen, disk, key, rootfs, mounts, attempts>>

planVars == <<host, names, power, target, chosen, attempts>>

Steps == {"verify", "download", "wipefs", "zap", "partition", "luks_format", "luks_open",
          "volumes", "mkfs", "mount_root", "data", "esp", "extract", "configure", "chroot",
          "packages", "tang", "grub_install", "initramfs", "menu"}

Pieces == {"old", "table", "luks", "volumes", "root", "swap", "data", "esp", "files", "config",
           "packages", "tang", "loader", "initramfs", "menu"}

\* What a complete system consists of.
Needed ==
    Pieces \ ({"old"} \cup (IF host.data_volume THEN {} ELSE {"data"})
                      \cup (IF host.uefi THEN {} ELSE {"esp"}))

(***************************************************************************)
(* The recovery passphrase: systemd-ask-password ends its line, the        *)
(* environment's has no end of line, and the commands get all bytes.  Who  *)
(* reads one line, the recovery helper and clevis, leaves its end out.     *)
(***************************************************************************)
Passphrases == {"line", "line_and_newline"}

ask_passphrase == IF host.asked THEN "line_and_newline" ELSE "line"

FirstLine(passphrase) == IF passphrase = "line_and_newline" THEN "line" ELSE passphrase

TypeOK ==
    /\ host \in Hosts /\ names \in Namings
    /\ power \in {"host", "ram", "off", "installed", "dead"}
    /\ pc \in Steps \cup {"idle", "failed", "done"}
    /\ target \in Names /\ chosen \in Disks
    /\ disk \in [Disks -> SUBSET Pieces]
    /\ key \in [Disks -> Passphrases \cup {"none"}]
    /\ rootfs \in {"none", "bad", "good"}
    /\ mounts \subseteq {"crypt", "root", "data", "esp", "dev"}
    /\ attempts \in Nat

-----------------------------------------------------------------------------
Init ==
    /\ host \in Hosts /\ names \in Namings
    /\ power = "host" /\ pc = "idle"
    /\ target \in Names /\ chosen = names[target]
    /\ disk = [d \in Disks |-> {"old"}] /\ key = [d \in Disks |-> "none"]
    /\ rootfs = "none" /\ mounts = {}
    /\ attempts = 0

\* A boot names the disks.
Naming == names' \in (IF StableNames THEN {names} ELSE Namings)

\* /proc/mounts has the disk's own name in front of a mount.
is_mounted_source(d) == d \in (IF power = "host" THEN host.direct ELSE host.held)

(***************************************************************************)
(* The client: install takes the direct way when the disk is not found to  *)
(* be the running root's, which a root on a mapping is not, and            *)
(* probe_external_descriptor finds the disk not mounted.  The manifest has *)
(* the disk's name.  Then the handoff boots the RAM installer.             *)
(***************************************************************************)
\* (Mutant of Prepare: the manifest of an earlier attempt is used.)
PrepareOnce(n) ==
    /\ power = "host" /\ attempts < MaxAttempts
    /\ ~is_mounted_source(names[n])
    /\ target' = IF attempts = 0 THEN n ELSE target
    /\ chosen' = names[n]
    /\ power' = "ram" /\ pc' = "verify" /\ Naming
    /\ rootfs' = "none" /\ mounts' = {} /\ attempts' = attempts + 1
    /\ UNCHANGED <<host, disk, key>>

Prepare(n) ==
    /\ power = "host" /\ attempts < MaxAttempts
    /\ ~is_mounted_source(names[n])
    /\ target' = n /\ chosen' = names[n]
    /\ power' = "ram" /\ pc' = "verify" /\ Naming
    /\ rootfs' = "none" /\ mounts' = {} /\ attempts' = attempts + 1
    /\ UNCHANGED <<host, disk, key>>

-----------------------------------------------------------------------------
(* The RAM installer: run.                                                 *)

Target == names[target]

Goto(from, to) == power = "ram" /\ pc = from /\ pc' = to

\* The disk of the manifest's name must not be mounted.
VerifyTargetDisk ==
    /\ Goto("verify", "download")
    /\ ~is_mounted_source(Target)
    /\ UNCHANGED <<planVars, disk, key, rootfs, mounts>>

TargetMounted ==
    /\ Goto("verify", "failed")
    /\ is_mounted_source(Target)
    /\ UNCHANGED <<planVars, disk, key, rootfs, mounts>>

\* (Mutant of Download: a transfer that breaks off is taken for a complete one.)
DownloadCutShort ==
    /\ Goto("download", "wipefs")
    /\ rootfs' = "truncated"
    /\ UNCHANGED <<planVars, disk, key, mounts>>

\* (Mutant of Mismatch: the hash is not compared.)
MismatchIgnored ==
    /\ Goto("download", "wipefs")
    /\ rootfs' = "bad"
    /\ UNCHANGED <<planVars, disk, key, mounts>>

\* The archive is hashed while it is written to RAM.  One that is not the
\* descriptor's is removed again.
Download ==
    /\ Goto("download", "wipefs")
    /\ rootfs' = "good"
    /\ UNCHANGED <<planVars, disk, key, mounts>>

Mismatch ==
    /\ attempts <= FailingAttempts
    /\ Goto("download", "failed")
    /\ rootfs' = "none"
    /\ UNCHANGED <<planVars, disk, key, mounts>>

\* wipefs takes the table's signatures, sgdisk the rest of it, and with it what a
\* BIOS boots.  What lies inside the partitions stays on the disk.
TablePieces == {"old", "table"} \cup (IF host.uefi THEN {} ELSE {"loader"})

Wipe(from, to) ==
    /\ Goto(from, to)
    /\ disk' = [disk EXCEPT ![Target] = @ \ TablePieces]
    /\ UNCHANGED <<planVars, key, rootfs, mounts>>

WipeDisk == Wipe("wipefs", "zap")
ZapTable == Wipe("zap", "partition")

\* The new table has partitions where an earlier attempt's were: luksFormat
\* meets that one's container and replaces all that is in it, mkfs its ESP.
InContainer == {"luks", "volumes", "root", "swap", "data", "files", "config", "packages",
                "tang", "initramfs", "menu"}

Replaced(new) ==
    (IF "luks" \in new THEN InContainer ELSE {}) \cup (IF "esp" \in new THEN {"loader"} ELSE {})

\* A command that builds the pieces new, on those it needs, and mounts m.
\* A new container gets the passphrase as its key.
Build(from, to, needs, new, m) ==
    /\ Goto(from, to)
    /\ needs \subseteq disk[Target] \cup mounts
    /\ disk' = [disk EXCEPT ![Target] = (@ \ Replaced(new)) \cup new]
    /\ key' = IF "luks" \in new THEN [key EXCEPT ![Target] = ask_passphrase] ELSE key
    /\ mounts' = mounts \cup m
    /\ UNCHANGED <<planVars, rootfs>>

\* (Mutant of LuksFormat: a partition that holds a container is refused.)
LuksFormatFresh == "luks" \notin disk[Target] /\ Build("luks_format", "luks_open", {"table"}, {"luks"}, {})

MakePartitions == Build("partition", "luks_format", {}, {"table"}, {})
LuksFormat     == Build("luks_format", "luks_open", {"table"}, {"luks"}, {})
LuksOpen       == key[Target] = ask_passphrase /\ Build("luks_open", "volumes", {"luks"}, {}, {"crypt"})

\* pvcreate, vgcreate and lvcreate for swap, root and, if asked for, data.
MakeVolumes   == Build("volumes", "mkfs", {"crypt"}, {"volumes"}, {})
FormatVolumes == Build("mkfs", "mount_root", {"volumes"}, {"root", "swap"}, {})
MountRoot     == Build("mount_root", "data", {"root"}, {}, {"root"})

\* (Mutant of MakeEsp: the ESP is not mounted.)
MakeEspUnmounted == host.uefi /\ Build("esp", "extract", {"table", "root"}, {"esp"}, {})

\* (The data volume is made only if the layout has one, the ESP only for UEFI.)
MakeData == host.data_volume /\ Build("data", "esp", {"volumes", "root"}, {"data"}, {"data"})
NoData   == ~host.data_volume /\ Build("data", "esp", {}, {}, {})
MakeEsp  == host.uefi /\ Build("esp", "extract", {"table", "root"}, {"esp"}, {"esp"})
NoEsp    == ~host.uefi /\ Build("esp", "extract", {}, {}, {})

\* What is written below /target is on the root volume only if that is mounted.
Written(p, m) == IF m \in mounts THEN {p} ELSE {}

Extract         == Build("extract", "configure", {}, Written("files", "root"), {})
Configure       == Build("configure", "chroot", {"files"}, Written("config", "root"), {})
BindMounts      == Build("chroot", "packages", {"files"}, {}, {"dev"})
InstallPackages == Build("packages", "tang", {"files", "dev"}, Written("packages", "root"), {})

\* clevis opens the container with one line of what it is handed.
BindTang ==
    /\ key[Target] = FirstLine(ask_passphrase)
    /\ Build("tang", "grub_install", {"luks"}, {"tang"}, {})

TangRefused ==
    /\ key[Target] # FirstLine(ask_passphrase)
    /\ Goto("tang", "failed")
    /\ UNCHANGED <<planVars, disk, key, rootfs, mounts>>

\* GRUB goes to the disk of a BIOS machine, and to what is mounted as the ESP.
InstallLoader ==
    Build("grub_install", "initramfs", {"packages", "dev"},
          IF host.uefi THEN Written("loader", "esp") ELSE {"loader"}, {})

UpdateInitramfs == Build("initramfs", "menu", {"packages", "config"}, {"initramfs"}, {})
UpdateMenu      == Build("menu", "done", {"packages", "config"}, {"menu"}, {})

\* A command fails: what it was to build is not there, and nothing is undone.
Abort ==
    /\ attempts <= FailingAttempts
    /\ power = "ram" /\ pc \in Steps /\ pc' = "failed"
    /\ UNCHANGED <<planVars, disk, key, rootfs, mounts>>

-----------------------------------------------------------------------------
(* The machine.                                                            *)

Off == power' = "off" /\ pc' = "idle" /\ rootfs' = "none" /\ mounts' = {}

\* The RAM image ends when the installer has.
Leave == power = "ram" /\ pc \in {"failed", "done"} /\ Off
         /\ UNCHANGED <<host, names, target, chosen, disk, key, attempts>>

PowerCut == power = "ram" /\ attempts <= FailingAttempts /\ Off
            /\ UNCHANGED <<host, names, target, chosen, disk, key, attempts>>

\* The machine boots a disk that can be booted, if there is one.
Boot ==
    /\ power = "off" /\ Naming
    /\ \/ disk[host.root] = {"old"} /\ power' = "host"
       \/ (\E d \in Disks : disk[d] = Needed) /\ power' = "installed"
       \/ /\ disk[host.root] # {"old"} /\ \A d \in Disks : disk[d] # Needed
          /\ power' = "dead"
    /\ UNCHANGED <<host, pc, target, chosen, disk, key, rootfs, mounts, attempts>>

Installer ==
    \/ VerifyTargetDisk \/ TargetMounted \/ Download \/ Mismatch \/ WipeDisk \/ ZapTable
    \/ MakePartitions \/ LuksFormat \/ LuksOpen \/ MakeVolumes \/ FormatVolumes \/ MountRoot
    \/ MakeData \/ NoData \/ MakeEsp \/ NoEsp \/ Extract \/ Configure \/ BindMounts
    \/ InstallPackages \/ BindTang \/ TangRefused \/ InstallLoader \/ UpdateInitramfs
    \/ UpdateMenu \/ Abort \/ Leave

Next == (\E n \in Names : Prepare(n)) \/ Installer \/ PowerCut \/ Boot

Spec == Init /\ [][Next]_vars

\* The installer's commands return, and a machine that is off is switched on.
FairSpec == Spec /\ WF_vars(Installer) /\ WF_vars(Boot)

-----------------------------------------------------------------------------
\* "replaces the selected disk" (docs/how-it-works.md): of all disks only the
\* one the operator confirmed is ever written, also by a second attempt on
\* another disk.
OnlyChosenDiskChanges == [][\A d \in Disks : disk'[d] # disk[d] => d = chosen]_vars

\* "checks the downloaded rootfs bytes against the descriptor before the first
\* destructive disk operation" (docs/how-it-works.md): as long as there is no
\* verified archive in RAM every disk stays as it is.
WritesAfterVerification == [][disk' # disk => rootfs = "good"]_vars

\* An installer that reports success has built every piece of the system, for
\* either firmware and layout, each in its place, and the recovery helper can
\* open the container with the line the operator types.
DoneIsComplete ==
    pc = "done" => disk[Target] = Needed /\ key[Target] = FirstLine(ask_passphrase)

\* What an earlier attempt left behind, wherever it failed, does not stop the
\* next: an attempt in which nothing fails installs the system, when the
\* passphrase comes from the environment.
RetryInstalls ==
    (pc = "verify" /\ attempts > FailingAttempts /\ Target \notin host.held /\ ~host.asked)
        ~> pc = "done"

\* "Normal boot unlock uses Clevis bound to Tang [...], and the installer binds
\* the LUKS slot using that trust material" (docs/how-it-works.md): when no
\* command fails of itself, the disk that was replaced gets its binding.
TangIsBound == (pc = "tang" /\ attempts > FailingAttempts) ~> pc = "grub_install"
=============================================================================
