# A specification of encvol

encvol replaces the Linux system of a rented machine by an encrypted one. It has
no second disk to work on and nobody at the console, so the interesting part of
the program is the order in which it destroys one thing and completes another.
These modules describe that order on the build host, on the host to be replaced, at
the boot and in the RAM installer, check it on small machines with TLC, and prove the
parts that matter most for every machine with TLAPS.

## The system

| Component | State it keeps | Operations | Hard behaviours | What makes it correct |
|---|---|---|---|---|
| Self-install planner (`src/self_install.rs`) | none; reads the host's disks | `plan_mode_with_source`, `prepare` | MiB rounding; the host's view is used on another boot | the plan fits the disk it is carried out on |
| RAM in-place installer (`src/runtime/self_install.rs`) | the partition table, the kernel's view of it, filesystems, mounts, the archive, the new system | `verify_original_root`, `create_staging_partition`, `stage_rootfs`, `create_preserved_layout`, `remove_staging_and_grow` | every command can fail, the power can go at any time, nothing is undone, the kernel refuses to read the table again while staging is mounted | one complete copy of the root exists at every moment |
| RAM direct installer (`src/runtime/install.rs`, `layout.rs`) | the target disk, the archive in RAM | `run` | the same failures; no copy of the root is meant to survive | nothing is written before the archive verifies and the disk is known to be unmounted |
| Runtime configuration (`src/runtime/config.rs`) | files of the new root | `write_root_configuration_at` | partial failure | the new root finds its container and unlocks |
| Environment (`src/runtime/environment.rs`, `command.rs`) | none | `verify_runtime_environment`, `run_command` | a command that fails | destructive code only runs from RAM |
| Handoff (`src/handoff.rs`) | `/boot/encvol`, ESP, boot variables, GRUB environment | `select_handoff`, `execute_handoff_with_args` | a crash between two steps; a boot choice that is not one-time | a failed installer boot returns to the old system |
| Client (`src/main.rs`) | `/var/lib/encvol/staged`, the embedded manifest | `install`, `in_place_install_command`, `installer_run` | the order of checks and effects | nothing is staged before the confirmation |
| Bundle (`src/bundle/`) | a stored bundle with its signature, staged components, the initrd | `fetch_bundle`, `verify_bundle_with_policy`, `stage_bundle_bytes`, `embed_manifest`, `download_to_path` | files replaced between two reads, partial failure, two parsers of one format, offsets inside the initrd | what is staged is whole and what was verified; the kernel finds the manifest |
| Manifest (`src/manifest.rs`) | none | `validate`, `installation_manifest` | boundaries of numbers | what the planner writes is what the installer accepts |
| Safety, preflight, network, secrets, installer plan | none | checks, probes, formatting | strings from the host | whole disks only |
| Rootfs (`src/rootfs/mod.rs`) | an operator's workspaces, a mount, archives and descriptors | `init_workspace`, `pack_workspace`, `import_source` | a failure while mounted, what a failed command leaves for the next | the source is not changed, the mount is undone, a descriptor names its archive |

The client plans on the running host, embeds the manifest in the RAM installer's
initrd and selects it for one boot. The RAM installer reads the manifest on the
next boot, with nothing but the disk in common with the host. The two sides
never talk to each other: what connects them is the disk and the plan, and each
side looks at the disk with its own rule. That is where most hazards come from.

## The modules

| Module | What it is | Code |
|---|---|---|
| `Gpt` | a partition table, and `parted`, `sgdisk`, `partx` and the kernel as the code uses them | `parse_mib`, `parted_lines`; the tools are external |
| `StagingPlan` | what the code reads from the listing, and the planner, as pure operators; each returns the set of results, empty for an error | `src/self_install.rs`, `end_free_start_mib` and `partition_start_mib` of `src/runtime/self_install.rs` |
| `InPlaceInstall` | the machine: one action per command of the installer that changes something | `src/runtime/self_install.rs`, and what it calls |
| `Custody` | the abstract promise: of old root, archive and new root the last one is never given up | implemented by `InPlaceInstall` |
| `MCInPlaceInstall` | disks of 16 MiB for TLC | |
| `InPlaceInstallProofs` | type correctness, and that the installer finds the room the planner found, proved | |
| `ErasureProofs` | the safety of the erasure, proved | |
| `CustodyProofs` | what is kept before, during and after the erasure, and the refinement of `Custody`, proved | |
| `Handoff` | clients on the host, the boot loaders and firmware, the boot of the RAM installer | `src/handoff.rs`, `src/bundle/stage.rs`, `embed_manifest`, the start of `src/main.rs`; GRUB, `efibootmgr` and the firmware are external |
| `OneShot` | the abstract promise: one choice is good for one boot | implemented by `Handoff` |
| `MCHandoff` | one small machine for each way of handing off and each thing it meets | |
| `HandoffProofs` | the safety of the handoff, the refinement of `OneShot`, the calm handoff and type correctness, proved | |
| `DirectInstall` | the installation from a prebuilt rootfs on a disk that is not the root's, from the client's checks to the boot of the new system | `src/runtime/install.rs`, `layout.rs`, `config.rs`, `install` in `src/main.rs`, `is_mounted_source`; the firmware and the naming of disks are external |
| `MCDirectInstall` | machines with three disks | |
| `DirectInstallProofs` | the safety of the direct installer, proved | |
| `Initrd` | an initrd as the offsets and sizes of its headers; the client's writer and the kernel's reader as operators | `src/bundle/initrd.rs`; the kernel's reader (`init/initramfs.c`) is external |
| `Bundle` | calls of fetch, stage and the client's own staging, on one stored bundle and shared directories | `src/bundle/fetch.rs`, `verify.rs`, `stage.rs`, `embed_manifest`; the publisher is external |
| `MCBundle` | bundles with every fault, calls with every policy, initrds of every alignment | |
| `InitrdProofs` | that the kernel reads what the client writes: the manifest, and all that was there before, proved | |
| `BundleProofs` | the safety of the bundle, proved | |
| `Rootfs` | the commands `rootfs init`, `pack` and `import` and the operator between them | `src/rootfs/mod.rs`, `rootfs_command`; `debootstrap` and the operator are external |
| `MCRootfs` | one workspace, one device, three paths for archives | |
| `RootfsProofs` | the safety of the rootfs commands, proved | |

`Handoff` and `InPlaceInstall` meet in one place. `Handoff` ends where the
installer has accepted a manifest. Three actions stand for all it does from there:
`InstallerSucceeds`, `InstallerStops` (it gives up before it deletes anything, the old
system is still there) and `InstallerStopsErased` (it gives up behind its first deletion,
`"dead"`; a power cut may do the same); `InPlaceInstall` begins there, and its `Prepare` stands for the
client and the handoff, which change nothing its disk shows. `DirectInstall` joins
`Handoff` at the same place, with the other branch of `installer_run`. `Bundle`
looks closer at the two steps of `Handoff` that stage and embed: there they either
happen or leave a torn file, here they go entry by entry and header by header.
`Rootfs` makes the archives that both installers download: the hash its descriptor
names is the one `Download` compares.

### The listing

`parted -m ... print free` prints a row for each partition and each free range, with the
fields number, start, end, size, and in the row of a free range a 1 for the number.
`parted_lines` is that listing, and every reader in `StagingPlan` takes the field the code
takes: `end_free_region` the third of the last row, which is the end of the free range and
not its size; `partition_bounds` and `partition_start_mib` the first row with the number,
which for number 1 is a free range if one comes before it; `final_partition` the row that
ends last, free or not. `end_free_start_mib` counts back from the end, for its start is a
first field, which is no number of MiB (0). So the planner asks of free space at the end only
whether the disk is large enough, and `sgdisk` refuses what is not free.

### State

Of `InPlaceInstall`: `table` is what is on the disk and `view` what the running kernel believes; they
differ because `sgdisk`'s request to read the table again is refused while a
partition is mounted or open. `vols` are the filesystems and containers, each
with the sectors it covers and the partition number it was made for: a volume is
`Listed` when an entry with that number starts where it starts and reaches its
end. `mounted`, `archive`, `system`, `toWipe` and `luksStart` are the installer's
own progress, `plan` and `source` the manifest. `base` and `erased` are history
variables that only the properties read. `pc` is the next command.

### Actions

The names follow the functions: `Prepare` is the host's `prepare` with the
handoff and the boot of the RAM installer; `VerifyOriginalRoot` to `MountStaging`
are `verify_original_root` and `create_staging_partition`; `Download` to
`RecheckArchive` are `stage_rootfs` and the second hash in `run`;
`WipePartition` to `FormatEsp` are `create_preserved_layout`; `Extract`,
`Configure`, `InstallBootloader` the rest of `run`; `UnmountStaging` to `Grow`
are `remove_staging_and_grow`. Where the code runs one `sgdisk` for two changes
(shrinking, partitions 1 and 2) the action makes both; where it runs two
(partition 2 is deleted and created again) there are two actions and a window
between them. A command that is refused, because a tool or a check of the code
would refuse it in that state, is `Refused`; `Abort` is the error return, which
undoes nothing. `MayFail` adds failures of any command for reasons of its own, in as
many attempts as the host's `failing` says; in the attempts after those every command
succeeds that is not refused. `LosePower` stops the machine at any step and `Reboot` decides, from the disk
alone, whether it comes up with the new system, the old one, or not at all.

### The handoff

`pc` is each client's next command, `pid` its process id, `dirs` what the staging
directory of each id holds as its initrd: a client's own name stands for an
initrd with its manifest. `kernel`, `initrd`, `snippet`, `backup`, `menu` and
`nextEntry` are GRUB's files, `uki`, `efi`, `order` and `bootNext` the ESP and the
firmware's variables, `loaded` what kexec holds. `unsynced` are the files a power
cut may cut short. `booted` and `flag` are what the running installer reads,
`chosenBy` is history.

`Stage` and `Embed` are `stage_bundle_bytes` and `embed_manifest`; `CopyKernel` to
`Reboot` the GRUB branch of `execute_handoff_with_args`, one action per file or
command; `CopyUki`, `CreateEntry`, `SetBootNext` the UEFI branch; `LoadKexec` and
`ExecKexec` the branch of the QEMU fixture. `StageFails`, `EmbedFails`, `GrubFails`,
`UefiFails` and `LastStepFails` are the error returns, which take nothing back, with
what the failed step may leave of its file. `GrubBoot` and `UefiBoot` are the two
boot loaders; `OperatorReboots`, `OperatorResets` and `PowerCut` can come at any
time. On a `calm` machine no command fails, the power stays and clients run one
after the other: what a client may count on there is a property of its own.

### The direct installer

`names` says which disk each device name stands for on this boot, `target` is the
name in the manifest, `chosen` the disk it stood for when the operator confirmed it
(history). `key` is the passphrase each disk's container was made with. `disk` holds, for each disk, "old" or the pieces of a new system that are
on it: the table, the container, the volumes and their filesystems, the files and
what the last commands add to them. `rootfs` is the archive in RAM and `mounts` what
is open or mounted. A machine says of each disk whether the host mounts it by its
own name (`direct`) or through a mapping (`mapped`), and whether the passphrase is
typed (`asked`) or comes from the environment. `ask_passphrase` is what the commands
get, `FirstLine` what is left of it where one line is read.

`Prepare` is the client: the decision between the two paths, the check of the mounts,
the manifest with the disk's name, and the boot, which may name the disks anew.
`VerifyTargetDisk` to `UpdateMenu` are `run`, one action per command or, for the
volumes, per kind of command. `Build` is their pattern: a command needs what earlier
ones made, and what it writes below /target is on the new volume only if that is
mounted. `wipefs` and `sgdisk --zap-all` take the table and what a BIOS boots (`TablePieces`);
the container, its volumes and the ESP of an earlier attempt stay on the disk inside their
partitions, which come back at the same places, until `luksFormat` and `mkfs.fat` replace
them (`Replaced`). `Leave` is the end of the RAM image, `Boot` the firmware's choice.

### The bundle

`online` and `onlineText` are the bundle and the signature at their URLs (a signature
is the build it was made for), `stored` and `storedText` what lies in the caller's
directory, `staged` what lies in each staging directory. `artifact` and `text` are the
bytes each call has read, `next` the tar entry it unpacks next. A setup says what the
calls are asked for, what the server may have and which initrd the bundles hold.

`DownloadArtifact` to `StoreSignature` are `fetch_bundle`, `ReadBundle` to `Verify`
`read_verified_bundle`, `UnpackEntry` and `Unpacked` `stage_bundle_bytes`, `Embed`
`embed_manifest`. A download, a read, a tar entry and a write are a step each, so that
another call or the publisher can come between any two. `Verifies` is the policy with
`validate_bundle_structure`; a client's own bundle only meets the checks of
`UnpackEntry` and `Unpacked`. `FetchFails`, `ReadFails`, `UnpackFails` and `EmbedFails`
are the error returns, `Kill` a client that is interrupted: a file that was being
written may be cut short, and nothing is taken back.

In `Initrd` a header is its offset, name and two sizes, and a stream is a length and a
set of headers: each header's 110 bytes lie in the stream, and none begins inside
another or its name. `find_first_newc_trailer` follows them as the client does,
`KernelReads` as the kernel does; the two compute the next offset in different ways (the
client aligns the end of the name, the kernel adds the aligned size of the name to a
header of 110 bytes), which is why they are both there. Behind the trailer the kernel is
`"between"` archives: it skips zeros and expects the next archive at a multiple of four.
Both readers are recursive functions of the offset, defined on the offsets of one stream.

### The rootfs commands

`tree` says how far each workspace or device is a Debian system, `file` what lies at
each path, `parents` which outputs have a directory, `mount` how a command has its
device mounted, `hash` whose archive a command took the hash of. `packed` and `stuck`
are history. In an `orderly` run one command at a time uses a path and the power stays.

`RequireEmpty` to `FinishBootstrap` are `init_workspace`, `MountSource` and `Unmount`
`import_source`, `Validate` to `Describe` `pack_workspace`. `PackError` is an early
return of `pack_workspace`: from `import_source` it leads to the umount. When the
umount fails the temporary directory is removed with the device mounted on it
(`UnmountFails`), which only a read-only mount survives. `Remove` and `Clear` are the
operator, who removes what failed commands left at paths that nobody uses.

### What is simplified

* `parse_mib` rounds up what `parted` prints, which is rounded itself: to two decimals below
  10 MiB, one below 100 and none from there on, and for an end it is the last byte's position.
  That is modelled (`ReadMib`), on sectors, for positions and sizes that are whole sectors.
* An end given to `sgdisk` in MiB is that boundary, to the sector. A staging start of 0 MiB
  is refused (on a disk no more than a MiB larger than what is staged).
* `resize2fs` either happens or does not; with `TornResize` a power loss inside it
  may cost the filesystem. The runs leave that out, because `VolumesKept`,
  `FailureBeforeErasureBoots` and `KeepsCustody` do not hold with it; the theorems
  about these three exclude it, the others hold with and without it. `resize2fs`
  refuses a size below the volume's `used`.
* Of the LVM only the physical volume's end is kept: it is the container's `hi`.
* The kernel's rules (no re-read while a partition is held, no new partition over
  one it still knows) and the tools are external, from the way the code uses them.
* A host whose root is on another disk has that root unaffected by `InPlaceInstall`.
* In `DirectInstall` a command that fails leaves none of its piece, the commands that
  make the volumes are one step, sizes always fit, and the firmware boots a disk with
  a complete system if there is one. The installer is not started twice in one boot.
  A name is always one that the checks of its syntax accept.
* That `systemd-ask-password` ends its line, that `cryptsetup --key-file=-` takes it as
  part of the key and that `clevis luks bind -k -` does not is how those tools are
  documented. In `InPlaceInstall`, which calls the same functions, the passphrase is the
  environment's.
* In the handoff a file is absent, whole or cut short. The staging directory of a
  client that died is not cut short by a power loss: nothing reads it again.
* The second copy of the manifest that an in-place client leaves in `/boot/encvol`
  is read by nobody and is part of `Embed`.
* In `Bundle` every build has one initrd, a tar that is cut off is one with an entry
  of another name, and `zstd` reads no frames but its own. An initrd whose first part
  is not compressed and has no trailer is only tried alone.
* In `Rootfs` the checks for the archive and the descriptor are one step, `tar` dies
  with the command that runs it, and mounting a filesystem read-only does not change
  it (the replay of a journal does).
* Which files a power loss may cut short is a guess of the worst case: all that were
  written since the last synchronisation. grub.cfg, grubenv and the firmware's
  variables are replaced as a whole by their tools.

## What TLC checks

The machines are eleven disks for either firmware: free space behind the root, and too
little of it; a boot partition before the root, which fills the rest; a cloud image
(partitions 14 and 15 before 1); a BIOS boot partition in the sectors before the first MiB,
so that no gap is read for the root behind it; a data partition behind the root; a second
disk with ext4, with xfs, with free space behind ext4, with two partitions, and an empty one.
The sources are the root, an archive of unknown size, one that fits and one that is larger
than the disk, which is the only case in which free space at the end is not enough for
the planner. The disk has 32768 sectors and the
headrooms are 1, 2 and 4 MiB, so that each branch of the planner (free space,
shrink, every refusal) is taken by some machine; `parted`'s other decimals, for positions
from 100 MiB on, are covered by the proofs alone. Two attempts are enough for one attempt to
find what the one before it left behind, a shrunk root and an abandoned staging
partition included. Failures may come in both, and
on four of the machines also in none or in the first only.

The machines of the handoff are eleven: BIOS and UEFI with GRUB, the kexec
fixture, a foreign snippet, a separate /boot, UEFI without GRUB with one and with
several entries and a gap in their numbers, and the hosts that are refused or lack
a part of the bundle, each eventful or calm. Two clients and two process ids are enough for two clients
at once, for one after the other, and for an id that is used again.

The machines of the direct installer have three disks: the root's and two others, in
every combination of being mounted by name, through a mapping, or by the RAM image,
for either firmware and layout, and two on which the passphrase is typed. Two other disks are enough for a first attempt on one
and a second on the other, and two attempts for one to meet what the other left.

The bundles are the two good kinds and a larger one, one with half of the pair, one
whose pair lacks the kernel, one with a component twice and one with an unknown entry.
Two calls are enough for one to come between any two steps of the other, and they have
every policy: signature and key, neither, or one without the other. The initrds have
names and files of every length modulo four, zeroes before and after, either
compression or none, and two segments; the steps of a writer and a reader of newc
depend on nothing else.

The build host has one workspace, one device, and three outputs: two that share their
descriptor and one inside the workspace. Two commands, one of which may fail or be
killed, are enough for one to find what the other left, at the same path or the other.

| Run | Shows |
|---|---|
| `InPlaceSafety` | all safety properties of the in-place installer and `EveryAttemptEnds`, with failing commands and power losses at every step; `AttemptInstalls` for the attempts in which nothing fails |
| `HandoffSafety` | the handoff's safety properties, `BootsOnce` and `OldSystemReturns`, with two clients at once, failing commands, power cuts and installers that stop before or behind their first deletion; on calm machines `ChoiceBootsItsManifest` and `HandoffBoots` |
| `DirectSafety` | the direct installer's properties, with failures and power cuts in the first of two attempts, whose container and ESP the second meets, when disks keep their names |
| `BundleSafety` | the bundle's properties, with files replaced and cut short between any two steps |
| `RootfsSafety` | the rootfs commands' properties, with failures, kills and a power cut |
| `StaleNodes`, `TailSpace`, `GapMoves`, `UefiKeepsBooting`, `UefiBootNumber`, `DirectAsked`, `DirectNames` | disagreements, below |

* `VolumesKept`: until the first deletion, every filesystem the disk held when the
  attempt was planned is complete, where it was, and inside its partition. The
  arithmetic of the shrink on the host, `resize2fs` and `sgdisk` in the RAM
  installer have to agree for this.
* `ErasedOnlyWithArchive`: no partition disappears unless the verified archive lies
  on the mounted staging filesystem, or the new system is finished.
* `ArchiveOutlivesErasure`: from the first deletion to the finished system the
  archive's filesystem is complete and listed.
* `FormatsListedPartition`: what is formatted is the partition the table lists, not
  one a stale device node leads to.
* `ContainerKept` and `ContainerRelistable`: the container is never written over or
  cut, and while its entry is deleted the disk would accept it again.
* `MountedStaysListed`, `FailureBeforeErasureBoots`, and `KeepsCustody`, the refinement.
  Of the first and third the machines are those on which the installer reads the right
  start of what it shrinks (`AlignedHosts`); `GapMoves` is about the others.
* `EveryAttemptEnds`: no attempt waits for anything, and one that has come to the growth ends
  with the new system, although the growth may be put off.
* `AttemptInstalls`: the first attempt in which nothing fails installs the system, and so does
  one after a failure that left no staging partition, if there is room (`HasRoom`): the
  partitions, as the plan leaves them, end where the staging partition and the margin of a
  MiB still fit behind them. Neither the planner nor the installer asks for that.
* Both assume weak fairness of the installer's
  steps (a sequential program whose commands return; a command that hangs forever
  is outside the model) and of the reboot of a machine that stopped. `Prepare` is
  not fair: nobody has to try again.

Of the handoff:

* `OldSystemStaysBootable`: wherever clients stop, until an installer deletes the old system a
  boot that follows no choice finds it. That grub.cfg and the boot order change as a whole
  is an assumption (above), so this is about the order of entries, not about a power cut
  in the middle of `update-grub`.
* `StagedOnce`: a staged initrd is never written again, although process ids come
  back after a reboot.
* `InstallerCarriesManifest`: with GRUB or kexec an installer that runs finds a
  client's manifest, never the bundle's own initrd and never half of one.
* `BootsOnce`, the refinement of `OneShot`: the installer starts only on a choice,
  and a choice is used once. A reboot that fails after `grub-reboot` leaves a
  choice for a later boot; that is allowed, and it is used once as well.
* `OldSystemReturns`: an installer that was not loaded, hung or gave up before it deleted
  anything leaves a machine that comes back to the old system. One that gave up later need
  not: what is then left is the matter of `InPlaceInstall` (`ArchiveOutlivesErasure`).
* `ChoiceBootsItsManifest`, `HandoffBoots`: on a calm machine what is left of an earlier handoff, done,
  killed or never rebooted, does not stop the next or get into it.
* `FairSpec` assumes that clients and the installer go on from step to step, that a
  machine that is off is switched on, and that the operator resets one that
  hangs. Nobody has to start a client.

Of the direct installer:

* `OnlyChosenDiskChanges`: no disk but the confirmed one is written, in a second
  attempt on another disk either. It holds while disks keep their names.
* `WritesAfterVerification`: nothing is written unless the verified archive is in RAM.
* `DoneIsComplete`: success means every piece of the system, each in its place, in a
  container that the recovery helper can open with the typed line.
* `RetryInstalls`: an attempt in which nothing fails installs the system, wherever the
  one before it stopped, if the passphrase comes from the environment (see `DirectAsked`
  for one that is typed). A container, volumes and an ESP of the one before are still inside
  the partitions when `luksFormat` and `mkfs.fat` come to them. Weak fairness of the installer's commands is enough.

Of the bundle:

* `StagedIsVerified`: what a call with a key has staged is the bundle whose signature it
  checked. The stored file and the signature may be replaced at any moment; it holds
  because the bundle is read once and unpacked from memory.
* `StagedIsBootable`: success means a whole kernel and initrd, or a whole image to boot,
  all of one build. In a directory that two calls share it holds because a component
  that is there is never opened again.
* `ParsersAgree`: the rules of `validate_bundle_structure` and those of
  `stage_bundle_bytes` accept the same tars.
* `StoredPairVerifies`: a finished fetch has left a bundle and its own signature, and
  `FetchSucceeds`: whatever halves lie there, the next undisturbed fetch repairs them.
* `ManifestUnpacked`: of an initrd of one archive the kernel unpacks what it unpacked
  before and the manifest.

Of the rootfs commands:

* `SourcesKept`: an import never changes what it packs, although a directory is removed
  recursively on top of it when the umount fails.
* `MountUndone`: an error anywhere in the packing does not leave the device mounted.
* `DescriptorNamesArchive`: a descriptor is only ever beside the complete archive it
  names, or beside nothing once the operator removed that.
* `FinishedKept`: a finished archive or descriptor is not written again, by a command
  for another format with the same descriptor either.
* `PackSucceeds`: once the operator has cleared up, the next pack succeeds.
* `FairSpec` of both modules: a call does not stop between two steps. Only calls that
  nobody kills and whose tools do not fail (`Steady`) are promised success. Nobody has
  to start one.

Deadlock is not checked: a machine that runs its old system with no attempt left,
the new system, or nothing at all, really has no next step.

### Disagreements

* `StaleNodes`: `partx` is refused while the kernel remembers an erased partition
  under the new one, after everything has been erased.
* `TailSpace`: a plan on existing free space is made wherever the disk does not end with a
  partition, because its end is taken for its size. Where there is too little the installer
  asks `sgdisk` for sectors of the last partition and is refused; nothing is lost, but a
  root that could be shrunk is not.
* `GapMoves`: an ext4 partition 1 behind a gap is created again at the start of the gap
  when it is shrunk (`partition_start_mib` reads the gap's row), before anything was
  archived, and its filesystem is not found any more. The documentation says that
  partitions are never moved.
* `UefiKeepsBooting`: the installer's entry stays first in BootOrder, so a machine
  whose installer stops boots it again, against the comment in `handoff.rs`.
* `UefiBootNumber`: BootNext gets the first number `efibootmgr` prints, which is an
  older entry's. The two mistakes hide each other: BootNext then boots the old
  system, and the next boot, in order, the installer.
* `DirectAsked`: a passphrase the operator types keeps the end of its line.
  `cryptsetup` makes it a part of the key, `clevis` and the recovery helper leave it out:
  the binding is refused when the disk has already been replaced. The QEMU tests pass
  the passphrase in the environment, where nothing follows it.
* `DirectNames`: the direct installer finds the disk by a kernel name the host gave
  out; when the next boot names the disks differently another disk is replaced. The
  in-place installer compares UUIDs, this one compares nothing.

Seen in the models, without a run of their own:

* The UEFI branch boots the bundle's own image (`handoff.rs:283-291`), in which no manifest was
  embedded, although `bundle/initrd.rs:52-54` says that the configuration is available in RAM.
* A disk that is in use through LVM or dm-crypt counts as not mounted (`is_mounted_source`),
  the running root's included (`unwrap_or(false)` at `main.rs:152`); the documentation says
  that mounted disks are refused.
* A root that starts inside a MiB is re-created at the next one, where its filesystem
  is not found (`partition_start_mib`); the documentation says partitions are never moved.
* The staging number is one more than the highest, so that a disk whose last entry has
  the highest number gets no plan although a lower number is free.
* The root is shrunk although another partition lies behind it
  (`choose_root_disk_staging`); the documentation says only a final partition is. The
  installer then finds no room at the end of the disk and stops.
* A root with number 1 is measured by the row of the gap before it, if there is one. With the
  usual gap of a MiB it counts as too small to shrink, so that a root disk of a cloud image
  is only ever installed on free space.
* Where the disk ends in free space a shrink is only considered when more is to be staged than
  the whole disk has. The end of the disk is then added to what the shrink would yield, so that
  it may be planned all the same, and the installer refuses it. On another disk than the root's
  what is shrunk is then the free range, as partition 1 (`final_partition`).
* The shrink precedes the download, and a power loss inside it can cost the
  filesystem (`TornResize`); the documentation says the archive is checked before
  the first destructive operation.
* The growth "deferred until reboot" is done by nobody; the system boots and keeps
  its smaller root.
* Where /boot is a filesystem of its own GRUB does not find the snippet's paths; the
  machine hangs and, reset, comes back.
* Two clients at once may boot one's manifest with the other's choice, which
  is why `ChoiceBootsItsManifest` is checked with one after the other.
* A second client copies encvol's own snippet over the backup of a foreign one.
* A retry of the in-place installer after an attempt that left its staging partition is
  planned at the same place, for the start is counted from the end of the disk, and stops,
  harmlessly, until somebody deletes that partition.
* The manifest is put before the first trailer; the comment on `embed_manifest` says the
  final one. In an initrd that begins with an archive of microcode the manifest then
  comes before there is a directory `etc`, and the kernel drops it; behind gzip's first
  member everything is dropped (`GzDecoder` reads one). The bundles' initrd has one archive.
* A fetch without a signature leaves an older signature beside the new bundle.
* `rootfs pack` refuses an output inside the workspace only if its directory exists; the
  message says it must not be inside. An output that ends in .json is its own descriptor,
  which is then written over the archive (`SelfDescribed`).
* A descriptor whose URL is not HTTPS is refused only after the archive has been written,
  and the next attempt is refused because of that archive.
* A workspace whose `debootstrap` failed after it unpacked the packages is packed.
* Two packers at once on one output write one file; nothing is synchronised before the
  descriptor says it is complete.

## What is proved

TLAPS checks these for every disk size, every set of well-formed machines, every
source and any number of attempts, with every failure and power loss allowed.
The assumptions are the named ones of the modules: a disk has a natural number of
sectors, the headrooms are positive, and the machines start with a well-formed
table whose filesystems are listed.

* `TypeCorrect`: type correctness. The work is in the arithmetic: the staging start
  (end - margin) - required and the container's end are natural numbers because
  of the comparisons that precede them. `ReadMibBounds` bounds what rounding twice can add.
* `FreeSpaceIsFound`: a plan on existing free space is carried out exactly when the free
  range begins no later than the staging partition will, (end - margin) - required. That is
  no hypothesis the code checks: where it fails the installer refuses, as in `TailSpace`.
* `ShrinkMakesRoom`: a planned shrink of the last partition is accepted, and behind it the
  installer finds room exactly when the planned end, the staging size and the margin do not
  exceed the end `parted` prints. The partition starts on a MiB, and no free range is read in
  its place. `SpareRoomSuffices` draws the conclusion for a partition that fills the disk:
  two MiB more than is asked for make up for the margin and every rounding.
* `ArchiveOutlivesErasureAlways`, `ErasedOnlyWithArchiveAlways`,
  `FormatsListedPartitionAlways`, `MountedStaysListedAlways`: from one inductive
  invariant, `Safe`. None of the four is inductive by itself. That the archive
  survives needs that the new partitions do not overlap staging (`WellFormed`,
  kept because `sgdisk` refuses overlaps), that `luksFormat` and `mkfs.fat` write to
  an entry of the table and not to a stale node (`NodesKept`, kept because `partx`
  comes first), that the staging number is at least 3 and not among the numbers to
  delete (`StagingKept`), and what each step already knows (`Phases`). `RootListed`
  adds that the old root's entry outlives its mount. Then there is one lemma per
  conjunct with a step per action, and lemmas on which actions change the table,
  the volumes and the plan, so that each lemma only visits those.
* `ContainerKeptAlways` and `ContainerRelistableAlways`, for every machine, from
  `DiskInv`. It adds to `Safe` what a disk and a planner are. `Disjoint`: volumes share
  no sector. `LayoutListed`: which numbers can be listed at each step, down to
  `table = {BootEntry}` while the container has no entry. `ContainersBehindBoot`: the
  second partition starts where the first ends, because the gap before the first is too
  small and the gap behind staging lies beyond the end that is asked for
  (`CryptBehindBoot`). So the noted start is the container's, the gap from there
  reaches the end of the disk, and the grown entry covers the container
  (`GrownEntryCovers`). That LUKS is kept by `mkfs.fat` is `WellFormed` again.
* `VolumesKeptAlways`, `FailureBeforeErasureBootsAlways`, `KeepsCustodyAlways` and
  `ACopyIsHeldAlways`, from `KeepInv`, under three hypotheses: `~TornResize`;
  `StartsOnMiB`, that the machine's ext4 filesystems start on a MiB (other partitions
  may start anywhere); and `FirstStartsInFront`, that no partition 1 which might be shrunk
  lies behind a gap that is read in its place and taken for large enough. That is one within
  the first MiB on another disk than the root's; a root with number 1 may lie as far behind
  as the size its filesystem would be given, because the gap then counts as a root too small
  to shrink. All three are real limits of the code, `GapMoves` and the list above show what
  happens without the last two. `PlanInPlace` is what a shrink needs: the start
  the installer will read is that of the entry with the filesystem, and the planner's end
  lies no nearer than the size the filesystem is given first. It follows from the plan
  (`PlansInPlace`: which row was read, by whom) and `FirstInFront`, that the hypothesis about
  partition 1 stays true of every later table. `ViewFollows` says that `resize2fs` and `mkfs` are
  given the partitions the table lists, `NothingToLose` that the staging number is none
  of theirs, and that an attempt with nothing to delete found nothing to keep.
  `RootKept` closes the circle over attempts: the next one is planned by a system that
  boots. The refinement then has a lemma for each part of the installer: before the
  erasure the old system is held (`StagingKeeps`), in the new layout the archive
  (`LayoutKeeps`), and while the container grows the new root (`GrowKeeps`), so that
  whatever else comes or goes is a step of `Custody` (`CopiesStep`).

For the handoff TLAPS proves, for any number of clients, ids and machines with the
assumptions named in `Handoff`, and with every failure and power cut allowed:

* `InstallerCarriesManifestAlways`, `StagedOnceAlways` and `BootsOnceAlways` from the
  inductive invariant `HandoffInv`. `Processes` says that clients that live have
  different ids and that none lives while the host is down; with it `Staged` knows
  what each step finds in its directory, so that the initrd in `/boot/encvol` is
  absent, cut short or a manifest's. `Choices` says that GRUB's choice and kexec's
  never exist together and that kexec's does not outlive the host; without it a
  step could give up two choices of `OneShot` at once, or bring one back.
* `OldSystemStaysBootableAlways`, which adds `Firmware`: the new boot entry takes a
  number no other has. That `FreeNumber` exists is counting: n entries cannot take
  all of 0 to n.
* `TypeCorrect`: type correctness. It rests on `Firmware` and on
  `BootNumbers`: the number a client took from the output is an entry's.
* `ChoiceBootsItsManifestAlways`, from `CalmInv`: on a calm machine
  one client runs, the initrd in `/boot/encvol` is its own from the copy to the choice,
  and a choice made before the last shutdown is still that of the initrd's client.

For the direct installer TLAPS proves, for any number of disks, names, machines and
attempts, `TypeCorrect`, `WritesAfterVerificationAlways`, `DoneIsCompleteAlways` and,
assuming `StableNames`, `OnlyChosenDiskChangesAlways`. The invariant `Inv` says what the
command before each step has left on the target (`LayoutProgress`, `SystemProgress`)
and what is mounted by then (`Mounted`): without the mounts the last pieces could be
anywhere. What an earlier attempt left in its container is gone from `luksFormat` on, its ESP
may stay until `mkfs.fat` (`LaidOut`, `OldEsp`), which a BIOS machine never has (`NoBiosEsp`). `Bound` says that behind the Tang binding the typed line opens the container. `Phases`
adds that the archive is verified from `wipefs` on.
`OnlyTargetWritten` is the lemma both action properties rest on.

For the rootfs commands TLAPS proves, for any number of commands, workspaces, devices
and paths, any descriptor of any path, and every failure, kill and power cut,
`TypeCorrect`, `SourceSafety`, `MountSafety`, `DescriptorSafety` and `FilesKept`. The
invariant has three parts. `Mounts`: a device is mounted read-only, and from the mount
to the umount only. `Phases`: a command that packs a device is on its way to the umount.
`Orderly`: in an orderly run two running commands have no path in common (`Separate`),
and what each has written so far is there (`Progress`), which is what a descriptor needs
to be true when it is written; it holds for others' files because they are not its own.

For the bundle TLAPS proves, for any number of calls, builds, directories and setups,
`TypeCorrect`, `VerifiedSafety`, `BootableSafety`, `ParserSafety`, `PairSafety` and
`ManifestSafety`. The
invariant says of each call what it has read and how far it has unpacked (`Call`: the
entries before `next` are in the directory, whole, and all different), that no two calls
have unpacked the same component of a directory (`Exclusive`), and, in an orderly setup,
what is stored between the two writes of a fetch (`Stored`). That a tar without
duplicates is what unpacking accepts is an argument about positions: of two equal
entries the second finds the component there.

`ManifestSafety` rests on `InitrdProofs`, which is about one stream of any length, any
headers, names and sizes in it, and a manifest of any size; the assumption
`InitrdAssumption` only says that sizes are numbers and that the names the model gives a
meaning to are names. The two readers are recursive functions of the offset, and an
induction over them is one over data. The library's induction theorems take an operator,
which the provers here cannot instantiate, so the proof carries its own in terms of sets:
`Backwards` says that a set of offsets is all of them when it has those beyond some bound
and each one behind which it has all (from the least element of a set of naturals,
`Least`), and
`RecursionFromTheEnd` that an equation which only asks for later offsets has a solution,
so that what a recursive function definition chooses satisfies it. Then:

* `CursorsAgree`: behind a header at a multiple of four the client's `NodeEnd` and the
  kernel's `KernelNext` are the same number, for every size.
* `InsertedStream`: what `insert_manifest_entries` returns is a stream again; no header
  it moves or adds begins inside another.
* `TrailerIsAligned`: a kernel that reads the stream without failing meets its only trailer
  at a multiple of four, and so does the client; there the manifest goes.
* `BehindTrailer`, `ReadsOnBehind`: behind the only trailer the kernel finds padding, and the
  same padding when it is moved by a multiple of four.
* `ReadsEntries`: at the insertion the kernel, which has made `etc` by then, reads the
  directory `etc/encvol`, the manifest, and then the trailer.
* `ReadsOn`: at every offset before it the old and the new stream are read alike, by
  induction from the trailer backwards.
* `InsertionIsRead` and `EmbeddingIsRead` put this together: for the stream, and for the
  initrd in each of its packings. In `Bundle` the conjunct `Embedded` of `Inv` says that
  what a call has embedded is what `embed_manifest_for_initrd` makes of the setup's initrd.

Model-checked only: liveness, which is out of the prover's reach. That is `EveryAttemptEnds`
and `AttemptInstalls` of the in-place installer, `OldSystemReturns` and `HandoffBoots` of
the handoff, `RetryInstalls` of the direct installer, `PackSucceeds` of the rootfs commands
and `FetchSucceeds` of the bundle. Every invariant, action property and refinement of the
passing runs has a theorem.

## Not modelled

Of the installed system only whether it is complete is modelled: that its crypttab names
the container by a kernel name, too, is listed as a hazard. Network capture, redaction,
the displayed plan and the build script format text and keep no state. Scripts and QEMU tests are not part of the
program.

## Plan

1. Done: `Gpt`, `StagingPlan`, `InPlaceInstall`, `Custody`, their runs and proofs.
2. Done: `Handoff`, `OneShot`, their runs, the proofs of the safety properties and of
   the refinement.
3. Done: `DirectInstall`, its runs, the proofs of the safety properties.
4. Done: `Initrd`, `Bundle`, their run and proofs.
5. `Manifest` and `Safety` as operators: what the planner writes is accepted.
6. Done: `Rootfs`, its run and proofs.
7. Done: the proofs of `VolumesKept`, `ContainerKept` and the refinement of `Custody`.

The runs are kept to a dozen, so that checking all of them stays a matter of
minutes: a new component's properties share a run, and room for one is made by moving
the smaller disagreements (the UEFI image without a manifest, disks in use through a
mapping) to the list of those without a run.
