------------------------------- MODULE Handoff -------------------------------
(***************************************************************************)
(* The client, from its start on the running host to the boot of the RAM   *)
(* installer: it stages the bundle, embeds the manifest and has the        *)
(* machine boot the installer once, by GRUB's one-shot entry, by UEFI's    *)
(* BootNext or by kexec.  Several clients may run, one after the other or  *)
(* at the same time; commands fail, the power goes, the machine reboots.   *)
(***************************************************************************)
EXTENDS Naturals, Sequences, FiniteSets

CONSTANTS
    Clients,     \* runs of "encvol install --execute"
    Pids,        \* the process ids they may get
    Machines,    \* see MachinesAssumption
    NoClient

(***************************************************************************)
(* uefi, esp, efivars, grub: what preflight finds (HostCapabilities, esp:  *)
(* a mounted ESP); direct_kexec: a fixture of the QEMU tests that asks for *)
(* kexec; separate: /boot is a filesystem of its own; bundle: what the     *)
(* embedded bundle holds; snippet: a foreign file is where the GRUB        *)
(* snippet goes; boots: the numbers of the firmware's boot entries (a BIOS *)
(* has its boot device instead); calm: the operator waits for one client   *)
(* before the next, no command fails by itself and the power stays.        *)
(***************************************************************************)
Bundles == {{"kernel", "initrd"}, {"uki"}, {"kernel", "initrd", "uki"}}

ASSUME MachinesAssumption ==
    \A m \in Machines :
        /\ {m.uefi, m.esp, m.efivars, m.grub, m.direct_kexec, m.separate, m.calm} \subseteq BOOLEAN
        /\ m.bundle \in Bundles
        /\ m.snippet \in {"none", "foreign"}
        /\ m.boots \in Seq(Nat)
        /\ m.grub \/ m.boots # <<>>

ASSUME ClientsAssumption ==
    /\ NoClient \notin Clients
    /\ Clients \cap {"none", "base", "torn"} = {}

VARIABLES
    machine,
    power,      \* what the machine does: see Powers
    pc,         \* each client's next step, or how it ended
    mode,       \* direct or in-place
    pid,        \* each client's process id
    number,     \* the boot number each client read from efibootmgr's output
    dirs,       \* the staging directory of each process id, its initrd
    kernel,     \* /boot/encvol/installer.kernel
    initrd,     \* /boot/encvol/installer.initrd: the manifest in it
    snippet,    \* /etc/grub.d/42_encvol_installer
    backup,     \* /var/lib/encvol/42_encvol_installer.backup
    menu,       \* the entries of grub.cfg; the first one is the default
    nextEntry,  \* grubenv: the client that chose the installer's entry
    uki,        \* the loader on the ESP
    efi,        \* the firmware's boot entries: number -> "os" or a mode
    order,      \* BootOrder
    bootNext,   \* BootNext, {} or {number}
    loaded,     \* the client whose installer kexec has loaded
    unsynced,   \* files written since the filesystems were last synchronised
    booted,     \* the manifest the running installer finds in its initrd
    flag,       \* the mode on its command line
    chosenBy    \* history: the client whose choice led to this boot

clientVars == <<pc, mode, pid, number>>
grubVars   == <<kernel, initrd, snippet, backup, menu, nextEntry>>
uefiVars   == <<uki, efi, order, bootNext>>
ranVars    == <<booted, flag, chosenBy>>
vars == <<machine, power, clientVars, dirs, grubVars, uefiVars, loaded, unsynced, ranVars>>

Modes  == {"direct", "in-place"}

\* stuck: it hangs, or shows an error, and the old system is still there.
\* dead: it stopped, and the installer had begun to delete the old system.
Powers == {"host", "off", "stuck", "installer", "installed", "dead"}
GrubSteps  == {"copy_kernel", "copy_initrd", "preserve", "snippet", "update_grub", "grub_reboot", "reboot"}
UefiSteps  == {"copy_uki", "create_entry", "bootnext", "reboot"}
KexecSteps == {"load", "exec"}
Steps      == {"stage", "embed"} \cup GrubSteps \cup UefiSteps \cup KexecSteps
Ends       == {"new", "error", "killed", "done"}

Running == {c \in Clients : pc[c] \in Steps}

\* An initrd: absent, as in the bundle, cut short, or with a client's manifest.
Initrds == {"none", "base", "torn"} \cup Clients

TypeOK ==
    /\ machine \in Machines /\ power \in Powers
    /\ pc \in [Clients -> Steps \cup Ends] /\ mode \in [Clients -> Modes]
    /\ pid \in [Clients -> Pids] /\ number \in [Clients -> Nat]
    /\ dirs \in [Pids -> Initrds]
    /\ kernel \in {"none", "torn", "whole"} /\ initrd \in Initrds
    /\ {snippet, backup} \subseteq {"none", "foreign", "torn"} \cup Modes
    /\ menu \in Seq({"os"} \cup Modes) \ {<<>>}
    /\ nextEntry \in Clients \cup {NoClient}
    /\ uki \in {"none", "torn", "whole"}
    /\ DOMAIN efi \subseteq Nat /\ \A n \in DOMAIN efi : efi[n] \in {"os"} \cup Modes
    /\ order \in Seq(DOMAIN efi) /\ bootNext \subseteq DOMAIN efi
    /\ loaded \in Clients \cup {NoClient}
    /\ unsynced \subseteq {"kernel", "initrd", "snippet", "uki"}
    /\ booted \in Initrds /\ flag \in Modes /\ chosenBy \in Clients \cup {NoClient}

-----------------------------------------------------------------------------
Init ==
    /\ machine \in Machines /\ power = "host"
    /\ pc = [c \in Clients |-> "new"] /\ mode \in [Clients -> Modes]
    /\ pid \in [Clients -> Pids] /\ number = [c \in Clients |-> 0]
    /\ dirs = [p \in Pids |-> "none"]
    /\ kernel = "none" /\ initrd = "none"
    /\ snippet = machine.snippet /\ backup = "none"
    /\ menu = <<"os">> /\ nextEntry = NoClient
    /\ uki = "none"
    /\ efi = [n \in {machine.boots[i] : i \in DOMAIN machine.boots} |-> "os"]
    /\ order = machine.boots /\ bootNext = {}
    /\ loaded = NoClient
    /\ unsynced = {}
    /\ booted = "none" /\ flag = "direct" /\ chosenBy = NoClient

select_handoff ==
    IF machine.direct_kexec THEN "kexec"
    ELSE IF machine.grub THEN "grub-once"
    ELSE IF machine.uefi /\ machine.efivars /\ machine.esp THEN "uefi-bootnext"
    ELSE "unsupported"

\* Do commands fail for a reason of their own on this machine?
MayFail == ~machine.calm

Step(c, from, to) == power = "host" /\ pc[c] = from /\ pc' = [pc EXCEPT ![c] = to]

\* The error is printed and the client exits; nothing is taken back.
Error(c, from) == Step(c, from, "error")

\* The confirmed client found its plan and a handoff.  Two processes that live
\* at the same time have different ids.
Start(c) ==
    /\ Step(c, "new", "stage")
    /\ select_handoff # "unsupported"
    /\ \A d \in Running : ~machine.calm /\ pid[d] # pid[c]
    /\ UNCHANGED <<machine, power, mode, pid, number, dirs, grubVars, uefiVars, loaded, unsynced, ranVars>>

-----------------------------------------------------------------------------
(* Staging and the manifest: stage_bundle_bytes, embed_manifest.           *)

\* (Mutant of Stage: files that exist are opened and written.)
StageOver(c) ==
    /\ Step(c, "stage", "embed")
    /\ dirs' = [dirs EXCEPT ![pid[c]] = "base"]
    /\ UNCHANGED <<machine, power, mode, pid, number, grubVars, uefiVars, loaded, unsynced, ranVars>>

\* The directory is named for the process id.  Its files are created, never
\* opened if they exist.
Stage(c) ==
    /\ Step(c, "stage", "embed")
    /\ dirs[pid[c]] = "none"
    /\ dirs' = [dirs EXCEPT ![pid[c]] = "base"]
    /\ UNCHANGED <<machine, power, mode, pid, number, grubVars, uefiVars, loaded, unsynced, ranVars>>

StageFails(c) ==
    /\ Error(c, "stage")
    /\ \/ dirs[pid[c]] # "none" /\ UNCHANGED dirs
       \/ dirs[pid[c]] = "none" /\ MayFail /\ dirs' = [dirs EXCEPT ![pid[c]] = "torn"]
    /\ UNCHANGED <<machine, power, mode, pid, number, grubVars, uefiVars, loaded, unsynced, ranVars>>

\* The first step of the handoff that was selected.
HandoffStep ==
    IF select_handoff = "kexec" THEN "load"
    ELSE IF select_handoff = "uefi-bootnext" THEN "copy_uki"
    ELSE "copy_kernel"

\* (Mutant of Embed: the initrd is read, and written as it was.)
EmbedNothing(c) ==
    /\ Step(c, "embed", HandoffStep)
    /\ "initrd" \in machine.bundle
    /\ UNCHANGED <<machine, power, mode, pid, number, dirs, grubVars, uefiVars, loaded, unsynced, ranVars>>

\* The manifest goes into the staged initrd, and into no other file.  (A
\* bundle without a kernel and an initrd is refused.)
Embed(c) ==
    /\ Step(c, "embed", HandoffStep)
    /\ "initrd" \in machine.bundle
    /\ dirs' = [dirs EXCEPT ![pid[c]] = c]
    /\ UNCHANGED <<machine, power, mode, pid, number, grubVars, uefiVars, loaded, unsynced, ranVars>>

EmbedFails(c) ==
    /\ Error(c, "embed")
    /\ \/ (MayFail \/ "initrd" \notin machine.bundle) /\ UNCHANGED dirs
       \/ MayFail /\ dirs' = [dirs EXCEPT ![pid[c]] = "torn"]
    /\ UNCHANGED <<machine, power, mode, pid, number, grubVars, uefiVars, loaded, unsynced, ranVars>>

-----------------------------------------------------------------------------
(* GRUB's one-shot entry.                                                  *)

CopyKernel(c) ==
    /\ Step(c, "copy_kernel", "copy_initrd")
    /\ kernel' = "whole" /\ unsynced' = unsynced \cup {"kernel"}
    /\ UNCHANGED <<machine, power, mode, pid, number, dirs, initrd, snippet, backup, menu, nextEntry,
                   uefiVars, loaded, ranVars>>

\* (Mutant of CopyInitrd: an initrd that is there is kept.)
CopyInitrdOnce(c) ==
    /\ Step(c, "copy_initrd", "preserve")
    /\ initrd' = IF initrd = "none" THEN dirs[pid[c]] ELSE initrd
    /\ unsynced' = unsynced \cup {"initrd"}
    /\ UNCHANGED <<machine, power, mode, pid, number, dirs, kernel, snippet, backup, menu, nextEntry,
                   uefiVars, loaded, ranVars>>

CopyInitrd(c) ==
    /\ Step(c, "copy_initrd", "preserve")
    /\ initrd' = dirs[pid[c]] /\ unsynced' = unsynced \cup {"initrd"}
    /\ UNCHANGED <<machine, power, mode, pid, number, dirs, kernel, snippet, backup, menu, nextEntry,
                   uefiVars, loaded, ranVars>>

\* A snippet that is there is copied to the recovery directory first.
PreserveSnippet(c) ==
    /\ Step(c, "preserve", "snippet")
    /\ backup' = IF snippet = "none" THEN backup ELSE snippet
    /\ UNCHANGED <<machine, power, mode, pid, number, dirs, kernel, initrd, snippet, menu, nextEntry,
                   uefiVars, loaded, unsynced, ranVars>>

\* The snippet is written and made executable.
WriteSnippet(c) ==
    /\ Step(c, "snippet", "update_grub")
    /\ snippet' = mode[c] /\ unsynced' = unsynced \cup {"snippet"}
    /\ UNCHANGED <<machine, power, mode, pid, number, dirs, kernel, initrd, backup, menu, nextEntry,
                   uefiVars, loaded, ranVars>>

\* (Mutants of UpdateGrub: a snippet numbered before the systems', a snippet
\* cut short that passes, an update that is not made.)
UpdateGrubAs(c, new) ==
    /\ Step(c, "update_grub", "grub_reboot")
    /\ menu' = new
    /\ UNCHANGED <<machine, power, mode, pid, number, dirs, kernel, initrd, snippet, backup, nextEntry,
                   uefiVars, loaded, unsynced, ranVars>>

UpdateGrubFirst(c)     == snippet \in Modes /\ UpdateGrubAs(c, <<snippet, "os">>)
UpdateGrubUnchecked(c) == UpdateGrubAs(c, <<"os", snippet>>)
UpdateGrubSkipped(c)   == UpdateGrubAs(c, menu)

\* update-grub replaces the menu as a whole.  Snippet 42 comes behind the
\* entries of the installed systems.
UpdateGrub(c) ==
    /\ Step(c, "update_grub", "grub_reboot")
    /\ snippet \in Modes
    /\ menu' = <<"os", snippet>>
    /\ UNCHANGED <<machine, power, mode, pid, number, dirs, kernel, initrd, snippet, backup, nextEntry,
                   uefiVars, loaded, unsynced, ranVars>>

GrubReboot(c) ==
    /\ Step(c, "grub_reboot", "reboot")
    /\ nextEntry' = c
    /\ UNCHANGED <<machine, power, mode, pid, number, dirs, kernel, initrd, snippet, backup, menu,
                   uefiVars, loaded, unsynced, ranVars>>

\* What a step that fails half way leaves of the file it writes.
GrubFails(c) ==
    /\ \/ /\ Error(c, "copy_kernel") /\ MayFail
          /\ kernel' \in {kernel, "torn"} /\ UNCHANGED <<initrd, snippet, backup>>
       \/ /\ Error(c, "copy_initrd") /\ MayFail
          /\ initrd' \in {initrd, "torn"} /\ UNCHANGED <<kernel, snippet, backup>>
       \/ /\ Error(c, "preserve") /\ MayFail
          /\ backup' \in {backup, "torn"} /\ UNCHANGED <<kernel, initrd, snippet>>
       \/ /\ Error(c, "snippet") /\ MayFail
          /\ snippet' \in {snippet, "torn", mode[c]} /\ UNCHANGED <<kernel, initrd, backup>>
       \/ /\ Error(c, "update_grub") /\ (MayFail \/ snippet \notin Modes)
          /\ UNCHANGED <<kernel, initrd, snippet, backup>>
       \/ /\ Error(c, "grub_reboot") /\ MayFail
          /\ UNCHANGED <<kernel, initrd, snippet, backup>>
    /\ UNCHANGED <<machine, power, mode, pid, number, dirs, menu, nextEntry,
                   uefiVars, loaded, unsynced, ranVars>>

-----------------------------------------------------------------------------
(* UEFI's BootNext.                                                        *)

CopyUki(c) ==
    /\ Step(c, "copy_uki", "create_entry")
    /\ "uki" \in machine.bundle
    /\ uki' = "whole" /\ unsynced' = unsynced \cup {"uki"}
    /\ UNCHANGED <<machine, power, mode, pid, number, dirs, grubVars, efi, order, bootNext, loaded, ranVars>>

Lowest(S) == CHOOSE n \in S : \A k \in S : n <= k

\* The number efibootmgr gives a new entry.
FreeNumber == Lowest((0 .. Cardinality(DOMAIN efi)) \ DOMAIN efi)

\* efibootmgr --create prints all entries afterwards, by number or the new one
\* last; boot_number takes the first that is printed.
boot_number(new) ==
    {Lowest(DOMAIN efi \cup {new})} \cup (IF DOMAIN efi = {} THEN {} ELSE {Lowest(DOMAIN efi)})

\* --create makes the entry and puts it in front of BootOrder.  The number is
\* taken from the output.
CreateEntry(c) ==
    /\ Step(c, "create_entry", "bootnext")
    /\ efi' = [n \in DOMAIN efi \cup {FreeNumber} |-> IF n = FreeNumber THEN mode[c] ELSE efi[n]]
    /\ order' = <<FreeNumber>> \o order
    /\ \E n \in boot_number(FreeNumber) : number' = [number EXCEPT ![c] = n]
    /\ UNCHANGED <<machine, power, mode, pid, dirs, grubVars, uki, bootNext, loaded, unsynced, ranVars>>

SetBootNext(c) ==
    /\ Step(c, "bootnext", "reboot")
    /\ bootNext' = {number[c]}
    /\ UNCHANGED <<machine, power, mode, pid, number, dirs, grubVars, uki, efi, order, loaded, unsynced, ranVars>>

UefiFails(c) ==
    /\ \/ /\ Error(c, "copy_uki") /\ (MayFail \/ "uki" \notin machine.bundle)
          /\ UNCHANGED uki
       \/ Error(c, "copy_uki") /\ MayFail /\ uki' = "torn"
       \/ Error(c, "create_entry") /\ MayFail /\ UNCHANGED uki
       \/ Error(c, "bootnext") /\ MayFail /\ UNCHANGED uki
    /\ UNCHANGED <<machine, power, mode, pid, number, dirs, grubVars, efi, order, bootNext,
                   loaded, unsynced, ranVars>>

-----------------------------------------------------------------------------
(* The end of the client, and kexec.                                       *)

\* Every process ends with the system; c, if it is a client, has succeeded.
Ended(c) == [d \in Clients |-> IF d = c THEN "done" ELSE IF pc[d] \in Steps THEN "killed" ELSE pc[d]]

\* systemctl reboot: the filesystems are synchronised.
Reboot(c) ==
    /\ power = "host" /\ pc[c] = "reboot"
    /\ pc' = Ended(c) /\ power' = "off"
    /\ unsynced' = {} /\ loaded' = NoClient
    /\ UNCHANGED <<machine, mode, pid, number, dirs, grubVars, uefiVars, ranVars>>

\* (The kexec handoff loads the staged files where they are.)
LoadKexec(c) ==
    /\ Step(c, "load", "exec")
    /\ loaded' = c
    /\ UNCHANGED <<machine, power, mode, pid, number, dirs, grubVars, uefiVars, unsynced, ranVars>>

\* The installer is loaded and runs, or does not come up.
Comes(works) == power' \in (IF works THEN {"installer"} ELSE {"stuck"}) \cup (IF MayFail THEN {"stuck"} ELSE {})

ExecKexec(c) ==
    /\ power = "host" /\ pc[c] = "exec"
    /\ pc' = Ended(c) /\ Comes(TRUE)
    /\ booted' = dirs[pid[loaded]] /\ flag' = mode[loaded] /\ chosenBy' = loaded
    /\ unsynced' = {} /\ loaded' = NoClient
    /\ UNCHANGED <<machine, mode, pid, number, dirs, grubVars, uefiVars>>

\* The last command of a handoff, or the loading, fails: what was chosen stays.
LastStepFails(c) ==
    /\ MayFail
    /\ Error(c, "reboot") \/ Error(c, "load") \/ Error(c, "exec")
    /\ UNCHANGED <<machine, power, mode, pid, number, dirs, grubVars, uefiVars, loaded, unsynced, ranVars>>

-----------------------------------------------------------------------------
(* The machine: its operator, its power, its boot loaders.                 *)

OperatorReboots ==
    /\ power = "host" /\ power' = "off"
    /\ pc' = Ended(NoClient)
    /\ unsynced' = {} /\ loaded' = NoClient
    /\ UNCHANGED <<machine, mode, pid, number, dirs, grubVars, uefiVars, ranVars>>

OperatorResets ==
    /\ power = "stuck" /\ power' = "off"
    /\ UNCHANGED <<machine, clientVars, dirs, grubVars, uefiVars, loaded, unsynced, ranVars>>

\* The installer accepts a manifest; an in-place one only with its flag.
Accepted == booted \in Clients /\ (mode[booted] = "in-place" => flag = "in-place")

\* Files that were not synchronised may be cut short.  An installer at work may
\* have begun to delete.
PowerCut ==
    /\ ~machine.calm
    /\ power \in {"host", "installer"}
    /\ power' \in {"off"} \cup (IF power = "installer" /\ Accepted THEN {"dead"} ELSE {})
    /\ pc' = Ended(NoClient)
    /\ \E cut \in SUBSET unsynced :
          /\ kernel' = IF "kernel" \in cut THEN "torn" ELSE kernel
          /\ initrd' = IF "initrd" \in cut THEN "torn" ELSE initrd
          /\ snippet' = IF "snippet" \in cut THEN "torn" ELSE snippet
          /\ uki' = IF "uki" \in cut THEN "torn" ELSE uki
    /\ unsynced' = {} /\ loaded' = NoClient
    /\ UNCHANGED <<machine, mode, pid, number, dirs, backup, menu, nextEntry, efi, order, bootNext, ranVars>>

\* The entry GRUB boots: the one grubenv names if the menu has it.
GrubEntry ==
    IF nextEntry # NoClient /\ \E i \in DOMAIN menu : menu[i] \in Modes
      THEN CHOOSE e \in Modes : \E i \in DOMAIN menu : menu[i] = e
      ELSE Head(menu)

\* The snippet's paths begin with /boot, which GRUB does not find when /boot is
\* the filesystem it reads them from.
GrubLoads == kernel = "whole" /\ initrd \notin {"none", "torn"} /\ ~machine.separate

\* GRUB clears the choice before it boots the entry.
GrubBoot ==
    /\ power = "off" /\ machine.grub
    /\ nextEntry' = NoClient
    /\ IF GrubEntry = "os"
         THEN power' = "host" /\ UNCHANGED ranVars
         ELSE /\ Comes(GrubLoads)
              /\ booted' = initrd /\ flag' = GrubEntry /\ chosenBy' = nextEntry
    /\ UNCHANGED <<machine, clientVars, dirs, kernel, initrd, snippet, backup, menu, uefiVars, loaded, unsynced>>

\* The firmware tries BootNext, then BootOrder.
Tries == IF bootNext = {} THEN order ELSE <<Lowest(bootNext)>> \o order

FirmwareEntry ==
    LET loadable == {i \in DOMAIN Tries : efi[Tries[i]] = "os" \/ uki = "whole"}
    IN  efi[Tries[Lowest(loadable)]]

\* The loader holds the initrd of the bundle.
UefiBoot ==
    /\ power = "off" /\ ~machine.grub
    /\ bootNext' = {}
    /\ IF FirmwareEntry = "os"
         THEN power' = "host" /\ UNCHANGED ranVars
         ELSE /\ Comes(TRUE)
              /\ booted' = "base" /\ flag' = FirmwareEntry /\ chosenBy' = NoClient
    /\ UNCHANGED <<machine, clientVars, dirs, grubVars, uki, efi, order, loaded, unsynced>>

InstallerSucceeds ==
    /\ power = "installer" /\ Accepted
    /\ power' = "installed"
    /\ UNCHANGED <<machine, clientVars, dirs, grubVars, uefiVars, loaded, unsynced, ranVars>>

\* The manifest is not accepted, or a step fails before the first one that
\* deletes something of the old system.
InstallerStops ==
    /\ power = "installer" /\ (MayFail \/ ~Accepted)
    /\ power' = "stuck"
    /\ UNCHANGED <<machine, clientVars, dirs, grubVars, uefiVars, loaded, unsynced, ranVars>>

\* A step fails after that one.  (An in-place installer deletes the old
\* partitions; a direct one, whose disk is found by its name, may take the old
\* system's for the confirmed one: see DirectInstall.)
InstallerStopsErased ==
    /\ power = "installer" /\ MayFail /\ Accepted
    /\ power' = "dead"
    /\ UNCHANGED <<machine, clientVars, dirs, grubVars, uefiVars, loaded, unsynced, ranVars>>

-----------------------------------------------------------------------------
Advance(c) ==
    \/ Stage(c) \/ StageFails(c) \/ Embed(c) \/ EmbedFails(c)
    \/ CopyKernel(c) \/ CopyInitrd(c) \/ PreserveSnippet(c) \/ WriteSnippet(c)
    \/ UpdateGrub(c) \/ GrubReboot(c) \/ GrubFails(c)
    \/ CopyUki(c) \/ CreateEntry(c) \/ SetBootNext(c) \/ UefiFails(c)
    \/ LoadKexec(c) \/ ExecKexec(c) \/ Reboot(c) \/ LastStepFails(c)

Boot == GrubBoot \/ UefiBoot

Installer == InstallerSucceeds \/ InstallerStops \/ InstallerStopsErased

Next ==
    \/ \E c \in Clients : Start(c) \/ Advance(c)
    \/ OperatorReboots \/ OperatorResets \/ PowerCut \/ Boot \/ Installer

Spec == Init /\ [][Next]_vars

\* Clients and the installer do not stop between two steps, a machine that is
\* off is switched on, and the operator resets one that hangs.
FairSpec ==
    /\ Spec
    /\ \A c \in Clients : WF_vars(Advance(c))
    /\ WF_vars(Boot) /\ WF_vars(Installer) /\ WF_vars(OperatorResets)

-----------------------------------------------------------------------------
(* What the handoff guarantees.                                            *)

\* Whatever fails and in whatever order clients write their files, until an
\* installer deletes the old system a boot that follows no choice finds it: first
\* in GRUB's menu, or somewhere in the firmware's order.
OldSystemStaysBootable ==
    power \notin {"installed", "dead"} =>
        IF machine.grub THEN Head(menu) = "os" ELSE \E i \in DOMAIN order : efi[order[i]] = "os"

\* What a client has staged is never written again, neither by another client
\* that runs at the same time nor by a later one with the same process id.
StagedOnce == [][\A p \in Pids : dirs[p] \in Clients => dirs'[p] = dirs[p]]_vars

\* With GRUB or kexec an installer that runs finds in its initrd the manifest of
\* a client: a boot never gets the bundle's own initrd, nor half of one.
InstallerCarriesManifest == machine.grub /\ power = "installer" => booted \in Clients

Promise == INSTANCE OneShot WITH
    choice <- IF loaded # NoClient THEN loaded ELSE nextEntry,
    active <- machine.grub /\ power = "installer"

\* With GRUB or kexec the installer starts only because a client chose it, and
\* once per choice, whatever fails.
BootsOnce == Promise!Spec

\* "If the staged installer cannot boot, a later reboot follows the ordinary
\* boot order and returns to the old system" (handoff.rs).
OrdinaryBootReturns == power = "stuck" ~> power = "host"

\* With GRUB or kexec it does: a machine whose installer was not loaded, hung or
\* gave up before it deleted anything comes back to the old system.
OldSystemReturns == (machine.grub /\ power = "stuck") ~> power = "host"

\* "Stage a verified bundle and select it for exactly one boot" (handoff.rs):
\* where clients run one after the other the choice of one boots what it staged,
\* whatever an earlier one left.
ChoiceBootsItsManifest ==
    machine.calm /\ machine.grub /\ power = "installer" => booted = chosenBy

\* "performs the selected one-time boot handoff" (README.md): where no command
\* fails, the choice of GRUB's entry leads to the installer.
HandoffBoots ==
    (machine.calm /\ ~machine.separate /\ nextEntry # NoClient) ~> power = "installer"

\* "select it for exactly one boot" (handoff.rs): the entry BootNext names is
\* the installer's.
BootNextIsInstaller == \A n \in bootNext : efi[n] \in Modes
=============================================================================
