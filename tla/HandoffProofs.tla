---------------------------- MODULE HandoffProofs ----------------------------
(***************************************************************************)
(* Proofs about Handoff, for any number of clients, process ids and        *)
(* machines, with all failures: what is staged stays, installers that      *)
(* start through GRUB or kexec are whole and carry a manifest, and the     *)
(* handoff implements OneShot.  Then: on a calm machine a choice boots the *)
(* manifest it was made with.  At the end: type correctness.               *)
(***************************************************************************)
EXTENDS Handoff, FiniteSetTheorems, WellFoundedInduction, TLAPS

Handing == GrubSteps \cup UefiSteps \cup KexecSteps

\* The part of the type invariant the proofs use.
Types ==
    /\ machine \in Machines /\ power \in Powers
    /\ pc \in [Clients -> Steps \cup Ends]
    /\ pid \in [Clients -> Pids] /\ dirs \in [Pids -> Initrds]
    /\ initrd \in {"none", "torn"} \cup Clients
    /\ menu \in {<<"os">>} \cup {<<"os", m>> : m \in Modes}
    /\ nextEntry \in Clients \cup {NoClient} /\ loaded \in Clients \cup {NoClient}

\* Processes that live have ids of their own, and a machine that is not up has
\* no processes.
Processes ==
    /\ \A c, d \in Clients : c # d /\ pc[c] \in Steps /\ pc[d] \in Steps => pid[c] # pid[d]
    /\ power # "host" => \A c \in Clients : pc[c] \notin Steps

\* What the staging directory holds, by the step its client is at.
Staged ==
    /\ \A c \in Clients : pc[c] = "embed" => dirs[pid[c]] = "base"
    /\ \A c \in Clients : pc[c] \in Handing => dirs[pid[c]] = c
    /\ loaded # NoClient => dirs[pid[loaded]] = loaded

\* Which choices there can be: kexec and GRUB do not meet on one machine, and
\* what kexec has loaded is gone once the host is down.
Choices ==
    /\ \A c \in Clients : pc[c] \in {"load", "exec"} => machine.direct_kexec
    /\ \A c \in Clients : pc[c] \in GrubSteps \ {"reboot"} => ~machine.direct_kexec
    /\ \A c \in Clients : pc[c] = "exec" => loaded # NoClient
    /\ nextEntry # NoClient => ~machine.direct_kexec
    /\ loaded # NoClient => machine.direct_kexec
    /\ power # "host" => loaded = NoClient

HandoffInv == Types /\ Processes /\ Staged /\ Choices /\ InstallerCarriesManifest

\* HandoffInv holds when the first client has not begun.
LEMMA InitHandoff == Init => HandoffInv
  <1> SUFFICES ASSUME Init PROVE HandoffInv
    OBVIOUS
  <1> USE DEF Init
  <1>1. Types
    BY DEF Types, Powers, Steps, Ends, Initrds
  <1>2. Processes
    BY DEF Processes, Steps, GrubSteps, UefiSteps, KexecSteps
  <1>3. Staged
    BY DEF Staged, Handing, GrubSteps, UefiSteps, KexecSteps
  <1>4. Choices
    BY DEF Choices, GrubSteps
  <1>5. InstallerCarriesManifest
    BY DEF InstallerCarriesManifest
  <1> QED
    BY <1>1, <1>2, <1>3, <1>4, <1>5 DEF HandoffInv

\* Every step keeps the types.  The initrd that is copied carries a manifest
\* because of Staged.
LEMMA TypesStep == HandoffInv /\ [Next]_vars => Types'
  <1> SUFFICES ASSUME HandoffInv, [Next]_vars PROVE Types'
    OBVIOUS
  <1> USE DEF HandoffInv, Types, grubVars, uefiVars, ranVars, clientVars
  <1>1. ASSUME NEW c \in Clients, Start(c) PROVE Types'
    BY <1>1 DEF Start, Step, Steps
  <1>2. ASSUME NEW c \in Clients, Stage(c) \/ StageFails(c) PROVE Types'
    BY <1>2 DEF Stage, StageFails, Error, Step, Steps, Ends, Initrds
  <1>3. ASSUME NEW c \in Clients, Embed(c) \/ EmbedFails(c) PROVE Types'
    <2>1. HandoffStep \in Steps
      BY DEF HandoffStep, Steps, GrubSteps, UefiSteps, KexecSteps
    <2> QED
      BY <1>3, <2>1 DEF Embed, EmbedFails, Error, Step, Ends, Initrds
  <1>4. ASSUME NEW c \in Clients,
               CopyKernel(c) \/ PreserveSnippet(c) \/ WriteSnippet(c) \/ GrubReboot(c)
        PROVE  Types'
    BY <1>4 DEF CopyKernel, PreserveSnippet, WriteSnippet, GrubReboot, Step, Steps, GrubSteps
  <1>5. ASSUME NEW c \in Clients, CopyInitrd(c) PROVE Types'
    <2>1. dirs[pid[c]] = c
      BY <1>5 DEF CopyInitrd, Step, Staged, Handing, GrubSteps
    <2> QED
      BY <1>5, <2>1 DEF CopyInitrd, Step, Steps, GrubSteps
  <1>6. ASSUME NEW c \in Clients, UpdateGrub(c) PROVE Types'
    BY <1>6 DEF UpdateGrub, Step, Steps, GrubSteps
  <1>7. ASSUME NEW c \in Clients, GrubFails(c) PROVE Types'
    BY <1>7 DEF GrubFails, Error, Step, Ends
  <1>8. ASSUME NEW c \in Clients,
               CopyUki(c) \/ CreateEntry(c) \/ SetBootNext(c) \/ UefiFails(c)
        PROVE  Types'
    BY <1>8 DEF CopyUki, CreateEntry, SetBootNext, UefiFails, Error, Step, Steps, UefiSteps, Ends
  <1>9. ASSUME NEW c \in Clients, LoadKexec(c) \/ LastStepFails(c) PROVE Types'
    BY <1>9 DEF LoadKexec, LastStepFails, Error, Step, Steps, KexecSteps, Ends
  <1>10. ASSUME NEW c \in Clients, ExecKexec(c) \/ Reboot(c) PROVE Types'
    BY <1>10 DEF ExecKexec, Reboot, Comes, Ended, Ends, Powers
  <1>11. ASSUME OperatorReboots \/ OperatorResets PROVE Types'
    BY <1>11 DEF OperatorReboots, OperatorResets, Ended, Ends, Powers
  <1>12. ASSUME PowerCut PROVE Types'
    BY <1>12 DEF PowerCut, Ended, Ends, Powers
  <1>13. ASSUME Boot PROVE Types'
    BY <1>13 DEF Boot, GrubBoot, UefiBoot, Comes, Powers
  <1>14. ASSUME Installer PROVE Types'
    BY <1>14 DEF Installer, InstallerSucceeds, InstallerStops, InstallerStopsErased, Powers
  <1>15. ASSUME UNCHANGED vars PROVE Types'
    BY <1>15 DEF vars
  <1> QED
    BY <1>1, <1>2, <1>3, <1>4, <1>5, <1>6, <1>7, <1>8, <1>9, <1>10, <1>11, <1>12,
       <1>13, <1>14, <1>15 DEF Next, Advance

\* What a step of client c does to the clients: the others stay where they are,
\* or all of them end with the system.
Alive(c) == \A d \in Clients : d # c => pc'[d] = pc[d]
NobodyLeft == \A d \in Clients : pc'[d] \notin Steps

\* The names of steps and ends are different.
LEMMA StepNames ==
    /\ Handing \subseteq Steps /\ "stage" \in Steps /\ "embed" \in Steps
    /\ "stage" \notin Handing /\ "embed" \notin Handing
    /\ Ends \cap Steps = {} /\ HandoffStep \in Handing
  BY DEF Handing, Steps, Ends, GrubSteps, UefiSteps, KexecSteps, HandoffStep

\* Every step either moves one client, within its steps, or into its first step
\* with a process id of its own, or to its end; or it ends all; or it moves none.
LEMMA ClientMoves ==
  ASSUME HandoffInv, [Next]_vars
  PROVE  /\ pid' = pid /\ machine' = machine
         /\ \/ NobodyLeft
            \/ pc' = pc /\ power # "host"
            \/ pc' = pc /\ power' = power
            \/ \E c \in Clients :
                  /\ power = "host" /\ power' = "host" /\ Alive(c)
                  /\ \/ pc[c] \in Steps
                     \/ \A d \in Clients : pc[d] \in Steps => pid[d] # pid[c]
  <1> USE DEF HandoffInv, Types, grubVars, uefiVars, ranVars, clientVars
  <1>1. ASSUME NEW c \in Clients, Start(c)
        PROVE  /\ pid' = pid /\ machine' = machine /\ power = "host" /\ power' = "host" /\ Alive(c)
               /\ \A d \in Clients : pc[d] \in Steps => pid[d] # pid[c]
    BY <1>1 DEF Start, Step, Running, Alive
  <1>2. ASSUME NEW c \in Clients, Advance(c), ~Reboot(c), ~ExecKexec(c)
        PROVE  /\ pid' = pid /\ machine' = machine /\ power = "host" /\ power' = "host" /\ Alive(c)
               /\ pc[c] \in Steps
    <2>1. ASSUME NEW from \in Steps, NEW to, Step(c, from, to)
          PROVE  power = "host" /\ Alive(c) /\ pc[c] \in Steps
      BY <2>1 DEF Step, Alive
    <2>2. CASE Stage(c) \/ StageFails(c) \/ Embed(c) \/ EmbedFails(c)
      BY <2>2, <2>1, StepNames DEF Stage, StageFails, Embed, EmbedFails, Error
    <2>3. CASE CopyKernel(c) \/ CopyInitrd(c) \/ PreserveSnippet(c) \/ WriteSnippet(c)
               \/ UpdateGrub(c) \/ GrubReboot(c) \/ GrubFails(c)
      <3>1. GrubSteps \subseteq Steps
        BY DEF Steps
      <3> QED
        BY <2>3, <2>1, <3>1 DEF CopyKernel, CopyInitrd, PreserveSnippet, WriteSnippet,
           UpdateGrub, GrubReboot, GrubFails, Error, GrubSteps
    <2>4. CASE CopyUki(c) \/ CreateEntry(c) \/ SetBootNext(c) \/ UefiFails(c)
      <3>1. UefiSteps \subseteq Steps
        BY DEF Steps
      <3> QED
        BY <2>4, <2>1, <3>1 DEF CopyUki, CreateEntry, SetBootNext, UefiFails, Error, UefiSteps
    <2>5. CASE LoadKexec(c) \/ LastStepFails(c)
      <3>1. KexecSteps \subseteq Steps /\ "reboot" \in Steps
        BY DEF Steps, GrubSteps
      <3> QED
        BY <2>5, <2>1, <3>1 DEF LoadKexec, LastStepFails, Error, KexecSteps
    <2> QED
      BY <1>2, <2>2, <2>3, <2>4, <2>5 DEF Advance
  <1>3. ASSUME NEW c \in Clients \cup {NoClient}, pc' = Ended(c)
        PROVE  NobodyLeft
    BY <1>3 DEF Ended, NobodyLeft, Steps, GrubSteps, UefiSteps, KexecSteps
  <1>4. ASSUME NEW c \in Clients, Reboot(c) \/ ExecKexec(c)
        PROVE  pid' = pid /\ machine' = machine /\ NobodyLeft
    BY <1>4, <1>3 DEF Reboot, ExecKexec
  <1>5. ASSUME OperatorReboots \/ PowerCut
        PROVE  pid' = pid /\ machine' = machine /\ NobodyLeft
    BY <1>5, <1>3 DEF OperatorReboots, PowerCut
  <1>6. ASSUME OperatorResets \/ Boot \/ Installer
        PROVE  pid' = pid /\ machine' = machine /\ pc' = pc /\ power # "host"
    BY <1>6 DEF OperatorResets, Boot, GrubBoot, UefiBoot, Installer, InstallerSucceeds,
           InstallerStops, InstallerStopsErased
  <1>7. ASSUME UNCHANGED vars
        PROVE  pid' = pid /\ machine' = machine /\ pc' = pc /\ power' = power
    BY <1>7 DEF vars
  <1> QED
    BY <1>1, <1>2, <1>4, <1>5, <1>6, <1>7 DEF Next

\* Processes that live keep different ids, and die with the system.
LEMMA ProcessesStep == HandoffInv /\ [Next]_vars => Processes'
  <1> SUFFICES ASSUME HandoffInv, [Next]_vars PROVE Processes'
    OBVIOUS
  <1>1. CASE NobodyLeft
    BY <1>1 DEF NobodyLeft, Processes, Steps, GrubSteps, UefiSteps, KexecSteps
  <1>2. CASE pc' = pc /\ pid' = pid /\ (power # "host" \/ power' = power)
    BY <1>2 DEF HandoffInv, Processes, Steps, GrubSteps, UefiSteps, KexecSteps
  <1>3. ASSUME NEW c \in Clients, pid' = pid, power = "host", power' = "host", Alive(c),
               pc[c] \in Steps \/ \A d \in Clients : pc[d] \in Steps => pid[d] # pid[c]
        PROVE  Processes'
    BY <1>3 DEF HandoffInv, Processes, Alive, Steps, GrubSteps, UefiSteps, KexecSteps
  <1> QED
    BY <1>1, <1>2, <1>3, ClientMoves

\* A staging directory is written when it is new, and once more by the client
\* whose process id it bears, when that client embeds its manifest.
LEMMA DirsChange ==
  ASSUME HandoffInv, [Next]_vars
  PROVE  \/ dirs' = dirs
         \/ \E c \in Clients :
              /\ power = "host" /\ Alive(c) /\ loaded' = loaded /\ pid' = pid
              /\ \/ /\ pc[c] = "stage" /\ dirs[pid[c]] = "none"
                    /\ \E i \in Initrds : dirs' = [dirs EXCEPT ![pid[c]] = i]
                    /\ (pc'[c] = "embed" /\ dirs'[pid[c]] = "base") \/ pc'[c] = "error"
                 \/ /\ pc[c] = "embed"
                    /\ \E i \in Initrds : dirs' = [dirs EXCEPT ![pid[c]] = i]
                    /\ (pc'[c] \in Handing /\ dirs'[pid[c]] = c) \/ pc'[c] = "error"
  <1> USE DEF HandoffInv, Types
  <1>1. ASSUME NEW c \in Clients, Stage(c) \/ StageFails(c)
        PROVE  \/ dirs' = dirs
               \/ /\ power = "host" /\ Alive(c) /\ loaded' = loaded /\ pid' = pid
                  /\ pc[c] = "stage" /\ dirs[pid[c]] = "none"
                  /\ \E i \in Initrds : dirs' = [dirs EXCEPT ![pid[c]] = i]
                  /\ (pc'[c] = "embed" /\ dirs'[pid[c]] = "base") \/ pc'[c] = "error"
    BY <1>1 DEF Stage, StageFails, Error, Step, Alive, Initrds
  <1>2. ASSUME NEW c \in Clients, Embed(c) \/ EmbedFails(c)
        PROVE  \/ dirs' = dirs
               \/ /\ power = "host" /\ Alive(c) /\ loaded' = loaded /\ pid' = pid
                  /\ pc[c] = "embed"
                  /\ \E i \in Initrds : dirs' = [dirs EXCEPT ![pid[c]] = i]
                  /\ (pc'[c] \in Handing /\ dirs'[pid[c]] = c) \/ pc'[c] = "error"
    BY <1>2, StepNames DEF Embed, EmbedFails, Error, Step, Alive, Initrds
  <1>3. ASSUME NEW c \in Clients, Start(c) \/ Advance(c),
               ~Stage(c), ~StageFails(c), ~Embed(c), ~EmbedFails(c)
        PROVE  dirs' = dirs
    BY <1>3 DEF Advance, Start, CopyKernel, CopyInitrd, PreserveSnippet, WriteSnippet, UpdateGrub,
       GrubReboot, GrubFails, CopyUki, CreateEntry, SetBootNext, UefiFails, LoadKexec, ExecKexec,
       Reboot, LastStepFails
  <1>4. ASSUME OperatorReboots \/ OperatorResets \/ PowerCut \/ Boot \/ Installer
        PROVE  dirs' = dirs
    BY <1>4 DEF OperatorReboots, OperatorResets, PowerCut, Boot, GrubBoot, UefiBoot,
       Installer, InstallerSucceeds, InstallerStops, InstallerStopsErased
  <1>5. ASSUME UNCHANGED vars PROVE dirs' = dirs
    BY <1>5 DEF vars
  <1> QED
    BY <1>1, <1>2, <1>3, <1>4, <1>5 DEF Next

\* A client that embeds had staged, and goes on to the handoff with its manifest
\* in place; the clients at the other steps only move on.
LEMMA StepsOfHandoff ==
  ASSUME HandoffInv, [Next]_vars, NEW c \in Clients
  PROVE  /\ pc'[c] = "embed" => pc[c] = "embed" \/ dirs'[pid[c]] = "base"
         /\ pc'[c] \in Handing => pc[c] \in Handing \/ dirs'[pid[c]] = c
  <1> USE DEF HandoffInv, Types
  <1>1. ASSUME NEW d \in Clients, Start(d) \/ StageFails(d) \/ EmbedFails(d)
        PROVE  pc'[c] = pc[c] \/ pc'[c] \in {"stage", "error"}
    BY <1>1 DEF Start, StageFails, EmbedFails, Error, Step
  <1>2. ASSUME NEW d \in Clients, Stage(d) \/ Embed(d)
        PROVE  /\ pc'[c] = "embed" => pc[c] = "embed" \/ dirs'[pid[c]] = "base"
               /\ pc'[c] \in Handing => pc[c] \in Handing \/ dirs'[pid[c]] = c
    BY <1>2, StepNames DEF Stage, Embed, Step
  <1>3. ASSUME NEW d \in Clients, Advance(d),
               ~Stage(d), ~StageFails(d), ~Embed(d), ~EmbedFails(d)
        PROVE  \/ pc'[c] = pc[c] \/ pc'[c] \in {"killed", "done", "error"}
               \/ pc[c] \in Handing /\ pc'[c] # "embed"
    BY <1>3 DEF Advance, CopyKernel, CopyInitrd, PreserveSnippet, WriteSnippet, UpdateGrub,
       GrubReboot, GrubFails, CopyUki, CreateEntry, SetBootNext, UefiFails, LoadKexec, ExecKexec,
       Reboot, LastStepFails, Error, Step, Ended, Handing, GrubSteps, UefiSteps, KexecSteps
  <1>4. ASSUME OperatorReboots \/ OperatorResets \/ PowerCut \/ Boot \/ Installer \/ UNCHANGED vars
        PROVE  pc'[c] = pc[c] \/ pc'[c] \in {"killed", "done"}
    BY <1>4 DEF OperatorReboots, OperatorResets, PowerCut, Boot, GrubBoot, UefiBoot, Ended,
       Installer, InstallerSucceeds, InstallerStops, InstallerStopsErased, vars, clientVars
  <1>5. {"killed", "done", "error", "stage"} \cap (Handing \cup {"embed"}) = {}
    BY DEF Handing, GrubSteps, UefiSteps, KexecSteps
  <1>6. \/ pc'[c] = pc[c] \/ pc'[c] \in {"killed", "done", "error", "stage"}
        \/ pc[c] \in Handing /\ pc'[c] # "embed"
          => /\ pc'[c] = "embed" => pc[c] = "embed"
             /\ pc'[c] \in Handing => pc[c] \in Handing
    BY <1>5
  <1> QED
    BY <1>1, <1>2, <1>3, <1>4, <1>5, <1>6 DEF Next

\* Nobody writes a directory that holds a client's manifest.
LEMMA ManifestsStay ==
  ASSUME HandoffInv, [Next]_vars, NEW p \in Pids, dirs[p] \in Clients
  PROVE  dirs'[p] = dirs[p]
  <1>1. "none" \notin Clients /\ "base" \notin Clients
    BY ClientsAssumption
  <1>2. ASSUME NEW c \in Clients, dirs[pid[c]] \in {"none", "base"},
               NEW i \in Initrds, dirs' = [dirs EXCEPT ![pid[c]] = i]
        PROVE  dirs'[p] = dirs[p]
    BY <1>1, <1>2 DEF HandoffInv, Types
  <1> QED
    BY <1>2, DirsChange DEF HandoffInv, Staged

\* What a client has staged is still there when it is copied or loaded.
LEMMA StagedStep == HandoffInv /\ [Next]_vars => Staged'
  <1> SUFFICES ASSUME HandoffInv, [Next]_vars PROVE Staged'
    OBVIOUS
  <1> USE DEF HandoffInv
  <1>0. pid' = pid /\ pid \in [Clients -> Pids]
    BY ClientMoves DEF Types
  <1>1. ASSUME NEW c \in Clients, pc'[c] = "embed" PROVE dirs'[pid'[c]] = "base"
    <2>1. CASE pc[c] # "embed"
      BY <1>0, <1>1, <2>1, StepsOfHandoff
    <2>2. CASE pc[c] = "embed" /\ dirs' = dirs
      BY <1>0, <2>2 DEF Staged
    <2>3. ASSUME NEW d \in Clients, pc[c] = "embed",
                 Alive(d), pc[d] \in {"stage", "embed"}, pc'[d] \in Handing \cup {"embed", "error"},
                 pc[d] = "embed" => pc'[d] # "embed",
                 NEW i \in Initrds, dirs' = [dirs EXCEPT ![pid[d]] = i]
          PROVE  dirs'[pid[c]] = "base"
      <3>1. c # d
        BY <1>1, <2>3
      <3>2. pid[c] # pid[d]
        BY <2>3, <3>1, StepNames DEF Processes
      <3> QED
        BY <1>0, <2>3, <3>2 DEF Staged, Types
    <2>4. "embed" \notin Handing
      BY StepNames
    <2> QED
      BY <1>0, <2>1, <2>2, <2>3, <2>4, DirsChange
  <1>2. ASSUME NEW c \in Clients, pc'[c] \in Handing PROVE dirs'[pid'[c]] = c
    <2>1. CASE pc[c] \in Handing
      BY <1>0, <2>1, ManifestsStay DEF Staged
    <2> QED
      BY <1>0, <1>2, <2>1, StepsOfHandoff
  <1>3. ASSUME loaded' # NoClient PROVE dirs'[pid'[loaded']] = loaded'
    <2>1. CASE loaded' = loaded
      BY <1>0, <1>3, <2>1, ManifestsStay DEF Staged, Types
    <2>2. ASSUME NEW c \in Clients, LoadKexec(c) PROVE dirs'[pid'[loaded']] = loaded'
      BY <2>2, <1>0 DEF LoadKexec, Step, Staged, Handing, KexecSteps
    <2>3. ASSUME NEW c \in Clients, Start(c) \/ Advance(c), ~LoadKexec(c)
          PROVE  loaded' = loaded \/ loaded' = NoClient
      BY <2>3 DEF Start, Advance, Stage, StageFails, Embed, EmbedFails, CopyKernel, CopyInitrd,
         PreserveSnippet, WriteSnippet, UpdateGrub, GrubReboot, GrubFails, CopyUki, CreateEntry,
         SetBootNext, UefiFails, ExecKexec, Reboot, LastStepFails
    <2>4. ASSUME OperatorReboots \/ OperatorResets \/ PowerCut \/ Boot \/ Installer \/ UNCHANGED vars
          PROVE  loaded' = loaded \/ loaded' = NoClient
      BY <2>4 DEF OperatorReboots, OperatorResets, PowerCut, Boot, GrubBoot, UefiBoot,
         Installer, InstallerSucceeds, InstallerStops, InstallerStopsErased, vars
    <2> QED
      BY <1>3, <2>1, <2>2, <2>3, <2>4 DEF Next
  <1> QED
    BY <1>1, <1>2, <1>3 DEF Staged

\* A client comes to kexec only where the tests ask for it, and to GRUB's entry
\* only where they do not.
LEMMA WaysApart ==
  ASSUME HandoffInv, [Next]_vars, NEW c \in Clients
  PROVE  /\ pc'[c] \in {"load", "exec"} => machine.direct_kexec
         /\ pc'[c] \in GrubSteps \ {"reboot"} => ~machine.direct_kexec
         /\ pc'[c] = "exec" => pc[c] = "exec" \/ LoadKexec(c)
  <1> USE DEF HandoffInv, Types, GrubSteps
  <1>1. ASSUME NEW d \in Clients, Start(d) \/ Stage(d) \/ StageFails(d) \/ EmbedFails(d)
        PROVE  pc'[c] = pc[c] \/ pc'[c] \in {"stage", "embed", "error"}
    BY <1>1 DEF Start, Stage, StageFails, EmbedFails, Error, Step
  <1>2. ASSUME NEW d \in Clients, Embed(d)
        PROVE  \/ pc'[c] = pc[c]
               \/ pc'[c] = "load" /\ machine.direct_kexec
               \/ pc'[c] = "copy_kernel" /\ ~machine.direct_kexec
               \/ pc'[c] = "copy_uki"
    BY <1>2 DEF Embed, Step, HandoffStep, select_handoff
  <1>3. ASSUME NEW d \in Clients, LoadKexec(d)
        PROVE  pc'[c] = pc[c] \/ (c = d /\ pc[c] = "load" /\ pc'[c] = "exec")
    BY <1>3 DEF LoadKexec, Step
  <1>4. ASSUME NEW d \in Clients, Advance(d),
               ~Stage(d), ~StageFails(d), ~Embed(d), ~EmbedFails(d), ~LoadKexec(d)
        PROVE  \/ pc'[c] = pc[c] \/ pc'[c] \in {"killed", "done", "error", "reboot", "create_entry", "bootnext"}
               \/ pc[c] \in GrubSteps \ {"reboot"} /\ pc'[c] \in GrubSteps
    BY <1>4 DEF Advance, CopyKernel, CopyInitrd, PreserveSnippet, WriteSnippet, UpdateGrub,
       GrubReboot, GrubFails, CopyUki, CreateEntry, SetBootNext, UefiFails, ExecKexec,
       Reboot, LastStepFails, Error, Step, Ended
  <1>5. ASSUME OperatorReboots \/ OperatorResets \/ PowerCut \/ Boot \/ Installer \/ UNCHANGED vars
        PROVE  pc'[c] = pc[c] \/ pc'[c] \in {"killed", "done"}
    BY <1>5 DEF OperatorReboots, OperatorResets, PowerCut, Boot, GrubBoot, UefiBoot, Ended,
       Installer, InstallerSucceeds, InstallerStops, InstallerStopsErased, vars, clientVars
  <1> QED
    BY <1>1, <1>2, <1>3, <1>4, <1>5 DEF Next, Choices

\* Which steps change a choice, and how.
LEMMA ChoiceChanges ==
  ASSUME HandoffInv, [Next]_vars
  PROVE  \/ nextEntry' = nextEntry /\ loaded' = loaded
            /\ (power' = power \/ (power # "host" /\ loaded = NoClient))
         \/ /\ nextEntry' = nextEntry /\ loaded' = NoClient /\ NobodyLeft
         \/ nextEntry' = NoClient /\ loaded' = loaded /\ power = "off"
         \/ \E c \in Clients : /\ pc[c] = "grub_reboot" /\ power = "host" /\ power' = "host"
                               /\ nextEntry' = c /\ loaded' = loaded
         \/ \E c \in Clients : /\ pc[c] = "load" /\ power = "host" /\ power' = "host"
                               /\ nextEntry' = nextEntry /\ loaded' = c
  <1> USE DEF HandoffInv, grubVars
  <1>1. ASSUME NEW c \in Clients, Start(c) \/ Advance(c),
               ~GrubReboot(c), ~LoadKexec(c), ~ExecKexec(c), ~Reboot(c)
        PROVE  nextEntry' = nextEntry /\ loaded' = loaded /\ power' = power
    BY <1>1 DEF Start, Advance, Stage, StageFails, Embed, EmbedFails, CopyKernel, CopyInitrd,
       PreserveSnippet, WriteSnippet, UpdateGrub, GrubFails, CopyUki, CreateEntry,
       SetBootNext, UefiFails, LastStepFails, Error, Step
  <1>2. ASSUME NEW c \in Clients, GrubReboot(c)
        PROVE  /\ pc[c] = "grub_reboot" /\ power = "host" /\ power' = "host"
               /\ nextEntry' = c /\ loaded' = loaded
    BY <1>2 DEF GrubReboot, Step
  <1>3. ASSUME NEW c \in Clients, LoadKexec(c)
        PROVE  /\ pc[c] = "load" /\ power = "host" /\ power' = "host"
               /\ nextEntry' = nextEntry /\ loaded' = c
    BY <1>3 DEF LoadKexec, Step
  <1>4. ASSUME NEW c \in Clients \cup {NoClient}, pc' = Ended(c)
        PROVE  NobodyLeft
    BY <1>4 DEF Ended, NobodyLeft, Steps, GrubSteps, UefiSteps, KexecSteps
  <1>5. ASSUME NEW c \in Clients, ExecKexec(c) \/ Reboot(c)
        PROVE  nextEntry' = nextEntry /\ loaded' = NoClient /\ NobodyLeft
    BY <1>5, <1>4 DEF ExecKexec, Reboot
  <1>6. ASSUME OperatorReboots \/ PowerCut
        PROVE  nextEntry' = nextEntry /\ loaded' = NoClient /\ NobodyLeft
    BY <1>6, <1>4 DEF OperatorReboots, PowerCut
  <1>7. ASSUME OperatorResets \/ UefiBoot \/ Installer
        PROVE  nextEntry' = nextEntry /\ loaded' = loaded /\ power # "host" /\ loaded = NoClient
    BY <1>7 DEF OperatorResets, UefiBoot, Installer, InstallerSucceeds, InstallerStops,
           InstallerStopsErased, Choices
  <1>8. ASSUME GrubBoot
        PROVE  nextEntry' = NoClient /\ loaded' = loaded /\ power = "off"
    BY <1>8 DEF GrubBoot
  <1>9. ASSUME UNCHANGED vars
        PROVE  nextEntry' = nextEntry /\ loaded' = loaded /\ power' = power
    BY <1>9 DEF vars
  <1> QED
    BY <1>1, <1>2, <1>3, <1>5, <1>6, <1>7, <1>8, <1>9 DEF Next, Boot

\* The choices stay apart.
LEMMA ChoicesStep == HandoffInv /\ [Next]_vars => Choices'
  <1> SUFFICES ASSUME HandoffInv, [Next]_vars PROVE Choices'
    OBVIOUS
  <1>0. machine' = machine
    BY ClientMoves
  <1>1. /\ \A c \in Clients : pc'[c] \in {"load", "exec"} => machine'.direct_kexec
        /\ \A c \in Clients : pc'[c] \in GrubSteps \ {"reboot"} => ~machine'.direct_kexec
    BY <1>0, WaysApart
  <1>2. /\ nextEntry' # NoClient => ~machine'.direct_kexec
        /\ loaded' # NoClient => machine'.direct_kexec
    BY <1>0, ChoiceChanges DEF HandoffInv, Choices, GrubSteps
  <1>3. power' # "host" => loaded' = NoClient
    BY ChoiceChanges DEF HandoffInv, Choices
  <1>4. ASSUME NEW c \in Clients, pc'[c] = "exec" PROVE loaded' # NoClient
    <2>1. CASE pc[c] = "exec"
      <3>1. ~NobodyLeft
        BY <1>4 DEF NobodyLeft, Steps, KexecSteps
      <3> QED
        BY <2>1, <3>1, ChoiceChanges, ClientsAssumption DEF HandoffInv, Choices
    <2>2. CASE pc[c] # "exec"
      BY <1>4, <2>2, WaysApart, ClientsAssumption DEF LoadKexec
    <2> QED
      BY <2>1, <2>2
  <1> QED
    BY <1>1, <1>2, <1>3, <1>4 DEF Choices

\* GRUB comes up with the installer only if the initrd is whole, kexec with what
\* its client has staged.
LEMMA ManifestStep == HandoffInv /\ [Next]_vars => InstallerCarriesManifest'
  <1> SUFFICES ASSUME HandoffInv, [Next]_vars, machine'.grub, power' = "installer"
               PROVE  booted' \in Clients
    BY DEF InstallerCarriesManifest
  <1>0. machine' = machine
    BY ClientMoves
  <1>1. CASE power = "installer" /\ booted' = booted
    BY <1>0, <1>1 DEF HandoffInv, InstallerCarriesManifest
  <1>2. ASSUME NEW c \in Clients, Start(c) \/ Advance(c), ~ExecKexec(c)
        PROVE  power' # "installer"
    BY <1>2 DEF Start, Advance, Stage, StageFails, Embed, EmbedFails, CopyKernel, CopyInitrd,
       PreserveSnippet, WriteSnippet, UpdateGrub, GrubReboot, GrubFails, CopyUki, CreateEntry,
       SetBootNext, UefiFails, LoadKexec, Reboot, LastStepFails, Error, Step
  <1>3. ASSUME NEW c \in Clients, ExecKexec(c) PROVE booted' \in Clients
    BY <1>3, ClientsAssumption DEF ExecKexec, HandoffInv, Types, Choices, Staged
  <1>4. ASSUME GrubBoot PROVE booted' \in Clients
    <2>1. power' \in {"installer", "stuck"} => GrubLoads
      BY <1>4 DEF GrubBoot, Comes
    <2>2. booted' = initrd
      BY <1>4 DEF GrubBoot
    <2> QED
      BY <2>1, <2>2 DEF GrubLoads, HandoffInv, Types
  <1>5. ASSUME OperatorReboots \/ OperatorResets \/ PowerCut \/ UefiBoot \/ Installer
        PROVE  power' # "installer"
    BY <1>0, <1>5 DEF OperatorReboots, OperatorResets, PowerCut, UefiBoot,
       Installer, InstallerSucceeds, InstallerStops, InstallerStopsErased
  <1>6. UNCHANGED vars => power' = power /\ booted' = booted
    BY DEF vars, ranVars
  <1> QED
    BY <1>1, <1>2, <1>3, <1>4, <1>5, <1>6 DEF Next, Boot

\* HandoffInv is inductive.
LEMMA HandoffInvAlways == Spec => []HandoffInv
  <1>1. HandoffInv /\ [Next]_vars => HandoffInv'
    BY TypesStep, ProcessesStep, StagedStep, ChoicesStep, ManifestStep DEF HandoffInv
  <1> QED
    BY InitHandoff, <1>1, PTL DEF Spec

\* With GRUB or kexec the installer that runs has a client's manifest in its
\* initrd, whatever fails, however clients interleave, whenever the power goes.
THEOREM InstallerCarriesManifestAlways == Spec => []InstallerCarriesManifest
  <1>1. HandoffInv => InstallerCarriesManifest
    BY DEF HandoffInv
  <1> QED
    BY <1>1, HandoffInvAlways, PTL

\* What a client has staged is never written again, although process ids are
\* used again and failed clients leave their directories.
THEOREM StagedOnceAlways == Spec => StagedOnce
  <1>1. HandoffInv /\ [Next]_vars => [\A p \in Pids : dirs[p] \in Clients => dirs'[p] = dirs[p]]_vars
    BY ManifestsStay
  <1> QED
    BY <1>1, HandoffInvAlways, PTL DEF Spec, StagedOnce

\* A boot through GRUB that is not the old system's follows a choice.
LEMMA ChoiceBehindBoot == HandoffInv /\ GrubEntry # "os" => nextEntry # NoClient
  <1>1. HandoffInv => Head(menu) = "os"
    BY DEF HandoffInv, Types
  <1> QED
    BY <1>1 DEF GrubEntry

\* The choice the next boot will follow, and whether the installer runs.
Choice == IF loaded # NoClient THEN loaded ELSE nextEntry
Active == machine.grub /\ power = "installer"

\* Every step of the handoff chooses, starts, drops or stops, or does nothing
\* that OneShot sees.
LEMMA OneShotStep ==
  ASSUME HandoffInv, [Next]_vars
  PROVE  \/ ~Active /\ Choice' \in Clients /\ Active' = Active
         \/ ~Active /\ Choice # NoClient /\ Choice' = NoClient /\ Active' = TRUE
         \/ Choice' = NoClient /\ Active' = Active
         \/ Active /\ Active' = FALSE /\ Choice' = Choice
         \/ Choice' = Choice /\ Active' = Active
  <1> USE DEF HandoffInv, Choice, Active, grubVars
  <1>0. machine' = machine
    BY ClientMoves
  <1>1. ASSUME NEW c \in Clients, Start(c) \/ Advance(c),
               ~GrubReboot(c), ~LoadKexec(c), ~ExecKexec(c), ~Reboot(c)
        PROVE  nextEntry' = nextEntry /\ loaded' = loaded /\ power' = power
    BY <1>1 DEF Start, Advance, Stage, StageFails, Embed, EmbedFails, CopyKernel, CopyInitrd,
       PreserveSnippet, WriteSnippet, UpdateGrub, GrubFails, CopyUki, CreateEntry,
       SetBootNext, UefiFails, LastStepFails, Error, Step
  <1>2. ASSUME NEW c \in Clients, GrubReboot(c) \/ LoadKexec(c)
        PROVE  ~Active /\ ~Active' /\ Choice' \in Clients
    BY <1>2, ClientsAssumption DEF GrubReboot, LoadKexec, Step, Choices, GrubSteps
  <1>3. ASSUME NEW c \in Clients, ExecKexec(c)
        PROVE  ~Active /\ Choice # NoClient /\ Choice' = NoClient
    BY <1>3 DEF ExecKexec, Choices
  <1>4. ASSUME OperatorReboots \/ \E c \in Clients : Reboot(c)
        PROVE  ~Active /\ ~Active' /\ (Choice' = Choice \/ Choice' = NoClient)
    BY <1>4 DEF OperatorReboots, Reboot, Choices
  <1>5. ASSUME PowerCut
        PROVE  ~Active' /\ (Choice' = Choice \/ (~Active /\ Choice' = NoClient))
    BY <1>5 DEF PowerCut, Choices
  <1>6. ASSUME GrubBoot
        PROVE  ~Active /\ Choice' = NoClient /\ (Active' => Choice # NoClient)
    BY <1>6, ChoiceBehindBoot DEF GrubBoot, Choices
  <1>7. ASSUME UefiBoot \/ OperatorResets \/ Installer
        PROVE  Choice' = Choice /\ ~Active'
    BY <1>0, <1>7 DEF UefiBoot, OperatorResets, Installer, InstallerSucceeds, InstallerStops,
           InstallerStopsErased
  <1>8. ASSUME UNCHANGED vars
        PROVE  nextEntry' = nextEntry /\ loaded' = loaded /\ power' = power
    BY <1>8 DEF vars
  <1>9. Active \in BOOLEAN /\ Active' \in BOOLEAN
    BY DEF Active
  <1>10. ASSUME nextEntry' = nextEntry, loaded' = loaded, power' = power
         PROVE  Choice' = Choice /\ Active' = Active
    BY <1>0, <1>10
  <1> HIDE DEF Choice, Active
  <1> QED
    BY <1>1, <1>2, <1>3, <1>4, <1>5, <1>6, <1>7, <1>8, <1>9, <1>10 DEF Next, Boot

\* With GRUB or kexec the installer starts only because a client chose it, and
\* one choice is good for one boot: Handoff implements OneShot.
THEOREM BootsOnceAlways == Spec => BootsOnce
  <1>1. Init => Promise!Init
    BY DEF Init, Promise!Init
  <1>2. HandoffInv /\ [Next]_vars => [Promise!Next]_(Promise!vars)
    BY OneShotStep DEF Choice, Active, Promise!Next, Promise!Choose, Promise!Start, Promise!Drop,
       Promise!Stop, Promise!vars
  <1> QED
    BY <1>1, <1>2, HandoffInvAlways, PTL DEF Spec, BootsOnce, Promise!Spec

-----------------------------------------------------------------------------
(* The old system stays bootable.  In GRUB's menu it comes first (Types); in *)
(* the firmware's order it stays because a new entry gets a number of its    *)
(* own, which takes arithmetic.                                              *)

Less == {pair \in Nat \X Nat : pair[1] < pair[2]}

\* A set of numbers has a least one.
LEMMA LowestOf ==
  ASSUME NEW S \in SUBSET Nat, S # {}
  PROVE  Lowest(S) \in S /\ \A k \in S : Lowest(S) <= k
  <1>1. IsWellFoundedOn(Less, Nat)
    BY NatLessThanWellFounded DEF OpToRel, Less
  <1>2. PICK n \in S : \A k \in S : ~ (<<k, n>> \in Less)
    BY <1>1, WFMin
  <1>3. \A k \in S : ~ (k < n)
    BY <1>2 DEF Less
  <1>4. \A k \in S : n <= k
    BY <1>3
  <1> QED
    BY <1>4 DEF Lowest

\* The firmware's entries: finitely many, and one in the order that boots the
\* old system where there is no GRUB.
Firmware ==
    /\ IsFiniteSet(DOMAIN efi) /\ DOMAIN efi \subseteq Nat
    /\ order \in Seq(DOMAIN efi)
    /\ ~machine.grub => \E i \in DOMAIN order : efi[order[i]] = "os"

\* A new entry takes no other entry's number: among one number more than there
\* are entries one is free.
LEMMA FreeNumberIsFree ==
  ASSUME Firmware
  PROVE  FreeNumber \in Nat \ DOMAIN efi
  <1> DEFINE n == Cardinality(DOMAIN efi)
  <1>1. n \in Nat
    BY FS_CardinalityType DEF Firmware
  <1>2. Cardinality(0 .. n) = n + 1
    BY <1>1, FS_Interval
  <1>3. ~ (0 .. n \subseteq DOMAIN efi)
    <2>1. SUFFICES ASSUME 0 .. n \subseteq DOMAIN efi PROVE FALSE
      OBVIOUS
    <2>2. Cardinality(0 .. n) <= n
      BY <2>1, FS_Subset DEF Firmware
    <2> QED
      BY <1>1, <1>2, <2>2
  <1>4. (0 .. n) \ DOMAIN efi \in SUBSET Nat /\ (0 .. n) \ DOMAIN efi # {}
    BY <1>1, <1>3
  <1>5. Lowest((0 .. n) \ DOMAIN efi) \in (0 .. n) \ DOMAIN efi
    BY <1>4, LowestOf
  <1> QED
    BY <1>1, <1>5 DEF FreeNumber

\* The firmware starts with the old system in its order.
LEMMA InitFirmware == Init => Firmware
  <1> SUFFICES ASSUME Init PROVE Firmware
    OBVIOUS
  <1> DEFINE S == {machine.boots[i] : i \in DOMAIN machine.boots}
  <1>1. machine.boots \in Seq(Nat) /\ (machine.grub \/ machine.boots # <<>>)
    BY MachinesAssumption DEF Init
  <1>2. DOMAIN efi = S /\ order = machine.boots /\ \A n \in S : efi[n] = "os"
    BY DEF Init
  <1>3. IsFiniteSet(S)
    <2>1. DOMAIN machine.boots = 1 .. Len(machine.boots) /\ Len(machine.boots) \in Nat
      BY <1>1
    <2>2. IsFiniteSet(DOMAIN machine.boots)
      BY <2>1, FS_Interval
    <2>3. machine.boots \in Surjection(DOMAIN machine.boots, S)
      BY <1>1 DEF Surjection
    <2> QED
      BY <2>2, <2>3, FS_Surjection
  <1>4. S \subseteq Nat /\ machine.boots \in Seq(S)
    BY <1>1
  <1>5. machine.boots # <<>> => 1 \in DOMAIN machine.boots
    BY <1>1
  <1> QED
    BY <1>1, <1>2, <1>3, <1>4, <1>5 DEF Firmware

\* A client that makes an entry leaves the others, and their order.
LEMMA CreateEntryKeepsFirmware ==
  ASSUME Firmware, NEW c \in Clients, CreateEntry(c)
  PROVE  Firmware'
  <1>1. FreeNumber \in Nat \ DOMAIN efi
    BY FreeNumberIsFree
  <1>2. machine' = machine /\ order' = <<FreeNumber>> \o order
    BY DEF CreateEntry
  <1>3. /\ DOMAIN efi' = DOMAIN efi \cup {FreeNumber}
        /\ \A n \in DOMAIN efi : efi'[n] = efi[n]
    BY <1>1 DEF CreateEntry
  <1> HIDE DEF CreateEntry
  <1>4. IsFiniteSet(DOMAIN efi')
    BY <1>3, FS_AddElement DEF Firmware
  <1>5. order \in Seq(DOMAIN efi') /\ <<FreeNumber>> \in Seq(DOMAIN efi')
    BY <1>3 DEF Firmware
  <1>6. order' \in Seq(DOMAIN efi')
    BY <1>2, <1>5
  <1>7. ASSUME NEW i \in DOMAIN order
        PROVE  i + 1 \in DOMAIN order' /\ order'[i + 1] = order[i] /\ order[i] \in DOMAIN efi
    BY <1>1, <1>2 DEF Firmware
  <1>8. ~machine.grub => \E i \in DOMAIN order' : efi'[order'[i]] = "os"
    BY <1>3, <1>7 DEF Firmware
  <1> QED
    BY <1>1, <1>2, <1>3, <1>4, <1>6, <1>8 DEF Firmware

\* Every step keeps the firmware's entries.
LEMMA FirmwareStep == Firmware /\ [Next]_vars => Firmware'
  <1> SUFFICES ASSUME Firmware, [Next]_vars PROVE Firmware'
    OBVIOUS
  <1>1. ASSUME NEW c \in Clients, Start(c) \/ Advance(c), ~CreateEntry(c)
        PROVE  efi' = efi /\ order' = order /\ machine' = machine
    BY <1>1 DEF Start, Advance, Stage, StageFails, Embed, EmbedFails, CopyKernel, CopyInitrd,
       PreserveSnippet, WriteSnippet, UpdateGrub, GrubReboot, GrubFails, CopyUki, SetBootNext,
       UefiFails, LoadKexec, ExecKexec, Reboot, LastStepFails, uefiVars
  <1>2. ASSUME OperatorReboots \/ OperatorResets \/ PowerCut \/ Boot \/ Installer \/ UNCHANGED vars
        PROVE  efi' = efi /\ order' = order /\ machine' = machine
    BY <1>2 DEF OperatorReboots, OperatorResets, PowerCut, Boot, GrubBoot, UefiBoot,
       Installer, InstallerSucceeds, InstallerStops, InstallerStopsErased, vars, uefiVars
  <1>3. efi' = efi /\ order' = order /\ machine' = machine => Firmware'
    BY DEF Firmware
  <1> QED
    BY <1>1, <1>2, <1>3, CreateEntryKeepsFirmware DEF Next

\* Whatever fails and however often clients run, a boot that follows no choice
\* finds the old system.
THEOREM OldSystemStaysBootableAlways == Spec => []OldSystemStaysBootable
  <1>1. HandoffInv /\ Firmware => OldSystemStaysBootable
    BY DEF HandoffInv, Types, Firmware, OldSystemStaysBootable
  <1>2. Spec => []Firmware
    BY InitFirmware, FirmwareStep, PTL DEF Spec
  <1> QED
    BY <1>1, <1>2, HandoffInvAlways, PTL

-----------------------------------------------------------------------------
(* Calm machines: what is left of earlier clients does not get into the    *)
(* boot of a later one.                                                    *)

\* The steps between the copy of the initrd and the choice.
Choosing == {"preserve", "snippet", "update_grub", "grub_reboot"}

\* On a calm machine one client runs at a time; the initrd in /boot is its own
\* from the copy on, and the choice is that of the client whose initrd it is,
\* which as long as the host is up is about to reboot.
OneAtATime == \A c, d \in Clients : pc[c] \in Steps /\ pc[d] \in Steps => c = d
OwnInitrd  == \A c \in Clients : pc[c] \in Choosing => initrd = c
OwnChoice  ==
    nextEntry # NoClient =>
        initrd = nextEntry /\ (power = "host" => nextEntry \in Clients /\ pc[nextEntry] = "reboot")

CalmInv ==
    machine.calm /\ machine.grub =>
        /\ OneAtATime /\ OwnInitrd /\ OwnChoice
        /\ power = "installer" => booted = chosenBy

\* No client has begun.
LEMMA InitCalm == Init => CalmInv
  BY DEF Init, CalmInv, OneAtATime, OwnInitrd, OwnChoice, Choosing, Steps, GrubSteps, UefiSteps,
         KexecSteps

\* The names that occur below are steps.
LEMMA CalmSteps ==
    /\ Choosing \subseteq Steps /\ {"copy_initrd", "reboot", "stage", "embed"} \subseteq Steps
    /\ "reboot" \notin Choosing /\ "copy_initrd" \notin Choosing /\ "exec" \notin Choosing
    /\ Choosing \cap {"stage", "embed", "error", "done", "killed", "new"} = {}
    /\ Choosing \cap {"copy_kernel", "copy_uki", "create_entry", "bootnext", "load", "exec"} = {}
    /\ HandoffStep \notin Choosing \cup {"reboot"} /\ HandoffStep \in Steps
  BY DEF Choosing, Steps, GrubSteps, UefiSteps, KexecSteps, HandoffStep

\* A step of client c that leaves the initrd, the choice and the power alone,
\* and comes into the steps of Choosing from within only, keeps the invariant.
LEMMA QuietStep ==
  ASSUME HandoffInv, CalmInv, machine.calm, machine.grub,
         NEW c \in Clients, NEW from \in Steps, NEW to, Step(c, from, to),
         from # "reboot", from \in Choosing \/ to \notin Choosing,
         initrd' = initrd, nextEntry' = nextEntry, power' = power
  PROVE  OneAtATime' /\ OwnInitrd' /\ OwnChoice' /\ power' # "installer"
  <1> USE DEF HandoffInv, Types, CalmInv
  <1>1. /\ power = "host" /\ pc[c] = from /\ pc'[c] = to
        /\ \A d \in Clients : d # c => pc'[d] = pc[d]
    BY DEF Step
  <1>2. OneAtATime'
    BY <1>1 DEF OneAtATime
  <1>3. OwnInitrd'
    BY <1>1 DEF OwnInitrd
  <1>4. OwnChoice'
    BY <1>1 DEF OwnChoice
  <1> QED
    BY <1>1, <1>2, <1>3, <1>4

\* On a calm machine every step keeps the invariant.
LEMMA CalmStep ==
  ASSUME HandoffInv, CalmInv, Next, machine.calm, machine.grub
  PROVE  OneAtATime' /\ OwnInitrd' /\ OwnChoice' /\ (power' = "installer" => booted' = chosenBy')
  <1> DEFINE Kept == OneAtATime' /\ OwnInitrd' /\ OwnChoice'
                     /\ (power' = "installer" => booted' = chosenBy')
  <1> USE DEF HandoffInv, Types, CalmInv, grubVars, ranVars, clientVars
  <1>1. ASSUME NEW c \in Clients, Start(c) PROVE Kept
    <2>1. \A d \in Clients : pc[d] \notin Steps
      BY <1>1 DEF Start, Running
    <2>2. nextEntry = NoClient
      BY <1>1, <2>1, CalmSteps DEF Start, Step, OwnChoice
    <2> QED
      BY <1>1, <2>1, <2>2, CalmSteps DEF Start, Step, OneAtATime, OwnInitrd, OwnChoice
  <1>2. ASSUME NEW c \in Clients, Stage(c) \/ StageFails(c) \/ Embed(c) \/ EmbedFails(c)
        PROVE  Kept
    BY <1>2, QuietStep, CalmSteps DEF Stage, StageFails, Embed, EmbedFails, Error
  <1>3. ASSUME NEW c \in Clients,
               CopyKernel(c) \/ PreserveSnippet(c) \/ WriteSnippet(c) \/ UpdateGrub(c)
        PROVE  Kept
    <2>1. "copy_kernel" \in Steps /\ "copy_kernel" # "reboot" /\ Choosing \subseteq Steps
      BY CalmSteps DEF Steps, GrubSteps
    <2>2. {"preserve", "snippet", "update_grub"} \subseteq Choosing /\ "copy_initrd" \notin Choosing
      BY DEF Choosing
    <2> QED
      BY <1>3, <2>1, <2>2, QuietStep DEF CopyKernel, PreserveSnippet, WriteSnippet, UpdateGrub
  <1>4. ASSUME NEW c \in Clients, CopyInitrd(c) PROVE Kept
    <2>1. power = "host" /\ power' = "host" /\ pc[c] = "copy_initrd" /\ pc'[c] = "preserve"
          /\ nextEntry' = nextEntry /\ \A d \in Clients : d # c => pc'[d] = pc[d]
      BY <1>4 DEF CopyInitrd, Step
    <2>2. initrd' = c
      BY <1>4, <2>1 DEF CopyInitrd, Staged, Handing, GrubSteps
    <2>3. \A d \in Clients : d # c => pc[d] \notin Steps
      BY <2>1, CalmSteps DEF OneAtATime
    <2>4. nextEntry = NoClient
      BY <2>1, <2>3, CalmSteps DEF OwnChoice
    <2>5. \A d \in Clients : d # c => pc'[d] \notin Steps
      BY <2>1, <2>3
    <2>6. OneAtATime' /\ OwnInitrd'
      BY <2>2, <2>5, CalmSteps DEF OneAtATime, OwnInitrd
    <2> QED
      BY <2>1, <2>4, <2>6 DEF OwnChoice
  <1>5. ASSUME NEW c \in Clients, GrubReboot(c) PROVE Kept
    <2>1. power = "host" /\ power' = "host" /\ pc[c] = "grub_reboot" /\ pc'[c] = "reboot"
          /\ nextEntry' = c /\ initrd' = initrd /\ \A d \in Clients : d # c => pc'[d] = pc[d]
      BY <1>5 DEF GrubReboot, Step
    <2>2. initrd = c /\ \A d \in Clients : d # c => pc[d] \notin Steps
      BY <2>1, CalmSteps DEF OwnInitrd, OneAtATime, Choosing
    <2>3. OneAtATime' /\ OwnInitrd'
      BY <2>1, <2>2, CalmSteps DEF OneAtATime, OwnInitrd
    <2> QED
      BY <2>1, <2>2, <2>3 DEF OwnChoice
  <1>6. ASSUME NEW c \in Clients, GrubFails(c) PROVE Kept
    <2>1. Error(c, "update_grub") /\ initrd' = initrd
      BY <1>6 DEF GrubFails, MayFail
    <2>2. nextEntry' = nextEntry /\ power' = power
      BY <1>6 DEF GrubFails
    <2> QED
      BY <2>1, <2>2, QuietStep, CalmSteps DEF Error, Choosing
  <1>7. ASSUME NEW c \in Clients, CopyUki(c) \/ CreateEntry(c) \/ UefiFails(c) \/ LoadKexec(c)
        PROVE  Kept
    <2>1. {"copy_uki", "create_entry", "bootnext", "load"} \subseteq Steps
      BY DEF Steps, UefiSteps, KexecSteps
    <2> QED
      BY <1>7, <2>1, QuietStep, CalmSteps
         DEF CopyUki, CreateEntry, UefiFails, LoadKexec, Error
  <1>8. ASSUME NEW c \in Clients, SetBootNext(c) PROVE Kept
    BY <1>8, QuietStep, CalmSteps DEF SetBootNext, Steps, UefiSteps
  <1>9. ASSUME NEW c \in Clients, LastStepFails(c) PROVE Kept
    BY <1>9 DEF LastStepFails, MayFail
  <1>10. ASSUME NEW c \in Clients \cup {NoClient}, pc' = Ended(c), initrd' = initrd,
                nextEntry' = nextEntry, power' # "host"
         PROVE  OneAtATime' /\ OwnInitrd' /\ OwnChoice'
    <2>1. \A d \in Clients : pc'[d] \notin Steps
      BY <1>10 DEF Ended, Steps, GrubSteps, UefiSteps, KexecSteps
    <2> QED
      BY <1>10, <2>1, CalmSteps DEF OneAtATime, OwnInitrd, OwnChoice
  <1>11. ASSUME OperatorReboots \/ \E c \in Clients : Reboot(c) PROVE Kept
    BY <1>11, <1>10 DEF OperatorReboots, Reboot
  <1>12. ASSUME NEW c \in Clients, ExecKexec(c) PROVE Kept
    <2>1. booted' = loaded /\ chosenBy' = loaded
      BY <1>12 DEF ExecKexec, Choices, Staged
    <2> QED
      BY <1>12, <1>10, <2>1 DEF ExecKexec, Comes
  <1>13. ASSUME PowerCut PROVE Kept
    BY <1>13 DEF PowerCut
  <1>14. ASSUME GrubBoot PROVE Kept
    <2>1. pc' = pc /\ initrd' = initrd /\ nextEntry' = NoClient
      BY <1>14 DEF GrubBoot
    <2>2. OneAtATime' /\ OwnInitrd' /\ OwnChoice'
      BY <2>1 DEF OneAtATime, OwnInitrd, OwnChoice
    <2>3. ASSUME power' = "installer" PROVE booted' = initrd /\ chosenBy' = nextEntry /\ GrubEntry # "os"
      BY <1>14, <2>3 DEF GrubBoot
    <2>4. GrubEntry # "os" => initrd = nextEntry
      BY ChoiceBehindBoot DEF OwnChoice
    <2> QED
      BY <2>2, <2>3, <2>4
  <1>15. ASSUME UefiBoot PROVE Kept
    BY <1>15 DEF UefiBoot
  <1>16. ASSUME OperatorResets \/ Installer PROVE Kept
    <2>1. pc' = pc /\ initrd' = initrd /\ nextEntry' = nextEntry /\ power' \notin {"host", "installer"}
      BY <1>16 DEF OperatorResets, Installer, InstallerSucceeds, InstallerStops,
             InstallerStopsErased
    <2> QED
      BY <2>1 DEF OneAtATime, OwnInitrd, OwnChoice
  <1> QED
    BY <1>1, <1>2, <1>3, <1>4, <1>5, <1>6, <1>7, <1>8, <1>9, <1>11, <1>12, <1>13, <1>14,
       <1>15, <1>16 DEF Next, Advance, Boot

\* Where clients run one after the other, the installer that GRUB's one-shot
\* entry or kexec starts has the manifest of the client that chose it, whatever
\* earlier clients left in /boot, in the menu and in their directories.
THEOREM ChoiceBootsItsManifestAlways == Spec => []ChoiceBootsItsManifest
  <1>1. CalmInv => ChoiceBootsItsManifest
    BY DEF CalmInv, ChoiceBootsItsManifest
  <1>2. HandoffInv /\ CalmInv /\ [Next]_vars => CalmInv'
    <2> SUFFICES ASSUME HandoffInv, CalmInv, [Next]_vars, machine'.calm, machine'.grub
                 PROVE  /\ OneAtATime' /\ OwnInitrd' /\ OwnChoice'
                        /\ power' = "installer" => booted' = chosenBy'
      BY DEF CalmInv
    <2>1. machine' = machine
      BY ClientMoves
    <2>2. CASE UNCHANGED vars
      BY <2>1, <2>2 DEF vars, clientVars, grubVars, ranVars, CalmInv, OneAtATime, OwnInitrd, OwnChoice
    <2> QED
      BY <2>1, <2>2, CalmStep
  <1> QED
    BY <1>1, <1>2, InitCalm, HandoffInvAlways, PTL DEF Spec

-----------------------------------------------------------------------------
(***************************************************************************)
(* Type correctness.  What takes an argument is that a boot number a       *)
(* client read from efibootmgr's output is an entry's, and that the        *)
(* firmware always finds an entry to boot.                                 *)
(***************************************************************************)

\* The number with which a client is about to set BootNext is an entry's.
BootNumbers == \A c \in Clients : pc[c] = "bootnext" => number[c] \in DOMAIN efi

TypeInv == TypeOK /\ BootNumbers

\* TypeInv holds when the first client has not begun.
LEMMA InitTypeInv == Init => TypeInv
  <1> SUFFICES ASSUME Init PROVE TypeInv
    OBVIOUS
  <1> USE DEF Init
  <1>1. Types /\ Firmware
    BY InitHandoff, InitFirmware DEF HandoffInv
  <1>2. menu \in Seq({"os"} \cup Modes) \ {<<>>}
    OBVIOUS
  <1>3. \A n \in DOMAIN efi : efi[n] \in {"os"} \cup Modes
    OBVIOUS
  <1>4. machine.snippet \in {"none", "foreign"}
    BY MachinesAssumption
  <1>5. TypeOK
    BY <1>1, <1>2, <1>3, <1>4 DEF TypeOK, Types, Firmware, Modes, Initrds
  <1> QED
    BY <1>5 DEF TypeInv, BootNumbers

\* The numbers boot_number may take from the output are entries'.
LEMMA BootNumberIsEntry ==
  ASSUME Firmware, NEW n \in boot_number(FreeNumber)
  PROVE  n \in DOMAIN efi \cup {FreeNumber} /\ n \in Nat
  <1>1. FreeNumber \in Nat /\ DOMAIN efi \subseteq Nat
    BY FreeNumberIsFree DEF Firmware
  <1>2. DOMAIN efi \cup {FreeNumber} \in SUBSET Nat /\ DOMAIN efi \cup {FreeNumber} # {}
    BY <1>1
  <1>3. Lowest(DOMAIN efi \cup {FreeNumber}) \in DOMAIN efi \cup {FreeNumber}
    BY <1>2, LowestOf
  <1>4. DOMAIN efi # {} => Lowest(DOMAIN efi) \in DOMAIN efi
    BY <1>1, LowestOf
  <1> QED
    BY <1>1, <1>3, <1>4 DEF boot_number

\* CreateEntry keeps the types of the firmware's variables.
LEMMA CreateEntryTypes ==
  ASSUME HandoffInv, Firmware, TypeInv, NEW c \in Clients, CreateEntry(c)
  PROVE  /\ DOMAIN efi' \subseteq Nat /\ \A n \in DOMAIN efi' : efi'[n] \in {"os"} \cup Modes
         /\ order' \in Seq(DOMAIN efi') /\ bootNext' \subseteq DOMAIN efi'
         /\ number' \in [Clients -> Nat] /\ BootNumbers'
  <1>1. Firmware'
    BY CreateEntryKeepsFirmware
  <1>2. /\ DOMAIN efi' = DOMAIN efi \cup {FreeNumber}
        /\ \A n \in DOMAIN efi' : efi'[n] = mode[c] \/ (n \in DOMAIN efi /\ efi'[n] = efi[n])
    BY DEF CreateEntry
  <1>3. mode[c] \in Modes /\ bootNext' = bootNext
    BY DEF TypeInv, TypeOK, CreateEntry
  <1>4. PICK k \in boot_number(FreeNumber) : number' = [number EXCEPT ![c] = k]
    BY DEF CreateEntry
  <1>5. k \in DOMAIN efi' /\ k \in Nat
    BY <1>2, BootNumberIsEntry
  <1>6. \A d \in Clients : pc'[d] = "bootnext" => d = c \/ pc[d] = "bootnext"
    BY DEF CreateEntry, Step, HandoffInv, Types
  <1>7. BootNumbers'
    BY <1>2, <1>4, <1>5, <1>6 DEF TypeInv, TypeOK, BootNumbers
  <1> QED
    BY <1>1, <1>2, <1>3, <1>4, <1>5, <1>7 DEF Firmware, TypeInv, TypeOK

\* The firmware finds an entry to boot: at the least the old system's.
LEMMA FirmwareEntryType ==
  ASSUME Firmware, TypeOK, ~machine.grub
  PROVE  FirmwareEntry \in {"os"} \cup Modes
  <1> DEFINE loadable == {i \in DOMAIN Tries : efi[Tries[i]] = "os" \/ uki = "whole"}
  <1>1. bootNext # {} => Lowest(bootNext) \in DOMAIN efi
    BY LowestOf DEF TypeOK
  <1>2. Tries \in Seq(DOMAIN efi)
    <2>1. order \in Seq(DOMAIN efi)
      BY DEF Firmware
    <2>2. ASSUME bootNext # {} PROVE <<Lowest(bootNext)>> \in Seq(DOMAIN efi)
      BY <1>1, <2>2
    <2>3. ASSUME NEW S, NEW s \in Seq(S), NEW t \in Seq(S) PROVE s \o t \in Seq(S)
      OBVIOUS
    <2> QED
      BY <2>1, <2>2, <2>3 DEF Tries
  <1>3. PICK i \in DOMAIN order : efi[order[i]] = "os"
    BY DEF Firmware
  <1>4. loadable # {}
    <2>1. CASE bootNext = {}
      BY <1>3, <2>1 DEF Tries
    <2>2. CASE bootNext # {}
      <3>1. i + 1 \in DOMAIN Tries /\ Tries[i + 1] = order[i]
        BY <1>1, <1>3, <2>2 DEF Tries, Firmware
      <3> QED
        BY <1>3, <3>1
    <2> QED
      BY <2>1, <2>2
  <1>5. loadable \in SUBSET Nat
    BY <1>2
  <1>6. Lowest(loadable) \in DOMAIN Tries
    BY <1>4, <1>5, LowestOf
  <1>7. Tries[Lowest(loadable)] \in DOMAIN efi
    BY <1>2, <1>6
  <1> QED
    BY <1>7 DEF FirmwareEntry, TypeOK

\* Every step keeps the types.
LEMMA TypeStep == HandoffInv /\ Firmware /\ TypeInv /\ [Next]_vars => TypeInv'
  <1> SUFFICES ASSUME HandoffInv, Firmware, TypeInv, [Next]_vars PROVE TypeInv'
    OBVIOUS
  <1>0. Types' /\ Firmware'
    BY TypesStep, FirmwareStep DEF HandoffInv
  <1>1. menu' \in Seq({"os"} \cup Modes) \ {<<>>}
    <2>1. \A m \in Modes : <<"os", m>> \in Seq({"os"} \cup Modes) /\ <<"os", m>> # <<>>
      OBVIOUS
    <2>2. <<"os">> \in Seq({"os"} \cup Modes) /\ <<"os">> # <<>>
      OBVIOUS
    <2>3. menu' = <<"os">> \/ \E m \in Modes : menu' = <<"os", m>>
      BY <1>0 DEF Types
    <2> QED
      BY <2>1, <2>2, <2>3
  <1> USE DEF TypeInv, BootNumbers, TypeOK, Types, Initrds, grubVars, uefiVars, ranVars, clientVars
  <1>2. ASSUME NEW c \in Clients,
               Start(c) \/ Stage(c) \/ StageFails(c) \/ Embed(c) \/ EmbedFails(c) PROVE TypeInv'
    <2>1. \A d \in Clients : pc'[d] = "bootnext" => pc[d] = "bootnext"
      BY <1>2 DEF HandoffInv, Start, Stage, StageFails, Embed, EmbedFails, Error, Step, HandoffStep
    <2>2. UNCHANGED <<mode, number, grubVars, uefiVars, unsynced, ranVars>>
      BY <1>2 DEF Start, Stage, StageFails, Embed, EmbedFails
    <2> QED
      BY <1>0, <1>1, <2>1, <2>2
  <1>3. ASSUME NEW c \in Clients,
               \/ CopyKernel(c) \/ CopyInitrd(c) \/ PreserveSnippet(c) \/ WriteSnippet(c)
               \/ UpdateGrub(c) \/ GrubReboot(c) \/ GrubFails(c)
        PROVE  TypeInv'
    <2>1. \A d \in Clients : pc'[d] = "bootnext" => pc[d] = "bootnext"
      BY <1>3 DEF HandoffInv, CopyKernel, CopyInitrd, PreserveSnippet, WriteSnippet, UpdateGrub,
         GrubReboot, GrubFails, Error, Step
    <2>2. UNCHANGED <<mode, number, uefiVars, ranVars>>
      BY <1>3 DEF CopyKernel, CopyInitrd, PreserveSnippet, WriteSnippet, UpdateGrub,
         GrubReboot, GrubFails
    <2>3. /\ kernel' \in {kernel, "torn", "whole"} /\ snippet' \in {snippet, "torn", mode[c]}
          /\ backup' \in {backup, snippet, "torn"}
          /\ unsynced' \in {unsynced} \cup {unsynced \cup {f} : f \in {"kernel", "initrd", "snippet"}}
      BY <1>3 DEF CopyKernel, CopyInitrd, PreserveSnippet, WriteSnippet, UpdateGrub,
         GrubReboot, GrubFails
    <2>4. mode[c] \in Modes
      OBVIOUS
    <2>5. /\ kernel' \in {"none", "torn", "whole"} /\ unsynced' \subseteq {"kernel", "initrd", "snippet", "uki"}
          /\ {snippet', backup'} \subseteq {"none", "foreign", "torn"} \cup Modes
      BY <2>3, <2>4
    <2> QED
      BY <1>0, <1>1, <2>1, <2>2, <2>5
  <1>4. ASSUME NEW c \in Clients, CreateEntry(c) PROVE TypeInv'
    <2>1. UNCHANGED <<mode, pid, dirs, kernel, initrd, snippet, backup, menu, nextEntry, uki,
                      loaded, unsynced, booted, flag, chosenBy>>
      BY <1>4 DEF CreateEntry
    <2> QED
      BY <1>0, <1>1, <1>4, <2>1, CreateEntryTypes
  <1>5. ASSUME NEW c \in Clients, SetBootNext(c) PROVE TypeInv'
    <2>1. bootNext' = {number[c]} /\ number[c] \in DOMAIN efi
      BY <1>5 DEF SetBootNext, Step
    <2>2. \A d \in Clients : pc'[d] = "bootnext" => pc[d] = "bootnext"
      BY <1>5 DEF HandoffInv, SetBootNext, Step
    <2> QED
      BY <1>0, <1>1, <1>5, <2>1, <2>2 DEF SetBootNext
  <1>6. ASSUME NEW c \in Clients, CopyUki(c) \/ UefiFails(c) \/ LoadKexec(c) \/ LastStepFails(c)
        PROVE  TypeInv'
    <2>1. \A d \in Clients : pc'[d] = "bootnext" => pc[d] = "bootnext"
      BY <1>6 DEF HandoffInv, CopyUki, UefiFails, LoadKexec, LastStepFails, Error, Step
    <2> QED
      BY <1>0, <1>1, <1>6, <2>1 DEF CopyUki, UefiFails, LoadKexec, LastStepFails
  <1>7. ASSUME NEW c \in Clients \cup {NoClient}, pc' = Ended(c), number' = number, efi' = efi
        PROVE  BootNumbers'
    BY <1>7 DEF Ended, Steps, UefiSteps
  <1>8. ASSUME OperatorReboots \/ \E c \in Clients : Reboot(c) PROVE TypeInv'
    <2>1. UNCHANGED <<mode, pid, number, dirs, grubVars, uefiVars, ranVars>> /\ unsynced' = {}
      BY <1>8 DEF OperatorReboots, Reboot
    <2>2. BootNumbers'
      BY <1>7, <1>8 DEF OperatorReboots, Reboot
    <2> QED
      BY <1>0, <1>1, <2>1, <2>2
  <1>9. ASSUME NEW c \in Clients, ExecKexec(c) PROVE TypeInv'
    <2>1. loaded \in Clients
      BY <1>9 DEF ExecKexec, HandoffInv, Choices
    <2>2. booted' \in Initrds /\ flag' \in Modes /\ chosenBy' \in Clients
      BY <1>9, <2>1 DEF ExecKexec, HandoffInv, Staged
    <2>3. UNCHANGED <<mode, pid, number, dirs, grubVars, uefiVars>> /\ unsynced' = {}
      BY <1>9 DEF ExecKexec
    <2>4. BootNumbers'
      BY <1>7, <1>9, <2>3 DEF ExecKexec
    <2> QED
      BY <1>0, <1>1, <2>2, <2>3, <2>4
  <1>10. ASSUME PowerCut PROVE TypeInv'
    <2>1. BootNumbers'
      BY <1>7, <1>10 DEF PowerCut
    <2>2. kernel' \in {kernel, "torn"} /\ snippet' \in {snippet, "torn"} /\ uki' \in {uki, "torn"}
      BY <1>10 DEF PowerCut
    <2> QED
      BY <1>0, <1>1, <1>10, <2>1, <2>2 DEF PowerCut
  <1>11. ASSUME GrubBoot PROVE TypeInv'
    <2>1. GrubEntry \in {"os"} \cup Modes
      BY DEF HandoffInv, GrubEntry
    <2>2. /\ booted' \in {booted, initrd} /\ chosenBy' \in {chosenBy, nextEntry}
          /\ flag' = flag \/ (flag' = GrubEntry /\ GrubEntry # "os")
      BY <1>11 DEF GrubBoot
    <2>3. UNCHANGED <<clientVars, dirs, kernel, initrd, snippet, backup, uefiVars, unsynced>>
      BY <1>11 DEF GrubBoot
    <2> QED
      BY <1>0, <1>1, <2>1, <2>2, <2>3
  <1>12. ASSUME UefiBoot PROVE TypeInv'
    <2>1. FirmwareEntry \in {"os"} \cup Modes
      BY <1>12, FirmwareEntryType DEF UefiBoot
    <2>2. /\ booted' \in {booted, "base"} /\ chosenBy' \in {chosenBy, NoClient}
          /\ flag' = flag \/ (flag' = FirmwareEntry /\ FirmwareEntry # "os")
      BY <1>12 DEF UefiBoot
    <2>3. UNCHANGED <<clientVars, dirs, grubVars, uki, efi, order, unsynced>> /\ bootNext' = {}
      BY <1>12 DEF UefiBoot
    <2> HIDE DEF FirmwareEntry
    <2> QED
      BY <1>0, <1>1, <2>1, <2>2, <2>3
  <1>13. ASSUME OperatorResets \/ Installer \/ UNCHANGED vars PROVE TypeInv'
    BY <1>0, <1>1, <1>13 DEF OperatorResets, Installer, InstallerSucceeds, InstallerStops,
           InstallerStopsErased, vars
  <1> QED
    BY <1>2, <1>3, <1>4, <1>5, <1>6, <1>8, <1>9, <1>10, <1>11, <1>12, <1>13
       DEF Next, Advance, Boot

\* Every variable of the handoff stays in its range: BootNext always names an
\* entry that exists, and the firmware and GRUB always find one to boot.
THEOREM TypeCorrect == Spec => []TypeOK
  <1>1. TypeInv => TypeOK
    BY DEF TypeInv
  <1>2. Spec => []Firmware
    BY InitFirmware, FirmwareStep, PTL DEF Spec
  <1> QED
    BY <1>1, <1>2, InitTypeInv, TypeStep, HandoffInvAlways, PTL DEF Spec
=============================================================================
