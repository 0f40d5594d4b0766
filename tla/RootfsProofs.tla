---------------------------- MODULE RootfsProofs ----------------------------
(***************************************************************************)
(* Proofs about Rootfs, for any commands, workspaces, devices and paths:   *)
(* an import never changes its device and unmounts it before it returns,   *)
(* and, where one command at a time uses a path, a finished archive or     *)
(* descriptor is never written again and a descriptor names its archive.   *)
(***************************************************************************)
EXTENDS Rootfs, TLAPS

\* Nothing is mounted writable; only an import that has not returned, was
\* killed, or could not unmount has its device mounted.
Mounts ==
    \A c \in Commands :
        /\ mount[c] # "rw"
        /\ mount[c] = "ro" =>
             /\ job[c].kind = "import"
             /\ pc[c] \in PackSteps \cup {"umount", "killed"} \/ c \in stuck

\* Each step belongs to a kind of command; what is packed is not packed again.
Phases ==
    \A c \in Commands :
        /\ pc[c] \in InitSteps => job[c].kind = "init"
        /\ pc[c] \in PackSteps => job[c].kind # "init" /\ c \notin packed
        /\ pc[c] \in {"mount", "umount"} => job[c].kind = "import"
        /\ pc[c] \in {"new", "mount"} => c \notin packed

NothingLost == \A t \in Trees : tree[t] # "lost"

\* The descriptor's path, and whether it belongs to some archive as well.
Beside(c) == Descriptor[Output(c)]
Apart(c)  == ~SelfDescribed(Beside(c))

\* What lies at a command's own paths at each of its steps.
Progress(c) ==
    /\ pc[c] = "tar" => file[Output(c)] = None
    /\ ~SelfDescribed(Output(c)) =>
         /\ pc[c] = "archiving" => file[Output(c)] = Open(c)
         /\ pc[c] \in {"hash", "describe"} => file[Output(c)] = Archive(c)
         /\ pc[c] = "describe" => hash[c] = c
    /\ Apart(c) /\ pc[c] \in {"tar", "archiving", "hash", "describe"} => file[Beside(c)] = None

Separate == \A c, d \in Running : c # d => Uses(c) \cap Uses(d) = {}

Orderly ==
    orderly => Separate /\ (\A c \in Commands : Progress(c)) /\ DescriptorNamesArchive

Inv == TypeOK /\ Mounts /\ Phases /\ NothingLost /\ Orderly

-----------------------------------------------------------------------------
(* Types, mounts and sources.                                              *)

\* A descriptor's path is a path.
LEMMA Paths ==
    ASSUME TypeOK, NEW c \in Commands
    PROVE  /\ Output(c) \in Outputs /\ Output(c) \in Files /\ Beside(c) \in Files
           /\ Tree(c) \in Trees
  BY RootfsAssumption DEF TypeOK, Job, Output, Beside, Tree

\* The files the model names are files.
LEMMA Kinds ==
    /\ None \in File /\ Torn \in File
    /\ \A c \in Commands : Open(c) \in File /\ Archive(c) \in File
    /\ \A c \in Commands \cup {NoCommand} : Describing(c) \in File
  BY DEF None, Torn, Open, Archive, Describing, File

LEMMA InitInv == Init => Inv
  <1> SUFFICES ASSUME Init PROVE Inv
    OBVIOUS
  <1> USE DEF Init
  <1>1. TypeOK
    BY RootfsAssumption, Kinds DEF TypeOK, Ends, Contents
  <1>2. Mounts /\ NothingLost
    BY DEF Mounts, NothingLost
  <1>3. Phases
    BY DEF Phases, InitSteps, PackSteps
  <1>4. Orderly
    <2>1. Running = {}
      BY DEF Running, Steps, InitSteps, PackSteps
    <2>2. \A c \in Commands : Progress(c)
      BY DEF Progress
    <2>3. DescriptorNamesArchive
      BY DEF DescriptorNamesArchive, None
    <2> QED
      BY <2>1, <2>2, <2>3 DEF Orderly, Separate
  <1> QED
    BY <1>1, <1>2, <1>3, <1>4 DEF Inv

\* Every step of a command but the file it writes keeps the types.
LEMMA TypesAdvance ==
    ASSUME TypeOK, NEW c \in Commands, Start(c) \/ Advance(c) PROVE TypeOK'
  <1> USE DEF TypeOK, Step, Error, Steps, InitSteps, PackSteps, Ends
  <1>0. /\ Output(c) \in Outputs /\ Output(c) \in Files /\ Beside(c) \in Files /\ Tree(c) \in Trees
        /\ "empty" \in Contents /\ "unfinished" \in Contents /\ "debian" \in Contents
        /\ "partial" \in Contents /\ "lost" \in Contents
    BY Paths DEF Contents
  <1>1. CASE Start(c)
    BY <1>1 DEF Start, Job
  <1>2. CASE RequireEmpty(c) \/ Unpack(c) \/ FinishBootstrap(c)
    BY <1>0, <1>2 DEF RequireEmpty, Unpack, FinishBootstrap
  <1>3. CASE InitFails(c)
    BY <1>0, <1>3 DEF InitFails
  <1>4. CASE MountSource(c) \/ MountFails(c) \/ Validate(c)
    BY <1>4 DEF MountSource, MountFails, Validate
  <1>5. CASE RequireFree(c)
    <2>1. tree' \in [Trees -> Contents]
      BY <1>0, <1>5 DEF RequireFree, WithDirectory
    <2> QED
      BY <1>0, <1>5, <2>1 DEF RequireFree
  <1>6. CASE OpenArchive(c) \/ CloseArchive(c)
    BY <1>0, <1>6, Kinds DEF OpenArchive, CloseArchive
  <1>7. CASE HashArchive(c)
    BY <1>0, <1>7 DEF HashArchive, File
  <1>8. CASE Describe(c)
    BY <1>0, <1>8, Kinds DEF Describe, AfterPack, Beside
  <1>9. CASE TarFails(c) \/ PackFails(c)
    BY <1>0, <1>9, Kinds DEF TarFails, PackFails, PackError, AfterPack, Beside
  <1>10. CASE Unmount(c) \/ UnmountFails(c)
    BY <1>0, <1>10 DEF Unmount, UnmountFails
  <1> QED
    BY <1>1, <1>2, <1>3, <1>4, <1>5, <1>6, <1>7, <1>8, <1>9, <1>10 DEF Advance

\* Every step keeps the types.
LEMMA TypesStep == TypeOK /\ [Next]_vars => TypeOK'
  <1> SUFFICES ASSUME TypeOK, [Next]_vars PROVE TypeOK'
    OBVIOUS
  <1>1. ASSUME NEW c \in Commands, Start(c) \/ Advance(c) PROVE TypeOK'
    BY <1>1, TypesAdvance
  <1>2. ASSUME NEW c \in Commands, Kill(c) PROVE TypeOK'
    BY <1>2, Kinds DEF TypeOK, Kill, Ends
  <1>3. ASSUME NEW f \in Files, Remove(f) PROVE TypeOK'
    BY <1>3, Kinds DEF TypeOK, Remove
  <1>4. ASSUME NEW w \in Workspaces, Clear(w) PROVE TypeOK'
    BY <1>4 DEF TypeOK, Clear, Contents, Trees
  <1>5. CASE PowerCut
    BY <1>5, Kinds DEF TypeOK, PowerCut, Ends
  <1>6. CASE UNCHANGED vars
    BY <1>6 DEF TypeOK, vars
  <1> QED
    BY <1>1, <1>2, <1>3, <1>4, <1>5, <1>6 DEF Next

\* Every step keeps the mounts, the phases and the devices' contents.
LEMMA MountsStep ==
    TypeOK /\ Mounts /\ Phases /\ NothingLost /\ [Next]_vars => Mounts' /\ Phases' /\ NothingLost'
  <1> SUFFICES ASSUME TypeOK, Mounts, Phases, NothingLost, [Next]_vars
               PROVE  Mounts' /\ Phases' /\ NothingLost'
    OBVIOUS
  <1> USE DEF TypeOK, Mounts, Phases, NothingLost, Step, Error, Steps, InitSteps, PackSteps
  <1>1. ASSUME NEW c \in Commands, Start(c) PROVE Mounts' /\ Phases' /\ NothingLost'
    BY <1>1 DEF Start, Job
  <1>2. ASSUME NEW c \in Commands, Advance(c) PROVE Mounts' /\ Phases' /\ NothingLost'
    <2>1. CASE RequireEmpty(c) \/ Unpack(c) \/ FinishBootstrap(c)
      BY <2>1 DEF RequireEmpty, Unpack, FinishBootstrap
    <2>2. CASE InitFails(c)
      BY <2>2 DEF InitFails
    <2>3. CASE MountSource(c) \/ MountFails(c) \/ Validate(c)
      BY <2>3 DEF MountSource, MountFails, Validate
    <2>4. CASE RequireFree(c)
      BY <2>4 DEF RequireFree, WithDirectory
    <2>5. CASE OpenArchive(c) \/ CloseArchive(c) \/ HashArchive(c)
      BY <2>5 DEF OpenArchive, CloseArchive, HashArchive
    <2>6. CASE Describe(c)
      BY <2>6 DEF Describe, AfterPack
    <2>7. CASE TarFails(c) \/ PackFails(c)
      BY <2>7 DEF TarFails, PackFails, PackError, AfterPack
    <2>8. CASE Unmount(c)
      BY <2>8 DEF Unmount
    <2>9. CASE UnmountFails(c)
      BY <2>9 DEF UnmountFails
    <2> QED
      BY <1>2, <2>1, <2>2, <2>3, <2>4, <2>5, <2>6, <2>7, <2>8, <2>9 DEF Advance
  <1>3. ASSUME NEW c \in Commands, Kill(c) PROVE Mounts' /\ Phases' /\ NothingLost'
    BY <1>3 DEF Kill
  <1>4. ASSUME NEW f \in Files, Remove(f) PROVE Mounts' /\ Phases' /\ NothingLost'
    BY <1>4 DEF Remove
  <1>5. ASSUME NEW w \in Workspaces, Clear(w) PROVE Mounts' /\ Phases' /\ NothingLost'
    BY <1>5 DEF Clear
  <1>6. CASE PowerCut
    BY <1>6 DEF PowerCut, Running
  <1>7. CASE UNCHANGED vars
    BY <1>7 DEF vars
  <1> QED
    BY <1>1, <1>2, <1>3, <1>4, <1>5, <1>6, <1>7 DEF Next

-----------------------------------------------------------------------------
(* The files.                                                              *)

\* A path beside an archive that is an output itself is its own descriptor's.
LEMMA DescriptorsApart ==
    ASSUME TypeOK, NEW c \in Commands, NEW d \in Commands
    PROVE  /\ Apart(c) => ~SelfDescribed(Output(c)) /\ Beside(c) # Output(d)
           /\ SelfDescribed(Output(c)) => Beside(c) = Output(c)
  <1>1. Output(c) \in Outputs /\ Output(d) \in Outputs
    BY Paths
  <1> QED
    BY <1>1, RootfsAssumption DEF Apart, SelfDescribed, Beside

\* Both paths of a command that packs are among the ones it uses.
LEMMA UsesPaths ==
    ASSUME NEW c \in Commands, job[c].kind # "init"
    PROVE  Output(c) \in Uses(c) /\ Beside(c) \in Uses(c)
  BY DEF Uses, Beside

\* What a command finds at its paths does not change while another one works.
LEMMA OthersProgress ==
    ASSUME Inv, orderly, NEW c \in Commands, NEW d \in Running, c # d, Progress(c),
           pc'[c] = pc[c], hash'[c] = hash[c], job' = job,
           \A f \in Files : f \notin Uses(d) => file'[f] = file[f]
    PROVE  Progress(c)'
  <1>1. CASE pc[c] \in {"tar", "archiving", "hash", "describe"}
    <2>1. c \in Running /\ job[c].kind # "init"
      BY <1>1 DEF Inv, Phases, Running, Steps, PackSteps
    <2>2. Uses(c) \cap Uses(d) = {}
      BY <2>1 DEF Inv, Orderly, Separate
    <2>3. file'[Output(c)] = file[Output(c)] /\ file'[Beside(c)] = file[Beside(c)]
      BY <2>1, <2>2, UsesPaths, Paths DEF Inv
    <2> QED
      BY <2>3 DEF Progress, Apart, Output, Beside, Open, Archive, None, SelfDescribed
  <1>2. CASE pc[c] \notin {"tar", "archiving", "hash", "describe"}
    BY <1>2 DEF Progress
  <1> QED
    BY <1>1, <1>2

\* What a command's step leaves alone.
LEMMA StepWrites ==
    ASSUME Inv, NEW d \in Commands, Advance(d) \/ Kill(d)
    PROVE  /\ d \in Running /\ job' = job /\ orderly' = orderly
           /\ \A c \in Commands \ {d} : pc'[c] = pc[c] /\ hash'[c] = hash[c]
           /\ \A f \in Files : f \notin Uses(d) => file'[f] = file[f]
           /\ packed \subseteq packed'
  <1> USE DEF Inv, TypeOK, Step, Error, Steps, InitSteps, PackSteps, Running
  <1>0. pc[d] \in PackSteps => Output(d) \in Uses(d) /\ Beside(d) \in Uses(d)
    BY UsesPaths DEF Phases
  <1>1. CASE RequireEmpty(d) \/ Unpack(d) \/ FinishBootstrap(d)
    BY <1>1 DEF RequireEmpty, Unpack, FinishBootstrap
  <1>2. CASE InitFails(d)
    BY <1>2 DEF InitFails
  <1>3. CASE MountSource(d) \/ MountFails(d) \/ Validate(d) \/ RequireFree(d)
    BY <1>3 DEF MountSource, MountFails, Validate, RequireFree
  <1>4. CASE OpenArchive(d) \/ CloseArchive(d) \/ HashArchive(d)
    BY <1>0, <1>4 DEF OpenArchive, CloseArchive, HashArchive
  <1>5. CASE Describe(d)
    BY <1>0, <1>5 DEF Describe, Beside
  <1>6. CASE TarFails(d)
    BY <1>0, <1>6 DEF TarFails, PackError
  <1>7. CASE PackFails(d)
    BY <1>0, <1>7 DEF PackFails, PackError, Beside
  <1>8. CASE Unmount(d) \/ UnmountFails(d)
    BY <1>8 DEF Unmount, UnmountFails
  <1>9. CASE Kill(d)
    BY <1>0, <1>9 DEF Kill, CutShort, Beside
  <1> QED
    BY <1>1, <1>2, <1>3, <1>4, <1>5, <1>6, <1>7, <1>8, <1>9 DEF Advance

\* A file that changes is removed, or is the archive or the descriptor some
\* command is writing.
Writes(d, f) ==
    \/ pc[d] \in {"tar", "archiving"} /\ f = Output(d)
    \/ pc[d] = "describe" /\ f = Beside(d)

LEMMA FilesWritten ==
    ASSUME Inv, orderly, [Next]_vars, NEW f \in Files, file'[f] # file[f]
    PROVE  file'[f] = None \/ \E d \in Running : Writes(d, f)
  <1> USE DEF Inv, TypeOK, Step, Error, Steps, InitSteps, PackSteps, Running, Writes
  <1>1. ASSUME NEW d \in Commands, Advance(d) PROVE \E e \in Running : Writes(e, f)
    <2>0. d \in Running
      BY <1>1, StepWrites
    <2>1. CASE InitFails(d) \/ RequireEmpty(d) \/ Unpack(d) \/ FinishBootstrap(d)
      BY <2>1 DEF InitFails, RequireEmpty, Unpack, FinishBootstrap
    <2>2. CASE \/ MountSource(d) \/ MountFails(d) \/ Validate(d) \/ RequireFree(d) \/ HashArchive(d)
               \/ Unmount(d) \/ UnmountFails(d)
      BY <2>2 DEF MountSource, MountFails, Validate, RequireFree, HashArchive, Unmount, UnmountFails
    <2>3. CASE OpenArchive(d) \/ CloseArchive(d)
      BY <2>0, <2>3 DEF OpenArchive, CloseArchive
    <2>4. CASE Describe(d)
      BY <2>0, <2>4 DEF Describe, Beside
    <2>5. CASE TarFails(d)
      BY <2>0, <2>5 DEF TarFails, PackError
    <2>6. CASE PackFails(d)
      BY <2>0, <2>6 DEF PackFails, PackError, Beside
    <2> QED
      BY <1>1, <2>1, <2>2, <2>3, <2>4, <2>5, <2>6 DEF Advance
  <1>2. ASSUME NEW d \in Commands, Kill(d) PROVE \E e \in Running : Writes(e, f)
    BY <1>2 DEF Kill, CutShort, Beside
  <1>3. ASSUME NEW d \in Commands, Start(d) PROVE FALSE
    BY <1>3 DEF Start
  <1>4. ASSUME NEW g \in Files, Remove(g) PROVE file'[f] = None
    BY <1>4 DEF Remove
  <1>5. ASSUME NEW w \in Workspaces, Clear(w) PROVE FALSE
    BY <1>5 DEF Clear
  <1>6. ~PowerCut /\ ~UNCHANGED vars
    BY DEF PowerCut, vars
  <1> QED
    BY <1>1, <1>2, <1>3, <1>4, <1>5, <1>6 DEF Next

\* What a command is about to write is not finished.
LEMMA WritesUnfinished ==
    ASSUME Inv, orderly, NEW d \in Running, NEW f \in Files, Writes(d, f), ~SelfDescribed(f)
    PROVE  file[f].kind \notin {"archive", "descriptor"}
  <1>1. d \in Commands /\ Progress(d)
    BY DEF Running, Inv, Orderly
  <1> QED
    BY <1>1, DescriptorsApart DEF Inv, Writes, Progress, Apart, None, Open

\* Steps of a command keep its own progress.
LEMMA OwnProgress ==
    ASSUME Inv, orderly, NEW d \in Commands, Start(d) \/ Advance(d) \/ Kill(d)
    PROVE  Progress(d)'
  <1> USE DEF Inv, TypeOK, Step, Error, Steps, InitSteps, PackSteps, Progress, Output, Beside, Apart,
              SelfDescribed
  <1>0. Progress(d) /\ Output(d) \in Files /\ Beside(d) \in Files
    BY Paths DEF Orderly
  <1>1. CASE Start(d)
    BY <1>1 DEF Start, Job
  <1>2. CASE RequireEmpty(d) \/ Unpack(d) \/ FinishBootstrap(d)
    BY <1>2 DEF RequireEmpty, Unpack, FinishBootstrap
  <1>3. CASE InitFails(d)
    BY <1>3 DEF InitFails
  <1>4. CASE MountSource(d) \/ MountFails(d) \/ Validate(d)
    BY <1>4 DEF MountSource, MountFails, Validate
  <1>5. CASE RequireFree(d)
    BY <1>5 DEF RequireFree, None
  <1>6. CASE OpenArchive(d)
    BY <1>0, <1>6, DescriptorsApart DEF OpenArchive, None, Open
  <1>7. CASE CloseArchive(d)
    BY <1>0, <1>7, DescriptorsApart DEF CloseArchive, None, Open, Archive
  <1>8. CASE HashArchive(d)
    BY <1>0, <1>8, DescriptorsApart DEF HashArchive, None, Archive
  <1>9. CASE Describe(d)
    BY <1>9 DEF Describe, AfterPack
  <1>10. CASE TarFails(d) \/ PackFails(d)
    BY <1>10 DEF TarFails, PackFails, PackError, AfterPack
  <1>11. CASE Unmount(d) \/ UnmountFails(d)
    BY <1>11 DEF Unmount, UnmountFails
  <1>12. CASE Kill(d)
    BY <1>12 DEF Kill
  <1> QED
    BY <1>1, <1>2, <1>3, <1>4, <1>5, <1>6, <1>7, <1>8, <1>9, <1>10, <1>11, <1>12 DEF Advance

\* Every step keeps what the commands find at their paths.
LEMMA ProgressStep ==
    ASSUME Inv, orderly, [Next]_vars, NEW c \in Commands
    PROVE  Progress(c)'
  <1>0. Progress(c)
    BY DEF Inv, Orderly
  <1> USE DEF Inv, TypeOK
  <1>1. ASSUME NEW d \in Commands, Advance(d) \/ Kill(d) PROVE Progress(c)'
    <2>1. CASE c = d
      BY <1>1, <2>1, OwnProgress
    <2>2. CASE c # d
      BY <1>0, <1>1, <2>2, StepWrites, OthersProgress
    <2> QED
      BY <2>1, <2>2
  <1>2. ASSUME NEW d \in Commands, Start(d) PROVE Progress(c)'
    <2>1. CASE c = d
      BY <1>2, <2>1, OwnProgress
    <2>2. CASE c # d
      BY <1>0, <1>2, <2>2 DEF Start, Progress, Output, Beside, Apart, SelfDescribed, None, Open, Archive
    <2> QED
      BY <2>1, <2>2
  <1>3. ASSUME NEW f \in Files, Remove(f) PROVE Progress(c)'
    <2>1. CASE pc[c] \in {"tar", "archiving", "hash", "describe"}
      <3>1. c \in Running /\ Output(c) \in Uses(c) /\ Beside(c) \in Uses(c)
        BY <2>1, UsesPaths DEF Phases, Running, Steps, PackSteps
      <3>2. file'[Output(c)] = file[Output(c)] /\ file'[Beside(c)] = file[Beside(c)]
        BY <1>3, <3>1, Paths DEF Remove
      <3> QED
        BY <1>0, <1>3, <3>2 DEF Remove, Progress, Output, Beside, Apart, SelfDescribed, None, Open, Archive
    <2>2. CASE pc[c] \notin {"tar", "archiving", "hash", "describe"}
      BY <1>3, <2>2 DEF Remove, Progress
    <2> QED
      BY <2>1, <2>2
  <1>4. ASSUME NEW w \in Workspaces, Clear(w) PROVE Progress(c)'
    BY <1>0, <1>4 DEF Clear, Progress, Output, Beside, Apart, SelfDescribed, None, Open, Archive
  <1>5. CASE UNCHANGED vars
    BY <1>0, <1>5 DEF vars, Progress, Output, Beside, Apart, SelfDescribed, None, Open, Archive
  <1>6. ~PowerCut
    BY DEF PowerCut
  <1> QED
    BY <1>1, <1>2, <1>3, <1>4, <1>5, <1>6 DEF Next

\* Commands that run at the same time use different paths.
LEMMA SeparateStep == Inv /\ orderly /\ [Next]_vars => Separate'
  <1> SUFFICES ASSUME Inv, orderly, [Next]_vars PROVE Separate'
    OBVIOUS
  <1>0. Separate
    BY DEF Inv, Orderly
  <1> USE DEF Inv, TypeOK
  <1>1. ASSUME Running' \subseteq Running, job' = job PROVE Separate'
    BY <1>0, <1>1 DEF Separate, Uses, Tree, Output
  <1>2. ASSUME NEW d \in Commands, Advance(d) \/ Kill(d) PROVE Separate'
    BY <1>1, <1>2, StepWrites DEF Running
  <1>3. ASSUME NEW d \in Commands, Start(d) PROVE Separate'
    <2>1. Running' \subseteq Running \cup {d} /\ job' = job
      BY <1>3 DEF Start, Running
    <2>2. \A e \in Running : Uses(e) \cap Uses(d) = {}
      BY <1>3 DEF Start
    <2>3. \A e \in Commands : Uses(e)' = Uses(e)
      BY <2>1 DEF Uses, Tree, Output
    <2>4. Running \subseteq Commands
      BY DEF Running
    <2> QED
      BY <1>0, <2>1, <2>2, <2>3, <2>4 DEF Separate
  <1>4. ASSUME NEW f \in Files, Remove(f) PROVE Separate'
    BY <1>1, <1>4 DEF Remove, Running
  <1>5. ASSUME NEW w \in Workspaces, Clear(w) PROVE Separate'
    BY <1>1, <1>5 DEF Clear, Running
  <1>6. CASE UNCHANGED vars
    BY <1>1, <1>6 DEF vars, Running
  <1>7. ~PowerCut
    BY DEF PowerCut
  <1> QED
    BY <1>2, <1>3, <1>4, <1>5, <1>6, <1>7 DEF Next

-----------------------------------------------------------------------------
(* Descriptors.                                                            *)

\* A descriptor that appears names the archive that was hashed.
LEMMA DescriptorAppears ==
    ASSUME Inv, orderly, [Next]_vars, NEW f \in Files, ~SelfDescribed(f),
           file'[f] # file[f], file'[f].kind = "descriptor"
    PROVE  \E c \in Commands :
              /\ c \in packed' /\ f = Beside(c) /\ file'[f] = Describing(c)
              /\ file'[Output(c)] = Archive(c)
  <1> USE DEF Inv, TypeOK, Step, Error
  <1>1. ASSUME NEW d \in Commands, Describe(d)
        PROVE  /\ d \in packed' /\ f = Beside(d) /\ file'[f] = Describing(d)
               /\ file'[Output(d)] = Archive(d)
    <2>1. f = Beside(d)
      BY <1>1 DEF Describe, Beside
    <2>2. Apart(d) /\ ~SelfDescribed(Output(d)) /\ Beside(d) # Output(d)
      BY <2>1, DescriptorsApart DEF Apart
    <2>3. hash[d] = d /\ file[Output(d)] = Archive(d)
      BY <1>1, <2>2 DEF Orderly, Progress, Describe
    <2>4. /\ file' = [file EXCEPT ![f] = Describing(hash[d])] /\ packed' = packed \cup {d}
      BY <1>1, <2>1 DEF Describe, Beside
    <2> QED
      BY <2>1, <2>2, <2>3, <2>4, Paths
  <1>2. ASSUME NEW d \in Commands, Advance(d), ~Describe(d) PROVE FALSE
    <2>1. CASE InitFails(d) \/ RequireEmpty(d) \/ Unpack(d) \/ FinishBootstrap(d)
      BY <2>1 DEF InitFails, RequireEmpty, Unpack, FinishBootstrap
    <2>2. CASE \/ MountSource(d) \/ MountFails(d) \/ Validate(d) \/ RequireFree(d) \/ HashArchive(d)
               \/ Unmount(d) \/ UnmountFails(d)
      BY <2>2 DEF MountSource, MountFails, Validate, RequireFree, HashArchive, Unmount, UnmountFails
    <2>3. CASE OpenArchive(d)
      BY <2>3 DEF OpenArchive, Open
    <2>4. CASE CloseArchive(d)
      BY <2>4 DEF CloseArchive, Archive, Torn
    <2>5. CASE TarFails(d)
      BY <2>5 DEF TarFails, Torn
    <2>6. CASE PackFails(d)
      BY <2>6 DEF PackFails, Torn
    <2> QED
      BY <1>2, <2>1, <2>2, <2>3, <2>4, <2>5, <2>6 DEF Advance
  <1>3. ASSUME NEW d \in Commands, Start(d) \/ Kill(d) PROVE FALSE
    <2>1. CASE Start(d)
      BY <2>1 DEF Start
    <2>2. CASE Kill(d)
      BY <2>2 DEF Kill, Torn
    <2> QED
      BY <1>3, <2>1, <2>2
  <1>4. ASSUME NEW g \in Files, Remove(g) PROVE FALSE
    BY <1>4 DEF Remove, None
  <1>5. ASSUME NEW w \in Workspaces, Clear(w) PROVE FALSE
    BY <1>5 DEF Clear
  <1>6. ~PowerCut /\ ~UNCHANGED vars
    BY DEF PowerCut, vars
  <1> QED
    BY <1>1, <1>2, <1>3, <1>4, <1>5, <1>6 DEF Next

\* No step changes what the commands were asked for or the order they keep, and
\* what was packed stays packed.
LEMMA JobsKept ==
    ASSUME Inv, [Next]_vars PROVE job' = job /\ orderly' = orderly /\ packed \subseteq packed'
  <1>1. ASSUME NEW d \in Commands, Advance(d) \/ Kill(d)
        PROVE  job' = job /\ orderly' = orderly /\ packed \subseteq packed'
    BY <1>1, StepWrites
  <1> QED
    BY <1>1 DEF Next, Start, Remove, Clear, PowerCut, vars

\* A descriptor keeps naming its archive: no command that could write the
\* archive again gets past the descriptor.
LEMMA NamesStep == Inv /\ orderly /\ [Next]_vars => DescriptorNamesArchive'
  <1> SUFFICES ASSUME Inv, orderly, [Next]_vars PROVE DescriptorNamesArchive'
    OBVIOUS
  <1> SUFFICES ASSUME NEW f \in Files, file'[f].kind = "descriptor", ~SelfDescribed(f)
               PROVE  \E c \in Commands :
                         /\ file'[f].by = c /\ c \in packed' /\ f = Beside(c)
                         /\ file'[Output(c)] \in {Archive(c), None}
    <2>1. job' = job
      BY JobsKept
    <2> QED
      BY <2>1 DEF DescriptorNamesArchive, SelfDescribed, Beside, Output, Archive, None
  <1>1. CASE file'[f] # file[f]
    <2>1. PICK c \in Commands : /\ c \in packed' /\ f = Beside(c) /\ file'[f] = Describing(c)
                                /\ file'[Output(c)] = Archive(c)
      BY <1>1, DescriptorAppears
    <2>2. file'[f].by = c
      BY <2>1 DEF Describing
    <2> QED
      BY <2>1, <2>2
  <1>2. CASE file'[f] = file[f]
    <2> DEFINE c == file[f].by
    <2>1. c \in packed /\ f = Beside(c) /\ file[Output(c)] \in {Archive(c), None}
      BY <1>2 DEF Inv, Orderly, DescriptorNamesArchive, Beside
    <2>2. c \in Commands /\ c \in packed'
      BY <2>1, JobsKept DEF Inv, TypeOK
    <2>3. Apart(c) /\ ~SelfDescribed(Output(c)) /\ Output(c) \in Files
      BY <2>1, <2>2, DescriptorsApart, Paths DEF Apart, Inv
    <2>4. ASSUME NEW d \in Running, Writes(d, Output(c)) PROVE FALSE
      <3>1. d \in Commands /\ Progress(d)
        BY DEF Running, Inv, Orderly
      <3>2. CASE pc[d] \in {"tar", "archiving"} /\ Output(d) = Output(c)
        <4>1. Beside(d) = f /\ Apart(d)
          BY <2>1, <2>3, <3>2 DEF Beside, Apart
        <4> QED
          BY <1>2, <3>1, <3>2, <4>1 DEF Progress, None
      <3>3. CASE Beside(d) = Output(c)
        <4>1. Apart(d)
          BY <2>3, <3>3 DEF Apart
        <4> QED
          BY <2>2, <3>1, <3>3, <4>1, DescriptorsApart DEF Inv
      <3> QED
        BY <2>4, <3>2, <3>3 DEF Writes
    <2>5. file'[Output(c)] \in {Archive(c), None}
      BY <2>1, <2>3, <2>4, FilesWritten
    <2> QED
      BY <1>2, <2>1, <2>2, <2>5
  <1> QED
    BY <1>1, <1>2

-----------------------------------------------------------------------------
(* The theorems.                                                           *)

LEMMA InvStep == Inv /\ [Next]_vars => Inv'
  <1> SUFFICES ASSUME Inv, [Next]_vars PROVE Inv'
    OBVIOUS
  <1>1. TypeOK' /\ Mounts' /\ Phases' /\ NothingLost'
    BY TypesStep, MountsStep DEF Inv
  <1>2. Orderly'
    BY JobsKept, SeparateStep, ProgressStep, NamesStep DEF Orderly
  <1> QED
    BY <1>1, <1>2 DEF Inv

\* The inductive invariant holds in every state.
THEOREM Invariant == Spec => []Inv
  BY InitInv, InvStep, PTL DEF Spec

\* Commands, files, trees and mounts keep their types in every state.
THEOREM TypeCorrect == Spec => []TypeOK
  BY Invariant, PTL DEF Inv

\* No import ever changes the filesystem it packs, even if the umount before
\* the removal of the mount point fails (import_source).
THEOREM SourceSafety == Spec => []SourcesKept
  <1>1. Inv => SourcesKept
    BY DEF Inv, NothingLost, SourcesKept, Trees
  <1> QED
    BY <1>1, Invariant, PTL

\* A command that has returned left nothing mounted that umount did not refuse.
THEOREM MountSafety == Spec => []MountUndone
  <1>1. Inv => MountUndone
    BY DEF Inv, TypeOK, Mounts, MountUndone, PackSteps
  <1> QED
    BY <1>1, Invariant, PTL

\* A descriptor names the complete archive beside it, where one command at a
\* time uses a path (pack_workspace).
THEOREM DescriptorSafety == Spec => []DescriptorNamesArchive
  <1>1. Inv => DescriptorNamesArchive
    BY DEF Inv, Orderly, DescriptorNamesArchive
  <1> QED
    BY <1>1, Invariant, PTL

\* There a finished archive or descriptor is never written again, only removed
\* by the operator (pack_workspace).
THEOREM FilesKept == Spec => FinishedKept
  <1>1. ASSUME Inv, [Next]_vars, orderly, NEW f \in Files, ~SelfDescribed(f),
               file[f].kind \in {"archive", "descriptor"}
        PROVE  file'[f] \in {file[f], None}
    BY <1>1, FilesWritten, WritesUnfinished
  <1>2. Inv /\ [Next]_vars =>
           (orderly => \A f \in Files :
              file[f].kind \in {"archive", "descriptor"} /\ ~SelfDescribed(f)
                 => file'[f] \in {file[f], None})
    BY <1>1
  <1> QED
    BY <1>2, Invariant, PTL DEF Spec, FinishedKept
=============================================================================
