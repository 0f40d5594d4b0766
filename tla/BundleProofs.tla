---------------------------- MODULE BundleProofs ----------------------------
(***************************************************************************)
(* Proofs about Bundle, for any calls, builds, entries and directories:    *)
(* what a call has staged is whole, bootable, and what its signature       *)
(* verified; the parsers agree; a pair that was fetched fits together; and *)
(* of an initrd given the manifest the kernel unpacks all there was.       *)
(***************************************************************************)
EXTENDS Bundle, InitrdProofs

\* The components a call has written to its directory.
Written(c) == {Entries[artifact[c]][i] : i \in 1 .. next[c] - 1}

\* Has a call that stages come to its end?
Unpacking(c) == pc[c] \in {"unpack", "embed"}
Finished(c)  == pc[c] = "embed" \/ (pc[c] = "done" /\ job(c).kind # "fetch")

\* Each step belongs to a kind of call; before the first entry is unpacked the
\* number of the next one is 1.
Phases(c) ==
    /\ pc[c] \in {"artifact", "signature", "store", "store_signature"} => job(c).kind = "fetch"
    /\ pc[c] \in {"read", "read_signature"} => job(c).kind = "stage"
    /\ pc[c] = "verify" => job(c).kind \in {"fetch", "stage"}
    /\ pc[c] = "embed" => job(c).kind = "install"
    /\ Unpacking(c) \/ Finished(c) \/ next[c] # 1 => job(c).kind # "fetch" /\ artifact[c] \in Builds
    /\ pc[c] \in {"new"} \cup FetchSteps \cup {"read", "read_signature"} => next[c] = 1
    /\ job(c).kind = "install" /\ pc[c] # "new" => artifact[c] = job(c).build

\* The entries that were unpacked are known and different, and they are all
\* the entries at the end.
EntriesUnpacked(c) ==
    /\ next[c] >= 1
    /\ \A i \in 1 .. next[c] - 1 : i \in DOMAIN TheEntries(c) /\ TheEntries(c)[i] \in Component
    /\ \A i, j \in 1 .. next[c] - 1 : i # j => TheEntries(c)[i] # TheEntries(c)[j]
    /\ Finished(c) => next[c] \notin DOMAIN TheEntries(c) /\ Bootable(Holds(TheEntries(c)))

\* What was written is there, whole unless the call failed or was killed.
InPlace(c) ==
    \A k \in Written(c) :
        /\ staged[Target(c)][k] # None
        /\ pc[c] \notin {"error", "killed"} => staged[Target(c)][k] = artifact[c]

\* What was verified is what is unpacked or stored.
Verified(c) ==
    /\ Unpacking(c) \/ Finished(c) => (job(c).key /\ job(c).kind = "stage" => text[c] = artifact[c])
    /\ pc[c] \in {"store", "store_signature"} \/ (pc[c] = "done" /\ job(c).kind = "fetch") =>
           (job(c).signature => text[c] = artifact[c])

\* A steady client alone in its directory finds there what it has written only,
\* and fails for no reason but the bundle's.
Alone(c) == c \in Steady /\ job(c).kind = "install" /\ \A d \in Calls \ {c} : Target(d) # Target(c)

Undisturbed(c) ==
    Alone(c) =>
        /\ \A k \in Component : staged[Target(c)][k] # None => k \in Written(c)
        /\ pc[c] = "error" => \/ ~valid_structure(TheEntries(c))
                              \/ embed_manifest_for_initrd(setup.initrd) = {}
                              \/ "initrd" \notin Holds(TheEntries(c))

Call(c) == Phases(c) /\ EntriesUnpacked(c) /\ InPlace(c) /\ Verified(c) /\ Undisturbed(c)

\* Two calls never write the same component.
Exclusive == \A c, d \in Calls : c # d /\ Target(c) = Target(d) => Written(c) \cap Written(d) = {}

\* One call at a time: the one that stores the signature has stored the bundle.
Stored ==
    setup.orderly =>
        /\ \A c, d \in Running : c = d
        /\ \A c \in Calls : pc[c] = "store_signature" => storedBy = c /\ stored = artifact[c]
        /\ \A c \in Calls : storedBy = c => job(c).kind = "fetch"
        /\ StoredPairVerifies

\* What a client has written is what the embedding made of the bundle's initrd.
Embedded == \A c \in Calls : embedded[c] \subseteq embed_manifest_for_initrd(setup.initrd)

Inv == TypeOK /\ (\A c \in Calls : Call(c)) /\ Exclusive /\ Stored /\ Embedded

-----------------------------------------------------------------------------
(* Types and the initial states.                                           *)

\* What the assumption says of the setup and of a build.
LEMMA SetupTypes ==
    ASSUME TypeOK, NEW c \in Calls
    PROVE  /\ job(c) \in Job /\ setup.orderly \in BOOLEAN /\ setup.server \subseteq Builds
           /\ Target(c) \in Directories
  BY BundleAssumption DEF TypeOK, job, Target, Job

LEMMA EntryTypes ==
    ASSUME NEW b \in Builds
    PROVE  /\ Entries[b] \in Seq(Component \cup {"other"})
           /\ DOMAIN Entries[b] = 1 .. Len(Entries[b]) /\ Len(Entries[b]) \in Nat
           /\ b # None /\ b # Torn
  BY BundleAssumption

LEMMA InitInv == Init => Inv
  <1> SUFFICES ASSUME Init PROVE Inv
    OBVIOUS
  <1> USE DEF Init
  <1>1. TypeOK
    BY BundleAssumption DEF TypeOK, Content, Ends
  <1>2. ASSUME NEW c \in Calls PROVE Call(c) /\ Written(c) = {}
    <2>1. Written(c) = {}
      BY <1>2 DEF Written
    <2>2. Phases(c) /\ EntriesUnpacked(c) /\ InPlace(c) /\ Verified(c)
      BY <1>2, <2>1 DEF Phases, EntriesUnpacked, InPlace, Verified, Unpacking, Finished
    <2>3. Undisturbed(c)
      BY <1>1, <1>2, SetupTypes DEF Undisturbed
    <2> QED
      BY <2>1, <2>2, <2>3 DEF Call
  <1>3. Exclusive
    BY <1>2 DEF Exclusive
  <1>4. Stored
    BY BundleAssumption DEF Stored, Running, Steps, FetchSteps, StageSteps, StoredPairVerifies
  <1>5. Embedded
    BY DEF Embedded
  <1> QED
    BY <1>1, <1>2, <1>3, <1>4, <1>5 DEF Inv

LEMMA TypesStep == TypeOK /\ [Next]_vars => TypeOK'
  <1> SUFFICES ASSUME TypeOK, [Next]_vars PROVE TypeOK'
    OBVIOUS
  <1> USE DEF TypeOK, Step, Error, Steps, FetchSteps, StageSteps, Ends, Content,
              callVars, serverVars, storeVars, stageVars
  <1>1. ASSUME NEW c \in Calls, Start(c) PROVE TypeOK'
    BY <1>1, SetupTypes DEF Start, Job
  <1>2. ASSUME NEW c \in Calls, Verify(c) \/ Refuse(c) PROVE TypeOK'
    BY <1>2 DEF Verify, Refuse
  <1>3. ASSUME NEW c \in Calls, DownloadArtifact(c) \/ DownloadSignature(c) PROVE TypeOK'
    BY <1>3 DEF DownloadArtifact, DownloadSignature
  <1>4. ASSUME NEW c \in Calls, StoreBundle(c) \/ StoreSignature(c) \/ FetchFails(c) PROVE TypeOK'
    BY <1>4 DEF StoreBundle, StoreSignature, FetchFails
  <1>5. ASSUME NEW c \in Calls, ReadBundle(c) \/ ReadSignature(c) \/ ReadFails(c) PROVE TypeOK'
    BY <1>5 DEF ReadBundle, ReadSignature, ReadFails
  <1>6. ASSUME NEW c \in Calls, TearEntry(c) \/ TearInitrd(c)
        PROVE  staged' \in [Directories -> [Component -> Content]]
    <2>1. CASE TearEntry(c)
      BY <2>1, SetupTypes DEF TearEntry, UnpackRefuses
    <2>2. CASE TearInitrd(c)
      BY <2>2, SetupTypes DEF TearInitrd, Component
    <2> QED
      BY <1>6, <2>1, <2>2
  <1>7. ASSUME NEW c \in Calls, UnpackEntry(c) \/ Unpacked(c) \/ UnpackFails(c) PROVE TypeOK'
    <2>1. CASE UnpackEntry(c)
      BY <2>1, SetupTypes DEF UnpackEntry
    <2>2. CASE Unpacked(c)
      BY <2>2 DEF Unpacked
    <2>3. CASE UnpackFails(c)
      BY <1>6, <2>3 DEF UnpackFails
    <2> QED
      BY <1>7, <2>1, <2>2, <2>3
  <1>8. ASSUME NEW c \in Calls, Embed(c) \/ EmbedFails(c) PROVE TypeOK'
    <2>1. CASE Embed(c)
      BY <2>1 DEF Embed
    <2>2. CASE EmbedFails(c)
      BY <1>6, <2>2 DEF EmbedFails
    <2> QED
      BY <1>8, <2>1, <2>2
  <1>9. ASSUME NEW c \in Calls, Kill(c) PROVE TypeOK'
    BY <1>6, <1>9 DEF Kill
  <1>10. CASE Publish
    BY <1>10, BundleAssumption DEF Publish
  <1>11. CASE UNCHANGED vars
    BY <1>11 DEF vars
  <1> QED
    BY <1>1, <1>2, <1>3, <1>4, <1>5, <1>7, <1>8, <1>9, <1>10, <1>11 DEF Next, Advance

-----------------------------------------------------------------------------
(* What a step changes.                                                    *)

\* A step concerns one call, and what it has read only before it unpacks.
LEMMA StepScope ==
    ASSUME TypeOK, \A c \in Calls : Call(c), NEW d \in Calls, Start(d) \/ Advance(d) \/ Kill(d)
    PROVE  /\ setup' = setup
           /\ \A c \in Calls \ {d} : /\ pc'[c] = pc[c] /\ artifact'[c] = artifact[c]
                                    /\ text'[c] = text[c] /\ next'[c] = next[c]
           /\ artifact'[d] # artifact[d] => next[d] = 1 /\ next'[d] = 1
  <1> USE DEF TypeOK, Step, Error, Call, Phases, Steps, FetchSteps, StageSteps,
              callVars, serverVars, storeVars, stageVars
  <1>1. CASE Start(d)
    BY <1>1 DEF Start
  <1>2. CASE Verify(d) \/ Refuse(d)
    BY <1>2 DEF Verify, Refuse
  <1>3. CASE DownloadArtifact(d) \/ DownloadSignature(d)
    BY <1>3 DEF DownloadArtifact, DownloadSignature
  <1>4. CASE StoreBundle(d) \/ StoreSignature(d) \/ FetchFails(d)
    BY <1>4 DEF StoreBundle, StoreSignature, FetchFails
  <1>5. CASE ReadBundle(d) \/ ReadSignature(d) \/ ReadFails(d)
    BY <1>5 DEF ReadBundle, ReadSignature, ReadFails
  <1>6. CASE UnpackEntry(d) \/ Unpacked(d) \/ UnpackFails(d)
    BY <1>6 DEF UnpackEntry, Unpacked, UnpackFails
  <1>7. CASE Embed(d) \/ EmbedFails(d) \/ Kill(d)
    BY <1>7 DEF Embed, EmbedFails, Kill
  <1> QED
    BY <1>1, <1>2, <1>3, <1>4, <1>5, <1>6, <1>7 DEF Advance

\* A step changes what no call has written yet, or, once all is unpacked, the
\* initrd the call itself has written, which then fails.
LEMMA StagedScope ==
    ASSUME TypeOK, \A c \in Calls : Call(c), NEW d \in Calls, Start(d) \/ Advance(d) \/ Kill(d),
           NEW e \in Directories, NEW k \in Component, staged'[e][k] # staged[e][k]
    PROVE  /\ e = Target(d) /\ staged'[e][k] # None
           /\ \/ staged[e][k] = None
              \/ Finished(d) /\ k \in Holds(TheEntries(d)) /\ pc'[d] \in {"error", "killed"}
  <1> USE DEF TypeOK, Step, Error, callVars, serverVars, storeVars, stageVars
  <1>0. Target(d) \in Directories /\ None # Torn
    BY SetupTypes, BundleAssumption
  <1>1. ASSUME TearEntry(d) PROVE e = Target(d) /\ staged'[e][k] # None /\ staged[e][k] = None
    BY <1>0, <1>1 DEF TearEntry, UnpackRefuses
  <1>2. ASSUME TearInitrd(d)
        PROVE  e = Target(d) /\ staged'[e][k] # None /\ k \in Holds(TheEntries(d))
    BY <1>0, <1>2 DEF TearInitrd
  <1>3. CASE Start(d) \/ Verify(d) \/ Refuse(d) \/ DownloadArtifact(d) \/ DownloadSignature(d)
    BY <1>3 DEF Start, Verify, Refuse, DownloadArtifact, DownloadSignature
  <1>4. CASE \/ StoreBundle(d) \/ StoreSignature(d) \/ FetchFails(d)
             \/ ReadBundle(d) \/ ReadSignature(d) \/ ReadFails(d) \/ Unpacked(d) \/ Embed(d)
    BY <1>4 DEF StoreBundle, StoreSignature, FetchFails, ReadBundle, ReadSignature, ReadFails,
                Unpacked, Embed
  <1>5. CASE UnpackEntry(d)
    <2>1. artifact[d] \in Builds
      BY <1>5 DEF Call, Phases, Unpacking, UnpackEntry
    <2> QED
      BY <1>0, <1>5, <2>1, EntryTypes DEF UnpackEntry
  <1>6. CASE UnpackFails(d)
    BY <1>1, <1>6 DEF UnpackFails
  <1>7. CASE EmbedFails(d)
    BY <1>2, <1>7 DEF EmbedFails, Finished
  <1>8. CASE Kill(d)
    BY <1>1, <1>2, <1>8 DEF Kill, Finished
  <1> QED
    BY <1>3, <1>4, <1>5, <1>6, <1>7, <1>8 DEF Advance

\* A call has written all components of its bundle when it is finished.
LEMMA AllWritten ==
    ASSUME TypeOK, NEW c \in Calls, Call(c), Finished(c)
    PROVE  artifact[c] \in Builds /\ Written(c) = Holds(TheEntries(c)) /\ Written(c) \subseteq Component
  <1>1. artifact[c] \in Builds /\ next[c] \in Nat
    BY DEF Call, Phases, TypeOK
  <1>2. 1 .. next[c] - 1 = DOMAIN TheEntries(c)
    BY <1>1, EntryTypes DEF Call, EntriesUnpacked, TheEntries
  <1> QED
    BY <1>1, <1>2 DEF Written, Holds, TheEntries, Call, EntriesUnpacked

-----------------------------------------------------------------------------
(* The calls one by one.                                                   *)

\* A call that does not move keeps what was said of it.
LEMMA OtherCall ==
    ASSUME Inv, NEW d \in Calls, Start(d) \/ Advance(d) \/ Kill(d), NEW c \in Calls \ {d}
    PROVE  Call(c)' /\ Written(c)' = Written(c)
  <1> USE DEF Inv
  <1>0. /\ setup' = setup /\ pc'[c] = pc[c] /\ artifact'[c] = artifact[c]
        /\ text'[c] = text[c] /\ next'[c] = next[c] /\ job(c)' = job(c) /\ Target(c)' = Target(c)
        /\ Target(c) \in Directories
    BY StepScope, SetupTypes DEF job, Target
  <1>1. Written(c)' = Written(c)
    BY <1>0 DEF Written
  <1>2. Phases(c)' /\ EntriesUnpacked(c)' /\ Verified(c)'
    <2>1. Phases(c)' /\ Verified(c)'
      BY <1>0 DEF Call, Phases, Verified, Unpacking, Finished, job
    <2>2. TheEntries(c)' = TheEntries(c) /\ Finished(c)' = Finished(c)
      BY <1>0 DEF TheEntries, Finished
    <2>3. EntriesUnpacked(c)'
      BY <1>0, <2>2 DEF Call, EntriesUnpacked, Bootable, Holds
    <2> QED
      BY <2>1, <2>3
  <1>3. ASSUME NEW k \in Written(c) PROVE staged'[Target(c)][k] = staged[Target(c)][k]
    <2>1. k \in Component /\ staged[Target(c)][k] # None
      BY <1>3 DEF Call, InPlace, EntriesUnpacked, Written, TheEntries
    <2>2. Finished(d) /\ k \in Holds(TheEntries(d)) /\ Target(d) = Target(c) => FALSE
      BY <1>3, AllWritten DEF Exclusive
    <2> QED
      BY <1>0, <2>1, <2>2, StagedScope
  <1>4. InPlace(c)'
    BY <1>0, <1>1, <1>3 DEF Call, InPlace
  <1>5. Undisturbed(c)'
    <2>1. Alone(c)' = Alone(c)
      BY <1>0 DEF Alone, Target, job
    <2>2. Alone(c) => \A k \in Component : staged'[Target(c)][k] = staged[Target(c)][k]
      BY <1>0, StagedScope DEF Alone
    <2> QED
      BY <1>0, <1>1, <2>1, <2>2 DEF Call, Undisturbed, TheEntries, Holds
  <1> QED
    BY <1>1, <1>2, <1>4, <1>5 DEF Call

\* A call's first step, and its verification.
LEMMA CallStarts ==
    ASSUME Inv, NEW d \in Calls, Start(d) \/ Verify(d) \/ Refuse(d)
    PROVE  Call(d)'
  <1> USE DEF Inv, TypeOK, Step, Error, callVars, serverVars, storeVars, stageVars
  <1>0. /\ setup' = setup /\ job(d)' = job(d) /\ Target(d)' = Target(d) /\ job(d) \in Job
        /\ staged' = staged /\ next' = next /\ next[d] = 1 /\ Call(d)
    <2>1. setup' = setup /\ staged' = staged /\ next' = next
      BY DEF Start, Verify, Refuse
    <2>2. next[d] = 1
      BY DEF Call, Phases, Start, Verify, Refuse, FetchSteps
    <2> QED
      BY <2>1, <2>2, SetupTypes DEF job, Target
  <1>1. Written(d)' = {} /\ Written(d) = {}
    BY <1>0 DEF Written
  <1>2. CASE Start(d)
    <2>1. Phases(d)'
      BY <1>0, <1>2 DEF Call, Phases, Start, Job, Unpacking, Finished, FetchSteps
    <2>2. EntriesUnpacked(d)' /\ Verified(d)'
      BY <1>0, <1>2 DEF EntriesUnpacked, Verified, Start, Job, Unpacking, Finished
    <2>3. InPlace(d)' /\ Undisturbed(d)'
      BY <1>0, <1>1, <1>2 DEF Call, InPlace, Undisturbed, Alone, Start, Job, Target, job
    <2> QED
      BY <2>1, <2>2, <2>3 DEF Call
  <1>3. CASE Verify(d)
    <2>0. artifact[d] \in Builds /\ (job(d).signature => text[d] = artifact[d])
          /\ job(d).signature = job(d).key
      BY <1>3 DEF Verify, Verifies
    <2>1. Phases(d)'
      BY <1>0, <1>3, <2>0 DEF Call, Phases, Verify, Unpacking, Finished, FetchSteps
    <2>2. EntriesUnpacked(d)' /\ Verified(d)'
      BY <1>0, <1>3, <2>0 DEF EntriesUnpacked, Verified, Verify, Unpacking, Finished
    <2>3. InPlace(d)' /\ Undisturbed(d)'
      BY <1>0, <1>1, <1>3 DEF Call, InPlace, Undisturbed, Alone, Verify, Target, job
    <2> QED
      BY <2>1, <2>2, <2>3 DEF Call
  <1>4. CASE Refuse(d)
    <2>1. Phases(d)' /\ EntriesUnpacked(d)' /\ Verified(d)'
      BY <1>0, <1>4 DEF Call, Phases, EntriesUnpacked, Verified, Refuse, Unpacking, Finished, FetchSteps
    <2>2. ~Alone(d)
      BY <1>4 DEF Call, Phases, Refuse, Alone
    <2>3. InPlace(d)' /\ Undisturbed(d)'
      BY <1>0, <1>1, <2>2 DEF InPlace, Undisturbed, Alone, Target, job
    <2> QED
      BY <2>1, <2>3 DEF Call
  <1> QED
    BY <1>2, <1>3, <1>4

\* A call that fetches, or has not read its bundle yet.
LEMMA CallFetches ==
    ASSUME Inv, NEW d \in Calls,
           \/ DownloadArtifact(d) \/ DownloadSignature(d) \/ StoreBundle(d) \/ StoreSignature(d)
           \/ FetchFails(d) \/ ReadBundle(d) \/ ReadSignature(d) \/ ReadFails(d)
    PROVE  Call(d)'
  <1> USE DEF Inv, TypeOK, Step, Error, callVars, serverVars, storeVars, stageVars
  <1>0. /\ setup' = setup /\ job(d)' = job(d) /\ Target(d)' = Target(d)
        /\ staged' = staged /\ next' = next /\ next[d] = 1 /\ Call(d) /\ job(d).kind # "install"
        /\ pc'[d] \in FetchSteps \cup {"read", "read_signature", "error", "done"}
        /\ pc'[d] = "done" => job(d).kind = "fetch"
    <2>1. setup' = setup /\ staged' = staged /\ next' = next
      BY DEF DownloadArtifact, DownloadSignature, StoreBundle, StoreSignature, FetchFails,
             ReadBundle, ReadSignature, ReadFails
    <2>2. next[d] = 1 /\ job(d).kind # "install" /\ (pc'[d] = "done" => job(d).kind = "fetch")
          /\ pc'[d] \in FetchSteps \cup {"read", "read_signature", "error", "done"}
      BY DEF Call, Phases, FetchSteps, DownloadArtifact, DownloadSignature, StoreBundle,
             StoreSignature, FetchFails, ReadBundle, ReadSignature, ReadFails
    <2> QED
      BY <2>1, <2>2 DEF job, Target
  <1>1. EntriesUnpacked(d)' /\ Written(d)' = {}
    BY <1>0 DEF EntriesUnpacked, Written, Finished, FetchSteps
  <1>2. InPlace(d)' /\ Undisturbed(d)'
    BY <1>0, <1>1 DEF InPlace, Undisturbed, Alone
  <1>3. Phases(d)'
    BY <1>0 DEF Call, Phases, Unpacking, Finished, FetchSteps, DownloadArtifact, DownloadSignature,
                StoreBundle, StoreSignature, FetchFails, ReadBundle, ReadSignature, ReadFails
  <1>4. Verified(d)'
    BY <1>0 DEF Call, Verified, Unpacking, Finished, FetchSteps, DownloadArtifact, DownloadSignature,
                StoreBundle, StoreSignature, FetchFails, ReadBundle, ReadSignature, ReadFails
  <1> QED
    BY <1>1, <1>2, <1>3, <1>4 DEF Call

\* A call that unpacks an entry.
LEMMA CallUnpacks ==
    ASSUME Inv, NEW d \in Calls, UnpackEntry(d)
    PROVE  /\ Call(d)'
           /\ \E k \in Component : staged[Target(d)][k] = None /\ Written(d)' = Written(d) \cup {k}
  <1> USE DEF Inv, TypeOK, callVars, serverVars, storeVars, stageVars
  <1> DEFINE k == TheEntries(d)[next[d]]
  <1>0. /\ setup' = setup /\ job(d)' = job(d) /\ Target(d)' = Target(d) /\ Target(d) \in Directories
        /\ pc' = pc /\ pc[d] = "unpack" /\ artifact' = artifact /\ text' = text
        /\ next'[d] = next[d] + 1 /\ next[d] \in Nat /\ next[d] >= 1
        /\ TheEntries(d)' = TheEntries(d) /\ next[d] \in DOMAIN TheEntries(d)
        /\ k \in Component /\ staged[Target(d)][k] = None
        /\ staged' = [staged EXCEPT ![Target(d)][k] = artifact[d]]
        /\ artifact[d] \in Builds /\ artifact[d] # None /\ Call(d)
    <2>1. artifact[d] \in Builds /\ artifact[d] # None
      BY EntryTypes DEF Call, Phases, Unpacking, UnpackEntry
    <2> QED
      BY <2>1, SetupTypes DEF UnpackEntry, TheEntries, job, Target, Call, EntriesUnpacked
  <1>1. 1 .. next'[d] - 1 = (1 .. next[d] - 1) \cup {next[d]}
    BY <1>0
  <1>2. Written(d)' = Written(d) \cup {k}
    BY <1>0, <1>1 DEF Written, TheEntries
  <1>3. k \notin Written(d)
    BY <1>0 DEF Call, InPlace
  <1>4. Phases(d)' /\ Verified(d)'
    BY <1>0 DEF Call, Phases, Verified, Unpacking, Finished, FetchSteps
  <1>5. EntriesUnpacked(d)'
    <2>1. ~Finished(d)'
      BY <1>0 DEF Finished
    <2>2. \A i \in 1 .. next[d] - 1 : TheEntries(d)[i] # k
      BY <1>3 DEF Written, TheEntries
    <2>3. \A i \in 1 .. next'[d] - 1 : i \in DOMAIN TheEntries(d) /\ TheEntries(d)[i] \in Component
      BY <1>0, <1>1 DEF Call, EntriesUnpacked
    <2>4. \A i, j \in 1 .. next'[d] - 1 : i # j => TheEntries(d)[i] # TheEntries(d)[j]
      BY <1>0, <1>1, <2>2 DEF Call, EntriesUnpacked
    <2> QED
      BY <1>0, <2>1, <2>3, <2>4 DEF EntriesUnpacked
  <1>6. InPlace(d)'
    <2>1. Written(d) \subseteq Component
      BY DEF Written, Call, EntriesUnpacked, TheEntries
    <2> QED
      BY <1>0, <1>2, <2>1 DEF Call, InPlace
  <1>7. Undisturbed(d)'
    BY <1>0, <1>2 DEF Call, Undisturbed, Alone, Target, job
  <1> QED
    BY <1>0, <1>2, <1>4, <1>5, <1>6, <1>7 DEF Call

\* A call that has unpacked everything, or gives its initrd the manifest.
LEMMA CallFinishes ==
    ASSUME Inv, NEW d \in Calls, Unpacked(d) \/ Embed(d)
    PROVE  Call(d)'
  <1> USE DEF Inv, TypeOK, Step, callVars, serverVars, storeVars, stageVars
  <1>0. /\ setup' = setup /\ job(d)' = job(d) /\ Target(d)' = Target(d) /\ staged' = staged
        /\ artifact' = artifact /\ text' = text /\ next' = next /\ TheEntries(d)' = TheEntries(d)
        /\ Written(d)' = Written(d) /\ Call(d) /\ job(d) \in Job
        /\ Unpacking(d) /\ pc'[d] \in {"embed", "done"} /\ (pc'[d] = "embed" => job(d).kind = "install")
    <2>1. setup' = setup /\ staged' = staged /\ artifact' = artifact /\ text' = text /\ next' = next
      BY DEF Unpacked, Embed
    <2>2. Unpacking(d) /\ pc'[d] \in {"embed", "done"} /\ (pc'[d] = "embed" => job(d).kind = "install")
      BY DEF Unpacked, Embed, Unpacking
    <2> QED
      BY <2>1, <2>2, SetupTypes DEF TheEntries, job, Target, Written
  <1>1. next[d] \notin DOMAIN TheEntries(d) /\ Bootable(Holds(TheEntries(d)))
    BY DEF Unpacked, Embed, Call, EntriesUnpacked, Finished
  <1>2. Phases(d)' /\ Verified(d)'
    BY <1>0 DEF Call, Phases, Verified, Unpacking, Finished, FetchSteps
  <1>3. EntriesUnpacked(d)'
    <2>1. Bootable(Holds(TheEntries(d)))'
      BY <1>0, <1>1
    <2>2. (next[d] \notin DOMAIN TheEntries(d))' /\ (next[d] >= 1)'
      BY <1>0, <1>1 DEF Call, EntriesUnpacked
    <2>3. (\A i \in 1 .. next[d] - 1 : i \in DOMAIN TheEntries(d) /\ TheEntries(d)[i] \in Component)'
      BY <1>0 DEF Call, EntriesUnpacked
    <2>4. (\A i, j \in 1 .. next[d] - 1 : i # j => TheEntries(d)[i] # TheEntries(d)[j])'
      BY <1>0 DEF Call, EntriesUnpacked
    <2> QED
      BY <2>1, <2>2, <2>3, <2>4 DEF EntriesUnpacked
  <1>4. InPlace(d)'
    BY <1>0 DEF Call, InPlace, Unpacking
  <1>5. Undisturbed(d)'
    BY <1>0 DEF Call, Undisturbed, Alone, Target, job
  <1> QED
    BY <1>2, <1>3, <1>4, <1>5 DEF Call

\* A call whose unpacking or embedding fails, or that is killed.
LEMMA CallFails ==
    ASSUME Inv, NEW d \in Calls, UnpackFails(d) \/ EmbedFails(d) \/ Kill(d)
    PROVE  Call(d)'
  <1> USE DEF Inv, TypeOK, Step, Error, callVars, serverVars, storeVars, stageVars
  <1>0. /\ setup' = setup /\ job(d)' = job(d) /\ Target(d)' = Target(d) /\ Target(d) \in Directories
        /\ artifact' = artifact /\ text' = text /\ next' = next /\ TheEntries(d)' = TheEntries(d)
        /\ Written(d)' = Written(d) /\ Call(d) /\ pc'[d] \in {"error", "killed"}
    <2>1. /\ setup' = setup /\ artifact' = artifact /\ text' = text /\ next' = next
          /\ pc'[d] \in {"error", "killed"}
      BY DEF UnpackFails, EmbedFails, Kill
    <2> QED
      BY <2>1, SetupTypes DEF TheEntries, job, Target, Written
  <1>1. Phases(d)' /\ Verified(d)'
    <2>1. job(d).kind = "install" => pc[d] # "new"
      BY DEF UnpackFails, EmbedFails, Kill, Steps, FetchSteps, StageSteps
    <2> QED
      BY <1>0, <2>1 DEF Call, Phases, Verified, Unpacking, Finished, FetchSteps
  <1>2. EntriesUnpacked(d)'
    BY <1>0 DEF Call, EntriesUnpacked, Finished
  <1>3. InPlace(d)'
    <2>1. ASSUME NEW k \in Written(d) PROVE staged'[Target(d)][k] # None
      <3>1. k \in Component /\ staged[Target(d)][k] # None
        BY <2>1 DEF Call, InPlace, EntriesUnpacked, Written, TheEntries
      <3> QED
        BY <1>0, <3>1, StagedScope DEF Advance
    <2> QED
      BY <1>0, <2>1 DEF InPlace
  <1>4. Undisturbed(d)'
    <2> SUFFICES ASSUME Alone(d) PROVE Undisturbed(d)'
      BY <1>0 DEF Undisturbed, Alone, Target, job
    <2>1. d \in Steady /\ ~MayFail(d)
      BY DEF Alone, MayFail
    <2>2. staged' = staged
      BY <2>1 DEF UnpackFails, EmbedFails, Kill
    <2>3. CASE UnpackFails(d)
      <3>1. UnpackRefuses(d)
        BY <2>1, <2>3 DEF UnpackFails
      <3>2. CASE next[d] \in DOMAIN TheEntries(d)
        <4> DEFINE k == TheEntries(d)[next[d]]
        <4>1. k \notin Component \/ k \in Written(d)
          BY <3>1, <3>2 DEF UnpackRefuses, Call, Undisturbed
        <4>2. ASSUME k \in Written(d) PROVE ~valid_structure(TheEntries(d))
          <5>1. PICK i \in 1 .. next[d] - 1 : TheEntries(d)[i] = k
            BY <4>2 DEF Written, TheEntries
          <5>2. i # next[d] /\ i \in DOMAIN TheEntries(d)
            BY <5>1 DEF Call, EntriesUnpacked
          <5> QED
            BY <3>2, <5>1, <5>2 DEF valid_structure
        <4>3. ~valid_structure(TheEntries(d))
          BY <3>2, <4>1, <4>2 DEF valid_structure, KnownEntries
        <4> QED
          BY <1>0, <2>2, <4>3 DEF Call, Undisturbed, valid_structure, KnownEntries, Bootable, Holds
      <3>3. CASE next[d] \notin DOMAIN TheEntries(d)
        <4>1. ~valid_structure(TheEntries(d))
          BY <3>1, <3>3 DEF UnpackRefuses, valid_structure
        <4> QED
          BY <1>0, <2>2, <4>1 DEF Call, Undisturbed, valid_structure, KnownEntries, Bootable, Holds
      <3> QED
        BY <3>2, <3>3
    <2>4. CASE EmbedFails(d)
      <3>1. "initrd" \notin Holds(TheEntries(d)) \/ embed_manifest_for_initrd(setup.initrd) = {}
        BY <2>1, <2>4 DEF EmbedFails
      <3> QED
        BY <1>0, <2>2, <3>1 DEF Call, Undisturbed, Holds
    <2>5. ~Kill(d)
      BY <2>1 DEF Kill
    <2> QED
      BY <2>3, <2>4, <2>5
  <1> QED
    BY <1>1, <1>2, <1>3, <1>4 DEF Call

-----------------------------------------------------------------------------
(* The calls together.                                                     *)

\* What a step adds to what its call has written was not there.
LEMMA OwnCall ==
    ASSUME Inv, NEW d \in Calls, Start(d) \/ Advance(d) \/ Kill(d)
    PROVE  /\ Call(d)'
           /\ \A k \in Written(d)' \ Written(d) : k \in Component /\ staged[Target(d)][k] = None
  <1>1. CASE UnpackEntry(d)
    BY <1>1, CallUnpacks
  <1>2. CASE ~UnpackEntry(d)
    <2>1. Call(d)'
      BY <1>2, CallStarts, CallFetches, CallFinishes, CallFails DEF Advance
    <2>2. next'[d] = next[d] \/ UNCHANGED next
      BY <1>2 DEF Advance, Start, Verify, Refuse, DownloadArtifact, DownloadSignature, StoreBundle,
                  StoreSignature, FetchFails, ReadBundle, ReadSignature, ReadFails, Unpacked,
                  UnpackFails, Embed, EmbedFails, Kill, callVars
    <2>3. Written(d)' = Written(d)
      <3>1. CASE artifact'[d] = artifact[d]
        BY <2>2, <3>1 DEF Written
      <3>2. CASE artifact'[d] # artifact[d]
        <4>1. next[d] = 1 /\ next'[d] = 1
          BY <3>2, StepScope DEF Inv
        <4> QED
          BY <4>1 DEF Written
      <3> QED
        BY <3>1, <3>2
    <2> QED
      BY <2>1, <2>3
  <1> QED
    BY <1>1, <1>2

\* Every step keeps what was said of the calls.
LEMMA CallsStep == Inv /\ [Next]_vars => (\A c \in Calls : Call(c)') /\ Exclusive'
  <1> SUFFICES ASSUME Inv, [Next]_vars PROVE (\A c \in Calls : Call(c)') /\ Exclusive'
    OBVIOUS
  <1>1. ASSUME NEW d \in Calls, Start(d) \/ Advance(d) \/ Kill(d)
        PROVE  (\A c \in Calls : Call(c)') /\ Exclusive'
    <2>1. \A c \in Calls : Call(c)'
      BY <1>1, OtherCall, OwnCall
    <2>2. \A c \in Calls : Target(c)' = Target(c)
      BY <1>1, StepScope DEF Inv, Target, job
    <2>3. ASSUME NEW c \in Calls \ {d}, Target(c) = Target(d)
          PROVE  Written(c)' \cap Written(d)' = {}
      <3>1. Written(c)' = Written(c) /\ Written(c) \cap Written(d) = {}
        BY <1>1, <2>3, OtherCall DEF Inv, Exclusive
      <3>2. \A k \in Written(c) : staged[Target(d)][k] # None
        BY <2>3 DEF Inv, Call, InPlace
      <3> QED
        BY <1>1, <3>1, <3>2, OwnCall
    <2>4. ASSUME NEW c \in Calls \ {d}, NEW e \in Calls \ {d}, c # e, Target(c) = Target(e)
          PROVE  Written(c)' \cap Written(e)' = {}
      BY <1>1, <2>4, OtherCall DEF Inv, Exclusive
    <2>5. ASSUME NEW c \in Calls, NEW e \in Calls, c # e, Target(c)' = Target(e)'
          PROVE  Written(c)' \cap Written(e)' = {}
      BY <2>2, <2>3, <2>4, <2>5
    <2> QED
      BY <2>1, <2>5 DEF Exclusive
  <1>2. ASSUME UNCHANGED <<setup, callVars, stageVars>>
        PROVE  (\A c \in Calls : Call(c)') /\ Exclusive'
    <2> USE <1>2 DEF Inv, callVars, stageVars
    <2>1. ASSUME NEW c \in Calls
          PROVE  /\ job(c)' = job(c) /\ Target(c)' = Target(c) /\ TheEntries(c)' = TheEntries(c)
                 /\ Written(c)' = Written(c) /\ Finished(c)' = Finished(c)
                 /\ Unpacking(c)' = Unpacking(c) /\ Alone(c)' = Alone(c)
      BY DEF job, Target, TheEntries, Written, Finished, Unpacking, Alone
    <2>2. ASSUME NEW c \in Calls PROVE Call(c)'
      <3>1. Phases(c)' /\ Verified(c)'
        BY <2>1 DEF Call, Phases, Verified
      <3>2. EntriesUnpacked(c)' /\ InPlace(c)'
        BY <2>1 DEF Call, EntriesUnpacked, InPlace, Bootable, Holds
      <3>3. Undisturbed(c)'
        BY <2>1 DEF Call, Undisturbed, Holds
      <3> QED
        BY <3>1, <3>2, <3>3 DEF Call
    <2> QED
      BY <2>1, <2>2 DEF Exclusive
  <1>3. CASE Publish \/ UNCHANGED vars
    BY <1>2, <1>3 DEF Publish, vars
  <1> QED
    BY <1>1, <1>3 DEF Next

\* The setup stays as it is.
LEMMA SetupKept ==
    ASSUME Inv, [Next]_vars
    PROVE  setup' = setup /\ \A c \in Calls : job(c)' = job(c)
  <1>1. setup' = setup
    BY StepScope DEF Inv, Next, Publish, vars
  <1> QED
    BY <1>1 DEF job

\* One call at a time fetches: what it stores is a pair.
LEMMA StoredStep == Inv /\ [Next]_vars => Stored'
  <1> SUFFICES ASSUME Inv, [Next]_vars, setup.orderly PROVE Stored'
    BY SetupKept DEF Stored
  <1>0. /\ Stored /\ \A c \in Calls : Call(c)
        /\ setup' = setup /\ \A c \in Calls : job(c)' = job(c)
    BY SetupKept DEF Inv
  <1> USE <1>0 DEF Inv, TypeOK, Step, Error, Steps, FetchSteps, StageSteps, Running,
              callVars, serverVars, storeVars, stageVars, Stored, StoredPairVerifies
  <1>1. ASSUME NEW d \in Calls, Start(d) PROVE Stored'
    BY <1>1, SetupTypes DEF Start, Job
  <1>2. ASSUME NEW d \in Calls, Verify(d) \/ Refuse(d) PROVE Stored'
    BY <1>2 DEF Verify, Refuse
  <1>3. ASSUME NEW d \in Calls, DownloadArtifact(d) \/ DownloadSignature(d) PROVE Stored'
    BY <1>3 DEF DownloadArtifact, DownloadSignature
  <1>4. ASSUME NEW d \in Calls, StoreBundle(d) PROVE Stored'
    BY <1>4 DEF StoreBundle, Call, Phases
  <1>5. ASSUME NEW d \in Calls, StoreSignature(d) PROVE Stored'
    BY <1>5 DEF StoreSignature, Call, Verified
  <1>6. ASSUME NEW d \in Calls, FetchFails(d) PROVE Stored'
    BY <1>6 DEF FetchFails, Call, Phases
  <1>7. ASSUME NEW d \in Calls, ReadBundle(d) \/ ReadSignature(d) \/ ReadFails(d) PROVE Stored'
    BY <1>7 DEF ReadBundle, ReadSignature, ReadFails
  <1>8. ASSUME NEW d \in Calls,
               UnpackEntry(d) \/ Unpacked(d) \/ UnpackFails(d) \/ Embed(d) \/ EmbedFails(d)
        PROVE  Stored'
    <2>1. /\ UNCHANGED <<storeVars, artifact, text>> /\ pc[d] \in {"unpack", "embed"}
          /\ job(d).kind # "fetch"
          /\ \E to \in {"unpack", "embed", "done", "error"} : pc' = [pc EXCEPT ![d] = to]
      BY <1>8 DEF UnpackEntry, Unpacked, UnpackFails, Embed, EmbedFails, Call, Phases, Unpacking
    <2> QED
      BY <2>1
  <1>9. ASSUME NEW d \in Calls, Kill(d) PROVE Stored'
    BY <1>9 DEF Kill, Call, Phases
  <1>10. CASE Publish \/ UNCHANGED vars
    BY <1>10 DEF Publish, vars
  <1> QED
    BY <1>1, <1>2, <1>3, <1>4, <1>5, <1>6, <1>7, <1>8, <1>9, <1>10 DEF Next, Advance

\* Only Embed writes an initrd that is kept in embedded.
LEMMA EmbeddedStep == Inv /\ [Next]_vars => Embedded'
  <1> SUFFICES ASSUME Inv, [Next]_vars PROVE Embedded'
    OBVIOUS
  <1>1. setup' = setup /\ Embedded /\ DOMAIN embedded = Calls
    BY SetupKept DEF Inv, TypeOK
  <1>2. ASSUME NEW d \in Calls, Embed(d) PROVE Embedded'
    BY <1>1, <1>2 DEF Embed, Embedded
  <1>3. ASSUME NEW d \in Calls, UnpackEntry(d) \/ UnpackFails(d) \/ EmbedFails(d) \/ Kill(d)
        PROVE  embedded' = embedded
    BY <1>3 DEF UnpackEntry, UnpackFails, EmbedFails, Kill
  <1>4. ASSUME NEW d \in Calls,
               \/ Start(d) \/ Verify(d) \/ Refuse(d) \/ DownloadArtifact(d) \/ DownloadSignature(d)
               \/ StoreBundle(d) \/ StoreSignature(d) \/ FetchFails(d)
               \/ ReadBundle(d) \/ ReadSignature(d) \/ ReadFails(d) \/ Unpacked(d)
        PROVE  embedded' = embedded
    BY <1>4 DEF Start, Verify, Refuse, DownloadArtifact, DownloadSignature, StoreBundle, StoreSignature,
                FetchFails, ReadBundle, ReadSignature, ReadFails, Unpacked, stageVars
  <1>5. CASE Publish \/ UNCHANGED vars
    BY <1>1, <1>5 DEF Publish, vars, stageVars, Embedded
  <1>6. embedded' = embedded => Embedded'
    BY <1>1 DEF Embedded
  <1> QED
    BY <1>2, <1>3, <1>4, <1>5, <1>6 DEF Next, Advance

-----------------------------------------------------------------------------
(* The theorems.                                                           *)

LEMMA InvStep == Inv /\ [Next]_vars => Inv'
  BY TypesStep, CallsStep, StoredStep, EmbeddedStep DEF Inv

\* The inductive invariant holds in every state.
THEOREM Invariant == Spec => []Inv
  BY InitInv, InvStep, PTL DEF Spec

\* The server, the stored pair, the calls and the directories keep their types.
THEOREM TypeCorrect == Spec => []TypeOK
  BY Invariant, PTL DEF Inv

\* What a call has staged at its end, in terms of the invariant.
LEMMA EndsWritten ==
    ASSUME Inv, NEW c \in Calls, Finished(c)
    PROVE  /\ artifact[c] \in Builds
           /\ \A k \in Holds(Entries[artifact[c]]) : staged[Target(c)][k] = artifact[c]
           /\ valid_structure(Entries[artifact[c]])
  <1>1. Call(c)
    BY DEF Inv
  <1>2. artifact[c] \in Builds /\ Written(c) = Holds(TheEntries(c))
    BY <1>1, AllWritten DEF Inv
  <1>3. \A k \in Holds(TheEntries(c)) : staged[Target(c)][k] = artifact[c]
    BY <1>1, <1>2 DEF Call, InPlace, Finished
  <1>4. 1 .. next[c] - 1 = DOMAIN TheEntries(c)
    <2>1. next[c] \in Nat
      BY DEF Inv, TypeOK
    <2> QED
      BY <1>1, <1>2, <2>1, EntryTypes DEF Call, EntriesUnpacked, TheEntries
  <1>5. valid_structure(TheEntries(c))
    BY <1>1, <1>4 DEF Call, EntriesUnpacked, valid_structure, KnownEntries
  <1> QED
    BY <1>2, <1>3, <1>5 DEF TheEntries

\* A call with a signature has staged the bundle the signature is for, though
\* the files it read may be replaced at any moment (read_verified_bundle).
THEOREM VerifiedSafety == Spec => []StagedIsVerified
  <1>1. ASSUME Inv, NEW c \in Calls, Unpacks(c), job(c).key
        PROVE  text[c] \in Builds /\ \A k \in Holds(Entries[text[c]]) : staged[Target(c)][k] = text[c]
    <2>1. CASE job(c).kind = "stage"
      <3>1. text[c] = artifact[c]
        BY <1>1, <2>1 DEF Inv, Call, Verified, Unpacks, Finished
      <3> QED
        BY <1>1, <3>1, EndsWritten DEF Unpacks, Finished
    <2>2. CASE job(c).kind = "install"
      BY <1>1, <2>2, BundleAssumption DEF Inv, TypeOK, job
    <2> QED
      BY <1>1, <2>1, <2>2, SetupTypes DEF Inv, Unpacks, Job
  <1>2. Inv => StagedIsVerified
    BY <1>1 DEF StagedIsVerified
  <1> QED
    BY <1>2, Invariant, PTL

\* A call that succeeds has staged a bundle that can be booted, whole and from
\* one build (stage_bundle_bytes).
THEOREM BootableSafety == Spec => []StagedIsBootable
  <1>1. Inv => StagedIsBootable
    BY EndsWritten DEF StagedIsBootable, Unpacks, Finished
  <1> QED
    BY <1>1, Invariant, PTL

\* In an empty directory an undisturbed client stages exactly the bundles that
\* validate_bundle_structure accepts.
THEOREM ParserSafety == Spec => []ParsersAgree
  <1>1. ASSUME Inv, NEW c \in Steady, job(c).kind = "install",
               \A d \in Calls \ {c} : Target(d) # Target(c)
        PROVE  /\ pc[c] \in {"embed", "done"} => valid_structure(Entries[job(c).build])
               /\ pc[c] = "error" /\ embed_manifest_for_initrd(setup.initrd) # {}
                    /\ "initrd" \in Holds(Entries[job(c).build])
                    => ~valid_structure(Entries[job(c).build])
    <2>1. c \in Calls /\ Call(c) /\ Alone(c)
      BY <1>1, BundleAssumption DEF Inv, Alone
    <2>2. pc[c] # "new" => artifact[c] = job(c).build
      BY <1>1, <2>1 DEF Call, Phases
    <2>3. pc[c] \in {"embed", "done"} => valid_structure(TheEntries(c))
      BY <1>1, <2>1, EndsWritten DEF Finished, TheEntries
    <2>4. pc[c] = "error" => \/ ~valid_structure(TheEntries(c))
                             \/ embed_manifest_for_initrd(setup.initrd) = {}
                             \/ "initrd" \notin Holds(TheEntries(c))
      BY <2>1 DEF Call, Undisturbed
    <2> QED
      BY <2>2, <2>3, <2>4 DEF TheEntries
  <1>2. Inv => ParsersAgree
    BY <1>1 DEF ParsersAgree
  <1> QED
    BY <1>2, Invariant, PTL

\* After a fetch of a signed bundle that succeeded, the files on the disk are a
\* pair until the next fetch stores something (fetch_bundle).
THEOREM PairSafety == Spec => []StoredPairVerifies
  <1>1. Inv => StoredPairVerifies
    BY DEF Inv, Stored, StoredPairVerifies
  <1> QED
    BY <1>1, Invariant, PTL

\* Of an initrd of one archive that the kernel reads and that has the directory
\* etc, whatever the sizes of names and files and the padding, a client makes one
\* of which the kernel unpacks every path it unpacked before and the manifest's
\* (embed_manifest and init/initramfs.c).
THEOREM ManifestSafety == Spec => []ManifestUnpacked
  <1>1. ASSUME Inv, NEW c \in Calls, NEW image \in embedded[c], Plain(setup.initrd)
        PROVE  KernelFiles(image) = KernelFiles(setup.initrd) \cup ManifestPaths
    <2>1. setup.initrd \in Seq(Segment)
      BY <1>1, BundleAssumption DEF Inv, TypeOK
    <2>2. image \in embed_manifest_for_initrd(setup.initrd)
      BY <1>1 DEF Inv, Embedded
    <2> QED
      BY <1>1, <2>1, <2>2, EmbeddingIsRead
  <1>2. Inv => ManifestUnpacked
    BY <1>1 DEF ManifestUnpacked
  <1> QED
    BY <1>2, Invariant, PTL
=============================================================================
