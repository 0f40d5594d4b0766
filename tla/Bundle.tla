------------------------------- MODULE Bundle -------------------------------
(***************************************************************************)
(* The installer bundle: fetched from a server with its signature, stored, *)
(* read again, verified, staged entry by entry and given the manifest.     *)
(* Calls may run at the same time, fail and be killed half way; the server *)
(* may be given another build between two downloads.                       *)
(***************************************************************************)
EXTENDS Initrd

CONSTANTS
    Calls,        \* calls of fetch_bundle, of stage_bundle_with_policy, and clients
    Steady,       \* the calls that nobody kills and whose files and downloads do not fail
    Builds,       \* bundles the publisher builds
    Entries,      \* the entries of each build's tar
    Directories,  \* staging directories
    Setups,       \* see Setup
    None, Torn    \* no file, a file that was cut short

Component == {"kernel", "initrd", "installer.efi"}

(***************************************************************************)
(* fetch and stage go by a policy: is there a signature, is there a key?   *)
(* A client ("install") stages the build it was linked with, in which      *)
(* nothing is verified, and embeds the manifest.                           *)
(***************************************************************************)
Job == [kind : {"fetch", "stage", "install"}, signature : BOOLEAN, key : BOOLEAN,
        build : Builds, directory : Directories]

(***************************************************************************)
(* orderly: one call at a time, and the server does not change; server:    *)
(* the builds it may have; initrd: the initrd in the bundles.              *)
(***************************************************************************)
Setup == [jobs : [Calls -> Job], orderly : BOOLEAN, server : SUBSET Builds, initrd : Seq(Segment)]

ASSUME BundleAssumption ==
    /\ Steady \subseteq Calls
    /\ {None, Torn} \cap Builds = {} /\ None # Torn /\ None \notin Calls
    /\ Entries \in [Builds -> Seq(Component \cup {"other"})]
    /\ \A s \in Setups :
          /\ s.jobs \in [Calls -> Job] /\ s.orderly \in BOOLEAN /\ s.server \subseteq Builds
          /\ \A c \in Calls : s.jobs[c].kind = "install" => ~s.jobs[c].key
          /\ s.initrd \in Seq(Segment) \ {<<>>}

VARIABLES
    setup,
    online,       \* the bundle at its URL
    onlineText,   \* the build whose signature is at the signature's URL
    stored,       \* the bundle in the caller's directory
    storedText,   \* the build whose signature is beside it
    storedBy,     \* history: the call that wrote the bundle last
    pc,
    artifact,     \* the bytes each call has read
    text,         \* the signature each call has read
    next,         \* the number of the entry each call unpacks next
    staged,       \* what lies in each staging directory, component by component
    embedded      \* the initrd each client has written, none yet or one

callVars   == <<pc, artifact, text, next>>
serverVars == <<online, onlineText>>
storeVars  == <<stored, storedText, storedBy>>
stageVars  == <<staged, embedded>>
vars == <<setup, callVars, serverVars, storeVars, stageVars>>

Content == Builds \cup {None, Torn}

FetchSteps == {"artifact", "signature", "verify", "store", "store_signature"}
StageSteps == {"read", "read_signature", "verify", "unpack", "embed"}
Steps      == FetchSteps \cup StageSteps
Ends       == {"new", "done", "error", "killed"}

TypeOK ==
    /\ setup \in Setups
    /\ {online, onlineText} \subseteq Builds
    /\ {stored, storedText} \subseteq Content /\ storedBy \in Calls \cup {None}
    /\ pc \in [Calls -> Steps \cup Ends]
    /\ artifact \in [Calls -> Content] /\ text \in [Calls -> Content]
    /\ next \in [Calls -> Nat]
    /\ staged \in [Directories -> [Component -> Content]]
    /\ DOMAIN embedded = Calls

job(c) == setup.jobs[c]

Init ==
    /\ setup \in Setups
    /\ online \in setup.server /\ onlineText = online
    /\ stored \in setup.server \cup {None} /\ storedText = stored /\ storedBy = None
    /\ pc = [c \in Calls |-> "new"]
    /\ artifact = [c \in Calls |-> None] /\ text = [c \in Calls |-> None]
    /\ next = [c \in Calls |-> 1]
    /\ staged = [d \in Directories |-> [k \in Component |-> None]]
    /\ embedded = [c \in Calls |-> {}]

-----------------------------------------------------------------------------
Running == {c \in Calls : pc[c] \in Steps}

Step(c, from, to) == pc[c] = from /\ pc' = [pc EXCEPT ![c] = to]

Error(c, from) == Step(c, from, "error")

\* May a call fail for a reason of its own?
MayFail(c) == c \notin Steady

\* The bundle a client was linked with is in its memory.
Start(c) ==
    /\ pc[c] = "new"
    /\ setup.orderly => Running = {}
    /\ pc' = [pc EXCEPT ![c] = CASE job(c).kind = "fetch"   -> "artifact"
                                 [] job(c).kind = "stage"   -> "read"
                                 [] job(c).kind = "install" -> "unpack"]
    /\ artifact' = IF job(c).kind = "install" THEN [artifact EXCEPT ![c] = job(c).build] ELSE artifact
    /\ UNCHANGED <<setup, text, next, serverVars, storeVars, stageVars>>

\* The publisher replaces the bundle, then its signature.
Publish ==
    /\ ~setup.orderly
    /\ \/ \E b \in setup.server : online' = b /\ UNCHANGED onlineText
       \/ onlineText' = online /\ UNCHANGED online
    /\ UNCHANGED <<setup, callVars, storeVars, stageVars>>

-----------------------------------------------------------------------------
(* What is accepted: validate_bundle_structure, read_verified_bundle.      *)

KnownEntries(e) == \A i \in DOMAIN e : e[i] \in Component

Holds(e) == {e[i] : i \in DOMAIN e}

\* kernel and initrd together, and something to boot.
Bootable(present) ==
    /\ ("kernel" \in present) = ("initrd" \in present)
    /\ present \cap {"kernel", "installer.efi"} # {}

\* (Mutant of valid_structure: a component that comes twice counts once.)
valid_structure_with_duplicates(e) == KnownEntries(e) /\ Bootable(Holds(e))

valid_structure(e) ==
    /\ KnownEntries(e)
    /\ \A i, j \in DOMAIN e : i # j => e[i] # e[j]
    /\ Bootable(Holds(e))

\* (Mutant of Verifies: a bundle without a signature is refused.)
VerifiesOnlySigned(c) ==
    /\ job(c).signature /\ job(c).key /\ text[c] = artifact[c]
    /\ artifact[c] \in Builds /\ valid_structure(Entries[artifact[c]])

\* A signature and a key come both or not at all; a signature fits the one
\* bundle it was made for, whole.
Verifies(c) ==
    /\ job(c).signature = job(c).key
    /\ job(c).signature => text[c] = artifact[c]
    /\ artifact[c] \in Builds /\ valid_structure(Entries[artifact[c]])

Verify(c) ==
    /\ Step(c, "verify", IF job(c).kind = "fetch" THEN "store" ELSE "unpack")
    /\ Verifies(c)
    /\ UNCHANGED <<setup, artifact, text, next, serverVars, storeVars, stageVars>>

Refuse(c) ==
    /\ Error(c, "verify")
    /\ ~Verifies(c)
    /\ UNCHANGED <<setup, artifact, text, next, serverVars, storeVars, stageVars>>

-----------------------------------------------------------------------------
(* fetch_bundle                                                            *)

\* (Mutant of DownloadArtifact: the answer is kept for its body.)
DownloadAnswer(c) ==
    /\ Step(c, "artifact", "signature")
    /\ artifact' = [artifact EXCEPT ![c] = <<online>>]
    /\ UNCHANGED <<setup, text, next, serverVars, storeVars, stageVars>>

DownloadArtifact(c) ==
    /\ Step(c, "artifact", "signature")
    /\ artifact' = [artifact EXCEPT ![c] = online]
    /\ UNCHANGED <<setup, text, next, serverVars, storeVars, stageVars>>

DownloadSignature(c) ==
    /\ Step(c, "signature", "verify")
    /\ text' = [text EXCEPT ![c] = IF job(c).signature THEN onlineText ELSE None]
    /\ UNCHANGED <<setup, artifact, next, serverVars, storeVars, stageVars>>

StoreBundle(c) ==
    /\ Step(c, "store", IF job(c).signature THEN "store_signature" ELSE "done")
    /\ stored' = artifact[c] /\ storedBy' = c
    /\ UNCHANGED <<setup, artifact, text, next, storedText, serverVars, stageVars>>

\* (Mutant of StoreSignature: a signature that is there is kept.)
StoreFirstSignature(c) ==
    /\ Step(c, "store_signature", "done")
    /\ storedText' = IF storedText = None THEN text[c] ELSE storedText
    /\ UNCHANGED <<setup, artifact, text, next, stored, storedBy, serverVars, stageVars>>

StoreSignature(c) ==
    /\ Step(c, "store_signature", "done")
    /\ storedText' = text[c]
    /\ UNCHANGED <<setup, artifact, text, next, stored, storedBy, serverVars, stageVars>>

\* A download fails, or a file that is there is truncated and not written.
FetchFails(c) ==
    /\ MayFail(c)
    /\ \/ (Error(c, "artifact") \/ Error(c, "signature")) /\ UNCHANGED storeVars
       \/ /\ Error(c, "store")
          /\ \/ UNCHANGED storeVars
             \/ stored' = Torn /\ storedBy' = c /\ UNCHANGED storedText
       \/ Error(c, "store_signature") /\ storedText' \in {storedText, Torn} /\ UNCHANGED <<stored, storedBy>>
    /\ UNCHANGED <<setup, artifact, text, next, serverVars, stageVars>>

-----------------------------------------------------------------------------
(* stage_bundle_with_policy and stage_bundle_bytes                         *)

ReadBundle(c) ==
    /\ Step(c, "read", "read_signature")
    /\ stored # None
    /\ artifact' = [artifact EXCEPT ![c] = stored]
    /\ UNCHANGED <<setup, text, next, serverVars, storeVars, stageVars>>

\* Without a key the signature is not read.
ReadsSignature(c) == job(c).signature /\ job(c).key

ReadSignature(c) ==
    /\ Step(c, "read_signature", "verify")
    /\ ReadsSignature(c) => storedText # None
    /\ text' = [text EXCEPT ![c] = IF ReadsSignature(c) THEN storedText ELSE None]
    /\ UNCHANGED <<setup, artifact, next, serverVars, storeVars, stageVars>>

ReadFails(c) ==
    /\ \/ Error(c, "read") /\ (MayFail(c) \/ stored = None)
       \/ Error(c, "read_signature") /\ (MayFail(c) \/ (ReadsSignature(c) /\ storedText = None))
    /\ UNCHANGED <<setup, artifact, text, next, serverVars, storeVars, stageVars>>

TheEntries(c) == Entries[artifact[c]]
Target(c)     == job(c).directory

\* (Mutant of UnpackEntry: the stored file is unpacked, not the bytes read.)
UnpackStoredEntry(c) ==
    /\ pc[c] = "unpack"
    /\ next[c] \in DOMAIN TheEntries(c)
    /\ LET k == TheEntries(c)[next[c]]
       IN  /\ k \in Component /\ staged[Target(c)][k] = None
           /\ staged' = [staged EXCEPT ![Target(c)][k] = IF job(c).kind = "stage" THEN stored ELSE artifact[c]]
    /\ next' = [next EXCEPT ![c] = @ + 1]
    /\ UNCHANGED <<setup, pc, artifact, text, embedded, serverVars, storeVars>>

\* Entries other than the three are refused, and so is a component that is
\* there already: files are created, never opened if they exist.
UnpackEntry(c) ==
    /\ pc[c] = "unpack"
    /\ next[c] \in DOMAIN TheEntries(c)
    /\ LET k == TheEntries(c)[next[c]]
       IN  /\ k \in Component /\ staged[Target(c)][k] = None
           /\ staged' = [staged EXCEPT ![Target(c)][k] = artifact[c]]
    /\ next' = [next EXCEPT ![c] = @ + 1]
    /\ UNCHANGED <<setup, pc, artifact, text, embedded, serverVars, storeVars>>

\* (Mutant of Unpacked: what was unpacked is not looked at.)
UnpackedUnchecked(c) ==
    /\ Step(c, "unpack", IF job(c).kind = "install" THEN "embed" ELSE "done")
    /\ next[c] \notin DOMAIN TheEntries(c)
    /\ UNCHANGED <<setup, artifact, text, next, serverVars, storeVars, stageVars>>

Unpacked(c) ==
    /\ Step(c, "unpack", IF job(c).kind = "install" THEN "embed" ELSE "done")
    /\ next[c] \notin DOMAIN TheEntries(c)
    /\ Bootable(Holds(TheEntries(c)))
    /\ UNCHANGED <<setup, artifact, text, next, serverVars, storeVars, stageVars>>

UnpackRefuses(c) ==
    IF next[c] \in DOMAIN TheEntries(c)
      THEN LET k == TheEntries(c)[next[c]] IN k \in Component => staged[Target(c)][k] # None
      ELSE ~Bootable(Holds(TheEntries(c)))

\* The component that is being unpacked is cut short.
TearEntry(c) ==
    /\ ~UnpackRefuses(c) /\ next[c] \in DOMAIN TheEntries(c)
    /\ staged' = [staged EXCEPT ![Target(c)][TheEntries(c)[next[c]]] = Torn]

\* What was unpacked stays.
UnpackFails(c) ==
    /\ Error(c, "unpack")
    /\ \/ (UnpackRefuses(c) \/ MayFail(c)) /\ UNCHANGED staged
       \/ MayFail(c) /\ TearEntry(c)
    /\ UNCHANGED <<setup, artifact, text, next, embedded, serverVars, storeVars>>

-----------------------------------------------------------------------------
(* embed_manifest                                                          *)

Embed(c) ==
    /\ Step(c, "embed", "done")
    /\ "initrd" \in Holds(TheEntries(c))
    /\ embed_manifest_for_initrd(setup.initrd) # {}
    /\ embedded' = [embedded EXCEPT ![c] = embed_manifest_for_initrd(setup.initrd)]
    /\ UNCHANGED <<setup, artifact, text, next, staged, serverVars, storeVars>>

\* The initrd is truncated and not written again.
TearInitrd(c) ==
    /\ "initrd" \in Holds(TheEntries(c))
    /\ staged' = [staged EXCEPT ![Target(c)]["initrd"] = Torn]

\* No initrd, one that cannot be followed, or a write that truncates the file.
EmbedFails(c) ==
    /\ Error(c, "embed")
    /\ \/ /\ \/ MayFail(c) \/ "initrd" \notin Holds(TheEntries(c))
             \/ embed_manifest_for_initrd(setup.initrd) = {}
          /\ UNCHANGED staged
       \/ MayFail(c) /\ TearInitrd(c)
    /\ UNCHANGED <<setup, artifact, text, next, embedded, serverVars, storeVars>>

-----------------------------------------------------------------------------
\* A call is killed; a file it was writing may be cut short.
Kill(c) ==
    /\ pc[c] \in Steps /\ MayFail(c)
    /\ pc' = [pc EXCEPT ![c] = "killed"]
    /\ \/ UNCHANGED <<storeVars, staged>>
       \/ pc[c] = "store" /\ stored' = Torn /\ storedBy' = c /\ UNCHANGED <<storedText, staged>>
       \/ pc[c] = "store_signature" /\ storedText' = Torn /\ UNCHANGED <<stored, storedBy, staged>>
       \/ pc[c] = "unpack" /\ TearEntry(c) /\ UNCHANGED storeVars
       \/ pc[c] = "embed" /\ TearInitrd(c) /\ UNCHANGED storeVars
    /\ UNCHANGED <<setup, artifact, text, next, embedded, serverVars>>

Advance(c) ==
    \/ Verify(c) \/ Refuse(c)
    \/ DownloadArtifact(c) \/ DownloadSignature(c) \/ StoreBundle(c) \/ StoreSignature(c) \/ FetchFails(c)
    \/ ReadBundle(c) \/ ReadSignature(c) \/ ReadFails(c)
    \/ UnpackEntry(c) \/ Unpacked(c) \/ UnpackFails(c)
    \/ Embed(c) \/ EmbedFails(c)

Next == (\E c \in Calls : Start(c) \/ Advance(c) \/ Kill(c)) \/ Publish

Spec == Init /\ [][Next]_vars

\* A call does not stop between two steps.
FairSpec == Spec /\ \A c \in Calls : WF_vars(Advance(c))

-----------------------------------------------------------------------------
(* What the bundle's code guarantees.                                      *)

Unpacks(c) == job(c).kind # "fetch" /\ pc[c] = "done"

\* What a call with a signature has staged is, component by component, the one
\* bundle whose signature it checked, though the file it read may have been
\* replaced, with its signature, at any moment since (read_verified_bundle).
StagedIsVerified ==
    \A c \in Calls : Unpacks(c) /\ job(c).key =>
        text[c] \in Builds /\ \A k \in Holds(Entries[text[c]]) : staged[Target(c)][k] = text[c]

\* A call that succeeds has staged a bundle that can be booted, each component
\* whole and from the same build, also where no structure was validated before
\* and where other calls use the same directory.
StagedIsBootable ==
    \A c \in Calls : Unpacks(c) =>
        \E b \in Builds : /\ valid_structure(Entries[b])
                          /\ \A k \in Holds(Entries[b]) : staged[Target(c)][k] = b

\* The two parsers of a bundle agree: in an empty directory a client that
\* nothing disturbs stages exactly the bundles validate_bundle_structure accepts.
ParsersAgree ==
    \A c \in Steady :
        setup.orderly /\ job(c).kind = "install" /\ (\A d \in Calls \ {c} : Target(d) # Target(c)) =>
            /\ pc[c] \in {"embed", "done"} => valid_structure(Entries[job(c).build])
            /\ pc[c] = "error" /\ embed_manifest_for_initrd(setup.initrd) # {}
                 /\ "initrd" \in Holds(Entries[job(c).build])
                 => ~valid_structure(Entries[job(c).build])

\* A fetch that succeeded, and was not followed by another, has left a pair
\* that verifies: the bundle and the signature on the disk belong together,
\* whatever pair, or half of one, an earlier fetch left there.
StoredPairVerifies ==
    \A c \in Calls :
        setup.orderly /\ storedBy = c /\ pc[c] = "done" /\ job(c).signature =>
            stored = artifact[c] /\ storedText = artifact[c]

\* A fetch that nothing disturbs stores what the server has.
FetchSucceeds ==
    \A c \in Steady :
        (/\ setup.orderly /\ pc[c] = "artifact"
         /\ job(c).signature = job(c).key /\ valid_structure(Entries[online]))
            ~> (pc[c] = "done" /\ stored = online /\ (job(c).signature => storedText = online))

\* Embedding adds the manifest and loses nothing: of an initrd of one archive
\* the kernel unpacks every file it unpacked before, and the manifest, whatever
\* the sizes of names and files and the padding (embed_manifest).
ManifestUnpacked ==
    \A c \in Calls : \A image \in embedded[c] :
        Plain(setup.initrd) => KernelFiles(image) = KernelFiles(setup.initrd) \cup ManifestPaths
=============================================================================
