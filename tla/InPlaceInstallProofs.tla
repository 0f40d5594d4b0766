------------------------- MODULE InPlaceInstallProofs -------------------------
(***************************************************************************)
(* Type correctness of InPlaceInstall for every machine, every source and  *)
(* every number of attempts.  At the end: which of the planner's promises  *)
(* of room for the staging partition the installer can keep.               *)
(***************************************************************************)
EXTENDS InPlaceInstall, TLAPS

-----------------------------------------------------------------------------
(* The arithmetic of the planner and the entries it leads to.              *)

\* What the code reads of a position: a natural number of MiB, half a MiB
\* below it at most and less than one above, and exactly it on a whole MiB.
LEMMA ReadMibBounds ==
    ASSUME NEW s \in Nat, NEW back \in {0, 1}
    PROVE  /\ ReadMib(s, back) \in Nat
           /\ s - 1024 <= ReadMib(s, back) * 2048
           /\ ReadMib(s, back) * 2048 < s + 2048
           /\ \A k \in Nat : s = 2048 * k => ReadMib(s, back) = k
           /\ s >= FirstUsable => ReadMib(s, back) >= 1
PROOF
<1>1. CASE 200 * s + MiB - back < 2000 * MiB
  <2>1. ReadMib(s, back) = ((100 * s + 1024 - back) \div 2048 + 99) \div 100
    BY <1>1 DEF ReadMib, MiB
  <2> QED
    BY <2>1 DEF FirstUsable
<1>2. CASE ~(200 * s + MiB - back < 2000 * MiB) /\ 20 * s + MiB - back < 2000 * MiB
  <2>1. ReadMib(s, back) = ((10 * s + 1024 - back) \div 2048 + 9) \div 10
    BY <1>2 DEF ReadMib, MiB
  <2> QED
    BY <1>2, <2>1 DEF FirstUsable, MiB
<1>3. CASE ~(200 * s + MiB - back < 2000 * MiB) /\ ~(20 * s + MiB - back < 2000 * MiB)
  <2>1. ReadMib(s, back) = (s + 1024 - back) \div 2048
    <3>1. ReadMib(s, back) = ((1 * s + 1024 - back) \div 2048 + 1 - 1) \div 1
      BY <1>3 DEF ReadMib, MiB
    <3> QED
      BY <3>1
  <2> QED
    BY <1>3, <2>1 DEF FirstUsable, MiB
<1> QED
  BY <1>1, <1>2, <1>3

LEMMA ParseMibNat ==
    ASSUME NEW s \in Nat
    PROVE  /\ parse_mib(s) \in Nat
           /\ s - 1024 <= parse_mib(s) * MiB
           /\ parse_mib(s) * MiB < s + MiB
           /\ s >= FirstUsable => parse_mib(s) >= 1
BY ReadMibBounds DEF parse_mib, MiB

LEMMA ParseEndMibNat ==
    ASSUME NEW s \in Nat
    PROVE  /\ parse_end_mib(s) \in Nat
           /\ s - 1024 <= parse_end_mib(s) * MiB
           /\ parse_end_mib(s) * MiB < s + MiB
BY ReadMibBounds DEF parse_end_mib, MiB

\* A whole number of MiB is read as it is.
LEMMA WholeMiB == \A k \in Nat : parse_mib(k * MiB) = k /\ parse_end_mib(k * MiB) = k
BY ReadMibBounds DEF parse_mib, parse_end_mib, MiB

\* The rows of the listing: the entries, and free ranges that have the number 1.
LEMMA RowsType ==
    ASSUME NEW t, t \subseteq Entry, NEW r \in parted_lines(t)
    PROVE  /\ r.num \in Nat /\ r.lo \in Nat /\ r.hi \in Nat
           /\ ~r.free => \E e \in t : r.num = e.num /\ r.lo = e.lo /\ r.hi = e.hi
           /\ r.free  => /\ r.num = 1 /\ r.lo < r.hi /\ r.hi \in {UsableEnd} \cup {e.lo : e \in t}
                         /\ r.lo \in {FirstUsable} \cup {e.hi : e \in t}
                         /\ \A e \in t : e.hi <= r.lo \/ r.hi <= e.lo
PROOF
<1>1. CASE \E e \in t : r = NewRow(e.num, e, FALSE)
  BY <1>1 DEF NewRow, Entry
<1>2. CASE \E g \in Gaps(t) : r = NewRow(1, g, TRUE)
  <2>1. PICK g \in Gaps(t) : r = NewRow(1, g, TRUE)
    BY <1>2
  <2>2. r.num = 1 /\ r.lo = g.lo /\ r.hi = g.hi /\ r.free
    BY <2>1 DEF NewRow
  <2>3. /\ g.lo \in {FirstUsable} \cup {e.hi : e \in t} /\ g.hi \in {UsableEnd} \cup {e.lo : e \in t}
        /\ g.lo < g.hi /\ \A e \in t : e.hi <= g.lo \/ g.hi <= e.lo
    BY DEF Gaps, Apart
  <2>4. g.lo \in Nat /\ g.hi \in Int
    BY <2>3, DiskAssumption DEF Entry, FirstUsable, UsableEnd
  <2>5. g.hi \in Nat
    BY <2>3, <2>4
  <2> QED
    BY <2>2, <2>3, <2>4, <2>5
<1> QED
  BY <1>1, <1>2 DEF parted_lines

\* Of a number that is not 1 the first row is the entry.
LEMMA FirstRowIsEntry ==
    ASSUME NEW t, t \subseteq Entry, NEW n, n # 1, NEW r \in FirstRow(t, n)
    PROVE  \E e \in Numbered(t, n) : r.lo = e.lo /\ r.hi = e.hi
BY RowsType DEF FirstRow, Numbered

\* Whatever the planner returns is a strategy, and its number is at least 3.
LEMMA PlansType ==
    ASSUME TypeOK, NEW src \in Sources, NEW p \in Plans(src)
    PROVE  p \in Strategy /\ p.number >= 3
PROOF
<1>1. src \in Source /\ table \subseteq Entry
  BY RunAssumption DEF TypeOK
<1>2. host.used \in Nat
  BY HostsAssumption DEF TypeOK
<1>3. staging_requirement_mib(host.used, src) \in Nat
  BY <1>1, <1>2, HeadroomAssumption DEF staging_requirement_mib, Source
<1>4. \A r \in Nat : \A q \in staging_from_existing_free(table, r) : q \in Strategy /\ q.number >= 3
  BY DEF staging_from_existing_free, next_partition_number, Strategy
<1>5. \A r \in Nat, n \in Nat, u \in Nat, row \in parted_lines(table) : \A size, type :
        \A q \in ShrinkStaging(table, r, n, [start |-> parse_mib(row.lo), size |-> size], u, type) :
            q \in Strategy /\ q.number >= 3
  <2> SUFFICES ASSUME NEW r \in Nat, NEW n \in Nat, NEW row \in parted_lines(table), NEW size,
                      NEW u \in Nat, NEW type,
                      NEW q \in ShrinkStaging(table, r, n,
                                   [start |-> parse_mib(row.lo), size |-> size], u, type)
               PROVE  q \in Strategy /\ q.number >= 3
    OBVIOUS
  <2>1. parse_mib(row.lo) \in Nat
    BY <1>1, RowsType, ParseMibNat
  <2>2. u + MinRootHeadroom \in Nat
    BY HeadroomAssumption
  <2>3. PICK m \in next_partition_number(table) :
           q = [kind |-> "shrink-ext4", number |-> m, size |-> r, part |-> n,
                target |-> u + MinRootHeadroom, end |-> parse_mib(row.lo) + (u + MinRootHeadroom)]
    BY DEF ShrinkStaging
  <2> QED
    BY <2>1, <2>2, <2>3 DEF next_partition_number, Strategy
<1>6. CASE p \in staging_from_existing_free(table, staging_requirement_mib(host.used, src))
  BY <1>3, <1>4, <1>6
<1>7. CASE host.root # 0 /\ p \notin staging_from_existing_free(table, staging_requirement_mib(host.used, src))
  <2>1. PICK b \in partition_bounds(table, host.root), v \in vols :
           p \in ShrinkStaging(table, staging_requirement_mib(host.used, src), host.root, b, host.used, v.type)
    BY <1>7 DEF Plans, choose_root_disk_staging
  <2>2. PICK row \in parted_lines(table) : b = [start |-> parse_mib(row.lo), size |-> parse_mib(row.hi - row.lo)]
    BY DEF partition_bounds, FirstRow
  <2>3. host.root \in Nat
    BY HostsAssumption DEF TypeOK
  <2> QED
    BY <1>2, <1>3, <1>5, <2>1, <2>2, <2>3
<1>8. CASE host.root = 0 /\ p \notin staging_from_existing_free(table, staging_requirement_mib(host.used, src))
  <2>1. PICK row \in parted_lines(table), v \in vols :
           p \in ShrinkStaging(table, staging_requirement_mib(host.used, src), row.num,
                    [start |-> parse_mib(row.lo), size |-> parse_mib(row.hi - row.lo)], v.used, v.type)
    BY <1>8 DEF Plans, choose_non_root_staging, final_partition, VolumesAt
  <2>2. v.used \in Nat /\ row.num \in Nat
    BY <1>1, RowsType DEF TypeOK, Volume
  <2> QED
    BY <1>3, <1>5, <2>1, <2>2
<1> QED
  BY <1>6, <1>7, <1>8

\* The start of the staging partition is a number of MiB.
LEMMA StartIsNat ==
    ASSUME TypeOK, NEW start \in end_free_start_mib(table, plan.size)
    PROVE  start \in Nat
PROOF
<1>1. PICK row \in parted_lines(table) :
         /\ start = (parse_end_mib(row.hi) - GptTailMargin) - plan.size
         /\ parse_end_mib(row.hi) - GptTailMargin >= plan.size
  BY DEF end_free_start_mib, end_free_region, LastRow
<1>2. parse_end_mib(row.hi) \in Nat /\ plan.size \in Nat
  BY RowsType, ParseEndMibNat DEF TypeOK, Strategy
<1> QED
  BY <1>1, <1>2 DEF GptTailMargin

\* The entries the installer asks sgdisk for are entries, and they are accepted.
LEMMA ShrunkEntriesType ==
    ASSUME TypeOK, NEW e \in ShrunkEntries
    PROVE  e \in Entry /\ e.num = plan.part /\ Accepts(Without(table, plan.part), e)
PROOF
<1>1. PICK row \in parted_lines(table) :
         e = NewEntry(plan.part, parse_mib(row.lo) * MiB, plan.end * MiB)
  BY DEF ShrunkEntries, partition_start_mib, FirstRow
<1>2. parse_mib(row.lo) \in Nat /\ plan.part \in Nat /\ plan.end \in Nat
  BY RowsType, ParseMibNat DEF TypeOK, Strategy
<1> QED
  BY <1>1, <1>2 DEF ShrunkEntries, NewEntry, Entry, MiB

LEMMA StagingEntriesType ==
    ASSUME TypeOK, NEW e \in StagingEntries
    PROVE  e \in Entry /\ e.num = plan.number /\ Accepts(table, e)
PROOF
<1>1. PICK start \in end_free_start_mib(table, plan.size) :
         e = NewEntry(plan.number, start * MiB, (start + plan.size) * MiB)
  BY DEF StagingEntries
<1>2. start \in Nat
  BY <1>1, StartIsNat
<1>3. plan.size \in Nat /\ plan.number \in Nat
  BY DEF TypeOK, Strategy
<1> QED
  BY <1>1, <1>2, <1>3 DEF StagingEntries, NewEntry, Entry, MiB

LEMMA CryptEntriesType ==
    ASSUME TypeOK, NEW e \in CryptEntries
    PROVE  /\ e \in Entry /\ e.num = 2
           /\ BootEntry \in Entry /\ BootEntry.num = 1
           /\ Accepts(table, BootEntry) /\ Accepts(table \cup {BootEntry}, e)
PROOF
<1>1. BootEntry \in Entry /\ BootEntry.num = 1
  BY HostsAssumption DEF TypeOK, BootEntry, NewEntry, Entry, MiB
<1>2. PICK staging \in partition_start_mib(table, plan.number),
           start \in DefaultStarts(table \cup {BootEntry}) :
         e = NewEntry(2, start, (staging - 1) * MiB)
  BY DEF CryptEntries
<1>3. PICK g \in Gaps(table \cup {BootEntry}) : start = ((g.lo + MiB - 1) \div MiB) * MiB
  BY <1>2 DEF DefaultStarts
<1>4. g.lo \in Nat
  BY <1>1, <1>3 DEF Gaps, TypeOK, Entry, FirstUsable
<1>5. start \in Nat
  BY <1>3, <1>4 DEF MiB
<1>6. staging \in Nat
  BY <1>2, RowsType, ParseMibNat DEF partition_start_mib, FirstRow, TypeOK
<1>7. Accepts(table, BootEntry) /\ Accepts(table \cup {BootEntry}, e)
  BY DEF CryptEntries
<1>8. e.lo < e.hi
  BY <1>7 DEF Accepts
<1>9. e.num = 2 /\ e.lo = start /\ e.hi = (staging - 1) * MiB
  BY <1>2 DEF NewEntry
<1>10. e.hi \in Nat
  BY <1>5, <1>6, <1>8, <1>9 DEF MiB
<1> QED
  BY <1>1, <1>2, <1>5, <1>7, <1>9, <1>10 DEF NewEntry, Entry

LEMMA GrownEntriesType ==
    ASSUME TypeOK, NEW e \in GrownEntries
    PROVE  e \in Entry /\ e.num = 2 /\ Accepts(table, e)
PROOF
<1>1. PICK end \in DefaultEnds(table, luksStart) : e = NewEntry(2, luksStart, end)
  BY DEF GrownEntries
<1>2. PICK g \in Gaps(table) : end = g.hi
  BY <1>1 DEF DefaultEnds
<1>3. end \in Int
  BY <1>2, DiskAssumption DEF Gaps, TypeOK, Entry, UsableEnd
<1>4. Accepts(table, e)
  BY DEF GrownEntries
<1>5. luksStart < end
  BY <1>1, <1>4 DEF Accepts, NewEntry
<1> QED
  BY <1>1, <1>3, <1>4, <1>5 DEF TypeOK, NewEntry, Entry

-----------------------------------------------------------------------------
(* Type correctness.                                                       *)

LEMMA InitType == Init => TypeOK
PROOF
<1> SUFFICES ASSUME Init PROVE TypeOK
  OBVIOUS
<1>1. table \subseteq Entry /\ view \subseteq Entry /\ vols \subseteq Volume /\ base \subseteq Volume
  BY HostsAssumption DEF Init, WellFormed
<1>2. source \in Source /\ plan \in Strategy
  BY DEF Init, Source, Strategy, NoStrategy
<1>3. erased \in BOOLEAN /\ attempts \in Nat /\ luksStart \in Nat /\ toWipe \subseteq Nat
  BY DEF Init
<1> QED
  BY <1>1, <1>2, <1>3 DEF Init, TypeOK, Rest

LEMMA SgdiskType ==
    ASSUME TypeOK, NEW t \in SUBSET Entry, Sgdisk(t)
    PROVE  table' \in SUBSET Entry /\ view' \in SUBSET Entry
BY DEF TypeOK, Sgdisk, Reread

LEMMA PartxType ==
    ASSUME NEW w \in SUBSET Entry, NEW e \in Entry
    PROVE  Partx(w, e) \in SUBSET Entry
BY DEF Partx, Without

LEMMA NewVolumeType ==
    ASSUME NEW e \in Entry, NEW tag \in {"staging", "crypt", "esp"},
           NEW type \in {"ext4", "crypto_LUKS", "vfat"}
    PROVE  NewVolume(tag, e, type) \in Volume
BY DEF NewVolume, Entry, Volume

LEMMA RewrittenType ==
    ASSUME TypeOK, NEW v \in vols, NEW hi \in Nat
    PROVE  Rewritten(v, hi) \in SUBSET Volume
BY DEF TypeOK, Volume, Rewritten

LEMMA StageStepType == TypeOK /\ StageStep => TypeOK'
PROOF
<1> SUFFICES ASSUME TypeOK, StageStep PROVE TypeOK'
  OBVIOUS
<1> USE DEF Goto, diskVars, imageVars, noteVars, attemptVars
<1>1. CASE VerifyOriginalRoot
  BY <1>1 DEF VerifyOriginalRoot, TypeOK, Steps, StagingSteps
<1>2. CASE ResizeFilesystem
  <2>1. PICK v \in vols : vols' = Rewritten(v, v.lo + plan.target * MiB)
    BY <1>2 DEF ResizeFilesystem, ToResize
  <2>2. v.lo + plan.target * MiB \in Nat
    BY DEF TypeOK, Volume, Strategy, MiB
  <2>3. vols' \in SUBSET Volume
    BY <2>1, <2>2, RewrittenType
  <2> QED
    BY <1>2, <2>3 DEF ResizeFilesystem, TypeOK, Steps, StagingSteps
<1>3. CASE ShrinkPartition
  <2>1. PICK e \in ShrunkEntries : Sgdisk(Without(table, plan.part) \cup {e})
    BY <1>3 DEF ShrinkPartition
  <2>2. Without(table, plan.part) \cup {e} \in SUBSET Entry
    BY ShrunkEntriesType DEF TypeOK, Without
  <2> QED
    BY <1>3, <2>1, <2>2, SgdiskType DEF ShrinkPartition, TypeOK, Steps, StagingSteps
<1>4. CASE UpdateShrunkNode
  <2>1. view' \in SUBSET Entry
    BY <1>4, PartxType DEF UpdateShrunkNode, Numbered, TypeOK
  <2> QED
    BY <1>4, <2>1 DEF UpdateShrunkNode, TypeOK, Steps, StagingSteps
<1>5. CASE CreateStaging
  <2>1. PICK e \in StagingEntries : Sgdisk(table \cup {e})
    BY <1>5 DEF CreateStaging
  <2>2. table \cup {e} \in SUBSET Entry
    BY StagingEntriesType DEF TypeOK
  <2> QED
    BY <1>5, <2>1, <2>2, SgdiskType DEF CreateStaging, TypeOK, Steps, StagingSteps
<1>6. CASE ProbeStaging
  BY <1>6 DEF ProbeStaging, TypeOK, Steps, StagingSteps
<1>7. CASE FormatStaging
  <2>1. vols' \in SUBSET Volume
    BY <1>7, NewVolumeType DEF FormatStaging, Numbered, Spared, TypeOK
  <2> QED
    BY <1>7, <2>1 DEF FormatStaging, TypeOK, Steps, StagingSteps
<1>8. CASE MountStaging
  BY <1>8 DEF MountStaging, TypeOK, Steps, StagingSteps
<1>9. CASE Download
  BY <1>9 DEF Download, TypeOK, Steps, StagingSteps
<1>10. CASE DownloadMismatch
  BY <1>10 DEF DownloadMismatch, TypeOK, Rest
<1>11. CASE MountOldRoot
  BY <1>11 DEF MountOldRoot, TypeOK, Steps, StagingSteps
<1>12. CASE PackOldRoot
  BY <1>12 DEF PackOldRoot, TypeOK, Steps, StagingSteps
<1>13. CASE PackFails
  BY <1>13 DEF PackFails, TypeOK, Rest
<1>14. CASE UnmountOldRoot
  BY <1>14 DEF UnmountOldRoot, TypeOK, Steps, StagingSteps
<1>15. CASE RecheckArchive
  BY <1>15 DEF RecheckArchive, TypeOK, Steps, LayoutSteps, Numbers, Entry
<1> QED
  BY <1>1, <1>2, <1>3, <1>4, <1>5, <1>6, <1>7, <1>8, <1>9, <1>10, <1>11, <1>12, <1>13,
     <1>14, <1>15 DEF StageStep

LEMMA LayoutStepType == TypeOK /\ LayoutStep => TypeOK'
PROOF
<1> SUFFICES ASSUME TypeOK, LayoutStep PROVE TypeOK'
  OBVIOUS
<1> USE DEF Goto, diskVars, imageVars, noteVars, attemptVars
<1>1. CASE WipePartition
  <2>1. PICK n \in toWipe : Sgdisk(Without(table, n)) /\ toWipe' = toWipe \ {n}
    BY <1>1 DEF WipePartition
  <2>2. Without(table, n) \in SUBSET Entry
    BY DEF TypeOK, Without
  <2> QED
    BY <1>1, <2>1, <2>2, SgdiskType DEF WipePartition, TypeOK
<1>2. CASE WipeDone
  BY <1>2 DEF WipeDone, TypeOK, Steps, LayoutSteps
<1>3. CASE CreatePartitions
  <2>1. PICK e \in CryptEntries : Sgdisk(table \cup {BootEntry, e})
    BY <1>3 DEF CreatePartitions
  <2>2. table \cup {BootEntry, e} \in SUBSET Entry
    BY CryptEntriesType DEF TypeOK
  <2> QED
    BY <1>3, <2>1, <2>2, SgdiskType DEF CreatePartitions, TypeOK, Steps, LayoutSteps
<1>4. CASE UpdateNodes
  <2>1. view' \in SUBSET Entry
    BY <1>4, PartxType DEF UpdateNodes, UpdatedViews, Numbered, TypeOK
  <2> QED
    BY <1>4, <2>1 DEF UpdateNodes, TypeOK, Steps, LayoutSteps
<1>5. CASE FormatLuks
  <2>1. vols' \in SUBSET Volume
    BY <1>5, NewVolumeType DEF FormatLuks, Numbered, Spared, TypeOK
  <2> QED
    BY <1>5, <2>1 DEF FormatLuks, TypeOK, Steps, LayoutSteps
<1>6. CASE CreateVolumes
  BY <1>6 DEF CreateVolumes, TypeOK, Steps, LayoutSteps, SystemSteps
<1>7. CASE FormatEsp
  <2>1. vols' \in SUBSET Volume
    BY <1>7, NewVolumeType DEF FormatEsp, Numbered, Spared, TypeOK
  <2> QED
    BY <1>7, <2>1 DEF FormatEsp, TypeOK, Steps, SystemSteps
<1> QED
  BY <1>1, <1>2, <1>3, <1>4, <1>5, <1>6, <1>7 DEF LayoutStep

LEMMA SystemStepType == TypeOK /\ SystemStep => TypeOK'
PROOF
<1> SUFFICES ASSUME TypeOK, SystemStep PROVE TypeOK'
  OBVIOUS
<1> USE DEF Goto, diskVars, imageVars, noteVars, attemptVars
<1>1. CASE Extract
  BY <1>1 DEF Extract, TypeOK, Steps, SystemSteps
<1>2. CASE Configure
  BY <1>2 DEF Configure, TypeOK, Steps, SystemSteps
<1>3. CASE InstallBootloader
  BY <1>3 DEF InstallBootloader, TypeOK, Steps, GrowSteps
<1>4. CASE UnmountStaging
  BY <1>4 DEF UnmountStaging, Numbered, TypeOK, Entry, Steps, GrowSteps
<1>5. CASE DropStaging
  <2>1. Without(table, plan.number) \in SUBSET Entry
    BY DEF TypeOK, Without
  <2> QED
    BY <1>5, <2>1, SgdiskType DEF DropStaging, TypeOK, Steps, GrowSteps
<1>6. CASE DropCrypt
  <2>1. Without(table, 2) \in SUBSET Entry
    BY DEF TypeOK, Without
  <2> QED
    BY <1>6, <2>1, SgdiskType DEF DropCrypt, TypeOK, Steps, GrowSteps
<1>7. CASE RecreateCrypt
  <2>1. PICK e \in GrownEntries : Sgdisk(table \cup {e})
    BY <1>7 DEF RecreateCrypt
  <2>2. table \cup {e} \in SUBSET Entry
    BY GrownEntriesType DEF TypeOK
  <2> QED
    BY <1>7, <2>1, <2>2, SgdiskType DEF RecreateCrypt, TypeOK, Steps, GrowSteps
<1>8. CASE UpdateCryptNode
  <2>1. view' \in SUBSET Entry
    BY <1>8, PartxType DEF UpdateCryptNode, Numbered, TypeOK
  <2> QED
    BY <1>8, <2>1 DEF UpdateCryptNode, TypeOK, Steps, GrowSteps
<1>9. CASE DeferGrow
  BY <1>9 DEF DeferGrow, TypeOK, Rest
<1>10. CASE Grow
  <2>1. PICK e \in Numbered(view, 2), v \in vols : vols' = Rewritten(v, e.hi)
    BY <1>10 DEF Grow
  <2>2. e.hi \in Nat
    BY DEF Numbered, TypeOK, Entry
  <2>3. vols' \in SUBSET Volume
    BY <2>1, <2>2, RewrittenType
  <2> QED
    BY <1>10, <2>3 DEF Grow, TypeOK, Rest
<1> QED
  BY <1>1, <1>2, <1>3, <1>4, <1>5, <1>6, <1>7, <1>8, <1>9, <1>10 DEF SystemStep

LEMMA NextType == TypeOK /\ [Next]_vars => TypeOK'
PROOF
<1> SUFFICES ASSUME TypeOK, [Next]_vars PROVE TypeOK'
  OBVIOUS
<1> USE DEF Goto, diskVars, imageVars, noteVars, attemptVars
<1>1. CASE Prepare
  <2>1. PICK src \in Sources : source' = src /\ plan' \in Plans(src)
    BY <1>1 DEF Prepare
  <2>2. source' \in Source /\ plan' \in Strategy
    BY <2>1, PlansType, RunAssumption
  <2>3. attempts' = attempts + 1 /\ erased' = FALSE
    BY <1>1 DEF Prepare
  <2>4. base' \subseteq Volume /\ view' \subseteq Entry
    BY <1>1 DEF Prepare, TypeOK
  <2>5. toWipe' \subseteq Nat /\ luksStart' \in Nat
    BY <1>1 DEF Prepare
  <2>6. attempts' \in Nat
    BY <2>3 DEF TypeOK
  <2>7. erased' \in BOOLEAN
    BY <2>3
  <2> QED
    BY <1>1, <2>2, <2>4, <2>5, <2>6, <2>7 DEF Prepare, TypeOK, Steps, StagingSteps
<1>2. CASE StageStep
  BY <1>2, StageStepType
<1>3. CASE LayoutStep
  BY <1>3, LayoutStepType
<1>4. CASE SystemStep
  BY <1>4, SystemStepType
<1>5. CASE Abort
  BY <1>5 DEF Abort, TypeOK, Rest
<1>6. CASE LosePower
  BY <1>6 DEF LosePower, TypeOK, Rest
<1>7. CASE Reboot
  BY <1>7 DEF Reboot, TypeOK, Rest
<1>8. CASE UNCHANGED vars
  BY <1>8 DEF vars, TypeOK
<1> QED
  BY <1>1, <1>2, <1>3, <1>4, <1>5, <1>6, <1>7, <1>8 DEF Next, Run

\* The state of the machine, the disk and the installer stays well typed: no
\* step of the plan computes a position or a number outside its range.
THEOREM TypeCorrect == Spec => []TypeOK
PROOF
<1> QED
  BY InitType, NextType, PTL DEF Spec

-----------------------------------------------------------------------------
(* The planner on the host and the installer in RAM look for the same room *)
(* with different rules: when what the first accepts is there for the      *)
(* second.                                                                 *)

\* What the last row of the listing is, if it is free space.
LEMMA LastFree ==
    ASSUME NEW t, WellFormed(t), NEW r \in LastRow(t), r.free
    PROVE  /\ r.lo \in Nat /\ r.hi = UsableEnd /\ UsableEnd \in Nat
           /\ FirstUsable <= r.lo /\ r.lo < r.hi
           /\ \A e \in t : e.hi <= r.lo
           /\ r.lo = FirstUsable \/ \E e \in t : r.lo = e.hi
PROOF
<1>1. /\ t \subseteq Entry /\ r \in parted_lines(t)
      /\ \A e \in t : e.lo \in Nat /\ e.hi \in Nat /\ FirstUsable <= e.lo /\ e.lo < e.hi
  BY DEF LastRow, WellFormed, Entry
<1>2. /\ r.lo \in Nat /\ r.hi \in Nat /\ r.lo < r.hi /\ r.hi \in {UsableEnd} \cup {e.lo : e \in t}
      /\ r.lo \in {FirstUsable} \cup {e.hi : e \in t}
      /\ \A e \in t : e.hi <= r.lo \/ r.hi <= e.lo
  BY <1>1, RowsType
<1>3. \A e \in t : e.lo <= r.lo
  <2> SUFFICES ASSUME NEW e \in t PROVE e.lo <= r.lo
    OBVIOUS
  <2>1. NewRow(e.num, e, FALSE) \in parted_lines(t) /\ NewRow(e.num, e, FALSE).lo = e.lo
    BY DEF parted_lines, NewRow
  <2> QED
    BY <2>1 DEF LastRow
<1>4. \A e \in t : e.hi <= r.lo
  BY <1>1, <1>2, <1>3
<1>5. r.hi = UsableEnd
  BY <1>1, <1>2, <1>3
<1>6. FirstUsable <= r.lo
  BY <1>1, <1>2 DEF FirstUsable
<1> QED
  BY <1>2, <1>4, <1>5, <1>6

\* Free space behind every entry is the last row.
LEMMA FreeIsLast ==
    ASSUME NEW t, WellFormed(t), NEW e \in t, \A f \in t : f.hi <= e.hi, e.hi < UsableEnd
    PROVE  \E r \in LastRow(t) : r.free /\ r.lo = e.hi
PROOF
<1> DEFINE g == [lo |-> e.hi, hi |-> UsableEnd]
           r == NewRow(1, g, TRUE)
<1>1. /\ t \subseteq Entry /\ UsableEnd \in Int
      /\ \A f \in t : f.lo \in Nat /\ f.hi \in Nat /\ FirstUsable <= f.lo /\ f.lo < f.hi
  BY DiskAssumption DEF WellFormed, Entry, UsableEnd
<1>2. g \in Gaps(t)
  <2>1. g \in [lo : {FirstUsable} \cup {f.hi : f \in t}, hi : {UsableEnd} \cup {f.lo : f \in t}]
    OBVIOUS
  <2> QED
    BY <2>1 DEF Gaps, Apart
<1>3. r \in parted_lines(t) /\ r.free /\ r.lo = e.hi
  BY <1>2 DEF parted_lines, NewRow
<1>4. ASSUME NEW q \in parted_lines(t) PROVE q.lo <= e.hi
  <2>1. (\E f \in t : q.lo = f.lo) \/ q.lo \in {FirstUsable} \cup {f.hi : f \in t}
    BY <1>1, <1>4, RowsType
  <2> QED
    BY <1>1, <2>1 DEF FirstUsable
<1> HIDE DEF r
<1> QED
  BY <1>3, <1>4 DEF LastRow

\* Where the installer puts staging, the disk never ends too early; it is
\* refused exactly where a partition reaches above that start.
LEMMA StagingAtTheEnd ==
    ASSUME NEW t, WellFormed(t), NEW r \in LastRow(t), r.free,
           NEW size \in Nat \ {0}, NEW n \in Nat, n \notin Numbers(t),
           \A e \in t : e.lo < (parse_end_mib(UsableEnd) - GptTailMargin) * MiB
    PROVE  (\E start \in end_free_start_mib(t, size) :
                Accepts(t, NewEntry(n, start * MiB, (start + size) * MiB)))
             <=> r.lo <= ((parse_end_mib(UsableEnd) - GptTailMargin) - size) * MiB
PROOF
<1> DEFINE end  == parse_end_mib(UsableEnd)
           from == (end - GptTailMargin) - size
           new  == NewEntry(n, from * MiB, (from + size) * MiB)
<1>1. /\ r.lo \in Nat /\ r.hi = UsableEnd /\ UsableEnd \in Nat
      /\ FirstUsable <= r.lo /\ r.lo < r.hi
      /\ \A e \in t : e.hi <= r.lo
      /\ r.lo = FirstUsable \/ \E e \in t : r.lo = e.hi
  BY LastFree
<1>2. end \in Nat /\ end * 2048 < UsableEnd + 2048
  BY <1>1, ParseEndMibNat DEF MiB
<1>3. end_free_region(t) = {end}
  <2>1. \A q \in LastRow(t) : q.free => q.hi = UsableEnd
    BY LastFree
  <2> QED
    BY <1>1, <2>1 DEF end_free_region
<1>4. end_free_start_mib(t, size) = IF end - 1 >= size THEN {from} ELSE {}
  BY <1>3 DEF end_free_start_mib, GptTailMargin
<1>5. from \in Int /\ from = end - 1 - size
  BY <1>2 DEF GptTailMargin
<1>6. new.num = n /\ new.lo = 2048 * from /\ new.hi = 2048 * (end - 1)
  BY <1>2, <1>5 DEF NewEntry, MiB
<1>7. \A e \in t : e.lo \in Nat /\ e.hi \in Nat /\ e.lo < 2048 * (end - 1)
  BY <1>2 DEF WellFormed, Entry, GptTailMargin, MiB
<1> HIDE DEF end, from, new
<1>8. ASSUME r.lo <= 2048 * from PROVE end - 1 >= size /\ Accepts(t, new)
  <2>1. end - 1 >= size
    BY <1>1, <1>2, <1>5, <1>8
  <2>2. new.lo < new.hi /\ new.hi <= UsableEnd /\ FirstUsable <= new.lo
    BY <1>1, <1>2, <1>5, <1>6, <1>8 DEF FirstUsable
  <2>3. \A f \in t : f.hi <= new.lo
    BY <1>1, <1>5, <1>6, <1>7, <1>8
  <2> QED
    BY <1>6, <2>1, <2>2, <2>3 DEF Accepts, Apart
<1>9. ASSUME Accepts(t, new) PROVE r.lo <= 2048 * from
  <2>1. \A f \in t : f.hi <= 2048 * from
    BY <1>2, <1>5, <1>6, <1>7, <1>9 DEF Accepts, Apart
  <2>2. FirstUsable <= 2048 * from
    BY <1>6, <1>9 DEF Accepts
  <2> QED
    BY <1>1, <2>1, <2>2
<1>10. (\E start \in end_free_start_mib(t, size) :
             Accepts(t, NewEntry(n, start * MiB, (start + size) * MiB)))
         <=> end - 1 >= size /\ Accepts(t, new)
  BY <1>4 DEF new
<1>11. ((end - GptTailMargin) - size) * MiB = 2048 * from
  BY <1>5 DEF from, MiB
<1> QED
  BY <1>8, <1>9, <1>10, <1>11 DEF end

\* A plan on existing free space (staging_from_existing_free) compares the end
\* of the last free range with what is required, and so does the installer
\* (end_free_start_mib).  It is carried out (create_staging_partition) exactly
\* when that range begins where the staging partition will, or before: a
\* question that neither of them asks.
THEOREM FreeSpaceIsFound ==
    ASSUME WellFormed(table), plan.size \in Nat \ {0},
           plan \in staging_from_existing_free(table, plan.size),
           \A e \in table : e.lo < (parse_end_mib(UsableEnd) - GptTailMargin) * MiB,
           NEW r \in LastRow(table)
    PROVE  /\ r.free
           /\ StagingEntries # {}
                <=> r.lo <= ((parse_end_mib(UsableEnd) - GptTailMargin) - plan.size) * MiB
PROOF
<1>1. plan.number \in next_partition_number(table) /\ end_free_region(table) # {}
  BY DEF staging_from_existing_free
<1>2. plan.number \in Nat /\ plan.number \notin Numbers(table)
  BY <1>1 DEF next_partition_number, Numbers, WellFormed, Entry
<1>3. PICK q \in LastRow(table) : q.free
  BY <1>1 DEF end_free_region
<1>4. r.free
  <2>1. q.lo \in Nat /\ r.lo \in Nat /\ q.lo = r.lo /\ r \in parted_lines(table) /\ table \subseteq Entry
    <3>1. r \in parted_lines(table) /\ q \in parted_lines(table) /\ table \subseteq Entry
      BY DEF LastRow, WellFormed
    <3>2. r.lo \in Nat /\ q.lo \in Nat
      BY <3>1, RowsType
    <3> QED
      BY <3>1, <3>2 DEF LastRow
  <2>2. \A e \in table : e.lo \in Nat /\ e.hi \in Nat /\ e.lo < e.hi /\ e.hi <= q.lo
    BY <1>3, LastFree DEF WellFormed, Entry
  <2> QED
    BY <2>1, <2>2, RowsType
<1>5. StagingEntries # {} <=>
         \E start \in end_free_start_mib(table, plan.size) :
            Accepts(table, NewEntry(plan.number, start * MiB, (start + plan.size) * MiB))
  BY DEF StagingEntries
<1> QED
  BY <1>2, <1>4, <1>5, StagingAtTheEnd

\* The entry a shrink to target MiB leaves of an entry that starts on a MiB.
ShrunkTo(e, target) == NewEntry(e.num, parse_mib(e.lo) * MiB, (parse_mib(e.lo) + target) * MiB)

\* The shrunk entry is accepted and leaves a well-formed table that ends where
\* the planner said, for an aligned entry behind which there is no other.
LEMMA ShrunkTable ==
    ASSUME NEW t, WellFormed(t), NEW e \in t, \A f \in t : f.hi <= e.hi, e.lo % MiB = 0,
           NEW target \in Nat \ {0}, target < parse_mib(e.hi - e.lo)
    PROVE  /\ ShrunkTo(e, target).lo = e.lo /\ ShrunkTo(e, target).hi = e.lo + target * MiB
           /\ ShrunkTo(e, target).hi <= e.hi /\ ShrunkTo(e, target).hi \in Nat
           /\ Accepts(Without(t, e.num), ShrunkTo(e, target))
           /\ WellFormed(Without(t, e.num) \cup {ShrunkTo(e, target)})
           /\ \A f \in Without(t, e.num) : f.hi <= ShrunkTo(e, target).lo
<1> DEFINE n    == ShrunkTo(e, target)
           rest == Without(t, e.num)
<1>1. /\ e.lo \in Nat /\ e.hi \in Nat /\ e.num \in Nat
      /\ FirstUsable <= e.lo /\ e.lo < e.hi /\ e.hi <= UsableEnd
  BY DEF WellFormed, Entry
<1>2. PICK k \in Nat : e.lo = 2048 * k
  <2>1. e.lo = 2048 * (e.lo \div 2048) /\ e.lo \div 2048 \in Nat
    BY <1>1 DEF MiB
  <2> QED
    BY <2>1
<1>3. parse_mib(e.lo) = k
  <2>1. e.lo = k * MiB
    BY <1>2 DEF MiB
  <2> QED
    BY <2>1, WholeMiB
<1>4. parse_mib(e.hi - e.lo) \in Nat /\ parse_mib(e.hi - e.lo) * 2048 < e.hi - e.lo + 2048
  <2>1. e.hi - e.lo \in Nat
    BY <1>1
  <2> QED
    BY <2>1, ParseMibNat DEF MiB
<1>5. n.num = e.num /\ n.lo = 2048 * k /\ n.hi = 2048 * (k + target) /\ n \in Entry
  BY <1>1, <1>3 DEF ShrunkTo, NewEntry, MiB, Entry
<1>6. n.lo = e.lo /\ n.hi = e.lo + target * 2048 /\ n.lo < n.hi /\ n.hi <= e.hi /\ n.hi \in Nat
  BY <1>1, <1>2, <1>4, <1>5
<1>7. ASSUME NEW f \in rest
      PROVE  /\ f \in Entry /\ f \in t /\ f.num # e.num /\ f.hi <= e.lo
             /\ FirstUsable <= f.lo /\ f.lo < f.hi /\ f.hi <= UsableEnd
  <2>1. f \in t /\ f.num # e.num /\ f \in Entry
    BY DEF Without, WellFormed
  <2>2. Apart(e, f) /\ FirstUsable <= f.lo /\ f.lo < f.hi /\ f.hi <= UsableEnd
    BY <2>1 DEF WellFormed
  <2>3. f.hi <= e.hi /\ f.hi \in Nat /\ f.lo \in Nat
    BY <2>1 DEF Entry
  <2> QED
    BY <1>1, <2>1, <2>2, <2>3 DEF Apart
<1>8. \A f \in rest : Apart(n, f) /\ Apart(f, n)
  BY <1>1, <1>6, <1>7 DEF Apart, Entry
<1>9. UsableEnd \in Int
  BY DiskAssumption DEF UsableEnd
<1>10. FirstUsable <= n.lo /\ n.hi <= UsableEnd
  BY <1>1, <1>6, <1>9 DEF FirstUsable
<1> HIDE DEF rest
<1>11. Accepts(rest, n)
  BY <1>5, <1>6, <1>7, <1>8, <1>10 DEF Accepts, Numbers
<1>12. \A f, g \in rest : f # g => f.num # g.num /\ Apart(f, g)
  BY <1>7 DEF WellFormed
<1>13. WellFormed(rest \cup {n})
  BY <1>5, <1>6, <1>7, <1>8, <1>10, <1>12 DEF WellFormed
<1> QED
  BY <1>6, <1>7, <1>11, <1>13 DEF rest, MiB

\* A shrink of the last partition (choose_root_disk_staging, choose_non_root_staging),
\* where no free range is read in its place, is carried out: sgdisk takes the
\* shorter entry, and behind it the installer finds room for staging exactly
\* when the partition's new end leaves it, with the margin, in front of the end
\* the installer reads.
THEOREM ShrinkMakesRoom ==
    ASSUME WellFormed(table), plan.size \in Nat \ {0},
           NEW e \in table, \A f \in table : f.hi <= e.hi, e.lo % MiB = 0,
           e.lo < (parse_end_mib(UsableEnd) - GptTailMargin) * MiB,
           \A r \in FirstRow(table, e.num) : ~r.free,
           NEW b \in partition_bounds(table, e.num), NEW used \in Nat, NEW type,
           plan \in ShrinkStaging(table, plan.size, e.num, b, used, type)
    PROVE  /\ ShrunkEntries # {}
           /\ ShrinkPartition =>
                (StagingEntries' # {}
                   <=> plan.end + plan.size + GptTailMargin <= parse_end_mib(UsableEnd))
PROOF
<1> DEFINE n    == ShrunkTo(e, plan.target)
           rest == Without(table, e.num)
           t    == rest \cup {n}
<1>1. /\ e.lo \in Nat /\ e.hi \in Nat /\ e.num \in Nat /\ table \subseteq Entry
      /\ FirstUsable <= e.lo /\ e.lo < e.hi /\ e.hi <= UsableEnd /\ UsableEnd \in Int
  BY DiskAssumption DEF WellFormed, Entry, UsableEnd
<1>2. \A r \in FirstRow(table, e.num) : r.lo = e.lo /\ r.hi = e.hi
  <2>1. \A f \in table : f.num = e.num => f = e
    BY DEF WellFormed
  <2> QED
    BY <1>1, <2>1, RowsType DEF FirstRow
<1>3. b = [start |-> parse_mib(e.lo), size |-> parse_mib(e.hi - e.lo)]
  BY <1>2 DEF partition_bounds
<1>4. /\ plan.part = e.num /\ plan.target = used + MinRootHeadroom
      /\ plan.end = parse_mib(e.lo) + plan.target
      /\ plan.number \in next_partition_number(table) /\ plan.target < parse_mib(e.hi - e.lo)
  BY <1>3 DEF ShrinkStaging
<1>5. plan.target \in Nat \ {0}
  BY <1>4, HeadroomAssumption
<1>6. /\ n.lo = e.lo /\ n.hi = e.lo + plan.target * MiB /\ n.hi <= e.hi /\ n.hi \in Nat
      /\ Accepts(rest, n) /\ WellFormed(t) /\ \A f \in rest : f.hi <= n.lo
  BY <1>4, <1>5, ShrunkTable
<1>7. ShrunkEntries = {n}
  <2>1. partition_start_mib(table, e.num) = {parse_mib(e.lo)}
    <3>1. FirstRow(table, e.num) # {}
      BY DEF partition_bounds
    <3> QED
      BY <1>2, <3>1 DEF partition_start_mib
  <2> QED
    BY <1>4, <1>6, <2>1 DEF ShrunkEntries, ShrunkTo
<1>8. plan.number \in Nat /\ plan.number \notin Numbers(t)
  <2>1. \A f \in table : f.num < plan.number /\ f.num \in Nat
    BY <1>4 DEF next_partition_number, WellFormed, Entry
  <2>2. n.num = e.num
    BY DEF ShrunkTo, NewEntry
  <2> QED
    BY <1>4, <2>1, <2>2 DEF next_partition_number, Numbers, Without
<1>9. n.hi < UsableEnd /\ UsableEnd \in Nat
  <2>1. e.hi - e.lo \in Nat
    BY <1>1
  <2>2. parse_mib(e.hi - e.lo) \in Nat /\ parse_mib(e.hi - e.lo) * 2048 < (e.hi - e.lo) + 2048
    BY <2>1, ParseMibNat DEF MiB
  <2>3. n.hi = e.lo + 2048 * plan.target
    BY <1>5, <1>6 DEF MiB
  <2> HIDE DEF n
  <2> QED
    BY <1>1, <1>4, <1>5, <1>6, <2>2, <2>3
<1>10. /\ n \in t /\ \A f \in t : f.hi <= n.hi
       /\ \A f \in t : f.lo < (parse_end_mib(UsableEnd) - GptTailMargin) * MiB
  <2>1. \A f \in rest : f.hi \in Nat /\ f.lo \in Nat /\ f.lo < f.hi
    BY DEF Without, WellFormed, Entry
  <2>2. n.lo <= n.hi
    BY <1>1, <1>5, <1>6 DEF MiB
  <2>3. (parse_end_mib(UsableEnd) - GptTailMargin) * MiB \in Int
    BY <1>9, ParseEndMibNat DEF GptTailMargin, MiB
  <2> HIDE DEF n, rest
  <2> QED
    BY <1>1, <1>6, <2>1, <2>2, <2>3
<1>11. PICK r \in LastRow(t) : r.free /\ r.lo = n.hi
  <2> HIDE DEF n, rest, t
  <2> QED
    BY <1>6, <1>9, <1>10, FreeIsLast
<1>12. r.lo <= ((parse_end_mib(UsableEnd) - GptTailMargin) - plan.size) * MiB
         <=> plan.end + plan.size + GptTailMargin <= parse_end_mib(UsableEnd)
  <2>1. r.lo = 2048 * plan.end /\ plan.end \in Nat
    <3>1. parse_mib(e.lo) \in Nat /\ n.hi = (parse_mib(e.lo) + plan.target) * MiB
      BY <1>1, ParseMibNat DEF ShrunkTo, NewEntry
    <3> HIDE DEF n
    <3> QED
      BY <1>4, <1>5, <1>11, <3>1 DEF MiB
  <2>2. parse_end_mib(UsableEnd) \in Nat
    BY <1>9, ParseEndMibNat
  <2> QED
    BY <2>1, <2>2 DEF GptTailMargin, MiB
<1>13. ASSUME ShrinkPartition
       PROVE  StagingEntries' # {}
                <=> plan.end + plan.size + GptTailMargin <= parse_end_mib(UsableEnd)
  <2>1. table' = t /\ plan' = plan
    BY <1>4, <1>7, <1>13 DEF ShrinkPartition, Sgdisk, attemptVars
  <2> HIDE DEF t
  <2>2. (\E start \in end_free_start_mib(t, plan.size) :
             Accepts(t, NewEntry(plan.number, start * MiB, (start + plan.size) * MiB)))
          <=> r.lo <= ((parse_end_mib(UsableEnd) - GptTailMargin) - plan.size) * MiB
    BY <1>6, <1>8, <1>10, <1>11, StagingAtTheEnd
  <2>3. StagingEntries' # {} <=>
          \E start \in end_free_start_mib(t, plan.size) :
             Accepts(t, NewEntry(plan.number, start * MiB, (start + plan.size) * MiB))
    BY <2>1 DEF StagingEntries
  <2> QED
    BY <1>12, <2>2, <2>3
<1> QED
  BY <1>7, <1>13

\* With no free space behind the partition the planner counts what the shrink
\* yields, rounded up; two MiB more than it asks for make up for the rounding
\* and the margin, so that the installer is not refused.
THEOREM SpareRoomSuffices ==
    ASSUME WellFormed(table), plan.size \in Nat \ {0},
           NEW e \in table, \A f \in table : f.hi <= e.hi, e.lo % MiB = 0, e.hi = UsableEnd,
           e.lo < (parse_end_mib(UsableEnd) - GptTailMargin) * MiB,
           \A r \in FirstRow(table, e.num) : ~r.free,
           NEW b \in partition_bounds(table, e.num), NEW used \in Nat, NEW type,
           plan \in ShrinkStaging(table, plan.size, e.num, b, used, type),
           b.size - plan.target >= plan.size + 2,
           ShrinkPartition
    PROVE  StagingEntries' # {}
PROOF
<1>1. e.lo \in Nat /\ e.hi \in Nat /\ e.lo < e.hi /\ table \subseteq Entry
  BY DEF WellFormed, Entry
<1>2. PICK k \in Nat : e.lo = 2048 * k
  <2>1. e.lo = 2048 * (e.lo \div 2048) /\ e.lo \div 2048 \in Nat
    BY <1>1 DEF MiB
  <2> QED
    BY <2>1
<1>3. b.start = k /\ b.size = parse_mib(e.hi - e.lo)
  <2>1. \A r \in FirstRow(table, e.num) : r.lo = e.lo /\ r.hi = e.hi
    <3>1. \A f \in table : f.num = e.num => f = e
      BY DEF WellFormed
    <3> QED
      BY <1>1, <3>1, RowsType DEF FirstRow
  <2>2. b = [start |-> parse_mib(e.lo), size |-> parse_mib(e.hi - e.lo)]
    BY <2>1 DEF partition_bounds
  <2>3. e.lo = k * MiB
    BY <1>2 DEF MiB
  <2> QED
    BY <2>2, <2>3, WholeMiB
<1>4. plan.end = k + plan.target /\ plan.target \in Nat
  BY <1>3, HeadroomAssumption DEF ShrinkStaging
<1>5. b.size \in Nat /\ b.size * 2048 < (e.hi - e.lo) + 2048
  <2>1. e.hi - e.lo \in Nat
    BY <1>1
  <2> QED
    BY <1>3, <2>1, ParseMibNat DEF MiB
<1>6. parse_end_mib(UsableEnd) \in Nat /\ e.hi - 1024 <= parse_end_mib(UsableEnd) * 2048
  BY <1>1, ParseEndMibNat DEF MiB
<1>7. plan.end + plan.size + GptTailMargin <= parse_end_mib(UsableEnd)
  BY <1>1, <1>2, <1>4, <1>5, <1>6 DEF GptTailMargin
<1> QED
  BY <1>7, ShrinkMakesRoom

===============================================================================
