----------------------------- MODULE StagingPlan -----------------------------
(***************************************************************************)
(* The planner of the in-place installation: how the running host decides  *)
(* where on the target disk the RAM installer will put the staging         *)
(* partition.  A planner operator returns the set of strategies it can     *)
(* return: one strategy, or none when the code returns an error.           *)
(***************************************************************************)
EXTENDS Gpt

CONSTANTS
    LiveRootHeadroom,      \* MiB added to the archive's size (1024)
    MinRootHeadroom,       \* MiB a shrunk filesystem keeps free (2048)
    DefaultHttpsStaging    \* MiB staged when the archive's size is unknown (4096)

ASSUME HeadroomAssumption ==
    /\ LiveRootHeadroom \in Nat /\ LiveRootHeadroom > 0
    /\ MinRootHeadroom \in Nat /\ MinRootHeadroom > 0
    /\ DefaultHttpsStaging \in Nat /\ DefaultHttpsStaging > 0

(***************************************************************************)
(* kind "existing-free" or "shrink-ext4"; number and size (MiB) of the     *)
(* staging partition; for a shrink the partition, the size its filesystem  *)
(* is given and where the partition will end (MiB).                        *)
(***************************************************************************)
Strategy == [kind : {"existing-free", "shrink-ext4"}, number : Nat, size : Nat,
             part : Nat, target : Nat, end : Nat]

\* A source: the live root, or an archive whose length in MiB the server
\* tells, or does not tell (0).
Source == [kind : {"live-root", "https-rootfs"}, length : Nat]

staging_requirement_mib(used, source) ==
    IF source.kind = "live-root" THEN used + LiveRootHeadroom
    ELSE IF source.length = 0 THEN DefaultHttpsStaging
    ELSE source.length + LiveRootHeadroom

\* One more than the highest number, at least 3 and below 128.
next_partition_number(t) ==
    {n \in 3..127 : /\ \A e \in t : e.num < n
                    /\ n = 3 \/ n - 1 \in Numbers(t)}

(***************************************************************************)
(* The readers of the listing, each the set of what it can return (empty   *)
(* where the code finds no row).  A free range counts as partition 1.      *)
(***************************************************************************)
\* The third field of the last row, if that row is free space: its end.
end_free_region(t) == {parse_end_mib(r.hi) : r \in {r \in LastRow(t) : r.free}}

partition_bounds(t, n) ==
    {[start |-> parse_mib(r.lo), size |-> parse_mib(r.hi - r.lo)] : r \in FirstRow(t, n)}

\* The row that ends last, the later one when two end in the same MiB.
final_partition(t) ==
    {r \in parted_lines(t) : \A q \in parted_lines(t) :
        \/ parse_end_mib(q.hi) < parse_end_mib(r.hi)
        \/ parse_end_mib(q.hi) = parse_end_mib(r.hi) /\ q.lo <= r.lo}

-----------------------------------------------------------------------------
staging_from_existing_free(t, required) ==
    {[kind |-> "existing-free", number |-> n, size |-> required,
      part |-> 0, target |-> 0, end |-> 0] :
        n \in {n \in next_partition_number(t) : \E free \in end_free_region(t) : free >= required}}

\* (Mutant of ShrinkStaging: the end forgets where the partition starts.)
ShrinkStagingFromZero(t, required, n, bounds, used, type) ==
    {[kind |-> "shrink-ext4", number |-> m, size |-> required, part |-> n,
      target |-> used + MinRootHeadroom, end |-> used + MinRootHeadroom] :
        m \in {m \in next_partition_number(t) :
                 type = "ext4" /\ used + MinRootHeadroom < bounds.size}}

\* The shrink both planners choose for partition n with the bounds read for it,
\* whose filesystem holds used MiB and is of the given type.
ShrinkStaging(t, required, n, bounds, used, type) ==
    LET target == used + MinRootHeadroom
        free   == IF end_free_region(t) = {} THEN {0} ELSE end_free_region(t)
    IN  {[kind |-> "shrink-ext4", number |-> m, size |-> required,
          part |-> n, target |-> target, end |-> bounds.start + target] :
            m \in {m \in next_partition_number(t) :
                     /\ type = "ext4"
                     /\ target < bounds.size
                     /\ \E f \in free : (bounds.size - target) + f >= required}}

\* vols are the filesystems on the disk, used is what the root filesystem
\* holds (df); the planner takes the root's partition, wherever it lies.
choose_root_disk_staging(t, vols, root, used, required) ==
    IF staging_from_existing_free(t, required) # {}
      THEN staging_from_existing_free(t, required)
      ELSE UNION {ShrinkStaging(t, required, root, b, used, v.type) :
                    b \in partition_bounds(t, root), v \in {v \in vols : v.num = root}}

\* The filesystems that start where the partition with a row's number does.
VolumesAt(t, vols, r) == {v \in vols : \E e \in Numbered(t, r.num) : v.lo = e.lo}

choose_non_root_staging(t, vols, required) ==
    IF staging_from_existing_free(t, required) # {}
      THEN staging_from_existing_free(t, required)
      ELSE UNION {UNION {ShrinkStaging(t, required, r.num,
                             [start |-> parse_mib(r.lo), size |-> parse_mib(r.hi - r.lo)],
                             v.used, v.type) :
                           v \in VolumesAt(t, vols, r)} : r \in final_partition(t)}

(***************************************************************************)
(* The RAM installer's side.  The staging partition goes before the last   *)
(* MiB of the disk; the start of a partition is that of the first row with *)
(* its number.                                                             *)
(***************************************************************************)
GptTailMargin == 1

\* (Mutant of end_free_start_mib: no margin for the backup GPT.)
end_free_start_without_margin(t, required) ==
    {end - required : end \in {end \in end_free_region(t) : end >= required}}

\* The first field of a free row is no number of MiB, so that the code's start
\* is 0, and its size is the row's end.
end_free_start_mib(t, required) ==
    {(end - GptTailMargin) - required :
        end \in {end \in end_free_region(t) : end - GptTailMargin >= required}}

partition_start_mib(t, n) == {parse_mib(r.lo) : r \in FirstRow(t, n)}

=============================================================================
