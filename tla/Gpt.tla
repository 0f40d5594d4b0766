--------------------------------- MODULE Gpt ---------------------------------
(***************************************************************************)
(* A GUID partition table and the tools the installer reads and edits it   *)
(* with: parted (listing), sgdisk (editing), the kernel's own view of the  *)
(* partitions and partx (updating that view).                              *)
(*                                                                         *)
(* A table is a set of entries.  Positions are sectors and hi is one past  *)
(* the last sector of the entry.  The readers of parted's output are the   *)
(* code's; the tools themselves are external and modelled from the way the *)
(* code calls them.                                                        *)
(***************************************************************************)
EXTENDS Integers

CONSTANT DiskSectors            \* size of the target disk

ASSUME DiskAssumption == DiskSectors \in Nat

MiB         == 2048             \* 512-byte sectors in a MiB
FirstUsable == 34               \* after the primary GPT
UsableEnd   == DiskSectors - 33 \* before the backup GPT

Range == [lo : Nat, hi : Nat]
Entry == [num : Nat, lo : Nat, hi : Nat]

NewEntry(n, lo, hi) == [num |-> n, lo |-> lo, hi |-> hi]
Numbers(t)          == {e.num : e \in t}
Numbered(t, n)      == {e \in t : e.num = n}
Without(t, n)       == {e \in t : e.num # n}
Apart(a, b)         == a.hi <= b.lo \/ b.hi <= a.lo

(***************************************************************************)
(* What a table is: numbers are unique, entries are non-empty, lie in the  *)
(* usable part of the disk and do not overlap.                             *)
(***************************************************************************)
WellFormed(t) ==
    /\ t \subseteq Entry
    /\ \A e \in t : FirstUsable <= e.lo /\ e.lo < e.hi /\ e.hi <= UsableEnd
    /\ \A e, f \in t : e # f => e.num # f.num /\ Apart(e, f)

-----------------------------------------------------------------------------
(* parted -m unit MiB print free.                                          *)

\* Maximal free ranges.
Gaps(t) ==
    {g \in [lo : {FirstUsable} \cup {e.hi : e \in t}, hi : {UsableEnd} \cup {e.lo : e \in t}] :
        g.lo < g.hi /\ \A e \in t : Apart(e, g)}

(***************************************************************************)
(* The listing is a row for each entry and each free range, in their order *)
(* on the disk: "number:start:end:size:...".  In the row of a free range   *)
(* parted writes a 1 where the number would be.                            *)
(***************************************************************************)
NewRow(n, r, free) == [num |-> n, lo |-> r.lo, hi |-> r.hi, free |-> free]

parted_lines(t) == {NewRow(e.num, e, FALSE) : e \in t} \cup {NewRow(1, g, TRUE) : g \in Gaps(t)}

\* What the code reads from the listing: the first row with a number, and the last row.
FirstRow(t, n) ==
    {r \in parted_lines(t) : r.num = n /\ \A q \in parted_lines(t) : q.num = n => r.lo <= q.lo}

LastRow(t) == {r \in parted_lines(t) : \A q \in parted_lines(t) : q.lo <= r.lo}

(***************************************************************************)
(* A field in MiB as the code reads it.  parted prints two decimals below  *)
(* 10 MiB, one below 100 and none from there on, rounded to the nearest;   *)
(* the code rounds up.  back is 1 for the end of a row, for which parted   *)
(* prints the last byte, and 0 for a start and a size.                     *)
(***************************************************************************)
ReadMib(sectors, back) ==
    LET unit  == IF 200 * sectors + MiB - back < 2000 * MiB THEN 100
                 ELSE IF 20 * sectors + MiB - back < 2000 * MiB THEN 10 ELSE 1
        shown == (unit * sectors + (MiB \div 2) - back) \div MiB
    IN  (shown + unit - 1) \div unit

parse_mib(sectors) == ReadMib(sectors, 0)
parse_end_mib(hi)  == ReadMib(hi, 1)

-----------------------------------------------------------------------------
(* sgdisk.                                                                 *)

\* --new is refused when the number is taken or the sectors are not free.
Accepts(t, e) ==
    /\ e.num \notin Numbers(t)
    /\ FirstUsable <= e.lo /\ e.lo < e.hi /\ e.hi <= UsableEnd
    /\ \A f \in t : Apart(e, f)

\* A start of 0: the first aligned sector of a largest gap.
DefaultStarts(t) ==
    {((g.lo + MiB - 1) \div MiB) * MiB :
        g \in {g \in Gaps(t) : \A h \in Gaps(t) : h.hi - h.lo <= g.hi - g.lo}}

\* An end of 0: the end of the gap that contains the start.
DefaultEnds(t, start) ==
    {g.hi : g \in {g \in Gaps(t) : g.lo <= start /\ start < g.hi}}

-----------------------------------------------------------------------------
(* The kernel's view.                                                      *)

\* sgdisk asks the kernel to read the table again.  The kernel refuses while
\* a partition of the disk is in use; entries that went away may or may not
\* be dropped from its view then.
Reread(view, t, busy) ==
    IF busy THEN {view, {e \in view : e.num \in Numbers(t)}} ELSE {view, t}

\* partx --update --nr: the kernel replaces its partition by the entry, and
\* refuses one that overlaps another partition it still knows.
PartxAccepts(view, e) == \A f \in Without(view, e.num) : Apart(e, f)
Partx(view, e)        == Without(view, e.num) \cup {e}

=============================================================================
