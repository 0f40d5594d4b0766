-------------------------- MODULE MCInPlaceInstall --------------------------
(***************************************************************************)
(* Small machines for InPlaceInstall.  The disk has 16 MiB and the         *)
(* headrooms are 1 and 2 MiB, so that every branch of the planner has a    *)
(* machine on which it is taken.                                           *)
(***************************************************************************)
EXTENDS InPlaceInstall

Part(n, from, to) == NewEntry(n, from * MiB, to * MiB)

Fs(e, used, type) ==
    [tag |-> "old", num |-> e.num, lo |-> e.lo, hi |-> e.hi, used |-> used, type |-> type]

Machine(t, v, root, used, boot) ==
    [table |-> t, vols |-> v, root |-> root, used |-> used,
     bootMib |-> boot, uefi |-> boot > 1, failing |-> 2]

Failing(h, n) == [h EXCEPT !.failing = n]

\* The partition of number n from a MiB to the last usable sector: the last row
\* of the listing is then no free space.
ToTheEnd(n, from) == NewEntry(n, from * MiB, UsableEnd)

\* Only the root, and free space behind it.
FreeBehind(boot) ==
    LET r == Part(1, 1, 8) IN Machine({r}, {Fs(r, 2, "ext4")}, 1, 2, boot)

\* The same with less free space than any source needs.
ShortTail(boot) ==
    LET r == Part(1, 1, 14) IN Machine({r}, {Fs(r, 2, "ext4")}, 1, 2, boot)

\* An ESP or boot partition before the root.
BootFirst(boot) ==
    LET b == Part(1, 1, 2)
        r == ToTheEnd(2, 2)
    IN  Machine({b, r}, {Fs(b, 1, "vfat"), Fs(r, 2, "ext4")}, 2, 2, boot)

\* A cloud image: small partitions 14 and 15 before the root, number 1.
CloudImage(boot) ==
    LET b == Part(14, 1, 2)
        c == Part(15, 2, 3)
        r == Part(1, 3, 11)
    IN  Machine({b, c, r}, {Fs(c, 1, "vfat"), Fs(r, 2, "ext4")}, 1, 2, boot)

\* A BIOS boot partition in the sectors before the first MiB, the root behind it:
\* the only root with number 1 that the planner measures.
BootInFirstMiB(boot) ==
    LET b == NewEntry(14, FirstUsable, MiB)
        r == ToTheEnd(1, 1)
    IN  Machine({b, r}, {Fs(r, 2, "ext4")}, 1, 2, boot)

\* The root before a data partition.
RootInMiddle(boot) ==
    LET r == Part(2, 1, 9)
        d == ToTheEnd(3, 9)
    IN  Machine({r, d}, {Fs(r, 2, "ext4"), Fs(d, 3, "ext4")}, 2, 2, boot)

\* A second disk with one ext4 or xfs partition, with free space behind it, with
\* two partitions, and empty.
DataDisk(type, boot) ==
    LET d == ToTheEnd(1, 1) IN Machine({d}, {Fs(d, 3, type)}, 0, 2, boot)

DataBeforeFree(boot) ==
    LET d == Part(1, 1, 10) IN Machine({d}, {Fs(d, 3, "ext4")}, 0, 2, boot)

TwoDataParts(boot) ==
    LET c == Part(1, 1, 4)
        d == ToTheEnd(3, 4)
    IN  Machine({c, d}, {Fs(c, 1, "xfs"), Fs(d, 3, "ext4")}, 0, 2, boot)

EmptyDisk(boot) == Machine({}, {}, 0, 2, boot)

\* A second disk whose first partition begins behind a gap.
BehindGap(boot) ==
    LET d == ToTheEnd(1, 3) IN Machine({d}, {Fs(d, 3, "ext4")}, 0, 2, boot)

\* Machines on which nothing the known disagreements are about occurs: no old
\* partition lies where the kernel's memory of it would be in the way.
SimpleHosts ==
    UNION {{FreeBehind(b), BootInFirstMiB(b), DataDisk("ext4", b), EmptyDisk(b)} : b \in {1, 2}}

\* Every filesystem the installer might shrink starts on a MiB, and number 1
\* where a gap before it starts as well.
AlignedHosts ==
    {Failing(h, n) : h \in SimpleHosts, n \in {0, 1}} \cup
    UNION {{FreeBehind(b), ShortTail(b), BootFirst(b), CloudImage(b), BootInFirstMiB(b),
            RootInMiddle(b), DataDisk("ext4", b), DataDisk("xfs", b), DataBeforeFree(b),
            TwoDataParts(b), EmptyDisk(b)} : b \in {1, 2}}

LiveRoot     == [kind |-> "live-root", length |-> 0]
Https(n)     == [kind |-> "https-rootfs", length |-> n]

\* The last one is larger than the disk.
AllSources   == {LiveRoot, Https(0), Https(6), Https(16)}

CloudHosts == {Failing(CloudImage(2), 0), Failing(BootFirst(2), 0)}
TailHosts  == {Failing(ShortTail(1), 0)}
GapHosts   == {Failing(BehindGap(1), 0)}
LiveOnly   == {LiveRoot}
HttpsOnly  == {Https(0)}

=============================================================================
