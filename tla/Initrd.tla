------------------------------- MODULE Initrd -------------------------------
(***************************************************************************)
(* The installer's initrd and how embed_manifest changes it.  An initrd is *)
(* a sequence of segments, each compressed or not, each with the bytes of  *)
(* one or more newc archives.  Of the bytes only the headers are kept:     *)
(* where they are, and the sizes that lead from one to the next.           *)
(***************************************************************************)
EXTENDS Integers, Sequences

CONSTANTS
    ManifestSize,   \* bytes of the manifest
    Names           \* names of entries

Trailer       == "TRAILER!!!"
ManifestPaths == {"etc/encvol", "etc/encvol/manifest.json"}

\* What stands among the paths when the kernel could not follow the bytes.
Unreadable == "unreadable"

ASSUME InitrdAssumption ==
    /\ ManifestSize \in Nat \ {0}
    /\ {Trailer, Unreadable} \cup ManifestPaths \subseteq Names

HeaderSize == 110

\* name of an entry, its bytes with the final NUL, and the bytes of its file.
Header == [at : Nat, name : Names, namesize : Nat, size : Nat]

\* Where the name of h ends.
NameEnd(h) == h.at + HeaderSize + h.namesize

\* The bytes of a segment once decompressed.  A header that was cut off is none,
\* and none begins inside another or its name.
Stream ==
    {s \in [len : Nat, heads : SUBSET Header] :
        \A h \in s.heads :
            h.at + HeaderSize <= s.len /\ \A g \in s.heads \ {h} : g.at \notin h.at .. NameEnd(h) - 1}

Packings == {"none", "gzip", "zstd"}
Segment  == [packing : Packings, stream : Stream]

HeadsAt(s, o) == {h \in s.heads : h.at = o}

\* A byte that belongs to no header, name or file is padding.
IsZero(s, o) ==
    \A h \in s.heads :
        LET data == 4 * ((NameEnd(h) + 3) \div 4)
        IN  o \notin h.at .. NameEnd(h) - 1 /\ o \notin data .. data + h.size - 1

-----------------------------------------------------------------------------
(* The kernel's reader (init/initramfs.c), from what it makes of the bytes *)
(* the installer writes.                                                   *)

\* The kernel's size of a name with its padding, a header being 110 bytes.
NAlign(n) == 4 * ((n + 1) \div 4) + 2

\* Where the kernel expects the next header behind h.
KernelNext(h) == 4 * ((h.at + HeaderSize + NAlign(h.namesize) + h.size + 3) \div 4)

\* What is at a path that needs its directory to be there first.
Parent(name) ==
    CASE name = "etc/encvol"               -> "etc"
      [] name = "etc/encvol/manifest.json" -> "etc/encvol"
      [] OTHER                             -> "/"

\* The paths there are once the bytes from o on are read, done being there
\* before.  Between archives, and only there, zeroes are skipped; a header at
\* an odd place, or none where one must be, ends the reading.
Phase == {"between", "inside"}

KernelReadsFrom(o, phase, done, s, read) ==
    IF o >= s.len /\ phase = "between" THEN done
    ELSE IF phase = "between" /\ HeadsAt(s, o) = {} /\ IsZero(s, o) THEN read[o + 1]["between"][done]
    ELSE IF HeadsAt(s, o) = {} \/ o % 4 # 0 THEN done \cup {Unreadable}
    ELSE LET h == CHOOSE h \in HeadsAt(s, o) : TRUE
         IN  IF h.name = Trailer THEN read[KernelNext(h)]["between"][done]
             ELSE read[KernelNext(h)]["inside"]
                      [IF Parent(h.name) \in done \cup {"/"} THEN done \cup {h.name} ELSE done]

KernelReads(s, before) ==
    LET read[o \in Nat] ==
            [phase \in Phase |->
                [done \in SUBSET Names |-> KernelReadsFrom(o, phase, done, s, read)]]
    IN  read[0]["between"][before]

\* The files of the initrd the kernel unpacks.
KernelFiles(image) ==
    LET after[i \in 0 .. Len(image)] ==
            IF i = 0 THEN {} ELSE KernelReads(image[i].stream, after[i - 1])
    IN  after[Len(image)]

-----------------------------------------------------------------------------
(* The client's writer.                                                    *)

align4(v) == 4 * ((v + 3) \div 4)

\* The offset of the first trailer, if the bytes can be followed up to it.
TrailerFrom(o, s, scan) ==
    IF o + HeaderSize > s.len THEN {}
    ELSE IF HeadsAt(s, o) = {} THEN IF IsZero(s, o) THEN scan[o + 1] ELSE {}
    ELSE LET h    == CHOOSE h \in HeadsAt(s, o) : TRUE
             data == align4(NameEnd(h)) + h.size
         IN  IF NameEnd(h) > s.len \/ h.namesize = 0 THEN {}
             ELSE IF h.name = Trailer THEN {o}
             ELSE IF data > s.len THEN {} ELSE scan[align4(data)]

find_first_newc_trailer(s) ==
    LET scan[o \in Nat] == TrailerFrom(o, s, scan) IN scan[0]

\* What append_newc_node appends at offset o: a header, and where it ends.
NewHead(o, name, namesize, size) == [at |-> o, name |-> name, namesize |-> namesize, size |-> size]

\* (Mutant of NodeEnd: the file is not padded.)
NodeEndUnpadded(h) == align4(NameEnd(h)) + h.size

NodeEnd(h) == align4(align4(NameEnd(h)) + h.size)

DirectoryHead == NewHead(0, "etc/encvol", 11, 0)
ManifestHead  == NewHead(NodeEnd(DirectoryHead), "etc/encvol/manifest.json", 25, ManifestSize)

\* The directory and the manifest, in a buffer of their own.
manifest_cpio_entries == [len |-> NodeEnd(ManifestHead), heads |-> {DirectoryHead, ManifestHead}]

Moved(heads, by) == {[h EXCEPT !.at = @ + by] : h \in heads}

\* The stream with the entries put in front of offset t.
WithManifest(s, t) ==
    [len   |-> s.len + manifest_cpio_entries.len,
     heads |-> {h \in s.heads : h.at < t}
                 \cup Moved(manifest_cpio_entries.heads, t)
                 \cup Moved({h \in s.heads : h.at >= t}, manifest_cpio_entries.len)]

insert_manifest_entries(s) == {WithManifest(s, t) : t \in find_first_newc_trailer(s)}

\* zstd decompresses one frame after the other into one stream.
Joined(image) ==
    LET joined[i \in 1 .. Len(image)] ==
            IF i = 1 THEN image[1].stream
            ELSE LET before == joined[i - 1]
                 IN  [len   |-> before.len + image[i].stream.len,
                      heads |-> before.heads \cup Moved(image[i].stream.heads, before.len)]
    IN  joined[Len(image)]

Repacked(packing, streams) == {<<[packing |-> packing, stream |-> s]>> : s \in streams}

\* The images that can result: one, or none when an error is returned.  zstd
\* is one that reads no frames but its own; GzDecoder stops behind the first
\* member; an image that is not compressed keeps what follows.
embed_manifest_for_initrd(image) ==
    CASE image[1].packing = "zstd" ->
           IF \A i \in DOMAIN image : image[i].packing = "zstd"
             THEN Repacked("zstd", insert_manifest_entries(Joined(image))) ELSE {}
      [] image[1].packing = "gzip" -> Repacked("gzip", insert_manifest_entries(image[1].stream))
      [] image[1].packing = "none" ->
           {first \o Tail(image) : first \in Repacked("none", insert_manifest_entries(image[1].stream))}

-----------------------------------------------------------------------------
(* What the embedding guarantees.                                          *)

\* An initrd of one archive that the kernel reads and that holds the directory etc.
Plain(image) ==
    /\ Len(image) = 1
    /\ \A h, t \in image[1].stream.heads : h.name = Trailer /\ t.name = Trailer => h = t
    /\ "etc" \in KernelFiles(image) /\ Unreadable \notin KernelFiles(image)
=============================================================================
