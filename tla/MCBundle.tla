------------------------------ MODULE MCBundle ------------------------------
(***************************************************************************)
(* Small bundles and initrds for Bundle: builds with every kind of fault,  *)
(* calls with every policy, and archives whose names and files end at      *)
(* every distance from a multiple of four.                                 *)
(***************************************************************************)
EXTENDS Bundle, TLC

CONSTANTS c1, c2, dir, other, Split, Full, Efi, Half, Blind, Twice, Odd

BuildEntries ==
    Split :> <<"kernel", "initrd">> @@ Full :> <<"installer.efi", "initrd", "kernel">>
      @@ Efi :> <<"installer.efi">> @@ Half :> <<"installer.efi", "kernel">>
      @@ Blind :> <<"installer.efi", "initrd">> @@ Twice :> <<"kernel", "initrd", "initrd">> @@ Odd :> <<"kernel", "initrd", "other">>

Ask(kind, signature, key, build, d) ==
    [kind |-> kind, signature |-> signature, key |-> key, build |-> build, directory |-> d]

Fetch(signed)   == Ask("fetch", signed, signed, Split, dir)
FetchNoKey      == Ask("fetch", TRUE, FALSE, Split, dir)
Stage(signed)   == Ask("stage", signed, signed, Split, dir)
StageNoText     == Ask("stage", FALSE, TRUE, Split, dir)
Install(b, d)   == Ask("install", FALSE, FALSE, b, d)

-----------------------------------------------------------------------------
EntryNames == {"etc", "file", "init", "kernel", Trailer, Unreadable} \cup ManifestPaths

\* The entry after h, as cpio writes them.
After(h, name, namesize, size) == NewHead(KernelNext(h), name, namesize, size)

\* Archives: zeroes, the directory etc, a file and the trailer, then zeroes.
Archived(zeroes, file, namesize, size, padding) ==
    LET a == NewHead(zeroes, "etc", 4, 0)
        b == After(a, file, namesize, size)
        t == After(b, Trailer, 11, 0)
    IN  [len |-> KernelNext(t) + padding, heads |-> {a, b, t}]

\* An archive of microcode, which has no directory etc.
Microcode ==
    LET a == NewHead(0, "kernel", 7, 0)
        t == After(a, Trailer, 11, 0)
    IN  [len |-> KernelNext(t), heads |-> {a, t}]

\* An archive without its trailer.
CutOff ==
    LET a == NewHead(0, "etc", 4, 0) IN [len |-> KernelNext(a), heads |-> {a}]

One(packing, s) == [packing |-> packing, stream |-> s]

Usual == <<One("zstd", Archived(0, "init", 5, 3, 0))>>

PlainImages ==
    {<<One(packing, Archived(zeroes, "file", namesize, size, padding))>> :
        packing \in Packings, zeroes \in {0, 4}, namesize \in 5 .. 8, size \in 0 .. 3, padding \in {0, 4}}

OtherImages ==
    {<<One(packing, s)>> : packing \in Packings, s \in {CutOff, Archived(1, "init", 5, 3, 0)}}
      \cup {<<One(p, Microcode), One(q, Archived(0, "init", 5, 3, 0))>> : p \in Packings, q \in Packings \ {"gzip"}}

-----------------------------------------------------------------------------
Pairs == {Fetch(TRUE), Fetch(FALSE), FetchNoKey} \X {Fetch(TRUE), Fetch(FALSE), Stage(TRUE), Stage(FALSE), StageNoText}

CallSetups ==
    {[jobs |-> c1 :> p[1] @@ c2 :> p[2], orderly |-> o, server |-> {Split, Full, Half}, initrd |-> Usual] :
        p \in Pairs \cup {<<Install(Efi, dir), Stage(TRUE)>>, <<Install(Split, dir), Install(Half, dir)>>},
        o \in BOOLEAN}

BuildSetups ==
    {[jobs |-> c1 :> Install(Split, dir) @@ c2 :> Install(b, other), orderly |-> TRUE, server |-> {Split}, initrd |-> Usual] :
        b \in Builds}

ImageSetups ==
    {[jobs |-> c1 :> Stage(FALSE) @@ c2 :> Install(Split, dir), orderly |-> TRUE, server |-> {Split},
      initrd |-> image] :
        image \in PlainImages \cup OtherImages}

SmallSetups == CallSetups \cup BuildSetups \cup ImageSetups
=============================================================================
