------------------------------ MODULE MCRootfs ------------------------------
(***************************************************************************)
(* A small build host for Rootfs: one workspace, one device, two archives  *)
(* whose names differ only in the suffix, and one in a directory of the    *)
(* workspace.                                                              *)
(***************************************************************************)
EXTENDS Rootfs, TLC

CONSTANTS w, d, Tar, Img, Json, Nested, NestedJson

Suffixes  == Tar :> Json @@ Img :> Json @@ Nested :> NestedJson
Locations == Tar :> NoTree @@ Img :> NoTree @@ Nested :> w

Ask(kind, t, output) == [kind |-> kind, tree |-> t, output |-> output, https |-> TRUE]

SmallJobs ==
    {Ask("init", w, Tar), Ask("pack", w, Tar), Ask("pack", w, Nested),
     Ask("import", d, Img), [Ask("pack", w, Tar) EXCEPT !.https = FALSE]}
=============================================================================
