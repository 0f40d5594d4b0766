------------------------------ MODULE MCHandoff ------------------------------
(***************************************************************************)
(* Small machines for Handoff: one for each handoff and for each thing a   *)
(* handoff meets on the host.                                              *)
(***************************************************************************)
EXTENDS Handoff

Bios == [uefi |-> FALSE, esp |-> FALSE, efivars |-> FALSE, grub |-> TRUE,
         direct_kexec |-> FALSE, separate |-> FALSE, calm |-> FALSE,
         bundle |-> {"kernel", "initrd"}, snippet |-> "none", boots |-> <<>>]

GrubOnUefi == [Bios EXCEPT !.uefi = TRUE, !.esp = TRUE, !.efivars = TRUE, !.boots = <<0>>]
Fixture    == [Bios EXCEPT !.direct_kexec = TRUE]
Snippet    == [Bios EXCEPT !.snippet = "foreign"]
OwnBoot    == [Bios EXCEPT !.separate = TRUE]
Uefi       == [GrubOnUefi EXCEPT !.grub = FALSE, !.bundle = {"kernel", "initrd", "uki"}]

\* Number 0 is free, another entry comes first, and the old system is not the
\* only entry.
UefiGap    == [Uefi EXCEPT !.boots = <<2, 1>>]

Calm(m) == [m EXCEPT !.calm = TRUE]

AllMachines ==
    {Calm(Bios), Calm(GrubOnUefi), Calm(Snippet),
     Bios, GrubOnUefi, Fixture, Snippet, OwnBoot, Uefi, UefiGap,
     [Bios EXCEPT !.grub = FALSE, !.boots = <<0>>],
     [Uefi EXCEPT !.esp = FALSE],
     [Uefi EXCEPT !.bundle = {"uki"}],
     [Uefi EXCEPT !.bundle = {"kernel", "initrd"}]}

UefiMachines == {Calm(Uefi)}
=============================================================================
