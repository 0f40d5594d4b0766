--------------------------- MODULE MCDirectInstall ---------------------------
(***************************************************************************)
(* Small machines for DirectInstall: three disks, the root on one of them, *)
(* by its own name or on a mapping, and the others free or in use.         *)
(***************************************************************************)
EXTENDS DirectInstall

CONSTANTS d1, d2, d3

Machine(direct, mapped, held, uefi, data, asked) ==
    [root |-> d1, direct |-> direct, mapped |-> mapped, held |-> held,
     uefi |-> uefi, data_volume |-> data, asked |-> asked]

AllHosts ==
    {Machine(direct, mapped, held, uefi, data, FALSE) :
        direct \in {{d1}, {d1, d2}}, mapped \in {{}, {d1}, {d2}}, held \in {{}, {d3}},
        uefi \in BOOLEAN, data \in BOOLEAN}
    \cup {Machine({}, {d1}, {}, uefi, TRUE, asked) : uefi \in BOOLEAN, asked \in BOOLEAN}

PlainHosts == {Machine({d1}, {}, {}, FALSE, FALSE, FALSE)}
AskedHosts == {Machine({d1}, {}, {}, FALSE, FALSE, TRUE)}
=============================================================================
