------------------------------- MODULE Custody -------------------------------
(***************************************************************************)
(* What an in-place installation promises about the system it replaces:    *)
(* there are up to three copies of a root filesystem - the old root, the   *)
(* staged archive and the new root - a new root is only ever made from the *)
(* archive, and the last copy is never given up.                           *)
(***************************************************************************)
VARIABLE held       \* the copies there are

Init == held = {"old"}

\* The rootfs is captured from the old root, or downloaded.
Capture == held # {} /\ held' = held \cup {"archive"}

\* The archive is extracted onto the new volumes.
Install == "archive" \in held /\ held' = held \cup {"new"}

\* A partition is listed again over sectors that still hold the old root.
Reappear == held # {} /\ held' = held \cup {"old"}

\* Copies are given up; another one stays.
Discard == \E kept \in (SUBSET held) \ {{}} : held' = kept

Next == Capture \/ Install \/ Reappear \/ Discard

Spec == Init /\ [][Next]_held
=============================================================================
