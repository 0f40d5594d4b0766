------------------------------- MODULE OneShot -------------------------------
(***************************************************************************)
(* What a handoff promises: the RAM installer starts only because a client *)
(* chose it, and one choice is good for one boot at most.  A choice may be *)
(* replaced by another or get lost; it is never used twice.                *)
(***************************************************************************)
CONSTANTS Clients, NoClient

VARIABLES choice,   \* the client whose choice the next boot will follow
          active    \* does the installer run?

vars == <<choice, active>>

Init == choice = NoClient /\ active = FALSE

Choose == ~active /\ choice' \in Clients /\ UNCHANGED active

\* The choice is gone as soon as a boot follows it.
Start == ~active /\ choice # NoClient /\ choice' = NoClient /\ active' = TRUE

Drop == choice' = NoClient /\ UNCHANGED active

Stop == active /\ active' = FALSE /\ UNCHANGED choice

Next == Choose \/ Start \/ Drop \/ Stop

Spec == Init /\ [][Next]_vars
=============================================================================
