--------------------------- MODULE MCBootLifecycle ---------------------------
(* Instances of BootLifecycle for TLC. *)
EXTENDS BootLifecycle

\* The contract the binary drives, and all the library keeps.
InForce == {"v6"}
Kept == {"v2", "v3", "v5", "v6"}

\* There and back takes two reboots; one more where the binary itself runs.
Reboots == [c \in Contracts |-> IF c = "v6" THEN 3 ELSE 2]
=============================================================================
