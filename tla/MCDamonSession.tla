--------------------------- MODULE MCDamonSession ---------------------------
(* DamonSession with up to two sizes on the ladder. *)
EXTENDS DamonSession
=============================================================================
