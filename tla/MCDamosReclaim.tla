--------------------------- MODULE MCDamosReclaim ---------------------------
(* DamosReclaim with two apply intervals below the ceiling and a quota of  *)
(* one unit; the quota is renewed after three intervals.                   *)
EXTENDS DamosReclaim
=============================================================================
