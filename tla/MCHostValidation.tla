-------------------------- MODULE MCHostValidation --------------------------
(* HostValidation with room for three test devices beside /dev/zram0.      *)
EXTENDS HostValidation
=============================================================================
