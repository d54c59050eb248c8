------------------------- MODULE MCZramTransaction -------------------------
(***************************************************************************)
(* Small instances of ZramTransaction: the system's zram0 that was there   *)
(* at the baseline, a managed zram1 and two more indices hot_add may give. *)
(***************************************************************************)
EXTENDS ZramTransaction

MCNames == {"zram0", "zram1", "zram2", "zram3"}
MCBaseline == {"zram0"}

\* A plan that replaces the device, one that keeps its configuration, and
\* one deviation from the first for each way a plan is refused or cut short.
Replace ==
    [dry_run |-> FALSE, provider_ok |-> TRUE, safety_event |-> FALSE,
     headroom |-> TRUE, unsafe_pressure |-> FALSE, gaming |-> FALSE,
     allow_reconfigure |-> TRUE, reset_writable |-> TRUE,
     reinit |-> TRUE, algorithm |-> TRUE, size |-> TRUE]

MCContexts ==
    {Replace, [Replace EXCEPT !.reinit = FALSE],
     [Replace EXCEPT !.gaming = TRUE], [Replace EXCEPT !.dry_run = TRUE],
     [Replace EXCEPT !.reset_writable = FALSE],
     [Replace EXCEPT !.algorithm = FALSE], [Replace EXCEPT !.size = FALSE]}
=============================================================================
