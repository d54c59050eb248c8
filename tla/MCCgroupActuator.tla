-------------------------- MODULE MCCgroupActuator --------------------------
(***************************************************************************)
(* Small instances of CgroupActuator: two processes that share the         *)
(* foreground group, one of which is later classified as background, and   *)
(* one candidate that may never be touched.                                *)
(***************************************************************************)
EXTENDS CgroupActuator

Candidate(p, isProtected) ==
    [pid |-> p, allow_listed |-> TRUE, unknown |-> FALSE,
     protected |-> isProtected, background |-> ~isProtected]

MCPids == {"p1", "p2"}

MCCandidates ==
    {Candidate("p1", TRUE), Candidate("p2", TRUE), Candidate("p2", FALSE),
     [Candidate("p1", TRUE) EXCEPT !.allow_listed = FALSE]}
============================================================================
