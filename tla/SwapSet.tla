------------------------------ MODULE SwapSet ------------------------------
(***************************************************************************)
(* What a zram transaction promises about the host's swap: the set of      *)
(* active swap devices changes by one device at a time, and once a         *)
(* transaction starts with valid swap, no step removes the last device.    *)
(***************************************************************************)
CONSTANT Names

VARIABLES
    active,   \* the devices in use as swap
    promised  \* the running or latest transaction started with valid swap

vars == <<active, promised>>

Init == active \subseteq Names /\ promised = (active # {})

Start == promised' = (active # {}) /\ UNCHANGED active

SwapOn(d) ==
    /\ d \notin active
    /\ active' = active \union {d}
    /\ UNCHANGED promised

SwapOff(d) ==
    /\ d \in active
    /\ promised => active # {d}
    /\ active' = active \ {d}
    /\ UNCHANGED promised

Next == Start \/ \E d \in Names : SwapOn(d) \/ SwapOff(d)

Spec == Init /\ [][Next]_vars
=============================================================================
