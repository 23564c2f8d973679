------------------------------ MODULE Blocking ------------------------------
(***************************************************************************)
(* What the kill switch promises about the outgoing traffic of the         *)
(* machine: it is free, or everything but one complete set of addresses is *)
(* blocked, and that set never changes under a block that stands.          *)
(***************************************************************************)
CONSTANT Addresses

VARIABLE exempt   \* {}: traffic is free; otherwise all that may still be reached

Init == exempt = {}

Impose(ips) == exempt = {} /\ exempt' = ips

Lift == exempt' = {}

Next == (\E ips \in (SUBSET Addresses) \ {{}} : Impose(ips)) \/ Lift

Spec == Init /\ [][Next]_exempt
=============================================================================
