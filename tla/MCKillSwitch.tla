---------------------------- MODULE MCKillSwitch ----------------------------
(* Instances of KillSwitch for TLC.                                        *)
EXTENDS KillSwitch

CONSTANTS t1, t2, main, ip1, ip2
=============================================================================
