----------------------------- MODULE MCWatchdog -----------------------------
(* Instances of Watchdog for TLC.                                          *)
EXTENDS Watchdog

CONSTANTS a, b, c

Two   == <<a, b>>
Three == <<a, b, c>>
=============================================================================
