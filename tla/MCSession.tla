----------------------------- MODULE MCSession -----------------------------
(* Instances of Session for TLC.                                           *)
EXTENDS Session, TLC

CONSTANTS a, b, none, ui, tray1, w1, w2, w3, nobody

Protected == [tun: {FALSE}, killSwitch: {TRUE}]
ProxyMode == {TRUE}
EitherMode == BOOLEAN
AllChoices == [tun: BOOLEAN, killSwitch: BOOLEAN]

(* Callers are interchangeable, and so are watchdogs.                      *)
Interchangeable == Permutations(Callers) \cup Permutations(Watchdogs)

(* One behaviour class: no two calls at the same time.                     *)
Serial == ~overlapped
=============================================================================
