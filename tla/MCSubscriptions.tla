--------------------------- MODULE MCSubscriptions ---------------------------
(* Instances of Subscriptions for TLC.                                     *)
EXTENDS Subscriptions, TLC

CONSTANTS p, clip, none, h1, h2, listener, sched, asked

NoneOrOne == {{}, {p}}

(* Handlers of the window are interchangeable.                             *)
Interchangeable == Permutations(Tasks)
=============================================================================
