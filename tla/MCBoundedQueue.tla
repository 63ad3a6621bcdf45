---------------------------- MODULE MCBoundedQueue ----------------------------
(* Model checking of BoundedQueue: one small ring, both overflow policies. *)
EXTENDS BoundedQueue

CONSTANTS a, b

MCItem == {a, b}
==============================================================================
