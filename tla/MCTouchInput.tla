----------------------------- MODULE MCTouchInput -----------------------------
(* Model checking of TouchInput: a two-gang switch, the thresholds scaled  *)
(* down in the same order (debounce < settle, debounce < long press < hold)*)
EXTENDS TouchInput

MCGaps == {1, 2}
==============================================================================
