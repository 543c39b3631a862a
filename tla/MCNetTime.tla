----------------------------- MODULE MCNetTime ------------------------------
(* Values for the constants of NetTime: a time in the last second before   *)
(* time_to_milliseconds wraps, with a fraction that is no whole number of  *)
(* milliseconds.  The other nodes are interchangeable.                     *)
EXTENDS NetTime, TLC

LastSecond == {[seconds |-> 7, parts |-> 2]}

Others == Permutations(Peers)
=============================================================================
