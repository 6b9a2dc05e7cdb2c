----------------------------- MODULE MCFoeClean -----------------------------
EXTENDS FoeClean
CONSTANTS lan, wifi, d1, d2, k1
(* One flow of each device. *)
MCFlow == {lan, wifi}
MCDevOf == [f \in Flow |-> IF f = lan THEN d1 ELSE d2]
MCKeyOf == [f \in Flow |-> k1]
MCBuckets == [f \in Flow |-> IF f = lan THEN {1, 2} ELSE {1}]
MCAsked == {[by |-> "fport", arg |-> k1], [by |-> "landev", arg |-> d1], [by |-> "mac", arg |-> k1]}
=============================================================================
