---------------------------- MODULE MCFlowOffload ----------------------------
EXTENDS FlowOffload, TLC
CONSTANTS eth, wlan, pon
(* Only wlan leaves through Wi-Fi; pon is of the other address family. *)
MCWifi == {wlan}
MCGrp == [f \in Flow |-> IF f = pon THEN 6 ELSE 4]
MCAddr == [f \in Flow |-> IF f = eth THEN 1 ELSE 2]
MCBuckets == [f \in Flow |-> FoeIdx]
PktSymmetry == Permutations(Pkt)
=============================================================================
