------------------------------ MODULE MCDrivers ------------------------------
(***************************************************************************)
(* Seven small components that share no state with each other, checked     *)
(* side by side: a behaviour is one of one component, and the others rest  *)
(* as they were initialised.  The properties are those of the components'  *)
(* own modules.                                                            *)
(***************************************************************************)
EXTENDS LroRing, SystemLed, TxRing, Multicast, RateLimit, QdmaQos, Rates, TLC

(* LroRing and TxRing *)
CONSTANTS e1, e2, e3, s1, s2

(* QdmaQos: one caller, for nothing is claimed of calls that overlap.  The *)
(* other QDMA is set with what was read from it.                           *)
CONSTANTS lan, wan, setter
MCRequest ==
    setter :> [base : {lan}, channel : {1}, type : {1}, weight : {[q \in 0 .. 1 |-> q]}]
              \cup [base : {lan}, channel : {2}, type : {2}, weight : {[q \in 0 .. 1 |-> q]}]

(* RateLimit: an ordinary limit, one without a token and one that the      *)
(* field cannot hold.                                                      *)
MCGemLimit == [d \in Dir |-> IF d = 0 THEN {0, 4000} ELSE {0, 3}]
MCRingLimit == [d \in Dir |-> IF d = 0 THEN {} ELSE {4000, 100000000}]

(* Rates: the powers of two and their neighbours, and what the driver asks *)
(* for by default.  No calculation depends on the one before: one is       *)
(* enough.                                                                 *)
Around(k) == {2 ^ k - 1, 2 ^ k, 2 ^ k + 1}
MCSize == UNION {Around(k) : k \in 0 .. 27}
MCKbps == UNION {Around(k) : k \in 6 .. 22} \cup
          {0, 1, 2, 3, 100, 200, 4000, 4001, 8000, 16001, 20000, 20001, 125000, 300000,
           1000000, 10000000}

(* Multicast *)
MCGswPort == <<"eth0.1", "eth0.2">>
MCXsi == <<"eth", "pcie0">>
MCSpeed == [port_ \in {"eth0.1", "eth0.2"} |-> IF port_ = "eth0.1" THEN 1000 ELSE 100]
MCMask == {{}, {"eth0.1", "eth0.2", "wlan"}, {"eth0.2", "eth", "wlan"}, {"pcie0", "wlan"},
           {"eth", "pcie0"}, {"wlan"}}

VARIABLE part  \* the component the behaviour is one of
Part == {"lro", "qos", "rate", "calc", "mc", "tx", "led"}
driverVars == <<part, vars, qosVars, rateVars, calc, mcVars, txVars, ledVars>>

DriverInit ==
    /\ part \in Part
    /\ Init /\ QosInit /\ RateInit /\ CalcInit /\ McInit /\ TxInit /\ LedInit
    /\ part # "led" => cmdReg = control /\ levelReg = control

DriverNext ==
    /\ UNCHANGED part
    /\ \/ /\ part = "lro" /\ Next
          /\ UNCHANGED <<qosVars, rateVars, calc, mcVars, txVars, ledVars>>
       \/ /\ part = "qos" /\ QosNext
          /\ UNCHANGED <<vars, rateVars, calc, mcVars, txVars, ledVars>>
       \/ /\ part = "rate" /\ RateNext
          /\ UNCHANGED <<vars, qosVars, calc, mcVars, txVars, ledVars>>
       \/ /\ part = "calc" /\ (Searching \/ calc = NoCalc) /\ CalcNext
          /\ UNCHANGED <<vars, qosVars, rateVars, mcVars, txVars, ledVars>>
       \/ /\ part = "mc" /\ McNext
          /\ UNCHANGED <<vars, qosVars, rateVars, calc, txVars, ledVars>>
       \/ /\ part = "tx" /\ TxNext
          /\ UNCHANGED <<vars, qosVars, rateVars, calc, mcVars, ledVars>>
       \/ /\ part = "led" /\ LedNext
          /\ UNCHANGED <<vars, qosVars, rateVars, calc, mcVars, txVars>>

DriverSpec == DriverInit /\ [][DriverNext]_driverVars

Symm == Permutations(Entry)

-----------------------------------------------------------------------------
(* Every part keeps its variables in the values the code can give them. *)
PartsTypeOK ==
    /\ part \in Part
    /\ part = "lro" => TypeOK
    /\ part = "qos" => QosTypeOK
    /\ part = "rate" => RateTypeOK
    /\ part = "calc" => CalcTypeOK
    /\ part = "mc" => McTypeOK
    /\ part = "tx" => TxTypeOK
    /\ part = "led" => LedTypeOK
=============================================================================
