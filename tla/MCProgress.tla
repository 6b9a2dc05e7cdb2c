----------------------------- MODULE MCProgress -----------------------------
(***************************************************************************)
(* What is begun ends: the cleaning of FOE entries and the calls to the    *)
(* PHY firmware, which share no state, side by side.  A behaviour is one   *)
(* of one of them.                                                         *)
(***************************************************************************)
EXTENDS MCAeonIpc

(* FoeClean: one flow of a device and one whose bind records none. *)
CONSTANTS lan, local, d1, k1, NoDev, NoCopy
VARIABLES sram, hwe, lan_ifindex, wq, cpc, creq, cat, ccopy, ccount, pending
foeVars == <<sram, hwe, lan_ifindex, wq, cpc, creq, cat, ccopy, ccount, pending>>
Foe == INSTANCE FoeClean WITH
    NumEntries <- 2, Flow <- {lan, local}, Dev <- {d1}, Key <- {k1},
    DevOf <- [f \in {lan, local} |-> IF f = lan THEN d1 ELSE NoDev],
    KeyOf <- [f \in {lan, local} |-> k1],
    Buckets <- [f \in {lan, local} |-> IF f = local THEN {1, 2} ELSE {1}],
    MaxCtDelete <- 1, MaxQueue <- 1,
    Asked <- {[by |-> "key", arg |-> k1], [by |-> "table", arg |-> NoDev]},
    pc <- cpc, req <- creq, at <- cat, copy <- ccopy, count <- ccount

VARIABLE part
ProgressInit ==
    /\ part \in {"foe", "aeon"}
    /\ Init /\ Foe!Init
    /\ part = "foe" => phy = p1 /\ stsPar = [p \in Phy |-> 0]
    /\ part = "aeon" => \A i \in DOMAIN sram : sram[i].flow = lan

ProgressNext ==
    /\ UNCHANGED part
    /\ \/ part = "aeon" /\ Next /\ UNCHANGED foeVars
       \/ part = "foe" /\ Foe!Next /\ UNCHANGED vars

ProgressSpec == ProgressInit /\ [][ProgressNext]_<<part, vars, foeVars>> /\ Fairness /\ Foe!Fairness

-----------------------------------------------------------------------------
(* FoeClean: a queued clean gets to every flow that was bound when it was  *)
(* queued.  AeonIpc's CallReturns has its own name: every call returns.    *)
QueuedCleanRuns == Foe!QueuedCleanRuns
=============================================================================
