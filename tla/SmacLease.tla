------------------------------ MODULE SmacLease ------------------------------
(***************************************************************************)
(* What the source-MAC shrink table promises its callers, without saying   *)
(* how a slot is found: a slot is leased to one MAC, a MAC has one lease,  *)
(* a lease lasts Term ticks from its last grant, and a fixed slot never    *)
(* lapses.  ShrinkTable implements this specification.                     *)
(***************************************************************************)
EXTENDS Integers

CONSTANTS Slot, Mac, Nobody, Term, FixedSlot

VARIABLES owner, held, fixed
vars == <<owner, held, fixed>>

Init ==
    /\ owner = [i \in Slot |-> Nobody]
    /\ held = [i \in Slot |-> Term + 1]
    /\ fixed = [i \in Slot |-> FALSE]

Lapsed == {i \in Slot : ~fixed[i] /\ held[i] > Term}

(* The slots of D lose their owner. *)
Without(D) == [i \in Slot |-> IF i \in D THEN Nobody ELSE owner[i]]

Drop ==
    /\ UNCHANGED <<held, fixed>>
    /\ \E D \in SUBSET Lapsed : owner' = Without(D)

(* Slot i is granted to m: m owned it, or nobody with a running lease did  *)
(* and m owned no other.  Lapsed slots may be dropped on the way.          *)
Grant(i, m) ==
    /\ held' = [held EXCEPT ![i] = 0]
    /\ UNCHANGED fixed
    /\ \/ owner[i] = m
       \/ /\ owner[i] = Nobody \/ i \in Lapsed
          /\ \A j \in Slot : owner[j] # m
    /\ \E D \in SUBSET Lapsed : owner' = [Without(D) EXCEPT ![i] = m]

Fix(m) ==
    /\ owner' = [owner EXCEPT ![FixedSlot] = m]
    /\ fixed' = [fixed EXCEPT ![FixedSlot] = TRUE]
    /\ UNCHANGED held

Tick ==
    /\ held' = [i \in Slot |-> IF held[i] > Term THEN held[i] ELSE held[i] + 1]
    /\ UNCHANGED <<owner, fixed>>

Next ==
    \/ Drop
    \/ \E i \in Slot, m \in Mac : Grant(i, m)
    \/ \E m \in Mac : Fix(m)
    \/ Tick

Spec == Init /\ [][Next]_vars
=============================================================================
