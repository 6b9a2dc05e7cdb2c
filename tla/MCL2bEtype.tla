----------------------------- MODULE MCL2bEtype -----------------------------
EXTENDS L2bEtype
CONSTANTS ipv4, ipv6, ppp, vlan, w1, w2
MCEtypes == << [value |-> ipv4, pppoe |-> FALSE],
               [value |-> ipv6, pppoe |-> FALSE],
               [value |-> ppp,  pppoe |-> TRUE] >>
MCDefaultValues == {0, vlan, ipv4}

(* The second writer comes in where the boot values leave two slots: the   *)
(* upper register is full of another ether type, enabled.  With one writer *)
(* every content of the registers at boot is explored.                     *)
SecondWriterSlots == \A s \in {2, 3} : boot.val[s] = vlan /\ s \in boot.en
MCNext == \E w \in Writer : (w = w2 => SecondWriterSlots) /\ WriterStep(w)
MCSpec == Init /\ [][MCNext]_vars /\ Fairness
=============================================================================
