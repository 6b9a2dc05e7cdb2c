----------------------------- MODULE FlowOffload -----------------------------
(***************************************************************************)
(* How a flow gets bound in the packet engine.  Netfilter puts a flow in   *)
(* the flow table (ppe->foe_flow); a received packet of it that comes to   *)
(* the CPU commits the flow's entry (airoha_ppe_foe_insert_entry), but     *)
(* only after a transmitted packet has filled in the egress fields and set *)
(* tx_modified (airoha_ppe_foe_flow_update_eth_offload and _pon_offload).  *)
(* A flow that is not in the flow table is bound by the transmitted packet *)
(* itself (airoha_ppe_general_bind), and a dropped one may bind its flow   *)
(* to the drop port.                                                       *)
(*                                                                         *)
(* A packet carries the index of the FOE entry it hit from reception on,   *)
(* and each handler takes ppe_lock for itself: between them the hardware   *)
(* may have given the entry to another flow.                               *)
(*                                                                         *)
(* Multicast, tunnel and local-in packets take other paths, as do L2 flows *)
(* and their subflows; the cleaners are in FoeClean.                       *)
(***************************************************************************)
EXTENDS Naturals

CONSTANTS
    NumEntries,     \* FOE entries in SRAM
    Flow,           \* tuples, one for each direction of a connection
    NoFlow,
    Buckets,        \* entries the hardware may learn the flow into
    Pkt,            \* packets in flight
    Grp,            \* the address family of a flow
    Addr,           \* its source and destination address, without the ports
    Wifi,           \* flows that leave through Wi-Fi
    SfuMode         \* airoha_is_pon_sfu_mode

ASSUME EntryAssumption == NumEntries \in Nat \ {0}
ASSUME FlowAssumption ==
    /\ NoFlow \notin Flow
    /\ DOMAIN Grp = Flow /\ DOMAIN Addr = Flow
    /\ Wifi \subseteq Flow
    /\ Buckets \in [Flow -> SUBSET (1 .. NumEntries)]
ASSUME SfuAssumption == SfuMode \in BOOLEAN

FoeIdx == 1 .. NumEntries
NoHash == 0        \* e->hash is 0xffff
FoeState == {"INVALID", "UNBIND", "BIND"}
Via == {"none", "table", "general", "drop"}

(* by is the flow whose packet gave a bound entry its egress fields (a drop *)
(* entry has none), via the path it was bound on.                           *)
Entry == [state : FoeState, flow : Flow \cup {NoFlow}, by : Flow \cup {NoFlow}, via : Via]

(* airoha_flow_table_entry, one per flow: tx_modified is by # NoFlow. *)
TableEntry == [present : BOOLEAN, by : Flow \cup {NoFlow}, hash : FoeIdx \cup {NoHash}]
Absent == [present |-> FALSE, by |-> NoFlow, hash |-> NoHash]

(* at: being received, being transmitted, on its way to general_bind. *)
Packet == [at : {"rx", "tx", "bind"}, flow : Flow, idx : FoeIdx, rate : BOOLEAN]
NoPacket == [at |-> "none", flow |-> NoFlow, idx |-> 1, rate |-> FALSE]

VARIABLES
    sram,    \* the FOE entries in SRAM
    hwe,     \* the state they have in the buffer ppe->foe; the rest of the
             \* buffer is only read where it was refreshed under the same lock
    ft,      \* ppe->foe_flow
    pkt
vars == <<sram, hwe, ft, pkt>>

TypeOK ==
    /\ sram \in [FoeIdx -> Entry]
    /\ hwe \in [FoeIdx -> FoeState]
    /\ ft \in [Flow -> TableEntry]
    /\ pkt \in [Pkt -> Packet \cup {NoPacket}]

(* The fields of an entry that is not bound are dead. *)
Unbound(s, f) == [state |-> s, flow |-> f, by |-> NoFlow, via |-> "none"]
BoundEntry(f, g, v) == [state |-> "BIND", flow |-> f, by |-> g, via |-> v]

(* arht_ppe_init cleared every entry. *)
Init ==
    /\ sram = [i \in FoeIdx |-> Unbound("INVALID", NoFlow)]
    /\ hwe = [i \in FoeIdx |-> "INVALID"]
    /\ ft = [f \in Flow |-> Absent]
    /\ pkt = [p \in Pkt |-> NoPacket]

(* airoha_ppe_foe_get_entry_locked *)
Refresh(i) == hwe' = [hwe EXCEPT ![i] = sram[i].state]

(* Bug: the write to SRAM leaves the buffer as it was. *)
Commit_SramOnly(i, ent) == sram' = [sram EXCEPT ![i] = ent] /\ UNCHANGED hwe

(* airoha_ppe_foe_commit_entry: the buffer, then SRAM. *)
Commit(i, ent) ==
    /\ sram' = [sram EXCEPT ![i] = ent]
    /\ hwe' = [hwe EXCEPT ![i] = ent.state]

Moves(p, s) == pkt' = [pkt EXCEPT ![p].at = s]
Done(p) == pkt' = [pkt EXCEPT ![p] = NoPacket]

-----------------------------------------------------------------------------
(* The hardware learns a flow that hits no entry, and retires entries. *)
HwLearn(i, f) ==
    /\ i \in Buckets[f] /\ sram[i].state = "INVALID"
    /\ \A j \in FoeIdx : sram[j].flow = f => sram[j].state = "INVALID"
    /\ sram' = [sram EXCEPT ![i] = Unbound("UNBIND", f)]
    /\ UNCHANGED <<hwe, ft, pkt>>

HwRetire(i) ==
    /\ sram[i].state # "INVALID"
    /\ sram' = [sram EXCEPT ![i] = Unbound("INVALID", @.flow)]
    /\ UNCHANGED <<hwe, ft, pkt>>

(* A packet hits the unbound entry of its flow, and the hardware sends it  *)
(* to the CPU; rate is PPE_CPU_REASON_HIT_UNBIND_RATE_REACHED.             *)
Arrive(p, i, r) ==
    /\ pkt[p] = NoPacket /\ sram[i].state = "UNBIND"
    /\ pkt' = [pkt EXCEPT ![p] = [at |-> IF r THEN "rx" ELSE "tx", flow |-> sram[i].flow, idx |-> i, rate |-> r]]
    /\ UNCHANGED <<sram, hwe, ft>>

-----------------------------------------------------------------------------
(* Bug: the state of the entry is not looked at again under the lock. *)
Bindable_Any(i) == TRUE
Bindable(i) == sram[i].state # "BIND"

(* Bug: no tx_modified gate. *)
Gate_Open(f) == ft[f].present

(* airoha_ppe_foe_compare_entry finds the flow, arht_tx_modified allows it. *)
Gate(f) == ft[f].present /\ ft[f].by # NoFlow

(* airoha_get_entry_bind calls airoha_ppe_check_skb, which does nothing    *)
(* twice within HZ / 10 or when the entry cannot be read, and commits the  *)
(* entry of whichever flow the index holds by now.                         *)
Insert(p) ==
    LET i == pkt[p].idx
        f == sram[i].flow
    IN  /\ pkt[p].at = "rx"
        /\ Moves(p, "tx")
        /\ \/ UNCHANGED <<sram, hwe, ft>>
           \/ IF Bindable(i) /\ f # NoFlow /\ Gate(f)
              THEN /\ Commit(i, BoundEntry(f, ft[f].by, "table"))
                   /\ ft' = [ft EXCEPT ![f].hash = i]
              ELSE Refresh(i) /\ UNCHANGED <<sram, ft>>

(* Bug: every transmitted packet fills in the fields again. *)
Filled_Always(e, g) == [e EXCEPT !.by = g]
Filled(e, g) == IF e.by = NoFlow THEN [e EXCEPT !.by = g] ELSE e

(* ..._update_eth_offload and _pon_offload: the flow is looked up by the   *)
(* entry, not by the packet.  airoha_ppe_tx_handler is called after the    *)
(* unlock, and goes on only for a packet at the rate limit.                *)
TxUpdate(p) ==
    LET i == pkt[p].idx
        f == sram[i].flow
        tx_handler == UNCHANGED ft /\ IF pkt[p].rate THEN Moves(p, "bind") ELSE Done(p)
    IN  /\ pkt[p].at = "tx"
        /\ UNCHANGED sram
        /\ \/ tx_handler /\ UNCHANGED hwe
           \/ /\ Refresh(i)
              /\ IF f # NoFlow /\ ft[f].present
                 THEN ft' = [ft EXCEPT ![f] = Filled(@, pkt[p].flow)] /\ Done(p)
                 ELSE tx_handler

(* Bug: no check for a collision. *)
Collides_Never(f, g) == FALSE

(* packet_hash_collision_check *)
Collides(f, g) == Grp[f] = Grp[g] /\ Addr[f] # Addr[g]

(* airoha_ppe_tx_handler and airoha_ppe_general_bind, under one lock; the  *)
(* entry may be unreadable, or the packet flooded.                         *)
GeneralBind(p) ==
    LET i == pkt[p].idx
        f == sram[i].flow
    IN  /\ pkt[p].at = "bind"
        /\ Done(p)
        /\ UNCHANGED ft
        /\ \/ UNCHANGED <<sram, hwe>>
           \/ Refresh(i) /\ UNCHANGED sram
           \/ /\ Bindable(i) /\ ~Collides(f, pkt[p].flow)
              /\ Commit(i, BoundEntry(f, pkt[p].flow, "general"))

(* airoha_ppe_drop_packet_handler, for a packet that is not transmitted:   *)
(* neither the state of the entry nor its flow is looked at.               *)
DropPacket(p) ==
    LET i == pkt[p].idx
    IN  /\ SfuMode /\ pkt[p].at = "tx"
        /\ Done(p)
        /\ Commit(i, BoundEntry(sram[i].flow, NoFlow, "drop"))
        /\ UNCHANGED ft

(* A packet the host keeps. *)
Deliver(p) ==
    /\ pkt[p].at = "tx"
    /\ Done(p)
    /\ UNCHANGED <<sram, hwe, ft>>

-----------------------------------------------------------------------------
(* airoha_ppe_flow_offload_replace: airoha_set_flow_destination, as patch  *)
(* 992-80 has it, sets tx_modified at once for a flow that leaves through  *)
(* Wi-Fi.                                                                  *)
Replace(f) ==
    /\ ~ft[f].present
    /\ ft' = [ft EXCEPT ![f] = [present |-> TRUE, by |-> IF f \in Wifi THEN f ELSE NoFlow, hash |-> NoHash]]
    /\ UNCHANGED <<sram, hwe, pkt>>

(* What commit_entry makes of an entry it is to invalidate. *)
Removed(i) == IF hwe[i] = "UNBIND" THEN "BIND" ELSE "INVALID"

(* airoha_ppe_flow_offload_destroy: airoha_ppe_foe_remove_flow commits the *)
(* entry at the index it was last bound at, without a look at SRAM.        *)
Destroy(f) ==
    LET i == ft[f].hash
    IN  /\ ft[f].present
        /\ ft' = [ft EXCEPT ![f] = Absent]
        /\ IF i = NoHash
           THEN UNCHANGED <<sram, hwe>>
           ELSE Commit(i, IF Removed(i) = "BIND" THEN BoundEntry(f, ft[f].by, "table")
                          ELSE Unbound("INVALID", f))
        /\ UNCHANGED pkt

Next ==
    \/ \E i \in FoeIdx, f \in Flow : HwLearn(i, f)
    \/ \E i \in FoeIdx : HwRetire(i)
    \/ \E p \in Pkt, i \in FoeIdx, r \in BOOLEAN : Arrive(p, i, r)
    \/ \E p \in Pkt : Insert(p)
    \/ \E p \in Pkt : TxUpdate(p)
    \/ \E p \in Pkt : GeneralBind(p)
    \/ \E p \in Pkt : DropPacket(p)
    \/ \E p \in Pkt : Deliver(p)
    \/ \E f \in Flow : Replace(f)
    \/ \E f \in Flow : Destroy(f)

Spec == Init /\ [][Next]_vars

-----------------------------------------------------------------------------
(* Properties. *)

(* A flow bound by a transmitted packet has that packet's addresses, though *)
(* the hardware may have given the entry away since the packet came in      *)
(* (packet_hash_collision_check; it compares nothing across families).      *)
GeneralOwnAddresses ==
    \A i \in FoeIdx : sram[i].state = "BIND" /\ sram[i].via = "general" =>
        LET f == sram[i].flow
            g == sram[i].by
        IN  Grp[f] = Grp[g] => Addr[f] = Addr[g]

(* No flow of the flow table is bound before its egress fields are known,   *)
(* not even by the commit that is to remove it.                             *)
EgressKnown ==
    \A i \in FoeIdx : sram[i].state = "BIND" /\ sram[i].via # "drop" => sram[i].by # NoFlow

(* While a flow is bound where its table entry says, the two agree on the   *)
(* egress fields: later packets do not rewrite the table (tx_modified).     *)
EgressAgrees ==
    \A f \in Flow :
        LET i == ft[f].hash
        IN  /\ i # NoHash /\ sram[i].state = "BIND"
            /\ sram[i].flow = f /\ sram[i].via = "table"
            => sram[i].by = ft[f].by

(* A bound entry is bound anew only to drop: insert_entry and general_bind, *)
(* of this packet or of another in flight, leave it alone, and so does the  *)
(* removal of a flow that was there before.                                 *)
BindingNotStolen ==
    [][\A i \in FoeIdx :
         sram[i].state = "BIND" /\ sram'[i].state = "BIND" /\ sram'[i] # sram[i] =>
            sram'[i].via = "drop"]_vars

(* Removing a flow that is bound where its table entry says unbinds it: the *)
(* stale buffer that commit_entry consults never has a bound entry as       *)
(* UNBIND.                                                                  *)
DestroyUnbinds ==
    [][\A f \in Flow :
         LET i == ft[f].hash
         IN  Destroy(f) /\ i # NoHash /\ sram[i].state = "BIND" => sram'[i].state # "BIND"]_vars

-----------------------------------------------------------------------------
(* 992-40:175, "only commit once the TX path has populated the egress-side  *)
(* fields for this flow direction": the packet that populated them was of   *)
(* this flow.                                                               *)
OwnEgress ==
    \A i \in FoeIdx : sram[i].state = "BIND" /\ sram[i].via = "table" => sram[i].by = sram[i].flow
=============================================================================
