------------------------- MODULE FlowOffload_proofs -------------------------
(***************************************************************************)
(* Theorems about the binding of flows, for any number of entries, flows   *)
(* and packets in flight, and in both modes.                               *)
(***************************************************************************)
EXTENDS FlowOffload, TLAPS

-----------------------------------------------------------------------------
(* The inductive invariant.  The engine never binds, so an entry that is   *)
(* bound in SRAM was put there through the buffer, which still shows it as *)
(* bound; and a flow got its index only after its egress fields.           *)
Mirrored == \A i \in FoeIdx : sram[i].state = "BIND" => hwe[i] = "BIND"
HashHasEgress == \A f \in Flow : ft[f].hash # NoHash => ft[f].present /\ ft[f].by # NoFlow

(* An entry that was ever learned shows a flow from then on, so the entry a *)
(* packet in flight carries does.                                          *)
Learned ==
    /\ \A i \in FoeIdx : sram[i].state # "INVALID" => sram[i].flow \in Flow
    /\ \A p \in Pkt : pkt[p] # NoPacket => sram[pkt[p].idx].flow \in Flow
TypeInv == TypeOK /\ Learned

(* What the entries say without the flow table, and with it. *)
Entries == Mirrored /\ GeneralOwnAddresses /\ EgressKnown
IInv == TypeInv /\ Entries /\ HashHasEgress /\ EgressAgrees

-----------------------------------------------------------------------------
(* What is committed is an entry of a flow, and the packet that is handled *)
(* goes on or is done.                                                     *)
LEMMA Commits ==
    ASSUME TypeInv, NEW i \in FoeIdx, NEW ent \in Entry, ent.flow \in Flow, Commit(i, ent)
    PROVE  /\ sram' \in [FoeIdx -> Entry] /\ hwe' \in [FoeIdx -> FoeState]
           /\ \A j \in FoeIdx : sram'[j].state # "INVALID" => sram'[j].flow \in Flow
           /\ \A j \in FoeIdx : sram[j].flow \in Flow => sram'[j].flow \in Flow
BY DEF TypeInv, TypeOK, Learned, Commit, Entry

LEMMA Handled ==
    ASSUME TypeInv, NEW p \in Pkt, pkt[p] # NoPacket,
           NEW s \in {"rx", "tx", "bind"}, Moves(p, s) \/ Done(p)
    PROVE  /\ pkt[p].flow \in Flow /\ pkt[p].idx \in FoeIdx
           /\ sram[pkt[p].idx].flow \in Flow
           /\ pkt' \in [Pkt -> Packet \cup {NoPacket}]
           /\ \A q \in Pkt : pkt'[q] # NoPacket =>
                 pkt[q] # NoPacket /\ pkt'[q].idx = pkt[q].idx
<1> DEFINE moved == [pkt[p] EXCEPT !.at = s]
<1>1. pkt[p] \in Packet
  BY DEF TypeInv, TypeOK
<1>2. pkt[p].flow \in Flow /\ pkt[p].idx \in FoeIdx /\ sram[pkt[p].idx].flow \in Flow
  BY <1>1 DEF Packet, TypeInv, Learned
<1>3. moved \in Packet /\ moved.idx = pkt[p].idx
  BY <1>1 DEF Packet
<1>4. pkt' = [pkt EXCEPT ![p] = moved] \/ pkt' = [pkt EXCEPT ![p] = NoPacket]
  BY DEF Moves, Done
<1> HIDE DEF moved
<1> QED
  BY <1>2, <1>3, <1>4 DEF TypeInv, TypeOK

(* What may be committed: a bound entry has its egress fields, and those of *)
(* its own addresses if a transmitted packet bound it.                     *)
Sound(ent) ==
    /\ ent.flow \in Flow
    /\ ent.state = "BIND" /\ ent.via # "drop" => ent.by # NoFlow
    /\ ent.state = "BIND" /\ ent.via = "general" =>
          (Grp[ent.flow] = Grp[ent.by] => Addr[ent.flow] = Addr[ent.by])

(* A handler changes SRAM and the buffer by a commit, a refresh or not at  *)
(* all; whichever it is, the types and the entries stay as they should.    *)
Touched(i) ==
    \/ UNCHANGED <<sram, hwe>>
    \/ Refresh(i) /\ UNCHANGED sram
    \/ \E ent \in Entry : Sound(ent) /\ Commit(i, ent)

LEMMA TouchedType ==
    ASSUME TypeInv, NEW i \in FoeIdx, Touched(i),
           ft' \in [Flow -> TableEntry],
           pkt' \in [Pkt -> Packet \cup {NoPacket}],
           \A q \in Pkt : pkt'[q] # NoPacket =>
                 pkt[q] # NoPacket /\ pkt'[q].idx = pkt[q].idx
    PROVE  TypeInv'
<1>1. CASE UNCHANGED sram
  <2>1. hwe' \in [FoeIdx -> FoeState]
    BY <1>1 DEF Touched, Refresh, Commit, TypeInv, TypeOK, Entry
  <2> QED
    BY <1>1, <2>1 DEF TypeInv, TypeOK, Learned
<1>2. ASSUME NEW ent \in Entry, ent.flow \in Flow, Commit(i, ent)
      PROVE  TypeInv'
  <2>1. /\ sram' \in [FoeIdx -> Entry] /\ hwe' \in [FoeIdx -> FoeState]
        /\ \A j \in FoeIdx : sram'[j].state # "INVALID" => sram'[j].flow \in Flow
        /\ \A j \in FoeIdx : sram[j].flow \in Flow => sram'[j].flow \in Flow
    BY <1>2, Commits
  <2>2. \A q \in Pkt : pkt'[q] # NoPacket => pkt'[q].idx \in FoeIdx /\ sram[pkt'[q].idx].flow \in Flow
    BY DEF TypeInv, TypeOK, Learned, Packet, NoPacket
  <2> QED
    BY <2>1, <2>2 DEF TypeInv, TypeOK, Learned
<1> QED
  BY <1>1, <1>2 DEF Touched, Sound

LEMMA TouchedEntries ==
    ASSUME TypeInv, Entries, NEW i \in FoeIdx, Touched(i)
    PROVE  Entries'
<1> USE DEF TypeInv, TypeOK
<1>1. CASE UNCHANGED <<sram, hwe>>
  BY <1>1 DEF Entries, Mirrored, GeneralOwnAddresses, EgressKnown
<1>2. CASE Refresh(i) /\ UNCHANGED sram
  BY <1>2 DEF Refresh, Entries, Mirrored, GeneralOwnAddresses, EgressKnown
<1>3. ASSUME NEW ent \in Entry, Sound(ent), Commit(i, ent)
      PROVE  Entries'
  <2>1. \A j \in FoeIdx : sram'[j] = IF j = i THEN ent ELSE sram[j]
    BY <1>3 DEF Commit
  <2>2. \A j \in FoeIdx : hwe'[j] = IF j = i THEN ent.state ELSE hwe[j]
    BY <1>3 DEF Commit
  <2>3. Mirrored'
    BY <2>1, <2>2 DEF Entries, Mirrored
  <2>4. GeneralOwnAddresses'
    BY <1>3, <2>1 DEF Entries, GeneralOwnAddresses, Sound
  <2>5. EgressKnown'
    BY <1>3, <2>1 DEF Entries, EgressKnown, Sound
  <2> QED
    BY <2>3, <2>4, <2>5 DEF Entries
<1> QED
  BY <1>1, <1>2, <1>3 DEF Touched

(* The table and the entries agree: an action that rewrites no flow with an *)
(* index, and binds no flow with one, keeps it so.                          *)
LEMMA AgreesKept ==
    ASSUME TypeInv, HashHasEgress, EgressAgrees,
           \A f \in Flow : ft'[f].hash = NoHash \/ ft'[f] = ft[f],
           \A j \in FoeIdx : sram'[j].state = "BIND" /\ sram'[j].via = "table" =>
                 sram'[j] = sram[j] \/ ft'[sram'[j].flow].hash = NoHash
    PROVE  HashHasEgress' /\ EgressAgrees'
<1>1. \A f \in Flow : ft[f].hash \in FoeIdx \cup {NoHash}
  BY DEF TypeInv, TypeOK, TableEntry
<1> QED
  BY <1>1 DEF HashHasEgress, EgressAgrees

-----------------------------------------------------------------------------
(* The hardware, and a packet that arrives. *)
LEMMA HardwareStep ==
    ASSUME IInv, NEW i \in FoeIdx,
           \/ \E f \in Flow : HwLearn(i, f)
           \/ HwRetire(i)
           \/ \E p \in Pkt, r \in BOOLEAN : Arrive(p, i, r)
    PROVE  IInv'
<1> USE DEF IInv, TypeInv, TypeOK
<1>1. ASSUME NEW f \in Flow, NEW s \in FoeState \ {"BIND"},
             sram' = [sram EXCEPT ![i] = Unbound(s, f)], UNCHANGED <<hwe, ft, pkt>>
      PROVE  IInv'
  <2>1. \A j \in FoeIdx : sram'[j] = IF j = i THEN Unbound(s, f) ELSE sram[j]
    BY <1>1
  <2>2. Unbound(s, f) \in Entry /\ Unbound(s, f).flow = f /\ Unbound(s, f).state # "BIND"
    BY <1>1 DEF Unbound, Entry, Via
  <2>3. TypeOK'
    BY <1>1, <2>2
  <2>4. Learned'
    BY <1>1, <2>1, <2>2 DEF Learned
  <2>5. Entries'
    BY <1>1, <2>1, <2>2 DEF Entries, Mirrored, GeneralOwnAddresses, EgressKnown
  <2>6. HashHasEgress' /\ EgressAgrees'
    BY <1>1, <2>1, <2>2, AgreesKept
  <2> QED
    BY <2>3, <2>4, <2>5, <2>6
<1>2. ASSUME NEW f \in Flow, HwLearn(i, f)
      PROVE  IInv'
  BY <1>1, <1>2 DEF HwLearn, FoeState
<1>3. ASSUME HwRetire(i)
      PROVE  IInv'
  <2>1. sram[i].flow \in Flow
    BY <1>3 DEF HwRetire, Learned
  <2> QED
    BY <1>1, <1>3, <2>1 DEF HwRetire, FoeState
<1>4. ASSUME NEW p \in Pkt, NEW r \in BOOLEAN, Arrive(p, i, r)
      PROVE  IInv'
  <2>1. sram[i].flow \in Flow
    BY <1>4 DEF Arrive, Learned
  <2> DEFINE came == [at |-> IF r THEN "rx" ELSE "tx", flow |-> sram[i].flow, idx |-> i, rate |-> r]
  <2>2. came \in Packet /\ came.idx = i
    BY <2>1 DEF Packet
  <2>3. pkt' = [pkt EXCEPT ![p] = came] /\ UNCHANGED <<sram, hwe, ft>>
    BY <1>4 DEF Arrive
  <2> HIDE DEF came
  <2>4. TypeOK' /\ Learned'
    BY <2>1, <2>2, <2>3 DEF Learned
  <2>5. Entries' /\ HashHasEgress' /\ EgressAgrees'
    BY <2>3 DEF Entries, Mirrored, GeneralOwnAddresses, EgressKnown, HashHasEgress, EgressAgrees
  <2> QED
    BY <2>4, <2>5
<1> QED
  BY <1>2, <1>3, <1>4

(* A received packet: airoha_ppe_foe_insert_entry. *)
LEMMA InsertStep ==
    ASSUME IInv, NEW p \in Pkt, Insert(p)
    PROVE  IInv'
<1> DEFINE i == pkt[p].idx
           f == sram[i].flow
           ent == BoundEntry(f, ft[f].by, "table")
<1>1. pkt[p] # NoPacket
  BY DEF Insert, NoPacket
<1>2. /\ i \in FoeIdx /\ f \in Flow
      /\ pkt' \in [Pkt -> Packet \cup {NoPacket}]
      /\ \A q \in Pkt : pkt'[q] # NoPacket => pkt[q] # NoPacket /\ pkt'[q].idx = pkt[q].idx
  BY <1>1, Handled DEF IInv, Insert
<1>3. CASE UNCHANGED <<sram, ft>> /\ (UNCHANGED hwe \/ Refresh(i))
  <2>1. Touched(i) /\ ft' \in [Flow -> TableEntry]
    BY <1>3 DEF Touched, IInv, TypeInv, TypeOK
  <2>2. HashHasEgress' /\ EgressAgrees'
    BY <1>3, AgreesKept DEF IInv
  <2> QED
    BY <1>2, <2>1, <2>2, TouchedType, TouchedEntries DEF IInv
<1>4. CASE Gate(f) /\ Commit(i, ent) /\ ft' = [ft EXCEPT ![f].hash = i]
  <2>1. ft[f] \in TableEntry /\ ft[f].by \in Flow
    BY <1>2, <1>4 DEF Gate, IInv, TypeInv, TypeOK, TableEntry
  <2>2. ent \in Entry /\ ent.flow = f /\ ent.by = ft[f].by /\ ent.via = "table" /\ ent.state = "BIND"
    BY <1>2, <2>1 DEF BoundEntry, Entry, FoeState, Via
  <2>3. Sound(ent)
    BY <1>2, <1>4, <2>2 DEF Sound, Gate
  <2>4. ft' \in [Flow -> TableEntry]
    BY <1>2, <1>4, <2>1 DEF IInv, TypeInv, TypeOK, TableEntry
  <2>5. /\ \A g \in Flow : g # f => ft'[g] = ft[g]
        /\ ft'[f].present /\ ft'[f].by = ft[f].by /\ ft'[f].by # NoFlow /\ ft'[f].hash = i
    BY <1>2, <1>4, <2>1 DEF Gate, IInv, TypeInv, TypeOK, TableEntry
  <2>6. \A j \in FoeIdx : sram'[j] = IF j = i THEN ent ELSE sram[j]
    BY <1>4 DEF Commit, IInv, TypeInv, TypeOK
  <2>7. HashHasEgress'
    BY <2>5 DEF HashHasEgress, IInv
  <2>8. \A g \in Flow : ft[g].hash \in FoeIdx \cup {NoHash}
    BY DEF IInv, TypeInv, TypeOK, TableEntry
  <2> HIDE DEF ent, i, f
  <2>9. EgressAgrees'
    BY <1>2, <2>2, <2>5, <2>6, <2>8 DEF EgressAgrees, IInv
  <2>10. Touched(i)
    BY <1>4, <2>2, <2>3 DEF Touched
  <2> QED
    BY <1>2, <2>4, <2>7, <2>9, <2>10, TouchedType, TouchedEntries DEF IInv
<1> QED
  BY <1>3, <1>4 DEF Insert

(* A transmitted packet fills in the table, and leaves a flow alone whose  *)
(* egress fields are known.                                                *)
LEMMA TxUpdateStep ==
    ASSUME IInv, NEW p \in Pkt, TxUpdate(p)
    PROVE  IInv'
<1> DEFINE i == pkt[p].idx
           f == sram[i].flow
           filled == Filled(ft[f], pkt[p].flow)
<1>1. pkt[p] # NoPacket
  BY DEF TxUpdate, NoPacket
<1>2. Moves(p, "bind") \/ Done(p)
  BY DEF TxUpdate
<1>3. /\ i \in FoeIdx /\ f \in Flow /\ pkt[p].flow \in Flow
      /\ pkt' \in [Pkt -> Packet \cup {NoPacket}]
      /\ \A q \in Pkt : pkt'[q] # NoPacket => pkt[q] # NoPacket /\ pkt'[q].idx = pkt[q].idx
  BY <1>1, <1>2, Handled DEF IInv
<1>4. Touched(i) /\ UNCHANGED sram
  BY DEF TxUpdate, Touched
<1>5. UNCHANGED ft \/ ft' = [ft EXCEPT ![f] = filled]
  BY DEF TxUpdate
<1>6. filled \in TableEntry /\ (filled.hash = NoHash \/ filled = ft[f])
  <2>1. ft[f] \in TableEntry
    BY <1>3 DEF IInv, TypeInv, TypeOK
  <2>2. ft[f].by = NoFlow => ft[f].hash = NoHash
    BY <1>3 DEF IInv, HashHasEgress
  <2> QED
    BY <1>3, <2>1, <2>2 DEF Filled, TableEntry
<1> HIDE DEF filled, f, i
<1>7. /\ ft' \in [Flow -> TableEntry]
      /\ \A g \in Flow : ft'[g].hash = NoHash \/ ft'[g] = ft[g]
  BY <1>3, <1>5, <1>6 DEF IInv, TypeInv, TypeOK
<1>8. HashHasEgress' /\ EgressAgrees'
  BY <1>4, <1>7, AgreesKept DEF IInv
<1> QED
  BY <1>3, <1>4, <1>7, <1>8, TouchedType, TouchedEntries DEF IInv

(* The handlers that leave the table alone: general_bind, the drop handler *)
(* and a delivery.                                                         *)
LEMMA PacketStep ==
    ASSUME IInv, NEW p \in Pkt, GeneralBind(p) \/ DropPacket(p) \/ Deliver(p)
    PROVE  IInv'
<1> DEFINE i == pkt[p].idx
           f == sram[i].flow
           Committed(g, v) == Commit(i, BoundEntry(f, g, v))
<1>1. pkt[p] # NoPacket
  BY DEF GeneralBind, DropPacket, Deliver, NoPacket
<1>2. Done(p) /\ UNCHANGED ft
  BY DEF GeneralBind, DropPacket, Deliver
<1>3. /\ i \in FoeIdx /\ f \in Flow /\ pkt[p].flow \in Flow
      /\ pkt' \in [Pkt -> Packet \cup {NoPacket}]
      /\ \A q \in Pkt : pkt'[q] # NoPacket => pkt[q] # NoPacket /\ pkt'[q].idx = pkt[q].idx
  BY <1>1, <1>2, Handled DEF IInv
<1>4. \/ UNCHANGED <<sram, hwe>>
      \/ Refresh(i) /\ UNCHANGED sram
      \/ ~Collides(f, pkt[p].flow) /\ Committed(pkt[p].flow, "general")
      \/ Committed(NoFlow, "drop")
  BY DEF GeneralBind, DropPacket, Deliver
<1> HIDE DEF f, i
<1>5. \A j \in FoeIdx : sram'[j].state = "BIND" /\ sram'[j].via = "table" => sram'[j] = sram[j]
  BY <1>3, <1>4 DEF Commit, BoundEntry, IInv, TypeInv, TypeOK
<1>6. /\ BoundEntry(f, pkt[p].flow, "general") \in Entry
      /\ BoundEntry(f, NoFlow, "drop") \in Entry
  BY <1>3 DEF BoundEntry, Entry, FoeState, Via
<1>7. /\ ~Collides(f, pkt[p].flow) => Sound(BoundEntry(f, pkt[p].flow, "general"))
      /\ Sound(BoundEntry(f, NoFlow, "drop"))
  BY <1>3, FlowAssumption DEF BoundEntry, Sound, Collides
<1>8. Touched(i)
  BY <1>4, <1>6, <1>7 DEF Touched
<1>9. HashHasEgress' /\ EgressAgrees'
  BY <1>2, <1>5, AgreesKept DEF IInv
<1>10. ft' \in [Flow -> TableEntry]
  BY <1>2 DEF IInv, TypeInv, TypeOK
<1> QED
  BY <1>3, <1>8, <1>9, <1>10, TouchedType, TouchedEntries DEF IInv

(* The flow table: a flow is added without an index, and removed with it. *)
LEMMA TableStep ==
    ASSUME IInv, NEW f \in Flow, Replace(f) \/ Destroy(f)
    PROVE  IInv'
<1> DEFINE i == ft[f].hash
           removed == IF Removed(i) = "BIND" THEN BoundEntry(f, ft[f].by, "table")
                      ELSE Unbound("INVALID", f)
<1>1. ft[f] \in TableEntry /\ ft[f].hash \in FoeIdx \cup {NoHash}
  BY DEF IInv, TypeInv, TypeOK, TableEntry
<1>2. /\ ft' \in [Flow -> TableEntry] /\ ft'[f].hash = NoHash
      /\ \A g \in Flow : ft'[g].hash = NoHash \/ ft'[g] = ft[g]
  <2> DEFINE added == [present |-> TRUE, by |-> IF f \in Wifi THEN f ELSE NoFlow, hash |-> NoHash]
  <2>1. added \in TableEntry /\ added.hash = NoHash
    BY DEF TableEntry
  <2>2. Absent \in TableEntry /\ Absent.hash = NoHash
    BY DEF TableEntry, Absent
  <2>3. ft' = [ft EXCEPT ![f] = added] \/ ft' = [ft EXCEPT ![f] = Absent]
    BY DEF Replace, Destroy
  <2> HIDE DEF added
  <2> QED
    BY <2>1, <2>2, <2>3 DEF IInv, TypeInv, TypeOK
<1>3. /\ pkt' \in [Pkt -> Packet \cup {NoPacket}]
      /\ \A q \in Pkt : pkt'[q] # NoPacket => pkt[q] # NoPacket /\ pkt'[q].idx = pkt[q].idx
  BY DEF Replace, Destroy, IInv, TypeInv, TypeOK
<1>4. UNCHANGED <<sram, hwe>> \/ (i # NoHash /\ Commit(i, removed))
  BY DEF Replace, Destroy
<1>5. CASE UNCHANGED <<sram, hwe>>
  <2>1. 1 \in FoeIdx /\ Touched(1)
    BY <1>5, EntryAssumption DEF Touched, FoeIdx
  <2>2. HashHasEgress' /\ EgressAgrees'
    BY <1>2, <1>5, AgreesKept DEF IInv
  <2> QED
    BY <1>2, <1>3, <2>1, <2>2, TouchedType, TouchedEntries DEF IInv
<1>6. CASE i # NoHash /\ Commit(i, removed)
  <2>1. i \in FoeIdx /\ ft[f].by \in Flow
    BY <1>1, <1>6 DEF IInv, HashHasEgress, TableEntry
  <2>2. removed \in Entry /\ removed.flow = f /\ Sound(removed)
    BY <2>1, FlowAssumption DEF BoundEntry, Unbound, Entry, FoeState, Via, Sound
  <2> HIDE DEF removed
  <2>3. Touched(i)
    BY <1>6, <2>2 DEF Touched
  <2>4. \A j \in FoeIdx : sram'[j] = sram[j] \/ ft'[sram'[j].flow].hash = NoHash
    BY <1>2, <1>6, <2>1, <2>2 DEF Commit, IInv, TypeInv, TypeOK
  <2>5. HashHasEgress' /\ EgressAgrees'
    BY <1>2, <2>4, AgreesKept DEF IInv
  <2> QED
    BY <1>2, <1>3, <2>1, <2>3, <2>5, TouchedType, TouchedEntries DEF IInv
<1> QED
  BY <1>4, <1>5, <1>6

-----------------------------------------------------------------------------
(* The invariant holds. *)
LEMMA InitInv == Init => IInv
<1> SUFFICES ASSUME Init
             PROVE  IInv
  OBVIOUS
<1>1. TypeOK
  BY DEF Init, TypeOK, Unbound, Entry, FoeState, Via, Absent, TableEntry
<1>2. Learned
  BY DEF Init, Learned, Unbound
<1>3. Entries
  BY DEF Init, Entries, Mirrored, GeneralOwnAddresses, EgressKnown, Unbound
<1>4. HashHasEgress /\ EgressAgrees
  BY DEF Init, HashHasEgress, EgressAgrees, Absent
<1> QED
  BY <1>1, <1>2, <1>3, <1>4 DEF IInv, TypeInv

LEMMA StepInv == IInv /\ [Next]_vars => IInv'
<1> SUFFICES ASSUME IInv, [Next]_vars
             PROVE  IInv'
  OBVIOUS
<1>1. CASE UNCHANGED vars
  BY <1>1 DEF vars, IInv, TypeInv, TypeOK, Learned, Entries, Mirrored, GeneralOwnAddresses,
              EgressKnown, HashHasEgress, EgressAgrees
<1>2. ASSUME NEW i \in FoeIdx,
             \/ \E f \in Flow : HwLearn(i, f)
             \/ HwRetire(i)
             \/ \E p \in Pkt, r \in BOOLEAN : Arrive(p, i, r)
      PROVE  IInv'
  BY <1>2, HardwareStep
<1>3. ASSUME NEW p \in Pkt, Insert(p)
      PROVE  IInv'
  BY <1>3, InsertStep
<1>4. ASSUME NEW p \in Pkt, TxUpdate(p)
      PROVE  IInv'
  BY <1>4, TxUpdateStep
<1>5. ASSUME NEW p \in Pkt, GeneralBind(p) \/ DropPacket(p) \/ Deliver(p)
      PROVE  IInv'
  BY <1>5, PacketStep
<1>6. ASSUME NEW f \in Flow, Replace(f) \/ Destroy(f)
      PROVE  IInv'
  BY <1>6, TableStep
<1> QED
  BY <1>1, <1>2, <1>3, <1>4, <1>5, <1>6 DEF Next

LEMMA Inductive == Spec => []IInv
BY InitInv, StepInv, PTL DEF Spec

-----------------------------------------------------------------------------
(* Whatever the interleaving of the packets in flight, the hardware and    *)
(* the flow table, the FOE entries, the buffer, the table and the packets  *)
(* keep their types: no handler commits an entry that shows no flow.       *)
THEOREM TypeOKHolds == Spec => []TypeOK
<1>1. IInv => TypeOK
  BY DEF IInv, TypeInv
<1> QED
  BY <1>1, Inductive, PTL

(* An entry that airoha_ppe_general_bind bound has the addresses of the    *)
(* packet that bound it, whichever flow the hardware learned into the      *)
(* entry while the packet was in flight.                                   *)
THEOREM GeneralOwnAddressesHolds == Spec => []GeneralOwnAddresses
<1>1. IInv => GeneralOwnAddresses
  BY DEF IInv, Entries
<1> QED
  BY <1>1, Inductive, PTL

(* No entry is bound, by airoha_ppe_foe_insert_entry or by the commit that *)
(* removes a flow, before a transmitted packet filled in its egress fields. *)
THEOREM EgressKnownHolds == Spec => []EgressKnown
<1>1. IInv => EgressKnown
  BY DEF IInv, Entries
<1> QED
  BY <1>1, Inductive, PTL

(* The entry a flow is bound at and its entry in ppe->foe_flow agree on    *)
(* the egress fields.                                                      *)
THEOREM EgressAgreesHolds == Spec => []EgressAgrees
<1>1. IInv => EgressAgrees
  BY DEF IInv
<1> QED
  BY <1>1, Inductive, PTL

(* Neither insert_entry, general_bind nor the removal of a flow writes to  *)
(* an entry that is bound in SRAM and leaves it bound.                     *)
THEOREM BindingNotStolenHolds == Spec => BindingNotStolen
<1> DEFINE Kept == \A i \in FoeIdx :
              sram[i].state = "BIND" /\ sram'[i].state = "BIND" /\ sram'[i] # sram[i] =>
                 sram'[i].via = "drop"
<1>1. IInv /\ [Next]_vars => [Kept]_vars
  <2> SUFFICES ASSUME IInv, Next
               PROVE  Kept
    BY DEF vars
  <2> USE DEF IInv, TypeInv, TypeOK
  <2>1. ASSUME NEW i \in FoeIdx, HwRetire(i) \/ \E f \in Flow : HwLearn(i, f)
        PROVE  Kept
    BY <2>1 DEF HwRetire, HwLearn, Unbound
  <2>2. ASSUME UNCHANGED sram
        PROVE  Kept
    BY <2>2
  <2>3. ASSUME NEW p \in Pkt, Insert(p) \/ GeneralBind(p)
        PROVE  Kept
    BY <2>3 DEF Insert, GeneralBind, Bindable, Commit
  <2>4. ASSUME NEW p \in Pkt, DropPacket(p)
        PROVE  Kept
    BY <2>4 DEF DropPacket, Commit, BoundEntry
  <2>5. ASSUME NEW f \in Flow, Destroy(f)
        PROVE  Kept
    <3>1. ft[f].hash = NoHash \/ ft[f].hash \in FoeIdx
      BY DEF TableEntry
    <3> QED
      BY <2>5, <3>1 DEF Destroy, Removed, Mirrored, Entries, Commit, Unbound
  <2> QED
    BY <2>1, <2>2, <2>3, <2>4, <2>5 DEF Next, Arrive, TxUpdate, Deliver, Replace
<1> QED
  BY <1>1, Inductive, PTL DEF Spec, BindingNotStolen

(* airoha_ppe_foe_remove_flow unbinds a flow that is bound at its index:   *)
(* the buffer that decides between UNBIND and INVALID shows BIND.          *)
THEOREM DestroyUnbindsHolds == Spec => DestroyUnbinds
<1> DEFINE Unbinds == \A f \in Flow :
              LET i == ft[f].hash
              IN  Destroy(f) /\ i # NoHash /\ sram[i].state = "BIND" => sram'[i].state # "BIND"
<1>1. IInv /\ [Next]_vars => [Unbinds]_vars
  <2> SUFFICES ASSUME IInv, NEW f \in Flow, Destroy(f), ft[f].hash # NoHash,
                      sram[ft[f].hash].state = "BIND"
               PROVE  sram'[ft[f].hash].state # "BIND"
    OBVIOUS
  <2>1. ft[f].hash \in FoeIdx
    BY DEF IInv, TypeInv, TypeOK, TableEntry
  <2>2. hwe[ft[f].hash] = "BIND"
    BY <2>1 DEF IInv, Entries, Mirrored
  <2> QED
    BY <2>1, <2>2 DEF Destroy, Removed, Commit, Unbound, IInv, TypeInv, TypeOK
<1> QED
  BY <1>1, Inductive, PTL DEF Spec, DestroyUnbinds
=============================================================================
