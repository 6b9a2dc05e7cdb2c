----------------------------- MODULE ShrinkTable -----------------------------
(***************************************************************************)
(* The source-MAC shrink table of the Airoha packet-processing engine      *)
(* (arht_ppe.c).  An IPv6 flow entry (FOE entry) has no room for a source  *)
(* MAC: it stores the index of one of UPDMEM_NUM slots of a table that     *)
(* software shares among all the bound entries.  The module models the     *)
(* table (shnkTbl, one selector), the part of each FOE entry that refers   *)
(* to it, the binders, the cleaners, the ageing of slots and the hardware  *)
(* that creates and ages FOE entries.                                      *)
(*                                                                         *)
(* A bind runs under ppe_lock and shnk_tbl_lock for a few microseconds, so *)
(* it is one action; jiffies only enter the code as an age, so each slot   *)
(* carries the age of its timestamp, capped just above timeOutVal.  The    *)
(* clean by source MAC holds no lock across its scan: it is one action per *)
(* stretch that runs under a lock or reads the buffer ppe->foe without one.*)
(***************************************************************************)
EXTENDS FiniteSetsExt

CONSTANTS
    UPDMEM_NUM,     \* slots of the table
    SMAC_PON_IDX,   \* the slot the PON interface pins
    KEEP_SMAC,      \* the field value the hardware reads as "keep the packet's MAC"
    timeOutVal,     \* age after which an unpinned slot may be reused
    Mac,            \* source MACs a binder asks for
    KeepMac, NoMac, \* what an entry wants when not rewritten, or when the lookup failed
    ppe_num_entries,    \* FOE entries, in SRAM first and then in DRAM
    ppe_sram_etry_num   \* those in SRAM

ASSUME SlotAssumption ==
    /\ UPDMEM_NUM \in Nat
    /\ SMAC_PON_IDX \in 0 .. UPDMEM_NUM - 1
    /\ KEEP_SMAC \in Nat
ASSUME TimeAssumption == timeOutVal \in Nat
ASSUME FoeAssumption ==
    ppe_num_entries \in Nat /\ ppe_sram_etry_num \in 0 .. ppe_num_entries
ASSUME MacAssumption == KeepMac \notin Mac /\ NoMac \notin Mac /\ KeepMac # NoMac

Slot == 0 .. UPDMEM_NUM - 1
NoSlot == -1
Age == 0 .. timeOutVal + 1
FoeIdx == 0 .. ppe_num_entries - 1
FoeState == {"INVALID", "UNBIND", "BIND"}    \* FIN counts as INVALID

VARIABLES
    valid, smac, pinned, age,   \* shnkTbl, by slot
    state, smacId,              \* FOE entries: bind state and source-MAC field
    want, boundAge,             \* history: the MAC an entry was bound to within
                                \* timeOutVal, and how long ago
    clean, hwe,                 \* the clean by source MAC; its entry in the buffer ppe->foe
    settled                     \* history: entries bound when the clean began and, but
                                \* for the clean, untouched and within timeOutVal since
table == <<valid, smac, pinned, age>>
foe == <<state, smacId, want, boundAge>>
scan == <<clean, hwe, settled>>
vars == <<table, foe, scan>>

Idle == [mac |-> NoMac, idx |-> 0, pc |-> "get"]
NoEntry == [state |-> "INVALID", smacId |-> 0]

TypeOK ==
    /\ valid \in [Slot -> BOOLEAN]
    /\ smac \in [Slot -> Mac \cup {NoMac}]
    /\ pinned \in [Slot -> BOOLEAN]
    /\ age \in [Slot -> Age]
    /\ state \in [FoeIdx -> FoeState]
    /\ smacId \in [FoeIdx -> Nat]
    /\ want \in [FoeIdx -> Mac \cup {KeepMac, NoMac}]
    /\ boundAge \in [FoeIdx -> Age]
    /\ clean \in [mac : Mac \cup {NoMac}, idx : Nat, pc : {"get", "check", "clear"}]
    /\ clean.idx <= ppe_num_entries
    /\ clean.pc # "get" => clean.idx \in FoeIdx
    /\ hwe \in [state : FoeState, smacId : Nat]
    /\ settled \subseteq FoeIdx

(* InitShrinkTable zeroes every slot; jiffies start far from 0, so a zero  *)
(* timestamp counts as timed out.                                          *)
Init ==
    /\ valid = [i \in Slot |-> FALSE]
    /\ smac = [i \in Slot |-> NoMac]
    /\ pinned = [i \in Slot |-> FALSE]
    /\ age = [i \in Slot |-> timeOutVal + 1]
    /\ state = [f \in FoeIdx |-> "INVALID"]
    /\ smacId = [f \in FoeIdx |-> 0]
    /\ want = [f \in FoeIdx |-> NoMac]
    /\ boundAge = [f \in FoeIdx |-> timeOutVal + 1]
    /\ clean = Idle
    /\ hwe = NoEntry
    /\ settled = {}

(* Bug: the timeout applies to pinned slots too. *)
TimedOut_Pinned(i) == age[i] > timeOutVal

TimedOut(i) == ~pinned[i] /\ age[i] > timeOutVal

-----------------------------------------------------------------------------
(* The lookup. *)

Match(m) == {i \in Slot : valid[i] /\ smac[i] = m}

(* The loop visits the slots in order and stops at the first match; on its *)
(* way it invalidates every timed-out slot that does not match.            *)
(* Bug: the lookup leaves timed-out slots alone. *)
LoopValid_Kept(m) == valid

LoopValid(m) ==
    [i \in Slot |-> valid[i] /\ ~(TimedOut(i) /\ \A j \in Match(m) : i < j)]

Free(m) == {i \in Slot : ~LoopValid(m)[i]}

(* Bug: a free slot is taken before a match is looked for. *)
FoundIndex_FreeFirst(m) ==
    IF Free(m) # {} THEN Min(Free(m))
    ELSE IF Match(m) # {} THEN Min(Match(m)) ELSE NoSlot

(* The index find_and_update_shrink_table returns. *)
FoundIndex(m) ==
    IF Match(m) # {} THEN Min(Match(m))
    ELSE IF Free(m) # {} THEN Min(Free(m)) ELSE NoSlot

(* reuse_shrink_table on a table with validity v and ages a: a timed-out   *)
(* unpinned slot becomes invalid.  The code would keep it while an entry   *)
(* in its bitmap is in BIND, but no caller passes a foe_idx and the bitmap *)
(* stays empty.                                                            *)
(* Bug: off by one tick. *)
Expired_Early(i, a) == ~pinned[i] /\ a[i] >= timeOutVal

Expired(i, a) == ~pinned[i] /\ a[i] > timeOutVal

ReusedValid(v, a) == [i \in Slot |-> v[i] /\ ~Expired(i, a)]

(* Bug: only a new grant is stamped, not the use of a slot that matched. *)
Stamped_NewOnly(r) == [i \in Slot |-> IF i = r /\ ~valid[i] THEN 0 ELSE age[i]]

(* The slot found is stamped with jiffies. *)
Stamped(r) == [i \in Slot |-> IF i = r THEN 0 ELSE age[i]]

(* find_and_update_shrink_table for MAC m. *)
FindAndUpdate(m) ==
    LET r == FoundIndex(m)
        v == [i \in Slot |-> i = r \/ LoopValid(m)[i]]
        a == Stamped(r)
    IN  /\ valid' = ReusedValid(v, a)
        /\ smac' = [i \in Slot |-> IF i = r THEN m ELSE smac[i]]
        /\ age' = a
        /\ UNCHANGED pinned

-----------------------------------------------------------------------------
(* The binders: an entry that is not yet in BIND gets its source MAC and   *)
(* is committed as BIND.                                                   *)

Foe(f) == [state |-> state[f], smacId |-> smacId[f]]

(* The buffer of entry f when it is refreshed; one in DRAM has no other.   *)
Buffer(f) == IF f < ppe_sram_etry_num THEN Foe(f) ELSE NoEntry

(* Software writes entry f through the buffer, where the clean may read it. *)
ThroughBuffer(f) ==
    /\ hwe' = IF clean.pc = "check" /\ clean.idx = f THEN Buffer(f)' ELSE hwe
    /\ settled' = settled \ {f}
    /\ UNCHANGED clean

(* Entry f, with its field set, becomes BIND. *)
Commit(f) ==
    /\ state[f] = "UNBIND"
    /\ state' = [state EXCEPT ![f] = "BIND"]
    /\ boundAge' = [boundAge EXCEPT ![f] = 0]
    /\ ThroughBuffer(f)

(* Bug: the failed lookup is not checked. *)
BindRouted_Unchecked(f, m) ==
    /\ FindAndUpdate(m)
    /\ smacId' = [smacId EXCEPT ![f] = FoundIndex(m)]
    /\ want' = [want EXCEPT ![f] = m]
    /\ Commit(f)

(* A routed packet: the entry takes the index the lookup returned, or      *)
(* keeps the field it had when the lookup failed: whatever the flow before *)
(* it left there, which is not remembered of an entry that is not bound.   *)
BindRouted(f, m) ==
    /\ FindAndUpdate(m)
    /\ IF FoundIndex(m) = NoSlot
       THEN /\ \E i \in Slot \cup {KEEP_SMAC} : smacId' = [smacId EXCEPT ![f] = i]
            /\ want' = [want EXCEPT ![f] = NoMac]
       ELSE /\ smacId' = [smacId EXCEPT ![f] = FoundIndex(m)]
            /\ want' = [want EXCEPT ![f] = m]
    /\ Commit(f)

(* A bridged packet keeps its own source MAC: 0x10 is stored as 0xf. *)
BindBridged(f) ==
    /\ smacId' = [smacId EXCEPT ![f] = KEEP_SMAC]
    /\ want' = [want EXCEPT ![f] = KeepMac]
    /\ Commit(f)
    /\ UNCHANGED table

-----------------------------------------------------------------------------
(* The other users of the table. *)

(* UpdateShrinkTable, as airoha_pon_set_macaddr calls it. *)
SetPonMac(m) ==
    /\ smac' = [smac EXCEPT ![SMAC_PON_IDX] = m]
    /\ valid' = [valid EXCEPT ![SMAC_PON_IDX] = TRUE]
    /\ pinned' = [pinned EXCEPT ![SMAC_PON_IDX] = TRUE]
    /\ UNCHANGED <<age, foe, scan>>

(* ppe_dump_shrink_table: the debugfs dump first reuses what timed out. *)
Dump ==
    /\ valid' = ReusedValid(valid, age)
    /\ UNCHANGED <<smac, pinned, age, foe, scan>>

(* Entry f is no longer bound. *)
Leaves(f) ==
    /\ state' = [state EXCEPT ![f] = "INVALID"]
    /\ smacId' = [smacId EXCEPT ![f] = 0]
    /\ want' = [want EXCEPT ![f] = NoMac]
    /\ boundAge' = [boundAge EXCEPT ![f] = timeOutVal + 1]

(* airoha_ppe_delete_entry *)
DeleteEntry(f) ==
    /\ state[f] = "BIND"
    /\ Leaves(f)
    /\ ThroughBuffer(f)
    /\ UNCHANGED table

-----------------------------------------------------------------------------
(* airoha_ppe_clean_entry_by_mac_common, SRC_MAC, which the work queue     *)
(* runs one at a time.                                                     *)

(* The entry is bound to a rewritten source MAC through an ordinary slot:  *)
(* neither the one the PON interface overwrites nor the one whose index    *)
(* the hardware reads as "keep".                                           *)
Rewritten(f) ==
    /\ state[f] = "BIND"
    /\ want[f] \in Mac
    /\ smacId[f] \notin {SMAC_PON_IDX, KEEP_SMAC}

Fresh(f) == boundAge[f] <= timeOutVal

CleanBySrcMac(m) ==
    /\ clean = Idle
    /\ clean' = [Idle EXCEPT !.mac = m]
    /\ settled' = {f \in FoeIdx : Rewritten(f) /\ Fresh(f)}
    /\ UNCHANGED <<table, foe, hwe>>

(* airoha_ppe_foe_get_entry refreshes the buffer from SRAM... *)
GetEntry ==
    /\ clean.mac # NoMac /\ clean.pc = "get" /\ clean.idx < ppe_num_entries
    /\ hwe' = Buffer(clean.idx)
    /\ clean' = [clean EXCEPT !.pc = "check"]
    /\ UNCHANGED <<table, foe, settled>>

(* ... or returns NULL when the read times out: the clean returns -1. *)
GetEntryFails ==
    /\ clean.mac # NoMac /\ clean.pc = "get" /\ clean.idx < ppe_sram_etry_num
    /\ clean' = Idle
    /\ settled' = {}
    /\ UNCHANGED <<table, foe, hwe>>

(* Anyone else who reads the entry refreshes the buffer as well. *)
Refresh ==
    /\ clean.pc = "check"
    /\ hwe' = Buffer(clean.idx)
    /\ UNCHANGED <<table, foe, clean, settled>>

NextEntry ==
    /\ clean' = [clean EXCEPT !.idx = @ + 1, !.pc = "get"]
    /\ hwe' = NoEntry

(* Bug: index 0 taken for "no index". *)
SmacOf_NotZero(id) == IF id \in Slot \ {0, KEEP_SMAC} THEN smac[id] ELSE NoMac

(* The MAC an index stands for by now.  The bytes compared for an entry    *)
(* that keeps its MAC are not those of any MAC.                            *)
SmacOf(id) == IF id \in Slot \ {KEEP_SMAC} THEN smac[id] ELSE NoMac

(* The scan decides by the buffer, without ppe_lock...                     *)
CheckEntry ==
    LET e == IF clean.idx < ppe_sram_etry_num THEN hwe ELSE Foe(clean.idx)
    IN  /\ clean.pc = "check"
        /\ IF e.state = "BIND" /\ SmacOf(e.smacId) = clean.mac
           THEN clean' = [clean EXCEPT !.pc = "clear"] /\ hwe' = NoEntry
           ELSE NextEntry
        /\ UNCHANGED <<table, foe, settled>>

(* ... and clears, under ppe_lock, whatever is at the index by now;        *)
(* airoha_ppe_clear_sram_table_flow refuses an entry in DRAM.              *)
ClearEntry ==
    /\ clean.pc = "clear"
    /\ IF clean.idx < ppe_sram_etry_num
       THEN /\ Leaves(clean.idx)
            /\ settled' = settled \ {clean.idx}
       ELSE UNCHANGED <<foe, settled>>
    /\ NextEntry
    /\ UNCHANGED table

CleanReturns ==
    /\ clean.mac # NoMac /\ clean.idx = ppe_num_entries
    /\ clean' = Idle
    /\ settled' = {}
    /\ UNCHANGED <<table, foe, hwe>>

CleanStep ==
    GetEntry \/ GetEntryFails \/ Refresh \/ CheckEntry \/ ClearEntry \/ CleanReturns

-----------------------------------------------------------------------------
(* The hardware: it learns a flow as UNBIND, finishes and ages entries. *)
HwLearn(f) ==
    /\ state[f] = "INVALID"
    /\ state' = [state EXCEPT ![f] = "UNBIND"]
    /\ UNCHANGED <<table, smacId, want, boundAge, scan>>

HwRetire(f) ==
    /\ state[f] # "INVALID"
    /\ Leaves(f)
    /\ settled' = settled \ {f}
    /\ UNCHANGED <<table, clean, hwe>>

Older(a) == IF a > timeOutVal THEN a ELSE a + 1
Tick ==
    /\ \/ \E i \in Slot : age[i] <= timeOutVal
       \/ \E f \in FoeIdx : boundAge[f] <= timeOutVal
    /\ age' = [i \in Slot |-> Older(age[i])]
    /\ boundAge' = [f \in FoeIdx |-> Older(boundAge[f])]
    /\ want' = [f \in FoeIdx |-> IF Older(boundAge[f]) > timeOutVal THEN NoMac ELSE want[f]]
    /\ settled' = {f \in settled : Older(boundAge[f]) <= timeOutVal}
    /\ UNCHANGED <<valid, smac, pinned, state, smacId, clean, hwe>>

Next ==
    \/ \E f \in FoeIdx, m \in Mac : BindRouted(f, m)
    \/ \E f \in FoeIdx : BindBridged(f)
    \/ \E m \in Mac : SetPonMac(m)
    \/ Dump
    \/ \E m \in Mac : CleanBySrcMac(m)
    \/ CleanStep
    \/ \E f \in FoeIdx : DeleteEntry(f)
    \/ \E f \in FoeIdx : HwLearn(f)
    \/ \E f \in FoeIdx : HwRetire(f)
    \/ Tick

Spec == Init /\ [][Next]_vars

-----------------------------------------------------------------------------
(* Properties. *)

(* find_and_update_shrink_table never spends two slots on one MAC, however *)
(* often slots time out, are dropped by a dump and are granted again.      *)
NoDuplicateSmac ==
    \A i, j \in Slot \ {SMAC_PON_IDX} :
        valid[i] /\ valid[j] /\ smac[i] = smac[j] => i = j

(* For timeOutVal after its bind, an entry's slot holds the MAC its binder *)
(* asked for, whatever other binds, dumps, PON updates and cleans do.      *)
BoundMacFresh ==
    \A f \in FoeIdx : Rewritten(f) /\ Fresh(f) =>
        /\ smacId[f] \in Slot
        /\ valid[smacId[f]]
        /\ smac[smacId[f]] = want[f]

(* A bind's lookup fails (the entry goes to BIND with a stale source-MAC   *)
(* field) only when every slot is pinned or was asked for within           *)
(* timeOutVal: nothing that could be reused is left unused.                *)
FullWhenFailing ==
    \A f \in FoeIdx :
        state[f] = "UNBIND" /\ state'[f] = "BIND" /\ want'[f] = NoMac =>
            \A i \in Slot : valid[i] /\ (pinned[i] \/ age[i] <= timeOutVal)
FailsOnlyWhenFull == [][FullWhenFailing]_vars

(* Once airoha_pon_set_macaddr pinned its slot, no lookup, timeout or dump *)
(* takes it or rewrites it: only the next PON MAC does.                    *)
PinnedSlotKept ==
    \A i \in Slot : pinned[i] =>
        /\ pinned'[i]
        /\ valid'[i]
        /\ smac'[i] = smac[i] \/ \E m \in Mac : SetPonMac(m)
PinnedStays == [][PinnedSlotKept]_vars

(* A clean by source MAC that returns 0 removes a flow exactly when it was *)
(* bound to that MAC, whatever is bound, aged, dumped or read beside the   *)
(* scan: of the entries in SRAM bound before it began, within timeOutVal   *)
(* and left alone by all others until it is done with them, it clears      *)
(* none bound to another MAC and leaves none bound to this one.  Nothing   *)
(* is promised of an entry that changed hands meanwhile (the clear takes   *)
(* what is there), of one in DRAM (it is chosen but never cleared) or when *)
(* a read fails half way.                                                  *)
CleanIsExact ==
    /\ ClearEntry /\ clean.idx \in settled => want[clean.idx] = clean.mac
    /\ CleanReturns => \A f \in settled : f < ppe_sram_etry_num => want[f] # clean.mac
CleanBySrcMacExact == [][CleanIsExact]_vars

(* The table implements the lease it promises. *)
Lease == INSTANCE SmacLease WITH
            Slot <- Slot, Mac <- Mac, Nobody <- NoMac, Term <- timeOutVal,
            FixedSlot <- SMAC_PON_IDX,
            owner <- [i \in Slot |-> IF valid[i] THEN smac[i] ELSE NoMac],
            held <- age, fixed <- pinned
LeaseSpec == Lease!Spec

-----------------------------------------------------------------------------
(* What the comments of arht_ppe.c say and the code does not do. *)

(* arht_ppe.c:683, "if current entry is time out and no bindidx, invalid   *)
(* this entry": a slot whose index a bound entry holds stays valid.        *)
BoundSlotKept ==
    [][\A f \in FoeIdx, i \in Slot \ {SMAC_PON_IDX, KEEP_SMAC} :
         state[f] = "BIND" /\ smacId[f] = i /\ valid[i] => valid'[i]]_vars
=============================================================================
