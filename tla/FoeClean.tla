------------------------------- MODULE FoeClean -------------------------------
(***************************************************************************)
(* Removing bound flows from the packet engine (arht_ppe.c, the            *)
(* airoha_ppe_clean_entry_by_* handlers).  The hooks queue a request on    *)
(* clean_entry_wq, whose worker runs one request at a time; the netdevice  *)
(* notifier cleans a device's flows itself, so two scans may overlap each  *)
(* other, the binders and the hardware.                                    *)
(*                                                                         *)
(* An entry exists twice: in SRAM, where the hardware works on it, and in  *)
(* the buffer ppe->foe, which airoha_ppe_foe_get_entry refreshes from SRAM *)
(* and every handler reads.  ppe_lock covers each access to SRAM, not a    *)
(* whole scan: what runs under one lock, or reads the buffer without one,  *)
(* is one action.  A key stands for any property of the packet that the    *)
(* by_gemport, by_channel, by_type, by_ip and by_port handlers compare:    *)
(* they differ in nothing else, and clean_multicast_entry is by_type twice *)
(* over.  by_fport_and_channel ("fport") leaves the conntrack alone, and   *)
(* the by_mac ones ("mac") remove the entry in another way besides.        *)
(***************************************************************************)
EXTENDS Naturals, Sequences

CONSTANTS
    NumEntries,     \* FOE entries, scanned from 1 up
    Flow, Dev, Key,
    NoCopy,         \* foe_entry_copy of a clean that has made none
    NoDev,          \* foe_ext lan_ifindex 0
    DevOf,          \* the device a flow's packets enter through (skb_iif), NoDev
                    \* for packets that enter through none
    KeyOf,          \* the flow's gemport, channel, type, address or port
    Buckets,        \* entries the hardware may learn the flow into
    MaxCtDelete,    \* PPE_MAX_CT_DELETE_PER_CLEAN
    Asked,          \* the requests other modules make through the hooks
    MaxQueue        \* bound on the queued requests

ASSUME EntryAssumption == NumEntries \in Nat \ {0}
ASSUME FlowAssumption ==
    /\ NoDev \notin Dev
    /\ DevOf \in [Flow -> Dev \cup {NoDev}]
    /\ KeyOf \in [Flow -> Key]
    /\ Buckets \in [Flow -> SUBSET (1 .. NumEntries)]
ASSUME LimitAssumption == MaxCtDelete \in Nat /\ MaxQueue \in Nat

FoeIdx == 1 .. NumEntries
FoeState == {"INVALID", "UNBIND", "BIND"}
(* An entry; ghost "recorded": the bind that made it set its lan_ifindex.   *)
Entry == [state : FoeState, flow : Flow, recorded : BOOLEAN]
ASSUME CopyAssumption == NoCopy \notin Entry
Cleaner == {"worker", "notifier"}
Request ==
    [by : {"key", "fport", "mac"}, arg : Key] \cup [by : {"landev"}, arg : Dev] \cup [by : {"table"}, arg : {NoDev}]
ASSUME AskedAssumption == Asked \subseteq Request
NoRequest == [by |-> "table", arg |-> NoDev]
Pc == {"idle", "get", "check", "conntrack", "delete"}

VARIABLES
    sram, hwe,       \* the FOE entries in SRAM and in the buffer ppe->foe
    lan_ifindex,     \* foe_ext[].lan_ifindex
    wq,              \* clean_entry_wq
    pc, req, at,     \* by cleaner: where it is, its request, the entry it looks at
    copy, count,     \* foe_entry_copy and delete_count
    pending          \* history: entries bound to the device (lan_ifindex) since
                     \* its clean began
table == <<sram, hwe, lan_ifindex>>
scan == <<pc, req, at, copy, count>>
vars == <<table, wq, scan, pending>>

TypeOK ==
    /\ sram \in [FoeIdx -> Entry] /\ hwe \in [FoeIdx -> Entry]
    /\ lan_ifindex \in [FoeIdx -> Dev \cup {NoDev}]
    /\ wq \in Seq(Request) /\ Len(wq) <= MaxQueue
    /\ pc \in [Cleaner -> Pc]
    /\ req \in [Cleaner -> Request]
    /\ at \in [Cleaner -> FoeIdx]
    /\ copy \in [Cleaner -> Entry \cup {NoCopy}]
    /\ count \in [Cleaner -> 0 .. MaxCtDelete]
    /\ pending \in [Cleaner -> SUBSET FoeIdx]

Invalid(e) == [e EXCEPT !.state = "INVALID", !.recorded = FALSE]

(* arht_ppe_init cleared every entry. *)
Init ==
    /\ \E f \in Flow : sram = [i \in FoeIdx |-> Invalid([state |-> "UNBIND", flow |-> f, recorded |-> FALSE])]
    /\ hwe = sram
    /\ lan_ifindex = [i \in FoeIdx |-> NoDev]
    /\ wq = <<>>
    /\ pc = [c \in Cleaner |-> "idle"]
    /\ req = [c \in Cleaner |-> NoRequest]
    /\ at = [c \in Cleaner |-> 1]
    /\ copy = [c \in Cleaner |-> NoCopy]
    /\ count = [c \in Cleaner |-> 0]
    /\ pending = [c \in Cleaner |-> {}]

Bound(i, f) == sram[i].state = "BIND" /\ sram[i].flow = f

(* Entry i is no longer bound as it was when a clean began. *)
NoLongerPending(i) == pending' = [c \in Cleaner |-> pending[c] \ {i}]

-----------------------------------------------------------------------------
(* Traffic: the hardware learns a flow and retires entries, a transmitted  *)
(* packet of a learned flow binds it.                                      *)
HwLearn(i, f) ==
    /\ i \in Buckets[f] /\ sram[i].state = "INVALID"
    /\ sram' = [sram EXCEPT ![i] = [state |-> "UNBIND", flow |-> f, recorded |-> FALSE]]
    /\ UNCHANGED <<hwe, lan_ifindex, wq, scan, pending>>

HwRetire(i) ==
    /\ sram[i].state # "INVALID"
    /\ sram' = [sram EXCEPT ![i] = Invalid(@)]
    /\ NoLongerPending(i)
    /\ UNCHANGED <<hwe, lan_ifindex, wq, scan>>

(* A binder reads the entry, fills it in and commits it, all under         *)
(* ppe_lock.  Only airoha_ppe_general_bind calls arht_set_ppe_lanif, which *)
(* records the device if the packet has one; the binds of local packets,   *)
(* of the flow table, of drops and of multicast leave what the entry's     *)
(* previous flow left in lan_ifindex.                                      *)
Bind(i) ==
    /\ sram[i].state = "UNBIND"
    /\ \E recorded \in BOOLEAN :
         /\ recorded => DevOf[sram[i].flow] # NoDev
         /\ sram' = [sram EXCEPT ![i].state = "BIND", ![i].recorded = recorded]
         /\ lan_ifindex' = [lan_ifindex EXCEPT ![i] = IF recorded THEN DevOf[sram[i].flow] ELSE @]
    /\ hwe' = [hwe EXCEPT ![i] = sram'[i]]
    /\ UNCHANGED <<wq, scan, pending>>

-----------------------------------------------------------------------------
(* A clean begins, goes on to the next entry, and returns after the last. *)
Begin(c, r) ==
    /\ req' = [req EXCEPT ![c] = r]
    /\ pc' = [pc EXCEPT ![c] = "get"]
    /\ pending' = [pending EXCEPT ![c] =
                     {i \in FoeIdx : r.by = "landev" /\ sram[i].state = "BIND" /\ lan_ifindex[i] = r.arg}]
    /\ UNCHANGED <<at, copy, count>>

(* Bug: the scan leaves the last entry out. *)
NextEntry_Short(c) ==
    /\ pc' = [pc EXCEPT ![c] = "idle"]
    /\ req' = [req EXCEPT ![c] = NoRequest]
    /\ count' = [count EXCEPT ![c] = 0]
    /\ copy' = [copy EXCEPT ![c] = NoCopy]
    /\ UNCHANGED at

NextEntry(c) ==
    LET last == at[c] = NumEntries
    IN  /\ pc' = [pc EXCEPT ![c] = IF last THEN "idle" ELSE "get"]
        /\ at' = [at EXCEPT ![c] = IF last THEN 1 ELSE @ + 1]
        /\ req' = [req EXCEPT ![c] = IF last THEN NoRequest ELSE @]
        /\ count' = [count EXCEPT ![c] = IF last THEN 0 ELSE @]
        /\ copy' = [copy EXCEPT ![c] = NoCopy]

(* The clean_entry_by_*_hook functions: queue_clean_entry_work *)
Queue(r) ==
    /\ Len(wq) < MaxQueue
    /\ wq' = Append(wq, r)
    /\ UNCHANGED <<table, scan, pending>>

(* clean_entry_work_func takes up the first request; clearing the whole    *)
(* table needs no scan and leaves foe_ext[].lan_ifindex as it is.          *)
Dequeue ==
    /\ wq # <<>> /\ pc["worker"] = "idle"
    /\ wq' = Tail(wq)
    /\ IF Head(wq).by = "table"
       THEN /\ sram' = [i \in FoeIdx |-> Invalid(sram[i])]
            /\ hwe' = sram'
            /\ pending' = [c \in Cleaner |-> {}]
            /\ UNCHANGED scan
       ELSE Begin("worker", Head(wq)) /\ UNCHANGED <<sram, hwe>>
    /\ UNCHANGED lan_ifindex

(* airoha_ppe_netdev_event, NETDEV_UNREGISTER *)
Unregister(d) ==
    /\ pc["notifier"] = "idle"
    /\ Begin("notifier", [by |-> "landev", arg |-> d])
    /\ UNCHANGED <<table, wq>>

-----------------------------------------------------------------------------
(* One entry of a scan: airoha_ppe_foe_get_entry refreshes the buffer... *)
GetEntry(c) ==
    /\ pc[c] = "get"
    /\ hwe' = [hwe EXCEPT ![at[c]] = sram[at[c]]]
    /\ pc' = [pc EXCEPT ![c] = "check"]
    /\ UNCHANGED <<sram, lan_ifindex, wq, req, at, copy, count, pending>>

(* ... the handler decides on the buffer, and by_landev copies the entry   *)
(* under the lock it decided under...                                      *)
Wanted(c) ==
    LET i == at[c]
    IN  /\ hwe[i].state = "BIND"
        /\ IF req[c].by = "landev" THEN lan_ifindex[i] = req[c].arg
           ELSE KeyOf[hwe[i].flow] = req[c].arg

Check(c) ==
    /\ pc[c] = "check"
    /\ IF Wanted(c)
       THEN /\ copy' = [copy EXCEPT ![c] = IF req[c].by = "landev" THEN hwe[at[c]] ELSE NoCopy]
            /\ pc' = [pc EXCEPT ![c] = IF req[c].by \in {"fport", "mac"} THEN "delete" ELSE "conntrack"]
            /\ UNCHANGED <<req, at, count>>
       ELSE NextEntry(c)
    /\ UNCHANGED <<table, wq, pending>>

(* Bug: by_landev reads the buffer, as the other handlers do. *)
TupleRead_Buffer(c) == hwe[at[c]]

(* ... airoha_ppe_delete_conntrack, without a lock, for the entry it finds *)
(* in the copy (by_landev) or in the buffer (the others), up to the cap... *)
(* What becomes of the conntrack is not modelled: live traffic makes a new *)
(* one at once.                                                            *)
TupleRead(c) == IF req[c].by = "landev" THEN copy[c] ELSE hwe[at[c]]

(* Bug: beyond the cap on conntracks the entry is skipped. *)
DeleteConntrack_CapSkips(c) ==
    /\ pc[c] = "conntrack"
    /\ IF count[c] < MaxCtDelete
       THEN /\ count' = [count EXCEPT ![c] = @ + 1]
            /\ pc' = [pc EXCEPT ![c] = "delete"]
            /\ UNCHANGED <<req, at, copy>>
       ELSE NextEntry(c)
    /\ UNCHANGED <<table, wq, pending>>

DeleteConntrack(c) ==
    /\ pc[c] = "conntrack"
    /\ count' = [count EXCEPT ![c] = IF @ < MaxCtDelete THEN @ + 1 ELSE @]
    /\ pc' = [pc EXCEPT ![c] = "delete"]
    /\ UNCHANGED <<table, wq, req, at, copy, pending>>

LosesConntrack(c) == DeleteConntrack(c) /\ count[c] < MaxCtDelete   \* the flow in TupleRead(c)

(* ... and airoha_ppe_delete_entry, under the lock again: whatever the     *)
(* buffer holds by now is committed as INVALID.  by_mac only clears the    *)
(* entry (airoha_ppe_clear_sram_table_flow): no conntrack, no lan_ifindex. *)
DeleteEntry(c) ==
    /\ pc[c] = "delete"
    /\ hwe' = [hwe EXCEPT ![at[c]] = Invalid(@)]
    /\ sram' = [sram EXCEPT ![at[c]] = hwe'[at[c]]]
    /\ lan_ifindex' = [lan_ifindex EXCEPT ![at[c]] = IF req[c].by = "mac" THEN @ ELSE NoDev]
    /\ NoLongerPending(at[c])
    /\ NextEntry(c)
    /\ UNCHANGED <<wq>>

ScanStep(c) == GetEntry(c) \/ Check(c) \/ DeleteConntrack(c) \/ DeleteEntry(c)

Next ==
    \/ \E i \in FoeIdx, f \in Flow : HwLearn(i, f)
    \/ \E i \in FoeIdx : HwRetire(i)
    \/ \E i \in FoeIdx : Bind(i)
    \/ \E r \in Asked : Queue(r)
    \/ Dequeue
    \/ \E d \in Dev : Unregister(d)
    \/ \E c \in Cleaner : ScanStep(c)

(* The workqueue runs what is queued, and a handler that runs goes on. *)
Fairness == WF_vars(Dequeue) /\ \A c \in Cleaner : WF_vars(ScanStep(c))

Spec == Init /\ [][Next]_vars /\ Fairness

-----------------------------------------------------------------------------
(* Properties. *)

(* A flow whose own bind recorded its device (airoha_ppe_general_bind)     *)
(* loses its conntrack to a device clean only if it entered through that   *)
(* device, even if its entry was aged, learned again and bound between the *)
(* check and the deletion.  Not claimed of a flow another binder bound: it *)
(* may lose its conntrack to the device the entry's previous flow left in  *)
(* lan_ifindex.                                                            *)
OwnConntrackOnly ==
    [][\A c \in Cleaner :
         LosesConntrack(c) /\ req[c].by = "landev" /\ TupleRead(c).recorded =>
            DevOf[TupleRead(c).flow] = req[c].arg]_vars

(* When a device clean ends, no entry that was bound when it began, with   *)
(* the device in its lan_ifindex, is still bound, however many there were  *)
(* and whatever the other cleaner did to the shared buffer meanwhile.      *)
NothingSurvives == \A c \in Cleaner : pc[c] = "idle" => pending[c] = {}

(* A queued clean by key gets to every flow that was bound when it was     *)
(* queued, unless the entry is unbound before.                             *)
QueuedCleanRuns ==
    \A i \in FoeIdx, f \in Flow :
        Bound(i, f) /\ (\E n \in DOMAIN wq : wq[n] = [by |-> "key", arg |-> KeyOf[f]])
            ~> ~Bound(i, f)

-----------------------------------------------------------------------------
(* arht_ppe.c:2471, "Copy the entry while holding the lock to avoid TOCTOU *)
(* race condition", of by_landev: the entry it then removes is the one it  *)
(* checked.                                                                *)
DeletesWhatItChecked ==
    [][\A c \in Cleaner :
         DeleteEntry(c) /\ req[c].by = "landev" /\ sram[at[c]].state = "BIND" =>
            sram[at[c]].flow = copy[c].flow]_vars
=============================================================================
