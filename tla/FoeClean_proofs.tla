--------------------------- MODULE FoeClean_proofs --------------------------
(***************************************************************************)
(* Theorems about the cleaners, for any number of entries, flows, devices  *)
(* and queued requests and any cap on the conntracks: a device clean       *)
(* leaves no entry behind, and of the flows whose bind recorded a device   *)
(* only its own lose their conntrack.                                      *)
(***************************************************************************)
EXTENDS FoeClean, TLAPS

(* Retiring and binding an entry, field by field. *)
LEMMA InvalidEntry ==
    ASSUME NEW e \in Entry
    PROVE  Invalid(e) \in Entry /\ Invalid(e).state = "INVALID" /\ ~Invalid(e).recorded
BY DEF Invalid, Entry, FoeState

LEMMA BoundEntry ==
    ASSUME NEW e \in Entry, NEW recorded \in BOOLEAN,
           NEW b, b = [e EXCEPT !.state = "BIND", !.recorded = recorded]
    PROVE  b \in Entry /\ b.flow = e.flow /\ b.recorded = recorded
BY DEF Entry, FoeState

(* Going on to the next entry keeps the types of the scan. *)
LEMMA NextEntryType ==
    ASSUME TypeOK, NEW c \in Cleaner, pc' = [pc EXCEPT ![c] = IF at[c] = NumEntries THEN "idle" ELSE "get"],
           at' = [at EXCEPT ![c] = IF at[c] = NumEntries THEN 1 ELSE @ + 1],
           req' = [req EXCEPT ![c] = IF at[c] = NumEntries THEN NoRequest ELSE @],
           count' = [count EXCEPT ![c] = IF at[c] = NumEntries THEN 0 ELSE @],
           copy' = [copy EXCEPT ![c] = NoCopy]
    PROVE  /\ pc' \in [Cleaner -> Pc] /\ req' \in [Cleaner -> Request] /\ at' \in [Cleaner -> FoeIdx]
           /\ copy' \in [Cleaner -> Entry \cup {NoCopy}] /\ count' \in [Cleaner -> 0 .. MaxCtDelete]
<1> USE DEF TypeOK
<1>1. NoRequest \in Request
  BY DEF NoRequest, Request
<1>2. at' \in [Cleaner -> FoeIdx]
  BY EntryAssumption DEF FoeIdx
<1>3. count' \in [Cleaner -> 0 .. MaxCtDelete]
  BY LimitAssumption
<1> QED
  BY <1>1, <1>2, <1>3 DEF Pc

(* Every step keeps the variables in their types. *)
LEMMA CleanTypeStep ==
    ASSUME TypeOK, [Next]_vars
    PROVE  TypeOK'
<1> USE DEF TypeOK, table, scan
<1>1. ASSUME NEW i \in FoeIdx, NEW f \in Flow, HwLearn(i, f)
      PROVE  TypeOK'
  BY <1>1 DEF HwLearn, Entry, FoeState
<1>2. ASSUME NEW i \in FoeIdx, HwRetire(i)
      PROVE  TypeOK'
  BY <1>2 DEF HwRetire, Invalid, NoLongerPending, Entry, FoeState
<1>3. ASSUME NEW i \in FoeIdx, Bind(i)
      PROVE  TypeOK'
  <2> PICK recorded \in BOOLEAN :
          /\ recorded => DevOf[sram[i].flow] # NoDev
          /\ sram' = [sram EXCEPT ![i].state = "BIND", ![i].recorded = recorded]
          /\ lan_ifindex' = [lan_ifindex EXCEPT ![i] = IF recorded THEN DevOf[sram[i].flow] ELSE @]
    BY <1>3 DEF Bind
  <2>1. sram[i].flow \in Flow
    BY <1>3 DEF Entry
  <2>2. DevOf[sram[i].flow] \in Dev \cup {NoDev}
    BY <2>1, FlowAssumption
  <2>3. sram' \in [FoeIdx -> Entry]
    <3>1. [sram[i] EXCEPT !.state = "BIND", !.recorded = recorded] \in Entry
      BY BoundEntry
    <3> QED
      BY <3>1
  <2>4. hwe' \in [FoeIdx -> Entry]
    BY <1>3, <2>3 DEF Bind
  <2> QED
    BY <1>3, <2>2, <2>3, <2>4 DEF Bind
<1>4. ASSUME NEW r \in Asked, Queue(r)
      PROVE  TypeOK'
  <2>1. r \in Request
    BY AskedAssumption
  <2>2. wq' \in Seq(Request) /\ Len(wq') <= MaxQueue
    BY <1>4, <2>1, LimitAssumption DEF Queue
  <2> QED
    BY <1>4, <2>2 DEF Queue
<1>5. ASSUME NEW c \in Cleaner, NEW r \in Request, Begin(c, r)
      PROVE  /\ pc' \in [Cleaner -> Pc] /\ req' \in [Cleaner -> Request]
             /\ pending' \in [Cleaner -> SUBSET FoeIdx]
             /\ UNCHANGED <<at, copy, count>>
  BY <1>5 DEF Begin, Pc
<1>6. CASE Dequeue
  <2>1. wq' \in Seq(Request) /\ Len(wq') <= MaxQueue /\ Head(wq) \in Request /\ "worker" \in Cleaner
    BY <1>6, LimitAssumption DEF Dequeue, Cleaner
  <2>2. CASE Head(wq).by = "table"
    <3>1. sram' = [i \in FoeIdx |-> Invalid(sram[i])] /\ hwe' = sram'
      BY <1>6, <2>2 DEF Dequeue
    <3>2. ASSUME NEW i \in FoeIdx
          PROVE  Invalid(sram[i]) \in Entry
      BY InvalidEntry
    <3>3. sram' \in [FoeIdx -> Entry]
      BY <3>1, <3>2
    <3> QED
      BY <1>6, <2>1, <2>2, <3>1, <3>3 DEF Dequeue
  <2>3. CASE Head(wq).by # "table"
    <3>1. Begin("worker", Head(wq)) /\ UNCHANGED <<sram, hwe, lan_ifindex>>
      BY <1>6, <2>3 DEF Dequeue
    <3>2. /\ pc' \in [Cleaner -> Pc] /\ req' \in [Cleaner -> Request]
          /\ pending' \in [Cleaner -> SUBSET FoeIdx]
          /\ UNCHANGED <<at, copy, count>>
      BY <2>1, <3>1, <1>5
    <3> QED
      BY <2>1, <3>1, <3>2
  <2> QED
    BY <2>2, <2>3
<1>7. ASSUME NEW d \in Dev, Unregister(d)
      PROVE  TypeOK'
  <2>1. [by |-> "landev", arg |-> d] \in Request /\ "notifier" \in Cleaner
    BY DEF Request, Cleaner
  <2>2. Begin("notifier", [by |-> "landev", arg |-> d]) /\ UNCHANGED <<table, wq>>
    BY <1>7 DEF Unregister
  <2> QED
    BY <2>1, <2>2, <1>5
<1>8. ASSUME NEW c \in Cleaner, GetEntry(c)
      PROVE  TypeOK'
  BY <1>8 DEF GetEntry, Pc
<1>9. ASSUME NEW c \in Cleaner, Check(c)
      PROVE  TypeOK'
  <2>1. CASE Wanted(c)
    <3>1. hwe[at[c]] \in Entry
      OBVIOUS
    <3>2. pc' \in [Cleaner -> Pc] /\ copy' \in [Cleaner -> Entry \cup {NoCopy}]
      BY <1>9, <2>1, <3>1 DEF Check, Pc
    <3> QED
      BY <1>9, <2>1, <3>2 DEF Check
  <2>2. CASE ~Wanted(c)
    BY <1>9, <2>2, NextEntryType DEF Check, NextEntry
  <2> QED
    BY <2>1, <2>2
<1>10. ASSUME NEW c \in Cleaner, DeleteConntrack(c)
       PROVE  TypeOK'
  <2>1. count' \in [Cleaner -> 0 .. MaxCtDelete]
    BY <1>10, LimitAssumption DEF DeleteConntrack
  <2> QED
    BY <1>10, <2>1 DEF DeleteConntrack, Pc
<1>11. ASSUME NEW c \in Cleaner, DeleteEntry(c)
       PROVE  TypeOK'
  <2>1. hwe' \in [FoeIdx -> Entry]
    BY <1>11 DEF DeleteEntry, Invalid, Entry, FoeState
  <2>2. sram' \in [FoeIdx -> Entry]
    BY <1>11, <2>1 DEF DeleteEntry
  <2> QED
    BY <1>11, <2>1, <2>2, NextEntryType DEF DeleteEntry, NextEntry, NoLongerPending
<1>12. CASE UNCHANGED vars
  BY <1>12 DEF vars
<1> QED
  BY <1>1, <1>2, <1>3, <1>4, <1>6, <1>7, <1>8, <1>9, <1>10, <1>11, <1>12 DEF Next, ScanStep

(* The entries, the queue, the scans and the history keep their types: a   *)
(* scan never leaves the table, a clean never exceeds its cap.             *)
THEOREM CleanTypeCorrect == Spec => []TypeOK
<1>1. ASSUME Init
      PROVE  TypeOK
  <2>1. NoRequest \in Request
    BY DEF NoRequest, Request
  <2>2. 1 \in FoeIdx /\ 0 \in 0 .. MaxCtDelete /\ 0 <= MaxQueue
    BY EntryAssumption, LimitAssumption DEF FoeIdx
  <2>3. sram \in [FoeIdx -> Entry]
    BY <1>1 DEF Init, Invalid, Entry, FoeState
  <2>4. wq \in Seq(Request) /\ Len(wq) = 0
    BY <1>1 DEF Init
  <2> QED
    BY <1>1, <2>1, <2>2, <2>3, <2>4 DEF Init, TypeOK, Pc
<1> QED
  BY <1>1, CleanTypeStep, PTL DEF Spec
-----------------------------------------------------------------------------
(* lan_ifindex is the device of an entry whose bind recorded it, in SRAM   *)
(* and in the buffer, and the copy a device clean makes is of such an      *)
(* entry only if it is of its device.                                      *)
OfDevice(e, d) == e.recorded => DevOf[e.flow] = d
DeviceRecorded ==
    /\ \A i \in FoeIdx : OfDevice(sram[i], lan_ifindex[i]) /\ OfDevice(hwe[i], lan_ifindex[i])
    /\ \A c \in Cleaner :
        pc[c] = "conntrack" /\ req[c].by = "landev" => OfDevice(copy[c], req[c].arg)

(* Every writer of lan_ifindex writes the entry too, and the check copies  *)
(* the flow under the lock it compares the device under.                   *)
LEMMA DeviceRecordedStep ==
    ASSUME TypeOK, DeviceRecorded, [Next]_vars
    PROVE  DeviceRecorded'
<1> USE DEF TypeOK, DeviceRecorded, OfDevice, table, scan
<1>1. ASSUME NEW i \in FoeIdx, NEW f \in Flow, HwLearn(i, f)
      PROVE  DeviceRecorded'
  <2>1. ~sram'[i].recorded /\ \A j \in FoeIdx \ {i} : sram'[j] = sram[j]
    BY <1>1 DEF HwLearn
  <2> QED
    BY <1>1, <2>1 DEF HwLearn
<1>2. ASSUME NEW i \in FoeIdx, HwRetire(i)
      PROVE  DeviceRecorded'
  <2>1. ~sram'[i].recorded /\ \A j \in FoeIdx \ {i} : sram'[j] = sram[j]
    BY <1>2, InvalidEntry DEF HwRetire
  <2> QED
    BY <1>2, <2>1 DEF HwRetire
<1>3. ASSUME NEW i \in FoeIdx, Bind(i)
      PROVE  DeviceRecorded'
  <2> PICK recorded \in BOOLEAN :
          /\ sram' = [sram EXCEPT ![i].state = "BIND", ![i].recorded = recorded]
          /\ lan_ifindex' = [lan_ifindex EXCEPT ![i] = IF recorded THEN DevOf[sram[i].flow] ELSE @]
    BY <1>3 DEF Bind
  <2>1. sram'[i].flow = sram[i].flow /\ sram'[i].recorded = recorded /\ hwe'[i] = sram'[i]
    <3>1. sram[i] \in Entry /\ sram'[i] = [sram[i] EXCEPT !.state = "BIND", !.recorded = recorded]
      OBVIOUS
    <3>2. hwe'[i] = sram'[i]
      BY <1>3 DEF Bind
    <3> QED
      BY <3>1, <3>2, BoundEntry
  <2>2. OfDevice(sram'[i], lan_ifindex'[i]) /\ OfDevice(hwe'[i], lan_ifindex'[i])
    BY <2>1
  <2>3. \A j \in FoeIdx \ {i} :
            sram'[j] = sram[j] /\ hwe'[j] = hwe[j] /\ lan_ifindex'[j] = lan_ifindex[j]
    BY <1>3 DEF Bind
  <2> QED
    BY <1>3, <2>2, <2>3 DEF Bind
<1>4. ASSUME NEW r \in Asked, Queue(r)
      PROVE  DeviceRecorded'
  BY <1>4 DEF Queue
<1>5. ASSUME NEW c \in Cleaner, NEW r, Begin(c, r), UNCHANGED table
      PROVE  DeviceRecorded'
  BY <1>5 DEF Begin
<1>6. CASE Dequeue
  <2>1. CASE Head(wq).by = "table"
    <3>1. \A i \in FoeIdx : ~sram'[i].recorded /\ hwe'[i] = sram'[i]
      BY <1>6, <2>1, InvalidEntry DEF Dequeue
    <3> QED
      BY <1>6, <2>1, <3>1 DEF Dequeue
  <2>2. CASE Head(wq).by # "table"
    BY <1>6, <2>2, <1>5 DEF Dequeue, Cleaner
  <2> QED
    BY <2>1, <2>2
<1>7. ASSUME NEW d \in Dev, Unregister(d)
      PROVE  DeviceRecorded'
  BY <1>7, <1>5 DEF Unregister, Cleaner
<1>8. ASSUME NEW c \in Cleaner, GetEntry(c)
      PROVE  DeviceRecorded'
  BY <1>8 DEF GetEntry
<1>9. ASSUME NEW c \in Cleaner, Check(c)
      PROVE  DeviceRecorded'
  <2>1. CASE Wanted(c)
    <3>1. /\ UNCHANGED <<sram, hwe, lan_ifindex, req>>
          /\ \A x \in Cleaner \ {c} : pc'[x] = pc[x] /\ copy'[x] = copy[x]
      BY <1>9, <2>1 DEF Check
    <3>2. pc'[c] = "conntrack" /\ req[c].by = "landev" => OfDevice(copy'[c], req[c].arg)
      BY <1>9, <2>1 DEF Check, Wanted
    <3> QED
      BY <3>1, <3>2
  <2>2. CASE ~Wanted(c)
    <3>1. pc'[c] \in {"idle", "get"} /\ \A x \in Cleaner \ {c} :
              pc'[x] = pc[x] /\ req'[x] = req[x] /\ copy'[x] = copy[x]
      BY <1>9, <2>2 DEF Check, NextEntry
    <3>2. UNCHANGED table
      BY <1>9 DEF Check
    <3> QED
      BY <3>1, <3>2
  <2> QED
    BY <2>1, <2>2
<1>10. ASSUME NEW c \in Cleaner, DeleteConntrack(c)
       PROVE  DeviceRecorded'
  BY <1>10 DEF DeleteConntrack
<1>11. ASSUME NEW c \in Cleaner, DeleteEntry(c)
       PROVE  DeviceRecorded'
  <2>1. ~sram'[at[c]].recorded /\ ~hwe'[at[c]].recorded
    BY <1>11, InvalidEntry DEF DeleteEntry
  <2>2. \A i \in FoeIdx \ {at[c]} :
            sram'[i] = sram[i] /\ hwe'[i] = hwe[i] /\ lan_ifindex'[i] = lan_ifindex[i]
    BY <1>11 DEF DeleteEntry
  <2>3. pc'[c] \in {"idle", "get"} /\ \A x \in Cleaner \ {c} :
            pc'[x] = pc[x] /\ req'[x] = req[x] /\ copy'[x] = copy[x]
    BY <1>11 DEF DeleteEntry, NextEntry
  <2>4. \A i \in FoeIdx : OfDevice(sram[i], lan_ifindex[i])' /\ OfDevice(hwe[i], lan_ifindex[i])'
    BY <2>1, <2>2
  <2>5. \A x \in Cleaner :
            (pc[x] = "conntrack" /\ req[x].by = "landev" => OfDevice(copy[x], req[x].arg))'
    <3>1. pc'[c] # "conntrack"
      BY <2>3
    <3>2. ASSUME NEW x \in Cleaner \ {c}
          PROVE  (pc[x] = "conntrack" /\ req[x].by = "landev" => OfDevice(copy[x], req[x].arg))'
      BY <2>3
    <3> QED
      BY <3>1, <3>2
  <2> QED
    BY <2>4, <2>5
<1>12. CASE UNCHANGED vars
  BY <1>12 DEF vars
<1> QED
  BY <1>1, <1>2, <1>3, <1>4, <1>6, <1>7, <1>8, <1>9, <1>10, <1>11, <1>12 DEF Next, ScanStep

LEMMA DeviceRecordedInit == Init => DeviceRecorded
<1> SUFFICES ASSUME Init PROVE DeviceRecorded
  OBVIOUS
<1>1. PICK f \in Flow : sram = [i \in FoeIdx |-> Invalid([state |-> "UNBIND", flow |-> f, recorded |-> FALSE])]
  BY DEF Init
<1>2. [state |-> "UNBIND", flow |-> f, recorded |-> FALSE] \in Entry
  BY DEF Entry, FoeState
<1>3. \A i \in FoeIdx : ~sram[i].recorded /\ ~hwe[i].recorded
  BY <1>1, <1>2, InvalidEntry DEF Init
<1> QED
  BY <1>3 DEF Init, DeviceRecorded, OfDevice

(* airoha_ppe_clean_entry_by_landev: the conntrack it deletes without the  *)
(* lock, if the flow's own bind recorded a device, is that of a flow that  *)
(* entered through the device cleaned, whatever became of the entry since  *)
(* it was checked.                                                         *)
THEOREM OwnConntrackOnlyHolds == Spec => OwnConntrackOnly
<1>1. ASSUME DeviceRecorded, NEW c \in Cleaner,
             LosesConntrack(c), req[c].by = "landev", TupleRead(c).recorded
      PROVE  DevOf[TupleRead(c).flow] = req[c].arg
  BY <1>1 DEF DeviceRecorded, OfDevice, LosesConntrack, DeleteConntrack, TupleRead
<1>2. DeviceRecorded => [\A c \in Cleaner :
         LosesConntrack(c) /\ req[c].by = "landev" /\ TupleRead(c).recorded =>
            DevOf[TupleRead(c).flow] = req[c].arg]_vars
  BY <1>1
<1> QED
  BY <1>2, CleanTypeCorrect, DeviceRecordedInit, DeviceRecordedStep, PTL DEF Spec, OwnConntrackOnly

-----------------------------------------------------------------------------
(* NothingSurvives is not inductive: an entry that was bound to the device *)
(* when the clean began is still bound to it, has not been passed, and is  *)
(* seen as it is when its turn comes.                                      *)
Outstanding(c, i) ==
    /\ pc[c] # "idle" /\ at[c] <= i
    /\ req[c].by = "landev" /\ req[c].arg = lan_ifindex[i]
    /\ sram[i].state = "BIND"
    /\ pc[c] = "check" /\ at[c] = i => hwe[i].state = "BIND"

CleanInv ==
    /\ \A c \in Cleaner : pc[c] = "idle" => at[c] = 1
    /\ \A c \in Cleaner : \A i \in pending[c] : Outstanding(c, i)

(* Going on to the next entry leaves only entries ahead of it pending, if  *)
(* the one it leaves is not.                                               *)
LEMMA NextEntryInv ==
    ASSUME TypeOK, CleanInv, NEW c \in Cleaner, NextEntry(c), pc[c] # "idle",
           NEW i \in FoeIdx, Outstanding(c, i), i # at[c]
    PROVE  pc'[c] = "get" /\ at'[c] <= i /\ req'[c] = req[c]
<1>1. at[c] \in 1 .. NumEntries /\ i \in 1 .. NumEntries /\ at[c] <= i
  BY DEF TypeOK, FoeIdx, Outstanding
<1>2. at[c] # NumEntries /\ at[c] + 1 <= i
  BY <1>1, EntryAssumption
<1> QED
  BY <1>2 DEF NextEntry, TypeOK

(* Entries are bound only when they are not, so a pending one leaves the   *)
(* set whenever somebody changes it.                                       *)
LEMMA CleanInvStep ==
    ASSUME TypeOK, CleanInv, [Next]_vars
    PROVE  CleanInv'
<1> USE DEF TypeOK, table, scan
<1>1. ASSUME NEW i \in FoeIdx, NEW f \in Flow, HwLearn(i, f)
      PROVE  CleanInv'
  <2>1. \A j \in FoeIdx : sram[j].state = "BIND" => sram'[j] = sram[j]
    BY <1>1 DEF HwLearn
  <2> QED
    BY <1>1, <2>1 DEF HwLearn, CleanInv, Outstanding
<1>2. ASSUME NEW i \in FoeIdx, HwRetire(i)
      PROVE  CleanInv'
  <2>1. \A j \in FoeIdx \ {i} : sram'[j] = sram[j]
    BY <1>2 DEF HwRetire
  <2> QED
    BY <1>2, <2>1 DEF HwRetire, NoLongerPending, CleanInv, Outstanding
<1>3. ASSUME NEW i \in FoeIdx, Bind(i)
      PROVE  CleanInv'
  <2>1. \A j \in FoeIdx \ {i} :
            sram'[j] = sram[j] /\ hwe'[j] = hwe[j] /\ lan_ifindex'[j] = lan_ifindex[j]
    BY <1>3 DEF Bind
  <2>2. \A c \in Cleaner : i \notin pending[c]
    BY <1>3 DEF Bind, CleanInv, Outstanding
  <2> QED
    BY <1>3, <2>1, <2>2 DEF Bind, CleanInv, Outstanding
<1>4. ASSUME NEW r \in Asked, Queue(r)
      PROVE  CleanInv'
  BY <1>4 DEF Queue, CleanInv, Outstanding
<1>5. ASSUME NEW c \in Cleaner, NEW r, Begin(c, r), pc[c] = "idle", UNCHANGED table
      PROVE  CleanInv'
  <2>1. /\ pc'[c] = "get" /\ at'[c] = 1 /\ req'[c] = r
        /\ \A i \in pending'[c] : r.by = "landev" /\ sram[i].state = "BIND" /\ lan_ifindex[i] = r.arg
    BY <1>5 DEF Begin, CleanInv
  <2>2. \A x \in Cleaner \ {c} : pc'[x] = pc[x] /\ at'[x] = at[x] /\ req'[x] = req[x] /\ pending'[x] = pending[x]
    BY <1>5 DEF Begin
  <2>3. \A i \in pending'[c] : Outstanding(c, i)'
    BY <1>5, <2>1 DEF Begin, Outstanding, FoeIdx
  <2>4. \A x \in Cleaner \ {c} : \A i \in pending'[x] : Outstanding(x, i)'
    BY <1>5, <2>2 DEF CleanInv, Outstanding
  <2> QED
    BY <2>1, <2>2, <2>3, <2>4 DEF CleanInv
<1>6. CASE Dequeue
  <2>1. CASE Head(wq).by = "table"
    BY <1>6, <2>1 DEF Dequeue, CleanInv
  <2>2. CASE Head(wq).by # "table"
    BY <1>6, <2>2, <1>5 DEF Dequeue, Cleaner
  <2> QED
    BY <2>1, <2>2
<1>7. ASSUME NEW d \in Dev, Unregister(d)
      PROVE  CleanInv'
  BY <1>7, <1>5 DEF Unregister, Cleaner
<1>8. ASSUME NEW c \in Cleaner, GetEntry(c)
      PROVE  CleanInv'
  <2>1. \A i \in FoeIdx : hwe'[i] = hwe[i] \/ (i = at[c] /\ hwe'[i] = sram[i])
    BY <1>8 DEF GetEntry
  <2>2. pc'[c] = "check" /\ \A x \in Cleaner \ {c} : pc'[x] = pc[x]
    BY <1>8 DEF GetEntry
  <2>3. hwe'[at[c]] = sram[at[c]]
    BY <1>8 DEF GetEntry
  <2>4. \A i \in pending[c] : Outstanding(c, i)'
    BY <1>8, <2>2, <2>3 DEF GetEntry, CleanInv, Outstanding
  <2>5. \A x \in Cleaner \ {c} : \A i \in pending[x] : Outstanding(x, i)'
    BY <1>8, <2>1, <2>2 DEF GetEntry, CleanInv, Outstanding
  <2> QED
    BY <1>8, <2>2, <2>4, <2>5 DEF GetEntry, CleanInv
<1>9. ASSUME NEW c \in Cleaner, NextEntry(c), pc[c] # "idle", UNCHANGED pending,
             \A i \in pending[c] : i # at[c], UNCHANGED table
      PROVE  CleanInv'
  <2>1. \A i \in pending[c] : Outstanding(c, i)'
    <3> SUFFICES ASSUME NEW i \in pending[c]
                 PROVE  Outstanding(c, i)'
      OBVIOUS
    <3>1. Outstanding(c, i) /\ i \in FoeIdx
      BY DEF CleanInv
    <3> QED
      BY <1>9, <3>1, NextEntryInv DEF Outstanding
  <2>2. \A x \in Cleaner \ {c} : pc'[x] = pc[x] /\ at'[x] = at[x] /\ req'[x] = req[x]
    BY <1>9 DEF NextEntry
  <2>3. pc'[c] = "idle" => at'[c] = 1
    BY <1>9 DEF NextEntry
  <2> QED
    <3>1. \A x \in Cleaner \ {c} : \A i \in pending'[x] : Outstanding(x, i)'
      BY <1>9, <2>2 DEF CleanInv, Outstanding
    <3>2. \A x \in Cleaner : pc'[x] = "idle" => at'[x] = 1
      BY <2>2, <2>3 DEF CleanInv
    <3> QED
      BY <1>9, <2>1, <3>1, <3>2 DEF CleanInv
<1>10. ASSUME NEW c \in Cleaner, Check(c)
       PROVE  CleanInv'
  <2>1. CASE Wanted(c)
    <3>1. pc'[c] \in {"delete", "conntrack"} /\ \A x \in Cleaner \ {c} : pc'[x] = pc[x]
      BY <1>10, <2>1 DEF Check
    <3> QED
      BY <1>10, <2>1, <3>1 DEF Check, CleanInv, Outstanding
  <2>2. CASE ~Wanted(c)
    <3>1. \A i \in pending[c] : i # at[c]
      BY <1>10, <2>2 DEF Check, Wanted, CleanInv, Outstanding
    <3> QED
      BY <1>9, <1>10, <2>2, <3>1 DEF Check
  <2> QED
    BY <2>1, <2>2
<1>11. ASSUME NEW c \in Cleaner, DeleteConntrack(c)
       PROVE  CleanInv'
  <2>1. pc'[c] = "delete" /\ \A x \in Cleaner \ {c} : pc'[x] = pc[x]
    BY <1>11 DEF DeleteConntrack
  <2> QED
    BY <1>11, <2>1 DEF DeleteConntrack, CleanInv, Outstanding
<1>12. ASSUME NEW c \in Cleaner, DeleteEntry(c)
       PROVE  CleanInv'
  <2>1. \A x \in Cleaner : pending'[x] = pending[x] \ {at[c]}
    BY <1>12 DEF DeleteEntry, NoLongerPending
  <2>2. \A i \in FoeIdx \ {at[c]} :
            sram'[i] = sram[i] /\ hwe'[i] = hwe[i] /\ lan_ifindex'[i] = lan_ifindex[i]
    BY <1>12 DEF DeleteEntry
  <2>3. NextEntry(c) /\ pc[c] # "idle"
    BY <1>12 DEF DeleteEntry
  <2>4. \A x \in Cleaner \ {c} : pc'[x] = pc[x] /\ at'[x] = at[x] /\ req'[x] = req[x]
    BY <2>3 DEF NextEntry
  <2>5. pc'[c] = "idle" => at'[c] = 1
    BY <2>3 DEF NextEntry
  <2>6. \A i \in pending'[c] : Outstanding(c, i)'
    <3> SUFFICES ASSUME NEW i \in pending[c], i # at[c]
                 PROVE  Outstanding(c, i)'
      BY <2>1
    <3>1. Outstanding(c, i) /\ i \in FoeIdx
      BY DEF CleanInv
    <3> QED
      BY <2>2, <2>3, <3>1, NextEntryInv DEF Outstanding
  <2>7. \A x \in Cleaner \ {c} : \A i \in pending'[x] : Outstanding(x, i)'
    BY <2>1, <2>2, <2>4 DEF CleanInv, Outstanding
  <2> QED
    BY <2>4, <2>5, <2>6, <2>7 DEF CleanInv
<1>13. CASE UNCHANGED vars
  BY <1>13 DEF vars, CleanInv, Outstanding
<1> QED
  BY <1>1, <1>2, <1>3, <1>4, <1>6, <1>7, <1>8, <1>10, <1>11, <1>12, <1>13 DEF Next, ScanStep

LEMMA CleanInvInit == Init => CleanInv
BY DEF Init, CleanInv

(* airoha_ppe_clean_entry_by_landev, from the hook or the notifier: when   *)
(* it ends, every entry that was bound to its device when it began has     *)
(* been unbound, beyond the cap on conntracks as well.                     *)
THEOREM NothingSurvivesHolds == Spec => []NothingSurvives
<1>1. TypeOK /\ CleanInv => NothingSurvives
  <2> SUFFICES ASSUME TypeOK, CleanInv, NEW c \in Cleaner, pc[c] = "idle"
               PROVE  pending[c] = {}
    BY DEF NothingSurvives
  <2>1. \A i \in pending[c] : FALSE
    BY DEF CleanInv, Outstanding
  <2> QED
    BY <2>1
<1> QED
  BY <1>1, CleanTypeCorrect, CleanInvInit, CleanInvStep, PTL DEF Spec
=============================================================================
