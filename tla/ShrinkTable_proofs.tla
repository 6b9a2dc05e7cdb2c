------------------------- MODULE ShrinkTable_proofs -------------------------
(***************************************************************************)
(* Theorems about the source-MAC shrink table, for any number of slots,    *)
(* MACs and FOE entries and any timeout.                                   *)
(***************************************************************************)
EXTENDS ShrinkTable, SetLemmas

-----------------------------------------------------------------------------
(* The lookup. *)

(* Where the lookup for m ends: at a slot that holds m already, else at    *)
(* one that is free, and nowhere only if there is neither.                 *)
LEMMA FoundIndexCases ==
    ASSUME NEW m
    PROVE  /\ Match(m) # {} => FoundIndex(m) \in Match(m)
           /\ Match(m) = {} /\ Free(m) # {} => FoundIndex(m) \in Free(m)
           /\ FoundIndex(m) = NoSlot <=> Match(m) = {} /\ Free(m) = {}
           /\ FoundIndex(m) \in Slot \cup {NoSlot}
<1>1. Match(m) \in SUBSET Nat /\ Free(m) \in SUBSET Nat
  BY SlotAssumption DEF Match, Free, Slot
<1>2. Match(m) \subseteq Slot /\ Free(m) \subseteq Slot
  BY DEF Match, Free
<1>3. NoSlot \notin Slot
  BY DEF NoSlot, Slot
<1> QED
  BY <1>1, <1>2, <1>3, MinIsLeast DEF FoundIndex

-----------------------------------------------------------------------------
(* Types. *)

(* InitShrinkTable leaves every field in its range. *)
LEMMA TypeInit == Init => TypeOK
BY SlotAssumption, TimeAssumption, FoeAssumption
   DEF Init, TypeOK, Age, FoeState, FoeIdx, Idle, NoEntry

(* What is written through the buffer is an entry, and the clean sees it.  *)
LEMMA ThroughBufferType ==
    ASSUME TypeOK, NEW f \in FoeIdx, ThroughBuffer(f),
           state' \in [FoeIdx -> FoeState], smacId' \in [FoeIdx -> Nat]
    PROVE  /\ clean' = clean
           /\ hwe' \in [state : FoeState, smacId : Nat]
           /\ settled' \subseteq FoeIdx
BY DEF ThroughBuffer, Buffer, Foe, NoEntry, FoeState, TypeOK

(* Every binder, cleaner, hardware step and tick keeps the fields in their *)
(* ranges.                                                                 *)
LEMMA TypeStep ==
    ASSUME TypeOK, [Next]_vars
    PROVE  TypeOK'
<1> USE SlotAssumption, TimeAssumption DEF TypeOK
<1>1. ASSUME NEW f \in FoeIdx, NEW m \in Mac, BindRouted(f, m)
      PROVE  TypeOK'
  <2>1. FoundIndex(m) # NoSlot => FoundIndex(m) \in Nat
    BY FoundIndexCases DEF Slot
  <2>0. Slot \cup {KEEP_SMAC} \subseteq Nat
    BY DEF Slot
  <2>2. /\ valid' \in [Slot -> BOOLEAN]
        /\ smac' \in [Slot -> Mac \cup {NoMac}]
        /\ pinned' \in [Slot -> BOOLEAN]
        /\ age' \in [Slot -> Age]
    BY <1>1 DEF BindRouted, FindAndUpdate, ReusedValid, LoopValid, Stamped, Expired, Age
  <2>3. /\ smacId' \in [FoeIdx -> Nat]
        /\ want' \in [FoeIdx -> Mac \cup {KeepMac, NoMac}]
    BY <1>1, <2>0, <2>1 DEF BindRouted
  <2>4. /\ state' \in [FoeIdx -> FoeState]
        /\ boundAge' \in [FoeIdx -> Age]
    BY <1>1 DEF BindRouted, Commit, FoeState, Age
  <2>5. ThroughBuffer(f)
    BY <1>1 DEF BindRouted, Commit
  <2> QED
    BY <2>2, <2>3, <2>4, <2>5, ThroughBufferType
<1>2. ASSUME NEW f \in FoeIdx, BindBridged(f)
      PROVE  TypeOK'
  <2>1. /\ state' \in [FoeIdx -> FoeState] /\ smacId' \in [FoeIdx -> Nat]
        /\ want' \in [FoeIdx -> Mac \cup {KeepMac, NoMac}]
        /\ boundAge' \in [FoeIdx -> Age]
    BY <1>2 DEF BindBridged, Commit, FoeState, Age
  <2>2. ThroughBuffer(f) /\ UNCHANGED table
    BY <1>2 DEF BindBridged, Commit
  <2> QED
    BY <2>1, <2>2, ThroughBufferType DEF table
<1>3. ASSUME NEW m \in Mac, SetPonMac(m)
      PROVE  TypeOK'
  BY <1>3 DEF SetPonMac, foe, scan, Slot
<1>4. CASE Dump
  BY <1>4 DEF Dump, foe, scan, ReusedValid, Expired
<1>5. ASSUME NEW f \in FoeIdx, Leaves(f)
      PROVE  /\ state' \in [FoeIdx -> FoeState] /\ smacId' \in [FoeIdx -> Nat]
             /\ want' \in [FoeIdx -> Mac \cup {KeepMac, NoMac}]
             /\ boundAge' \in [FoeIdx -> Age]
  BY <1>5 DEF Leaves, FoeState, Age
<1>6. ASSUME NEW f \in FoeIdx, DeleteEntry(f)
      PROVE  TypeOK'
  BY <1>5, <1>6, ThroughBufferType DEF DeleteEntry, table
<1>7. ASSUME NEW f \in FoeIdx, HwLearn(f)
      PROVE  TypeOK'
  BY <1>7 DEF HwLearn, table, scan, FoeState
<1>8. ASSUME NEW f \in FoeIdx, HwRetire(f)
      PROVE  TypeOK'
  BY <1>5, <1>8 DEF HwRetire, table
<1>9. CASE Tick
  BY <1>9 DEF Tick, Older, Age
<1>10. ASSUME NEW m \in Mac, CleanBySrcMac(m)
       PROVE  TypeOK'
  BY <1>10, FoeAssumption DEF CleanBySrcMac, Idle, table, foe
<1>11. CASE GetEntry \/ Refresh
  <2>1. clean.idx \in FoeIdx
    <3>1. CASE GetEntry
      BY <3>1, FoeAssumption DEF GetEntry, FoeIdx
    <3>2. CASE Refresh
      BY <3>2 DEF Refresh
    <3> QED
      BY <1>11, <3>1, <3>2
  <2>2. Buffer(clean.idx) \in [state : FoeState, smacId : Nat]
    BY <2>1 DEF Buffer, Foe, NoEntry, FoeState
  <2> QED
    BY <1>11, <2>1, <2>2 DEF GetEntry, Refresh, table, foe
<1>12. CASE GetEntryFails \/ CleanReturns
  BY <1>12, FoeAssumption DEF GetEntryFails, CleanReturns, Idle, table, foe
<1>13. ASSUME NextEntry, clean.pc # "get"
       PROVE  /\ clean' \in [mac : Mac \cup {NoMac}, idx : Nat, pc : {"get", "check", "clear"}]
              /\ clean'.idx <= ppe_num_entries
              /\ clean'.pc # "get" => clean'.idx \in FoeIdx
              /\ hwe' \in [state : FoeState, smacId : Nat]
  <2>1. clean.idx \in Nat /\ clean.idx + 1 \in Nat /\ clean.idx + 1 <= ppe_num_entries
    BY <1>13, FoeAssumption DEF FoeIdx
  <2>2. clean' = [mac |-> clean.mac, idx |-> clean.idx + 1, pc |-> "get"]
    BY <1>13 DEF NextEntry
  <2>3. hwe' = NoEntry
    BY <1>13 DEF NextEntry
  <2> QED
    BY <2>1, <2>2, <2>3 DEF NoEntry, FoeState
<1>14. CASE CheckEntry
  <2>1. CASE NextEntry
    BY <1>13, <1>14, <2>1 DEF CheckEntry, table, foe
  <2>2. CASE ~NextEntry
    BY <1>14, <2>2 DEF CheckEntry, table, foe, NoEntry, FoeState
  <2> QED
    BY <2>1, <2>2
<1>15. CASE ClearEntry
  <2>1. clean.idx \in FoeIdx
    BY <1>15 DEF ClearEntry
  <2> QED
    BY <1>5, <1>13, <1>15, <2>1 DEF ClearEntry, table, foe
<1>16. CASE UNCHANGED vars
  BY <1>16 DEF vars, table, foe, scan
<1> QED
  BY <1>1, <1>2, <1>3, <1>4, <1>6, <1>7, <1>8, <1>9, <1>10, <1>11, <1>12, <1>14, <1>15, <1>16
     DEF Next, CleanStep

(* Every field of the table and of the entries stays in its range: no slot *)
(* number outside the table ever reaches an entry.                         *)
THEOREM TypeCorrect == Spec => []TypeOK
<1>1. Init => TypeOK
  BY TypeInit
<1>2. TypeOK /\ [Next]_vars => TypeOK'
  BY TypeStep
<1> QED
  BY <1>1, <1>2, PTL DEF Spec

-----------------------------------------------------------------------------
(* The inductive invariant.  BoundMacFresh alone is not inductive: it says *)
(* nothing of how long the slot it relies on will last.  What carries it   *)
(* is that the slot was stamped no earlier than the entry was bound.       *)

OnlyPonPinned ==
    \A i \in Slot : pinned[i] => i = SMAC_PON_IDX /\ valid[i]

SlotOutlivesBind ==
    \A f \in FoeIdx : Rewritten(f) /\ Fresh(f) =>
        /\ smacId[f] \in Slot
        /\ valid[smacId[f]]
        /\ smac[smacId[f]] = want[f]
        /\ age[smacId[f]] <= boundAge[f]

(* How far the clean is with the entries it owes its promise: the buffer   *)
(* shows a settled entry as it is, the one about to be cleared was bound   *)
(* to the MAC, and of those behind the scan none was.                      *)
ScanInv ==
    \A f \in settled :
        /\ Rewritten(f) /\ Fresh(f)
        /\ f = clean.idx /\ clean.pc = "check" /\ f < ppe_sram_etry_num => hwe = Foe(f)
        /\ f = clean.idx /\ clean.pc = "clear" => want[f] = clean.mac
        /\ f < clean.idx /\ f < ppe_sram_etry_num => want[f] # clean.mac

IInv == TypeOK /\ OnlyPonPinned /\ NoDuplicateSmac /\ SlotOutlivesBind /\ ScanInv

(* Only the binders, airoha_pon_set_macaddr, the dump and jiffies touch    *)
(* the table...                                                            *)
LEMMA TableWriters ==
    ASSUME [Next]_vars
    PROVE  \/ \E f \in FoeIdx, m \in Mac : BindRouted(f, m)
           \/ \E m \in Mac : SetPonMac(m)
           \/ Dump \/ Tick \/ UNCHANGED table
BY DEF Next, vars, BindBridged, DeleteEntry, HwLearn, HwRetire, CleanBySrcMac, CleanStep,
       GetEntry, GetEntryFails, Refresh, CheckEntry, ClearEntry, CleanReturns

(* ... and a step that leaves the table alone binds nothing to a slot.     *)
LEMMA EntryWriters ==
    ASSUME TypeOK, [Next]_vars, UNCHANGED table
    PROVE  \/ \E f \in FoeIdx, m \in Mac : BindRouted(f, m)
           \/ \E m \in Mac : SetPonMac(m)
           \/ Dump \/ Tick
           \/ \E f \in FoeIdx : BindBridged(f) \/ HwLearn(f) \/ Leaves(f)
           \/ UNCHANGED foe
<1>1. CheckEntry => UNCHANGED foe
  BY DEF CheckEntry
<1>2. TypeOK /\ ClearEntry => (UNCHANGED foe \/ \E f \in FoeIdx : Leaves(f))
  BY DEF ClearEntry, TypeOK
<1> QED
  BY <1>1, <1>2
     DEF Next, vars, DeleteEntry, HwRetire, CleanBySrcMac, CleanStep,
         GetEntry, GetEntryFails, Refresh, CleanReturns

(* The empty table satisfies the inductive invariant. *)
LEMMA IInvInit == Init => IInv
<1> SUFFICES ASSUME Init PROVE IInv
  OBVIOUS
<1>1. TypeOK
  BY TypeInit
<1>2. OnlyPonPinned /\ NoDuplicateSmac
  BY DEF Init, OnlyPonPinned, NoDuplicateSmac
<1>3. SlotOutlivesBind
  BY DEF Init, SlotOutlivesBind, Rewritten
<1>4. ScanInv
  BY DEF Init, ScanInv
<1> QED
  BY <1>1, <1>2, <1>3, <1>4 DEF IInv

(* What one lookup does to the table, slot by slot: the slot found is      *)
(* valid, new and holds m; any other keeps its MAC and its age, and stays  *)
(* valid until its time is over.                                           *)
LEMMA LookupEffect ==
    ASSUME TypeOK, NEW m \in Mac, FindAndUpdate(m)
    PROVE  /\ \A i \in Slot : i = FoundIndex(m) =>
                valid'[i] /\ smac'[i] = m /\ age'[i] = 0
           /\ \A i \in Slot : i # FoundIndex(m) =>
                /\ smac'[i] = smac[i] /\ age'[i] = age[i]
                /\ valid'[i] <=> valid[i] /\ ~TimedOut(i)
           /\ pinned' = pinned
<1> USE DEF TypeOK
<1>1. \A i \in Slot : age[i] \in Int
  BY TimeAssumption DEF Age
<1>2. ASSUME NEW i \in Slot, i = FoundIndex(m)
      PROVE  valid'[i] /\ smac'[i] = m /\ age'[i] = 0
  <2>1. smac'[i] = m /\ age'[i] = 0
    BY <1>2 DEF FindAndUpdate, Stamped
  <2>2. valid'[i] <=> ~Expired(i, age')
    BY <1>2 DEF FindAndUpdate, ReusedValid
  <2>3. ~(age'[i] > timeOutVal)
    BY <2>1, TimeAssumption
  <2> QED
    BY <2>1, <2>2, <2>3 DEF Expired
<1>3. ASSUME NEW i \in Slot, i # FoundIndex(m)
      PROVE  /\ smac'[i] = smac[i] /\ age'[i] = age[i]
             /\ valid'[i] <=> valid[i] /\ ~TimedOut(i)
  BY <1>3 DEF FindAndUpdate, ReusedValid, Expired, Stamped, LoopValid, TimedOut
<1> QED
  BY <1>2, <1>3 DEF FindAndUpdate

(* A running lease is only found by its own MAC. *)
LEMMA LeasedOnlyMatches ==
    ASSUME TypeOK, NEW m \in Mac, NEW i \in Slot, i = FoundIndex(m),
           valid[i], ~TimedOut(i)
    PROVE  smac[i] = m
<1>1. i \notin Free(m)
  BY DEF Free, LoopValid, TypeOK
<1>2. i # NoSlot
  BY DEF Slot, NoSlot
<1>3. i \in Match(m)
  BY <1>1, <1>2, FoundIndexCases
<1> QED
  BY <1>3 DEF Match

(* Only airoha_pon_set_macaddr pins, and it pins slot SMAC_PON_IDX. *)
LEMMA PonPinnedStep ==
    ASSUME IInv, [Next]_vars
    PROVE  OnlyPonPinned'
<1> USE DEF IInv, OnlyPonPinned
<1>1. ASSUME NEW f \in FoeIdx, NEW m \in Mac, BindRouted(f, m)
      PROVE  OnlyPonPinned'
  <2>1. FindAndUpdate(m)
    BY <1>1 DEF BindRouted
  <2> QED
    BY <2>1, LookupEffect DEF TimedOut
<1>2. ASSUME NEW m \in Mac, SetPonMac(m)
      PROVE  OnlyPonPinned'
  BY <1>2, SlotAssumption DEF SetPonMac, Slot, TypeOK
<1>3. CASE Dump
  BY <1>3 DEF Dump, ReusedValid, Expired
<1>4. CASE Tick \/ UNCHANGED table
  BY <1>4 DEF Tick, table
<1> QED
  BY <1>1, <1>2, <1>3, <1>4, TableWriters

(* No step gives a MAC a second ordinary slot: the lookup takes a new slot *)
(* only for a MAC that has none.                                           *)
LEMMA NoDuplicateStep ==
    ASSUME IInv, [Next]_vars
    PROVE  NoDuplicateSmac'
<1> USE DEF IInv, NoDuplicateSmac
<1>1. ASSUME NEW f \in FoeIdx, NEW m \in Mac, BindRouted(f, m)
      PROVE  NoDuplicateSmac'
  <2>1. FindAndUpdate(m)
    BY <1>1 DEF BindRouted
  <2>2. SUFFICES ASSUME NEW i \in Slot \ {SMAC_PON_IDX}, NEW j \in Slot \ {SMAC_PON_IDX},
                        valid'[i], valid'[j], smac'[i] = smac'[j], i # j
                 PROVE  FALSE
    OBVIOUS
  <2>3. CASE FoundIndex(m) \notin {i, j}
    BY <2>1, <2>2, <2>3, LookupEffect
  <2>4. ASSUME NEW k \in Slot \ {SMAC_PON_IDX}, NEW r \in Slot \ {SMAC_PON_IDX},
               r = FoundIndex(m), k # r, valid'[k], smac'[k] = smac'[r]
        PROVE  FALSE
    <3>1. valid[k] /\ smac[k] = m
      BY <2>1, <2>4, LookupEffect
    <3>2. Match(m) # {}
      BY <3>1 DEF Match
    <3>3. r \in Match(m)
      BY <3>2, <2>4, FoundIndexCases
    <3> QED
      BY <3>1, <3>3, <2>4 DEF Match
  <2> QED
    BY <2>2, <2>3, <2>4
<1>2. ASSUME NEW m \in Mac, SetPonMac(m)
      PROVE  NoDuplicateSmac'
  BY <1>2 DEF SetPonMac, TypeOK
<1>3. CASE Dump
  BY <1>3 DEF Dump, ReusedValid
<1>4. CASE Tick \/ UNCHANGED table
  BY <1>4 DEF Tick, table
<1> QED
  BY <1>1, <1>2, <1>3, <1>4, TableWriters

(* No step takes a slot from an entry bound to it within the timeout, or   *)
(* makes the slot older than the bind.                                     *)
LEMMA SlotOutlivesBindStep ==
    ASSUME IInv, [Next]_vars
    PROVE  SlotOutlivesBind'
<1> USE DEF IInv, TypeOK
<1>0. /\ \A i \in Slot : age[i] \in Int
      /\ \A f \in FoeIdx : boundAge[f] \in Int
      /\ timeOutVal \in Int
  BY TimeAssumption DEF Age
<1>1. ASSUME NEW f \in FoeIdx, NEW m \in Mac, BindRouted(f, m)
      PROVE  SlotOutlivesBind'
  <2>1. FindAndUpdate(m)
    BY <1>1 DEF BindRouted
  <2>2. SUFFICES ASSUME NEW g \in FoeIdx, Rewritten(g)', Fresh(g)'
                 PROVE  /\ smacId'[g] \in Slot
                        /\ valid'[smacId'[g]]
                        /\ smac'[smacId'[g]] = want'[g]
                        /\ age'[smacId'[g]] <= boundAge'[g]
    BY DEF SlotOutlivesBind
  <2>3. CASE g = f
    <3>1. FoundIndex(m) # NoSlot
      BY <1>1, <2>2, <2>3, MacAssumption DEF BindRouted, Commit, Rewritten
    <3>2. FoundIndex(m) \in Slot
      BY <3>1, FoundIndexCases
    <3>3. smacId'[g] = FoundIndex(m) /\ want'[g] = m /\ boundAge'[g] = 0
      BY <1>1, <2>3, <3>1 DEF BindRouted, Commit
    <3> QED
      BY <2>1, <3>2, <3>3, LookupEffect
  <2>4. CASE g # f
    <3> DEFINE s == smacId[g]
    <3>1. /\ smacId'[g] = s /\ want'[g] = want[g] /\ boundAge'[g] = boundAge[g]
          /\ state'[g] = state[g]
      BY <1>1, <2>4 DEF BindRouted, Commit
    <3>2. Rewritten(g) /\ Fresh(g)
      BY <2>2, <3>1 DEF Rewritten, Fresh
    <3>3. s \in Slot /\ valid[s] /\ smac[s] = want[g] /\ age[s] <= boundAge[g]
      BY <3>2 DEF SlotOutlivesBind
    <3>4. boundAge[g] <= timeOutVal /\ ~TimedOut(s)
      BY <1>0, <3>2, <3>3 DEF Fresh, TimedOut
    <3>5. CASE s = FoundIndex(m)
      <4>1. smac[s] = m
        BY <3>3, <3>4, <3>5, LeasedOnlyMatches
      <4>2. valid'[s] /\ smac'[s] = m /\ age'[s] = 0
        BY <2>1, <3>3, <3>5, LookupEffect
      <4>3. 0 <= boundAge[g]
        BY TimeAssumption DEF Age
      <4> QED
        BY <3>1, <3>3, <4>1, <4>2, <4>3
    <3>6. CASE s # FoundIndex(m)
      BY <2>1, <3>1, <3>3, <3>4, <3>6, LookupEffect
    <3> QED
      BY <3>5, <3>6
  <2> QED
    BY <2>3, <2>4
<1>2. ASSUME NEW f \in FoeIdx, BindBridged(f)
      PROVE  SlotOutlivesBind'
  BY <1>2, MacAssumption DEF BindBridged, Commit, table, SlotOutlivesBind, Rewritten, Fresh
<1>3. ASSUME NEW m \in Mac, SetPonMac(m)
      PROVE  SlotOutlivesBind'
  BY <1>3 DEF SetPonMac, foe, SlotOutlivesBind, Rewritten, Fresh
<1>4. CASE Dump
  <2> SUFFICES ASSUME NEW f \in FoeIdx, Rewritten(f), Fresh(f)
               PROVE  ~Expired(smacId[f], age)
    BY <1>4 DEF Dump, foe, ReusedValid, SlotOutlivesBind, Rewritten, Fresh
  <2> QED
    BY <1>0 DEF SlotOutlivesBind, Fresh, Expired
<1>5. ASSUME NEW f \in FoeIdx, Leaves(f), UNCHANGED table
      PROVE  SlotOutlivesBind'
  BY <1>5 DEF Leaves, table, SlotOutlivesBind, Rewritten, Fresh
<1>6. ASSUME NEW f \in FoeIdx, HwLearn(f)
      PROVE  SlotOutlivesBind'
  BY <1>6 DEF HwLearn, table, SlotOutlivesBind, Rewritten, Fresh
<1>7. CASE Tick
  <2> SUFFICES ASSUME NEW f \in FoeIdx, Rewritten(f)', Fresh(f)'
               PROVE  /\ smacId'[f] \in Slot
                      /\ valid'[smacId'[f]]
                      /\ smac'[smacId'[f]] = want'[f]
                      /\ age'[smacId'[f]] <= boundAge'[f]
    BY DEF SlotOutlivesBind
  <2>1. boundAge'[f] = Older(boundAge[f])
    BY <1>7 DEF Tick
  <2>0. want'[f] = want[f]
    BY <1>7, MacAssumption DEF Tick, Rewritten
  <2>2. Rewritten(f) /\ Fresh(f) /\ boundAge'[f] = boundAge[f] + 1
    BY <1>0, <1>7, <2>0, <2>1 DEF Tick, Rewritten, Fresh, Older
  <2>3. smacId[f] \in Slot /\ age'[smacId[f]] <= boundAge'[f]
    BY <1>0, <1>7, <2>1, <2>2 DEF Tick, Older, SlotOutlivesBind, Fresh
  <2> QED
    BY <1>7, <2>0, <2>2, <2>3 DEF Tick, SlotOutlivesBind
<1>8. CASE UNCHANGED <<table, foe>>
  BY <1>8 DEF table, foe, SlotOutlivesBind, Rewritten, Fresh
<1> QED
  BY <1>1, <1>2, <1>3, <1>4, <1>5, <1>6, <1>7, <1>8, TableWriters, EntryWriters

(* A settled entry that is bound with its own MAC in its slot is chosen    *)
(* exactly when that MAC is the one to clean.                              *)
LEMMA ChosenIffAsked ==
    ASSUME IInv, clean.idx \in settled, CheckEntry
    PROVE  IF want[clean.idx] = clean.mac
           THEN clean' = [clean EXCEPT !.pc = "clear"] ELSE NextEntry
<1> DEFINE f == clean.idx
           e == IF f < ppe_sram_etry_num THEN hwe ELSE Foe(f)
<1>1. Rewritten(f) /\ Fresh(f) /\ f \in FoeIdx
  BY DEF IInv, ScanInv, TypeOK
<1>2. e = Foe(f)
  BY DEF IInv, ScanInv, CheckEntry
<1>3. smacId[f] \in Slot \ {KEEP_SMAC} /\ smac[smacId[f]] = want[f]
  BY <1>1 DEF IInv, SlotOutlivesBind, Rewritten
<1>4. e.state = "BIND" /\ SmacOf(e.smacId) = want[f]
  BY <1>1, <1>2, <1>3 DEF Foe, SmacOf, Rewritten
<1> QED
  BY <1>4 DEF CheckEntry

(* The scan and the others beside it keep what it owes: whoever touches a  *)
(* settled entry takes it off the list.                                    *)
LEMMA ScanStep ==
    ASSUME IInv, [Next]_vars
    PROVE  ScanInv'
<1>0. TypeOK /\ ScanInv
  BY DEF IInv
<1>1. \A f \in settled : f \in FoeIdx /\ state[f] = "BIND"
  BY <1>0 DEF TypeOK, ScanInv, Rewritten
<1>2. ASSUME NEW f \in FoeIdx, ThroughBuffer(f),
             \A g \in FoeIdx \ {f} : /\ state'[g] = state[g] /\ smacId'[g] = smacId[g]
                                     /\ want'[g] = want[g] /\ boundAge'[g] = boundAge[g]
      PROVE  ScanInv'
  <2> SUFFICES ASSUME NEW g \in settled \ {f}
               PROVE  /\ Rewritten(g)' /\ Fresh(g)'
                      /\ g = clean.idx /\ clean.pc = "check" /\ g < ppe_sram_etry_num
                            => hwe' = Foe(g)'
                      /\ g = clean.idx /\ clean.pc = "clear" => want'[g] = clean.mac
                      /\ g < clean.idx /\ g < ppe_sram_etry_num => want'[g] # clean.mac
    BY <1>2 DEF ScanInv, ThroughBuffer
  <2>1. /\ g \in FoeIdx
        /\ state'[g] = state[g] /\ smacId'[g] = smacId[g]
        /\ want'[g] = want[g] /\ boundAge'[g] = boundAge[g]
    BY <1>1, <1>2
  <2>2. Rewritten(g)' /\ Fresh(g)' /\ Foe(g)' = Foe(g)
    BY <1>0, <2>1 DEF ScanInv, Rewritten, Fresh, Foe
  <2>3. g = clean.idx => hwe' = hwe
    BY <1>2 DEF ThroughBuffer
  <2> QED
    BY <1>0, <2>1, <2>2, <2>3 DEF ScanInv
<1>3. ASSUME NEW f \in FoeIdx, NEW m \in Mac, BindRouted(f, m)
      PROVE  ScanInv'
  BY <1>0, <1>2, <1>3 DEF BindRouted, Commit, TypeOK
<1>4. ASSUME NEW f \in FoeIdx, BindBridged(f)
      PROVE  ScanInv'
  BY <1>0, <1>2, <1>4 DEF BindBridged, Commit, TypeOK
<1>5. ASSUME NEW f \in FoeIdx, DeleteEntry(f)
      PROVE  ScanInv'
  BY <1>0, <1>2, <1>5 DEF DeleteEntry, Leaves, TypeOK
<1>6. ASSUME UNCHANGED <<foe, scan>>
      PROVE  ScanInv'
  BY <1>0, <1>6 DEF foe, scan, ScanInv, Rewritten, Fresh, Foe
<1>7. ASSUME NEW f \in FoeIdx, HwLearn(f)
      PROVE  ScanInv'
  BY <1>0, <1>1, <1>7 DEF HwLearn, scan, TypeOK, ScanInv, Rewritten, Fresh, Foe
<1>8. ASSUME NEW f \in FoeIdx, HwRetire(f)
      PROVE  ScanInv'
  BY <1>0, <1>8 DEF HwRetire, Leaves, TypeOK, ScanInv, Rewritten, Fresh, Foe
<1>9. CASE Tick
  <2>1. \A f \in settled : Older(boundAge[f]) \in Int
    BY <1>0, <1>1, TimeAssumption DEF Older, TypeOK, Age
  <2>2. \A f \in settled' : /\ f \in settled /\ boundAge'[f] <= timeOutVal
                            /\ UNCHANGED <<state[f], smacId[f], want[f]>>
    BY <1>1, <1>9, <2>1, TimeAssumption DEF Tick
  <2> QED
    BY <1>0, <1>9, <2>2 DEF Tick, ScanInv, Rewritten, Fresh, Foe
<1>10. ASSUME NEW m \in Mac, CleanBySrcMac(m)
       PROVE  ScanInv'
  BY <1>10 DEF CleanBySrcMac, Idle, foe, ScanInv, Rewritten, Fresh, FoeIdx
<1>11. CASE GetEntry \/ Refresh
  BY <1>0, <1>11 DEF GetEntry, Refresh, Buffer, foe, TypeOK, ScanInv, Rewritten, Fresh, Foe
<1>12. CASE GetEntryFails \/ CleanReturns
  BY <1>12 DEF GetEntryFails, CleanReturns, ScanInv
<1>13. CASE CheckEntry
  <2>1. clean.idx \in Int /\ \A f \in settled : f \in Int
    BY <1>0, <1>1 DEF TypeOK, FoeIdx
  <2>2. UNCHANGED foe /\ settled' = settled
    BY <1>13 DEF CheckEntry
  <2>3. \A f \in settled : Rewritten(f)' /\ Fresh(f)'
    BY <1>0, <2>2 DEF foe, ScanInv, Rewritten, Fresh
  <2>4. CASE NextEntry
    <3>1. clean'.idx = clean.idx + 1 /\ clean'.pc = "get" /\ clean'.mac = clean.mac
      BY <1>0, <2>4 DEF NextEntry, TypeOK
    <3>2. clean.idx \in settled => want[clean.idx] # clean.mac
      <4>1. clean' # [clean EXCEPT !.pc = "clear"]
        BY <1>0, <3>1 DEF TypeOK
      <4> QED
        BY <1>13, <4>1, ChosenIffAsked
    <3> QED
      BY <1>0, <2>1, <2>2, <2>3, <3>1, <3>2 DEF foe, ScanInv
  <2>5. CASE ~NextEntry
    <3>1. clean' = [clean EXCEPT !.pc = "clear"]
      BY <1>13, <2>5 DEF CheckEntry
    <3>2. clean.idx \in settled => want[clean.idx] = clean.mac
      BY <1>13, <2>5, ChosenIffAsked
    <3>3. clean'.idx = clean.idx /\ clean'.pc = "clear" /\ clean'.mac = clean.mac
      BY <1>0, <3>1 DEF TypeOK
    <3> QED
      BY <1>0, <2>2, <2>3, <3>2, <3>3 DEF foe, ScanInv
  <2> QED
    BY <2>4, <2>5
<1>14. CASE ClearEntry
  <2>1. clean.idx \in Int /\ \A f \in settled : f \in Int
    BY <1>0, <1>1 DEF TypeOK, FoeIdx
  <2>2. clean'.idx = clean.idx + 1 /\ clean'.pc = "get" /\ clean'.mac = clean.mac
    BY <1>0, <1>14 DEF ClearEntry, NextEntry, TypeOK
  <2>3. \A f \in settled' : /\ f \in settled
                            /\ f = clean.idx => ~(f < ppe_sram_etry_num)
                            /\ UNCHANGED <<state[f], smacId[f], want[f], boundAge[f]>>
    BY <1>0, <1>1, <1>14 DEF ClearEntry, Leaves, foe, TypeOK
  <2>4. \A f \in settled' : Rewritten(f)' /\ Fresh(f)'
    BY <1>0, <2>3 DEF ScanInv, Rewritten, Fresh
  <2> QED
    BY <1>0, <2>1, <2>2, <2>3, <2>4 DEF ScanInv
<1> QED
  BY <1>3, <1>4, <1>5, <1>6, <1>7, <1>8, <1>9, <1>10, <1>11, <1>12, <1>13, <1>14
     DEF Next, CleanStep, vars, SetPonMac, Dump

(* Each step keeps the whole inductive invariant. *)
LEMMA IInvStep == IInv /\ [Next]_vars => IInv'
BY TypeStep, PonPinnedStep, NoDuplicateStep, SlotOutlivesBindStep, ScanStep DEF IInv

(* The inductive invariant holds in every reachable state. *)
LEMMA Inductive == Spec => []IInv
BY IInvInit, IInvStep, PTL DEF Spec

(* For timeOutVal after its bind, an entry's slot holds the MAC its binder *)
(* asked for, and no MAC is ever given two slots: find_and_update and      *)
(* reuse_shrink_table keep both, however many MACs compete for the table.  *)
THEOREM BoundMacFreshHolds == Spec => []BoundMacFresh
<1>1. IInv => BoundMacFresh
  BY DEF IInv, SlotOutlivesBind, BoundMacFresh
<1> QED
  BY <1>1, Inductive, PTL

(* The lookup never grants a second slot to a MAC that has one. *)
THEOREM NoDuplicateSmacHolds == Spec => []NoDuplicateSmac
<1>1. IInv => NoDuplicateSmac
  BY DEF IInv
<1> QED
  BY <1>1, Inductive, PTL

-----------------------------------------------------------------------------
(* What a step may never do. *)

(* find_and_update_shrink_table gives up, and its caller binds the entry   *)
(* with a stale field, only when no slot is free, matching or timed out.   *)
THEOREM FailsOnlyWhenFullHolds == Spec => FailsOnlyWhenFull
<1>1. TypeOK /\ [Next]_vars => [FullWhenFailing]_vars
  <2> SUFFICES ASSUME TypeOK, [Next]_vars, NEW f \in FoeIdx, NEW i \in Slot,
                      state[f] = "UNBIND", state'[f] = "BIND", want'[f] = NoMac
               PROVE  valid[i] /\ (pinned[i] \/ age[i] <= timeOutVal)
    BY DEF FullWhenFailing
  <2>0. PICK m \in Mac : BindRouted(f, m)
    <3>1. \A g \in FoeIdx : BindBridged(g) => want'[g] = KeepMac
      BY DEF BindBridged, TypeOK
    <3>2. \A g \in FoeIdx : (BindBridged(g) \/ \E m \in Mac : BindRouted(g, m))
            => \A h \in FoeIdx \ {g} : state'[h] = state[h]
      BY DEF BindBridged, BindRouted, Commit, TypeOK
    <3>3. \A g \in FoeIdx : Leaves(g) \/ HwLearn(g) => state'[f] # "BIND"
      BY DEF Leaves, HwLearn, TypeOK
    <3>4. Tick \/ Dump \/ (\E m \in Mac : SetPonMac(m)) \/ UNCHANGED foe => state' = state
      BY DEF Tick, Dump, SetPonMac, foe
    <3> QED
      BY <3>1, <3>2, <3>3, <3>4, MacAssumption, TableWriters, EntryWriters
  <2>1. FoundIndex(m) = NoSlot
    BY <2>0, MacAssumption DEF BindRouted, TypeOK
  <2>2. i \notin Free(m)
    BY <2>1, FoundIndexCases
  <2>3. Match(m) = {}
    BY <2>1, FoundIndexCases
  <2>4. valid[i] /\ ~TimedOut(i)
    BY <2>2, <2>3 DEF Free, LoopValid, TypeOK
  <2>5. age[i] \in Int /\ timeOutVal \in Int
    BY TimeAssumption DEF TypeOK, Age
  <2> QED
    BY <2>4, <2>5 DEF TimedOut
<1> QED
  BY <1>1, TypeCorrect, PTL DEF FailsOnlyWhenFull, Spec

(* The slot airoha_pon_set_macaddr pinned survives every lookup, timeout   *)
(* and dump, and only the next PON MAC rewrites it.                        *)
THEOREM PinnedStaysHolds == Spec => PinnedStays
<1>1. IInv /\ [Next]_vars => [PinnedSlotKept]_vars
  <2> SUFFICES ASSUME IInv, Next, NEW i \in Slot, pinned[i]
               PROVE  /\ pinned'[i] /\ valid'[i]
                      /\ smac'[i] = smac[i] \/ \E m \in Mac : SetPonMac(m)
    BY DEF PinnedSlotKept
  <2>1. valid[i] /\ ~TimedOut(i) /\ ~Expired(i, age)
    BY DEF IInv, OnlyPonPinned, TimedOut, Expired
  <2>2. ASSUME NEW f \in FoeIdx, NEW m \in Mac, BindRouted(f, m)
        PROVE  pinned'[i] /\ valid'[i] /\ smac'[i] = smac[i]
    <3>1. TypeOK /\ FindAndUpdate(m)
      BY <2>2 DEF IInv, BindRouted
    <3>2. i = FoundIndex(m) => smac[i] = m
      BY <2>1, <3>1, LeasedOnlyMatches
    <3> QED
      BY <2>1, <3>1, <3>2, LookupEffect
  <2>3. ASSUME NEW m \in Mac, SetPonMac(m)
        PROVE  pinned'[i] /\ valid'[i]
    BY <2>1, <2>3 DEF SetPonMac, IInv, TypeOK
  <2>4. CASE Dump
    BY <2>1, <2>4 DEF Dump, ReusedValid
  <2>5. CASE Tick \/ UNCHANGED table
    BY <2>1, <2>5 DEF Tick, table
  <2> QED
    BY <2>2, <2>3, <2>4, <2>5, TableWriters
<1> QED
  BY <1>1, Inductive, PTL DEF Spec, PinnedStays

(* Of the flows in SRAM that were bound before the clean began and that    *)
(* nobody else touches, airoha_ppe_clean_entry_by_mac_common clears those  *)
(* bound to the MAC and no others, though slots change hands meanwhile.    *)
THEOREM CleanBySrcMacExactHolds == Spec => CleanBySrcMacExact
<1>1. IInv => CleanIsExact
  <2> SUFFICES ASSUME IInv
               PROVE  CleanIsExact
    OBVIOUS
  <2>1. ASSUME ClearEntry, clean.idx \in settled
        PROVE  want[clean.idx] = clean.mac
    BY <2>1 DEF IInv, ScanInv, ClearEntry
  <2>2. ASSUME CleanReturns, NEW f \in settled, f < ppe_sram_etry_num
        PROVE  want[f] # clean.mac
    <3>1. f \in FoeIdx
      BY DEF IInv, TypeOK
    <3>2. f < clean.idx
      BY <2>2, <3>1, FoeAssumption DEF CleanReturns, FoeIdx
    <3> QED
      BY <2>2, <3>2 DEF IInv, ScanInv
  <2> QED
    BY <2>1, <2>2 DEF CleanIsExact
<1> QED
  BY <1>1, Inductive, PTL DEF CleanBySrcMacExact

-----------------------------------------------------------------------------
(* The table implements SmacLease: a bind is a grant or, when the lookup   *)
(* fails, drops what timed out; a dump drops; the PON interface fixes its  *)
(* slot; the rest of the system does not touch a lease.                    *)

ownerBar == [i \in Slot |-> IF valid[i] THEN smac[i] ELSE NoMac]

(* A routed bind that finds a slot grants it; one that finds none only     *)
(* drops lapsed leases.                                                    *)
LEMMA BindGrants ==
    ASSUME IInv, NEW f \in FoeIdx, NEW m \in Mac, BindRouted(f, m)
    PROVE  Lease!Next
<1> DEFINE r == FoundIndex(m)
<1>0. PICK D \in SUBSET Slot : D = {i \in Slot : i # r /\ valid[i] /\ ~valid'[i]}
  OBVIOUS
<1> USE <1>0 DEF IInv, TypeOK
<1>1. TypeOK /\ FindAndUpdate(m)
  BY DEF BindRouted
<1>2. D \subseteq Lease!Lapsed
  BY <1>1, LookupEffect DEF Lease!Lapsed, TimedOut
<1>3. \A i \in Slot : i # r =>
        /\ ownerBar'[i] = (IF i \in D THEN NoMac ELSE ownerBar[i])
        /\ age'[i] = age[i]
  BY <1>1, LookupEffect DEF ownerBar
<1>4. CASE r = NoSlot
  <2>1. \A i \in Slot : i # r
    BY <1>4 DEF NoSlot, Slot
  <2>2. age' = age /\ pinned' = pinned
    BY <1>1, <2>1 DEF FindAndUpdate, Stamped
  <2>3. ownerBar' = [i \in Slot |-> IF i \in D THEN NoMac ELSE ownerBar[i]]
    BY <1>3, <2>1 DEF ownerBar
  <2>4. Lease!Drop
    BY <1>2, <2>2, <2>3 DEF Lease!Drop, Lease!Without, ownerBar
  <2> QED
    BY <2>4 DEF Lease!Next
<1>5. CASE r \in Slot
  <2>1. ownerBar'[r] = m /\ age'[r] = 0 /\ pinned' = pinned
    BY <1>1, <1>5, LookupEffect DEF ownerBar
  <2>2. ownerBar' = [[i \in Slot |-> IF i \in D THEN NoMac ELSE ownerBar[i]] EXCEPT ![r] = m]
    BY <1>3, <1>5, <2>1 DEF ownerBar
  <2>3. age' = [age EXCEPT ![r] = 0]
    BY <1>1, <1>5 DEF FindAndUpdate, Stamped
  <2>4. \/ ownerBar[r] = m
        \/ /\ ownerBar[r] = NoMac \/ r \in Lease!Lapsed
           /\ \A j \in Slot : ownerBar[j] # m
    <3>1. CASE Match(m) # {}
      <4>1. r \in Match(m)
        BY <3>1, FoundIndexCases
      <4> QED
        BY <1>5, <4>1 DEF Match, ownerBar
    <3>2. CASE Match(m) = {}
      <4>1. \A j \in Slot : ownerBar[j] # m
        BY <3>2, MacAssumption DEF Match, ownerBar
      <4>2. r \in Free(m)
        <5>1. r # NoSlot
          BY <1>5 DEF NoSlot, Slot
        <5> QED
          BY <5>1, <3>2, FoundIndexCases
      <4>3. ~valid[r] \/ TimedOut(r)
        BY <4>2 DEF Free, LoopValid
      <4>4. ownerBar[r] = NoMac \/ r \in Lease!Lapsed
        BY <1>5, <4>3 DEF ownerBar, TimedOut, Lease!Lapsed
      <4> QED
        BY <4>1, <4>4
    <3> QED
      BY <3>1, <3>2
  <2>5. ownerBar' = [Lease!Without(D) EXCEPT ![r] = m]
    BY <2>2 DEF Lease!Without, ownerBar
  <2>6. \E E \in SUBSET Lease!Lapsed : ownerBar' = [Lease!Without(E) EXCEPT ![r] = m]
    BY Zenon, <1>2, <2>5
  <2>7. Lease!Grant(r, m)
    BY Zenon, <2>1, <2>3, <2>4, <2>6 DEF Lease!Grant, ownerBar
  <2> QED
    BY <1>5, <2>7 DEF Lease!Next
<1> QED
  BY <1>4, <1>5, FoundIndexCases

(* find_and_update_shrink_table, reuse_shrink_table, UpdateShrinkTable and *)
(* the dump together keep the promise of SmacLease: one running lease per  *)
(* MAC, and none taken away before its time.                               *)
THEOREM ImplementsLease == Spec => LeaseSpec
<1>1. Init => Lease!Init
  BY DEF Init, Lease!Init
<1>2. IInv /\ [Next]_vars => [Lease!Next]_(Lease!vars)
  <2> SUFFICES ASSUME IInv, [Next]_vars
               PROVE  Lease!Next \/ UNCHANGED Lease!vars
    OBVIOUS
  <2> USE DEF IInv, TypeOK
  <2>1. ASSUME NEW f \in FoeIdx, NEW m \in Mac, BindRouted(f, m)
        PROVE  Lease!Next
    BY <2>1, BindGrants
  <2>2. ASSUME NEW m \in Mac, SetPonMac(m)
        PROVE  Lease!Next
    <3>1. ownerBar' = [ownerBar EXCEPT ![SMAC_PON_IDX] = m]
      BY <2>2, SlotAssumption DEF SetPonMac, ownerBar, Slot
    <3>2. Lease!Fix(m)
      BY <2>2, <3>1 DEF SetPonMac, Lease!Fix, ownerBar
    <3> QED
      BY <3>2 DEF Lease!Next
  <2>3. CASE Dump
    <3>0. PICK D \in SUBSET Slot : D = {i \in Slot : valid[i] /\ ~valid'[i]}
      OBVIOUS
    <3> USE <3>0
    <3>1. D \subseteq Lease!Lapsed
      BY <2>3 DEF Dump, ReusedValid, Expired, Lease!Lapsed
    <3>2. ownerBar' = [i \in Slot |-> IF i \in D THEN NoMac ELSE ownerBar[i]]
      BY <2>3 DEF Dump, ReusedValid, ownerBar
    <3>3. Lease!Drop
      BY <2>3, <3>1, <3>2 DEF Dump, Lease!Drop, Lease!Without, ownerBar
    <3> QED
      BY <3>3 DEF Lease!Next
  <2>4. CASE Tick
    BY <2>4 DEF Tick, Older, Lease!Tick, Lease!Next
  <2>5. CASE UNCHANGED table
    BY <2>5 DEF table, Lease!vars
  <2> QED
    BY <2>1, <2>2, <2>3, <2>4, <2>5, TableWriters
<1> QED
  BY <1>1, <1>2, Inductive, PTL DEF Spec, LeaseSpec, Lease!Spec
=============================================================================
