--------------------------- MODULE L2bEtype_proofs --------------------------
(***************************************************************************)
(* Theorems about the ether-type filter, for any number of slots, any list *)
(* of ether types and any number of writers that interleave register by    *)
(* register: what the registers held at boot is still there; and, as long  *)
(* as no two writes have met, mac_swap on means that every ether type is   *)
(* installed, off that nothing of it is left.                              *)
(***************************************************************************)
EXTENDS L2bEtype, SetLemmas

(* The slots a scan may take, and the ether types a switch goes on to.     *)
LEMMA LeastOf ==
    ASSUME NEW S \in SUBSET Slot, S # {}
    PROVE  Min(S) \in S
BY MinIsLeast, SlotAssumption DEF Slot

LEMMA LeastPosition ==
    ASSUME NEW S \in SUBSET Position, S # {}
    PROVE  Min(S) \in S
BY MinIsLeast, EtypeAssumption DEF Position

LEMMA GreatestPosition ==
    ASSUME NEW S \in SUBSET Position, S # {}
    PROVE  Max(S) \in S
<1>1. Len(Etypes) \in Nat /\ S \in SUBSET (0 .. Len(Etypes))
  BY EtypeAssumption DEF Position
<1> QED
  BY <1>1, MaxIsGreatest

-----------------------------------------------------------------------------
(* What the registers held at boot, and what they may not be used for. *)
Pre(s) == boot.val[s] # 0

(* An ether type that was installed at boot: the switch leaves it alone.   *)
Had(k) == \E s \in Slot : s \in boot.en /\ boot.val[s] = Etypes[k].value /\ ~Etypes[k].pppoe

Kept == \A s \in Slot : Pre(s) =>
    /\ val[s] = boot.val[s]
    /\ s \in en <=> s \in boot.en
    /\ s \notin pppoe

(* A writer that has chosen a slot has not chosen one of them, and what it *)
(* has read of the registers is what boot left in the others.              *)
ChoseFree(w) ==
    /\ step[w] \in {"rdEn", "wrEn", "rdVal", "wrVal"} => ~Pre(slot[w])
    /\ step[w] = "wrEn" => \A s \in Slot : Pre(s) =>
         /\ s \in readEn[w].en <=> s \in boot.en
         /\ s \notin readEn[w].pppoe
    /\ step[w] = "wrVal" => \A s \in Register(slot[w]) : Pre(s) => readVal[w][s] = boot.val[s]

(* An ether type that is installed or removed was not there at boot: the   *)
(* scan of an enable would have found it, and the others go by what enable *)
(* has recorded.                                                           *)
NotHad(w) ==
    /\ phase[w] = "enable" /\ step[w] # "find" => ~Had(at[w])
    /\ phase[w] \in {"rollback", "disable"} => ~Had(at[w])
    /\ phase[w] \in {"enable", "rollback"} =>
         \A j \in Position : j < at[w] /\ Had(j) => existed[w][j]

EtypeInv ==
    /\ Kept
    /\ \A k \in Position : index[k] # INVALID_INDEX => ~Had(k)
    /\ \A w \in Writer : ChoseFree(w) /\ NotHad(w)

LEMMA HadMatches ==
    ASSUME TypeOK, Kept, NEW k \in Position, Had(k)
    PROVE  Matching(k) # {}
<1>1. PICK s \in Slot : s \in boot.en /\ boot.val[s] = Etypes[k].value /\ ~Etypes[k].pppoe
  BY DEF Had
<1>2. Pre(s)
  BY <1>1, EtypeAssumption DEF Pre, Position
<1>3. s \in Matching(k)
  BY <1>1, <1>2, EtypeAssumption DEF Kept, Matching, Position
<1> QED
  BY <1>3

LEMMA MatchIsNotPre ==
    ASSUME TypeOK, Kept, NEW k \in Position, ~Had(k), NEW s \in Matching(k)
    PROVE  ~Pre(s)
<1>1. s \in Slot /\ s \in en /\ val[s] = Etypes[k].value /\ (s \in pppoe <=> Etypes[k].pppoe)
  BY DEF Matching
<1> QED
  BY <1>1 DEF Kept, Had

LEMMA FreeIsNotPre ==
    ASSUME TypeOK, Kept, NEW s \in FreeSlots
    PROVE  ~Pre(s)
BY DEF FreeSlots, Kept, Pre

-----------------------------------------------------------------------------
(* A step of writer w that ends with a scan ahead of it leaves the other   *)
(* writers where they are.                                                 *)
GoesOn(w) ==
    /\ phase' \in [Writer -> Phase] /\ step' \in [Writer -> Step] /\ at' \in [Writer -> Position]
    /\ macSwap' \in BOOLEAN
    /\ step'[w] = "find"
    /\ \A x \in Writer \ {w} : phase'[x] = phase[x] /\ step'[x] = step[x] /\ at'[x] = at[x]

LEMMA GoToGoesOn ==
    ASSUME TypeOK, NEW w \in Writer, NEW p \in Phase, NEW k \in Position, GoTo(w, p, k), macSwap' \in BOOLEAN
    PROVE  GoesOn(w) /\ phase'[w] = p /\ at'[w] = k
BY DEF TypeOK, GoTo, GoesOn, Step

LEMMA IdleGoesOn ==
    ASSUME TypeOK, NEW w \in Writer, Idle(w), macSwap' \in BOOLEAN
    PROVE  GoesOn(w) /\ phase'[w] = "idle"
BY DEF TypeOK, Idle, GoesOn, Step, Phase

LEMMA EnableGoesOn ==
    ASSUME TypeOK, NEW w \in Writer, NEW k \in Position, AfterEnable(w, k),
           UNCHANGED boot, \A j \in Position : j <= k /\ Had(j) => existed'[w][j]
    PROVE  GoesOn(w) /\ NotHad(w)'
<1>1. CASE k < Len(Etypes)
  <2>1. k + 1 \in Position
    BY <1>1, EtypeAssumption DEF Position
  <2>2. GoTo(w, "enable", k + 1) /\ macSwap' \in BOOLEAN
    BY <1>1 DEF AfterEnable, TypeOK
  <2>3. GoesOn(w) /\ phase'[w] = "enable" /\ at'[w] = k + 1
    BY <2>1, <2>2, GoToGoesOn DEF Phase
  <2>4. \A j \in Position : j < k + 1 => j <= k
    BY EtypeAssumption DEF Position
  <2> QED
    BY <2>3, <2>4 DEF NotHad, GoesOn, Had
<1>2. CASE ~(k < Len(Etypes))
  <2>1. GoesOn(w) /\ phase'[w] = "idle"
    BY <1>2, IdleGoesOn DEF AfterEnable
  <2> QED
    BY <2>1 DEF NotHad
<1> QED
  BY <1>1, <1>2

LEMMA RollbackGoesOn ==
    ASSUME TypeOK, NEW w \in Writer, NEW k \in Position, AfterRollback(w, k), UNCHANGED <<boot, existed>>,
           \A j \in Position : j < k /\ Had(j) => existed[w][j]
    PROVE  GoesOn(w) /\ NotHad(w)'
<1> DEFINE left == {j \in Position : j < k /\ ~existed[w][j]}
<1>0. macSwap' \in BOOLEAN
  BY DEF AfterRollback, TypeOK
<1>1. CASE left # {}
  <2>1. Max(left) \in left
    <3> HIDE DEF left
    <3>1. left \in SUBSET Position
      BY DEF left
    <3> QED
      BY <1>1, <3>1, GreatestPosition
  <2>2. GoTo(w, "rollback", Max(left))
    BY <1>1 DEF AfterRollback
  <2>3. PICK j \in Position : j = Max(left) /\ j < k /\ ~existed[w][j]
    BY <2>1
  <2>4. GoesOn(w) /\ phase'[w] = "rollback" /\ at'[w] = j
    BY <1>0, <2>2, <2>3, GoToGoesOn DEF Phase
  <2>5. \A i \in Position : i < j => i < k
    BY <2>3, EtypeAssumption DEF Position
  <2>6. ~Had(j)
    BY <2>3
  <2> QED
    BY <2>4, <2>5, <2>6 DEF NotHad, GoesOn, Had
<1>2. CASE left = {}
  <2>1. GoesOn(w) /\ phase'[w] = "idle"
    BY <1>0, <1>2, IdleGoesOn DEF AfterRollback
  <2> QED
    BY <2>1 DEF NotHad
<1> QED
  BY <1>1, <1>2

LEMMA DisableGoesOn ==
    ASSUME TypeOK, NEW w \in Writer, NEW k, NEW idx, AfterDisable(w, k, idx), UNCHANGED boot,
           \A j \in Position : idx[j] # INVALID_INDEX => ~Had(j)
    PROVE  GoesOn(w) /\ NotHad(w)'
<1> DEFINE left == {j \in Position : j > k /\ idx[j] # INVALID_INDEX}
<1>1. CASE left # {}
  <2>1. Min(left) \in left
    <3> HIDE DEF left
    <3>1. left \in SUBSET Position
      BY DEF left
    <3> QED
      BY <1>1, <3>1, LeastPosition
  <2>2. GoTo(w, "disable", Min(left)) /\ macSwap' \in BOOLEAN
    BY <1>1 DEF AfterDisable, TypeOK
  <2>3. PICK j \in Position : j = Min(left) /\ ~Had(j)
    BY <2>1
  <2>4. GoesOn(w) /\ phase'[w] = "disable" /\ at'[w] = j
    BY <2>2, <2>3, GoToGoesOn DEF Phase
  <2> QED
    BY <2>3, <2>4 DEF NotHad, GoesOn, Had
<1>2. CASE left = {}
  <2>1. GoesOn(w) /\ phase'[w] = "idle"
    BY <1>2, IdleGoesOn DEF AfterDisable
  <2> QED
    BY <2>1 DEF NotHad
<1> QED
  BY <1>1, <1>2

-----------------------------------------------------------------------------
(* What a step must keep of the invariant, when it is writer w's.          *)
KeepsWith(w) ==
    /\ TypeOK' /\ Kept' /\ boot' = boot
    /\ \A k \in Position : index'[k] # INVALID_INDEX => ~Had(k)
    /\ ChoseFree(w)' /\ NotHad(w)'
    /\ \A x \in Writer \ {w} :
        /\ phase'[x] = phase[x] /\ step'[x] = step[x] /\ at'[x] = at[x] /\ slot'[x] = slot[x]
        /\ readEn'[x] = readEn[x] /\ readVal'[x] = readVal[x] /\ existed'[x] = existed[x]

LEMMA KeepsEtypeInv ==
    ASSUME EtypeInv, NEW w \in Writer, KeepsWith(w)
    PROVE  TypeOK' /\ EtypeInv'
<1>1. Kept' /\ \A k \in Position : index'[k] # INVALID_INDEX => ~Had(k)'
  BY DEF KeepsWith, Had
<1>2. ASSUME NEW x \in Writer PROVE ChoseFree(x)' /\ NotHad(x)'
  <2>1. CASE x = w
    BY <2>1 DEF KeepsWith
  <2>2. CASE x # w
    <3>1. ChoseFree(x) /\ NotHad(x)
      BY DEF EtypeInv
    <3> QED
      BY <2>2, <3>1 DEF KeepsWith, ChoseFree, NotHad, Pre, Had
  <2> QED
    BY <2>1, <2>2
<1> QED
  BY <1>1, <1>2 DEF EtypeInv, KeepsWith

(* Removing an ether type ends with a scan, and forgets the slot.          *)
LEMMA ClearedGoesOn ==
    ASSUME TypeOK, EtypeInv, NEW w \in Writer, Cleared(w), UNCHANGED <<boot, existed>>
    PROVE  /\ GoesOn(w) /\ NotHad(w)'
           /\ index' \in [Position -> Slot \cup {INVALID_INDEX}]
           /\ \A k \in Position : index'[k] # INVALID_INDEX => ~Had(k)
<1>1. at[w] \in Position
  BY DEF TypeOK
<1>2. index' = [index EXCEPT ![at[w]] = INVALID_INDEX]
  BY DEF Cleared
<1>3. index' \in [Position -> Slot \cup {INVALID_INDEX}]
  BY <1>1, <1>2 DEF TypeOK
<1>4. \A k \in Position : index'[k] # INVALID_INDEX => ~Had(k)
  BY <1>1, <1>2 DEF TypeOK, EtypeInv
<1>5. CASE phase[w] = "rollback"
  <2>1. \A j \in Position : j < at[w] /\ Had(j) => existed[w][j]
    BY <1>5 DEF EtypeInv, NotHad
  <2>2. AfterRollback(w, at[w])
    BY <1>5 DEF Cleared
  <2> QED
    BY <1>1, <1>3, <1>4, <2>1, <2>2, RollbackGoesOn
<1>6. CASE phase[w] # "rollback"
  <2>1. AfterDisable(w, at[w], index')
    BY <1>6 DEF Cleared
  <2> QED
    BY <1>3, <1>4, <2>1, DisableGoesOn
<1> QED
  BY <1>5, <1>6

LEMMA WriteOnKeeps ==
    ASSUME TypeOK, EtypeInv, NEW w \in Writer, WriteOn(w)
    PROVE  KeepsWith(w)
<1>1. 1 \in Position
  BY EtypeAssumption DEF Position
<1>2. GoesOn(w) /\ phase'[w] = "enable" /\ at'[w] = 1
  BY <1>1, GoToGoesOn DEF WriteOn, TypeOK, Phase
<1>3. existed' \in [Writer -> [Position -> BOOLEAN]] /\ overlap' \in BOOLEAN
  BY DEF WriteOn, Overlap, TypeOK
<1>4. TypeOK'
  BY <1>2, <1>3 DEF WriteOn, TypeOK, GoesOn, regs
<1>5. NotHad(w)'
  <2>1. \A j \in Position : ~(j < 1)
    BY EtypeAssumption DEF Position
  <2> QED
    BY <1>2, <2>1 DEF NotHad, GoesOn
<1> QED
  BY <1>2, <1>3, <1>4, <1>5 DEF WriteOn, KeepsWith, GoesOn, EtypeInv, Kept, Pre, ChoseFree, regs, TypeOK

LEMMA WriteOffKeeps ==
    ASSUME TypeOK, EtypeInv, NEW w \in Writer, WriteOff(w)
    PROVE  KeepsWith(w)
<1>1. GoesOn(w) /\ NotHad(w)'
  BY DisableGoesOn DEF WriteOff, EtypeInv
<1>2. TypeOK'
  BY <1>1 DEF WriteOff, Overlap, TypeOK, GoesOn, regs, locals
<1> QED
  BY <1>1, <1>2 DEF WriteOff, KeepsWith, GoesOn, EtypeInv, Kept, Pre, ChoseFree, regs, locals

LEMMA FindKeeps ==
    ASSUME TypeOK, EtypeInv, NEW w \in Writer, Find(w)
    PROVE  KeepsWith(w)
<1> DEFINE k == at[w]
<1>0. k \in Position /\ Kept /\ NotHad(w)
  BY DEF TypeOK, EtypeInv
<1>1. UNCHANGED <<regs, history, readEn, readVal>>
  BY DEF Find
<1>2. Kept'
  BY <1>0, <1>1 DEF Kept, Pre, regs, history
<1>3. CASE phase[w] = "enable" /\ Matching(k) # {}
  <2>1. /\ existed' = [existed EXCEPT ![w][k] = TRUE]
        /\ AfterEnable(w, k)
        /\ UNCHANGED <<index, slot>>
    BY <1>3 DEF Find
  <2>2. \A j \in Position : j < k /\ Had(j) => existed[w][j]
    BY <1>0, <1>3 DEF NotHad
  <2>3. \A j \in Position : j <= k /\ Had(j) => existed'[w][j]
    BY <1>0, <2>1, <2>2, EtypeAssumption DEF TypeOK, Position
  <2>4. GoesOn(w) /\ NotHad(w)'
    BY <1>0, <1>1, <2>1, <2>3, EnableGoesOn DEF history
  <2>5. existed' \in [Writer -> [Position -> BOOLEAN]] /\ \A x \in Writer \ {w} : existed'[x] = existed[x]
    BY <1>0, <2>1 DEF TypeOK
  <2>6. TypeOK'
    BY <1>1, <2>1, <2>4, <2>5 DEF TypeOK, GoesOn, regs, history
  <2> QED
    BY <1>1, <1>2, <2>1, <2>4, <2>5, <2>6 DEF KeepsWith, GoesOn, EtypeInv, ChoseFree, history
<1>4. CASE phase[w] = "enable" /\ Matching(k) = {}
  <2>1. /\ step' = [step EXCEPT ![w] = "free"]
        /\ UNCHANGED <<existed, phase, at, macSwap, index, slot>>
    BY <1>4 DEF Find
  <2>2. ~Had(k)
    BY <1>0, <1>4, HadMatches
  <2>3. TypeOK'
    BY <1>1, <2>1 DEF TypeOK, Step, regs, history
  <2>4. NotHad(w)'
    BY <1>0, <1>1, <1>4, <2>1, <2>2 DEF NotHad, Had, TypeOK, history
  <2> QED
    BY <1>1, <1>2, <2>1, <2>3, <2>4 DEF KeepsWith, EtypeInv, ChoseFree, TypeOK, history
<1>5. CASE phase[w] # "enable" /\ Matching(k) # {}
  <2>1. /\ slot' = [slot EXCEPT ![w] = Min(Matching(k))]
        /\ step' = [step EXCEPT ![w] = "rdEn"]
        /\ UNCHANGED <<phase, at, macSwap, index, existed>>
    BY <1>5 DEF Find
  <2>2. ~Had(k)
    BY <1>0, <1>5 DEF NotHad, Find, TypeOK, Phase
  <2>3. Min(Matching(k)) \in Matching(k) /\ Min(Matching(k)) \in Slot
    BY <1>5, LeastOf DEF Matching
  <2>4. ~Pre(Min(Matching(k)))
    BY <1>0, <2>2, <2>3, MatchIsNotPre
  <2>5. TypeOK'
    BY <1>1, <2>1, <2>3 DEF TypeOK, Step, regs, history
  <2>6. NotHad(w)'
    BY <1>0, <1>1, <1>5, <2>1, <2>2 DEF NotHad, Had, TypeOK, history
  <2>7. ChoseFree(w)'
    BY <1>1, <2>1, <2>4 DEF ChoseFree, Pre, TypeOK, history
  <2> QED
    BY <1>1, <1>2, <2>1, <2>5, <2>6, <2>7 DEF KeepsWith, EtypeInv, TypeOK, history
<1>6. CASE phase[w] # "enable" /\ Matching(k) = {}
  <2>1. Cleared(w) /\ UNCHANGED <<slot, existed>>
    BY <1>6 DEF Find
  <2>2. /\ GoesOn(w) /\ NotHad(w)'
        /\ index' \in [Position -> Slot \cup {INVALID_INDEX}]
        /\ \A i \in Position : index'[i] # INVALID_INDEX => ~Had(i)
    BY <1>1, <2>1, ClearedGoesOn DEF history
  <2>3. TypeOK'
    BY <1>1, <2>1, <2>2 DEF TypeOK, GoesOn, regs, history
  <2> QED
    BY <1>1, <1>2, <2>1, <2>2, <2>3 DEF KeepsWith, GoesOn, ChoseFree, history
<1> QED
  BY <1>3, <1>4, <1>5, <1>6

LEMMA FindFreeKeeps ==
    ASSUME TypeOK, EtypeInv, NEW w \in Writer, FindFree(w)
    PROVE  KeepsWith(w)
<1>0. at[w] \in Position /\ Kept /\ NotHad(w)
  BY DEF TypeOK, EtypeInv
<1>1. /\ UNCHANGED <<regs, history, index, readEn, readVal, existed>>
      /\ phase[w] = "enable" /\ step[w] = "free"
  BY DEF FindFree
<1>2. Kept'
  BY <1>0, <1>1 DEF Kept, Pre, regs, history
<1>3. CASE FreeSlots # {}
  <2>1. /\ slot' = [slot EXCEPT ![w] = Min(FreeSlots)]
        /\ step' = [step EXCEPT ![w] = "rdEn"]
        /\ UNCHANGED <<phase, at, macSwap>>
    BY <1>3 DEF FindFree
  <2>2. Min(FreeSlots) \in FreeSlots /\ Min(FreeSlots) \in Slot
    BY <1>3, LeastOf DEF FreeSlots
  <2>3. ~Pre(Min(FreeSlots))
    BY <1>0, <2>2, FreeIsNotPre
  <2>4. TypeOK'
    BY <1>1, <2>1, <2>2 DEF TypeOK, Step, regs, history
  <2>5. NotHad(w)'
    BY <1>0, <1>1, <2>1 DEF NotHad, Had, TypeOK, history
  <2>6. ChoseFree(w)'
    BY <1>1, <2>1, <2>3 DEF ChoseFree, Pre, TypeOK, history
  <2> QED
    BY <1>1, <1>2, <2>1, <2>4, <2>5, <2>6 DEF KeepsWith, EtypeInv, TypeOK, history
<1>4. CASE FreeSlots = {}
  <2>1. AfterRollback(w, at[w]) /\ UNCHANGED slot
    BY <1>4 DEF FindFree
  <2>2. \A j \in Position : j < at[w] /\ Had(j) => existed[w][j]
    BY <1>0, <1>1 DEF NotHad
  <2>3. GoesOn(w) /\ NotHad(w)'
    BY <1>0, <1>1, <2>1, <2>2, RollbackGoesOn DEF history
  <2>4. TypeOK'
    BY <1>1, <2>1, <2>3 DEF TypeOK, GoesOn, regs, history
  <2> QED
    BY <1>1, <1>2, <2>1, <2>3, <2>4 DEF KeepsWith, GoesOn, EtypeInv, ChoseFree, history
<1> QED
  BY <1>3, <1>4

(* The three accesses that leave the ether type and the driver's           *)
(* variables alone: what is left to show is about the registers.           *)
LEMMA AccessKeeps ==
    ASSUME TypeOK, EtypeInv, NEW w \in Writer, Kept', NEW p \in Step \ {"find"}, step[w] # "find",
           UNCHANGED <<history, macSwap, index, phase, at, slot, existed>>,
           step' = [step EXCEPT ![w] = p],
           en' \subseteq Slot, pppoe' \subseteq Slot, val' \in [Slot -> Values],
           readEn' \in [Writer -> [en : SUBSET Slot, pppoe : SUBSET Slot]],
           readVal' \in [Writer -> [Slot -> Values]],
           \A x \in Writer \ {w} : readEn'[x] = readEn[x] /\ readVal'[x] = readVal[x],
           ChoseFree(w)'
    PROVE  KeepsWith(w)
<1>1. TypeOK'
  BY DEF TypeOK, history
<1>2. NotHad(w)'
  BY DEF EtypeInv, NotHad, Had, TypeOK, history
<1> QED
  BY <1>1, <1>2 DEF KeepsWith, EtypeInv, TypeOK, history

LEMMA ReadEnKeeps ==
    ASSUME TypeOK, EtypeInv, NEW w \in Writer, ReadEn(w)
    PROVE  KeepsWith(w)
<1>1. Kept' /\ UNCHANGED <<regs, boot, slot>>
  BY DEF EtypeInv, ReadEn, Kept, Pre, regs, history
<1>2. readEn' \in [Writer -> [en : SUBSET Slot, pppoe : SUBSET Slot]]
  BY DEF TypeOK, ReadEn
<1>3. readEn'[w] = [en |-> en, pppoe |-> pppoe]
  BY DEF TypeOK, ReadEn
<1>4. step' = [step EXCEPT ![w] = "wrEn"] /\ step'[w] = "wrEn"
  BY DEF TypeOK, ReadEn
<1>5. ~Pre(slot[w])
  BY DEF EtypeInv, ChoseFree, ReadEn
<1>6. ChoseFree(w)'
  BY <1>1, <1>3, <1>4, <1>5 DEF EtypeInv, ChoseFree, Kept, Pre
<1> QED
  BY <1>1, <1>2, <1>4, <1>6, AccessKeeps DEF ReadEn, TypeOK, Step, regs

LEMMA WriteEnKeeps ==
    ASSUME TypeOK, EtypeInv, NEW w \in Writer, WriteEn(w)
    PROVE  KeepsWith(w)
<1>1. UNCHANGED <<val, boot, slot, readVal>> /\ ~Pre(slot[w]) /\ slot[w] \in Slot
  BY DEF EtypeInv, ChoseFree, WriteEn, TypeOK, history
<1>2. readEn[w] \in [en : SUBSET Slot, pppoe : SUBSET Slot]
  BY DEF TypeOK
<1>3. en' \subseteq Slot /\ pppoe' \subseteq Slot
  BY <1>1, <1>2 DEF WriteEn, WithBit
<1>4. \A s \in Slot : Pre(s) => (s \in readEn[w].en <=> s \in boot.en) /\ s \notin readEn[w].pppoe
  BY DEF EtypeInv, ChoseFree, WriteEn
<1>5. Kept'
  <2>1. \A s \in Slot : Pre(s) => s # slot[w] /\ val[s] = boot.val[s]
    BY <1>1 DEF EtypeInv, Kept
  <2>2. \A s \in Slot : Pre(s) => (s \in en' <=> s \in boot.en) /\ s \notin pppoe'
    BY <1>4, <2>1 DEF WriteEn, WithBit
  <2> QED
    BY <1>1, <2>1, <2>2 DEF Kept, Pre
<1>6. /\ readEn' \in [Writer -> [en : SUBSET Slot, pppoe : SUBSET Slot]]
      /\ \A x \in Writer \ {w} : readEn'[x] = readEn[x]
  BY DEF TypeOK, WriteEn, NoEn
<1>7. step' = [step EXCEPT ![w] = "rdVal"] /\ step'[w] = "rdVal" /\ step[w] # "find"
  BY DEF TypeOK, WriteEn
<1>8. ChoseFree(w)'
  BY <1>1, <1>7 DEF ChoseFree, Pre
<1>9. /\ UNCHANGED <<history, macSwap, index, phase, at, slot, existed>>
      /\ val' \in [Slot -> Values] /\ readVal' \in [Writer -> [Slot -> Values]]
      /\ \A x \in Writer \ {w} : readVal'[x] = readVal[x]
  BY DEF WriteEn, TypeOK
<1>10. "rdVal" \in Step \ {"find"}
  BY DEF Step
<1> QED
  BY <1>3, <1>5, <1>6, <1>7, <1>8, <1>9, <1>10, AccessKeeps

LEMMA ReadValKeeps ==
    ASSUME TypeOK, EtypeInv, NEW w \in Writer, ReadVal(w)
    PROVE  KeepsWith(w)
<1>1. Kept' /\ UNCHANGED <<regs, boot, slot, readEn>>
  BY DEF EtypeInv, ReadVal, Kept, Pre, regs, history
<1>2. readVal'[w] = [s \in Slot |-> IF s \in Register(slot[w]) THEN val[s] ELSE 0]
  BY DEF TypeOK, ReadVal
<1>3. readVal' \in [Writer -> [Slot -> Values]]
  BY DEF TypeOK, ReadVal, Values
<1>4. step' = [step EXCEPT ![w] = "wrVal"] /\ step'[w] = "wrVal"
  BY DEF TypeOK, ReadVal
<1>5. \A s \in Register(slot[w]) : s \in Slot /\ (Pre(s) => readVal'[w][s] = boot.val[s])
  BY <1>2 DEF EtypeInv, Kept, Register
<1>6. ChoseFree(w)'
  <2>1. ~Pre(slot[w])
    BY DEF EtypeInv, ChoseFree, ReadVal
  <2> QED
    BY <1>1, <1>4, <1>5, <2>1 DEF ChoseFree, Pre, Register
<1>7. /\ UNCHANGED <<history, macSwap, index, phase, at, slot, existed>> /\ step[w] # "find"
      /\ en' \subseteq Slot /\ pppoe' \subseteq Slot /\ val' \in [Slot -> Values]
      /\ readEn' \in [Writer -> [en : SUBSET Slot, pppoe : SUBSET Slot]]
      /\ \A x \in Writer \ {w} : readEn'[x] = readEn[x]
  BY <1>1 DEF ReadVal, TypeOK, regs
<1>8. \A x \in Writer \ {w} : readVal'[x] = readVal[x]
  BY DEF ReadVal, TypeOK
<1>9. "wrVal" \in Step \ {"find"}
  BY DEF Step
<1> QED
  BY <1>1, <1>3, <1>4, <1>6, <1>7, <1>8, <1>9, AccessKeeps

LEMMA WriteValKeeps ==
    ASSUME TypeOK, EtypeInv, NEW w \in Writer, WriteVal(w)
    PROVE  KeepsWith(w)
<1>1. UNCHANGED <<en, pppoe, boot, overlap, readEn, existed>> /\ step[w] = "wrVal"
  BY DEF WriteVal, history
<1>2. at[w] \in Position /\ slot[w] \in Slot /\ ~Pre(slot[w]) /\ NotHad(w)
  BY <1>1 DEF TypeOK, EtypeInv, ChoseFree
<1>3. /\ readVal' \in [Writer -> [Slot -> Values]]
      /\ slot' \in [Writer -> Slot]
      /\ \A x \in Writer \ {w} : readVal'[x] = readVal[x] /\ slot'[x] = slot[x]
  <2>1. 0 \in Slot
    BY SlotAssumption DEF Slot
  <2> QED
    BY <2>1 DEF TypeOK, WriteVal, NoVal, Values
<1>4. \A v \in Values : NewVal(w, v) \in [Slot -> Values]
  BY DEF NewVal, TypeOK
<1>5. ASSUME NEW v, val' = NewVal(w, v) PROVE Kept'
  <2>1. ASSUME NEW s \in Slot, Pre(s) PROVE val'[s] = boot.val[s]
    <3>1. s # slot[w] /\ val[s] = boot.val[s]
      BY <1>2, <2>1 DEF EtypeInv, Kept
    <3>2. s \in Register(slot[w]) => readVal[w][s] = boot.val[s]
      BY <1>1, <2>1 DEF EtypeInv, ChoseFree
    <3> QED
      BY <1>5, <3>1, <3>2 DEF NewVal
  <2> QED
    BY <1>1, <2>1 DEF EtypeInv, Kept, Pre
<1>6. CASE phase[w] = "enable"
  <2>1. /\ val' = NewVal(w, Etypes[at[w]].value)
        /\ index' = [index EXCEPT ![at[w]] = slot[w]]
        /\ AfterEnable(w, at[w])
    BY <1>6 DEF WriteVal
  <2>2. val' \in [Slot -> Values] /\ Kept'
    BY <1>2, <1>4, <1>5, <2>1 DEF Values
  <2>3. ~Had(at[w])
    BY <1>1, <1>2, <1>6 DEF NotHad
  <2>4. /\ index' \in [Position -> Slot \cup {INVALID_INDEX}]
        /\ \A k \in Position : index'[k] # INVALID_INDEX => ~Had(k)
    BY <1>2, <2>1, <2>3 DEF TypeOK, EtypeInv
  <2>5. \A j \in Position : j < at[w] /\ Had(j) => existed[w][j]
    BY <1>2, <1>6 DEF NotHad
  <2>6. \A j \in Position : j <= at[w] /\ Had(j) => existed'[w][j]
    BY <1>1, <1>2, <2>3, <2>5, EtypeAssumption DEF Position
  <2>7. GoesOn(w) /\ NotHad(w)'
    BY <1>1, <1>2, <2>1, <2>6, EnableGoesOn
  <2>8. TypeOK'
    BY <1>1, <1>3, <2>2, <2>4, <2>7 DEF TypeOK, GoesOn
  <2> QED
    BY <1>1, <1>3, <2>2, <2>4, <2>7, <2>8 DEF KeepsWith, GoesOn, ChoseFree
<1>7. CASE phase[w] # "enable"
  <2>1. val' = NewVal(w, 0) /\ Cleared(w)
    BY <1>7 DEF WriteVal
  <2>2. val' \in [Slot -> Values] /\ Kept'
    BY <1>4, <1>5, <2>1 DEF Values
  <2>3. /\ GoesOn(w) /\ NotHad(w)'
        /\ index' \in [Position -> Slot \cup {INVALID_INDEX}]
        /\ \A k \in Position : index'[k] # INVALID_INDEX => ~Had(k)
    BY <1>1, <2>1, ClearedGoesOn
  <2>4. TypeOK'
    BY <1>1, <1>3, <2>2, <2>3 DEF TypeOK, GoesOn
  <2> QED
    BY <1>1, <1>3, <2>2, <2>3, <2>4 DEF KeepsWith, GoesOn, ChoseFree
<1> QED
  BY <1>6, <1>7

-----------------------------------------------------------------------------
LEMMA EtypeInvInit == Init => TypeOK /\ EtypeInv
<1> SUFFICES ASSUME Init PROVE TypeOK /\ EtypeInv
  OBVIOUS
<1>1. 0 \in Slot /\ 1 \in Position
  BY SlotAssumption, EtypeAssumption DEF Slot, Position
<1>2. NoVal \in [Slot -> Values] /\ NoEn \in [en : SUBSET Slot, pppoe : SUBSET Slot]
  BY DEF NoVal, NoEn, Values
<1>3. \A j \in Position : ~(j < 1)
  BY EtypeAssumption DEF Position
<1>4. en \subseteq Slot /\ pppoe \subseteq Slot /\ val \in [Slot -> Values]
  BY DEF Init, Values
<1>5. TypeOK
  BY <1>1, <1>2, <1>4 DEF Init, TypeOK, Phase, Step
<1>6. Kept
  BY DEF Init, Kept
<1>7. ASSUME NEW w \in Writer PROVE ChoseFree(w) /\ NotHad(w)
  BY <1>3 DEF Init, ChoseFree, NotHad
<1> QED
  BY <1>5, <1>6, <1>7 DEF Init, EtypeInv

LEMMA EtypeInvStep == TypeOK /\ EtypeInv /\ [Next]_vars => TypeOK' /\ EtypeInv'
<1> SUFFICES ASSUME TypeOK, EtypeInv, [Next]_vars PROVE TypeOK' /\ EtypeInv'
  OBVIOUS
<1>1. ASSUME NEW w \in Writer, WriterStep(w) PROVE TypeOK' /\ EtypeInv'
  <2>1. KeepsWith(w)
    BY <1>1, WriteOnKeeps, WriteOffKeeps, FindKeeps, FindFreeKeeps, ReadEnKeeps, WriteEnKeeps,
       ReadValKeeps, WriteValKeeps DEF WriterStep
  <2> QED
    BY <2>1, KeepsEtypeInv
<1>2. CASE UNCHANGED vars
  <2>1. TypeOK'
    BY <1>2 DEF TypeOK, vars, regs, history, locals
  <2>2. Kept'
    BY <1>2 DEF EtypeInv, Kept, Pre, vars, regs, history
  <2>3. ASSUME NEW w \in Writer PROVE ChoseFree(w)' /\ NotHad(w)'
    <3>1. ChoseFree(w) /\ NotHad(w)
      BY DEF EtypeInv
    <3> QED
      BY <1>2, <3>1 DEF ChoseFree, NotHad, Pre, Had, vars, history, locals
  <2> QED
    BY <1>2, <2>1, <2>2, <2>3 DEF EtypeInv, Had, vars, history
<1> QED
  BY <1>1, <1>2 DEF Next

(* Whatever the writers do to each other's register accesses, the filter   *)
(* and the driver's variables stay in their types: no switch leaves the    *)
(* slots or the list of ether types.                                       *)
THEOREM EtypeTypeCorrect == Spec => []TypeOK
  BY EtypeInvInit, EtypeInvStep, PTL DEF Spec

(* arht_loopback.c:409: an entry of the filter that was there at boot,     *)
(* enabled or only with a value, survives every switch of mac_swap, with   *)
(* any number of writers between whose accesses nothing is locked.         *)
THEOREM PreExistingKeptHolds == Spec => []PreExistingKept
<1>1. EtypeInv => PreExistingKept
  BY DEF EtypeInv, Kept, Pre, PreExistingKept
<1> QED
  BY <1>1, EtypeInvInit, EtypeInvStep, PTL DEF Spec

-----------------------------------------------------------------------------
(* As long as no two writes have met, the registers follow the driver's    *)
(* record: a slot that is recorded for an ether type holds it, every other *)
(* slot is as it was at boot, and only the slot a writer is half way       *)
(* through is neither.                                                     *)
Writing == {"rdVal", "wrVal"}
Half(s) == \E w \in Writer : step[w] \in Writing /\ slot[w] = s
Installed(k) == index[k] # INVALID_INDEX
SameType(j, k) == Etypes[j].value = Etypes[k].value /\ Etypes[j].pppoe = Etypes[k].pppoe
BootFree(s) == boot.val[s] = 0 /\ s \notin boot.en
Holds(s, k) == s \in en /\ val[s] = Etypes[k].value /\ (s \in pppoe <=> Etypes[k].pppoe)
AsBoot(s) == val[s] = boot.val[s] /\ (s \in en <=> s \in boot.en) /\ s \notin pppoe

SlotsOK ==
    /\ \A k \in Position : Installed(k) => BootFree(index[k])
    /\ \A j, k \in Position : Installed(j) /\ Installed(k) /\ j # k =>
         index[j] # index[k] /\ ~SameType(j, k)
    /\ \A s \in Slot : ~Half(s) =>
         /\ \A k \in Position : index[k] = s => Holds(s, k)
         /\ (\A k \in Position : index[k] # s) => AsBoot(s)

(* A writer that installs: what it has come past is installed, by it or by *)
(* somebody before it, and the slot it has chosen was free at boot.        *)
Enabling(w) ==
    LET k == at[w]
    IN  phase[w] = "enable" =>
          /\ ~macSwap
          /\ \A j \in Position : Installed(j) <=> j < k /\ ~existed[w][j]
          /\ \A j \in Position : j < k => Matching(j) # {}
          /\ \A j \in Position : j >= k => ~existed[w][j]
          /\ step[w] # "find" => Matching(k) = {}
          /\ step[w] \in {"rdEn", "wrEn"} => slot[w] \in FreeSlots
          /\ step[w] \in Writing =>
               /\ slot[w] \in en /\ val[slot[w]] = 0 /\ (slot[w] \in pppoe <=> Etypes[k].pppoe)
               /\ BootFree(slot[w])
               /\ \A j \in Position : index[j] # slot[w]

(* A writer that removes: it is at an ether type that is installed, and    *)
(* what is installed besides is still ahead of it.                         *)
Removing(w) ==
    LET k == at[w]
    IN  phase[w] \in {"rollback", "disable"} =>
          /\ step[w] # "free"
          /\ Installed(k)
          /\ step[w] # "find" => slot[w] = index[k]
          /\ step[w] \in Writing =>
               slot[w] \notin en /\ slot[w] \notin pppoe /\ val[slot[w]] = Etypes[k].value
          /\ phase[w] = "rollback" =>
               ~macSwap /\ \A j \in Position : Installed(j) <=> j <= k /\ ~existed[w][j]
          /\ phase[w] = "disable" =>
               macSwap /\ \A j \in Position : Installed(j) => j >= k

(* What a writer has read of a register is still in it. *)
ReadBack(w) ==
    /\ step[w] = "wrEn" => readEn[w] = [en |-> en, pppoe |-> pppoe]
    /\ step[w] = "wrVal" => \A t \in Register(slot[w]) : readVal[w][t] = val[t]

AtRest ==
    (\A w \in Writer : phase[w] = "idle") =>
        IF macSwap THEN \A k \in Position : Matching(k) # {}
        ELSE \A k \in Position : ~Installed(k)

(* Nobody but w writes. *)
Only(w) == \A x \in Writer \ {w} : phase[x] = "idle"

Boot ==
    /\ boot.val \in [Slot -> Values] /\ boot.en \subseteq Slot /\ boot.pppoe = {}
    /\ \A s \in boot.en : boot.val[s] # 0
RestInv == Boot /\ \A w \in Writer : phase[w] = "idle" => step[w] = "find"

SoloOf(w) == Enabling(w) /\ Removing(w) /\ ReadBack(w)
SoloInv ==
    ~overlap =>
        /\ \A w \in Writer : phase[w] # "idle" => Only(w)
        /\ SlotsOK /\ AtRest /\ \A w \in Writer : SoloOf(w)

LEMMA IdleIsSolo ==
    ASSUME NEW w \in Writer, phase[w] = "idle", step[w] = "find"
    PROVE  SoloOf(w)
BY DEF SoloOf, Enabling, Removing, ReadBack

(* Nobody is half way through a slot but the one who writes.               *)
LEMMA OnlyHalf ==
    ASSUME RestInv, NEW w \in Writer, Only(w), NEW s
    PROVE  Half(s) <=> step[w] \in Writing /\ slot[w] = s
BY DEF RestInv, Only, Half, Writing

(* An ether type that is recorded is found at its slot and nowhere else.   *)
LEMMA MatchingInstalled ==
    ASSUME TypeOK, EtypeInv, RestInv, SlotsOK, \A s \in Slot : ~Half(s),
           NEW k \in Position, Installed(k)
    PROVE  Matching(k) = {index[k]}
<1>1. index[k] \in Slot
  BY DEF TypeOK, Installed
<1>2. index[k] \in Matching(k)
  BY <1>1 DEF SlotsOK, Holds, Matching
<1>3. ASSUME NEW s \in Matching(k) PROVE s = index[k]
  <2>1. s \in Slot /\ s \in en /\ val[s] = Etypes[k].value /\ (s \in pppoe <=> Etypes[k].pppoe)
    BY DEF Matching
  <2>2. CASE \E j \in Position : index[j] = s
    <3>1. PICK j \in Position : index[j] = s
      BY <2>2
    <3>2. Holds(s, j)
      BY <2>1, <3>1 DEF SlotsOK
    <3>3. SameType(j, k)
      BY <2>1, <3>2, EtypeAssumption DEF Holds, SameType, Position
    <3>4. Installed(j)
      BY <2>1, <3>1, SlotAssumption DEF Installed, Slot, INVALID_INDEX
    <3> QED
      BY <3>1, <3>3, <3>4 DEF SlotsOK
  <2>3. CASE \A j \in Position : index[j] # s
    <3>1. AsBoot(s)
      BY <2>1, <2>3 DEF SlotsOK
    <3>2. s \in boot.en /\ boot.val[s] = Etypes[k].value /\ ~Etypes[k].pppoe
      BY <2>1, <3>1 DEF AsBoot
    <3>3. Had(k)
      BY <2>1, <3>2 DEF Had
    <3> QED
      BY <3>3 DEF EtypeInv, Installed
  <2> QED
    BY <2>2, <2>3
<1> QED
  BY <1>2, <1>3

-----------------------------------------------------------------------------
(* The end of an ether type: what the writer goes on to, or leaves.        *)
LEMMA EnableEnds ==
    ASSUME TypeOK, NEW w \in Writer, NEW k \in Position, AfterEnable(w, k), ~macSwap, Only(w)',
           \A j \in Position : Installed(j)' <=> j <= k /\ ~existed'[w][j],
           \A j \in Position : j <= k => Matching(j)' # {},
           \A j \in Position : j > k => ~existed'[w][j]
    PROVE  AtRest' /\ SoloOf(w)'
<1>1. CASE k < Len(Etypes)
  <2>1. k + 1 \in Position
    BY <1>1, EtypeAssumption DEF Position
  <2>2. phase'[w] = "enable" /\ at'[w] = k + 1 /\ step'[w] = "find" /\ ~macSwap'
    BY <1>1 DEF AfterEnable, GoTo, TypeOK
  <2>3. \A j \in Position : (j < k + 1 <=> j <= k) /\ (j >= k + 1 <=> j > k)
    BY EtypeAssumption DEF Position
  <2>4. Enabling(w)'
    BY <2>2, <2>3 DEF Enabling, Writing
  <2> QED
    BY <2>2, <2>4 DEF AtRest, SoloOf, Removing, ReadBack
<1>2. CASE ~(k < Len(Etypes))
  <2>1. phase'[w] = "idle" /\ step'[w] = "find" /\ macSwap'
    BY <1>2 DEF AfterEnable, Idle, TypeOK
  <2>2. \A j \in Position : j <= k
    BY <1>2, EtypeAssumption DEF Position
  <2> QED
    BY <2>1, <2>2 DEF AtRest, SoloOf, Enabling, Removing, ReadBack
<1> QED
  BY <1>1, <1>2

LEMMA RollbackEnds ==
    ASSUME TypeOK, NEW w \in Writer, NEW k \in Position, AfterRollback(w, k), ~macSwap, Only(w)',
           UNCHANGED existed,
           \A j \in Position : Installed(j)' <=> j < k /\ ~existed[w][j]
    PROVE  AtRest' /\ SoloOf(w)'
<1> DEFINE left == {j \in Position : j < k /\ ~existed[w][j]}
<1>0. ~macSwap'
  BY DEF AfterRollback
<1>1. CASE left # {}
  <2>1. Max(left) \in left /\ \A j \in left : j <= Max(left)
    <3> HIDE DEF left
    <3>1. left \in SUBSET (0 .. Len(Etypes)) /\ Len(Etypes) \in Nat
      BY EtypeAssumption DEF left, Position
    <3> QED
      BY <1>1, <3>1, MaxIsGreatest
  <2>2. PICK m \in Position : m = Max(left) /\ m < k /\ ~existed[w][m]
    BY <2>1
  <2>3. phase'[w] = "rollback" /\ at'[w] = m /\ step'[w] = "find"
    BY <1>1, <2>2 DEF AfterRollback, GoTo, TypeOK
  <2>4. \A j \in Position : j < k /\ ~existed[w][j] <=> j <= m /\ ~existed[w][j]
    <3>1. \A j \in Position : j < k /\ ~existed[w][j] => j <= m
      BY <2>1, <2>2
    <3>2. \A j \in Position : j <= m => j < k
      BY <2>2, EtypeAssumption DEF Position
    <3> QED
      BY <3>1, <3>2
  <2>5. Removing(w)'
    BY <1>0, <2>2, <2>3, <2>4, EtypeAssumption DEF Removing, Writing, Position
  <2> QED
    BY <2>3, <2>5 DEF AtRest, SoloOf, Enabling, ReadBack
<1>2. CASE left = {}
  <2>1. phase'[w] = "idle" /\ step'[w] = "find"
    BY <1>2 DEF AfterRollback, Idle, TypeOK
  <2>2. \A j \in Position : ~Installed(j)'
    BY <1>2
  <2> QED
    BY <1>0, <2>1, <2>2 DEF AtRest, SoloOf, Enabling, Removing, ReadBack
<1> QED
  BY <1>1, <1>2

LEMMA DisableEnds ==
    ASSUME TypeOK, NEW w \in Writer, NEW k \in Int, AfterDisable(w, k, index'), macSwap, Only(w)',
           \A j \in Position : Installed(j)' => j > k
    PROVE  AtRest' /\ SoloOf(w)'
<1> DEFINE left == {j \in Position : j > k /\ index'[j] # INVALID_INDEX}
<1>1. CASE left # {}
  <2>1. Min(left) \in left /\ \A j \in left : Min(left) <= j
    <3> HIDE DEF left
    <3>1. left \in SUBSET Nat
      BY EtypeAssumption DEF left, Position
    <3> QED
      BY <1>1, <3>1, MinIsLeast
  <2>2. PICK m \in Position : m = Min(left) /\ index'[m] # INVALID_INDEX
    BY <2>1
  <2>3. phase'[w] = "disable" /\ at'[w] = m /\ step'[w] = "find" /\ macSwap'
    BY <1>1, <2>2 DEF AfterDisable, GoTo, TypeOK
  <2>4. \A j \in Position : Installed(j)' => j >= m
    BY <2>1, <2>2, EtypeAssumption DEF Installed, Position
  <2>5. Removing(w)'
    BY <2>2, <2>3, <2>4 DEF Removing, Writing, Installed
  <2> QED
    BY <2>3, <2>5 DEF AtRest, SoloOf, Enabling, ReadBack
<1>2. CASE left = {}
  <2>1. phase'[w] = "idle" /\ step'[w] = "find" /\ ~macSwap'
    BY <1>2 DEF AfterDisable, Idle, TypeOK
  <2>2. \A j \in Position : ~Installed(j)'
    BY <1>2 DEF Installed
  <2> QED
    BY <2>1, <2>2 DEF AtRest, SoloOf, Enabling, Removing, ReadBack
<1> QED
  BY <1>1, <1>2

(* Leaving the registers and the record alone keeps their relation, unless *)
(* a writer comes into the middle of a slot or out of it.                  *)
LEMMA SlotsKept ==
    ASSUME SlotsOK, UNCHANGED <<regs, boot, index>>, \A s \in Slot : Half(s)' <=> Half(s)
    PROVE  SlotsOK'
BY DEF SlotsOK, Installed, BootFree, Holds, AsBoot, regs

-----------------------------------------------------------------------------
(* One writer, step by step.                                               *)
Alone(w) == TypeOK /\ EtypeInv /\ RestInv /\ SlotsOK /\ AtRest /\ SoloOf(w) /\ Only(w) /\ KeepsWith(w)

LEMMA HalfAfter ==
    ASSUME NEW w \in Writer, Alone(w)
    PROVE  /\ Only(w)'
           /\ \A s : Half(s) <=> step[w] \in Writing /\ slot[w] = s
           /\ \A s : Half(s)' <=> step'[w] \in Writing /\ slot'[w] = s
<1>1. \A s : Half(s) <=> step[w] \in Writing /\ slot[w] = s
  BY OnlyHalf DEF Alone
<1>2. Only(w)' /\ \A x \in Writer \ {w} : step'[x] = "find"
  BY DEF Alone, KeepsWith, Only, RestInv
<1> QED
  BY <1>1, <1>2 DEF Half, Writing

LEMMA WriteOnSolo ==
    ASSUME NEW w \in Writer, Alone(w), WriteOn(w)
    PROVE  SlotsOK' /\ AtRest' /\ SoloOf(w)'
<1>1. 1 \in Position /\ \A j \in Position : ~(j < 1)
  BY EtypeAssumption DEF Position
<1>2. /\ phase[w] = "idle" /\ ~macSwap /\ step[w] = "find"
      /\ \A x \in Writer : phase[x] = "idle"
  BY DEF WriteOn, Alone, RestInv, Only
<1>3. phase'[w] = "enable" /\ at'[w] = 1 /\ step'[w] = "find" /\ ~macSwap'
      /\ existed'[w] = [k \in Position |-> FALSE]
      /\ UNCHANGED <<regs, boot, index>>
  BY <1>2 DEF WriteOn, GoTo, Alone, TypeOK
<1>4. \A j \in Position : ~Installed(j)'
  BY <1>2, <1>3 DEF Alone, AtRest, Installed
<1>5. Enabling(w)'
  BY <1>1, <1>3, <1>4 DEF Enabling, Writing
<1>6. SlotsOK'
  <2>1. \A s \in Slot : Half(s)' <=> Half(s)
    BY <1>2, <1>3, HalfAfter DEF Writing
  <2> QED
    BY <1>3, <2>1, SlotsKept DEF Alone
<1> QED
  BY <1>3, <1>5, <1>6 DEF AtRest, SoloOf, Removing, ReadBack

LEMMA WriteOffSolo ==
    ASSUME NEW w \in Writer, Alone(w), WriteOff(w)
    PROVE  SlotsOK' /\ AtRest' /\ SoloOf(w)'
<1>1. macSwap /\ step[w] = "find" /\ AfterDisable(w, 0, index') /\ UNCHANGED <<regs, boot, index>>
  BY DEF WriteOff, Alone, RestInv
<1>2. \A j \in Position : j > 0
  BY EtypeAssumption DEF Position
<1>3. AtRest' /\ SoloOf(w)' /\ step'[w] = "find"
  <2>1. AtRest' /\ SoloOf(w)'
    <3>1. ASSUME NEW k \in Int, k = 0 PROVE AtRest' /\ SoloOf(w)'
      BY <1>1, <1>2, <3>1, HalfAfter, DisableEnds DEF Alone
    <3> QED
      BY <3>1
  <2>2. step'[w] = "find"
    BY <1>1 DEF AfterDisable, GoTo, Idle, Alone, TypeOK
  <2> QED
    BY <2>1, <2>2
<1>4. \A s \in Slot : Half(s)' <=> Half(s)
  BY <1>1, <1>3, HalfAfter DEF Writing
<1> QED
  BY <1>1, <1>3, <1>4, SlotsKept DEF Alone

LEMMA FindSolo ==
    ASSUME NEW w \in Writer, Alone(w), Find(w)
    PROVE  SlotsOK' /\ AtRest' /\ SoloOf(w)'
<1> DEFINE k == at[w]
<1>0. /\ k \in Position /\ step[w] = "find" /\ phase[w] \in Phase \ {"idle"}
      /\ TypeOK /\ EtypeInv /\ RestInv /\ SlotsOK /\ Enabling(w) /\ Removing(w)
      /\ UNCHANGED <<regs, boot, readEn, readVal>>
  BY DEF Find, Alone, TypeOK, SoloOf, history
<1>1. (\A s \in Slot : ~Half(s)) /\ Only(w)'
  BY <1>0, HalfAfter DEF Writing
<1>2. \A j \in Position : Matching(j)' = Matching(j)
  BY <1>0 DEF Matching, regs
<1>3. CASE phase[w] = "enable" /\ Matching(k) # {}
  <2>1. /\ existed' = [existed EXCEPT ![w][k] = TRUE]
        /\ AfterEnable(w, k)
        /\ UNCHANGED <<index, slot>>
    BY <1>3 DEF Find
  <2>2. existed'[w] = [existed[w] EXCEPT ![k] = TRUE] /\ existed[w] \in [Position -> BOOLEAN]
    BY <1>0, <2>1 DEF TypeOK
  <2>3. \A j \in Position : Installed(j)' <=> j <= k /\ ~existed'[w][j]
    <3>1. \A j \in Position : Installed(j)' <=> j < k /\ ~existed[w][j]
      BY <1>0, <1>3, <2>1 DEF Enabling, Installed
    <3>2. \A j \in Position : j < k <=> j <= k /\ j # k
      BY <1>0, EtypeAssumption DEF Position
    <3> QED
      BY <2>2, <3>1, <3>2
  <2>4. \A j \in Position : j <= k => Matching(j)' # {}
    BY <1>0, <1>2, <1>3, EtypeAssumption DEF Enabling, Position
  <2>5. \A j \in Position : j > k => ~existed'[w][j]
    BY <1>0, <1>3, <2>2, EtypeAssumption DEF Enabling, Position
  <2>6. ~macSwap
    BY <1>0, <1>3 DEF Enabling
  <2>7. AtRest' /\ SoloOf(w)'
    BY <1>0, <1>1, <2>1, <2>3, <2>4, <2>5, <2>6, EnableEnds
  <2>8. step'[w] = "find"
    BY <1>0, <2>1 DEF AfterEnable, GoTo, Idle, TypeOK
  <2>9. \A s \in Slot : Half(s)' <=> Half(s)
    BY <1>0, <2>8, HalfAfter DEF Writing
  <2> QED
    BY <1>0, <2>1, <2>7, <2>9, SlotsKept
<1>4. CASE phase[w] = "enable" /\ Matching(k) = {}
  <2>1. /\ step'[w] = "free"
        /\ UNCHANGED <<existed, phase, at, macSwap, index, slot>>
    BY <1>0, <1>4 DEF Find, TypeOK
  <2>2. Enabling(w)'
    BY <1>0, <1>2, <1>4, <2>1 DEF Enabling, Installed, Writing
  <2>3. \A s \in Slot : Half(s)' <=> Half(s)
    BY <1>0, <2>1, HalfAfter DEF Writing
  <2> QED
    BY <1>0, <1>4, <2>1, <2>2, <2>3, SlotsKept DEF AtRest, SoloOf, Removing, ReadBack
<1>5. CASE phase[w] # "enable"
  <2>1. Installed(k)
    BY <1>0, <1>5 DEF Removing, Phase
  <2>2. Matching(k) = {index[k]}
    BY <1>0, <1>1, <2>1, MatchingInstalled
  <2>3. Min(Matching(k)) = index[k]
    <3>1. index[k] \in Slot
      BY <1>0, <2>1 DEF TypeOK, Installed
    <3>2. {index[k]} \in SUBSET Slot /\ {index[k]} # {}
      BY <3>1
    <3>3. Min({index[k]}) \in {index[k]}
      BY <3>2, LeastOf
    <3> QED
      BY <2>2, <3>3
  <2>4. /\ slot'[w] = index[k] /\ step'[w] = "rdEn"
        /\ UNCHANGED <<phase, at, macSwap, index, existed>>
    BY <1>0, <1>5, <2>2, <2>3 DEF Find, TypeOK
  <2>5. Removing(w)'
    BY <1>0, <2>4 DEF Removing, Installed, Writing
  <2>6. \A s \in Slot : Half(s)' <=> Half(s)
    BY <1>0, <2>4, HalfAfter DEF Writing
  <2> QED
    BY <1>0, <1>5, <2>4, <2>5, <2>6, SlotsKept DEF AtRest, SoloOf, Enabling, ReadBack
<1> QED
  BY <1>3, <1>4, <1>5

LEMMA FindFreeSolo ==
    ASSUME NEW w \in Writer, Alone(w), FindFree(w)
    PROVE  SlotsOK' /\ AtRest' /\ SoloOf(w)'
<1> DEFINE k == at[w]
<1>0. /\ k \in Position /\ step[w] = "free" /\ phase[w] = "enable"
      /\ TypeOK /\ SlotsOK /\ Enabling(w)
      /\ UNCHANGED <<regs, boot, index, readEn, readVal, existed>>
  BY DEF FindFree, Alone, TypeOK, SoloOf, history
<1>1. Only(w)' /\ \A j \in Position : Matching(j)' = Matching(j)
  BY <1>0, HalfAfter DEF Matching, regs
<1>2. CASE FreeSlots # {}
  <2>1. slot'[w] = Min(FreeSlots) /\ step'[w] = "rdEn" /\ UNCHANGED <<phase, at, macSwap>>
    BY <1>0, <1>2 DEF FindFree, TypeOK
  <2>2. Min(FreeSlots) \in FreeSlots
    BY <1>2, LeastOf DEF FreeSlots
  <2>3. slot'[w] \in FreeSlots'
    BY <1>0, <2>1, <2>2 DEF FreeSlots, regs
  <2>4. Enabling(w)'
    BY <1>0, <1>1, <2>1, <2>3 DEF Enabling, Installed, Writing
  <2>5. \A s \in Slot : Half(s)' <=> Half(s)
    BY <1>0, <2>1, HalfAfter DEF Writing
  <2> QED
    BY <1>0, <2>1, <2>4, <2>5, SlotsKept DEF AtRest, SoloOf, Removing, ReadBack
<1>3. CASE FreeSlots = {}
  <2>1. AfterRollback(w, k) /\ ~macSwap
    BY <1>0, <1>3 DEF FindFree, Enabling
  <2>2. \A j \in Position : Installed(j)' <=> j < k /\ ~existed[w][j]
    BY <1>0 DEF Enabling, Installed
  <2>3. AtRest' /\ SoloOf(w)'
    BY <1>0, <1>1, <2>1, <2>2, RollbackEnds
  <2>4. step'[w] = "find"
    BY <1>0, <2>1 DEF AfterRollback, GoTo, Idle, TypeOK
  <2>5. \A s \in Slot : Half(s)' <=> Half(s)
    BY <1>0, <2>4, HalfAfter DEF Writing
  <2> QED
    BY <1>0, <2>3, <2>5, SlotsKept
<1> QED
  BY <1>2, <1>3

LEMMA ReadEnSolo ==
    ASSUME NEW w \in Writer, Alone(w), ReadEn(w)
    PROVE  SlotsOK' /\ AtRest' /\ SoloOf(w)'
<1>0. /\ step[w] = "rdEn" /\ step'[w] = "wrEn" /\ readEn'[w] = [en |-> en, pppoe |-> pppoe]
      /\ phase[w] # "idle" /\ at[w] \in Position
      /\ TypeOK /\ SlotsOK /\ Enabling(w) /\ Removing(w)
      /\ UNCHANGED <<regs, boot, macSwap, index, phase, at, slot, existed>>
  BY DEF ReadEn, Alone, TypeOK, SoloOf, history, RestInv
<1>1. (\A j \in Position : Matching(j)' = Matching(j)) /\ FreeSlots' = FreeSlots
  BY <1>0 DEF Matching, FreeSlots, regs
<1>2. Enabling(w)'
  BY <1>0, <1>1 DEF Enabling, Installed, Writing
<1>3. Removing(w)'
  BY <1>0 DEF Removing, Installed, Writing
<1>4. ReadBack(w)'
  BY <1>0 DEF ReadBack, regs
<1>5. \A s \in Slot : Half(s)' <=> Half(s)
  BY <1>0, HalfAfter DEF Writing
<1> QED
  BY <1>0, <1>2, <1>3, <1>4, <1>5, SlotsKept DEF AtRest, SoloOf

LEMMA ReadValSolo ==
    ASSUME NEW w \in Writer, Alone(w), ReadVal(w)
    PROVE  SlotsOK' /\ AtRest' /\ SoloOf(w)'
<1>0. /\ step[w] = "rdVal" /\ step'[w] = "wrVal"
      /\ readVal'[w] = [s \in Slot |-> IF s \in Register(slot[w]) THEN val[s] ELSE 0]
      /\ phase[w] # "idle" /\ at[w] \in Position
      /\ TypeOK /\ SlotsOK /\ Enabling(w) /\ Removing(w)
      /\ UNCHANGED <<regs, boot, macSwap, index, phase, at, slot, existed>>
  BY DEF ReadVal, Alone, TypeOK, SoloOf, history, RestInv
<1>1. \A j \in Position : Matching(j)' = Matching(j)
  BY <1>0 DEF Matching, regs
<1>2. Enabling(w)'
  BY <1>0, <1>1 DEF Enabling, Installed, Writing, BootFree, regs
<1>3. Removing(w)'
  BY <1>0 DEF Removing, Installed, Writing, regs
<1>4. ReadBack(w)'
  BY <1>0 DEF ReadBack, Register, regs
<1>5. \A s \in Slot : Half(s)' <=> Half(s)
  BY <1>0, HalfAfter DEF Writing
<1> QED
  BY <1>0, <1>2, <1>3, <1>4, <1>5, SlotsKept DEF AtRest, SoloOf

LEMMA WriteEnSolo ==
    ASSUME NEW w \in Writer, Alone(w), WriteEn(w)
    PROVE  SlotsOK' /\ AtRest' /\ SoloOf(w)'
<1> DEFINE k == at[w]
           s == slot[w]
<1>0. /\ k \in Position /\ s \in Slot /\ step[w] = "wrEn" /\ step'[w] = "rdVal" /\ phase[w] # "idle"
      /\ en \subseteq Slot /\ pppoe \subseteq Slot
      /\ SlotsOK /\ Enabling(w) /\ Removing(w) /\ readEn[w] = [en |-> en, pppoe |-> pppoe]
      /\ UNCHANGED <<val, boot, macSwap, index, phase, at, slot, existed>>
  BY DEF WriteEn, Alone, TypeOK, SoloOf, history, RestInv, ReadBack
<1>1. /\ phase[w] = "enable" =>
           /\ s \in en' /\ (s \in pppoe' <=> Etypes[k].pppoe)
      /\ phase[w] # "enable" => s \notin en' /\ s \notin pppoe'
      /\ \A t \in Slot \ {s} : (t \in en' <=> t \in en) /\ (t \in pppoe' <=> t \in pppoe)
  BY <1>0 DEF WriteEn, WithBit
<1>2. \A t \in Slot : ~Half(t) /\ (Half(t)' <=> t = s)
  BY <1>0, HalfAfter DEF Writing
<1>3. SlotsOK'
  <2>1. ASSUME NEW t \in Slot, ~Half(t)'
        PROVE  /\ \A j \in Position : index'[j] = t => Holds(t, j)'
               /\ (\A j \in Position : index'[j] # t) => AsBoot(t)'
    <3>1. t \in Slot \ {s} /\ ~Half(t)
      BY <1>2, <2>1
    <3>2. \A j \in Position : index'[j] = t => Holds(t, j)'
      BY <1>0, <1>1, <3>1 DEF SlotsOK, Holds
    <3>3. (\A j \in Position : index'[j] # t) => AsBoot(t)'
      BY <1>0, <1>1, <3>1 DEF SlotsOK, AsBoot
    <3> QED
      BY <3>2, <3>3
  <2>2. \A j \in Position : Installed(j)' => BootFree(index[j])'
    BY <1>0 DEF SlotsOK, Installed, BootFree
  <2>3. \A i, j \in Position : Installed(i)' /\ Installed(j)' /\ i # j =>
          index'[i] # index'[j] /\ ~SameType(i, j)
    BY <1>0 DEF SlotsOK, Installed
  <2> QED
    BY <1>0, <2>1, <2>2, <2>3 DEF SlotsOK
<1>4. CASE phase[w] = "enable"
  <2>1. /\ ~macSwap /\ s \notin en /\ val[s] = 0 /\ Matching(k) = {}
        /\ \A j \in Position : Installed(j) <=> j < k /\ ~existed[w][j]
        /\ \A j \in Position : j < k => Matching(j) # {}
        /\ \A j \in Position : j >= k => ~existed[w][j]
    BY <1>0, <1>4 DEF Enabling, FreeSlots
  <2>2. \A j \in Position : index[j] # s
    BY <1>0, <1>2, <2>1 DEF SlotsOK, Holds
  <2>3. BootFree(s)
    BY <1>0, <1>2, <2>1, <2>2 DEF SlotsOK, AsBoot, BootFree
  <2>4. Matching(k)' = {}
    <3>1. ASSUME NEW t \in Slot, t \in Matching(k)' PROVE FALSE
      <4>1. t # s
        BY <1>0, <2>1, <3>1, EtypeAssumption DEF Matching, Position
      <4> QED
        BY <1>0, <1>1, <2>1, <3>1, <4>1 DEF Matching
    <3> QED
      BY <3>1 DEF Matching
  <2>5. ASSUME NEW j \in Position, j < k PROVE Matching(j)' # {}
    <3>1. PICK t \in Slot : t \in Matching(j)
      BY <2>1, <2>5 DEF Matching
    <3>2. t \in Slot \ {s}
      BY <2>1, <3>1 DEF Matching
    <3>3. t \in Matching(j)'
      BY <1>0, <1>1, <3>1, <3>2 DEF Matching
    <3> QED
      BY <3>3
  <2>6. Enabling(w)'
    BY <1>0, <1>1, <1>4, <2>1, <2>2, <2>3, <2>4, <2>5 DEF Enabling, Installed, BootFree, Writing
  <2> QED
    BY <1>0, <1>3, <1>4, <2>6 DEF AtRest, SoloOf, Removing, ReadBack
<1>5. CASE phase[w] # "enable"
  <2>1. Installed(k) /\ s = index[k] /\ phase[w] \in {"rollback", "disable"}
    BY <1>0, <1>5 DEF Removing, Alone, TypeOK, Phase
  <2>2. val[s] = Etypes[k].value
    BY <1>0, <1>2, <2>1 DEF SlotsOK, Holds
  <2>3. Removing(w)'
    BY <1>0, <1>1, <1>5, <2>1, <2>2 DEF Removing, Installed, Writing
  <2> QED
    BY <1>0, <1>3, <1>5, <2>3 DEF AtRest, SoloOf, Enabling, ReadBack
<1> QED
  BY <1>4, <1>5

(* What is written to a value register is what was read from it, but for   *)
(* the writer's own half.                                                  *)
LEMMA NewValIsOneHalf ==
    ASSUME NEW w \in Writer, step[w] = "wrVal", ReadBack(w), NEW v
    PROVE  \A t \in Slot : NewVal(w, v)[t] = IF t = slot[w] THEN v ELSE val[t]
BY DEF NewVal, ReadBack

LEMMA InstallSolo ==
    ASSUME NEW w \in Writer, Alone(w), WriteVal(w), phase[w] = "enable",
           NEW k \in Position, k = at[w], NEW s \in Slot, s = slot[w]
    PROVE  SlotsOK' /\ AtRest' /\ SoloOf(w)'
<1>0. /\ step[w] = "wrVal" /\ index \in [Position -> Slot \cup {INVALID_INDEX}]
      /\ TypeOK /\ SlotsOK /\ Enabling(w) /\ ReadBack(w) /\ Only(w)'
      /\ index' = [index EXCEPT ![k] = s] /\ AfterEnable(w, k)
      /\ UNCHANGED <<en, pppoe, boot, existed>>
  BY HalfAfter DEF WriteVal, Alone, TypeOK, SoloOf, history
<1>1. \A t \in Slot : val'[t] = IF t = s THEN Etypes[k].value ELSE val[t]
  BY <1>0, NewValIsOneHalf DEF WriteVal
<1>2. /\ ~macSwap /\ Matching(k) = {}
      /\ \A j \in Position : Installed(j) <=> j < k /\ ~existed[w][j]
      /\ \A j \in Position : j < k => Matching(j) # {}
      /\ \A j \in Position : j >= k => ~existed[w][j]
      /\ s \in en /\ val[s] = 0 /\ (s \in pppoe <=> Etypes[k].pppoe) /\ BootFree(s)
      /\ \A j \in Position : index[j] # s
  BY <1>0 DEF Enabling, Writing
<1>3. k \in Int /\ Etypes[k].value # 0 /\ \A j \in Position : j \in Int /\ Etypes[j].value # 0
  BY <1>0, EtypeAssumption DEF Position
<1>4. step'[w] = "find"
  BY <1>0 DEF AfterEnable, GoTo, Idle, TypeOK
<1>5. \A t \in Slot : ~Half(t)' /\ (Half(t) <=> t = s)
  BY <1>0, <1>4, HalfAfter DEF Writing
<1>6. ASSUME NEW j \in Position, Installed(j) PROVE ~SameType(j, k) /\ j # k
  <2>1. index[j] \in Slot \ {s}
    BY <1>0, <1>2, <1>6 DEF Installed
  <2>2. Holds(index[j], j)
    BY <1>0, <1>5, <2>1 DEF SlotsOK
  <2>3. j # k
    BY <1>2, <1>3, <1>6
  <2>4. CASE SameType(j, k)
    <3>1. index[j] \in Matching(k)
      BY <2>1, <2>2, <2>4 DEF Holds, SameType, Matching
    <3> QED
      BY <1>2, <3>1
  <2> QED
    BY <2>3, <2>4
<1>7. \A j \in Position : j # k => index'[j] = index[j] /\ (Installed(j)' <=> Installed(j))
  BY <1>0 DEF Installed
<1>8. index'[k] = s /\ Installed(k)'
  BY <1>0, SlotAssumption DEF Installed, Slot, INVALID_INDEX
<1>9. SlotsOK'
  <2>1. \A j \in Position : Installed(j)' => BootFree(index[j])'
    <3>1. ASSUME NEW j \in Position, Installed(j)' PROVE BootFree(index[j])'
      <4>1. CASE j = k
        BY <1>0, <1>2, <1>8, <4>1 DEF BootFree
      <4>2. CASE j # k
        BY <1>0, <1>7, <3>1, <4>2 DEF BootFree, SlotsOK
      <4> QED
        BY <4>1, <4>2
    <3> QED
      BY <3>1
  <2>2. \A i, j \in Position : Installed(i)' /\ Installed(j)' /\ i # j =>
          index'[i] # index'[j] /\ ~SameType(i, j)
    <3>1. ASSUME NEW i \in Position, NEW j \in Position, Installed(i)', Installed(j)', i # j
          PROVE  index'[i] # index'[j] /\ ~SameType(i, j)
      <4>1. CASE i = k
        BY <1>2, <1>6, <1>7, <1>8, <3>1, <4>1 DEF SameType
      <4>2. CASE j = k
        BY <1>2, <1>6, <1>7, <1>8, <3>1, <4>2 DEF SameType
      <4>3. CASE i # k /\ j # k
        BY <1>0, <1>7, <3>1, <4>3 DEF SlotsOK
      <4> QED
        BY <4>1, <4>2, <4>3
    <3> QED
      BY <3>1
  <2>3. ASSUME NEW t \in Slot
        PROVE  /\ \A j \in Position : index'[j] = t => Holds(t, j)'
               /\ (\A j \in Position : index'[j] # t) => AsBoot(t)'
    <3>1. CASE t = s
      <4>1. \A j \in Position : index'[j] = t => j = k
        BY <1>2, <1>7, <3>1
      <4>2. Holds(t, k)'
        BY <1>0, <1>1, <1>2, <3>1 DEF Holds
      <4> QED
        BY <1>8, <3>1, <4>1, <4>2 DEF Holds
    <3>2. CASE t # s
      <4>1. val'[t] = val[t] /\ ~Half(t)
        BY <1>1, <1>5, <3>2
      <4>2. \A j \in Position : index'[j] = t <=> index[j] = t
        <5>1. index[k] # t
          BY <1>2, <1>3, <1>0, SlotAssumption DEF Installed, Slot, INVALID_INDEX
        <5> QED
          BY <1>7, <1>8, <3>2, <5>1
      <4>3. \A j \in Position : index'[j] = t => Holds(t, j)'
        BY <1>0, <4>1, <4>2 DEF SlotsOK, Holds
      <4>4. (\A j \in Position : index'[j] # t) => AsBoot(t)'
        BY <1>0, <4>1, <4>2 DEF SlotsOK, AsBoot
      <4> QED
        BY <4>3, <4>4
    <3> QED
      BY <3>1, <3>2
  <2> QED
    BY <2>1, <2>2, <2>3 DEF SlotsOK
<1>10. \A j \in Position : Installed(j)' <=> j <= k /\ ~existed'[w][j]
  <2>1. ASSUME NEW j \in Position PROVE Installed(j)' <=> j <= k /\ ~existed'[w][j]
    <3>1. CASE j = k
      BY <1>0, <1>2, <1>3, <1>8, <3>1 DEF Installed
    <3>2. CASE j # k
      BY <1>0, <1>2, <1>3, <1>7, <3>2
    <3> QED
      BY <3>1, <3>2
  <2> QED
    BY <2>1
<1>11. ASSUME NEW j \in Position, j <= k PROVE Matching(j)' # {}
  <2>1. CASE j = k
    <3>1. s \in Matching(k)'
      BY <1>0, <1>1, <1>2 DEF Matching
    <3> QED
      BY <2>1, <3>1 DEF Matching
  <2>2. CASE j # k
    <3>1. PICK t \in Slot : t \in Matching(j)
      BY <1>2, <1>3, <1>11, <2>2 DEF Matching
    <3>2. t # s
      BY <1>2, <1>3, <3>1 DEF Matching
    <3>3. t \in Matching(j)'
      BY <1>0, <1>1, <3>1, <3>2 DEF Matching
    <3> QED
      BY <3>3
  <2> QED
    BY <2>1, <2>2
<1>12. \A j \in Position : j > k => ~existed'[w][j]
  BY <1>0, <1>2, <1>3
<1> QED
  BY <1>0, <1>2, <1>9, <1>10, <1>11, <1>12, EnableEnds

LEMMA RemoveSolo ==
    ASSUME NEW w \in Writer, Alone(w), WriteVal(w), phase[w] # "enable",
           NEW k \in Position, k = at[w], NEW s \in Slot, s = slot[w]
    PROVE  SlotsOK' /\ AtRest' /\ SoloOf(w)'
<1>0. /\ step[w] = "wrVal" /\ index \in [Position -> Slot \cup {INVALID_INDEX}]
      /\ TypeOK /\ SlotsOK /\ Removing(w) /\ ReadBack(w) /\ Only(w)'
      /\ index' = [index EXCEPT ![k] = INVALID_INDEX] /\ Cleared(w)
      /\ UNCHANGED <<en, pppoe, boot, existed>>
  BY HalfAfter DEF WriteVal, Cleared, Alone, TypeOK, SoloOf, history
<1>1. \A t \in Slot : val'[t] = IF t = s THEN 0 ELSE val[t]
  BY <1>0, NewValIsOneHalf DEF WriteVal
<1>2. /\ Installed(k) /\ s = index[k] /\ s \notin en /\ s \notin pppoe
      /\ phase[w] \in {"rollback", "disable"}
      /\ phase[w] = "rollback" => ~macSwap /\ \A j \in Position : Installed(j) <=> j <= k /\ ~existed[w][j]
      /\ phase[w] = "disable" => macSwap /\ \A j \in Position : Installed(j) => j >= k
  BY <1>0 DEF Removing, Writing, Alone, RestInv, TypeOK, Phase
<1>3. k \in Int /\ \A j \in Position : j \in Int
  BY <1>0, EtypeAssumption DEF Position
<1>4. \A j \in Position : j # k => index'[j] = index[j] /\ (Installed(j)' <=> Installed(j))
  BY <1>0 DEF Installed
<1>5. index'[k] = INVALID_INDEX /\ ~Installed(k)'
  BY <1>0 DEF Installed
<1>6. step'[w] = "find"
  BY <1>0 DEF Cleared, AfterRollback, AfterDisable, GoTo, Idle, TypeOK
<1>7. \A t \in Slot : ~Half(t)' /\ (Half(t) <=> t = s)
  BY <1>0, <1>6, HalfAfter DEF Writing
<1>8. \A j \in Position : j # k => index[j] # s
  BY <1>0, <1>2 DEF SlotsOK, Installed
<1>9. SlotsOK'
  <2>1. \A j \in Position : Installed(j)' => BootFree(index[j])'
    BY <1>0, <1>4, <1>5 DEF SlotsOK, BootFree, Installed
  <2>2. \A i, j \in Position : Installed(i)' /\ Installed(j)' /\ i # j =>
          index'[i] # index'[j] /\ ~SameType(i, j)
    BY <1>0, <1>4, <1>5 DEF SlotsOK, Installed
  <2>3. ASSUME NEW t \in Slot
        PROVE  /\ \A j \in Position : index'[j] = t => Holds(t, j)'
               /\ (\A j \in Position : index'[j] # t) => AsBoot(t)'
    <3>0. t # INVALID_INDEX
      BY SlotAssumption DEF Slot, INVALID_INDEX
    <3>1. CASE t = s
      <4>1. \A j \in Position : index'[j] # t
        BY <1>4, <1>5, <1>8, <3>0, <3>1
      <4>2. BootFree(s)
        BY <1>0, <1>2 DEF SlotsOK
      <4>3. AsBoot(t)'
        BY <1>0, <1>1, <1>2, <3>1, <4>2 DEF AsBoot, BootFree
      <4> QED
        BY <4>1, <4>3
    <3>2. CASE t # s
      <4>1. val'[t] = val[t] /\ ~Half(t)
        BY <1>1, <1>7, <3>2
      <4>2. \A j \in Position : index'[j] = t <=> index[j] = t
        BY <1>2, <1>4, <1>5, <3>0, <3>2
      <4>3. \A j \in Position : index'[j] = t => Holds(t, j)'
        BY <1>0, <4>1, <4>2 DEF SlotsOK, Holds
      <4>4. (\A j \in Position : index'[j] # t) => AsBoot(t)'
        BY <1>0, <4>1, <4>2 DEF SlotsOK, AsBoot
      <4> QED
        BY <4>3, <4>4
    <3> QED
      BY <3>1, <3>2
  <2> QED
    BY <2>1, <2>2, <2>3 DEF SlotsOK
<1>10. CASE phase[w] = "rollback"
  <2>1. AfterRollback(w, k) /\ ~macSwap
    BY <1>0, <1>2, <1>10 DEF Cleared
  <2>2. \A j \in Position : Installed(j)' <=> j < k /\ ~existed[w][j]
    <3>1. ASSUME NEW j \in Position PROVE Installed(j)' <=> j < k /\ ~existed[w][j]
      <4>1. CASE j = k
        BY <1>3, <1>5, <4>1 DEF Installed
      <4>2. CASE j # k
        BY <1>2, <1>3, <1>4, <1>10, <4>2
      <4> QED
        BY <4>1, <4>2
    <3> QED
      BY <3>1
  <2> QED
    BY <1>0, <1>9, <2>1, <2>2, RollbackEnds
<1>11. CASE phase[w] = "disable"
  <2>1. AfterDisable(w, k, index') /\ macSwap
    BY <1>0, <1>2, <1>11 DEF Cleared
  <2>2. \A j \in Position : Installed(j)' => j > k
    BY <1>2, <1>3, <1>4, <1>5, <1>11 DEF Installed
  <2> QED
    BY <1>0, <1>3, <1>9, <2>1, <2>2, DisableEnds
<1> QED
  BY <1>2, <1>10, <1>11

LEMMA SoloStep ==
    ASSUME NEW w \in Writer, Alone(w), WriterStep(w)
    PROVE  SlotsOK' /\ AtRest' /\ SoloOf(w)'
<1>1. CASE WriteVal(w)
  <2>1. PICK k \in Position : k = at[w]
    BY DEF Alone, TypeOK
  <2>2. PICK s \in Slot : s = slot[w]
    BY DEF Alone, TypeOK
  <2> QED
    BY <1>1, <2>1, <2>2, InstallSolo, RemoveSolo
<1>2. CASE ~WriteVal(w)
  BY <1>2, WriteOnSolo, WriteOffSolo, FindSolo, FindFreeSolo, ReadEnSolo, WriteEnSolo, ReadValSolo
     DEF WriterStep
<1> QED
  BY <1>1, <1>2

-----------------------------------------------------------------------------
LEMMA RestStep ==
    ASSUME TypeOK, RestInv, NEW w \in Writer, WriterStep(w), KeepsWith(w)
    PROVE  RestInv'
<1>1. boot' = boot
  BY DEF KeepsWith
<1>2. phase'[w] = "idle" => step'[w] = "find"
  <2>1. CASE phase[w] = "idle"
    BY <2>1 DEF TypeOK, RestInv, WriterStep, WriteOn, WriteOff, AfterDisable, Find, FindFree,
       ReadEn, WriteEn, ReadVal, WriteVal, GoTo, Idle
  <2>2. CASE phase[w] # "idle" /\ phase'[w] = "idle"
    BY <2>2 DEF TypeOK, WriterStep, WriteOn, WriteOff, Cleared, AfterEnable, AfterRollback, AfterDisable,
       Find, FindFree, ReadEn, WriteEn, ReadVal, WriteVal, GoTo, Idle
  <2> QED
    BY <2>1, <2>2
<1>3. \A x \in Writer \ {w} : phase'[x] = phase[x] /\ step'[x] = step[x]
  BY DEF KeepsWith
<1> QED
  BY <1>1, <1>2, <1>3 DEF RestInv, Boot

(* A step that has not met another writer is a step of the only one.       *)
LEMMA SoloInvStep ==
    ASSUME TypeOK, EtypeInv, RestInv, SoloInv, NEW w \in Writer, WriterStep(w), KeepsWith(w)
    PROVE  SoloInv'
<1> SUFFICES ASSUME ~overlap' PROVE SoloInv'
  BY DEF SoloInv
<1>1. Only(w) /\ ~overlap
  <2>1. CASE WriteOn(w) \/ WriteOff(w)
    BY <2>1 DEF WriteOn, WriteOff, Overlap, Only
  <2>2. CASE ~(WriteOn(w) \/ WriteOff(w))
    <3>1. phase[w] # "idle" /\ overlap' = overlap
      BY <2>2 DEF WriterStep, Find, FindFree, ReadEn, WriteEn, ReadVal, WriteVal, history, RestInv
    <3> QED
      BY <3>1 DEF SoloInv
  <2> QED
    BY <2>1, <2>2
<1>2. Alone(w)
  BY <1>1 DEF SoloInv, Alone
<1>3. SlotsOK' /\ AtRest' /\ SoloOf(w)'
  BY <1>2, SoloStep
<1>4. ASSUME NEW x \in Writer PROVE SoloOf(x)' /\ (phase'[x] # "idle" => Only(x)')
  <2>1. CASE x = w
    BY <1>2, <1>3, <2>1, HalfAfter
  <2>2. CASE x # w
    <3>1. phase'[x] = "idle" /\ step'[x] = "find"
      BY <1>1, <2>2 DEF Only, KeepsWith, RestInv
    <3> QED
      BY <3>1 DEF SoloOf, Enabling, Removing, ReadBack
  <2> QED
    BY <2>1, <2>2
<1> QED
  BY <1>3, <1>4 DEF SoloInv

LEMMA SoloInvInit == Init => RestInv /\ SoloInv
<1> SUFFICES ASSUME Init PROVE RestInv /\ SoloInv
  OBVIOUS
<1>1. Boot
  BY DEF Init, Boot, Values
<1>2. \A w \in Writer : phase[w] = "idle" /\ step[w] = "find"
  BY DEF Init
<1>3. \A k \in Position : index[k] = INVALID_INDEX
  BY DEF Init
<1>4. SlotsOK
  <2>1. \A s \in Slot : s # INVALID_INDEX
    BY SlotAssumption DEF Slot, INVALID_INDEX
  <2>2. \A s \in Slot : AsBoot(s)
    BY DEF Init, AsBoot
  <2> QED
    BY <1>3, <2>1, <2>2 DEF SlotsOK, Installed
<1>5. AtRest
  BY <1>3 DEF Init, AtRest, Installed
<1> QED
  BY <1>1, <1>2, <1>4, <1>5, IdleIsSolo DEF RestInv, SoloInv

EtypeAllInv == TypeOK /\ EtypeInv /\ RestInv /\ SoloInv

LEMMA EtypeAllStep == EtypeAllInv /\ [Next]_vars => EtypeAllInv'
<1> SUFFICES ASSUME EtypeAllInv, [Next]_vars PROVE EtypeAllInv'
  OBVIOUS
<1>1. TypeOK' /\ EtypeInv'
  BY EtypeInvStep DEF EtypeAllInv
<1>2. ASSUME NEW w \in Writer, WriterStep(w) PROVE RestInv' /\ SoloInv'
  <2>1. KeepsWith(w)
    BY <1>2, WriteOnKeeps, WriteOffKeeps, FindKeeps, FindFreeKeeps, ReadEnKeeps, WriteEnKeeps,
       ReadValKeeps, WriteValKeeps DEF WriterStep, EtypeAllInv
  <2> QED
    BY <1>2, <2>1, RestStep, SoloInvStep DEF EtypeAllInv
<1>3. CASE UNCHANGED vars
  <2>1. /\ en' = en /\ pppoe' = pppoe /\ val' = val /\ boot' = boot /\ overlap' = overlap
        /\ macSwap' = macSwap /\ index' = index /\ phase' = phase /\ step' = step /\ at' = at
        /\ slot' = slot /\ readEn' = readEn /\ readVal' = readVal /\ existed' = existed
    BY <1>3 DEF vars, regs, history, locals
  <2>2. RestInv'
    BY <2>1 DEF EtypeAllInv, RestInv, Boot
  <2>3. (\A k \in Position : Matching(k)' = Matching(k)) /\ FreeSlots' = FreeSlots
    BY <2>1 DEF Matching, FreeSlots
  <2>4. SlotsOK => SlotsOK'
    <3>1. \A s \in Slot : Half(s)' <=> Half(s)
      BY <2>1 DEF Half
    <3> QED
      BY <2>1, <3>1, SlotsKept DEF regs
  <2>5. AtRest => AtRest'
    BY <2>1, <2>3 DEF AtRest, Installed
  <2>6. ASSUME NEW w \in Writer PROVE (SoloOf(w) => SoloOf(w)') /\ (Only(w) => Only(w)')
    <3>0. at[w] \in Position
      BY DEF EtypeAllInv, TypeOK
    <3>1. Enabling(w) => Enabling(w)'
      BY <2>1, <2>3, <3>0 DEF Enabling, Installed, BootFree
    <3>2. Removing(w) => Removing(w)'
      BY <2>1 DEF Removing, Installed
    <3>3. ReadBack(w) => ReadBack(w)'
      BY <2>1 DEF ReadBack
    <3> QED
      BY <2>1, <3>1, <3>2, <3>3 DEF SoloOf, Only
  <2> QED
    BY <1>1, <2>1, <2>2, <2>4, <2>5, <2>6 DEF EtypeAllInv, SoloInv
<1> QED
  BY <1>1, <1>2, <1>3 DEF Next, EtypeAllInv

LEMMA EtypeAllCorrect == Spec => []EtypeAllInv
<1>1. Init => EtypeAllInv
  BY EtypeInvInit, SoloInvInit DEF EtypeAllInv
<1> QED
  BY <1>1, EtypeAllStep, PTL DEF Spec

(* arht_loopback.c:383: once nobody writes and as long as no two writes    *)
(* have met, mac_swap on means that the filter holds every ether type, for *)
(* any number of slots and any list of ether types, even one with repeats. *)
THEOREM ArmedHolds == Spec => []Armed
<1>1. EtypeAllInv => Armed
  BY DEF EtypeAllInv, SoloInv, AtRest, Armed, Quiet
<1> QED
  BY <1>1, EtypeAllCorrect, PTL

(* Off means off: a switch that failed half way through, or was undone,    *)
(* leaves every register as it was at boot, slot by slot, and no record.   *)
THEOREM NothingLeftHolds == Spec => []NothingLeft
<1>1. ASSUME EtypeAllInv, Quiet, ~macSwap
      PROVE  /\ en = boot.en /\ pppoe = boot.pppoe /\ val = boot.val
             /\ \A k \in Position : index[k] = INVALID_INDEX
  <2>1. \A k \in Position : ~Installed(k)
    BY <1>1 DEF EtypeAllInv, SoloInv, AtRest, Quiet
  <2>2. \A s \in Slot : ~Half(s)
    BY <1>1 DEF EtypeAllInv, RestInv, Quiet, Half, Writing
  <2>3. \A s \in Slot : \A k \in Position : index[k] # s
    BY <2>1, SlotAssumption DEF Installed, Slot, INVALID_INDEX
  <2>4. \A s \in Slot : AsBoot(s)
    BY <1>1, <2>2, <2>3 DEF EtypeAllInv, SoloInv, SlotsOK, Quiet
  <2>5. en \subseteq Slot /\ boot.en \subseteq Slot /\ pppoe \subseteq Slot /\ boot.pppoe = {}
    BY <1>1 DEF EtypeAllInv, TypeOK, RestInv, Boot
  <2>6. en = boot.en /\ pppoe = boot.pppoe
    BY <2>4, <2>5 DEF AsBoot
  <2>7. val = boot.val
    <3>1. val \in [Slot -> Values] /\ boot.val \in [Slot -> Values]
      BY <1>1 DEF EtypeAllInv, TypeOK, RestInv, Boot
    <3>2. \A s \in Slot : val[s] = boot.val[s]
      BY <2>4 DEF AsBoot
    <3> QED
      BY <3>1, <3>2
  <2> QED
    BY <2>1, <2>6, <2>7 DEF Installed
<1>2. EtypeAllInv => NothingLeft
  BY <1>1 DEF NothingLeft
<1> QED
  BY <1>2, EtypeAllCorrect, PTL
=============================================================================
