------------------------------- MODULE L2bEtype -------------------------------
(***************************************************************************)
(* The L2-bridge ether-type filter of the packet engine (arht_ppe.c,       *)
(* "L2B Ether Type Configuration Functions") and its only user, the        *)
(* mac_swap switch of /proc/hwnat_loopback (arht_loopback.c).              *)
(*                                                                         *)
(* The filter lives in registers: one EN register with an enable bit and a *)
(* pppoe bit per slot, and value registers that hold two slots each.       *)
(* Neither layer takes a lock.  A writer of the proc file therefore moves  *)
(* register access by register access; a scan over the slots is one step,  *)
(* as are the assignments to driver variables between two accesses.  The   *)
(* second engine's registers are written with the same words.              *)
(***************************************************************************)
EXTENDS Integers, Sequences, FiniteSetsExt

CONSTANTS
    L2B_ETYPE_MAX_INDEX, \* slots of the filter, an even number
    Etypes,              \* the ether types mac_swap installs, in order: <<[value, pppoe], ...>>
    DefaultValues,       \* values the registers may hold at boot, 0 among them
    Writer               \* processes that write the proc file

ASSUME SlotAssumption == L2B_ETYPE_MAX_INDEX \in Nat \ {0} /\ L2B_ETYPE_MAX_INDEX % 2 = 0
ASSUME EtypeAssumption ==
    /\ Len(Etypes) \in Nat \ {0} /\ DOMAIN Etypes = 1 .. Len(Etypes)
    /\ \A k \in DOMAIN Etypes : Etypes[k].value # 0 /\ Etypes[k].pppoe \in BOOLEAN

Slot == 0 .. L2B_ETYPE_MAX_INDEX - 1
INVALID_INDEX == -1
Position == DOMAIN Etypes
Values == DefaultValues \cup {Etypes[k].value : k \in Position} \cup {0}

(* The two slots that share a value register with s. *)
Register(s) == {t \in Slot : t \div 2 = s \div 2}

VARIABLES
    en, pppoe, val,      \* the registers, bit by bit and half by half
    boot,                \* history: what they held when the module was loaded
    overlap,             \* history: a write began while another was in progress
    macSwap,             \* hwnat_loopback_mac_swap
    index,               \* l2b_*_etype_index, by position in Etypes
    phase, step, at,     \* what a writer is doing, and for which ether type
    slot, readEn, readVal, existed  \* its local variables
regs == <<en, pppoe, val>>
locals == <<slot, readEn, readVal, existed>>
history == <<boot, overlap>>
vars == <<regs, history, macSwap, index, phase, step, at, locals>>

Phase == {"idle", "enable", "rollback", "disable"}
Step == {"find", "free", "rdEn", "wrEn", "rdVal", "wrVal"}

TypeOK ==
    /\ en \subseteq Slot /\ pppoe \subseteq Slot
    /\ val \in [Slot -> Values]
    /\ macSwap \in BOOLEAN /\ overlap \in BOOLEAN
    /\ index \in [Position -> Slot \cup {INVALID_INDEX}]
    /\ phase \in [Writer -> Phase]
    /\ step \in [Writer -> Step]
    /\ at \in [Writer -> Position]
    /\ slot \in [Writer -> Slot]
    /\ readEn \in [Writer -> [en : SUBSET Slot, pppoe : SUBSET Slot]]
    /\ readVal \in [Writer -> [Slot -> Values]]
    /\ existed \in [Writer -> [Position -> BOOLEAN]]

(* Local variables are forgotten once they are dead. *)
NoEn == [en |-> {}, pppoe |-> {}]
NoVal == [s \in Slot |-> 0]

Init ==
    /\ val \in [Slot -> DefaultValues]
    /\ en \in SUBSET {s \in Slot : val[s] # 0}
    /\ pppoe = {}
    /\ boot = [en |-> en, pppoe |-> pppoe, val |-> val]
    /\ overlap = FALSE
    /\ macSwap = FALSE
    /\ index = [k \in Position |-> INVALID_INDEX]
    /\ phase = [w \in Writer |-> "idle"]
    /\ step = [w \in Writer |-> "find"]
    /\ at = [w \in Writer |-> 1]
    /\ slot = [w \in Writer |-> 0]
    /\ readEn = [w \in Writer |-> NoEn]
    /\ readVal = [w \in Writer |-> NoVal]
    /\ existed = [w \in Writer |-> [k \in Position |-> FALSE]]

-----------------------------------------------------------------------------
(* ppe_find_l2b_ether_type_index and ppe_find_free_l2b_ether_type_index:   *)
(* the slots they would accept; both return the first.                     *)
Matching(k) ==
    {s \in Slot : s \in en /\ val[s] = Etypes[k].value /\ (s \in pppoe <=> Etypes[k].pppoe)}
FreeSlots == {s \in Slot : s \notin en /\ val[s] = 0}

(* Writer w goes on with the ether type at position k of phase p. *)
GoTo(w, p, k) ==
    /\ phase' = [phase EXCEPT ![w] = p]
    /\ at' = [at EXCEPT ![w] = k]
    /\ step' = [step EXCEPT ![w] = "find"]

Idle(w) ==
    /\ phase' = [phase EXCEPT ![w] = "idle"]
    /\ step' = [step EXCEPT ![w] = "find"]
    /\ UNCHANGED at

(* After position k: enable installs the rest and then sets the flag,      *)
(* rollback clears what enable installed before k, disable clears what is  *)
(* recorded in idx after k and then resets the flag.                       *)
(* Bug: the last ether type is left out. *)
AfterEnable_ShortOfEnd(w, k) ==
    IF k < Len(Etypes) - 1 THEN GoTo(w, "enable", k + 1) /\ UNCHANGED macSwap
    ELSE Idle(w) /\ macSwap' = TRUE

AfterEnable(w, k) ==
    IF k < Len(Etypes) THEN GoTo(w, "enable", k + 1) /\ UNCHANGED macSwap
    ELSE Idle(w) /\ macSwap' = TRUE

(* Bug: the failed switch returns without undoing anything. *)
AfterRollback_None(w, k) == Idle(w) /\ UNCHANGED macSwap

(* Bug: the rollback starts at the ether type that failed, and never       *)
(* leaves it.                                                              *)
AfterRollback_Stuck(w, k) ==
    LET left == {j \in Position : j <= k /\ ~existed[w][j]}
    IN  /\ IF left # {} THEN GoTo(w, "rollback", Max(left)) ELSE Idle(w)
        /\ UNCHANGED macSwap

AfterRollback(w, k) ==
    LET left == {j \in Position : j < k /\ ~existed[w][j]}
    IN  /\ IF left # {} THEN GoTo(w, "rollback", Max(left)) ELSE Idle(w)
        /\ UNCHANGED macSwap

AfterDisable(w, k, idx) ==
    LET left == {j \in Position : j > k /\ idx[j] # INVALID_INDEX}
    IN  IF left # {} THEN GoTo(w, "disable", Min(left)) /\ UNCHANGED macSwap
        ELSE Idle(w) /\ macSwap' = FALSE

(* The end of ppe_clear_l2b_ether_type_auto for the current ether type. *)
Cleared(w) ==
    /\ index' = [index EXCEPT ![at[w]] = INVALID_INDEX]
    /\ IF phase[w] = "rollback" THEN AfterRollback(w, at[w])
       ELSE AfterDisable(w, at[w], index')

-----------------------------------------------------------------------------
Overlap(w) == overlap' = (overlap \/ \E x \in Writer \ {w} : phase[x] # "idle")

(* airoha_hwnat_loopback_write, "mac_swap 1" and "mac_swap 0". *)
WriteOn(w) ==
    /\ phase[w] = "idle" /\ ~macSwap
    /\ GoTo(w, "enable", 1)
    /\ existed' = [existed EXCEPT ![w] = [k \in Position |-> FALSE]]
    /\ Overlap(w)
    /\ UNCHANGED <<regs, boot, macSwap, index, slot, readEn, readVal>>

WriteOff(w) ==
    /\ phase[w] = "idle" /\ macSwap
    /\ AfterDisable(w, 0, index)
    /\ Overlap(w)
    /\ UNCHANGED <<regs, boot, index, locals>>

(* The scan for the ether type. *)
Find(w) ==
    /\ phase[w] # "idle" /\ step[w] = "find"
    /\ LET k == at[w]
       IN  IF phase[w] = "enable"
           THEN IF Matching(k) # {}
                THEN /\ existed' = [existed EXCEPT ![w][k] = TRUE]
                     /\ AfterEnable(w, k)
                     /\ UNCHANGED <<index, slot>>
                ELSE /\ step' = [step EXCEPT ![w] = "free"]
                     /\ UNCHANGED <<existed, phase, at, macSwap, index, slot>>
           ELSE /\ IF Matching(k) # {}
                   THEN /\ slot' = [slot EXCEPT ![w] = Min(Matching(k))]
                        /\ step' = [step EXCEPT ![w] = "rdEn"]
                        /\ UNCHANGED <<phase, at, macSwap, index>>
                   ELSE Cleared(w) /\ UNCHANGED slot
                /\ UNCHANGED existed
    /\ UNCHANGED <<regs, history, readEn, readVal>>

(* The scan for a free slot; without one the whole switch is rolled back. *)
FindFree(w) ==
    /\ phase[w] = "enable" /\ step[w] = "free"
    /\ IF FreeSlots # {}
       THEN /\ slot' = [slot EXCEPT ![w] = Min(FreeSlots)]
            /\ step' = [step EXCEPT ![w] = "rdEn"]
            /\ UNCHANGED <<phase, at, macSwap>>
       ELSE AfterRollback(w, at[w]) /\ UNCHANGED slot
    /\ UNCHANGED <<regs, history, index, readEn, readVal, existed>>

(* ppe_set_l2b_ether_type: read and write EN, then read and write the      *)
(* value register.                                                         *)
ReadEn(w) ==
    /\ step[w] = "rdEn"
    /\ readEn' = [readEn EXCEPT ![w] = [en |-> en, pppoe |-> pppoe]]
    /\ step' = [step EXCEPT ![w] = "wrEn"]
    /\ UNCHANGED <<regs, history, macSwap, index, phase, at, slot, readVal, existed>>

WithBit(set, s, on) == IF on THEN set \cup {s} ELSE set \ {s}

WriteEn(w) ==
    /\ step[w] = "wrEn"
    /\ LET on == phase[w] = "enable"
       IN  /\ en' = WithBit(readEn[w].en, slot[w], on)
           /\ pppoe' = WithBit(readEn[w].pppoe, slot[w], on /\ Etypes[at[w]].pppoe)
    /\ step' = [step EXCEPT ![w] = "rdVal"]
    /\ readEn' = [readEn EXCEPT ![w] = NoEn]
    /\ UNCHANGED <<val, history, macSwap, index, phase, at, slot, readVal, existed>>

ReadVal(w) ==
    /\ step[w] = "rdVal"
    /\ readVal' = [readVal EXCEPT ![w] =
                     [s \in Slot |-> IF s \in Register(slot[w]) THEN val[s] ELSE 0]]
    /\ step' = [step EXCEPT ![w] = "wrVal"]
    /\ UNCHANGED <<regs, history, macSwap, index, phase, at, slot, readEn, existed>>

(* Bug: the register is written without what its other half held. *)
NewVal_Clobber(w, v) ==
    [s \in Slot |-> IF s = slot[w] THEN v ELSE IF s \in Register(slot[w]) THEN 0 ELSE val[s]]

NewVal(w, v) ==
    [s \in Slot |-> IF s = slot[w] THEN v
                    ELSE IF s \in Register(slot[w]) THEN readVal[w][s] ELSE val[s]]

WriteVal(w) ==
    /\ step[w] = "wrVal"
    /\ IF phase[w] = "enable"
       THEN /\ val' = NewVal(w, Etypes[at[w]].value)
            /\ index' = [index EXCEPT ![at[w]] = slot[w]]
            /\ AfterEnable(w, at[w])
       ELSE val' = NewVal(w, 0) /\ Cleared(w)
    /\ readVal' = [readVal EXCEPT ![w] = NoVal]
    /\ slot' = [slot EXCEPT ![w] = 0]
    /\ UNCHANGED <<en, pppoe, history, readEn, existed>>

WriterStep(w) ==
    \/ WriteOn(w)
    \/ WriteOff(w)
    \/ Find(w)
    \/ FindFree(w)
    \/ ReadEn(w)
    \/ WriteEn(w)
    \/ ReadVal(w)
    \/ WriteVal(w)

Next == \E w \in Writer : WriterStep(w)

(* A writer inside the kernel keeps running until its system call returns. *)
Fairness == \A w \in Writer :
    WF_vars(Find(w) \/ FindFree(w) \/ ReadEn(w) \/ WriteEn(w) \/ ReadVal(w) \/ WriteVal(w))

Spec == Init /\ [][Next]_vars /\ Fairness

-----------------------------------------------------------------------------
(* Nobody writes, and no two writes have ever met: what the unlocked       *)
(* register accesses do to each other otherwise is not claimed.            *)
Quiet == ~overlap /\ \A w \in Writer : phase[w] = "idle"

(* arht_loopback.c:383, "Packets with etype 0x0800/0x86dd/PPPoE(0x0021/    *)
(* 0x0057) will use 3-tuple/5-tuple acceleration rules": once no write is  *)
(* in progress, mac_swap on means that every ether type is installed.      *)
Armed == Quiet /\ macSwap => \A k \in Position : Matching(k) # {}

(* Off means off: switched off, or failed for want of a free slot half way *)
(* through, the filter holds what it held at boot, slot by slot.           *)
NothingLeft ==
    Quiet /\ ~macSwap =>
        /\ en = boot.en /\ pppoe = boot.pppoe /\ val = boot.val
        /\ \A k \in Position : index[k] = INVALID_INDEX

(* arht_loopback.c:409, "Pre-existing entries (not configured by this      *)
(* module) are not cleared", nor overwritten, at any moment and however    *)
(* two writers interleave: an enabled entry, or a default value that is    *)
(* not enabled, survives every switch.                                     *)
PreExistingKept ==
    \A s \in Slot : boot.val[s] # 0 =>
        /\ val[s] = boot.val[s]
        /\ s \in en <=> s \in boot.en

(* A switch never hangs between two ether types: the writer returns, even  *)
(* if another keeps taking the slots it has found free.                    *)
SwitchReturns == \A w \in Writer : phase[w] # "idle" ~> phase[w] = "idle"
=============================================================================
